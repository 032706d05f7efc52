------------------------------ MODULE Sv39Proofs ------------------------------
(***************************************************************************)
(* Theorems about Sv39, for any memory, any number of entries in a table   *)
(* and any place of the kernel: the boot's gigapages stay, and the walk    *)
(* finds the entry that the hardware translates by.                        *)
(***************************************************************************)
EXTENDS Sv39, TLAPS

(* The two entries that start.s writes, as far as it has come.             *)
BootEntries ==
  /\ boot \in {"map_high", "done"} => mem[BootRoot][BootStart[3]] = BootPTE(BootStart)
  /\ boot = "done" => mem[BootRoot][HighStart[3]] = BootPTE(BootStart)

IInv == TablesTypeOK /\ BootEntries

LEMMA BootTypes ==
  /\ BootRoot \in Frames /\ BootStart \in Frames /\ Gigapage(BootStart) \in Frames
  /\ BootStart[3] \in Index /\ HighStart[3] \in Index /\ HighStart[3] # BootStart[3]
  /\ BootPTE(BootStart) \in PTE
<1>1. BootRoot \in Frames /\ BootStart \in Frames /\ Gigapage(BootStart) \in Frames
  BY PagesAssumption
<1>2. BootStart[1] \in Index /\ BootStart[2] \in Index /\ BootStart[3] \in Index
  BY PagesAssumption DEF VirtualPages
<1>3. HighStart[3] = BootStart[3] + RegionVpn /\ HighStart[3] \in Index
  BY PagesAssumption DEF VirtualPages, HighStart
<1>4. HighStart[3] # BootStart[3]
  <2>1. BootStart[3] \in Nat /\ RegionVpn \in Nat \ {0}
    BY <1>2, PagesAssumption
  <2>2. \A n \in Nat, k \in Nat \ {0} : n + k # n
    OBVIOUS
  <2>3. BootStart[3] + RegionVpn # BootStart[3]
    BY <2>1, <2>2
  <2> QED
    BY <1>3, <2>3
<1>5. BootPTE(BootStart) \in PTE
  BY <1>1 DEF BootPTE, PTE
<1> QED
  BY <1>1, <1>2, <1>3, <1>4, <1>5

LEMMA InitIInv == TablesInit => IInv
<1> SUFFICES ASSUME TablesInit PROVE IInv
  OBVIOUS
<1>1. Clear \in PTE
  BY BootTypes DEF Clear, PTE
<1> QED
  BY <1>1, EditsAssumption DEF TablesInit, IInv, TablesTypeOK, BootEntries

(* A write of one entry of one table.                                      *)
LEMMA OneEntry ==
  ASSUME mem \in [Frames -> [Index -> PTE]], NEW frame \in Frames, NEW index \in Index,
         NEW pte \in PTE, mem' = [mem EXCEPT ![frame][index] = pte]
  PROVE  /\ mem' \in [Frames -> [Index -> PTE]]
         /\ mem'[frame][index] = pte
         /\ \A f \in Frames, i \in Index : f # frame \/ i # index => mem'[f][i] = mem[f][i]
OBVIOUS

LEMMA MarkIInv ==
  ASSUME IInv, NEW frame \in Frames, NEW index \in Index, NEW flag \in Flags,
         MarkPTE(frame, index, flag)
  PROVE  IInv'
<1> DEFINE pte == Marked(mem[frame][index], flag)
<1>1. mem \in [Frames -> [Index -> PTE]] /\ mem[frame][index] \in PTE
  BY DEF IInv, TablesTypeOK
<1>2. pte \in PTE /\ pte.ppn = mem[frame][index].ppn
      /\ pte.flags = mem[frame][index].flags \cup {flag}
  BY <1>1 DEF Marked, PTE
<1>3. mem' = [mem EXCEPT ![frame][index] = pte]
  BY DEF MarkPTE
<1>4. /\ mem' \in [Frames -> [Index -> PTE]] /\ mem'[frame][index] = pte
      /\ \A f \in Frames, i \in Index : f # frame \/ i # index => mem'[f][i] = mem[f][i]
  <2> HIDE DEF pte
  <2> QED
    BY <1>1, <1>2, <1>3, OneEntry
<1>5. boot' = boot /\ edits' \in 0 .. MaxEdits
  BY EditsAssumption DEF MarkPTE, Edit, IInv, TablesTypeOK
<1>6. mem[frame][index] = BootPTE(BootStart) => pte = BootPTE(BootStart)
  <2> SUFFICES ASSUME mem[frame][index] = BootPTE(BootStart)
               PROVE  pte = BootPTE(BootStart)
    OBVIOUS
  <2>1. mem[frame][index] = [flags |-> Flags, ppn |-> Gigapage(BootStart)]
    BY DEF BootPTE
  <2>2. pte = [flags |-> Flags \cup {flag}, ppn |-> Gigapage(BootStart)]
    BY <2>1 DEF Marked
  <2>3. Flags \cup {flag} = Flags
    OBVIOUS
  <2> QED
    BY <2>2, <2>3 DEF BootPTE
<1>7. BootEntries'
  <2> HIDE DEF pte
  <2>1. \A i \in Index : mem[BootRoot][i] = BootPTE(BootStart)
                           => mem'[BootRoot][i] = BootPTE(BootStart)
    BY <1>4, <1>6, BootTypes
  <2>2. HighStart' = HighStart /\ BootPTE(BootStart)' = BootPTE(BootStart)
    BY DEF HighStart, BootPTE, Gigapage, Flags
  <2> QED
    BY <2>1, <2>2, <1>5, BootTypes DEF IInv, BootEntries
<1> QED
  BY <1>4, <1>5, <1>7 DEF IInv, TablesTypeOK

LEMMA WriteIInv ==
  ASSUME IInv, NEW frame \in Frames, NEW index \in Index, WritePTE(frame, index)
  PROVE  IInv'
<1>1. PICK ppn \in Frames, flags \in {{}, {"V"}} :
        mem' = [mem EXCEPT ![frame][index] = [flags |-> flags, ppn |-> ppn]]
  BY DEF WritePTE
<1>2. [flags |-> flags, ppn |-> ppn] \in PTE
  BY DEF PTE, Flags
<1>3. /\ mem' \in [Frames -> [Index -> PTE]]
      /\ \A f \in Frames, i \in Index : f # frame \/ i # index => mem'[f][i] = mem[f][i]
  BY <1>1, <1>2, OneEntry DEF IInv, TablesTypeOK
<1>4. boot' = boot /\ edits' \in 0 .. MaxEdits
  BY EditsAssumption DEF WritePTE, Edit, IInv, TablesTypeOK
<1>5. BootEntries'
  BY <1>3, <1>4, BootTypes DEF IInv, BootEntries, WritePTE
<1> QED
  BY <1>3, <1>4, <1>5 DEF IInv, TablesTypeOK

LEMMA NextIInv == IInv /\ [TablesNext]_tableVars => IInv'
<1> SUFFICES ASSUME IInv, [TablesNext]_tableVars PROVE IInv'
  OBVIOUS
<1>1. CASE MapIdentity
  <2>1. mem' = [mem EXCEPT ![BootRoot][BootStart[3]] = BootPTE(BootStart)]
    BY <1>1 DEF MapIdentity, BootMap
  <2>2. mem' \in [Frames -> [Index -> PTE]]
        /\ mem'[BootRoot][BootStart[3]] = BootPTE(BootStart)
    BY <2>1, BootTypes, OneEntry DEF IInv, TablesTypeOK
  <2> QED
    BY <1>1, <2>2 DEF MapIdentity, IInv, TablesTypeOK, BootEntries
<1>2. CASE MapHigh
  <2>1. mem' = [mem EXCEPT ![BootRoot][HighStart[3]] = BootPTE(BootStart)]
    BY <1>2 DEF MapHigh, BootMap
  <2>2. /\ mem' \in [Frames -> [Index -> PTE]]
        /\ mem'[BootRoot][HighStart[3]] = BootPTE(BootStart)
        /\ mem'[BootRoot][BootStart[3]] = mem[BootRoot][BootStart[3]]
    BY <2>1, BootTypes, OneEntry DEF IInv, TablesTypeOK
  <2> QED
    BY <1>2, <2>2 DEF MapHigh, IInv, TablesTypeOK, BootEntries
<1>3. ASSUME NEW entry \in Entries,
             \/ MarkPTEValid(entry[1], entry[2]) \/ MarkPTEReadable(entry[1], entry[2])
             \/ MarkPTEWritable(entry[1], entry[2]) \/ MarkPTEExecutable(entry[1], entry[2])
      PROVE  IInv'
  <2>1. entry[1] \in Frames /\ entry[2] \in Index
    BY PagesAssumption
  <2>2. PICK flag \in Flags : MarkPTE(entry[1], entry[2], flag)
    BY <1>3 DEF MarkPTEValid, MarkPTEReadable, MarkPTEWritable, MarkPTEExecutable, Flags
  <2> QED
    BY <2>1, <2>2, MarkIInv
<1>4. ASSUME NEW entry \in Entries, WritePTE(entry[1], entry[2])
      PROVE  IInv'
  BY <1>4, PagesAssumption, WriteIInv
<1>5. CASE UNCHANGED tableVars
  BY <1>5 DEF tableVars, IInv, TablesTypeOK, BootEntries
<1> QED
  BY <1>1, <1>2, <1>3, <1>4, <1>5 DEF TablesNext

(* The tables, the boot's progress and the bound are of their types for    *)
(* every size of a table and of memory, and the boot's entries are kept.   *)
THEOREM TypeCorrect == TablesSpec => []TablesTypeOK
<1>1. IInv => TablesTypeOK
  BY DEF IInv
<1> QED
  BY <1>1, InitIInv, NextIInv, PTL DEF TablesSpec

-----------------------------------------------------------------------------

(* A gigapage of the kernel in the boot root takes a page to its frame.    *)
LEMMA GigapageMaps ==
  ASSUME NEW page, mem[BootRoot][page[3]] = BootPTE(BootStart)
  PROVE  MapsTo(page, <<page[1], page[2], BootStart[3]>>)
<1> DEFINE pte == mem[BootRoot][page[3]]
<1>1. pte.flags = Flags /\ pte.ppn = <<0, 0, BootStart[3]>>
  BY DEF BootPTE, Gigapage
<1>2. IsPTEValid(pte) /\ ~Reserved(pte) /\ HasAccess(pte) /\ "R" \in pte.flags
  BY <1>1 DEF IsPTEValid, Reserved, HasAccess, Flags
<1>3. ~Misaligned(pte, 2)
  <2>1. \A k \in 1 .. 2 : k = 1 \/ k = 2
    OBVIOUS
  <2> QED
    BY <1>1, <2>1 DEF Misaligned
<1>4. \A next : TranslateAt(BootRoot, page[3], 2, next) = <<BootRoot, page[3]>>
  BY <1>2, <1>3 DEF TranslateAt
<1>5. Translate(BootRoot, page) = <<BootRoot, page[3]>>
  BY <1>4 DEF Translate
<1> QED
  BY <1>1, <1>2, <1>5 DEF MapsTo

LEMMA BootMapFromIInv == IInv => BootMapHolds
<1> SUFFICES ASSUME IInv, boot = "done", NEW frame \in Frames, frame[3] = BootStart[3]
             PROVE  /\ MapsTo(frame, frame)
                    /\ MapsTo(<<frame[1], frame[2], HighStart[3]>>, frame)
  BY DEF BootMapHolds
<1>1. frame = <<frame[1], frame[2], BootStart[3]>>
  BY PagesAssumption DEF VirtualPages
<1>2. mem[BootRoot][BootStart[3]] = BootPTE(BootStart)
      /\ mem[BootRoot][HighStart[3]] = BootPTE(BootStart)
  BY DEF IInv, BootEntries
<1>3. MapsTo(frame, frame)
  BY <1>1, <1>2, GigapageMaps
<1>4. MapsTo(<<frame[1], frame[2], HighStart[3]>>, frame)
  <2> DEFINE page == <<frame[1], frame[2], HighStart[3]>>
  <2>1. page[1] = frame[1] /\ page[2] = frame[2] /\ page[3] = HighStart[3]
    OBVIOUS
  <2>2. mem[BootRoot][page[3]] = BootPTE(BootStart)
    BY <1>2, <2>1
  <2> HIDE DEF page
  <2>3. MapsTo(page, <<page[1], page[2], BootStart[3]>>)
    BY <2>2, GigapageMaps
  <2> QED
    BY <1>1, <2>1, <2>3 DEF page
<1> QED
  BY <1>3, <1>4

(* Wherever the kernel lies, no marks and writes of other entries make its *)
(* own pages, or its high ones, go anywhere but to the frames it runs in.  *)
THEOREM KernelStaysMapped == TablesSpec => []BootMapHolds
<1> QED
  BY BootMapFromIInv, InitIInv, NextIInv, PTL DEF TablesSpec

-----------------------------------------------------------------------------

(* One round of the walk, by what it reads, and a round after the last.    *)
LEMMA RoundCases ==
  ASSUME NEW table, NEW vpn
  PROVE  LET walk == [table |-> table, found |-> Searching]
             pte == mem[table][vpn]
         IN  /\ ~Readable(table) => Round(walk, vpn).found = Fault
             /\ Readable(table) /\ ~IsPTEValid(pte) => Round(walk, vpn).found = NoEntry
             /\ Readable(table) /\ IsPTEValid(pte) /\ HasAccess(pte)
                  => Round(walk, vpn).found = <<table, vpn>>
             /\ Readable(table) /\ IsPTEValid(pte) /\ ~HasAccess(pte)
                  => Round(walk, vpn) = [table |-> pte.ppn, found |-> Searching]
BY DEF Round, IsPTELeaf

LEMMA RoundOver ==
  ASSUME NEW walk, NEW vpn, walk.found # Searching
  PROVE  Round(walk, vpn) = walk
BY DEF Round

(* What the two properties ask of a walk's answer.                         *)
Agrees(found, hardware) ==
  /\ hardware # Fault => found \in {hardware, Fault}
  /\ found \notin {NoEntry, Fault} =>
       /\ IsPTELeaf(mem[found[1]][found[2]])
       /\ hardware \in {found, Fault}
       /\ hardware = Fault =>
            \/ Reserved(mem[found[1]][found[2]])
            \/ Misaligned(mem[found[1]][found[2]], 2)

LEMMA EntriesAreNoValues ==
  ASSUME NEW frame \in Frames, NEW index \in Index
  PROVE  <<frame, index>> \notin {NoEntry, Fault, Searching}
BY NoValues

(* The walk and the hardware at the table where the walk stops.            *)
LEMMA StopAgrees ==
  ASSUME NEW frame \in Frames, NEW index \in Index, NEW level \in 0 .. 2,
         NEW next, NEW found,
         \/ found = Fault
         \/ found = NoEntry /\ ~IsPTEValid(mem[frame][index])
         \/ /\ found = <<frame, index>>
            /\ IsPTEValid(mem[frame][index]) /\ HasAccess(mem[frame][index])
  PROVE  Agrees(found, TranslateAt(frame, index, level, next))
<1> DEFINE pte == mem[frame][index]
           hardware == TranslateAt(frame, index, level, next)
<1>1. CASE found = Fault
  BY <1>1 DEF Agrees
<1>2. CASE found = NoEntry /\ ~IsPTEValid(pte)
  BY <1>2 DEF Agrees, TranslateAt
<1>3. CASE found = <<frame, index>> /\ IsPTEValid(pte) /\ HasAccess(pte)
  <2>1. hardware \in {Fault, found}
        /\ (hardware = Fault => Reserved(pte) \/ Misaligned(pte, level))
    BY <1>3, EntriesAreNoValues DEF TranslateAt
  <2>2. Misaligned(pte, level) => Misaligned(pte, 2)
    BY DEF Misaligned
  <2>3. found[1] = frame /\ found[2] = index
    BY <1>3
  <2>4. IsPTELeaf(pte)
    BY <1>3 DEF IsPTELeaf
  <2> HIDE DEF hardware, pte
  <2>5. mem[found[1]][found[2]] = pte
    BY <2>3 DEF pte
  <2>6. Agrees(found, hardware)
    BY <2>1, <2>2, <2>4, <2>5 DEF Agrees
  <2> QED
    BY <2>6 DEF hardware
<1> QED
  BY <1>1, <1>2, <1>3

LEMMA PointerGoesOn ==
  ASSUME NEW frame, NEW index, NEW level, NEW next,
         IsPTEValid(mem[frame][index]), ~HasAccess(mem[frame][index])
  PROVE  TranslateAt(frame, index, level, next) = next
BY DEF TranslateAt, Reserved, HasAccess

(* A round that does not go on to another table.                           *)
LEMMA RoundStops ==
  ASSUME NEW frame \in Frames, NEW index \in Index, NEW walk,
         walk = [table |-> frame, found |-> Searching],
         \/ ~Readable(frame) \/ ~IsPTEValid(mem[frame][index])
         \/ HasAccess(mem[frame][index])
  PROVE  LET found == Round(walk, index).found IN
         /\ found # Searching
         /\ \/ found = Fault /\ ~Readable(frame)
            \/ found = NoEntry /\ ~IsPTEValid(mem[frame][index])
            \/ /\ found = <<frame, index>>
               /\ IsPTEValid(mem[frame][index]) /\ HasAccess(mem[frame][index])
<1>1. CASE ~Readable(frame)
  BY <1>1, RoundCases, NoValues
<1>2. CASE Readable(frame) /\ ~IsPTEValid(mem[frame][index])
  BY <1>2, RoundCases, NoValues
<1>3. CASE /\ Readable(frame) /\ IsPTEValid(mem[frame][index])
           /\ HasAccess(mem[frame][index])
  BY <1>3, RoundCases, EntriesAreNoValues
<1> QED
  BY <1>1, <1>2, <1>3

(* The walk against the hardware, table by table, for every memory.        *)
LEMMA WalkAgrees ==
  ASSUME TablesTypeOK, NEW root \in Frames, NEW page \in VirtualPages
  PROVE  /\ Agrees(WalkPageTable(root, page), Translate(root, page))
         /\ WalkPageTable(root, page) = Fault =>
              \/ ~Readable(root)
              \/ \E frame \in Frames, index \in Index :
                   IsPTEValid(mem[frame][index]) /\ ~Readable(mem[frame][index].ppn)
<1> DEFINE e2 == mem[root][page[3]]
           e1 == mem[e2.ppn][page[2]]
           e0 == mem[e1.ppn][page[1]]
           walk2 == Round([table |-> root, found |-> Searching], page[3])
           walk1 == Round(walk2, page[2])
           walk0 == Round(walk1, page[1])
           found == WalkPageTable(root, page)
           at0 == TranslateAt(e1.ppn, page[1], 0, Fault)
           at1 == TranslateAt(e2.ppn, page[2], 1, at0)
           at2 == TranslateAt(root, page[3], 2, at1)
<1>1. page[1] \in Index /\ page[2] \in Index /\ page[3] \in Index
  BY DEF VirtualPages
<1>2. e2.ppn \in Frames /\ e1.ppn \in Frames
  BY <1>1 DEF TablesTypeOK, PTE
<1>3. found = IF walk0.found = Searching THEN NoEntry ELSE walk0.found
  BY DEF WalkPageTable, Levels
<1>4. Translate(root, page) = at2
  BY DEF Translate
<1>5. 0 \in 0 .. 2 /\ 1 \in 0 .. 2 /\ 2 \in 0 .. 2
  OBVIOUS
<1> HIDE DEF walk2, walk1, walk0, found
<1>6. CASE ~Readable(root) \/ ~IsPTEValid(e2) \/ HasAccess(e2)
  <2>1. /\ walk2.found # Searching
        /\ \/ walk2.found = Fault /\ ~Readable(root)
           \/ walk2.found = NoEntry /\ ~IsPTEValid(e2)
           \/ walk2.found = <<root, page[3]>> /\ IsPTEValid(e2) /\ HasAccess(e2)
    BY <1>1, <1>6, RoundStops DEF walk2
  <2>2. found = walk2.found
    BY <1>3, <2>1, RoundOver DEF walk0, walk1
  <2>3. Agrees(found, at2)
    BY <1>1, <1>5, <2>1, <2>2, StopAgrees
  <2>4. found = Fault => ~Readable(root)
    BY <1>1, <2>1, <2>2, EntriesAreNoValues, NoValues
  <2> QED
    BY <1>4, <2>3, <2>4 DEF found
<1>7. CASE Readable(root) /\ IsPTEValid(e2) /\ ~HasAccess(e2)
  <2>1. walk2 = [table |-> e2.ppn, found |-> Searching]
    BY <1>7, RoundCases DEF walk2
  <2>2. at2 = at1
    BY <1>7, PointerGoesOn
  <2>3. CASE ~Readable(e2.ppn) \/ ~IsPTEValid(e1) \/ HasAccess(e1)
    <3>1. /\ walk1.found # Searching
          /\ \/ walk1.found = Fault /\ ~Readable(e2.ppn)
             \/ walk1.found = NoEntry /\ ~IsPTEValid(e1)
             \/ walk1.found = <<e2.ppn, page[2]>> /\ IsPTEValid(e1) /\ HasAccess(e1)
      BY <1>1, <1>2, <2>1, <2>3, RoundStops DEF walk1
    <3>2. found = walk1.found
      BY <1>3, <3>1, RoundOver DEF walk0
    <3>3. Agrees(found, at1)
      BY <1>1, <1>2, <1>5, <3>1, <3>2, StopAgrees
    <3>4. found = Fault => ~Readable(e2.ppn)
      BY <1>1, <1>2, <3>1, <3>2, EntriesAreNoValues, NoValues
    <3> QED
      BY <1>1, <1>4, <1>7, <2>2, <3>3, <3>4 DEF found
  <2>4. CASE Readable(e2.ppn) /\ IsPTEValid(e1) /\ ~HasAccess(e1)
    <3>1. walk1 = [table |-> e1.ppn, found |-> Searching]
      BY <2>1, <2>4, RoundCases DEF walk1
    <3>2. at1 = at0
      BY <2>4, PointerGoesOn
    <3>3. CASE ~Readable(e1.ppn) \/ ~IsPTEValid(e0) \/ HasAccess(e0)
      <4>1. /\ walk0.found # Searching
            /\ \/ walk0.found = Fault /\ ~Readable(e1.ppn)
               \/ walk0.found = NoEntry /\ ~IsPTEValid(e0)
               \/ walk0.found = <<e1.ppn, page[1]>> /\ IsPTEValid(e0) /\ HasAccess(e0)
        BY <1>1, <1>2, <3>1, <3>3, RoundStops DEF walk0
      <4>2. Agrees(found, at0)
        BY <1>1, <1>2, <1>3, <1>5, <4>1, StopAgrees
      <4>3. found = Fault => ~Readable(e1.ppn)
        BY <1>1, <1>2, <1>3, <4>1, EntriesAreNoValues, NoValues
      <4>4. found = Fault => \E frame \in Frames, index \in Index :
                               IsPTEValid(mem[frame][index]) /\ ~Readable(mem[frame][index].ppn)
        <5> DEFINE Frame1 == e2.ppn
        <5>1. Frame1 \in Frames /\ IsPTEValid(mem[Frame1][page[2]])
              /\ (found = Fault => ~Readable(mem[Frame1][page[2]].ppn))
          BY <1>2, <2>4, <4>3
        <5> HIDE DEF Frame1
        <5> QED
          BY <1>1, <5>1
      <4> HIDE DEF at0, at1, at2
      <4> QED
        BY <1>4, <2>2, <3>2, <4>2, <4>4 DEF found
    <3>4. CASE Readable(e1.ppn) /\ IsPTEValid(e0) /\ ~HasAccess(e0)
      <4>1. walk0.found = Searching
        <5>1. walk0 = [table |-> e0.ppn, found |-> Searching]
          BY <3>1, <3>4, RoundCases DEF walk0
        <5> QED
          BY <5>1
      <4>2. found = NoEntry /\ at0 = Fault
        BY <1>3, <3>4, <4>1, PointerGoesOn
      <4>3. Agrees(found, at0) /\ found # Fault
        BY <4>2, NoValues DEF Agrees
      <4> QED
        BY <1>4, <2>2, <3>2, <4>3 DEF found
    <3> QED
      BY <3>3, <3>4
  <2> QED
    BY <2>3, <2>4
<1> QED
  BY <1>6, <1>7

(* For any tables the walk finds the entry that the hardware translates by *)
(* if it can read the way there, as it always can inside the gigapage.     *)
THEOREM WalkCorrect == TablesSpec => []WalkFindsTranslation
<1>1. IInv => WalkFindsTranslation
  <2> SUFFICES ASSUME IInv, boot = "done", NEW root \in Frames, NEW page \in VirtualPages
               PROVE  /\ Translate(root, page) # Fault =>
                           WalkPageTable(root, page) \in {Translate(root, page), Fault}
                      /\ WalkPageTable(root, page) = Fault =>
                           \/ root[3] # BootStart[3]
                           \/ \E frame \in Frames, index \in Index :
                                IsPTEValid(mem[frame][index])
                                /\ mem[frame][index].ppn[3] # BootStart[3]
    BY DEF WalkFindsTranslation
  <2>1. \A frame \in Frames : frame[3] = BootStart[3] => Readable(frame)
    BY BootMapFromIInv DEF BootMapHolds, Readable
  <2>2. \A frame \in Frames, index \in Index : mem[frame][index].ppn \in Frames
    BY DEF IInv, TablesTypeOK, PTE
  <2> QED
    BY <2>1, <2>2, WalkAgrees DEF IInv, Agrees
<1> QED
  BY <1>1, InitIInv, NextIInv, PTL DEF TablesSpec

(* What the walk finds is a valid leaf, and the only entry the hardware    *)
(* could use; it rejects it only as reserved or misaligned.                *)
THEOREM FoundCorrect == TablesSpec => []FoundIsTheLeaf
<1>1. IInv => FoundIsTheLeaf
  BY WalkAgrees DEF IInv, Agrees, FoundIsTheLeaf
<1> QED
  BY <1>1, InitIInv, NextIInv, PTL DEF TablesSpec

===============================================================================
