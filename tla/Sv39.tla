--------------------------------- MODULE Sv39 ---------------------------------
(***************************************************************************)
(* The page tables: the two gigapages that start.s maps, and the marks and *)
(* the walk of sv39_vm.c.                                                  *)
(*                                                                         *)
(* A page number, virtual or physical, is <<VPN0, VPN1, VPN2>>.  rv64_vm.h *)
(* is not in the repository: that there are three levels of fields of one  *)
(* width is taken from Sv39.  The walk follows physical addresses as if    *)
(* they were virtual, so it can read a table only where the live page      *)
(* table, the boot root, maps the table's frame to itself.                 *)
(***************************************************************************)
EXTENDS Integers, Sequences

CONSTANTS
  Index,       (* 0 .. SRV_PAGING_PTE_PER_TABLE - 1 *)
  Frames,      (* the physical pages there are *)
  BootRoot,    (* the frame of __boot_root_page_table *)
  BootStart,   (* the page of __boot_start *)
  RegionVpn,   (* how far 0xFFFFFFFF00000000 moves VPN2 *)
  Entries,     (* the entries that callers mark and write *)
  MaxEdits,    (* bound: how often they do *)
  NoEntry, Fault, Searching

VARIABLES
  mem,         (* the entries of the table in each frame *)
  boot,        (* what of start.s is done *)
  edits        (* history: the number of marks and writes *)

tableVars == <<mem, boot, edits>>

Flags == {"V", "R", "W", "X"}
PTE == [flags : SUBSET Flags, ppn : Frames]
VirtualPages == Index \X Index \X Index

Gigapage(page) == <<0, 0, page[3]>>
HighStart == <<BootStart[1], BootStart[2], BootStart[3] + RegionVpn>>

ASSUME PagesAssumption ==
  /\ Index \subseteq Nat /\ 0 \in Index
  /\ Frames \subseteq VirtualPages
  /\ {BootRoot, BootStart, Gigapage(BootStart)} \subseteq Frames
  /\ BootRoot[3] = BootStart[3]
  /\ RegionVpn \in Nat \ {0} /\ HighStart \in VirtualPages
  /\ Entries \subseteq Frames \X Index
ASSUME NoValues ==
  /\ {NoEntry, Fault, Searching} \cap (Frames \X Index) = {}
  /\ NoEntry # Fault /\ NoEntry # Searching /\ Fault # Searching
ASSUME EditsAssumption == MaxEdits \in Nat

Clear == [flags |-> {}, ppn |-> BootStart]

TablesInit ==
  /\ mem = [f \in Frames |-> [i \in Index |-> Clear]]
  /\ boot = "map_identity"
  /\ edits = 0

(* __boot_map_virt_to_phys: the flags are 0xF.                             *)
BootPTE_InPpn0(physical) == [flags |-> Flags, ppn |-> <<physical[3], 0, 0>>]

BootPTE(physical) == [flags |-> Flags, ppn |-> Gigapage(physical)]

BootMap_ByPhysical(virtual, physical) ==
  mem' = [mem EXCEPT ![BootRoot][physical[3]] = BootPTE(physical)]

BootMap(virtual, physical) ==
  mem' = [mem EXCEPT ![BootRoot][virtual[3]] = BootPTE(physical)]

MapIdentity ==
  /\ boot = "map_identity"
  /\ BootMap(BootStart, BootStart)
  /\ boot' = "map_high"
  /\ UNCHANGED edits

(* The write of satp follows, and nothing changes satp again.              *)
MapHigh ==
  /\ boot = "map_high"
  /\ BootMap(HighStart, BootStart)
  /\ boot' = "done"
  /\ UNCHANGED edits

Edit == boot = "done" /\ edits < MaxEdits /\ edits' = edits + 1 /\ UNCHANGED boot

(* srv_hal_MarkPTE{Valid,Readable,Writable,Executable}.                    *)
Marked(pte, flag) == [pte EXCEPT !.flags = @ \cup {flag}]

MarkPTE(frame, index, flag) ==
  /\ Edit
  /\ mem' = [mem EXCEPT ![frame][index] = Marked(@, flag)]

MarkPTEValid(frame, index) == MarkPTE(frame, index, "V")
MarkPTEReadable(frame, index) == MarkPTE(frame, index, "R")
MarkPTEWritable(frame, index) == MarkPTE(frame, index, "W")
MarkPTEExecutable(frame, index) == MarkPTE(frame, index, "X")

(* A caller points an entry, not one of the boot's, at a frame.            *)
WritePTE(frame, index) ==
  /\ frame # BootRoot \/ index \notin {BootStart[3], HighStart[3]}
  /\ Edit
  /\ \E ppn \in Frames, flags \in {{}, {"V"}} :
       mem' = [mem EXCEPT ![frame][index] = [flags |-> flags, ppn |-> ppn]]

TablesNext ==
  \/ MapIdentity \/ MapHigh
  \/ \E entry \in Entries :
       \/ MarkPTEValid(entry[1], entry[2]) \/ MarkPTEReadable(entry[1], entry[2])
       \/ MarkPTEWritable(entry[1], entry[2]) \/ MarkPTEExecutable(entry[1], entry[2])
       \/ WritePTE(entry[1], entry[2])

TablesSpec == TablesInit /\ [][TablesNext]_tableVars

-----------------------------------------------------------------------------

IsPTEValid(pte) == "V" \in pte.flags

HasAccess(pte) == pte.flags \cap {"R", "W", "X"} # {}

IsPTELeaf_Readable(pte) == "R" \in pte.flags

IsPTELeaf(pte) == HasAccess(pte) /\ IsPTEValid(pte)

(* What the hardware does with an entry at a level, and what it goes on to *)
(* if the entry is a pointer: a fault without V or with W and not R, or at *)
(* a superpage that is not aligned.                                        *)
Reserved(pte) == "W" \in pte.flags /\ "R" \notin pte.flags
Misaligned(pte, level) == \E k \in 1 .. level : pte.ppn[k] # 0

TranslateAt(frame, index, level, next) ==
  LET pte == mem[frame][index] IN
  IF ~IsPTEValid(pte) \/ Reserved(pte) THEN Fault
  ELSE IF ~HasAccess(pte) THEN next
  ELSE IF Misaligned(pte, level) THEN Fault
  ELSE <<frame, index>>

(* The entry by which the hardware translates a page, or Fault.            *)
Translate(root, page) ==
  LET table1 == mem[root][page[3]].ppn
      table0 == mem[table1][page[2]].ppn
  IN  TranslateAt(root, page[3], 2,
        TranslateAt(table1, page[2], 1,
          TranslateAt(table0, page[1], 0, Fault)))

(* The gigapages of the live page table give the frame of an address.      *)
MapsTo(page, frame) ==
  /\ Translate(BootRoot, page) = <<BootRoot, page[3]>>
  /\ "R" \in mem[BootRoot][page[3]].flags
  /\ frame = <<page[1], page[2], mem[BootRoot][page[3]].ppn[3]>>

Readable(frame) == MapsTo(frame, frame)

(* One round of the loop of srv_hal_WalkPageTable.                         *)
Round(walk, vpn) ==
  LET pte == mem[walk.table][vpn] IN
  IF walk.found # Searching THEN walk
  ELSE IF ~Readable(walk.table) THEN [walk EXCEPT !.found = Fault]
  ELSE IF ~IsPTEValid(pte) THEN [walk EXCEPT !.found = NoEntry]
  ELSE IF IsPTELeaf(pte) THEN [walk EXCEPT !.found = <<walk.table, vpn>>]
  ELSE [walk EXCEPT !.table = pte.ppn]

Levels_Reversed(page) == <<page[1], page[2], page[3]>>

Levels(page) == <<page[3], page[2], page[1]>>

(* The entry of a page, NoEntry for NULL, or Fault when the walk cannot    *)
(* read a table.                                                           *)
WalkPageTable(root, page) ==
  LET start == [table |-> root, found |-> Searching]
      walk == Round(Round(Round(start, Levels(page)[1]), Levels(page)[2]), Levels(page)[3])
  IN  IF walk.found = Searching THEN NoEntry ELSE walk.found

-----------------------------------------------------------------------------

(* Type invariant.                                                         *)
TablesTypeOK ==
  /\ mem \in [Frames -> [Index -> PTE]]
  /\ boot \in {"map_identity", "map_high", "done"}
  /\ edits \in 0 .. MaxEdits

(* From the end of the boot on, whatever entries are marked, the live page *)
(* table takes the kernel's pages to themselves and its high pages to the  *)
(* same frames: execution goes on after satp is written and after a mark.  *)
BootMapHolds ==
  boot = "done" =>
    \A frame \in Frames :
      frame[3] = BootStart[3] =>
        /\ MapsTo(frame, frame)
        /\ MapsTo(<<frame[1], frame[2], HighStart[3]>>, frame)

(* An entry that the hardware translates a page by is the entry the walk   *)
(* finds, for any root, unless the walk cannot read a table on the way;    *)
(* and that happens only to tables outside the kernel's gigapage.          *)
WalkFindsTranslation ==
  boot = "done" =>
    \A root \in Frames, page \in VirtualPages :
      /\ Translate(root, page) # Fault =>
           WalkPageTable(root, page) \in {Translate(root, page), Fault}
      /\ WalkPageTable(root, page) = Fault =>
           \/ root[3] # BootStart[3]
           \/ \E frame \in Frames, index \in Index :
                IsPTEValid(mem[frame][index]) /\ mem[frame][index].ppn[3] # BootStart[3]

(* What the walk finds is valid and a leaf, and the hardware translates by *)
(* no other entry; it faults there only for what the walk does not look    *)
(* at, a reserved entry or a superpage that is not aligned.                *)
FoundIsTheLeaf ==
  boot = "done" =>
    \A root \in Frames, page \in VirtualPages :
      LET found == WalkPageTable(root, page) IN
      found \notin {NoEntry, Fault} =>
        /\ IsPTELeaf(mem[found[1]][found[2]])
        /\ Translate(root, page) \in {found, Fault}
        /\ Translate(root, page) = Fault =>
             LET pte == mem[found[1]][found[2]]
             IN  Reserved(pte) \/ Misaligned(pte, 2)

===============================================================================
