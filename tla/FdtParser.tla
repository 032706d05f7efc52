------------------------------ MODULE FdtParser ------------------------------
(***************************************************************************)
(* kernel/drivers/fdt/fdt.c: the flattened device tree is read once, at    *)
(* boot, into nodes on the eternal heap, and then asked for the memory.    *)
(*                                                                         *)
(* The structure block is a sequence of 32-bit words: numbers, and for     *)
(* text a name on its first word, Rest on the others and 0 on a word that  *)
(* holds only the terminator.  curr_offset is in bytes, as in the code.    *)
(* The firmware writes a well-formed block, one token at a time, before    *)
(* the kernel runs.                                                        *)
(*                                                                         *)
(* Nodes are numbered in the order of their allocation.  The heap is not   *)
(* cleared, so a slot of a new node may hold Garbage.                      *)
(***************************************************************************)
EXTENDS Integers, Sequences, SequencesExt

CONSTANTS
  FDT_MAX_CHILDREN, FDT_MAX_PROPERTIES,
  NodeNames, NameLength,  (* the names of nodes but the root, and their strlen *)
  Memory,                 (* "memory@80000000" *)
  Reg,                    (* "reg" *)
  Props,                  (* what a node may carry: [name, length, cells] *)
  MaxWords,               (* bound: a longer block is only closed *)
  ByteBase,               (* values of a byte of size_dt_struct: 256 *)
  WordBase,               (* values of a cell: 2^32 *)
  HeapContents,           (* sets of slots of a new node that hold garbage *)
  NodeBytes, PropertyBytes, HeapStart, HeapEnd,
  NULL, Garbage, Rest, Fault

FDT_BEGIN_NODE == 1
FDT_END_NODE == 2
FDT_PROP == 3
FDT_NOP == 4
FDT_END == 9

ASSUME FdtAssumption ==
  /\ FDT_MAX_CHILDREN \in Nat \ {0} /\ FDT_MAX_PROPERTIES \in Nat \ {0}
  /\ NameLength \in [NodeNames -> Nat \ {0}]
  /\ Memory \in NodeNames /\ 0 \notin NodeNames
  /\ \A p \in Props : /\ p.length \in Nat /\ p.cells \in Seq(Nat)
                      /\ 4 * Len(p.cells) - p.length \in 0 .. 3
  /\ ByteBase \in Nat \ {0} /\ WordBase \in Nat \ {0}
  /\ NodeBytes \in Nat /\ PropertyBytes \in Nat
  /\ HeapStart \in Nat /\ HeapEnd \in Nat /\ HeapStart < HeapEnd
  /\ NULL # Garbage /\ Fault \notin {NULL, Garbage}
  /\ {NULL, Garbage, Fault} \cap Nat = {}
  /\ {NULL, Garbage, Fault}
       \cap [name : {p.name : p \in Props}, value : Nat, length : Nat] = {}

(* What srv_fdt_GetMemorySize takes for granted of the platform: an address *)
(* and a size take two cells each.                                         *)
ASSUME RegAssumption ==
  \A p \in Props : p.name = Reg =>
    /\ Len(p.cells) >= 4
    /\ \A i \in DOMAIN p.cells : p.cells[i] < WordBase

VARIABLES
  block,        (* the structure block *)
  stage,        (* "write", "parse", "query", then "invalid" or "done" *)
  curr_offset, curr_node, root_node,
  nodes,        (* the fdt_node_t allocated *)
  result,       (* what srv_fdt_GetMemorySize returned; Fault: it faulted *)
  tree,         (* history: the nodes the firmware wrote *)
  open,         (* history: the node the firmware has open *)
  innermost,    (* history: for each word, the node open when it was written *)
  starts,       (* history: the byte offsets of the tokens *)
  curr, panicked, blocks

firmwareVars == <<block, tree, open, innermost, starts>>
heap == <<curr, panicked, blocks>>
parserVars == <<stage, curr_offset, curr_node, root_node, nodes, result, heap>>
vars == <<firmwareVars, parserVars>>

Heap == INSTANCE EternalHeap WITH Sizes <- {}, Alignments <- {}, MaxBlocks <- 0

Init ==
  /\ block = << >> /\ tree = << >> /\ open = NULL /\ innermost = << >> /\ starts = {}
  /\ stage = "write"
  /\ curr_offset = 0 /\ curr_node = NULL /\ root_node = NULL /\ nodes = << >>
  /\ result = NULL
  /\ Heap!Init

-----------------------------------------------------------------------------
(* The firmware. *)

Written == 4 * Len(block)

Write(words) ==
  /\ stage = "write"
  /\ block' = block \o words
  /\ innermost' = innermost \o [i \in DOMAIN words |-> open]
  /\ starts' = starts \cup {Written}
  /\ UNCHANGED parserVars

Text(name) ==
  LET length == NameLength[name]
      last == length \div 4 + 1
  IN  [i \in 1 .. last |-> IF i = last /\ length % 4 = 0 THEN 0
                           ELSE IF i = 1 THEN name ELSE Rest]

NewNode(name) == [name |-> name, parent |-> open, children |-> << >>, properties |-> << >>]

WriteRoot ==
  /\ tree = << >>
  /\ Write(<<FDT_BEGIN_NODE, 0>>)
  /\ tree' = <<NewNode(0)>>
  /\ open' = 1

WriteNode(name) ==
  /\ open # NULL /\ Len(block) < MaxWords
  /\ \A i \in DOMAIN tree[open].children : tree[tree[open].children[i]].name # name
  /\ Write(<<FDT_BEGIN_NODE>> \o Text(name))
  /\ tree' = Append([tree EXCEPT ![open].children = Append(@, Len(tree) + 1)],
                    NewNode(name))
  /\ open' = Len(tree) + 1

WriteProperty(p) ==
  /\ open # NULL /\ Len(block) < MaxWords
  /\ tree[open].children = << >>
  /\ \A i \in DOMAIN tree[open].properties : tree[open].properties[i].name # p.name
  /\ Write(<<FDT_PROP, p.length, p.name>> \o p.cells)
  /\ tree' = [tree EXCEPT ![open].properties =
                Append(@, [name |-> p.name, value |-> Written + 12, length |-> p.length])]
  /\ UNCHANGED open

WriteNop ==
  /\ tree # << >> /\ Len(block) < MaxWords
  /\ Write(<<FDT_NOP>>)
  /\ UNCHANGED <<tree, open>>

WriteEndNode ==
  /\ open # NULL
  /\ Write(<<FDT_END_NODE>>)
  /\ open' = tree[open].parent
  /\ UNCHANGED tree

WriteEnd ==
  /\ tree # << >> /\ open = NULL
  /\ FDT_END # Last(block)
  /\ Write(<<FDT_END>>)
  /\ UNCHANGED <<tree, open>>

Finished == tree # << >> /\ open = NULL /\ Last(block) = FDT_END

-----------------------------------------------------------------------------
(* The kernel. *)

WordAt(offset) == block[offset \div 4 + 1]

AlignToNextWord_AddsRemainder(value) == value + (value % 4)

AlignToNextWord(value) == value + ((4 - value) % 4)

(* size_dt_struct is read without a byte swap: its four bytes in reverse. *)
SizeRead ==
  LET byte(i) == (Written \div ByteBase ^ i) % ByteBase
  IN  byte(0) * ByteBase ^ 3 + byte(1) * ByteBase ^ 2 + byte(2) * ByteBase + byte(3)

(* The header has the magic number, or srv_fdt_Init gives up. *)
FdtInit ==
  /\ stage = "write" /\ Finished
  /\ stage' \in {"parse", "invalid"}
  /\ UNCHANGED <<firmwareVars, curr_offset, curr_node, root_node, nodes, result, heap>>

(* The while condition of fdt_ParseTree, and the token just read. *)
Token(token) ==
  /\ stage = "parse"
  /\ curr_offset < SizeRead
  /\ WordAt(curr_offset) = token

FreeSlots(slots) == {s \in DOMAIN slots : slots[s] = NULL}

InsertFirst_Overwrites(slots, entry) ==
  LET free == FreeSlots(slots)
  IN  IF free = {} THEN [slots EXCEPT ![Max(DOMAIN slots)] = entry]
                   ELSE [slots EXCEPT ![Min(free)] = entry]

InsertFirst_PastEnd(slots, entry) ==
  LET free == FreeSlots(slots)
  IN  IF free = {} THEN Append(slots, entry) ELSE [slots EXCEPT ![Min(free)] = entry]

(* The loop of fdt_InsertChild and fdt_InsertProperty; a full list drops   *)
(* the entry and no caller looks at the result.                            *)
InsertFirst(slots, entry) ==
  LET free == FreeSlots(slots)
  IN  IF free = {} THEN slots ELSE [slots EXCEPT ![Min(free)] = entry]

EmptySlots(count, dirty) == [s \in 1 .. count |-> IF s \in dirty THEN Garbage ELSE NULL]

(* The root's name is empty, and the root becomes a child of itself. *)
BeginNode ==
  LET name == WordAt(curr_offset + 4)
      length == IF name = 0 THEN 0 ELSE NameLength[name]
      new == Len(nodes) + 1
      parent == IF length = 0 THEN NULL ELSE curr_node
      owner == IF length = 0 THEN new ELSE curr_node
  IN  /\ Token(FDT_BEGIN_NODE)
      /\ Heap!EternalAlloc(NodeBytes)
      /\ \/ panicked' /\ UNCHANGED <<curr_offset, curr_node, root_node, nodes>>
         \/ /\ ~panicked'
            /\ curr_offset' = curr_offset + 4 + AlignToNextWord(length)
            /\ root_node' = IF length = 0 THEN new ELSE root_node
            /\ \E dirty \in HeapContents :
                 LET fresh == [name |-> name, parent |-> parent,
                               children |-> EmptySlots(FDT_MAX_CHILDREN, dirty),
                               properties |-> EmptySlots(FDT_MAX_PROPERTIES, dirty)]
                 IN  nodes' = [Append(nodes, fresh) EXCEPT
                                 ![owner].children = InsertFirst(@, new)]
            /\ curr_node' = new
      /\ UNCHANGED <<firmwareVars, stage, result>>

ToParent_Root == curr_node' = root_node

ToParent == curr_node' = nodes[curr_node].parent

EndNode ==
  /\ Token(FDT_END_NODE)
  /\ ToParent
  /\ curr_offset' = curr_offset + 4
  /\ UNCHANGED <<firmwareVars, stage, root_node, nodes, result, heap>>

Property ==
  LET length == WordAt(curr_offset + 4)
      entry == [name |-> WordAt(curr_offset + 8), value |-> curr_offset + 12,
                length |-> length]
      after == curr_offset + 12 + AlignToNextWord(length)
      slots == nodes[curr_node].properties
  IN  /\ Token(FDT_PROP)
      /\ \/ /\ FreeSlots(slots) = {}
            /\ curr_offset' = after
            /\ UNCHANGED <<nodes, heap>>
         \/ /\ FreeSlots(slots) # {}
            /\ Heap!EternalAlloc(PropertyBytes)
            /\ \/ panicked' /\ UNCHANGED <<curr_offset, nodes>>
               \/ /\ ~panicked'
                  /\ curr_offset' = after
                  /\ nodes' = [nodes EXCEPT ![curr_node].properties = InsertFirst(@, entry)]
      /\ UNCHANGED <<firmwareVars, stage, curr_node, root_node, result>>

Skip_Stays == curr_offset' = curr_offset

Skip == curr_offset' = curr_offset + 4

(* A nop, or a word that is no token: only its word is passed. *)
NopOrUnknown ==
  /\ stage = "parse" /\ curr_offset < SizeRead
  /\ WordAt(curr_offset) \notin {FDT_BEGIN_NODE, FDT_END_NODE, FDT_PROP, FDT_END}
  /\ Skip
  /\ UNCHANGED <<firmwareVars, stage, curr_node, root_node, nodes, result, heap>>

EndParse ==
  /\ stage = "parse"
  /\ \/ /\ curr_offset < SizeRead /\ WordAt(curr_offset) = FDT_END
        /\ curr_offset' = curr_offset + 4
     \/ /\ curr_offset >= SizeRead
        /\ UNCHANGED curr_offset
  /\ stage' = "query"
  /\ UNCHANGED <<firmwareVars, curr_node, root_node, nodes, result, heap>>

Used(slots) == {s \in DOMAIN slots : slots[s] \notin {NULL, Garbage}}

(* What a walk over the slots that compares names, and matches at those of *)
(* hits, may find: an entry, nothing, or a fault when it meets an empty    *)
(* slot, which it dereferences.  A pointer that is garbage may fault or    *)
(* lead to some other name.                                                *)
Lookup(slots, hits) ==
  LET Passed(s) == \A t \in 1 .. s - 1 : slots[t] # NULL /\ t \notin hits
  IN  {slots[s] : s \in {t \in hits : Passed(t)}}
        \cup {Fault : s \in {t \in DOMAIN slots \ Used(slots) : Passed(t)}}
        \cup {NULL : s \in {t \in {Len(slots)} : Passed(t + 1)}}

NamedChildren(slots, name) == {s \in Used(slots) : nodes[slots[s]].name = name}

ChildNamed(slots, name) == Lookup(slots, NamedChildren(slots, name))

FindNodeByName_LastSkipped(root, name) == ChildNamed(Front(nodes[root].children), name)

FindNodeByName(root, name) ==
  IF root = NULL THEN {Fault} ELSE ChildNamed(nodes[root].children, name)

FindReg(node) ==
  LET slots == nodes[node].properties
  IN  Lookup(slots, {s \in Used(slots) : slots[s].name = Reg})

(* The fourth cell of "reg": the low half of a 64-bit size. *)
SizeCell(value) == WordAt(value + 12)

GetMemorySize ==
  /\ stage = "query"
  /\ stage' = "done"
  /\ \E node \in FindNodeByName(root_node, Memory) :
       \/ node = NULL /\ result' = 0
       \/ node = Fault /\ result' = Fault
       \/ /\ node \notin {NULL, Fault}
          /\ \E p \in FindReg(node) :
               \/ p = NULL /\ result' = 0
               \/ p = Fault /\ result' = Fault
               \/ p \notin {NULL, Fault} /\ result' = SizeCell(p.value)
  /\ UNCHANGED <<firmwareVars, curr_offset, curr_node, root_node, nodes, heap>>

(* for (;;) of srv_KernelPanic. *)
Hang == panicked /\ UNCHANGED vars

Firmware ==
  \/ WriteRoot
  \/ \E name \in NodeNames : WriteNode(name)
  \/ \E p \in Props : WriteProperty(p)
  \/ WriteNop \/ WriteEndNode \/ WriteEnd

Kernel ==
  \/ FdtInit
  \/ BeginNode \/ EndNode \/ Property \/ NopOrUnknown \/ EndParse
  \/ GetMemorySize

Next == (~panicked /\ (Firmware \/ Kernel)) \/ Hang

Spec == Init /\ [][Next]_vars

(* One hart runs the parser to its end, with nothing else to schedule. *)
FairSpec == Spec /\ WF_vars(~panicked /\ Kernel)

-----------------------------------------------------------------------------

Slot(entries) == entries \cup {NULL, Garbage}

(* Type invariant. *)
TypeOK ==
  /\ stage \in {"write", "parse", "query", "invalid", "done"}
  /\ curr_offset \in Nat
  /\ {curr_node, root_node} \subseteq DOMAIN nodes \cup {NULL}
  /\ \A i \in DOMAIN nodes :
       /\ nodes[i].parent \in (DOMAIN nodes \ {i}) \cup {NULL}
       /\ \A s \in DOMAIN nodes[i].children : nodes[i].children[s] \in Slot(DOMAIN nodes)
       /\ DOMAIN nodes[i].children = 1 .. FDT_MAX_CHILDREN
       /\ DOMAIN nodes[i].properties = 1 .. FDT_MAX_PROPERTIES
  /\ Heap!TypeOK

Parsing == stage = "parse" /\ ~panicked

(* The parser only ever reads as a token what the firmware wrote as one,   *)
(* or the word of zeros that ends a name whose length is a multiple of a   *)
(* word; never the text of a name or a property's value, whatever lengths  *)
(* come before.  It never reads past the end of the block.                 *)
CursorOnToken ==
  Parsing =>
    /\ curr_offset % 4 = 0 /\ curr_offset <= Written
    /\ curr_offset < SizeRead =>
         \/ curr_offset \in starts
         \/ WordAt(curr_offset) = 0 /\ curr_offset + 4 \in starts

(* At each token curr_node is the node whose begin has been read and whose *)
(* end has not, so an end or a property never meets a null curr_node.      *)
CurrIsInnermostOpen ==
  Parsing /\ curr_offset \in starts => curr_node = innermost[curr_offset \div 4 + 1]

Usable(slots) == {s \in DOMAIN slots : slots[s] # Garbage}

(* The slots that were empty hold the entries, in order, as many as fit. *)
Stores(slots, entries) ==
  \A s \in Usable(slots) :
    LET k == Cardinality({t \in Usable(slots) : t <= s})
    IN  slots[s] = IF k \in DOMAIN entries THEN entries[k] ELSE NULL

(* The size as the kernel reads it reaches the end of the block.  Read     *)
(* without the byte swap it may be less than the real one: then the parse  *)
(* is cut short, and what follows promises nothing about it.               *)
Complete == SizeRead >= Written

(* When the parser stops, and was not cut short by the size it reads       *)
(* (Complete), the nodes are the firmware's tree: every node, parent,      *)
(* child and property, in order, up to the two limits, and the root among  *)
(* its own children.                                                       *)
TreeExact ==
  stage \in {"query", "done"} /\ Complete =>
    /\ Len(nodes) = Len(tree)
    /\ \A i \in DOMAIN tree :
         /\ nodes[i].name = tree[i].name /\ nodes[i].parent = tree[i].parent
         /\ Stores(nodes[i].children,
                   IF i = 1 THEN <<1>> \o tree[i].children ELSE tree[i].children)
         /\ Stores(nodes[i].properties, tree[i].properties)

(* The pairs of a "memory@80000000" below the root and a "reg" of it. *)
MemoryRegs ==
  {r \in (DOMAIN tree[1].children) \X (1 .. Len(block)) :
     LET m == tree[tree[1].children[r[1]]]
     IN  m.name = Memory /\ r[2] \in DOMAIN m.properties /\ m.properties[r[2]].name = Reg}

(* Such a pair is among the children and the properties that the lists     *)
(* have room for, the root itself taking up one slot.                      *)
Listed(r) == r[1] < FDT_MAX_CHILDREN /\ r[2] <= FDT_MAX_PROPERTIES

(* The size the firmware wrote: two cells, the high one first. *)
MemorySize(i, k) ==
  LET at == tree[tree[1].children[i]].properties[k].value
  IN  WordAt(at + 8) * WordBase + WordAt(at + 12)

(* The nodes were allocated where the heap was clear. *)
HeapClear ==
  \A i \in DOMAIN nodes : /\ Usable(nodes[i].children) = DOMAIN nodes[i].children
                         /\ Usable(nodes[i].properties) = DOMAIN nodes[i].properties

Answered == stage = "done" /\ result # Fault

(* A size other than 0 is one the firmware wrote, if that fits in a cell,  *)
(* even after lists overflowed, a parse that was cut short or with a heap  *)
(* that held garbage.                                                      *)
MemorySizeSound ==
  Answered /\ result # 0 =>
    \E r \in MemoryRegs :
      MemorySize(r[1], r[2]) < WordBase => result = MemorySize(r[1], r[2])

(* A size that fits in a cell is found when it is among the children and   *)
(* properties that fit, the heap was clear, and the parse was not cut      *)
(* short (Complete).                                                       *)
MemorySizeFound ==
  stage = "done" /\ Complete /\ HeapClear =>
    \A r \in MemoryRegs :
      Listed(r) /\ MemorySize(r[1], r[2]) < WordBase => result = MemorySize(r[1], r[2])

(* The answer of the query is neither invented nor withheld. *)
MemorySizeAnswer == MemorySizeSound /\ MemorySizeFound

(* The parser stops on every block. *)
ParseTerminates == stage = "parse" ~> (stage # "parse" \/ panicked)

(* fdt.h: srv_fdt_Init returns true when "the FDT driver was initialized   *)
(* successfully", and fdt.c: the lookup of a node returns "NULL if the     *)
(* node cannot be found".  So the lookup of a memory node that the         *)
(* firmware wrote, and that fits, finds it, or at worst reports it missing. *)
WrittenMemoryNeverFaults ==
  stage = "done" /\ HeapClear /\ (\E r \in MemoryRegs : Listed(r)) => result # Fault

(* fdt.h: srv_fdt_GetMemorySize returns "the amount of memory in the       *)
(* system, in bytes".  That of a block cut short (not Complete) is the     *)
(* business of WrittenMemoryNeverFaults.                                   *)
AmountOfMemory ==
  stage = "done" /\ Complete /\ HeapClear =>
    \A r \in MemoryRegs : Listed(r) => result = MemorySize(r[1], r[2])

=============================================================================
