--------------------------- MODULE FdtParserProofs ---------------------------
(* What the parser of the device tree does for every well-formed block.    *)
EXTENDS FdtParser, FiniteSetTheorems, TLAPS

Word == Nat \cup NodeNames \cup {Rest} \cup {p.name : p \in Props}

Entry == [name : Word, value : Nat, length : Nat]

TreeNode == [name : NodeNames \cup {0}, parent : Nat \cup {NULL},
             children : Seq(Nat), properties : Seq(Entry)]

(* The word at offset o of block b. *)
At(b, o) == b[o \div 4 + 1]

TextWords(name) == IF name = 0 THEN 1 ELSE NameLength[name] \div 4 + 1

(* Where the token at offset o ends. *)
After(b, o) ==
  CASE At(b, o) = FDT_BEGIN_NODE -> o + 4 + 4 * TextWords(At(b, o + 4))
    [] At(b, o) = FDT_PROP -> o + 12 + AlignToNextWord(At(b, o + 4))
    [] OTHER -> o + 4

(* The nodes whose begin is among the tokens before offset x. *)
Begun(b, S, x) == {s \in S : s < x /\ At(b, s) = FDT_BEGIN_NODE}

Before(b, S, x) == Cardinality(Begun(b, S, x))

(* The node that was open when the word at offset o was written. *)
OpenAt(o) == IF o = Written THEN open ELSE At(innermost, o)

(* The node that is open after the token at o: the one it begins, the one  *)
(* around the one it ends, or the same.                                    *)
OpenAfter(o) ==
  CASE At(block, o) = FDT_BEGIN_NODE -> Before(block, starts, o) + 1
    [] At(block, o) = FDT_END_NODE -> tree[At(innermost, o)].parent
    [] OTHER -> At(innermost, o)

(* The token at o lies in the block, is what its word says, and a name     *)
(* that fills its last word is followed by a word of zeros.                *)
TokenShape(o) ==
  LET w == At(block, o)
      arg == At(block, o + 4)
      node == At(innermost, o)
      end == After(block, o)
  IN  /\ o % 4 = 0
      /\ o + 4 <= Written /\ end \in Nat /\ end % 4 = 0 /\ end <= Written
      /\ w \in {FDT_BEGIN_NODE, FDT_END_NODE, FDT_PROP, FDT_NOP, FDT_END}
      /\ w \in {FDT_END_NODE, FDT_PROP} => node # NULL
      /\ w = FDT_PROP => arg \in Nat /\ o + 12 <= end
      /\ w = FDT_BEGIN_NODE =>
           \/ arg = 0 /\ node = NULL
           \/ /\ arg \in NodeNames /\ node # NULL
              /\ NameLength[arg] % 4 = 0 => At(block, end - 4) = 0

(* Where the token at o ends the next one starts, in the node it leaves    *)
(* open; the nodes are numbered in the order of their begins.              *)
TokenLink(o) ==
  /\ After(block, o) \in starts \cup {Written}
  /\ OpenAt(After(block, o)) = OpenAfter(o)
  /\ At(block, o) = FDT_BEGIN_NODE =>
       /\ Before(block, starts, o) + 1 \in DOMAIN tree
       /\ tree[Before(block, starts, o) + 1].parent = At(innermost, o)

FirmwareTypes ==
  /\ block \in Seq(Word)
  /\ tree \in Seq(TreeNode)
  /\ open \in DOMAIN tree \cup {NULL}
  /\ innermost \in Seq(DOMAIN tree \cup {NULL}) /\ Len(innermost) = Len(block)
  /\ starts \subseteq Nat /\ IsFiniteSet(starts)
  /\ \A i \in DOMAIN tree : tree[i].parent \in 1 .. i - 1 \cup {NULL}

WellFormed ==
  /\ \A o \in starts : TokenShape(o) /\ TokenLink(o)
  /\ \A o, p \in starts : o < p => After(block, o) <= p
  /\ tree = << >> => starts = {} /\ block = << >> /\ open = NULL
  /\ tree # << >> => 0 \in starts /\ At(innermost, 0) = NULL
  /\ tree # << >> /\ open = NULL => Written - 4 \in starts
  /\ Before(block, starts, Written) = Len(tree)

(* The cursor is on the token at o, or on the zeros before it, with all    *)
(* that comes before the token read.                                       *)
ReadUpTo(o) ==
  /\ curr_offset = o \/ (curr_offset = o - 4 /\ At(block, curr_offset) = 0)
  /\ curr_node = At(innermost, o)
  /\ Len(nodes) = Before(block, starts, o)

Reader ==
  /\ stage = "write" => curr_offset = 0 /\ curr_node = NULL /\ nodes = << >>
  /\ stage = "parse" => Finished
  /\ Parsing => \E o \in starts : ReadUpTo(o)
  /\ \A i \in DOMAIN nodes : i \in DOMAIN tree /\ nodes[i].parent = tree[i].parent

NodeType ==
  [name : NodeNames \cup {0}, parent : Nat \cup {NULL},
   children : [1 .. FDT_MAX_CHILDREN -> Nat \cup {NULL, Garbage}],
   properties : [1 .. FDT_MAX_PROPERTIES -> Entry \cup {NULL, Garbage}]]

IInv ==
  FirmwareTypes /\ WellFormed /\ Reader /\ nodes \in Seq(NodeType) /\ TypeOK

-----------------------------------------------------------------------------
(* Words, and what appending to a block leaves alone.                      *)

LEMMA NullNotNat == NULL \notin Nat /\ Garbage \notin Nat
  BY FdtAssumption

LEMMA AtOld ==
  ASSUME NEW A, NEW b \in Seq(A), NEW c \in Seq(A), NEW o \in Nat, o + 4 <= 4 * Len(b)
  PROVE  At(b \o c, o) = At(b, o) /\ At(b, o) \in A
<1>1. o \div 4 + 1 \in 1 .. Len(b)
  OBVIOUS
<1> QED
  BY <1>1 DEF At

LEMMA AtNew ==
  ASSUME NEW A, NEW b \in Seq(A), NEW c \in Seq(A), NEW k \in 0 .. Len(c) - 1
  PROVE  At(b \o c, 4 * Len(b) + 4 * k) = c[k + 1]
<1>1. (4 * Len(b) + 4 * k) \div 4 + 1 = Len(b) + (k + 1)
  OBVIOUS
<1> QED
  BY <1>1 DEF At

LEMMA TextWordsPositive ==
  ASSUME NEW name \in NodeNames \cup {0}
  PROVE  TextWords(name) \in Nat \ {0}
BY FdtAssumption DEF TextWords

LEMMA WrittenNat == ASSUME FirmwareTypes PROVE Written \in Nat
  BY DEF FirmwareTypes, Written

LEMMA Room ==
  ASSUME FirmwareTypes, NEW o \in Nat, TokenShape(o)
  PROVE  /\ o + 4 <= After(block, o) /\ o + 4 <= Written
         /\ At(block, o) \in {FDT_BEGIN_NODE, FDT_PROP} => o + 8 <= Written
<1> USE DEF FDT_BEGIN_NODE, FDT_PROP, FDT_END_NODE, FDT_NOP, FDT_END
<1>1. CASE At(block, o) = FDT_BEGIN_NODE
  <2> DEFINE n == TextWords(At(block, o + 4))
  <2>1. At(block, o + 4) \in NodeNames \cup {0}
    BY <1>1 DEF TokenShape
  <2>2. n \in Nat \ {0}
    BY <2>1, TextWordsPositive
  <2>3. After(block, o) = o + 4 + 4 * n
    BY <1>1 DEF After
  <2> HIDE DEF n
  <2> QED
    BY <1>1, <2>2, <2>3, WrittenNat DEF TokenShape
<1>2. CASE At(block, o) = FDT_PROP
  BY <1>2, WrittenNat DEF TokenShape
<1>3. CASE At(block, o) \notin {FDT_BEGIN_NODE, FDT_PROP}
  BY <1>3 DEF TokenShape, After
<1> QED
  BY <1>1, <1>2, <1>3

(* What an append to the block does to a token that is in it.              *)
LEMMA TokenOld ==
  ASSUME FirmwareTypes, NEW o \in Nat, TokenShape(o), NEW words \in Seq(Word)
  PROVE  /\ At(block \o words, o) = At(block, o)
         /\ After(block \o words, o) = After(block, o)
<1>1. block \in Seq(Word) /\ Written = 4 * Len(block)
  BY DEF FirmwareTypes, Written
<1>2. o + 4 <= Written
  BY Room
<1>3. At(block \o words, o) = At(block, o)
  BY <1>1, <1>2, AtOld
<1>4. At(block, o) \in {FDT_BEGIN_NODE, FDT_PROP} => At(block \o words, o + 4) = At(block, o + 4)
  <2> SUFFICES ASSUME At(block, o) \in {FDT_BEGIN_NODE, FDT_PROP}
               PROVE  At(block \o words, o + 4) = At(block, o + 4)
    OBVIOUS
  <2>1. o + 4 \in Nat /\ (o + 4) + 4 <= 4 * Len(block)
    BY <1>1, Room
  <2> QED
    BY <1>1, <2>1, AtOld
<1> QED
  BY <1>3, <1>4, Zenon DEF After

LEMMA BegunFinite ==
  ASSUME NEW b, NEW S, IsFiniteSet(S), NEW x
  PROVE  IsFiniteSet(Begun(b, S, x)) /\ Before(b, S, x) \in Nat
<1>1. IsFiniteSet(Begun(b, S, x))
  BY FS_Subset DEF Begun
<1> QED
  BY <1>1, FS_CardinalityType DEF Before

-----------------------------------------------------------------------------
(* The firmware writes a token at the end of the block.                    *)

LEMMA BeforeOld ==
  ASSUME FirmwareTypes, WellFormed, NEW words \in Seq(Word), NEW x \in 0 .. Written
  PROVE  Before(block \o words, starts \cup {Written}, x) = Before(block, starts, x)
<1>1. \A s \in starts : At(block \o words, s) = At(block, s)
  BY TokenOld DEF FirmwareTypes, WellFormed
<1>2. Begun(block \o words, starts \cup {Written}, x) = Begun(block, starts, x)
  BY <1>1, WrittenNat DEF Begun
<1> QED
  BY <1>2 DEF Before

LEMMA BeforeNew ==
  ASSUME FirmwareTypes, WellFormed, NEW words \in Seq(Word), words # << >>
  PROVE  Before(block \o words, starts \cup {Written}, Written + 4 * Len(words))
           = Len(tree) + (IF words[1] = FDT_BEGIN_NODE THEN 1 ELSE 0)
<1> DEFINE S == starts \cup {Written}
           c == block \o words
           x == Written + 4 * Len(words)
           old == Begun(block, starts, Written)
<1>1. \A s \in starts : At(c, s) = At(block, s) /\ s < Written /\ s \in Nat
  BY TokenOld, Room, WrittenNat DEF FirmwareTypes, WellFormed
<1>2. At(c, Written) = words[1]
  <2>1. 0 \in 0 .. Len(words) - 1 /\ 4 * Len(block) + 4 * 0 = Written /\ 0 + 1 = 1
    BY DEF FirmwareTypes, Written
  <2>2. block \in Seq(Word)
    BY DEF FirmwareTypes
  <2> QED
    BY <2>1, <2>2, AtNew
<1>3. Written \in Nat /\ x \in Nat /\ Written < x
  BY WrittenNat
<1>4. Written \notin old
  BY <1>3 DEF Begun
<1>5. IsFiniteSet(old) /\ Cardinality(old) = Len(tree) /\ Len(tree) \in Nat
  BY BegunFinite DEF FirmwareTypes, WellFormed, Before
<1> HIDE DEF c, x
<1>6. CASE words[1] = FDT_BEGIN_NODE
  <2>1. Begun(c, S, x) = old \cup {Written}
    BY <1>1, <1>2, <1>3, <1>6 DEF Begun
  <2>2. Cardinality(old \cup {Written}) = Cardinality(old) + 1
    BY <1>4, <1>5, FS_AddElement
  <2> QED
    BY <1>5, <1>6, <2>1, <2>2 DEF Before, c, x
<1>7. CASE words[1] # FDT_BEGIN_NODE
  <2>1. Begun(c, S, x) = old
    BY <1>1, <1>2, <1>3, <1>7 DEF Begun
  <2> QED
    BY <1>5, <1>7, <2>1 DEF Before, c, x
<1> QED
  BY <1>6, <1>7

LEMMA NewToken ==
  ASSUME FirmwareTypes, WellFormed, NEW words \in Seq(Word), words # << >>, Write(words)
  PROVE  \E here \in Nat :
           /\ here = Written /\ here % 4 = 0 /\ Written' = here + 4 * Len(words)
           /\ \A k \in 0 .. Len(words) - 1 : At(block', here + 4 * k) = words[k + 1]
           /\ At(block', here) = words[1]
           /\ At(innermost', here) = open
           /\ Before(block', starts', here) = Len(tree)
<1> DEFINE here == Written
           opens == [i \in DOMAIN words |-> open]
<1>1. /\ block' = block \o words /\ innermost' = innermost \o opens
      /\ starts' = starts \cup {here}
  BY DEF Write
<1>2. /\ block \in Seq(Word) /\ Len(innermost) = Len(block) /\ Len(words) \in Nat \ {0}
      /\ here \in Nat /\ here = 4 * Len(block)
      /\ innermost \in Seq(DOMAIN tree \cup {NULL}) /\ open \in DOMAIN tree \cup {NULL}
  BY WrittenNat DEF FirmwareTypes, Written
<1>3. opens \in Seq(DOMAIN tree \cup {NULL}) /\ Len(opens) = Len(words) /\ opens[1] = open
  BY <1>2
<1>4. Written' = here + 4 * Len(words)
  BY <1>1, <1>2 DEF Written
<1> HIDE DEF opens
<1>5. \A k \in 0 .. Len(words) - 1 : At(block', here + 4 * k) = words[k + 1]
  BY <1>1, <1>2, AtNew
<1>6. 0 \in 0 .. Len(words) - 1 /\ here + 4 * 0 = here
  BY <1>2
<1>7. At(block', here) = words[1]
  <2>1. At(block', here + 4 * 0) = words[0 + 1]
    BY <1>5, <1>6
  <2> QED
    BY <1>6, <2>1
<1>8. At(innermost', here) = open
  <2>1. At(innermost \o opens, 4 * Len(innermost) + 4 * 0) = opens[0 + 1]
    BY <1>2, <1>3, <1>6, AtNew
  <2> QED
    BY <1>1, <1>2, <1>3, <2>1
<1>9. Before(block', starts', here) = Len(tree)
  <2>1. here \in 0 .. Written
    BY <1>2
  <2> QED
    BY <1>1, <2>1, BeforeOld DEF WellFormed
<1>10. here % 4 = 0
  BY <1>2
<1> HIDE DEF here
<1> QED
  BY <1>2, <1>4, <1>5, <1>7, <1>8, <1>9, <1>10 DEF here

LEMMA TokenWritten ==
  ASSUME FirmwareTypes, WellFormed, NEW words \in Seq(Word), words # << >>, Write(words),
         NEW here, here = Written,
         tree' \in Seq(TreeNode), tree' # << >>,
         Len(tree') = Len(tree) + (IF words[1] = FDT_BEGIN_NODE THEN 1 ELSE 0),
         \A i \in DOMAIN tree : tree'[i].parent = tree[i].parent,
         words[1] = FDT_BEGIN_NODE => tree'[Len(tree) + 1].parent = open,
         open' \in DOMAIN tree' \cup {NULL}, open' = NULL => Len(words) = 1,
         open' = OpenAfter(here)', TokenShape(here)', After(block', here) = Written'
  PROVE  FirmwareTypes' /\ WellFormed'
<1> DEFINE opens == [i \in DOMAIN words |-> open]
<1>1. /\ block' = block \o words /\ innermost' = innermost \o opens
      /\ starts' = starts \cup {here}
  BY DEF Write
<1>2. /\ block \in Seq(Word) /\ Len(innermost) = Len(block) /\ Len(words) \in Nat \ {0}
      /\ here \in Nat /\ here = 4 * Len(block) /\ starts \subseteq Nat
      /\ IsFiniteSet(starts) /\ tree \in Seq(TreeNode) /\ open \in DOMAIN tree \cup {NULL}
      /\ innermost \in Seq(DOMAIN tree \cup {NULL})
  BY WrittenNat DEF FirmwareTypes, Written
<1>3. Written' = here + 4 * Len(words) /\ here < Written' /\ Written' \in Nat
  BY <1>1, <1>2 DEF Written
<1>4. opens \in Seq(DOMAIN tree \cup {NULL}) /\ Len(opens) = Len(words)
  BY <1>2
<1> HIDE DEF opens
<1>5. DOMAIN tree \subseteq DOMAIN tree' /\ DOMAIN tree = 1 .. Len(tree)
      /\ DOMAIN tree' = 1 .. Len(tree')
  BY <1>2
<1>6. /\ block' \in Seq(Word) /\ Len(innermost') = Len(block')
      /\ innermost' \in Seq(DOMAIN tree' \cup {NULL})
  <2> DEFINE A == DOMAIN tree \cup {NULL}
             B == DOMAIN tree' \cup {NULL}
  <2>1. A \subseteq B /\ innermost \in Seq(A) /\ opens \in Seq(A)
    BY <1>2, <1>4, <1>5
  <2> HIDE DEF A, B
  <2>2. innermost \in Seq(B) /\ opens \in Seq(B)
    BY <2>1
  <2>3. innermost' \in Seq(B)
    BY <1>1, <2>2
  <2>4. Len(innermost \o opens) = Len(innermost) + Len(opens)
    BY <2>2
  <2>5. block \o words \in Seq(Word) /\ Len(block \o words) = Len(block) + Len(words)
    BY <1>2
  <2> QED
    BY <1>1, <1>2, <1>4, <2>3, <2>4, <2>5 DEF B
<1>7. starts' \subseteq Nat /\ IsFiniteSet(starts')
  BY <1>1, <1>2, FS_AddElement
<1>8. \A i \in DOMAIN tree' : tree'[i].parent \in 1 .. i - 1 \cup {NULL}
  <2> SUFFICES ASSUME NEW i \in DOMAIN tree' PROVE tree'[i].parent \in 1 .. i - 1 \cup {NULL}
    OBVIOUS
  <2>1. CASE i \in DOMAIN tree
    BY <2>1 DEF FirmwareTypes
  <2>2. CASE i \notin DOMAIN tree
    BY <1>2, <1>5, <2>2
  <2> QED
    BY <2>1, <2>2
<1>9. FirmwareTypes'
  BY <1>6, <1>7, <1>8 DEF FirmwareTypes
<1>10. \A o \in starts :
         /\ At(block', o) = At(block, o) /\ After(block', o) = After(block, o)
         /\ At(innermost', o) = At(innermost, o)
         /\ At(innermost, o) \in DOMAIN tree \cup {NULL}
         /\ o + 4 <= here /\ o + 4 <= After(block, o) /\ After(block, o) <= here
         /\ At(block, o) \in {FDT_BEGIN_NODE, FDT_PROP} =>
              At(block', o + 4) = At(block, o + 4)
  <2> SUFFICES ASSUME NEW o \in starts
               PROVE  /\ At(block', o) = At(block, o) /\ After(block', o) = After(block, o)
                      /\ At(innermost', o) = At(innermost, o)
                      /\ At(innermost, o) \in DOMAIN tree \cup {NULL}
                      /\ o + 4 <= here /\ o + 4 <= After(block, o) /\ After(block, o) <= here
                      /\ At(block, o) \in {FDT_BEGIN_NODE, FDT_PROP} =>
                           At(block', o + 4) = At(block, o + 4)
    OBVIOUS
  <2>1. o \in Nat /\ TokenShape(o)
    BY <1>2 DEF WellFormed
  <2>2. /\ o + 4 <= here /\ o + 4 <= After(block, o) /\ After(block, o) <= here
        /\ At(block, o) \in {FDT_BEGIN_NODE, FDT_PROP} => o + 8 <= here
    BY <2>1, Room DEF TokenShape
  <2>3. At(block', o) = At(block, o) /\ After(block', o) = After(block, o)
    BY <1>1, <2>1, TokenOld
  <2>4. At(innermost', o) = At(innermost, o) /\ At(innermost, o) \in DOMAIN tree \cup {NULL}
    <3>1. o + 4 <= 4 * Len(innermost)
      BY <1>2, <2>2
    <3> QED
      BY <1>1, <1>2, <1>4, <2>1, <3>1, AtOld
  <2>5. ASSUME At(block, o) \in {FDT_BEGIN_NODE, FDT_PROP}
        PROVE  At(block', o + 4) = At(block, o + 4)
    <3>1. o + 4 \in Nat /\ o + 4 + 4 <= 4 * Len(block)
      BY <1>2, <2>1, <2>2, <2>5
    <3> QED
      BY <1>1, <1>2, <3>1, AtOld
  <2> QED
    BY <2>2, <2>3, <2>4, <2>5
<1>11. At(innermost', here) = open /\ At(block', here) = words[1]
  BY NewToken
<1>12. \A x \in 0 .. here : Before(block', starts', x) = Before(block, starts, x)
  BY <1>1, BeforeOld
<1>13. /\ Before(block', starts', here) = Len(tree)
       /\ Before(block', starts', Written') = Len(tree')
  <2>1. Before(block', starts', here) = Len(tree)
    BY <1>2, <1>12 DEF WellFormed
  <2> QED
    BY <1>1, <1>3, <2>1, BeforeNew
<1>14. \A o \in starts : TokenShape(o)' /\ TokenLink(o)'
  <2> SUFFICES ASSUME NEW o \in starts PROVE TokenShape(o)' /\ TokenLink(o)'
    OBVIOUS
  <2> PICK n : n = After(block, o)
    OBVIOUS
  <2>1. TokenShape(o) /\ TokenLink(o) /\ o \in 0 .. here /\ n \in 0 .. here
    <3>1. TokenShape(o) /\ TokenLink(o)
      BY DEF WellFormed
    <3>2. n \in Nat
      BY <3>1 DEF TokenShape
    <3> QED
      BY <1>2, <1>10, <3>1, <3>2
  <2>2. TokenShape(o)'
    <3>1. At(block, n - 4) = 0 => At(block', n - 4) = 0
      <4>1. n - 4 \in Nat /\ n - 4 + 4 <= 4 * Len(block)
        BY <1>2, <1>10, <2>1
      <4> QED
        BY <1>1, <1>2, <4>1, AtOld
    <3>2. /\ o % 4 = 0 /\ o + 4 <= Written' /\ n \in Nat /\ n % 4 = 0 /\ n <= Written'
      BY <1>2, <1>3, <1>10, <2>1 DEF TokenShape
    <3>3. After(block', o) = n /\ At(block', o) = At(block, o)
          /\ At(innermost', o) = At(innermost, o)
      BY <1>10
    <3>4. At(block, o) \in {FDT_BEGIN_NODE, FDT_PROP} => At(block', o + 4) = At(block, o + 4)
      BY <1>10
    <3> QED
      BY <2>1, <3>1, <3>2, <3>3, <3>4 DEF TokenShape, FDT_BEGIN_NODE, FDT_PROP
  <2>3. n \in starts \cup {here} /\ n # Written'
    BY <1>2, <1>3, <2>1 DEF TokenLink
  <2>4. OpenAt(n)' = OpenAt(n)
    <3>1. OpenAt(n)' = At(innermost', n)
      BY <2>3 DEF OpenAt
    <3>2. CASE n = here
      BY <1>11, <3>1, <3>2 DEF OpenAt
    <3>3. CASE n \in starts
      <4>1. n # Written
        BY <1>2, <1>10, <3>3
      <4> QED
        BY <1>10, <3>1, <3>3, <4>1 DEF OpenAt
    <3> QED
      BY <2>3, <3>2, <3>3
  <2>5. OpenAfter(o)' = OpenAfter(o)
    <3> USE DEF FDT_BEGIN_NODE, FDT_END_NODE
    <3>1. CASE At(block, o) = FDT_BEGIN_NODE
      BY <1>10, <1>12, <2>1, <3>1 DEF OpenAfter
    <3>2. CASE At(block, o) = FDT_END_NODE
      <4>1. At(innermost, o) \in DOMAIN tree
        BY <1>10, <2>1, <3>2 DEF TokenShape
      <4> QED
        BY <1>10, <3>2, <4>1 DEF OpenAfter
    <3>3. CASE At(block, o) \notin {FDT_BEGIN_NODE, FDT_END_NODE}
      BY <1>10, <3>3 DEF OpenAfter
    <3> QED
      BY <3>1, <3>2, <3>3
  <2>6. OpenAt(n) = OpenAfter(o)
    BY <2>1 DEF TokenLink
  <2>7. After(block', o) = n
    BY <1>10
  <2>8. At(block, o) = FDT_BEGIN_NODE =>
          /\ Before(block', starts', o) + 1 \in DOMAIN tree'
          /\ tree'[Before(block', starts', o) + 1].parent = At(innermost', o)
    BY <1>5, <1>10, <1>12, <2>1 DEF TokenLink
  <2>9. OpenAt(After(block, o))' = OpenAfter(o)'
    BY <2>4, <2>5, <2>6, <2>7, Zenon
  <2>10. TokenLink(o)'
    BY <1>1, <1>10, <2>3, <2>7, <2>8, <2>9 DEF TokenLink
  <2> QED
    BY <2>2, <2>10
<1>15. TokenLink(here)'
  <2>1. OpenAt(Written)' = open'
    BY DEF OpenAt
  <2>2. OpenAt(After(block, here))' = OpenAfter(here)'
    BY <2>1, Zenon
  <2>3. At(block', here) = FDT_BEGIN_NODE =>
          /\ Before(block', starts', here) + 1 \in DOMAIN tree'
          /\ tree'[Before(block', starts', here) + 1].parent = At(innermost', here)
    <3> SUFFICES ASSUME At(block', here) = FDT_BEGIN_NODE
                 PROVE  /\ Len(tree) + 1 \in DOMAIN tree'
                        /\ tree'[Len(tree) + 1].parent = open
      BY <1>11, <1>13
    <3>1. words[1] = FDT_BEGIN_NODE
      BY <1>11
    <3> QED
      BY <1>2, <1>5, <3>1
  <2> QED
    BY <2>2, <2>3 DEF TokenLink
<1>16. \A o, p \in starts' : o < p => After(block', o) <= p
  <2> SUFFICES ASSUME NEW o \in starts', NEW p \in starts', o < p
               PROVE  After(block', o) <= p
    OBVIOUS
  <2>1. o \in starts
    BY <1>1, <1>2, <1>10
  <2> QED
    BY <1>1, <1>10, <2>1 DEF WellFormed
<1>17. 0 \in starts' /\ At(innermost', 0) = NULL
  <2>1. CASE tree = << >>
    BY <1>1, <1>2, <1>11, <2>1 DEF WellFormed
  <2>2. CASE tree # << >>
    BY <1>1, <1>10, <2>2 DEF WellFormed
  <2> QED
    BY <2>1, <2>2
<1>18. open' = NULL => Written' - 4 \in starts'
  <2> SUFFICES ASSUME open' = NULL PROVE Written' - 4 \in starts'
    OBVIOUS
  <2>1. Len(words) = 1
    BY Zenon
  <2>2. Written' = here + 4
    BY <1>3, <2>1
  <2>3. Written' - 4 = here
    BY <1>2, <2>2
  <2> QED
    BY <1>1, <2>3, Zenon
<1>19. \A o \in starts' : TokenShape(o)' /\ TokenLink(o)'
  <2>1. TokenShape(here)' /\ TokenLink(here)'
    BY <1>15
  <2> QED
    BY <1>1, <1>14, <2>1, Zenon
<1> QED
  BY <1>9, <1>13, <1>16, <1>17, <1>18, <1>19 DEF WellFormed

LEMMA WriteRootStep ==
  ASSUME FirmwareTypes, WellFormed, WriteRoot
  PROVE  FirmwareTypes' /\ WellFormed'
<1> USE DEF FDT_BEGIN_NODE, FDT_PROP, FDT_END_NODE, FDT_NOP, FDT_END
<1> DEFINE words == <<FDT_BEGIN_NODE, 0>>
<1>1. words \in Seq(Word) /\ words # << >> /\ Len(words) = 2 /\ words[1] = 1 /\ words[2] = 0
  BY DEF Word
<1>2. Write(words) /\ tree = << >> /\ open = NULL /\ tree' = <<NewNode(0)>> /\ open' = 1
  BY DEF WriteRoot, WellFormed
<1> HIDE DEF words
<1>3. PICK here \in Nat :
        /\ here = Written /\ here % 4 = 0 /\ Written' = here + 4 * Len(words)
        /\ \A k \in 0 .. Len(words) - 1 : At(block', here + 4 * k) = words[k + 1]
        /\ At(block', here) = words[1]
        /\ At(innermost', here) = open
        /\ Before(block', starts', here) = Len(tree)
  BY <1>1, <1>2, NewToken
<1>4. At(block', here + 4) = 0
  <2>1. 1 \in 0 .. Len(words) - 1 /\ here + 4 * 1 = here + 4
    BY <1>1
  <2>2. At(block', here + 4 * 1) = words[1 + 1]
    BY <1>3, <2>1
  <2> QED
    BY <1>1, <2>1, <2>2
<1>5. After(block', here) = Written'
  BY <1>1, <1>3, <1>4 DEF After, TextWords
<1>6. TokenShape(here)'
  BY <1>1, <1>2, <1>3, <1>4, <1>5 DEF TokenShape
<1>7. OpenAfter(here)' = 1
  BY <1>1, <1>2, <1>3 DEF OpenAfter
<1>8. NewNode(0) \in TreeNode /\ NewNode(0).parent = NULL
  BY <1>2 DEF NewNode, TreeNode
<1>9. /\ tree' \in Seq(TreeNode) /\ tree' # << >> /\ Len(tree') = 1 /\ Len(tree) = 0
      /\ tree'[1].parent = NULL /\ DOMAIN tree' = 1 .. 1 /\ DOMAIN tree = {}
  BY <1>2, <1>8
<1> QED
  BY <1>1, <1>2, <1>3, <1>5, <1>6, <1>7, <1>9, NullNotNat, TokenWritten
LEMMA ChildrenChanged ==
  ASSUME NEW t \in Seq(TreeNode), NEW i \in DOMAIN t, NEW c \in Seq(Nat)
  PROVE  /\ [t EXCEPT ![i].children = c] \in Seq(TreeNode)
         /\ Len([t EXCEPT ![i].children = c]) = Len(t)
         /\ \A j \in DOMAIN t : [t EXCEPT ![i].children = c][j].parent = t[j].parent
<1>1. t[i] \in TreeNode
  OBVIOUS
<1>2. [t[i] EXCEPT !.children = c] \in TreeNode /\ [t[i] EXCEPT !.children = c].parent = t[i].parent
  BY <1>1 DEF TreeNode
<1> HIDE DEF TreeNode
<1> QED
  BY <1>2

LEMMA PropertiesChanged ==
  ASSUME NEW t \in Seq(TreeNode), NEW i \in DOMAIN t, NEW q \in Seq(Entry)
  PROVE  /\ [t EXCEPT ![i].properties = q] \in Seq(TreeNode)
         /\ Len([t EXCEPT ![i].properties = q]) = Len(t)
         /\ \A j \in DOMAIN t : [t EXCEPT ![i].properties = q][j].parent = t[j].parent
<1>1. t[i] \in TreeNode
  OBVIOUS
<1>2. /\ [t[i] EXCEPT !.properties = q] \in TreeNode
      /\ [t[i] EXCEPT !.properties = q].parent = t[i].parent
  BY <1>1 DEF TreeNode
<1> HIDE DEF TreeNode
<1> QED
  BY <1>2

LEMMA TextIsName ==
  ASSUME NEW name \in NodeNames
  PROVE  /\ Text(name) \in Seq(Word) /\ Len(Text(name)) = TextWords(name)
         /\ TextWords(name) \in Nat \ {0}
         /\ Text(name)[1] = name
         /\ NameLength[name] % 4 = 0 => Text(name)[TextWords(name)] = 0
<1> DEFINE n == NameLength[name]
           last == n \div 4 + 1
<1>1. n \in Nat \ {0} /\ name # 0
  BY FdtAssumption
<1>2. last \in Nat \ {0} /\ TextWords(name) = last
  BY <1>1 DEF TextWords
<1>3. last = 1 => n % 4 # 0
  BY <1>1
<1>4. Text(name) = [i \in 1 .. last |-> IF i = last /\ n % 4 = 0 THEN 0
                                        ELSE IF i = 1 THEN name ELSE Rest]
  BY DEF Text
<1> HIDE DEF n, last
<1>5. \A i \in 1 .. last : Text(name)[i] \in Word
  BY <1>4 DEF Word
<1>6. Text(name) \in Seq(Word) /\ Len(Text(name)) = last
  BY <1>2, <1>4, <1>5
<1> QED
  BY <1>2, <1>3, <1>4, <1>6 DEF n

LEMMA WriteNodeStep ==
  ASSUME FirmwareTypes, WellFormed, NEW name \in NodeNames, WriteNode(name)
  PROVE  FirmwareTypes' /\ WellFormed'
<1> USE DEF FDT_BEGIN_NODE, FDT_PROP, FDT_END_NODE, FDT_NOP, FDT_END
<1> DEFINE words == <<FDT_BEGIN_NODE>> \o Text(name)
           n == TextWords(name)
           grown == [tree EXCEPT ![open].children = Append(@, Len(tree) + 1)]
<1>1. /\ words \in Seq(Word) /\ words # << >> /\ Len(words) = n + 1 /\ n \in Nat \ {0}
      /\ words[1] = 1 /\ words[2] = name
      /\ NameLength[name] % 4 = 0 => words[n + 1] = 0
  <2>1. FDT_BEGIN_NODE \in Word
    BY DEF Word
  <2> QED
    BY <2>1, TextIsName
<1>2. /\ Write(words) /\ open # NULL /\ tree' = Append(grown, NewNode(name))
      /\ open' = Len(tree) + 1
  BY DEF WriteNode
<1> HIDE DEF words
<1>3. PICK here \in Nat :
        /\ here = Written /\ here % 4 = 0 /\ Written' = here + 4 * Len(words)
        /\ \A k \in 0 .. Len(words) - 1 : At(block', here + 4 * k) = words[k + 1]
        /\ At(block', here) = words[1]
        /\ At(innermost', here) = open
        /\ Before(block', starts', here) = Len(tree)
  BY <1>1, <1>2, NewToken
<1>4. At(block', here + 4) = name
  <2>1. 1 \in 0 .. Len(words) - 1 /\ here + 4 * 1 = here + 4
    BY <1>1
  <2>2. At(block', here + 4 * 1) = words[1 + 1]
    BY <1>3, <2>1
  <2> QED
    BY <1>1, <2>1, <2>2
<1>5. After(block', here) = Written' /\ Written' = here + 4 + 4 * n
  BY <1>1, <1>3, <1>4 DEF After
<1>6. NameLength[name] % 4 = 0 => At(block', Written' - 4) = 0
  <2> SUFFICES ASSUME NameLength[name] % 4 = 0 PROVE At(block', Written' - 4) = 0
    OBVIOUS
  <2>1. n \in 0 .. Len(words) - 1 /\ here + 4 * n = Written' - 4
    BY <1>1, <1>3
  <2>2. At(block', here + 4 * n) = words[n + 1]
    BY <1>3, <2>1
  <2> QED
    BY <1>1, <2>1, <2>2
<1> HIDE DEF n
<1>7. TokenShape(here)'
  BY <1>1, <1>2, <1>3, <1>4, <1>5, <1>6 DEF TokenShape
<1>8. OpenAfter(here)' = Len(tree) + 1
  BY <1>1, <1>2, <1>3 DEF OpenAfter
<1>9. tree \in Seq(TreeNode) /\ open \in DOMAIN tree /\ Len(tree) \in Nat
  BY <1>2 DEF FirmwareTypes
<1>10. /\ grown \in Seq(TreeNode) /\ Len(grown) = Len(tree)
       /\ \A j \in DOMAIN tree : grown[j].parent = tree[j].parent
  <2> DEFINE c == Append(tree[open].children, Len(tree) + 1)
  <2>1. tree[open].children \in Seq(Nat)
    <3>1. tree[open] \in TreeNode
      BY <1>9
    <3> QED
      BY <3>1 DEF TreeNode
  <2>2. c \in Seq(Nat)
    BY <1>9, <2>1
  <2>3. grown = [tree EXCEPT ![open].children = c]
    OBVIOUS
  <2> HIDE DEF c, grown
  <2> QED
    BY <1>9, <2>2, <2>3, ChildrenChanged
<1>11. NewNode(name) \in TreeNode /\ NewNode(name).parent = open
  BY <1>9 DEF NewNode, TreeNode
<1> HIDE DEF grown
<1>12. /\ tree' \in Seq(TreeNode) /\ tree' # << >> /\ Len(tree') = Len(tree) + 1
       /\ \A j \in DOMAIN tree : tree'[j].parent = tree[j].parent
       /\ tree'[Len(tree) + 1].parent = open
       /\ open' \in DOMAIN tree' /\ open' # NULL
  BY <1>2, <1>9, <1>10, <1>11, NullNotNat
<1> QED
  BY <1>1, <1>2, <1>3, <1>5, <1>7, <1>8, <1>12, TokenWritten

LEMMA AlignedLength ==
  ASSUME NEW length \in Nat, NEW cells \in Nat, 4 * cells - length \in 0 .. 3
  PROVE  AlignToNextWord(length) = 4 * cells
BY DEF AlignToNextWord

LEMMA WritePropertyStep ==
  ASSUME FirmwareTypes, WellFormed, NEW p \in Props, WriteProperty(p)
  PROVE  FirmwareTypes' /\ WellFormed'
<1> USE DEF FDT_BEGIN_NODE, FDT_PROP, FDT_END_NODE, FDT_NOP, FDT_END
<1> DEFINE words == <<FDT_PROP, p.length, p.name>> \o p.cells
           n == Len(p.cells)
           entry == [name |-> p.name, value |-> Written + 12, length |-> p.length]
<1>1. p.length \in Nat /\ p.cells \in Seq(Nat) /\ 4 * n - p.length \in 0 .. 3 /\ n \in Nat
  BY FdtAssumption
<1>2. /\ words \in Seq(Word) /\ words # << >> /\ Len(words) = n + 3
      /\ words[1] = 3 /\ words[2] = p.length
  <2>1. /\ FDT_PROP \in Word /\ p.length \in Word /\ p.name \in Word
        /\ \A i \in DOMAIN p.cells : p.cells[i] \in Word
    BY <1>1 DEF Word
  <2> HIDE DEF Word
  <2>2. p.cells \in Seq(Word)
    BY <1>1, <2>1
  <2> QED
    BY <2>1, <2>2
<1>3. /\ Write(words) /\ open # NULL /\ open' = open
      /\ tree' = [tree EXCEPT ![open].properties = Append(@, entry)]
  BY DEF WriteProperty
<1> HIDE DEF words
<1>4. PICK here \in Nat :
        /\ here = Written /\ here % 4 = 0 /\ Written' = here + 4 * Len(words)
        /\ \A k \in 0 .. Len(words) - 1 : At(block', here + 4 * k) = words[k + 1]
        /\ At(block', here) = words[1]
        /\ At(innermost', here) = open
        /\ Before(block', starts', here) = Len(tree)
  BY <1>2, <1>3, NewToken
<1>5. At(block', here + 4) = p.length
  <2>1. 1 \in 0 .. Len(words) - 1 /\ here + 4 * 1 = here + 4
    BY <1>1, <1>2
  <2>2. At(block', here + 4 * 1) = words[1 + 1]
    BY <1>4, <2>1
  <2> QED
    BY <1>2, <2>1, <2>2
<1>6. AlignToNextWord(p.length) = 4 * n
  BY <1>1, AlignedLength
<1>7. After(block', here) = Written' /\ Written' = here + 12 + 4 * n
  BY <1>1, <1>2, <1>4, <1>5, <1>6 DEF After
<1> HIDE DEF n
<1>8. TokenShape(here)'
  <2>1. /\ Written' \in Nat /\ Written' % 4 = 0 /\ here + 12 <= Written'
        /\ here + 4 <= Written'
    BY <1>1, <1>4, <1>7
  <2>2. At(block', here) = FDT_PROP /\ At(innermost', here) # NULL
    BY <1>2, <1>3, <1>4
  <2> QED
    BY <1>1, <1>4, <1>5, <1>7, <2>1, <2>2 DEF TokenShape
<1>9. OpenAfter(here)' = open
  BY <1>2, <1>3, <1>4 DEF OpenAfter
<1>10. tree \in Seq(TreeNode) /\ open \in DOMAIN tree /\ Len(tree) \in Nat
  BY <1>3 DEF FirmwareTypes
<1>11. /\ tree' \in Seq(TreeNode) /\ Len(tree') = Len(tree)
       /\ \A j \in DOMAIN tree : tree'[j].parent = tree[j].parent
  <2>1. entry \in Entry
    BY <1>1, WrittenNat DEF Entry, Word
  <2> HIDE DEF entry
  <2> DEFINE q == Append(tree[open].properties, entry)
  <2>2. tree[open].properties \in Seq(Entry)
    <3>1. tree[open] \in TreeNode
      BY <1>10
    <3> QED
      BY <3>1 DEF TreeNode
  <2>3. q \in Seq(Entry)
    BY <2>1, <2>2
  <2>4. tree' = [tree EXCEPT ![open].properties = q]
    BY <1>3
  <2> HIDE DEF q
  <2> QED
    BY <1>10, <2>3, <2>4, PropertiesChanged
<1>12. tree' # << >> /\ open' \in DOMAIN tree' /\ open' # NULL
  BY <1>3, <1>10, <1>11
<1>13. /\ Len(tree') = Len(tree) + (IF words[1] = FDT_BEGIN_NODE THEN 1 ELSE 0)
       /\ words[1] # FDT_BEGIN_NODE
       /\ open' = OpenAfter(here)'
  BY <1>2, <1>3, <1>9, <1>10, <1>11
<1>14. After(block', here) = Written' /\ here = Written
  BY <1>4, <1>7
<1> HIDE DEF entry
<1> QED
  BY <1>2, <1>3, <1>8, <1>11, <1>12, <1>13, <1>14, TokenWritten

(* The tokens of one word. *)
LEMMA WriteWordStep ==
  ASSUME FirmwareTypes, WellFormed, WriteNop \/ WriteEndNode \/ WriteEnd
  PROVE  FirmwareTypes' /\ WellFormed'
<1> USE DEF FDT_BEGIN_NODE, FDT_PROP, FDT_END_NODE, FDT_NOP, FDT_END
<1>1. PICK token \in {FDT_NOP, FDT_END_NODE, FDT_END} :
        /\ Write(<<token>>) /\ tree' = tree
        /\ open' = (IF token = FDT_END_NODE THEN tree[open].parent ELSE open)
        /\ token = FDT_END_NODE => open # NULL
  BY DEF WriteNop, WriteEndNode, WriteEnd
<1>2. tree # << >>
  BY DEF WriteNop, WriteEndNode, WriteEnd, FirmwareTypes
<1> DEFINE words == <<token>>
<1>3. /\ words \in Seq(Word) /\ words # << >> /\ Len(words) = 1 /\ words[1] = token
  BY DEF Word
<1>4. Write(words)
  BY <1>1
<1> HIDE DEF words
<1>5. PICK here \in Nat :
        /\ here = Written /\ here % 4 = 0 /\ Written' = here + 4 * Len(words)
        /\ \A k \in 0 .. Len(words) - 1 : At(block', here + 4 * k) = words[k + 1]
        /\ At(block', here) = words[1]
        /\ At(innermost', here) = open
        /\ Before(block', starts', here) = Len(tree)
  BY <1>3, <1>4, NewToken
<1>6. After(block', here) = Written' /\ Written' = here + 4
  <2>1. At(block', here) \in {FDT_NOP, FDT_END_NODE, FDT_END}
    BY <1>1, <1>3, <1>5
  <2>2. After(block', here) = here + 4
    BY <2>1 DEF After
  <2> QED
    BY <1>3, <1>5, <2>2
<1>7. TokenShape(here)'
  BY <1>1, <1>3, <1>5, <1>6 DEF TokenShape
<1>8. OpenAfter(here)' = open'
  <2>1. At(block', here) = token /\ At(innermost', here) = open
    BY <1>3, <1>5
  <2>2. CASE token = FDT_END_NODE
    BY <1>1, <2>1, <2>2 DEF OpenAfter
  <2>3. CASE token # FDT_END_NODE
    BY <1>1, <2>1, <2>3 DEF OpenAfter
  <2> QED
    BY <2>2, <2>3
<1>9. /\ tree' \in Seq(TreeNode) /\ Len(tree') = Len(tree) /\ Len(tree) \in Nat
      /\ open' \in DOMAIN tree' \cup {NULL}
  <2>1. tree \in Seq(TreeNode) /\ open \in DOMAIN tree \cup {NULL}
    BY DEF FirmwareTypes
  <2>2. token = FDT_END_NODE => tree[open].parent \in 1 .. open - 1 \cup {NULL}
    BY <1>1, <2>1 DEF FirmwareTypes
  <2> QED
    BY <1>1, <2>1, <2>2
<1> QED
  BY <1>1, <1>2, <1>3, <1>4, <1>5, <1>6, <1>7, <1>8, <1>9, TokenWritten

LEMMA FirmwareStep ==
  ASSUME FirmwareTypes, WellFormed, Firmware
  PROVE  FirmwareTypes' /\ WellFormed'
BY WriteRootStep, WriteNodeStep, WritePropertyStep, WriteWordStep DEF Firmware

-----------------------------------------------------------------------------
(* The parser reads the tokens in the order they were written.             *)

LEMMA FirmwareKept ==
  ASSUME FirmwareTypes, WellFormed, UNCHANGED firmwareVars
  PROVE  FirmwareTypes' /\ WellFormed'
<1>1. /\ block' = block /\ tree' = tree /\ open' = open /\ innermost' = innermost
      /\ starts' = starts
  BY DEF firmwareVars
<1>2. FirmwareTypes'
  BY <1>1 DEF FirmwareTypes
<1>3. \A o \in starts' : TokenShape(o)' /\ TokenLink(o)'
  BY <1>1 DEF WellFormed, TokenShape, TokenLink, OpenAt, OpenAfter, Written
<1> QED
  BY <1>1, <1>2, <1>3 DEF WellFormed, Written

LEMMA LastToken ==
  ASSUME FirmwareTypes, WellFormed, Finished
  PROVE  Written - 4 \in starts /\ At(block, Written - 4) = FDT_END /\ Written - 4 \in Nat
<1>1. Written - 4 \in starts /\ Written - 4 \in Nat
  BY DEF WellFormed, Finished, FirmwareTypes
<1>2. (Written - 4) \div 4 + 1 = Len(block)
  BY <1>1 DEF Written, FirmwareTypes
<1> QED
  BY <1>1, <1>2 DEF Finished, Last, At

LEMMA NextToken ==
  ASSUME FirmwareTypes, WellFormed, Finished, NEW o \in starts, At(block, o) # FDT_END
  PROVE  LET n == After(block, o)
         IN  /\ n \in starts /\ n \in Nat /\ o \in Nat /\ o + 4 <= n
             /\ At(innermost, n) = OpenAfter(o)
             /\ Before(block, starts, n)
                  = Before(block, starts, o)
                      + (IF At(block, o) = FDT_BEGIN_NODE THEN 1 ELSE 0)
<1> DEFINE n == After(block, o)
           last == Written - 4
           old == Begun(block, starts, o)
<1>1. o \in Nat /\ TokenShape(o) /\ TokenLink(o) /\ starts \subseteq Nat /\ IsFiniteSet(starts)
  BY DEF WellFormed, FirmwareTypes
<1>2. last \in starts /\ At(block, last) = FDT_END /\ last \in Nat
  BY LastToken
<1>3. o < last
  <2>1. o + 4 <= Written
    BY <1>1 DEF TokenShape
  <2>2. o # last
    BY <1>2, Zenon
  <2> QED
    BY <1>1, <1>2, <2>1, <2>2, WrittenNat
<1>4. n <= last /\ n \in Nat /\ o + 4 <= n
  BY <1>1, <1>2, <1>3, Room DEF WellFormed, TokenShape
<1>5. n \in starts
  BY <1>1, <1>4, WrittenNat DEF TokenLink
<1>6. At(innermost, n) = OpenAfter(o)
  <2>1. n # Written
    BY <1>4, WrittenNat
  <2> QED
    BY <1>1, <2>1 DEF TokenLink, OpenAt
<1>7. \A s \in starts : s < n <=> (s < o \/ s = o)
  <2> SUFFICES ASSUME NEW s \in starts PROVE s < n <=> (s < o \/ s = o)
    OBVIOUS
  <2>1. o < s => n <= s
    BY DEF WellFormed
  <2>2. s \in Nat
    BY <1>1
  <2> HIDE DEF n
  <2> QED
    BY <1>1, <1>4, <2>1, <2>2
<1>8. IsFiniteSet(old) /\ Cardinality(old) \in Nat /\ o \notin old
  <2>1. IsFiniteSet(old) /\ Cardinality(old) \in Nat
    BY <1>1, BegunFinite DEF Before
  <2> QED
    BY <1>1, <2>1 DEF Begun
<1> HIDE DEF n
<1>9. CASE At(block, o) = FDT_BEGIN_NODE
  <2>1. Begun(block, starts, n) = old \cup {o}
    BY <1>7, <1>9, Zenon DEF Begun
  <2>2. Cardinality(old \cup {o}) = Cardinality(old) + 1
    BY <1>8, FS_AddElement
  <2> QED
    BY <1>1, <1>4, <1>5, <1>6, <1>9, <2>1, <2>2 DEF Before, n
<1>10. CASE At(block, o) # FDT_BEGIN_NODE
  <2>1. Begun(block, starts, n) = old
    BY <1>7, <1>10, Zenon DEF Begun
  <2> QED
    BY <1>1, <1>4, <1>5, <1>6, <1>8, <1>10, <2>1 DEF Before, n
<1> QED
  BY <1>9, <1>10

(* A token is read where it was written, its zeros aside. *)
LEMMA OnToken ==
  ASSUME IInv, Parsing
  PROVE  /\ Finished
         /\ \E o \in starts : /\ ReadUpTo(o) /\ o \in Nat /\ TokenShape(o) /\ TokenLink(o)
                              /\ At(block, curr_offset) # 0 => curr_offset = o
BY DEF IInv, Reader, Parsing, ReadUpTo, WellFormed, FirmwareTypes

LEMMA HeapTypeStep ==
  ASSUME Heap!TypeOK, ~panicked, NEW size \in Nat, Heap!EternalAlloc(size)
  PROVE  Heap!TypeOK'
<1>1. CASE Heap!Fits(curr, size)
  <2>1. /\ curr' = curr + size /\ curr + size < HeapEnd /\ panicked' = panicked
        /\ blocks' = Append(blocks, [ptr |-> curr, size |-> size,
                                     alignment |-> 1])
    BY <1>1 DEF Heap!EternalAlloc, Heap!AllocFrom, Heap!Fits, Heap!Bumped
  <2> QED
    BY <2>1 DEF Heap!TypeOK, Heap!Block
<1>2. CASE ~Heap!Fits(curr, size)
  BY <1>2 DEF Heap!EternalAlloc, Heap!AllocFrom, Heap!TypeOK
<1> QED
  BY <1>1, <1>2

LEMMA HeapKept == ASSUME Heap!TypeOK, UNCHANGED heap PROVE Heap!TypeOK'
  BY DEF heap, Heap!TypeOK

(* The parser's own state but for the heap, when no node changes. *)
NodesOK ==
  /\ nodes \in Seq(NodeType)
  /\ \A i \in DOMAIN nodes :
       /\ i \in DOMAIN tree /\ nodes[i].parent = tree[i].parent
       /\ nodes[i].parent \in (DOMAIN nodes \ {i}) \cup {NULL}
       /\ \A s \in 1 .. FDT_MAX_CHILDREN : nodes[i].children[s] \in Slot(DOMAIN nodes)

LEMMA NodesFromIInv == ASSUME IInv PROVE NodesOK
<1>1. nodes \in Seq(NodeType)
  BY DEF IInv
<1>2. \A i \in DOMAIN nodes : DOMAIN nodes[i].children = 1 .. FDT_MAX_CHILDREN
  BY DEF IInv, TypeOK
<1> QED
  BY <1>1, <1>2 DEF IInv, NodesOK, TypeOK, Reader

LEMMA TypesFromNodes ==
  ASSUME NodesOK', stage' \in {"write", "parse", "query", "invalid", "done"},
         curr_offset' \in Nat, Heap!TypeOK',
         {curr_node', root_node'} \subseteq DOMAIN nodes' \cup {NULL}
  PROVE  TypeOK'
<1>1. \A i \in DOMAIN nodes' : /\ DOMAIN nodes'[i].children = 1 .. FDT_MAX_CHILDREN
                               /\ DOMAIN nodes'[i].properties = 1 .. FDT_MAX_PROPERTIES
  <2> SUFFICES ASSUME NEW i \in DOMAIN nodes'
               PROVE  /\ DOMAIN nodes'[i].children = 1 .. FDT_MAX_CHILDREN
                      /\ DOMAIN nodes'[i].properties = 1 .. FDT_MAX_PROPERTIES
    OBVIOUS
  <2>1. nodes'[i] \in NodeType
    BY DEF NodesOK
  <2> QED
    BY <2>1 DEF NodeType
<1> QED
  BY <1>1 DEF NodesOK, TypeOK

LEMMA NodesKept ==
  ASSUME IInv, UNCHANGED firmwareVars, UNCHANGED nodes
  PROVE  NodesOK'
BY NodesFromIInv DEF NodesOK, firmwareVars

LEMMA Assemble ==
  ASSUME IInv, UNCHANGED firmwareVars, NodesOK', Heap!TypeOK',
         stage' \in {"parse", "query", "invalid", "done"}, stage' = "parse" => Finished,
         curr_offset' \in Nat, {curr_node', root_node'} \subseteq DOMAIN nodes' \cup {NULL},
         Parsing' => \E o \in starts : ReadUpTo(o)'
  PROVE  IInv'
<1>1. FirmwareTypes' /\ WellFormed'
  BY FirmwareKept DEF IInv
<1>2. Finished' <=> Finished
  BY DEF Finished, firmwareVars
<1>3. \A i \in DOMAIN nodes' : i \in DOMAIN tree' /\ nodes'[i].parent = tree'[i].parent
  BY DEF NodesOK
<1>4. starts' = starts
  BY DEF firmwareVars
<1>5. Reader'
  BY <1>2, <1>3, <1>4 DEF Reader
<1>6. TypeOK'
  BY TypesFromNodes
<1> QED
  BY <1>1, <1>5, <1>6 DEF IInv, NodesOK

(* The cursor comes to the end of a token, or to the word of zeros before. *)
LEMMA TokenRead ==
  ASSUME IInv, UNCHANGED firmwareVars, Finished, NEW o \in starts, ReadUpTo(o),
         At(block, o) # FDT_END,
         \/ curr_offset' = After(block, o)
         \/ curr_offset' = After(block, o) - 4 /\ At(block, After(block, o) - 4) = 0,
         curr_node' = OpenAfter(o),
         Len(nodes') = Len(nodes) + (IF At(block, o) = FDT_BEGIN_NODE THEN 1 ELSE 0)
  PROVE  curr_offset' \in Nat /\ \E p \in starts : ReadUpTo(p)'
<1> PICK n : n = After(block, o)
  OBVIOUS
<1>1. /\ n \in starts /\ n \in Nat /\ o \in Nat /\ o + 4 <= n
      /\ At(innermost, n) = OpenAfter(o)
      /\ Before(block, starts, n)
           = Before(block, starts, o) + (IF At(block, o) = FDT_BEGIN_NODE THEN 1 ELSE 0)
  BY NextToken DEF IInv
<1>2. block' = block /\ starts' = starts /\ innermost' = innermost
  BY DEF firmwareVars
<1>3. Len(nodes') = Before(block, starts, n)
  BY <1>1 DEF ReadUpTo
<1>4. ReadUpTo(n)'
  BY <1>1, <1>2, <1>3 DEF ReadUpTo
<1> QED
  BY <1>1, <1>4

LEMMA FdtInitStep == ASSUME IInv, FdtInit PROVE IInv'
<1>1. /\ UNCHANGED firmwareVars /\ UNCHANGED nodes /\ UNCHANGED heap /\ Finished
      /\ stage' \in {"parse", "invalid"} /\ curr_offset' = 0 /\ curr_node' = NULL
      /\ root_node' = root_node /\ nodes = << >> /\ tree # << >>
  BY DEF FdtInit, IInv, Reader, Finished
<1>2. NodesOK' /\ Heap!TypeOK'
  BY <1>1, NodesKept, HeapKept DEF IInv, TypeOK
<1>3. 0 \in starts /\ At(innermost, 0) = NULL /\ starts \subseteq Nat
  BY <1>1 DEF IInv, WellFormed, FirmwareTypes
<1>4. Before(block, starts, 0) = 0
  <2>1. \A s \in starts : ~(s < 0)
    BY <1>3
  <2>2. Begun(block, starts, 0) = {}
    BY <2>1, Zenon DEF Begun
  <2> QED
    BY <2>2, FS_EmptySet DEF Before
<1>5. block' = block /\ starts' = starts /\ innermost' = innermost
  BY <1>1 DEF firmwareVars
<1>6. ReadUpTo(0)'
  BY <1>1, <1>3, <1>4, <1>5 DEF ReadUpTo
<1>7. {curr_node', root_node'} \subseteq DOMAIN nodes' \cup {NULL}
  BY <1>1 DEF IInv, TypeOK
<1> QED
  BY <1>1, <1>2, <1>3, <1>6, <1>7, Assemble

LEMMA EndNodeStep == ASSUME IInv, ~panicked, EndNode PROVE IInv'
<1> USE DEF FDT_BEGIN_NODE, FDT_PROP, FDT_END_NODE, FDT_NOP, FDT_END
<1>1. /\ stage = "parse" /\ At(block, curr_offset) = FDT_END_NODE
      /\ curr_node' = nodes[curr_node].parent /\ curr_offset' = curr_offset + 4
      /\ UNCHANGED firmwareVars /\ UNCHANGED <<stage, root_node, nodes>> /\ UNCHANGED heap
  BY DEF EndNode, Token, ToParent, WordAt, At
<1>2. Finished /\ Parsing
  BY <1>1, OnToken DEF Parsing
<1>3. PICK o \in starts : /\ ReadUpTo(o) /\ o \in Nat /\ TokenShape(o) /\ TokenLink(o)
                          /\ curr_offset = o
  BY <1>1, <1>2, OnToken
<1>4. NodesOK' /\ Heap!TypeOK' /\ NodesOK
  BY <1>1, NodesKept, NodesFromIInv, HeapKept DEF IInv, TypeOK
<1>5. curr_node \in DOMAIN nodes /\ curr_node = At(innermost, o)
  BY <1>1, <1>3 DEF ReadUpTo, TokenShape, IInv, TypeOK
<1>6. curr_node' = OpenAfter(o)
  BY <1>1, <1>3, <1>4, <1>5 DEF NodesOK, OpenAfter
<1>7. curr_offset' = After(block, o)
  BY <1>1, <1>3 DEF After
<1>8. /\ Len(nodes') = Len(nodes) + (IF At(block, o) = FDT_BEGIN_NODE THEN 1 ELSE 0)
      /\ At(block, o) # FDT_END
  BY <1>1, <1>3 DEF IInv
<1>9. curr_offset' \in Nat /\ \E p \in starts : ReadUpTo(p)'
  BY <1>1, <1>2, <1>3, <1>6, <1>7, <1>8, TokenRead
<1>10. {curr_node', root_node'} \subseteq DOMAIN nodes' \cup {NULL}
  BY <1>1, <1>4, <1>5 DEF IInv, TypeOK, NodesOK
<1> QED
  BY <1>1, <1>2, <1>4, <1>9, <1>10, Assemble

LEMMA NopOrUnknownStep == ASSUME IInv, ~panicked, NopOrUnknown PROVE IInv'
<1> USE DEF FDT_BEGIN_NODE, FDT_PROP, FDT_END_NODE, FDT_NOP, FDT_END
<1>1. /\ stage = "parse" /\ curr_offset' = curr_offset + 4
      /\ At(block, curr_offset)
           \notin {FDT_BEGIN_NODE, FDT_END_NODE, FDT_PROP, FDT_END}
      /\ UNCHANGED firmwareVars /\ UNCHANGED <<stage, curr_node, root_node, nodes>>
      /\ UNCHANGED heap
  BY DEF NopOrUnknown, Skip, WordAt, At
<1>2. Finished /\ Parsing
  BY <1>1, OnToken DEF Parsing
<1>3. PICK o \in starts : /\ ReadUpTo(o) /\ o \in Nat /\ TokenShape(o) /\ TokenLink(o)
                          /\ At(block, curr_offset) # 0 => curr_offset = o
  BY <1>2, OnToken
<1>4. NodesOK' /\ Heap!TypeOK'
  BY <1>1, NodesKept, HeapKept DEF IInv, TypeOK
<1>5. block' = block /\ starts' = starts /\ innermost' = innermost
  BY <1>1 DEF firmwareVars
<1>6. ASSUME curr_offset = o
      PROVE  curr_offset' \in Nat /\ \E p \in starts : ReadUpTo(p)'
  <2>1. At(block, o) = FDT_NOP
    BY <1>1, <1>3, <1>6 DEF TokenShape
  <2>2. curr_offset' = After(block, o) /\ curr_node' = OpenAfter(o)
    BY <1>1, <1>3, <1>6, <2>1 DEF After, OpenAfter, ReadUpTo
  <2>3. /\ Len(nodes') = Len(nodes) + (IF At(block, o) = FDT_BEGIN_NODE THEN 1 ELSE 0)
        /\ At(block, o) # FDT_END
    BY <1>1, <2>1 DEF IInv
  <2> QED
    BY <1>1, <1>2, <1>3, <2>2, <2>3, TokenRead
<1>7. ASSUME curr_offset # o
      PROVE  curr_offset' \in Nat /\ \E p \in starts : ReadUpTo(p)'
  <2>1. curr_offset' = o
    BY <1>1, <1>3, <1>7 DEF ReadUpTo
  <2>2. ReadUpTo(o)'
    BY <1>1, <1>3, <1>5, <2>1 DEF ReadUpTo
  <2> QED
    BY <1>3, <2>1, <2>2
<1>8. curr_offset' \in Nat /\ \E p \in starts : ReadUpTo(p)'
  BY <1>3, <1>6, <1>7
<1>9. {curr_node', root_node'} \subseteq DOMAIN nodes' \cup {NULL}
  BY <1>1 DEF IInv, TypeOK
<1> QED
  BY <1>1, <1>2, <1>4, <1>8, <1>9, Assemble

(* The steps after which no token is read. *)
LEMMA StopStep == ASSUME IInv, EndParse \/ GetMemorySize PROVE IInv'
<1>1. /\ stage' \in {"query", "done"} /\ curr_offset' \in {curr_offset, curr_offset + 4}
      /\ UNCHANGED firmwareVars /\ UNCHANGED <<curr_node, root_node, nodes>>
      /\ UNCHANGED heap
  BY DEF EndParse, GetMemorySize
<1>2. NodesOK' /\ Heap!TypeOK'
  BY <1>1, NodesKept, HeapKept DEF IInv, TypeOK
<1>3. curr_offset' \in Nat /\ {curr_node', root_node'} \subseteq DOMAIN nodes' \cup {NULL}
  BY <1>1 DEF IInv, TypeOK
<1> QED
  BY <1>1, <1>2, <1>3, Assemble DEF Parsing

LEMMA NodeEdited ==
  ASSUME NEW ns \in Seq(NodeType), NEW i \in DOMAIN ns, NEW r \in NodeType
  PROVE  /\ [ns EXCEPT ![i] = r] \in Seq(NodeType)
         /\ DOMAIN [ns EXCEPT ![i] = r] = DOMAIN ns /\ Len([ns EXCEPT ![i] = r]) = Len(ns)
         /\ [ns EXCEPT ![i] = r][i] = r
         /\ \A j \in DOMAIN ns : j # i => [ns EXCEPT ![i] = r][j] = ns[j]
<1> HIDE DEF NodeType
<1> QED
  OBVIOUS

(* An insertion writes the entry to one slot, or to none. *)
LEMMA InsertedSlots ==
  ASSUME NEW n, NEW A, NEW slots \in [1 .. n -> A], NEW entry \in A
  PROVE  /\ InsertFirst(slots, entry) \in [1 .. n -> A]
         /\ \A s \in 1 .. n : InsertFirst(slots, entry)[s] \in {slots[s], entry}
BY DEF InsertFirst

LEMMA PropertyStep == ASSUME IInv, ~panicked, Property PROVE IInv'
<1> USE DEF FDT_BEGIN_NODE, FDT_PROP, FDT_END_NODE, FDT_NOP, FDT_END
<1> DEFINE length == At(block, curr_offset + 4)
           entry == [name |-> At(block, curr_offset + 8), value |-> curr_offset + 12,
                     length |-> length]
           slots == nodes[curr_node].properties
<1>1. /\ stage = "parse" /\ At(block, curr_offset) = FDT_PROP
      /\ UNCHANGED firmwareVars /\ UNCHANGED <<stage, curr_node, root_node>>
  BY DEF Property, Token, WordAt, At
<1>2. Finished /\ Parsing
  BY <1>1, OnToken DEF Parsing
<1>3. PICK o \in starts : /\ ReadUpTo(o) /\ o \in Nat /\ TokenShape(o) /\ TokenLink(o)
                          /\ curr_offset = o
  BY <1>1, <1>2, OnToken
<1>4. NodesOK /\ curr_node \in DOMAIN nodes /\ curr_node = At(innermost, o)
  BY <1>1, <1>3, NodesFromIInv DEF ReadUpTo, TokenShape, IInv, TypeOK
<1>5. entry \in Entry
  <2>1. length \in Nat /\ o + 12 <= Written /\ block \in Seq(Word)
    <3>1. length \in Nat /\ o + 12 <= After(block, o) /\ After(block, o) <= Written
          /\ After(block, o) \in Nat
      BY <1>1, <1>3 DEF TokenShape
    <3>2. block \in Seq(Word) /\ Written \in Nat
      BY WrittenNat DEF IInv, FirmwareTypes
    <3> QED
      BY <1>3, <3>1, <3>2
  <2>2. At(block, o + 8) \in Word
    <3>1. o + 8 \in Nat /\ o + 8 + 4 <= 4 * Len(block)
      BY <1>3, <2>1 DEF Written
    <3>2. block \in Seq(Word) /\ << >> \in Seq(Word)
      BY <2>1
    <3> HIDE DEF Word
    <3> QED
      BY <3>1, <3>2, AtOld
  <2> QED
    BY <1>3, <2>1, <2>2 DEF Entry
<1> HIDE DEF entry
<1>6. \/ /\ curr_offset' = After(block, o)
         /\ UNCHANGED nodes /\ UNCHANGED heap
      \/ /\ Heap!EternalAlloc(PropertyBytes)
         /\ panicked' /\ UNCHANGED <<curr_offset, nodes>>
      \/ /\ Heap!EternalAlloc(PropertyBytes) /\ curr_offset' = After(block, o)
         /\ nodes' = [nodes EXCEPT ![curr_node].properties = InsertFirst(slots, entry)]
  BY <1>1, <1>3 DEF Property, WordAt, At, After, entry
<1>7. Heap!TypeOK'
  <2>1. PropertyBytes \in Nat /\ Heap!TypeOK
    BY FdtAssumption DEF IInv, TypeOK
  <2> QED
    BY <1>6, <2>1, HeapTypeStep, HeapKept
<1>8. NodesOK' /\ DOMAIN nodes' = DOMAIN nodes /\ Len(nodes') = Len(nodes)
  <2>1. CASE UNCHANGED nodes
    BY <1>1, <2>1, NodesKept
  <2>2. CASE nodes' = [nodes EXCEPT ![curr_node].properties = InsertFirst(slots, entry)]
    <3> DEFINE r == [nodes[curr_node] EXCEPT !.properties = InsertFirst(slots, entry)]
    <3>1. nodes \in Seq(NodeType) /\ nodes[curr_node] \in NodeType
      BY <1>4 DEF NodesOK
    <3>2. slots \in [1 .. FDT_MAX_PROPERTIES -> Entry \cup {NULL, Garbage}]
      BY <3>1 DEF NodeType
    <3> HIDE DEF slots
    <3>3. InsertFirst(slots, entry) \in [1 .. FDT_MAX_PROPERTIES -> Entry \cup {NULL, Garbage}]
      BY <1>5, <3>2, InsertedSlots
    <3>4. /\ r \in NodeType /\ r.parent = nodes[curr_node].parent
          /\ r.children = nodes[curr_node].children
      BY <3>1, <3>3 DEF NodeType
    <3>5. nodes' = [nodes EXCEPT ![curr_node] = r]
      BY <2>2
    <3> HIDE DEF r
    <3>6. /\ nodes' \in Seq(NodeType) /\ DOMAIN nodes' = DOMAIN nodes
          /\ Len(nodes') = Len(nodes)
          /\ \A i \in DOMAIN nodes : /\ nodes'[i].parent = nodes[i].parent
                                     /\ nodes'[i].children = nodes[i].children
      BY <1>4, <3>1, <3>4, <3>5, NodeEdited
    <3>7. tree' = tree
      BY <1>1 DEF firmwareVars
    <3> QED
      BY <1>4, <3>6, <3>7 DEF NodesOK
  <2> QED
    BY <1>6, <2>1, <2>2
<1>9. curr_offset' \in Nat /\ (Parsing' => \E p \in starts : ReadUpTo(p)')
  <2>1. CASE panicked' /\ UNCHANGED curr_offset
    BY <1>3, <2>1 DEF Parsing
  <2>2. CASE curr_offset' = After(block, o)
    <3>1. curr_node' = OpenAfter(o)
      BY <1>1, <1>3, <1>4 DEF OpenAfter
    <3>2. /\ Len(nodes') = Len(nodes) + (IF At(block, o) = FDT_BEGIN_NODE THEN 1 ELSE 0)
          /\ At(block, o) # FDT_END
      BY <1>1, <1>3, <1>8 DEF IInv
    <3>3. curr_offset' \in Nat /\ \E p \in starts : ReadUpTo(p)'
      BY <1>1, <1>2, <1>3, <2>2, <3>1, <3>2, TokenRead
    <3> QED
      BY <3>3
  <2> QED
    BY <1>6, <2>1, <2>2
<1>10. {curr_node', root_node'} \subseteq DOMAIN nodes' \cup {NULL}
  BY <1>1, <1>8 DEF IInv, TypeOK
<1> QED
  BY <1>1, <1>2, <1>7, <1>8, <1>9, <1>10, Assemble

(* Where the cursor is after the begin of a node, whatever its name. *)
LEMMA PastName ==
  ASSUME IInv, NEW o \in starts, TokenShape(o), At(block, o) = FDT_BEGIN_NODE,
         NEW name, name = At(block, o + 4),
         NEW length, length = (IF name = 0 THEN 0 ELSE NameLength[name]),
         NEW cursor, cursor = o + 4 + AlignToNextWord(length)
  PROVE  /\ cursor = After(block, o)
              \/ (cursor = After(block, o) - 4 /\ At(block, After(block, o) - 4) = 0)
         /\ name = 0 => length = 0 /\ At(innermost, o) = NULL
         /\ name # 0 => name \in NodeNames /\ length # 0 /\ At(innermost, o) # NULL
<1> USE DEF FDT_BEGIN_NODE, FDT_PROP
<1>1. o \in Nat
  BY DEF IInv, FirmwareTypes
<1>2. After(block, o) = o + 4 + 4 * TextWords(name)
  BY DEF After
<1>3. CASE name = 0
  <2>1. AlignToNextWord(length) = 0 /\ TextWords(name) = 1
    BY <1>3 DEF AlignToNextWord, TextWords
  <2>2. At(innermost, o) = NULL
    BY <1>3, FdtAssumption DEF TokenShape
  <2>3. cursor = o + 4 /\ After(block, o) - 4 = o + 4
    BY <1>1, <1>2, <2>1
  <2> QED
    BY <1>3, <2>2, <2>3
<1>4. CASE name # 0
  <2>1. /\ name \in NodeNames /\ At(innermost, o) # NULL
        /\ NameLength[name] % 4 = 0 => At(block, After(block, o) - 4) = 0
    BY <1>4 DEF TokenShape
  <2>2. length = NameLength[name] /\ length \in Nat \ {0}
        /\ TextWords(name) = length \div 4 + 1
    BY <1>4, <2>1, FdtAssumption DEF TextWords
  <2>3. CASE length % 4 = 0
    <3>1. AlignToNextWord(length) = 4 * (length \div 4)
      BY <2>2, <2>3 DEF AlignToNextWord
    <3>2. cursor = After(block, o) - 4
      BY <1>1, <1>2, <2>2, <3>1
    <3> QED
      BY <1>4, <2>1, <2>2, <2>3, <3>2
  <2>4. CASE length % 4 # 0
    <3>1. AlignToNextWord(length) = 4 * (length \div 4 + 1)
      BY <2>2, <2>4 DEF AlignToNextWord
    <3>2. cursor = After(block, o)
      BY <1>1, <1>2, <2>2, <3>1
    <3> QED
      BY <1>4, <2>1, <2>2, <3>2
  <2> QED
    BY <2>3, <2>4
<1> QED
  BY <1>3, <1>4

LEMMA FreshSlots ==
  ASSUME NEW count, NEW dirty
  PROVE  EmptySlots(count, dirty) \in [1 .. count -> {NULL, Garbage}]
BY DEF EmptySlots

(* The new node, in the list and in the slots of its owner. *)
LEMMA NodeAdded ==
  ASSUME IInv, NEW name \in NodeNames \cup {0}, NEW parent \in DOMAIN nodes \cup {NULL},
         NEW new, new = Len(nodes) + 1, NEW owner \in DOMAIN nodes \cup {new},
         NEW dirty, NEW fresh,
         fresh = [name |-> name, parent |-> parent,
                  children |-> EmptySlots(FDT_MAX_CHILDREN, dirty),
                  properties |-> EmptySlots(FDT_MAX_PROPERTIES, dirty)],
         nodes' = [Append(nodes, fresh) EXCEPT ![owner].children = InsertFirst(@, new)],
         tree' = tree, new \in DOMAIN tree, tree[new].parent = parent
  PROVE  NodesOK' /\ Len(nodes') = new /\ DOMAIN nodes' = DOMAIN nodes \cup {new}
<1> DEFINE ns == Append(nodes, fresh)
           slots == ns[owner].children
           r == [ns[owner] EXCEPT !.children = InsertFirst(slots, new)]
           Slotted == Nat \cup {NULL, Garbage}
<1>1. NodesOK /\ nodes \in Seq(NodeType) /\ Len(nodes) \in Nat /\ new \in Nat
      /\ DOMAIN nodes = 1 .. Len(nodes)
  BY NodesFromIInv DEF NodesOK
<1>2. /\ EmptySlots(FDT_MAX_CHILDREN, dirty) \in [1 .. FDT_MAX_CHILDREN -> {NULL, Garbage}]
      /\ EmptySlots(FDT_MAX_PROPERTIES, dirty) \in [1 .. FDT_MAX_PROPERTIES -> {NULL, Garbage}]
  BY FreshSlots
<1>3. fresh \in NodeType /\ fresh.parent = parent
      /\ \A s \in 1 .. FDT_MAX_CHILDREN : fresh.children[s] \in {NULL, Garbage}
  BY <1>1, <1>2 DEF NodeType
<1>4. /\ ns \in Seq(NodeType) /\ Len(ns) = new /\ DOMAIN ns = DOMAIN nodes \cup {new}
      /\ ns[new] = fresh /\ \A j \in DOMAIN nodes : ns[j] = nodes[j]
  <2> HIDE DEF NodeType
  <2> QED
    BY <1>1, <1>3
<1> HIDE DEF ns
<1>5. ns[owner] \in NodeType /\ owner \in DOMAIN ns
  BY <1>4
<1>6. slots \in [1 .. FDT_MAX_CHILDREN -> Slotted] /\ new \in Slotted
  BY <1>1, <1>5 DEF NodeType
<1> HIDE DEF slots, Slotted
<1>7. /\ InsertFirst(slots, new) \in [1 .. FDT_MAX_CHILDREN -> Slotted]
      /\ \A s \in 1 .. FDT_MAX_CHILDREN : InsertFirst(slots, new)[s] \in {slots[s], new}
  BY <1>6, InsertedSlots
<1>8. r \in NodeType /\ r.parent = ns[owner].parent /\ r.children = InsertFirst(slots, new)
  BY <1>5, <1>7 DEF NodeType, Slotted
<1>9. nodes' = [ns EXCEPT ![owner] = r]
  BY DEF ns, slots
<1> HIDE DEF r
<1>10. /\ nodes' \in Seq(NodeType) /\ DOMAIN nodes' = DOMAIN ns /\ Len(nodes') = new
       /\ nodes'[owner] = r /\ \A j \in DOMAIN ns : j # owner => nodes'[j] = ns[j]
  <2>1. ns \in Seq(NodeType) /\ owner \in DOMAIN ns /\ r \in NodeType /\ Len(ns) = new
    BY <1>4, <1>5, <1>8
  <2> QED
    BY ONLY <1>9, <2>1, NodeEdited
<1>11. \A j \in DOMAIN nodes' :
         /\ nodes'[j].parent = ns[j].parent
         /\ \A s \in 1 .. FDT_MAX_CHILDREN :
              nodes'[j].children[s] \in {ns[j].children[s], new}
  BY <1>7, <1>8, <1>10 DEF slots
<1>12. \A j \in DOMAIN nodes' :
         /\ ns[j].parent \in (DOMAIN nodes' \ {j}) \cup {NULL}
         /\ j \in DOMAIN tree /\ ns[j].parent = tree[j].parent
         /\ \A s \in 1 .. FDT_MAX_CHILDREN : ns[j].children[s] \in Slot(DOMAIN nodes')
  <2> SUFFICES ASSUME NEW j \in DOMAIN nodes'
               PROVE  /\ ns[j].parent \in (DOMAIN nodes' \ {j}) \cup {NULL}
                      /\ j \in DOMAIN tree /\ ns[j].parent = tree[j].parent
                      /\ \A s \in 1 .. FDT_MAX_CHILDREN : ns[j].children[s] \in Slot(DOMAIN nodes')
    OBVIOUS
  <2>1. CASE j = new
    <3>1. ns[j] = fresh /\ parent \in (DOMAIN nodes' \ {j}) \cup {NULL}
      BY <1>1, <1>4, <1>10, <2>1
    <3> QED
      BY <1>3, <2>1, <3>1 DEF Slot
  <2>2. CASE j \in DOMAIN nodes
    BY <1>1, <1>4, <1>10, <2>2 DEF NodesOK, Slot
  <2> QED
    BY <1>4, <1>10, <2>1, <2>2
<1>13. new \in DOMAIN nodes'
  BY <1>4, <1>10
<1>14. \A j \in DOMAIN nodes' : \A s \in 1 .. FDT_MAX_CHILDREN :
         nodes'[j].children[s] \in Slot(DOMAIN nodes')
  BY <1>11, <1>12, <1>13 DEF Slot
<1> QED
  BY <1>4, <1>10, <1>11, <1>12, <1>14 DEF NodesOK

LEMMA BeginNodeStep == ASSUME IInv, ~panicked, BeginNode PROVE IInv'
<1> USE DEF FDT_BEGIN_NODE, FDT_PROP, FDT_END_NODE, FDT_NOP, FDT_END
<1>1. /\ stage = "parse" /\ At(block, curr_offset) = FDT_BEGIN_NODE
      /\ UNCHANGED firmwareVars /\ stage' = stage /\ Heap!EternalAlloc(NodeBytes)
  BY DEF BeginNode, Token, WordAt, At
<1>2. Finished /\ Parsing
  BY <1>1, OnToken DEF Parsing
<1>3. PICK o \in starts : /\ ReadUpTo(o) /\ o \in Nat /\ TokenShape(o) /\ TokenLink(o)
                          /\ curr_offset = o
  BY <1>1, <1>2, OnToken
<1>4. Heap!TypeOK'
  BY <1>1, FdtAssumption, HeapTypeStep DEF IInv, TypeOK
<1>5. CASE panicked' /\ UNCHANGED <<curr_offset, curr_node, root_node, nodes>>
  <2>1. NodesOK'
    BY <1>1, <1>5, NodesKept
  <2>2. {curr_node', root_node'} \subseteq DOMAIN nodes' \cup {NULL} /\ curr_offset' \in Nat
    BY <1>5 DEF IInv, TypeOK
  <2> QED
    BY <1>1, <1>2, <1>4, <1>5, <2>1, <2>2, Assemble DEF Parsing
<1>6. CASE ~(panicked' /\ UNCHANGED <<curr_offset, curr_node, root_node, nodes>>)
  <2> PICK name : name = At(block, o + 4)
    OBVIOUS
  <2> PICK length : length = IF name = 0 THEN 0 ELSE NameLength[name]
    OBVIOUS
  <2> PICK new : new = Len(nodes) + 1
    OBVIOUS
  <2> DEFINE parent == IF length = 0 THEN NULL ELSE curr_node
             owner == IF length = 0 THEN new ELSE curr_node
             fresh(dirty) == [name |-> name, parent |-> parent,
                              children |-> EmptySlots(FDT_MAX_CHILDREN, dirty),
                              properties |-> EmptySlots(FDT_MAX_PROPERTIES, dirty)]
  <2>1. /\ curr_offset' = o + 4 + AlignToNextWord(length)
        /\ root_node' = IF length = 0 THEN new ELSE root_node
        /\ curr_node' = new
        /\ \E dirty \in HeapContents :
             nodes' = [Append(nodes, fresh(dirty)) EXCEPT
                         ![owner].children = InsertFirst(@, new)]
    BY <1>3, <1>6 DEF BeginNode, WordAt, At
  <2>2. /\ curr_offset' = After(block, o)
              \/ (curr_offset' = After(block, o) - 4 /\ At(block, After(block, o) - 4) = 0)
        /\ name = 0 => length = 0 /\ At(innermost, o) = NULL
        /\ name # 0 => name \in NodeNames /\ length # 0 /\ At(innermost, o) # NULL
    BY <1>1, <1>3, <2>1, PastName
  <2>3. name \in NodeNames \cup {0}
    BY <2>2
  <2>4. parent = At(innermost, o) /\ curr_node = At(innermost, o)
    BY <1>3, <2>2 DEF ReadUpTo
  <2>5. parent \in DOMAIN nodes \cup {NULL} /\ owner \in DOMAIN nodes \cup {new}
    BY <2>2, <2>4 DEF IInv, TypeOK
  <2>6. new = Before(block, starts, o) + 1
    BY <1>3 DEF ReadUpTo
  <2>7. new \in DOMAIN tree /\ tree[new].parent = parent
    BY <1>1, <1>3, <2>4, <2>6 DEF TokenLink
  <2>8. tree' = tree
    BY <1>1 DEF firmwareVars
  <2>9. NodesOK' /\ Len(nodes') = new /\ DOMAIN nodes' = DOMAIN nodes \cup {new}
    <3> PICK dirty : nodes' = [Append(nodes, fresh(dirty)) EXCEPT
                                 ![owner].children = InsertFirst(@, new)]
      BY <2>1
    <3> PICK f : f = fresh(dirty)
      OBVIOUS
    <3>1. nodes' = [Append(nodes, f) EXCEPT ![owner].children = InsertFirst(@, new)]
      BY Zenon
    <3>2. f = [name |-> name, parent |-> parent,
               children |-> EmptySlots(FDT_MAX_CHILDREN, dirty),
               properties |-> EmptySlots(FDT_MAX_PROPERTIES, dirty)]
      BY Zenon
    <3>3. IInv /\ new = Len(nodes) + 1
      OBVIOUS
    <3> HIDE DEF parent, owner, fresh
    <3> QED
      BY ONLY <2>3, <2>5, <2>7, <2>8, <3>1, <3>2, <3>3, NodeAdded
  <2>10. curr_node' = OpenAfter(o)
    BY <1>1, <1>3, <2>1, <2>6 DEF OpenAfter
  <2>11. /\ Len(nodes') = Len(nodes) + (IF At(block, o) = FDT_BEGIN_NODE THEN 1 ELSE 0)
         /\ At(block, o) # FDT_END
    BY <1>1, <1>3, <2>9
  <2>12. curr_offset' \in Nat /\ \E p \in starts : ReadUpTo(p)'
    BY <1>1, <1>2, <1>3, <2>2, <2>10, <2>11, TokenRead
  <2>13. {curr_node', root_node'} \subseteq DOMAIN nodes' \cup {NULL}
    BY <2>1, <2>9 DEF IInv, TypeOK
  <2> QED
    BY <1>1, <1>2, <1>4, <2>9, <2>12, <2>13, Assemble
<1> QED
  BY <1>5, <1>6

LEMMA FirmwareIInv == ASSUME IInv, Firmware PROVE IInv'
<1>1. stage = "write" /\ UNCHANGED parserVars
  BY DEF Firmware, WriteRoot, WriteNode, WriteProperty, WriteNop, WriteEndNode, WriteEnd, Write
<1>2. /\ stage' = stage /\ curr_offset' = curr_offset /\ curr_node' = curr_node
      /\ root_node' = root_node /\ nodes' = nodes /\ UNCHANGED heap
  BY <1>1 DEF parserVars
<1>3. FirmwareTypes' /\ WellFormed'
  BY FirmwareStep DEF IInv
<1>4. nodes = << >> /\ curr_offset = 0 /\ curr_node = NULL
  BY <1>1 DEF IInv, Reader
<1>5. Reader'
  BY <1>1, <1>2, <1>4 DEF Reader, Parsing
<1>6. TypeOK'
  BY <1>2, HeapKept DEF IInv, TypeOK
<1> QED
  BY <1>2, <1>3, <1>5, <1>6 DEF IInv

LEMMA InitIInv == Init => IInv
<1> SUFFICES ASSUME Init PROVE IInv
  OBVIOUS
<1>1. /\ block = << >> /\ tree = << >> /\ open = NULL /\ innermost = << >> /\ starts = {}
      /\ stage = "write" /\ curr_offset = 0 /\ curr_node = NULL /\ root_node = NULL
      /\ nodes = << >>
  BY DEF Init
<1>2. FirmwareTypes
  BY <1>1, FS_EmptySet DEF FirmwareTypes
<1>3. Begun(block, starts, Written) = {} /\ Len(tree) = 0
  BY <1>1 DEF Begun
<1>4. WellFormed
  BY <1>1, <1>3, FS_EmptySet DEF WellFormed, Before
<1>5. Reader
  BY <1>1 DEF Reader, Parsing
<1>6. Heap!TypeOK
  <2>1. curr = HeapStart /\ panicked = FALSE /\ blocks = << >>
    BY DEF Init, Heap!Init
  <2>2. blocks \in Seq(Heap!Block)
    BY <2>1
  <2>3. curr \in Nat /\ curr < HeapEnd
    BY <2>1, FdtAssumption
  <2> QED
    BY <2>1, <2>2, <2>3 DEF Heap!TypeOK
<1>7. nodes \in Seq(NodeType) /\ DOMAIN nodes = {}
  BY <1>1
<1>8. TypeOK
  BY <1>1, <1>6, <1>7 DEF TypeOK
<1> QED
  BY <1>2, <1>4, <1>5, <1>7, <1>8 DEF IInv

LEMMA IInvStep == ASSUME IInv, [Next]_vars PROVE IInv'
<1>1. ASSUME IInv, UNCHANGED vars PROVE IInv'
  <2>1. /\ UNCHANGED firmwareVars /\ stage' = stage /\ curr_offset' = curr_offset
        /\ curr_node' = curr_node /\ root_node' = root_node /\ nodes' = nodes
        /\ UNCHANGED heap /\ panicked' = panicked
    BY <1>1 DEF vars, parserVars, heap
  <2>2. FirmwareTypes' /\ WellFormed'
    BY <1>1, <2>1, FirmwareKept DEF IInv
  <2>3. Reader'
    BY <1>1, <2>1 DEF IInv, Reader, Parsing, ReadUpTo, Finished, firmwareVars
  <2>4. TypeOK'
    BY <1>1, <2>1, HeapKept DEF IInv, TypeOK
  <2> QED
    BY <1>1, <2>1, <2>2, <2>3, <2>4 DEF IInv
<1> QED
  BY <1>1, FirmwareIInv, FdtInitStep, BeginNodeStep, EndNodeStep, PropertyStep,
     NopOrUnknownStep, StopStep DEF Next, Kernel, Hang

LEMMA Invariance == Spec => []IInv
<1>1. IInv /\ [Next]_vars => IInv'
  BY IInvStep
<1> QED
  BY <1>1, InitIInv, PTL DEF Spec

-----------------------------------------------------------------------------

(***************************************************************************)
(* The firmware's tree: what each token of the block stands for in it, and *)
(* that its nodes and properties are in the order of their tokens.         *)
(***************************************************************************)

(* The entry that the property at offset o makes. *)
PropAt(o) ==
  [name |-> At(block, o + 8), value |-> o + 12, length |-> At(block, o + 4)]

(* The node whose begin is at offset o. *)
NodeAt(o) == Before(block, starts, o) + 1

RegWords(p) ==
  p.name = Reg =>
    /\ p.value + 16 <= Written
    /\ At(block, p.value + 8) \in Nat /\ At(block, p.value + 12) \in 0 .. WordBase - 1

(* The children of a node are in the order of their begins, its properties *)
(* in that of their tokens, and no name is there twice.                    *)
ChildOf(i, k) ==
  LET c == tree[i].children[k]
  IN  /\ c \in DOMAIN tree /\ tree[c].parent = i
      /\ \A l \in 1 .. k - 1 : /\ tree[i].children[l] < c
                               /\ tree[tree[i].children[l]].name # tree[c].name

PropertyOf(i, k) ==
  LET p == tree[i].properties[k]
  IN  /\ \E o \in starts : /\ At(block, o) = FDT_PROP /\ At(innermost, o) = i
                           /\ p = PropAt(o)
      /\ p.name \in {q.name : q \in Props} /\ RegWords(p)
      /\ \A l \in 1 .. k - 1 : /\ tree[i].properties[l].value < p.value
                               /\ tree[i].properties[l].name # p.name

(* A node is the root or in the list of its parent. *)
PlaceOf(i) ==
  /\ i = 1 => tree[i].parent = NULL /\ tree[i].name = 0
  /\ i # 1 => /\ tree[i].parent \in DOMAIN tree /\ tree[i].name # 0
              /\ \E k \in DOMAIN tree[tree[i].parent].children :
                   tree[tree[i].parent].children[k] = i

(* The part of the tree that the token at o stands for; behind the first   *)
(* end of the block there are only tokens that change nothing.             *)
TokenMeans(o) ==
  /\ At(block, o) = FDT_BEGIN_NODE => tree[NodeAt(o)].name = At(block, o + 4)
  /\ At(block, o) = FDT_PROP =>
       \E k \in DOMAIN tree[At(innermost, o)].properties :
         tree[At(innermost, o)].properties[k] = PropAt(o)
  /\ At(innermost, o) # NULL => At(innermost, o) < NodeAt(o)
  /\ At(block, o) = FDT_END =>
       /\ open = NULL
       /\ \A p \in starts : o < p => At(block, p) \in {FDT_NOP, FDT_END}

TreeInv ==
  /\ \A i \in DOMAIN tree :
       /\ PlaceOf(i)
       /\ \A k \in DOMAIN tree[i].children : ChildOf(i, k)
       /\ \A k \in DOMAIN tree[i].properties : PropertyOf(i, k)
       /\ Len(tree[i].properties) <= Len(block)
  /\ \A o \in starts : TokenMeans(o)

-----------------------------------------------------------------------------

(* What is in the block stays there. *)
LEMMA OldTokens ==
  ASSUME FirmwareTypes, WellFormed, NEW words \in Seq(Word), words # << >>, Write(words)
  PROVE  /\ starts' = starts \cup {Written} /\ starts \subseteq Nat
         /\ Written \in Nat /\ Written' = Written + 4 * Len(words) /\ Len(words) \in Nat \ {0}
         /\ Len(block') = Len(block) + Len(words) /\ Len(block) \in Nat
         /\ \A v \in Nat : v + 4 <= Written => At(block', v) = At(block, v)
         /\ \A o \in starts :
              /\ At(block', o) = At(block, o)
              /\ At(innermost', o) = At(innermost, o)
              /\ At(innermost, o) \in DOMAIN tree \cup {NULL}
              /\ NodeAt(o)' = NodeAt(o) /\ NodeAt(o) \in Nat
              /\ o < Written /\ After(block, o) <= Written
              /\ At(block, o) \in {FDT_BEGIN_NODE, FDT_PROP} =>
                   At(block', o + 4) = At(block, o + 4)
              /\ At(block, o) = FDT_PROP => PropAt(o)' = PropAt(o) /\ o + 12 <= Written
<1> DEFINE opens == [i \in DOMAIN words |-> open]
<1>1. /\ block' = block \o words /\ innermost' = innermost \o opens
      /\ starts' = starts \cup {Written}
  BY DEF Write
<1>2. /\ block \in Seq(Word) /\ Len(innermost) = Len(block) /\ Len(words) \in Nat \ {0}
      /\ Written \in Nat /\ Written = 4 * Len(block) /\ starts \subseteq Nat
      /\ innermost \in Seq(DOMAIN tree \cup {NULL}) /\ open \in DOMAIN tree \cup {NULL}
      /\ IsFiniteSet(starts) /\ Len(block) \in Nat
  BY WrittenNat DEF FirmwareTypes, Written
<1>3. opens \in Seq(DOMAIN tree \cup {NULL})
  BY <1>2
<1> HIDE DEF opens
<1>4. Len(block') = Len(block) + Len(words) /\ Written' = Written + 4 * Len(words)
  BY <1>1, <1>2 DEF Written
<1>5. \A v \in Nat : v + 4 <= Written => At(block', v) = At(block, v)
  BY <1>1, <1>2, AtOld
<1>6. ASSUME NEW o \in starts
      PROVE  /\ At(block', o) = At(block, o)
             /\ At(innermost', o) = At(innermost, o)
             /\ At(innermost, o) \in DOMAIN tree \cup {NULL}
             /\ NodeAt(o)' = NodeAt(o) /\ NodeAt(o) \in Nat
             /\ o < Written /\ After(block, o) <= Written
             /\ At(block, o) \in {FDT_BEGIN_NODE, FDT_PROP} =>
                  At(block', o + 4) = At(block, o + 4)
             /\ At(block, o) = FDT_PROP => PropAt(o)' = PropAt(o) /\ o + 12 <= Written
  <2>1. /\ o \in Nat /\ TokenShape(o) /\ o + 4 <= Written
        /\ At(block, o) \in {FDT_BEGIN_NODE, FDT_PROP} => o + 8 <= Written
    BY <1>2, Room DEF WellFormed
  <2>2. At(block', o) = At(block, o) /\ o < Written /\ After(block, o) <= Written
    <3>1. At(block', o) = At(block, o)
      BY <1>5, <2>1
    <3>2. After(block, o) <= Written
      BY <2>1 DEF TokenShape
    <3> QED
      BY <1>2, <2>1, <3>1, <3>2
  <2>3. At(innermost', o) = At(innermost, o) /\ At(innermost, o) \in DOMAIN tree \cup {NULL}
    <3>1. o + 4 <= 4 * Len(innermost)
      BY <1>2, <2>1
    <3> QED
      BY <1>1, <1>2, <1>3, <2>1, <3>1, AtOld
  <2>4. NodeAt(o)' = NodeAt(o) /\ NodeAt(o) \in Nat
    <3>1. o \in 0 .. Written
      BY <1>2, <2>1
    <3>2. Before(block', starts', o) = Before(block, starts, o)
      BY <1>1, <3>1, BeforeOld
    <3>3. Before(block, starts, o) \in Nat
      BY <1>2, BegunFinite
    <3> QED
      BY <3>2, <3>3 DEF NodeAt
  <2>5. ASSUME At(block, o) \in {FDT_BEGIN_NODE, FDT_PROP}
        PROVE  At(block', o + 4) = At(block, o + 4)
    <3>1. o + 4 \in Nat /\ o + 4 + 4 <= Written
      BY <1>2, <2>1, <2>5
    <3> QED
      BY <1>5, <3>1
  <2>6. ASSUME At(block, o) = FDT_PROP PROVE PropAt(o)' = PropAt(o) /\ o + 12 <= Written
    <3>1. o + 12 <= Written
      BY <1>2, <2>1, <2>6 DEF TokenShape, FDT_PROP
    <3>2. o + 8 \in Nat /\ o + 8 + 4 <= Written
      BY <1>2, <2>1, <3>1
    <3>3. At(block', o + 8) = At(block, o + 8)
      BY <1>5, <3>2
    <3> QED
      BY <2>5, <2>6, <3>1, <3>3 DEF PropAt
  <2> QED
    BY <2>2, <2>3, <2>4, <2>5, <2>6
<1> QED
  BY <1>1, <1>2, <1>4, <1>5, <1>6

(* The nodes are those there were, with longer lists. *)
Grown ==
  /\ DOMAIN tree \subseteq DOMAIN tree'
  /\ \A i \in DOMAIN tree :
       /\ tree'[i].name = tree[i].name /\ tree'[i].parent = tree[i].parent
       /\ \A k \in DOMAIN tree[i].children :
            k \in DOMAIN tree'[i].children /\ tree'[i].children[k] = tree[i].children[k]
       /\ \A k \in DOMAIN tree[i].properties :
            k \in DOMAIN tree'[i].properties /\ tree'[i].properties[k] = tree[i].properties[k]

LEMMA NodeFields ==
  ASSUME NEW t \in Seq(TreeNode), NEW i \in DOMAIN t
  PROVE  /\ t[i] \in TreeNode /\ t[i].children \in Seq(Nat) /\ t[i].properties \in Seq(Entry)
         /\ DOMAIN t[i].children = 1 .. Len(t[i].children) /\ Len(t[i].children) \in Nat
         /\ DOMAIN t[i].properties = 1 .. Len(t[i].properties) /\ Len(t[i].properties) \in Nat
         /\ \A k \in DOMAIN t[i].children : t[i].children[k] \in Nat
         /\ \A k \in DOMAIN t[i].properties : t[i].properties[k] \in Entry
<1>1. t[i] \in TreeNode
  OBVIOUS
<1>2. t[i].children \in Seq(Nat) /\ t[i].properties \in Seq(Entry)
  BY <1>1 DEF TreeNode
<1> HIDE DEF Entry, TreeNode
<1> QED
  BY <1>1, <1>2

LEMMA ChildKept ==
  ASSUME tree \in Seq(TreeNode), TreeInv, Grown,
         NEW i \in DOMAIN tree, NEW k \in DOMAIN tree[i].children
  PROVE  ChildOf(i, k)'
<1>1. /\ DOMAIN tree[i].children = 1 .. Len(tree[i].children)
      /\ Len(tree[i].children) \in Nat
  BY NodeFields
<1>2. ChildOf(i, k)
  BY DEF TreeInv
<1>3. /\ tree'[i].children[k] = tree[i].children[k]
      /\ tree[i].children[k] \in DOMAIN tree /\ tree[tree[i].children[k]].parent = i
  BY <1>2 DEF ChildOf, Grown
<1>4. \A l \in 1 .. k - 1 :
        /\ tree'[i].children[l] = tree[i].children[l]
        /\ tree[i].children[l] \in DOMAIN tree
        /\ tree[i].children[l] < tree[i].children[k]
        /\ tree[tree[i].children[l]].name # tree[tree[i].children[k]].name
  <2> SUFFICES ASSUME NEW l \in 1 .. k - 1
               PROVE  /\ tree'[i].children[l] = tree[i].children[l]
                      /\ tree[i].children[l] \in DOMAIN tree
                      /\ tree[i].children[l] < tree[i].children[k]
                      /\ tree[tree[i].children[l]].name # tree[tree[i].children[k]].name
    OBVIOUS
  <2>1. l \in DOMAIN tree[i].children
    BY <1>1
  <2>2. ChildOf(i, l)
    BY <2>1 DEF TreeInv
  <2> QED
    BY <1>2, <2>1, <2>2 DEF ChildOf, Grown
<1>5. \A j \in DOMAIN tree : /\ j \in DOMAIN tree' /\ tree'[j].name = tree[j].name
                             /\ tree'[j].parent = tree[j].parent
  BY DEF Grown
<1> QED
  BY <1>3, <1>4, <1>5 DEF ChildOf

LEMMA PropertyKept ==
  ASSUME FirmwareTypes, WellFormed, TreeInv, Grown,
         NEW words \in Seq(Word), words # << >>, Write(words),
         NEW i \in DOMAIN tree, NEW k \in DOMAIN tree[i].properties
  PROVE  PropertyOf(i, k)'
<1> DEFINE p == tree[i].properties[k]
<1>1. /\ DOMAIN tree[i].properties = 1 .. Len(tree[i].properties)
      /\ Len(tree[i].properties) \in Nat /\ p \in Entry
  BY NodeFields DEF FirmwareTypes
<1>2. PropertyOf(i, k)
  BY DEF TreeInv
<1>3. /\ starts' = starts \cup {Written} /\ Written \in Nat /\ Written' \in Nat
      /\ Written <= Written'
      /\ \A v \in Nat : v + 4 <= Written => At(block', v) = At(block, v)
      /\ \A o \in starts : /\ At(block', o) = At(block, o)
                           /\ At(innermost', o) = At(innermost, o)
                           /\ At(block, o) = FDT_PROP => PropAt(o)' = PropAt(o)
  BY OldTokens
<1>4. tree'[i].properties[k] = p
  BY DEF Grown
<1>5. \E o \in starts' : At(block', o) = FDT_PROP /\ At(innermost', o) = i /\ p = PropAt(o)'
  <2>1. PICK o \in starts : At(block, o) = FDT_PROP /\ At(innermost, o) = i /\ p = PropAt(o)
    BY <1>2 DEF PropertyOf
  <2> QED
    BY <1>3, <2>1
<1>6. RegWords(p)'
  <2>1. p.name = Reg =>
          /\ p.value + 16 <= Written /\ At(block, p.value + 8) \in Nat
          /\ At(block, p.value + 12) \in 0 .. WordBase - 1
    BY <1>2 DEF PropertyOf, RegWords
  <2> QED
    <3>1. p.value \in Nat
      BY <1>1 DEF Entry
    <3>2. p' = p
      BY <1>4
    <3> HIDE DEF p
    <3> SUFFICES ASSUME p.name = Reg
                 PROVE  /\ p.value + 16 <= Written'
                        /\ At(block', p.value + 8) \in Nat
                        /\ At(block', p.value + 12) \in 0 .. WordBase - 1
      BY <3>2 DEF RegWords
    <3>3. /\ p.value + 8 \in Nat /\ p.value + 8 + 4 <= Written
          /\ p.value + 12 \in Nat /\ p.value + 12 + 4 <= Written
      BY <1>3, <2>1, <3>1
    <3>4. At(block', p.value + 8) = At(block, p.value + 8)
          /\ At(block', p.value + 12) = At(block, p.value + 12)
      BY <1>3, <3>3
    <3>5. p.value + 16 <= Written'
      BY <1>3, <2>1, <3>1
    <3> QED
      BY <2>1, <3>4, <3>5
<1>7. \A l \in 1 .. k - 1 : /\ tree'[i].properties[l].value < p.value
                            /\ tree'[i].properties[l].name # p.name
  <2> SUFFICES ASSUME NEW l \in 1 .. k - 1
               PROVE  /\ tree'[i].properties[l].value < p.value
                      /\ tree'[i].properties[l].name # p.name
    OBVIOUS
  <2>1. l \in DOMAIN tree[i].properties
    BY <1>1
  <2> QED
    BY <1>2, <2>1 DEF PropertyOf, Grown
<1>8. (tree[i].properties[k])' = p /\ p.name \in {q.name : q \in Props}
  BY <1>2, <1>4 DEF PropertyOf
<1> QED
  BY <1>4, <1>5, <1>6, <1>7, <1>8, Zenon DEF PropertyOf

(* What a token stands for in the tree, but for the end of the block. *)
PartOf(o) ==
  /\ At(block, o) = FDT_BEGIN_NODE => tree[NodeAt(o)].name = At(block, o + 4)
  /\ At(block, o) = FDT_PROP =>
       \E k \in DOMAIN tree[At(innermost, o)].properties :
         tree[At(innermost, o)].properties[k] = PropAt(o)
  /\ At(innermost, o) # NULL => At(innermost, o) < NodeAt(o)

LEMMA PartKept ==
  ASSUME FirmwareTypes, WellFormed, TreeInv, Grown,
         NEW words \in Seq(Word), words # << >>, Write(words), NEW o \in starts
  PROVE  PartOf(o)'
<1>1. /\ At(block', o) = At(block, o) /\ At(innermost', o) = At(innermost, o)
      /\ At(innermost, o) \in DOMAIN tree \cup {NULL} /\ NodeAt(o)' = NodeAt(o)
      /\ At(block, o) = FDT_BEGIN_NODE => At(block', o + 4) = At(block, o + 4)
      /\ At(block, o) = FDT_PROP => PropAt(o)' = PropAt(o)
  BY OldTokens
<1>2. TokenMeans(o) /\ TokenShape(o) /\ TokenLink(o)
  BY DEF TreeInv, WellFormed
<1>3. ASSUME At(block, o) = FDT_BEGIN_NODE PROVE tree'[NodeAt(o)].name = At(block, o + 4)
  BY <1>2, <1>3 DEF TokenMeans, TokenLink, NodeAt, Grown
<1>4. ASSUME At(block, o) = FDT_PROP
      PROVE  \E k \in DOMAIN tree'[At(innermost, o)].properties :
               tree'[At(innermost, o)].properties[k] = PropAt(o)
  <2>1. At(innermost, o) \in DOMAIN tree
    BY <1>1, <1>2, <1>4 DEF TokenShape
  <2>2. PICK k \in DOMAIN tree[At(innermost, o)].properties :
          tree[At(innermost, o)].properties[k] = PropAt(o)
    BY <1>2, <1>4 DEF TokenMeans
  <2>3. /\ k \in DOMAIN tree'[At(innermost, o)].properties
        /\ tree'[At(innermost, o)].properties[k] = PropAt(o)
    BY <2>1, <2>2 DEF Grown
  <2> QED
    BY <2>3
<1>5. At(innermost, o) # NULL => At(innermost, o) < NodeAt(o)
  BY <1>2 DEF TokenMeans
<1> QED
  BY <1>1, <1>3, <1>4, <1>5, Zenon DEF PartOf

(* A write keeps the tree as it is to be if what it adds is.               *)
LEMMA TreeKept ==
  ASSUME FirmwareTypes, WellFormed, TreeInv, Grown,
         NEW words \in Seq(Word), words # << >>, Write(words),
         NEW here, here = Written,
         \A i \in DOMAIN tree' :
           /\ i \notin DOMAIN tree => PlaceOf(i)'
           /\ \A k \in DOMAIN tree'[i].children :
                (i \in DOMAIN tree /\ k \in DOMAIN tree[i].children) \/ ChildOf(i, k)'
           /\ \A k \in DOMAIN tree'[i].properties :
                (i \in DOMAIN tree /\ k \in DOMAIN tree[i].properties) \/ PropertyOf(i, k)'
           /\ Len(tree'[i].properties) <= Len(block'),
         PartOf(here)',
         At(block', here) = FDT_END => open' = NULL,
         \/ tree = << >>
         \/ open # NULL
         \/ open' = open /\ At(block', here) \in {FDT_NOP, FDT_END}
  PROVE  TreeInv'
<1>1. /\ starts' = starts \cup {here} /\ starts \subseteq Nat /\ here \in Nat
      /\ \A o \in starts : At(block', o) = At(block, o) /\ o < here
  BY OldTokens
<1>2. tree \in Seq(TreeNode)
  BY DEF FirmwareTypes
<1>3. \A i \in DOMAIN tree' :
        /\ \A k \in DOMAIN tree'[i].children : ChildOf(i, k)'
        /\ \A k \in DOMAIN tree'[i].properties : PropertyOf(i, k)'
  BY <1>2, ChildKept, PropertyKept
<1>4. \A i \in DOMAIN tree : PlaceOf(i)'
  <2> SUFFICES ASSUME NEW i \in DOMAIN tree PROVE PlaceOf(i)'
    OBVIOUS
  <2>1. PlaceOf(i)
    BY DEF TreeInv
  <2>2. tree'[i].parent = tree[i].parent /\ tree'[i].name = tree[i].name
    BY DEF Grown
  <2>3. ASSUME i # 1
        PROVE  /\ tree[i].parent \in DOMAIN tree' /\ tree[i].name # 0
               /\ \E k \in DOMAIN tree'[tree[i].parent].children :
                    tree'[tree[i].parent].children[k] = i
    BY <2>1, <2>3 DEF PlaceOf, Grown
  <2> QED
    BY <2>1, <2>2, <2>3, Zenon DEF PlaceOf
<1>5. \A o \in starts' :
        At(block', o) = FDT_END =>
          /\ open' = NULL
          /\ \A p \in starts' : o < p => At(block', p) \in {FDT_NOP, FDT_END}
  <2> SUFFICES ASSUME NEW o \in starts', At(block', o) = FDT_END
               PROVE  /\ open' = NULL
                      /\ \A p \in starts' : o < p => At(block', p) \in {FDT_NOP, FDT_END}
    OBVIOUS
  <2>1. CASE o = here
    BY <1>1, <2>1
  <2>2. CASE o # here
    <3>1. o \in starts /\ At(block, o) = FDT_END
      BY <1>1, <2>2
    <3>2. /\ open = NULL
          /\ \A p \in starts : o < p => At(block, p) \in {FDT_NOP, FDT_END}
      BY <3>1 DEF TreeInv, TokenMeans
    <3>3. tree # << >>
      BY <3>1 DEF WellFormed
    <3>4. open' = NULL /\ At(block', here) \in {FDT_NOP, FDT_END}
      BY <3>2, <3>3
    <3> QED
      BY <1>1, <3>2, <3>4
  <2> QED
    BY <2>1, <2>2
<1>6. \A o \in starts' : PartOf(o)'
  BY <1>1, PartKept
<1>7. \A o \in starts' : TokenMeans(o)'
  BY <1>5, <1>6 DEF PartOf, TokenMeans
<1> QED
  BY <1>3, <1>4, <1>7 DEF TreeInv

LEMMA RootTree ==
  ASSUME FirmwareTypes, WellFormed, TreeInv, WriteRoot
  PROVE  TreeInv'
<1> USE DEF FDT_BEGIN_NODE, FDT_PROP, FDT_END_NODE, FDT_NOP, FDT_END
<1> DEFINE words == <<FDT_BEGIN_NODE, 0>>
<1>1. words \in Seq(Word) /\ words # << >> /\ Len(words) = 2 /\ words[1] = 1 /\ words[2] = 0
  BY DEF Word
<1>2. Write(words) /\ tree = << >> /\ open = NULL /\ tree' = <<NewNode(0)>> /\ open' = 1
  BY DEF WriteRoot, WellFormed
<1> HIDE DEF words
<1>3. PICK here \in Nat :
        /\ here = Written /\ here % 4 = 0 /\ Written' = here + 4 * Len(words)
        /\ \A k \in 0 .. Len(words) - 1 : At(block', here + 4 * k) = words[k + 1]
        /\ At(block', here) = words[1]
        /\ At(innermost', here) = open
        /\ Before(block', starts', here) = Len(tree)
  BY <1>1, <1>2, NewToken
<1>4. At(block', here + 4) = 0
  <2>1. 1 \in 0 .. Len(words) - 1 /\ here + 4 * 1 = here + 4
    BY <1>1
  <2>2. At(block', here + 4 * 1) = words[1 + 1]
    BY <1>3, <2>1
  <2> QED
    BY <1>1, <2>1, <2>2
<1>5. /\ DOMAIN tree = {} /\ DOMAIN tree' = {1} /\ Len(tree) = 0
      /\ tree'[1].name = 0 /\ tree'[1].parent = NULL
      /\ tree'[1].children = << >> /\ tree'[1].properties = << >>
  BY <1>2 DEF NewNode
<1>6. Grown
  BY <1>5 DEF Grown
<1>7. NodeAt(here)' = 1
  BY <1>3, <1>5 DEF NodeAt
<1>8. PartOf(here)'
  BY <1>1, <1>2, <1>3, <1>4, <1>5, <1>7 DEF PartOf
<1>9. PlaceOf(1)'
  BY <1>5 DEF PlaceOf
<1>10. Len(block') \in Nat
  BY <1>1, <1>2, OldTokens
<1>11. \A i \in DOMAIN tree' :
          /\ i \notin DOMAIN tree => PlaceOf(i)'
          /\ \A k \in DOMAIN tree'[i].children :
               (i \in DOMAIN tree /\ k \in DOMAIN tree[i].children) \/ ChildOf(i, k)'
          /\ \A k \in DOMAIN tree'[i].properties :
               (i \in DOMAIN tree /\ k \in DOMAIN tree[i].properties) \/ PropertyOf(i, k)'
          /\ Len(tree'[i].properties) <= Len(block')
  <2>1. /\ DOMAIN tree'[1].children = {} /\ DOMAIN tree'[1].properties = {}
        /\ Len(tree'[1].properties) = 0
    BY <1>5
  <2> QED
    BY <1>5, <1>9, <1>10, <2>1
<1>12. At(block', here) # FDT_END
  BY <1>1, <1>3
<1> QED
  BY <1>1, <1>2, <1>3, <1>6, <1>8, <1>11, <1>12, TreeKept

LEMMA WordTree ==
  ASSUME FirmwareTypes, WellFormed, TreeInv, WriteNop \/ WriteEndNode \/ WriteEnd
  PROVE  TreeInv'
<1> USE DEF FDT_BEGIN_NODE, FDT_PROP, FDT_END_NODE, FDT_NOP, FDT_END
<1>1. PICK token \in {FDT_NOP, FDT_END_NODE, FDT_END} :
        /\ Write(<<token>>) /\ tree' = tree
        /\ token = FDT_END_NODE => open # NULL
        /\ token # FDT_END_NODE => open' = open
        /\ token = FDT_END => open = NULL
  BY DEF WriteNop, WriteEndNode, WriteEnd
<1> DEFINE words == <<token>>
<1>2. /\ words \in Seq(Word) /\ words # << >> /\ Len(words) = 1 /\ words[1] = token
  BY DEF Word
<1>3. Write(words)
  BY <1>1
<1> HIDE DEF words
<1>4. PICK here \in Nat :
        /\ here = Written /\ here % 4 = 0 /\ Written' = here + 4 * Len(words)
        /\ \A k \in 0 .. Len(words) - 1 : At(block', here + 4 * k) = words[k + 1]
        /\ At(block', here) = words[1]
        /\ At(innermost', here) = open
        /\ Before(block', starts', here) = Len(tree)
  BY <1>2, <1>3, NewToken
<1>5. At(block', here) = token
  BY <1>2, <1>4
<1>6. Grown
  BY <1>1 DEF Grown
<1>7. NodeAt(here)' = Len(tree) + 1 /\ (open # NULL => open < Len(tree) + 1)
  BY <1>4 DEF NodeAt, FirmwareTypes
<1>8. PartOf(here)'
  BY <1>4, <1>5, <1>7 DEF PartOf
<1>9. \A i \in DOMAIN tree' : Len(tree'[i].properties) <= Len(block')
  <2> SUFFICES ASSUME NEW i \in DOMAIN tree PROVE Len(tree[i].properties) <= Len(block')
    BY <1>1
  <2>1. Len(tree[i].properties) <= Len(block) /\ Len(tree[i].properties) \in Nat
    BY NodeFields DEF TreeInv, FirmwareTypes
  <2>2. Len(block') = Len(block) + 1 /\ Len(block) \in Nat
    BY <1>2, <1>3, OldTokens
  <2> QED
    BY <2>1, <2>2
<1>10. \/ open # NULL
       \/ open' = open /\ At(block', here) \in {FDT_NOP, FDT_END}
  BY <1>1, <1>5
<1>11. At(block', here) = FDT_END => open' = NULL
  BY <1>1, <1>5
<1> QED
  BY <1>1, <1>2, <1>3, <1>4, <1>6, <1>8, <1>9, <1>10, <1>11, TreeKept

LEMMA NodeTree ==
  ASSUME FirmwareTypes, WellFormed, TreeInv, NEW name \in NodeNames, WriteNode(name)
  PROVE  TreeInv'
<1> USE DEF FDT_BEGIN_NODE, FDT_PROP, FDT_END_NODE, FDT_NOP, FDT_END
<1> PICK new : new = Len(tree) + 1
  OBVIOUS
<1> PICK m : m = Len(tree[open].children)
  OBVIOUS
<1> PICK node : node = open
  OBVIOUS
<1> DEFINE words == <<FDT_BEGIN_NODE>> \o Text(name)
           n == TextWords(name)
           r == [tree[open] EXCEPT !.children = Append(tree[open].children, new)]
<1>1. /\ words \in Seq(Word) /\ words # << >> /\ Len(words) = n + 1 /\ n \in Nat \ {0}
      /\ words[1] = 1 /\ words[2] = name
  <2>1. FDT_BEGIN_NODE \in Word
    BY DEF Word
  <2> QED
    BY <2>1, TextIsName
<1>2. /\ Write(words) /\ open # NULL
      /\ tree' = Append([tree EXCEPT ![open] = r], NewNode(name))
      /\ \A i \in DOMAIN tree[open].children : tree[tree[open].children[i]].name # name
  BY DEF WriteNode
<1> HIDE DEF words
<1>3. PICK here \in Nat :
        /\ here = Written /\ here % 4 = 0 /\ Written' = here + 4 * Len(words)
        /\ \A k \in 0 .. Len(words) - 1 : At(block', here + 4 * k) = words[k + 1]
        /\ At(block', here) = words[1]
        /\ At(innermost', here) = open
        /\ Before(block', starts', here) = Len(tree)
  BY <1>1, <1>2, NewToken
<1>4. At(block', here + 4) = name
  <2>1. 1 \in 0 .. Len(words) - 1 /\ here + 4 * 1 = here + 4
    BY <1>1
  <2>2. At(block', here + 4 * 1) = words[1 + 1]
    BY <1>3, <2>1
  <2> QED
    BY <1>1, <2>1, <2>2
<1>5. /\ tree \in Seq(TreeNode) /\ open \in DOMAIN tree /\ Len(tree) \in Nat
      /\ DOMAIN tree = 1 .. Len(tree)
      /\ tree[open].children \in Seq(Nat) /\ m \in Nat
      /\ DOMAIN tree[open].children = 1 .. m
  BY <1>2, NodeFields DEF FirmwareTypes
<1>6. /\ r.name = tree[open].name /\ r.parent = tree[open].parent
      /\ r.properties = tree[open].properties
      /\ DOMAIN r.children = 1 .. m + 1
      /\ r.children[m + 1] = new
      /\ \A k \in 1 .. m : r.children[k] = tree[open].children[k]
  <2>1. r.children = Append(tree[open].children, new)
    <3>1. tree[open] \in TreeNode
      BY <1>5, NodeFields
    <3> QED
      BY <3>1 DEF TreeNode
  <2> QED
    BY <1>5, <2>1
<1> HIDE DEF r
<1>7. /\ DOMAIN tree' = 1 .. new
      /\ tree'[new].name = name /\ tree'[new].parent = open
      /\ tree'[new].children = << >> /\ tree'[new].properties = << >>
      /\ tree'[open] = r
      /\ \A j \in DOMAIN tree : j # open => tree'[j] = tree[j]
  <2>1. /\ DOMAIN [tree EXCEPT ![open] = r] = 1 .. Len(tree)
        /\ [tree EXCEPT ![open] = r][open] = r
        /\ \A j \in DOMAIN tree : j # open => [tree EXCEPT ![open] = r][j] = tree[j]
    BY <1>5
  <2>2. Len([tree EXCEPT ![open] = r]) = Len(tree)
    BY <1>5, <2>1
  <2> QED
    BY <1>2, <1>5, <2>1, <2>2 DEF NewNode
<1>8. Grown
  <2> SUFFICES ASSUME NEW i \in DOMAIN tree
               PROVE  /\ i \in DOMAIN tree'
                      /\ tree'[i].name = tree[i].name /\ tree'[i].parent = tree[i].parent
                      /\ \A k \in DOMAIN tree[i].children :
                           /\ k \in DOMAIN tree'[i].children
                           /\ tree'[i].children[k] = tree[i].children[k]
                      /\ tree'[i].properties = tree[i].properties
    BY DEF Grown
  <2>1. i \in DOMAIN tree'
    BY <1>5, <1>7
  <2>2. CASE i = open
    <3>1. \A k \in 1 .. m : k \in 1 .. m + 1
      BY <1>5
    <3>2. /\ tree'[i] = r /\ DOMAIN tree[i].children = 1 .. m
          /\ \A k \in 1 .. m : r.children[k] = tree[i].children[k]
      BY <1>5, <1>6, <1>7, <2>2
    <3> QED
      BY <1>6, <2>1, <2>2, <3>1, <3>2
  <2>3. CASE i # open
    BY <1>7, <2>1, <2>3
  <2> QED
    BY <2>2, <2>3
<1>9. NodeAt(here)' = new /\ open < new
  BY <1>3, <1>5 DEF NodeAt
<1>10. PartOf(here)'
  BY <1>1, <1>3, <1>4, <1>7, <1>9 DEF PartOf
<1>11. PlaceOf(new)'
  <2>1. new # 1 /\ name # 0
    BY <1>5, FdtAssumption
  <2>2. open \in DOMAIN tree' /\ m + 1 \in DOMAIN tree'[open].children
        /\ tree'[open].children[m + 1] = new
    BY <1>5, <1>6, <1>7
  <2> QED
    BY <1>7, <2>1, <2>2 DEF PlaceOf
<1>12. ChildOf(node, m + 1)'
  <2>1. \A l \in 1 .. m : /\ tree[open].children[l] \in DOMAIN tree
                          /\ tree[open].children[l] < new
    BY <1>5 DEF TreeInv, ChildOf
  <2>2. \A j \in DOMAIN tree : tree'[j].name = tree[j].name
    BY <1>6, <1>7
  <2>3. \A l \in 1 .. (m + 1) - 1 :
          /\ tree'[open].children[l] < new
          /\ tree'[tree'[open].children[l]].name # name
    <3> SUFFICES ASSUME NEW l \in 1 .. (m + 1) - 1
                 PROVE  /\ tree'[open].children[l] < new
                        /\ tree'[tree'[open].children[l]].name # name
      OBVIOUS
    <3>1. l \in 1 .. m
      BY <1>5
    <3>2. tree'[open].children[l] = tree[open].children[l]
      BY <1>6, <1>7, <3>1
    <3> QED
      BY <1>2, <1>5, <2>1, <2>2, <3>1, <3>2
  <2>4. /\ tree'[node].children[m + 1] = new /\ new \in DOMAIN tree'
        /\ tree'[new].parent = node /\ tree'[new].name = name
    BY <1>5, <1>6, <1>7
  <2> QED
    BY <2>3, <2>4 DEF ChildOf
<1>13. \A i \in DOMAIN tree' : Len(tree'[i].properties) <= Len(block')
  <2>1. Len(block') = Len(block) + Len(words) /\ Len(block) \in Nat
    BY <1>1, <1>2, OldTokens
  <2>2. \A i \in DOMAIN tree : /\ Len(tree[i].properties) <= Len(block)
                               /\ Len(tree[i].properties) \in Nat
    BY <1>5, NodeFields DEF TreeInv
  <2>3. \A i \in DOMAIN tree : tree'[i].properties = tree[i].properties
    BY <1>6, <1>7
  <2>4. Len(tree'[new].properties) = 0
    BY <1>7
  <2>5. \A i \in DOMAIN tree' : i = new \/ i \in DOMAIN tree
    BY <1>5, <1>7
  <2> QED
    BY <1>1, <2>1, <2>2, <2>3, <2>4, <2>5
<1>14. /\ words[1] = FDT_BEGIN_NODE /\ At(block', here) # FDT_END
       /\ \A i \in DOMAIN tree' : i = new \/ i \in DOMAIN tree
  BY <1>1, <1>3, <1>5, <1>7
<1>15. \A i \in DOMAIN tree' : \A k \in DOMAIN tree'[i].children :
         (i \in DOMAIN tree /\ k \in DOMAIN tree[i].children) \/ ChildOf(i, k)'
  <2> SUFFICES ASSUME NEW i \in DOMAIN tree, NEW k \in DOMAIN tree'[i].children
               PROVE  k \in DOMAIN tree[i].children \/ ChildOf(i, k)'
    BY <1>7, <1>14
  <2>1. CASE i = node
    <3>1. k \in 1 .. m + 1
      BY <1>6, <1>7, <2>1
    <3>2. m \in Nat
      BY <1>5
    <3>3. k \in 1 .. m \/ k = m + 1
      BY ONLY <3>1, <3>2
    <3> QED
      BY <1>5, <1>12, <2>1, <3>3
  <2>2. CASE i # node
    BY <1>7, <2>2
  <2> QED
    BY <2>1, <2>2
<1>16. \A i \in DOMAIN tree' : \A k \in DOMAIN tree'[i].properties :
         i \in DOMAIN tree /\ k \in DOMAIN tree[i].properties
  <2> SUFFICES ASSUME NEW i \in DOMAIN tree, NEW k \in DOMAIN tree'[i].properties
               PROVE  k \in DOMAIN tree[i].properties
    BY <1>7, <1>14
  <2> QED
    BY <1>6, <1>7
<1>17. \A i \in DOMAIN tree' : i \notin DOMAIN tree => PlaceOf(i)'
  BY <1>11, <1>14
<1>18. here = Written /\ open # NULL
  BY <1>2, <1>3
<1> QED
  BY <1>1, <1>2, <1>8, <1>10, <1>13, <1>14, <1>15, <1>16, <1>17, <1>18, TreeKept

LEMMA PropertyTree ==
  ASSUME FirmwareTypes, WellFormed, TreeInv, NEW p \in Props, WriteProperty(p)
  PROVE  TreeInv'
<1> USE DEF FDT_BEGIN_NODE, FDT_PROP, FDT_END_NODE, FDT_NOP, FDT_END
<1> PICK m : m = Len(tree[open].properties)
  OBVIOUS
<1> PICK node : node = open
  OBVIOUS
<1> PICK entry : entry = [name |-> p.name, value |-> Written + 12, length |-> p.length]
  OBVIOUS
<1> DEFINE words == <<FDT_PROP, p.length, p.name>> \o p.cells
           n == Len(p.cells)
           r == [tree[open] EXCEPT !.properties = Append(tree[open].properties, entry)]
<1>1. /\ p.length \in Nat /\ p.cells \in Seq(Nat) /\ 4 * n - p.length \in 0 .. 3 /\ n \in Nat
      /\ p.name = Reg => n >= 4 /\ \A i \in DOMAIN p.cells : p.cells[i] < WordBase
  BY FdtAssumption, RegAssumption
<1>2. /\ words \in Seq(Word) /\ words # << >> /\ Len(words) = n + 3
      /\ words[1] = 3 /\ words[2] = p.length /\ words[3] = p.name
      /\ \A i \in 1 .. n : words[i + 3] = p.cells[i]
  <2>1. /\ FDT_PROP \in Word /\ p.length \in Word /\ p.name \in Word
        /\ \A i \in DOMAIN p.cells : p.cells[i] \in Word
    BY <1>1 DEF Word
  <2> HIDE DEF Word
  <2>2. p.cells \in Seq(Word)
    BY <1>1, <2>1
  <2> QED
    BY <2>1, <2>2
<1>3. /\ Write(words) /\ open # NULL /\ open' = open
      /\ tree' = [tree EXCEPT ![open] = r]
      /\ \A i \in DOMAIN tree[open].properties : tree[open].properties[i].name # p.name
  BY DEF WriteProperty
<1> HIDE DEF words
<1>4. PICK here \in Nat :
        /\ here = Written /\ here % 4 = 0 /\ Written' = here + 4 * Len(words)
        /\ \A k \in 0 .. Len(words) - 1 : At(block', here + 4 * k) = words[k + 1]
        /\ At(block', here) = words[1]
        /\ At(innermost', here) = open
        /\ Before(block', starts', here) = Len(tree)
  BY <1>2, <1>3, NewToken
<1>5. /\ At(block', here + 4) = p.length /\ At(block', here + 8) = p.name
      /\ \A k \in 1 .. n : At(block', here + 8 + 4 * k) = p.cells[k]
  <2>1. \A k \in 0 .. n + 2 : At(block', here + 4 * k) = words[k + 1]
    <3>1. Len(words) - 1 = n + 2
      BY <1>1, <1>2
    <3> QED
      BY <1>4, <3>1
  <2>2. At(block', here + 4 * 1) = words[1 + 1] /\ At(block', here + 4 * 2) = words[2 + 1]
    <3>1. 1 \in 0 .. n + 2 /\ 2 \in 0 .. n + 2
      BY <1>1
    <3> QED
      BY <2>1, <3>1
  <2>3. \A k \in 1 .. n : At(block', here + 8 + 4 * k) = p.cells[k]
    <3> SUFFICES ASSUME NEW k \in 1 .. n PROVE At(block', here + 8 + 4 * k) = p.cells[k]
      OBVIOUS
    <3>1. k + 2 \in 0 .. n + 2 /\ (k + 2) + 1 = k + 3 /\ here + 4 * (k + 2) = here + 8 + 4 * k
      BY <1>1
    <3>2. At(block', here + 4 * (k + 2)) = words[(k + 2) + 1]
      BY <2>1, <3>1
    <3> QED
      BY <1>2, <3>1, <3>2
  <2>4. here + 4 * 1 = here + 4 /\ here + 4 * 2 = here + 8 /\ 1 + 1 = 2 /\ 2 + 1 = 3
    BY <1>4
  <2> QED
    BY <1>2, <2>2, <2>3, <2>4
<1>6. /\ tree \in Seq(TreeNode) /\ open \in DOMAIN tree /\ Len(tree) \in Nat
      /\ DOMAIN tree = 1 .. Len(tree)
      /\ tree[open].properties \in Seq(Entry) /\ m \in Nat
      /\ DOMAIN tree[open].properties = 1 .. m
  BY <1>3, NodeFields DEF FirmwareTypes
<1>7. /\ r.name = tree[open].name /\ r.parent = tree[open].parent
      /\ r.children = tree[open].children
      /\ DOMAIN r.properties = 1 .. m + 1 /\ Len(r.properties) = m + 1
      /\ r.properties[m + 1] = entry
      /\ \A k \in 1 .. m : r.properties[k] = tree[open].properties[k]
  <2>1. /\ r.properties = Append(tree[open].properties, entry)
        /\ r.name = tree[open].name /\ r.parent = tree[open].parent
        /\ r.children = tree[open].children
    <3>1. tree[open] \in TreeNode
      BY <1>6, NodeFields
    <3> QED
      BY <3>1 DEF TreeNode
  <2> QED
    BY <1>6, <2>1
<1> HIDE DEF r
<1>8. /\ DOMAIN tree' = DOMAIN tree /\ tree'[open] = r
      /\ \A j \in DOMAIN tree : j # open => tree'[j] = tree[j]
  BY <1>3, <1>6
<1>9. \A k \in 1 .. m : k \in 1 .. m + 1
  BY <1>6
<1>10. Grown
  <2> SUFFICES ASSUME NEW i \in DOMAIN tree
               PROVE  /\ i \in DOMAIN tree'
                      /\ tree'[i].name = tree[i].name /\ tree'[i].parent = tree[i].parent
                      /\ \A k \in DOMAIN tree[i].properties :
                           /\ k \in DOMAIN tree'[i].properties
                           /\ tree'[i].properties[k] = tree[i].properties[k]
                      /\ tree'[i].children = tree[i].children
    BY DEF Grown
  <2>1. CASE i = open
    BY <1>6, <1>7, <1>8, <1>9, <2>1
  <2>2. CASE i # open
    BY <1>8, <2>2
  <2> QED
    BY <2>1, <2>2
<1>11. PropAt(here)' = entry
  BY <1>4, <1>5 DEF PropAt
<1>12. PartOf(here)'
  <2>1. NodeAt(here)' = Len(tree) + 1 /\ open < Len(tree) + 1
    BY <1>4, <1>6 DEF NodeAt
  <2>2. At(block', here) = FDT_PROP
    BY <1>2, <1>4
  <2>3. m + 1 \in DOMAIN tree'[open].properties /\ tree'[open].properties[m + 1] = entry
    BY <1>6, <1>7, <1>8
  <2> QED
    BY <1>4, <1>11, <2>1, <2>2, <2>3 DEF PartOf
<1>13. entry.name = p.name /\ entry.value = here + 12
  BY <1>4
<1>14. RegWords(entry)'
  <2> SUFFICES ASSUME p.name = Reg
               PROVE  /\ here + 12 + 16 <= Written'
                      /\ At(block', here + 12 + 8) \in Nat
                      /\ At(block', here + 12 + 12) \in 0 .. WordBase - 1
    BY <1>13 DEF RegWords
  <2>1. n >= 4 /\ \A i \in DOMAIN p.cells : p.cells[i] < WordBase
    BY <1>1
  <2>2. Written' = here + 4 * (n + 3)
    BY <1>2, <1>4
  <2>3. here + 12 + 16 <= Written'
    BY <1>1, <1>4, <2>1, <2>2
  <2>4. 3 \in 1 .. n /\ 4 \in 1 .. n
    BY <1>1, <2>1
  <2>5. At(block', here + 8 + 4 * 3) = p.cells[3] /\ At(block', here + 8 + 4 * 4) = p.cells[4]
    BY <1>5, <2>4
  <2>6. here + 8 + 4 * 3 = here + 12 + 8 /\ here + 8 + 4 * 4 = here + 12 + 12
    BY <1>4
  <2>7. p.cells[3] \in Nat /\ p.cells[4] \in 0 .. WordBase - 1
    <3>1. DOMAIN p.cells = 1 .. n
      BY <1>1
    <3>2. p.cells[3] \in Nat /\ p.cells[4] \in Nat
      <4>1. p.cells \in Seq(Nat)
        BY <1>1
      <4> HIDE DEF n
      <4>2. \A i \in DOMAIN p.cells : p.cells[i] \in Nat
        BY ONLY <4>1
      <4> QED
        BY ONLY <2>4, <3>1, <4>2
    <3>3. p.cells[4] < WordBase /\ WordBase \in Nat
      BY <2>1, <2>4, <3>1, FdtAssumption
    <3> QED
      BY <3>2, <3>3
  <2> QED
    BY <2>3, <2>5, <2>6, <2>7
<1>15. PropertyOf(node, m + 1)'
  <2>1. here \in starts' /\ At(block', here) = FDT_PROP /\ At(innermost', here) = node
    BY <1>2, <1>3, <1>4, OldTokens
  <2>2. \A l \in 1 .. (m + 1) - 1 :
          /\ tree'[node].properties[l].value < entry.value
          /\ tree'[node].properties[l].name # entry.name
    <3> SUFFICES ASSUME NEW l \in 1 .. (m + 1) - 1
                 PROVE  /\ tree'[node].properties[l].value < entry.value
                        /\ tree'[node].properties[l].name # entry.name
      OBVIOUS
    <3>1. l \in 1 .. m
      BY <1>6
    <3>2. tree'[node].properties[l] = tree[open].properties[l]
      BY <1>7, <1>8, <3>1
    <3>3. PropertyOf(open, l)
      BY <1>6, <3>1 DEF TreeInv
    <3>4. PICK o \in starts : tree[open].properties[l] = PropAt(o)
      BY <3>3 DEF PropertyOf
    <3>5. o \in Nat /\ o < here
      BY <1>2, <1>3, <1>4, OldTokens
    <3>6. tree[open].properties[l].value = o + 12
      BY <3>4 DEF PropAt
    <3> QED
      BY <1>3, <1>4, <1>6, <1>13, <3>1, <3>2, <3>5, <3>6
  <2>3. tree'[node].properties[m + 1] = entry
    BY <1>6, <1>7, <1>8
  <2> QED
    BY <1>11, <1>13, <1>14, <2>1, <2>2, <2>3 DEF PropertyOf
<1>16. \A i \in DOMAIN tree' : Len(tree'[i].properties) <= Len(block')
  <2>1. Len(block') = Len(block) + (n + 3) /\ Len(block) \in Nat
    BY <1>2, <1>3, OldTokens
  <2>2. \A i \in DOMAIN tree : /\ Len(tree[i].properties) <= Len(block)
                               /\ Len(tree[i].properties) \in Nat
    BY <1>6, NodeFields DEF TreeInv
  <2>3. \A i \in DOMAIN tree : i # open => tree'[i].properties = tree[i].properties
    BY <1>8
  <2>4. Len(tree'[open].properties) = m + 1 /\ m <= Len(block)
    BY <1>6, <1>7, <1>8, <2>2
  <2> SUFFICES ASSUME NEW i \in DOMAIN tree PROVE Len(tree'[i].properties) <= Len(block')
    BY <1>8
  <2>5. n \in Nat /\ m \in Nat
    BY <1>1, <1>6
  <2>6. CASE i = open
    <3>1. m + 1 <= Len(block) + (n + 3)
      BY <2>1, <2>4, <2>5
    <3> QED
      BY <2>1, <2>4, <2>6, <3>1
  <2>7. CASE i # open
    <3>1. /\ Len(tree[i].properties) <= Len(block) /\ Len(tree[i].properties) \in Nat
          /\ tree'[i].properties = tree[i].properties
      BY <2>2, <2>3, <2>7
    <3>2. Len(tree[i].properties) <= Len(block) + (n + 3)
      BY <2>1, <2>5, <3>1
    <3> QED
      BY <2>1, <3>1, <3>2
  <2> QED
    BY <2>6, <2>7
<1>17. \A i \in DOMAIN tree' : \A k \in DOMAIN tree'[i].properties :
         (i \in DOMAIN tree /\ k \in DOMAIN tree[i].properties) \/ PropertyOf(i, k)'
  <2> SUFFICES ASSUME NEW i \in DOMAIN tree, NEW k \in DOMAIN tree'[i].properties
               PROVE  k \in DOMAIN tree[i].properties \/ PropertyOf(i, k)'
    BY <1>8
  <2>1. CASE i = node
    <3>1. k \in 1 .. m + 1
      BY <1>7, <1>8, <2>1
    <3>2. m \in Nat
      BY <1>6
    <3>3. k \in 1 .. m \/ k = m + 1
      BY ONLY <3>1, <3>2
    <3> QED
      BY <1>6, <1>15, <2>1, <3>3
  <2>2. CASE i # node
    BY <1>8, <2>2
  <2> QED
    BY <2>1, <2>2
<1>18. \A i \in DOMAIN tree' : i \in DOMAIN tree /\ tree'[i].children = tree[i].children
  BY <1>7, <1>8
<1>19. At(block', here) # FDT_END /\ here = Written /\ open # NULL
  BY <1>2, <1>3, <1>4
<1> QED
  BY <1>2, <1>3, <1>10, <1>12, <1>16, <1>17, <1>18, <1>19, TreeKept

LEMMA TreeStep ==
  ASSUME IInv, TreeInv, [Next]_vars
  PROVE  TreeInv'
<1>1. FirmwareTypes /\ WellFormed
  BY DEF IInv
<1>2. CASE Firmware
  BY <1>1, <1>2, RootTree, NodeTree, PropertyTree, WordTree DEF Firmware
<1>3. CASE UNCHANGED firmwareVars
  <2>1. /\ block' = block /\ tree' = tree /\ open' = open /\ innermost' = innermost
        /\ starts' = starts
    BY <1>3 DEF firmwareVars
  <2>2. \A i \in DOMAIN tree' :
          /\ PlaceOf(i)'
          /\ \A k \in DOMAIN tree'[i].children : ChildOf(i, k)'
          /\ \A k \in DOMAIN tree'[i].properties : PropertyOf(i, k)'
          /\ Len(tree'[i].properties) <= Len(block')
    BY <2>1 DEF TreeInv, PlaceOf, ChildOf, PropertyOf, RegWords, PropAt, Written
  <2>3. \A o \in starts' : TokenMeans(o)'
    BY <2>1 DEF TreeInv, TokenMeans, NodeAt, PropAt
  <2> QED
    BY <2>2, <2>3 DEF TreeInv
<1>4. Kernel \/ UNCHANGED vars => UNCHANGED firmwareVars
  BY DEF Kernel, FdtInit, BeginNode, EndNode, Property, NopOrUnknown, EndParse, GetMemorySize,
         vars
<1> QED
  BY <1>2, <1>3, <1>4 DEF Next, Hang

(***************************************************************************)
(* The slots of a node: the ones without garbage take the entries in order.*)
(***************************************************************************)

RankIn(slots, s) == Cardinality({t \in Usable(slots) : t <= s})

(* The usable slots hold the first n entries, as many as fit. *)
HoldsFirst(slots, entries, n) ==
  \A s \in Usable(slots) :
    slots[s] = IF RankIn(slots, s) \in 1 .. n THEN entries[RankIn(slots, s)] ELSE NULL

LEMMA LeastOf ==
  ASSUME NEW S, S \subseteq Nat, S # {}
  PROVE  Min(S) \in S /\ \A b \in S : Min(S) <= b
<1>1. PICK a \in S : \A b \in S : ~(<<b, a>> \in OpToRel(<, Nat))
  BY NatLessThanWellFounded, WFMin
<1>2. \A b \in S : a <= b
  <2> SUFFICES ASSUME NEW b \in S PROVE a <= b
    OBVIOUS
  <2>1. a \in Nat /\ b \in Nat
    OBVIOUS
  <2>2. CASE b < a
    <3>1. <<b, a>> \in OpToRel(<, Nat)
      BY <2>1, <2>2 DEF OpToRel
    <3> QED
      BY <1>1, <3>1
  <2> QED
    BY <2>1, <2>2
<1> QED
  BY <1>1, <1>2 DEF Min

LEMMA GreatestOf ==
  ASSUME NEW n \in Nat, NEW S, S \subseteq 0 .. n, S # {}
  PROVE  \E a \in S : \A b \in S : b <= a
<1> DEFINE T == {n - s : s \in S}
<1>1. T \subseteq Nat /\ T # {}
  <2>1. \A s \in S : n - s \in Nat
    <3> SUFFICES ASSUME NEW s \in S PROVE n - s \in Nat
      OBVIOUS
    <3>1. s \in 0 .. n
      OBVIOUS
    <3> QED
      BY <3>1
  <2> QED
    BY <2>1
<1>2. Min(T) \in T /\ \A b \in T : Min(T) <= b
  BY <1>1, LeastOf
<1>3. PICK a \in S : Min(T) = n - a
  BY <1>2
<1>4. \A b \in S : n - a <= n - b
  BY <1>2, <1>3
<1> QED
  BY <1>3, <1>4

LEMMA Ranks ==
  ASSUME NEW m \in Nat, NEW U, U \subseteq 1 .. m
  PROVE  /\ \A s \in U : /\ IsFiniteSet({t \in U : t <= s})
                         /\ Cardinality({t \in U : t <= s}) \in Nat \ {0}
         /\ \A s, t \in U : s < t =>
              Cardinality({u \in U : u <= s}) < Cardinality({u \in U : u <= t})
<1> DEFINE upTo(s) == {t \in U : t <= s}
<1>1. IsFiniteSet(U) /\ U \subseteq Nat
  <2>1. 1 \in Int /\ m \in Int
    OBVIOUS
  <2>2. IsFiniteSet(1 .. m)
    BY <2>1, FS_Interval
  <2>3. IsFiniteSet(U)
    BY <2>2, FS_Subset
  <2>4. \A x \in U : x \in 1 .. m
    OBVIOUS
  <2> QED
    BY <2>3, <2>4
<1>2. \A s : IsFiniteSet(upTo(s)) /\ Cardinality(upTo(s)) \in Nat
  BY <1>1, FS_Subset, FS_CardinalityType
<1>3. \A s \in U : Cardinality(upTo(s)) # 0
  BY <1>2, FS_EmptySet
<1>4. ASSUME NEW s \in U, NEW t \in U, s < t
      PROVE  Cardinality(upTo(s)) < Cardinality(upTo(t))
  <2>1. upTo(s) \subseteq upTo(t) /\ t \in upTo(t) /\ t \notin upTo(s)
    <3>1. \A u \in U : u \in Nat
      BY <1>1
    <3>2. s \in Nat /\ t \in Nat
      BY <3>1
    <3>3. \A u \in U : u <= s => u <= t
      BY <1>4, <3>1, <3>2
    <3>4. t <= t /\ ~(t <= s)
      BY <1>4, <3>2
    <3> QED
      BY <3>3, <3>4
  <2> HIDE DEF upTo
  <2>2. /\ Cardinality(upTo(s)) <= Cardinality(upTo(t))
        /\ Cardinality(upTo(t)) = Cardinality(upTo(s)) => upTo(t) = upTo(s)
    BY <1>2, <2>1, FS_Subset
  <2> QED
    BY <1>2, <2>1, <2>2
<1> QED
  BY <1>2, <1>3, <1>4

(* The slot before a slot of rank above 1. *)
LEMMA RankBefore ==
  ASSUME NEW m \in Nat, NEW U, U \subseteq 1 .. m, NEW s \in U,
         Cardinality({t \in U : t <= s}) > 1
  PROVE  \E p \in U : /\ p < s
                      /\ Cardinality({t \in U : t <= s}) = Cardinality({t \in U : t <= p}) + 1
<1> DEFINE B == {t \in U : t < s}
<1>1. IsFiniteSet(U) /\ U \subseteq Nat
  <2>1. 1 \in Int /\ m \in Int
    OBVIOUS
  <2>2. IsFiniteSet(1 .. m)
    BY <2>1, FS_Interval
  <2>3. IsFiniteSet(U)
    BY <2>2, FS_Subset
  <2>4. \A x \in U : x \in 1 .. m
    OBVIOUS
  <2> QED
    BY <2>3, <2>4
<1>2. IsFiniteSet(B) /\ Cardinality(B) \in Nat
  BY <1>1, FS_Subset, FS_CardinalityType
<1>3. {t \in U : t <= s} = B \cup {s} /\ s \notin B
  <2>1. \A t \in U : (t <= s <=> (t < s \/ t = s))
    <3> SUFFICES ASSUME NEW t \in U PROVE t <= s <=> (t < s \/ t = s)
      OBVIOUS
    <3>1. t \in Nat /\ s \in Nat
      BY <1>1
    <3> QED
      BY ONLY <3>1
  <2>2. ~(s < s)
    BY <1>1
  <2> QED
    BY <2>1, <2>2
<1>4. Cardinality({t \in U : t <= s}) = Cardinality(B) + 1
  BY <1>2, <1>3, FS_AddElement
<1>5. B # {}
  BY <1>2, <1>4, FS_EmptySet
<1>6. PICK p \in B : \A b \in B : b <= p
  <2>1. B \subseteq 0 .. m
    <3>1. \A b \in B : b \in 1 .. m
      OBVIOUS
    <3> HIDE DEF B
    <3> QED
      BY <3>1
  <2> HIDE DEF B
  <2> QED
    BY <1>5, <2>1, GreatestOf
<1>7. {t \in U : t <= p} = B
  <2>1. \A t \in U : t \in Nat /\ s \in Nat /\ p \in Nat /\ p < s
    BY <1>1, <1>6
  <2>2. \A t \in U : t <= p => t < s
    BY <2>1
  <2>3. \A t \in U : t < s => t <= p
    BY <1>6
  <2> QED
    BY <2>2, <2>3
<1> QED
  BY <1>4, <1>6, <1>7

LEMMA InsertHolds ==
  ASSUME NEW m \in Nat, NEW A, NEW slots \in [1 .. m -> A],
         NEW entries, NEW n \in Nat, HoldsFirst(slots, entries, n),
         \A k \in 1 .. n + 1 : entries[k] \notin {NULL, Garbage}
  PROVE  HoldsFirst(InsertFirst(slots, entries[n + 1]), entries, n + 1)
<1> DEFINE U == Usable(slots)
           free == FreeSlots(slots)
           R(s) == RankIn(slots, s)
           after == InsertFirst(slots, entries[n + 1])
<1>1. /\ free \subseteq U /\ U \subseteq 1 .. m /\ free \subseteq Nat
      /\ \A s \in free : slots[s] = NULL
      /\ \A s \in 1 .. m : slots[s] = NULL => s \in free
  BY FdtAssumption DEF Usable, FreeSlots
<1>2. \A s \in U : /\ R(s) \in Nat \ {0}
                   /\ slots[s] = IF R(s) \in 1 .. n THEN entries[R(s)] ELSE NULL
  BY <1>1, Ranks DEF HoldsFirst, RankIn
<1>3. \A s, t \in U : s < t => R(s) < R(t)
  BY <1>1, Ranks DEF RankIn
<1>4. \A s \in U : slots[s] = NULL <=> R(s) \notin 1 .. n
  BY <1>2
<1>5. CASE free = {}
  <2>1. after = slots
    BY <1>5 DEF InsertFirst
  <2>2. \A s \in U : R(s) \in 1 .. n /\ slots[s] = entries[R(s)]
    BY <1>1, <1>2, <1>4, <1>5
  <2>3. \A s \in U : R(s) \in 1 .. n + 1 /\ slots[s] = entries[R(s)]
    BY <2>2
  <2> QED
    BY <2>1, <2>3 DEF HoldsFirst
<1>6. CASE free # {}
  <2> PICK first : first = Min(free)
    OBVIOUS
  <2>1. first \in free /\ \A b \in free : first <= b
    BY <1>1, <1>6, LeastOf
  <2>2. after = [slots EXCEPT ![first] = entries[n + 1]]
    BY <1>6 DEF InsertFirst
  <2>3. R(first) > n
    <3>1. first \in U /\ R(first) \notin 1 .. n
      BY <1>1, <1>4, <2>1
    <3>2. R(first) \in Nat \ {0}
      BY <1>2, <3>1
    <3> HIDE DEF R
    <3> QED
      BY ONLY <3>1, <3>2, n \in Nat
  <2>4. R(first) = n + 1
    <3>1. CASE R(first) > 1
      <4>1. PICK p \in U : p < first /\ R(first) = R(p) + 1
        BY <1>1, <2>1, <3>1, RankBefore DEF RankIn
      <4>2. p \notin free
        <5>1. p \in Nat /\ first \in Nat
          BY <1>1, <2>1
        <5> QED
          BY <2>1, <4>1, <5>1
      <4>3. R(p) \in 1 .. n
        BY <1>1, <1>4, <4>2
      <4> HIDE DEF R
      <4> QED
        BY <2>3, <4>1, <4>3
    <3>2. CASE ~(R(first) > 1)
      <4>1. R(first) \in Nat \ {0}
        BY <1>1, <1>2, <2>1
      <4> HIDE DEF R
      <4> QED
        BY <2>3, <3>2, <4>1
    <3> QED
      BY <3>1, <3>2
  <2>5. Usable(after) = U
    <3>1. entries[n + 1] # Garbage /\ slots[first] # Garbage
      <4>1. n + 1 \in 1 .. n + 1
        OBVIOUS
      <4> QED
        BY <1>1, <2>1, <4>1, FdtAssumption
    <3> QED
      BY <2>2, <3>1 DEF Usable
  <2>6. \A s \in U : RankIn(after, s) = R(s)
    BY <2>5 DEF RankIn
  <2>7. \A s \in U : after[s] = IF R(s) \in 1 .. n + 1 THEN entries[R(s)] ELSE NULL
    <3> SUFFICES ASSUME NEW s \in U
                 PROVE  after[s] = IF R(s) \in 1 .. n + 1 THEN entries[R(s)] ELSE NULL
      OBVIOUS
    <3>1. CASE s = first
      <4>1. after[s] = entries[n + 1]
        BY <1>1, <2>1, <2>2, <3>1
      <4> HIDE DEF R, after
      <4> QED
        BY <2>4, <3>1, <4>1
    <3>2. CASE s # first
      <4>1. after[s] = slots[s]
        BY <2>2, <3>2
      <4>2. R(s) # R(first)
        <5>1. s \in Nat /\ first \in Nat /\ first \in U
          BY <1>1, <2>1
        <5>2. s < first \/ first < s
          BY <3>2, <5>1
        <5>3. R(s) \in Nat /\ R(first) \in Nat /\ (R(s) < R(first) \/ R(first) < R(s))
          BY <1>2, <1>3, <5>1, <5>2
        <5> HIDE DEF R
        <5> QED
          BY <5>3
      <4>3. R(s) \in Nat \ {0} /\ slots[s] = IF R(s) \in 1 .. n THEN entries[R(s)] ELSE NULL
        BY <1>2
      <4> HIDE DEF R, after
      <4>4. R(s) \in 1 .. n + 1 <=> R(s) \in 1 .. n
        BY <2>4, <4>2, <4>3
      <4> QED
        BY <4>1, <4>3, <4>4
    <3> QED
      BY <3>1, <3>2
  <2> QED
    BY <2>5, <2>6, <2>7 DEF HoldsFirst
<1> QED
  BY <1>5, <1>6

LEMMA EmptyHolds ==
  ASSUME NEW count \in Nat, NEW dirty, NEW entries
  PROVE  HoldsFirst(EmptySlots(count, dirty), entries, 0)
<1>1. \A s \in Usable(EmptySlots(count, dirty)) : EmptySlots(count, dirty)[s] = NULL
  BY DEF Usable, EmptySlots
<1>2. 1 .. 0 = {}
  OBVIOUS
<1> QED
  BY <1>1, <1>2 DEF HoldsFirst

LEMMA HeldEntry ==
  ASSUME NEW slots, NEW entries, NEW n \in Nat, HoldsFirst(slots, entries, n),
         NEW s \in Used(slots)
  PROVE  \E k \in 1 .. n : slots[s] = entries[k]
BY DEF HoldsFirst, Used, Usable

(* Without garbage the entries are in the slots of their numbers. *)
LEMMA CleanRank ==
  ASSUME NEW m \in Nat, NEW slots, DOMAIN slots = 1 .. m, Usable(slots) = DOMAIN slots,
         NEW s \in 1 .. m
  PROVE  RankIn(slots, s) = s
<1>1. {t \in Usable(slots) : t <= s} = 1 .. s
  BY DEF Usable
<1>2. 1 \in Int /\ s \in Int
  OBVIOUS
<1>3. Cardinality(1 .. s) = s
  BY <1>2, FS_Interval
<1> QED
  BY <1>1, <1>3 DEF RankIn

(***************************************************************************)
(* The parser's nodes hold the part of the tree that has been read.        *)
(***************************************************************************)

ChildEntries(i) == IF i = 1 THEN <<1>> \o tree[i].children ELSE tree[i].children

(* A node lists the children that exist and the properties whose tokens    *)
(* lie before the cursor.                                                  *)
ChildrenRead(i) ==
  \E n \in 0 .. Len(ChildEntries(i)) :
    /\ HoldsFirst(nodes[i].children, ChildEntries(i), n)
    /\ \A k \in DOMAIN ChildEntries(i) : k <= n <=> ChildEntries(i)[k] <= Len(nodes)

PropertiesRead(i) ==
  \E n \in 0 .. Len(tree[i].properties) :
    /\ HoldsFirst(nodes[i].properties, tree[i].properties, n)
    /\ \A k \in DOMAIN tree[i].properties :
         k <= n <=> tree[i].properties[k].value < curr_offset + 12

AllRead ==
  /\ Len(nodes) = Len(tree)
  /\ \A o \in starts : At(block, o) = FDT_PROP => o < curr_offset

Filled ==
  /\ root_node \in {NULL, 1}
  /\ nodes # << >> => root_node = 1
  /\ \A i \in DOMAIN nodes :
       nodes[i].name = tree[i].name /\ ChildrenRead(i) /\ PropertiesRead(i)

FilledInv ==
  /\ Filled
  /\ stage \in {"query", "done"} /\ Complete => AllRead

LEMMA BeforeMono ==
  ASSUME NEW b, NEW S, S \subseteq Nat, IsFiniteSet(S), NEW x \in Nat, NEW y \in Nat, x <= y
  PROVE  Before(b, S, x) <= Before(b, S, y)
<1>1. Begun(b, S, x) \subseteq Begun(b, S, y)
  <2>1. \A s \in S : s < x => s < y
    <3> SUFFICES ASSUME NEW s \in S, s < x PROVE s < y
      OBVIOUS
    <3>1. s \in Nat
      OBVIOUS
    <3> QED
      BY <3>1
  <2> QED
    BY <2>1 DEF Begun
<1>2. IsFiniteSet(Begun(b, S, y))
  BY BegunFinite
<1> QED
  BY <1>1, <1>2, FS_Subset DEF Before

(* A child's number is in the list once, in order. *)
LEMMA ChildEntriesOrder ==
  ASSUME FirmwareTypes, TreeInv, NEW i \in DOMAIN tree
  PROVE  /\ ChildEntries(i) \in Seq(Nat) /\ Len(ChildEntries(i)) \in Nat
         /\ DOMAIN ChildEntries(i) = 1 .. Len(ChildEntries(i))
         /\ \A k \in DOMAIN ChildEntries(i) :
              /\ ChildEntries(i)[k] \in DOMAIN tree
              /\ ChildEntries(i)[k] \in Nat
              /\ \/ i = 1 /\ k = 1 /\ ChildEntries(i)[k] = 1
                 \/ /\ tree[ChildEntries(i)[k]].parent = i
                    /\ i < ChildEntries(i)[k]
              /\ \A l \in 1 .. k - 1 : ChildEntries(i)[l] < ChildEntries(i)[k]
         /\ \A k \in DOMAIN tree[i].children :
              \E l \in DOMAIN ChildEntries(i) : ChildEntries(i)[l] = tree[i].children[k]
<1> DEFINE c == tree[i].children
           m == Len(c)
<1>1. /\ c \in Seq(Nat) /\ m \in Nat /\ DOMAIN c = 1 .. m /\ DOMAIN tree = 1 .. Len(tree)
      /\ Len(tree) \in Nat /\ i \in Nat /\ i >= 1
  BY NodeFields DEF FirmwareTypes
<1>2. \A k \in 1 .. m : /\ c[k] \in DOMAIN tree /\ tree[c[k]].parent = i
                        /\ \A l \in 1 .. k - 1 : c[l] < c[k]
  BY <1>1 DEF TreeInv, ChildOf
<1>3. \A k \in 1 .. m : i < c[k] /\ c[k] \in Nat
  <2> SUFFICES ASSUME NEW k \in 1 .. m PROVE i < c[k] /\ c[k] \in Nat
    OBVIOUS
  <2>1. c[k] \in Nat
    BY <1>1
  <2>2. c[k] \in DOMAIN tree /\ tree[c[k]].parent = i
    BY <1>2
  <2>3. tree[c[k]].parent \in 1 .. c[k] - 1 \cup {NULL}
    BY <2>2 DEF FirmwareTypes
  <2>4. i \in 1 .. c[k] - 1
    BY <1>1, <2>2, <2>3, NullNotNat
  <2> HIDE DEF c
  <2> QED
    BY <1>1, <2>1, <2>4
<1> HIDE DEF c
<1>4. CASE i = 1
  <2> DEFINE E == <<1>> \o c
  <2>1. /\ E \in Seq(Nat) /\ Len(E) = m + 1 /\ E[1] = 1
        /\ \A k \in 2 .. m + 1 : E[k] = c[k - 1]
    BY <1>1
  <2>2. ChildEntries(i) = E
    BY <1>4 DEF ChildEntries, c
  <2> HIDE DEF E
  <2>3. DOMAIN E = 1 .. m + 1 /\ Len(E) \in Nat
    BY <1>1, <2>1
  <2>4. \A k \in 1 .. m + 1 : k = 1 \/ (k \in 2 .. m + 1 /\ k - 1 \in 1 .. m)
    BY <1>1
  <2>5. \A k \in 1 .. m + 1 :
          /\ E[k] \in DOMAIN tree /\ E[k] \in Nat
          /\ k = 1 => E[k] = 1
          /\ k # 1 => tree[E[k]].parent = i /\ i < E[k]
    BY <1>1, <1>2, <1>3, <1>4, <2>1, <2>4
  <2>6. \A k \in 1 .. m + 1 : \A l \in 1 .. k - 1 : E[l] < E[k]
    <3> SUFFICES ASSUME NEW k \in 1 .. m + 1, NEW l \in 1 .. k - 1 PROVE E[l] < E[k]
      OBVIOUS
    <3>1. k # 1 /\ k \in 2 .. m + 1 /\ k - 1 \in 1 .. m
      BY <1>1
    <3>2. CASE l = 1
      BY <1>3, <1>4, <2>1, <3>1, <3>2
    <3>3. CASE l # 1
      <4>1. l \in 2 .. m + 1 /\ l - 1 \in 1 .. (k - 1) - 1
        BY <1>1, <3>3
      <4>2. c[l - 1] < c[k - 1]
        BY <1>2, <3>1, <4>1
      <4> QED
        BY <2>1, <3>1, <4>1, <4>2
    <3> QED
      BY <3>2, <3>3
  <2>7. \A k \in 1 .. m : k + 1 \in 1 .. m + 1 /\ E[k + 1] = c[k]
    <3> SUFFICES ASSUME NEW k \in 1 .. m PROVE k + 1 \in 1 .. m + 1 /\ E[k + 1] = c[k]
      OBVIOUS
    <3>1. k + 1 \in 2 .. m + 1 /\ (k + 1) - 1 = k /\ k + 1 \in 1 .. m + 1
      BY <1>1
    <3> QED
      BY <2>1, <3>1
  <2> QED
    BY <1>1, <1>4, <2>1, <2>2, <2>3, <2>5, <2>6, <2>7 DEF c
<1>5. CASE i # 1
  <2>1. ChildEntries(i) = c
    BY <1>5 DEF ChildEntries, c
  <2> QED
    BY <1>1, <1>2, <1>3, <2>1 DEF c
<1> QED
  BY <1>4, <1>5

LEMMA InitTree == Init => TreeInv /\ FilledInv
<1> SUFFICES ASSUME Init PROVE TreeInv /\ FilledInv
  OBVIOUS
<1>1. /\ tree = << >> /\ starts = {} /\ nodes = << >> /\ root_node = NULL /\ stage = "write"
  BY DEF Init
<1> QED
  BY <1>1 DEF TreeInv, FilledInv, Filled

LEMMA PropertyEntry ==
  ASSUME FirmwareTypes, TreeInv, NEW i \in DOMAIN tree, NEW k \in DOMAIN tree[i].properties
  PROVE  /\ tree[i].properties[k] \in Entry
         /\ tree[i].properties[k] \notin {NULL, Garbage, Fault}
         /\ tree[i].properties[k].value \in Nat
         /\ \E o \in starts : /\ At(block, o) = FDT_PROP /\ At(innermost, o) = i /\ o \in Nat
                              /\ tree[i].properties[k] = PropAt(o)
                              /\ tree[i].properties[k].value = o + 12
         /\ \A l \in 1 .. k - 1 :
              tree[i].properties[l].value < tree[i].properties[k].value
<1> PICK p : p = tree[i].properties[k]
  OBVIOUS
<1>1. p \in Entry
  BY NodeFields DEF FirmwareTypes
<1>2. PropertyOf(i, k)
  BY DEF TreeInv
<1>3. p.name \in {q.name : q \in Props}
  BY <1>2 DEF PropertyOf
<1>4. p \in [name : {q.name : q \in Props}, value : Nat, length : Nat]
  BY <1>1, <1>3 DEF Entry
<1>5. p \notin {NULL, Garbage, Fault}
  BY <1>4, FdtAssumption
<1>6. PICK o \in starts : At(block, o) = FDT_PROP /\ At(innermost, o) = i /\ p = PropAt(o)
  BY <1>2 DEF PropertyOf
<1>7. p.value = o + 12 /\ o \in Nat
  BY <1>6 DEF PropAt, FirmwareTypes
<1>8. \A l \in 1 .. k - 1 : tree[i].properties[l].value < p.value
  BY <1>2 DEF PropertyOf
<1>9. p.value \in Nat
  BY <1>7
<1> QED
  BY <1>1, <1>5, <1>6, <1>7, <1>8, <1>9

(* The cursor passes no property. *)
LEMMA FilledKept ==
  ASSUME IInv, TreeInv, Filled, UNCHANGED firmwareVars, UNCHANGED <<nodes, root_node>>,
         curr_offset' \in Nat,
         \A o \in starts :
           At(block, o) = FDT_PROP => (o < curr_offset' <=> o < curr_offset)
  PROVE  Filled'
<1>1. /\ tree' = tree /\ nodes' = nodes /\ root_node' = root_node
      /\ curr_offset \in Nat /\ FirmwareTypes
  BY DEF firmwareVars, IInv, TypeOK
<1>2. \A i \in DOMAIN nodes : ChildrenRead(i)'
  BY <1>1 DEF Filled, ChildrenRead, ChildEntries
<1>3. \A i \in DOMAIN nodes : PropertiesRead(i)'
  <2> SUFFICES ASSUME NEW i \in DOMAIN nodes PROVE PropertiesRead(i)'
    OBVIOUS
  <2>1. i \in DOMAIN tree
    BY NodesFromIInv DEF NodesOK
  <2>2. \A k \in DOMAIN tree[i].properties :
          tree[i].properties[k].value < curr_offset + 12
            <=> tree[i].properties[k].value < curr_offset' + 12
    <3> SUFFICES ASSUME NEW k \in DOMAIN tree[i].properties
                 PROVE  tree[i].properties[k].value < curr_offset + 12
                          <=> tree[i].properties[k].value < curr_offset' + 12
      OBVIOUS
    <3>1. PICK o \in starts : /\ At(block, o) = FDT_PROP /\ o \in Nat
                              /\ tree[i].properties[k].value = o + 12
      BY <1>1, <2>1, PropertyEntry
    <3>2. o < curr_offset' <=> o < curr_offset
      BY <3>1
    <3>3. \A x, y, z \in Nat : (x < y <=> x < z) => (x + 12 < y + 12 <=> x + 12 < z + 12)
      OBVIOUS
    <3>4. o + 12 < curr_offset + 12 <=> o + 12 < curr_offset' + 12
      BY <1>1, <3>1, <3>2, <3>3, Zenon
    <3> QED
      BY <3>1, <3>4
  <2>3. PICK n \in 0 .. Len(tree[i].properties) :
          /\ HoldsFirst(nodes[i].properties, tree[i].properties, n)
          /\ \A k \in DOMAIN tree[i].properties :
               k <= n <=> tree[i].properties[k].value < curr_offset + 12
    BY DEF Filled, PropertiesRead
  <2>4. \A k \in DOMAIN tree[i].properties :
          k <= n <=> tree[i].properties[k].value < curr_offset' + 12
    BY <2>2, <2>3
  <2> QED
    BY <1>1, <2>3, <2>4 DEF PropertiesRead
<1> QED
  BY <1>1, <1>2, <1>3 DEF Filled

LEMMA WordPassed ==
  ASSUME IInv, NEW o \in starts, NEW cursor \in Nat, cursor % 4 = 0
  PROVE  o < cursor + 4 <=> (o < cursor \/ o = cursor)
<1>1. o \in Nat /\ o % 4 = 0
  BY DEF IInv, WellFormed, TokenShape, FirmwareTypes
<1> QED
  BY <1>1

LEMMA SizeReadInt == ASSUME IInv PROVE SizeRead \in Int
<1>1. Written \in Nat /\ ByteBase \in Nat \ {0}
  BY WrittenNat, FdtAssumption DEF IInv
<1>2. \A i \in 0 .. 3 : ByteBase ^ i \in Int
  BY <1>1
<1>3. \A i \in 0 .. 3 : (Written \div ByteBase ^ i) % ByteBase \in Int
  BY <1>1, <1>2
<1>4. ByteBase ^ 3 \in Int /\ ByteBase ^ 2 \in Int
  BY <1>2
<1> QED
  BY <1>1, <1>3, <1>4 DEF SizeRead

LEMMA FilledByWord ==
  ASSUME IInv, TreeInv, FilledInv, ~panicked, EndNode \/ NopOrUnknown \/ EndParse \/ GetMemorySize
  PROVE  FilledInv'
<1> USE DEF FDT_BEGIN_NODE, FDT_PROP, FDT_END_NODE, FDT_NOP, FDT_END
<1>1. /\ UNCHANGED firmwareVars /\ UNCHANGED <<nodes, root_node>>
      /\ block' = block /\ tree' = tree /\ starts' = starts /\ nodes' = nodes
  BY DEF EndNode, NopOrUnknown, EndParse, GetMemorySize, firmwareVars
<1>2. /\ curr_offset \in Nat /\ Written \in Nat /\ FirmwareTypes /\ WellFormed
      /\ starts \subseteq Nat /\ IsFiniteSet(starts)
  BY WrittenNat DEF IInv, TypeOK, FirmwareTypes
<1>3. stage = "parse" =>
        \E o \in starts : /\ ReadUpTo(o) /\ o \in Nat /\ TokenShape(o)
                          /\ At(block, curr_offset) # 0 => curr_offset = o
  BY OnToken DEF Parsing
<1>4. stage = "parse" => curr_offset % 4 = 0
  <2> SUFFICES ASSUME stage = "parse" PROVE curr_offset % 4 = 0
    OBVIOUS
  <2>1. PICK o \in starts : ReadUpTo(o) /\ o \in Nat /\ TokenShape(o)
    BY <1>3
  <2>2. o % 4 = 0 /\ curr_offset \in {o, o - 4}
    BY <2>1 DEF TokenShape, ReadUpTo
  <2> QED
    BY <1>2, <2>1, <2>2
<1>5. \/ curr_offset' = curr_offset
      \/ /\ stage = "parse" /\ curr_offset' = curr_offset + 4
         /\ At(block, curr_offset) # FDT_PROP
  BY DEF EndNode, Token, NopOrUnknown, Skip, EndParse, GetMemorySize, WordAt, At
<1>6. /\ curr_offset' \in Nat
      /\ \A o \in starts :
           At(block, o) = FDT_PROP => (o < curr_offset' <=> o < curr_offset)
  <2>1. CASE curr_offset' = curr_offset
    BY <1>2, <2>1
  <2>2. CASE /\ stage = "parse" /\ curr_offset' = curr_offset + 4
             /\ At(block, curr_offset) # FDT_PROP
    BY <1>2, <1>4, <2>2, WordPassed
  <2> QED
    BY <1>5, <2>1, <2>2
<1>7. Filled'
  BY <1>1, <1>6, FilledKept DEF FilledInv
<1>8. Complete' <=> Complete
  BY <1>1 DEF Complete, SizeRead, Written
<1>9. CASE EndNode \/ NopOrUnknown
  BY <1>7, <1>9 DEF EndNode, Token, NopOrUnknown, FilledInv
<1>10. CASE GetMemorySize
  <2>1. stage = "query" /\ curr_offset' = curr_offset
    BY <1>10 DEF GetMemorySize
  <2> QED
    BY <1>1, <1>7, <1>8, <2>1 DEF FilledInv, AllRead
<1>11. CASE EndParse
  <2> SUFFICES ASSUME Complete PROVE AllRead'
    BY <1>7, <1>8 DEF FilledInv
  <2>1. stage = "parse"
    BY <1>11 DEF EndParse
  <2>2. PICK o \in starts : /\ ReadUpTo(o) /\ o \in Nat /\ TokenShape(o)
                            /\ At(block, curr_offset) # 0 => curr_offset = o
    BY <1>3, <2>1
  <2>3. o + 4 <= Written /\ curr_offset <= o
    BY <1>2, <2>2 DEF TokenShape, ReadUpTo
  <2>4. SizeRead >= Written
    BY DEF Complete
  <2>5. curr_offset' = curr_offset + 4 /\ At(block, curr_offset) = FDT_END
    <3>1. CASE curr_offset >= SizeRead
      <4>1. Written \in Nat /\ curr_offset \in Nat /\ curr_offset < Written
        BY <1>2, <2>2, <2>3
      <4>2. SizeRead >= Written /\ curr_offset >= SizeRead
        BY <2>4, <3>1
      <4> QED
        BY <4>1, <4>2, SizeReadInt
    <3>2. CASE ~(curr_offset >= SizeRead)
      BY <1>11, <3>2 DEF EndParse, WordAt, At
    <3> QED
      BY <3>1, <3>2
  <2>6. curr_offset = o
    BY <2>2, <2>5
  <2>7. \A p \in starts : o < p => At(block, p) \in {FDT_NOP, FDT_END}
    BY <2>5, <2>6 DEF TreeInv, TokenMeans
  <2>8. \A p \in starts : At(block, p) \in {FDT_PROP, FDT_BEGIN_NODE} => p < o
    <3> SUFFICES ASSUME NEW p \in starts, At(block, p) \in {FDT_PROP, FDT_BEGIN_NODE}
                 PROVE  p < o
      OBVIOUS
    <3>1. p # o /\ ~(o < p) /\ p \in Nat
      BY <1>2, <2>5, <2>6, <2>7
    <3> QED
      BY <2>2, <3>1
  <2>9. Begun(block, starts, Written) = Begun(block, starts, o)
    <3>1. \A p \in starts : p < o => p < Written
      BY <1>2, <2>2, <2>3
    <3> QED
      BY <2>8, <3>1 DEF Begun
  <2>10. Len(nodes) = Len(tree)
    BY <1>2, <2>2, <2>9 DEF ReadUpTo, WellFormed, Before
  <2>11. \A p \in starts : At(block, p) = FDT_PROP => p < curr_offset'
    BY <1>2, <2>2, <2>5, <2>6, <2>8
  <2> QED
    BY <1>1, <2>10, <2>11 DEF AllRead
<1> QED
  BY <1>9, <1>10, <1>11

(* What reading a property does to the nodes. *)
LEMMA PropertyEffect ==
  ASSUME IInv, ~panicked, Property
  PROVE  /\ UNCHANGED firmwareVars /\ stage = "parse" /\ stage' = "parse"
         /\ root_node' = root_node
         /\ \E o \in starts :
              /\ o \in Nat /\ curr_offset = o /\ At(block, o) = FDT_PROP
              /\ At(innermost, o) \in DOMAIN nodes
              /\ \/ UNCHANGED <<curr_offset, nodes>>
                 \/ /\ curr_offset' = After(block, o)
                    /\ DOMAIN nodes' = DOMAIN nodes /\ Len(nodes') = Len(nodes)
                    /\ \A i \in DOMAIN nodes :
                         /\ nodes'[i].name = nodes[i].name
                         /\ nodes'[i].children = nodes[i].children
                         /\ nodes'[i].properties =
                              IF i = At(innermost, o)
                                THEN InsertFirst(nodes[i].properties, PropAt(o))
                                ELSE nodes[i].properties
<1> USE DEF FDT_BEGIN_NODE, FDT_PROP, FDT_END_NODE, FDT_NOP, FDT_END
<1> DEFINE slots == nodes[curr_node].properties
           Entered(o) ==
             /\ DOMAIN nodes' = DOMAIN nodes /\ Len(nodes') = Len(nodes)
             /\ \A i \in DOMAIN nodes :
                  /\ nodes'[i].name = nodes[i].name
                  /\ nodes'[i].children = nodes[i].children
                  /\ nodes'[i].properties =
                       IF i = At(innermost, o)
                         THEN InsertFirst(nodes[i].properties, PropAt(o))
                         ELSE nodes[i].properties
<1>1. /\ stage = "parse" /\ stage' = "parse" /\ At(block, curr_offset) = FDT_PROP
      /\ UNCHANGED firmwareVars /\ UNCHANGED <<stage, curr_node, root_node>>
  BY DEF Property, Token, WordAt, At
<1>2. Parsing
  BY <1>1 DEF Parsing
<1>3. PICK o \in starts : /\ ReadUpTo(o) /\ o \in Nat /\ TokenShape(o)
                          /\ curr_offset = o
  BY <1>1, <1>2, OnToken
<1>4. NodesOK /\ curr_node \in DOMAIN nodes /\ curr_node = At(innermost, o)
  BY <1>1, <1>3, NodesFromIInv DEF ReadUpTo, TokenShape, IInv, TypeOK
<1>5. \/ /\ curr_offset' = After(block, o) /\ FreeSlots(slots) = {}
         /\ UNCHANGED nodes
      \/ UNCHANGED <<curr_offset, nodes>>
      \/ /\ curr_offset' = After(block, o)
         /\ nodes' = [nodes EXCEPT ![curr_node].properties = InsertFirst(slots, PropAt(o))]
  BY <1>1, <1>3 DEF Property, WordAt, At, After, PropAt
<1>6. CASE UNCHANGED <<curr_offset, nodes>>
  BY <1>1, <1>3, <1>4, <1>6
<1>7. CASE /\ curr_offset' = After(block, o) /\ FreeSlots(slots) = {}
           /\ UNCHANGED nodes
  <2>1. InsertFirst(slots, PropAt(o)) = slots
    BY <1>7 DEF InsertFirst
  <2>2. Entered(o)
    BY <1>4, <1>7, <2>1
  <2> QED
    BY <1>1, <1>3, <1>4, <1>7, <2>2
<1>8. CASE /\ curr_offset' = After(block, o)
           /\ nodes' = [nodes EXCEPT ![curr_node].properties = InsertFirst(slots, PropAt(o))]
  <2> DEFINE r == [nodes[curr_node] EXCEPT !.properties = InsertFirst(slots, PropAt(o))]
  <2>1. nodes \in Seq(NodeType) /\ nodes[curr_node] \in NodeType
    BY <1>4 DEF NodesOK
  <2>2. /\ r.properties = InsertFirst(slots, PropAt(o))
        /\ r.name = nodes[curr_node].name /\ r.children = nodes[curr_node].children
    BY <2>1 DEF NodeType
  <2>3. nodes' = [nodes EXCEPT ![curr_node] = r]
    BY <1>8
  <2> HIDE DEF r, NodeType
  <2>4. /\ DOMAIN nodes' = DOMAIN nodes /\ Len(nodes') = Len(nodes)
        /\ nodes'[curr_node] = r
        /\ \A j \in DOMAIN nodes : j # curr_node => nodes'[j] = nodes[j]
    BY <1>4, <2>1, <2>3
  <2>5. Entered(o)
    BY <1>4, <2>2, <2>4
  <2> QED
    BY <1>1, <1>3, <1>4, <1>8, <2>5
<1> QED
  BY <1>5, <1>6, <1>7, <1>8

LEMMA FilledByProperty ==
  ASSUME IInv, TreeInv, FilledInv, ~panicked, Property
  PROVE  FilledInv'
<1> USE DEF FDT_BEGIN_NODE, FDT_PROP, FDT_END_NODE, FDT_NOP, FDT_END
<1>1. /\ UNCHANGED firmwareVars /\ stage' = "parse" /\ root_node' = root_node
      /\ tree' = tree /\ Filled
      /\ FirmwareTypes /\ WellFormed /\ NodesOK /\ starts \subseteq Nat /\ curr_offset \in Nat
  BY PropertyEffect, NodesFromIInv DEF firmwareVars, FilledInv, IInv, FirmwareTypes, TypeOK
<1>2. PICK o \in starts :
        /\ o \in Nat /\ curr_offset = o /\ At(block, o) = FDT_PROP
        /\ At(innermost, o) \in DOMAIN nodes
        /\ \/ UNCHANGED <<curr_offset, nodes>>
           \/ /\ curr_offset' = After(block, o)
              /\ DOMAIN nodes' = DOMAIN nodes /\ Len(nodes') = Len(nodes)
              /\ \A i \in DOMAIN nodes :
                   /\ nodes'[i].name = nodes[i].name
                   /\ nodes'[i].children = nodes[i].children
                   /\ nodes'[i].properties =
                        IF i = At(innermost, o)
                          THEN InsertFirst(nodes[i].properties, PropAt(o))
                          ELSE nodes[i].properties
  BY PropertyEffect
<1>3. CASE UNCHANGED <<curr_offset, nodes>>
  <2>1. Filled'
    BY <1>1, <1>3, FilledKept
  <2> QED
    BY <1>1, <2>1 DEF FilledInv
<1>4. CASE ~UNCHANGED <<curr_offset, nodes>>
  <2> PICK c : c = At(innermost, o)
    OBVIOUS
  <2> PICK end : end = After(block, o)
    OBVIOUS
  <2>1. /\ curr_offset' = end /\ DOMAIN nodes' = DOMAIN nodes /\ Len(nodes') = Len(nodes)
        /\ \A i \in DOMAIN nodes :
             /\ nodes'[i].name = nodes[i].name
             /\ nodes'[i].children = nodes[i].children
        /\ \A i \in DOMAIN nodes : i # c => nodes'[i].properties = nodes[i].properties
        /\ nodes'[c].properties = InsertFirst(nodes[c].properties, PropAt(o))
    BY <1>2, <1>4
  <2>2. /\ end \in Nat /\ o < end /\ c \in DOMAIN nodes /\ c \in DOMAIN tree
        /\ \A t \in starts : t < end => t <= o
    <3>1. TokenShape(o) /\ o + 4 <= end
      BY <1>1, <1>2, Room DEF WellFormed
    <3>2. end \in Nat
      BY <3>1 DEF TokenShape
    <3>3. \A t \in starts : t < end => t <= o
      <4> SUFFICES ASSUME NEW t \in starts, t < end PROVE t <= o
        OBVIOUS
      <4>1. o < t => end <= t
        BY <1>1 DEF WellFormed
      <4>2. t \in Nat
        BY <1>1
      <4> QED
        BY <1>2, <3>2, <4>1, <4>2
    <3>4. c \in DOMAIN nodes /\ c \in DOMAIN tree
      BY <1>1, <1>2 DEF NodesOK
    <3> QED
      BY <1>2, <3>1, <3>2, <3>3, <3>4
  <2>3. \A i \in DOMAIN nodes : ChildrenRead(i)'
    BY <1>1, <2>1 DEF Filled, ChildrenRead, ChildEntries
  <2>4. \A i \in DOMAIN nodes : i # c => PropertiesRead(i)'
    <3> SUFFICES ASSUME NEW i \in DOMAIN nodes, i # c PROVE PropertiesRead(i)'
      OBVIOUS
    <3>1. PICK n \in 0 .. Len(tree[i].properties) :
            /\ HoldsFirst(nodes[i].properties, tree[i].properties, n)
            /\ \A k \in DOMAIN tree[i].properties :
                 k <= n <=> tree[i].properties[k].value < curr_offset + 12
      BY <1>1 DEF Filled, PropertiesRead
    <3>2. \A k \in DOMAIN tree[i].properties :
            tree[i].properties[k].value < o + 12 <=> tree[i].properties[k].value < end + 12
      <4> SUFFICES ASSUME NEW k \in DOMAIN tree[i].properties
                   PROVE  tree[i].properties[k].value < o + 12
                            <=> tree[i].properties[k].value < end + 12
        OBVIOUS
      <4>1. i \in DOMAIN tree
        BY <1>1 DEF NodesOK
      <4>2. PICK t \in starts : /\ At(innermost, t) = i /\ t \in Nat
                                /\ tree[i].properties[k].value = t + 12
        BY <1>1, <4>1, PropertyEntry
      <4>3. t # o
        BY <4>2
      <4> QED
        BY <1>2, <2>2, <4>2, <4>3
    <3>3. \A k \in DOMAIN tree[i].properties :
            k <= n <=> tree[i].properties[k].value < end + 12
      BY <1>2, <3>1, <3>2
    <3>4. HoldsFirst(nodes'[i].properties, tree[i].properties, n)
      BY <2>1, <3>1
    <3> QED
      BY <1>1, <2>1, <3>3, <3>4 DEF PropertiesRead
  <2>5. PropertiesRead(c)'
    <3> DEFINE E == tree[c].properties
    <3>1. PICK n \in 0 .. Len(E) :
            /\ HoldsFirst(nodes[c].properties, E, n)
            /\ \A k \in DOMAIN E : k <= n <=> E[k].value < o + 12
      BY <1>1, <1>2, <2>2 DEF Filled, PropertiesRead
    <3>2. PICK j \in DOMAIN E : E[j] = PropAt(o)
      BY <1>2 DEF TreeInv, TokenMeans
    <3>3. /\ DOMAIN E = 1 .. Len(E) /\ Len(E) \in Nat
      BY <1>1, <2>2, NodeFields DEF FirmwareTypes
    <3>4. \A k \in DOMAIN E :
            /\ E[k] \notin {NULL, Garbage} /\ E[k].value \in Nat
            /\ \E t \in starts : t \in Nat /\ E[k].value = t + 12
            /\ \A l \in 1 .. k - 1 : E[l].value < E[k].value
      BY <1>1, <2>2, PropertyEntry
    <3> HIDE DEF E
    <3>5. E[j].value = o + 12
      BY <3>2 DEF PropAt
    <3>6. n < j
      BY <1>2, <3>1, <3>2, <3>3, <3>5
    <3>7. j - 1 <= n
      <4>1. CASE j = 1
        BY <3>1, <4>1
      <4>2. CASE j # 1
        <5>1. j - 1 \in DOMAIN E /\ j - 1 \in 1 .. j - 1
          BY <3>2, <3>3, <4>2
        <5>2. E[j - 1].value < o + 12
          BY <3>2, <3>4, <3>5, <5>1
        <5> QED
          BY <3>1, <5>1, <5>2
      <4> QED
        BY <4>1, <4>2
    <3>8. j = n + 1 /\ n + 1 \in 0 .. Len(E) /\ n \in Nat
      BY <3>1, <3>2, <3>3, <3>6, <3>7
    <3>9. nodes[c].properties
            \in [1 .. FDT_MAX_PROPERTIES -> Entry \cup {NULL, Garbage}]
      <4>1. nodes[c] \in NodeType
        BY <1>1, <2>2 DEF NodesOK
      <4> QED
        BY <4>1 DEF NodeType
    <3>10. HoldsFirst(InsertFirst(nodes[c].properties, E[n + 1]), E, n + 1)
      <4>1. \A k \in 1 .. n + 1 : E[k] \notin {NULL, Garbage}
        BY <3>3, <3>4, <3>8
      <4>2. FDT_MAX_PROPERTIES \in Nat
        BY FdtAssumption
      <4> QED
        BY <3>1, <3>8, <3>9, <4>1, <4>2, InsertHolds
    <3>11. HoldsFirst(nodes'[c].properties, E, n + 1)
      BY <2>1, <3>2, <3>8, <3>10
    <3>12. \A k \in DOMAIN E : k <= n + 1 <=> E[k].value < end + 12
      <4> SUFFICES ASSUME NEW k \in DOMAIN E PROVE k <= n + 1 <=> E[k].value < end + 12
        OBVIOUS
      <4>1. k \in Nat
        BY <3>3
      <4>2. PICK t \in starts : t \in Nat /\ E[k].value = t + 12
        BY <3>4
      <4>3. CASE k <= n
        <5>1. t + 12 < o + 12
          BY <3>1, <4>2, <4>3
        <5> QED
          BY <1>2, <2>2, <3>8, <4>1, <4>2, <4>3, <5>1
      <4>4. CASE k = n + 1
        BY <1>2, <2>2, <3>5, <3>8, <4>4
      <4>5. CASE k > n + 1
        <5>1. j \in 1 .. k - 1
          BY <3>8, <4>1, <4>5
        <5>2. E[j].value < E[k].value
          BY <3>4, <5>1
        <5>3. o < t
          BY <1>2, <3>5, <4>2, <5>2
        <5>4. ~(t < end)
          BY <1>2, <2>2, <4>2, <5>3
        <5> QED
          BY <2>2, <3>8, <4>1, <4>2, <4>5, <5>4
      <4> QED
        BY <3>8, <4>1, <4>3, <4>4, <4>5
    <3>13. tree'[c].properties = E
      BY <1>1 DEF E
    <3> QED
      BY <2>1, <3>8, <3>11, <3>12, <3>13 DEF PropertiesRead
  <2>6. nodes # << >> => nodes' # << >>
    BY <2>1
  <2>7. \A i \in DOMAIN nodes' : /\ nodes'[i].name = tree'[i].name
                                 /\ ChildrenRead(i)' /\ PropertiesRead(i)'
    BY <1>1, <2>1, <2>3, <2>4, <2>5 DEF Filled
  <2>8. Filled'
    BY <1>1, <1>2, <2>1, <2>7 DEF Filled
  <2> QED
    BY <1>1, <2>8 DEF FilledInv
<1> QED
  BY <1>3, <1>4

(* What reading the begin of a node does. *)
LEMMA BeginEffect ==
  ASSUME IInv, ~panicked, BeginNode
  PROVE  /\ UNCHANGED firmwareVars /\ stage = "parse" /\ stage' = "parse"
         /\ \E o \in starts :
              /\ o \in Nat /\ curr_offset = o /\ At(block, o) = FDT_BEGIN_NODE
              /\ Len(nodes) = Before(block, starts, o)
              /\ \/ UNCHANGED <<curr_offset, nodes, root_node>>
                 \/ \E name, dirty, new, owner, fresh :
                      /\ new = Len(nodes) + 1
                      /\ owner = IF name = 0 THEN new ELSE At(innermost, o)
                      /\ fresh = [name |-> name, parent |-> At(innermost, o),
                                  children |-> EmptySlots(FDT_MAX_CHILDREN, dirty),
                                  properties |-> EmptySlots(FDT_MAX_PROPERTIES, dirty)]
                      /\ name = At(block, o + 4) /\ name \in NodeNames \cup {0}
                      /\ name = 0 <=> At(innermost, o) = NULL
                      /\ curr_offset' \in Nat /\ curr_offset <= curr_offset'
                      /\ curr_offset' <= After(block, o)
                      /\ root_node' = IF name = 0 THEN new ELSE root_node
                      /\ owner \in DOMAIN nodes \cup {new}
                      /\ nodes' = [Append(nodes, fresh) EXCEPT
                                     ![owner].children = InsertFirst(@, new)]
<1> USE DEF FDT_BEGIN_NODE, FDT_PROP, FDT_END_NODE, FDT_NOP, FDT_END
<1>1. /\ stage = "parse" /\ stage' = "parse" /\ At(block, curr_offset) = FDT_BEGIN_NODE
      /\ UNCHANGED firmwareVars
  BY DEF BeginNode, Token, WordAt, At
<1>2. Parsing
  BY <1>1 DEF Parsing
<1>3. PICK o \in starts : /\ ReadUpTo(o) /\ o \in Nat /\ TokenShape(o)
                          /\ curr_offset = o
  BY <1>1, <1>2, OnToken
<1>4. CASE UNCHANGED <<curr_offset, nodes, root_node>>
  BY <1>1, <1>3, <1>4 DEF ReadUpTo
<1>5. CASE ~UNCHANGED <<curr_offset, nodes, root_node>>
  <2> PICK name : name = At(block, o + 4)
    OBVIOUS
  <2> PICK length : length = IF name = 0 THEN 0 ELSE NameLength[name]
    OBVIOUS
  <2> PICK new : new = Len(nodes) + 1
    OBVIOUS
  <2> DEFINE parent == IF length = 0 THEN NULL ELSE curr_node
             owner == IF length = 0 THEN new ELSE curr_node
             fresh(dirty) == [name |-> name, parent |-> parent,
                              children |-> EmptySlots(FDT_MAX_CHILDREN, dirty),
                              properties |-> EmptySlots(FDT_MAX_PROPERTIES, dirty)]
  <2>1. /\ curr_offset' = o + 4 + AlignToNextWord(length)
        /\ root_node' = IF length = 0 THEN new ELSE root_node
        /\ \E dirty \in HeapContents :
             nodes' = [Append(nodes, fresh(dirty)) EXCEPT
                         ![owner].children = InsertFirst(@, new)]
    BY <1>3, <1>5 DEF BeginNode, WordAt, At
  <2>2. /\ curr_offset' = After(block, o)
              \/ (curr_offset' = After(block, o) - 4 /\ At(block, After(block, o) - 4) = 0)
        /\ name = 0 => length = 0 /\ At(innermost, o) = NULL
        /\ name # 0 => name \in NodeNames /\ length # 0 /\ At(innermost, o) # NULL
    BY <1>1, <1>3, <2>1, PastName
  <2>3. parent = At(innermost, o) /\ curr_node = At(innermost, o)
        /\ owner = IF name = 0 THEN new ELSE At(innermost, o)
    BY <1>3, <2>2 DEF ReadUpTo
  <2>4. owner \in DOMAIN nodes \cup {new}
    BY <2>2, <2>3 DEF IInv, TypeOK
  <2>5. curr_offset' \in Nat /\ curr_offset <= curr_offset' /\ curr_offset' <= After(block, o)
    <3>1. length \in Nat
      BY <2>2, FdtAssumption
    <3>2. AlignToNextWord(length) \in Nat
      BY <3>1 DEF AlignToNextWord
    <3>3. After(block, o) \in Nat
      BY <1>3 DEF TokenShape
    <3> QED
      BY <1>3, <2>1, <2>2, <3>2, <3>3
  <2> PICK dirty : nodes' = [Append(nodes, fresh(dirty)) EXCEPT
                               ![owner].children = InsertFirst(@, new)]
    BY <2>1
  <2> PICK f : f = [name |-> name, parent |-> At(innermost, o),
                    children |-> EmptySlots(FDT_MAX_CHILDREN, dirty),
                    properties |-> EmptySlots(FDT_MAX_PROPERTIES, dirty)]
    OBVIOUS
  <2> PICK own : own = IF name = 0 THEN new ELSE At(innermost, o)
    OBVIOUS
  <2>6. nodes' = [Append(nodes, f) EXCEPT ![own].children = InsertFirst(@, new)]
    BY <2>3, Zenon
  <2>7. /\ name \in NodeNames \cup {0} /\ (name = 0 <=> At(innermost, o) = NULL)
        /\ root_node' = IF name = 0 THEN new ELSE root_node
        /\ own \in DOMAIN nodes \cup {new} /\ new = Len(nodes) + 1
    BY <2>1, <2>2, <2>3, <2>4
  <2>8. /\ o \in Nat /\ curr_offset = o /\ At(block, o) = FDT_BEGIN_NODE
        /\ Len(nodes) = Before(block, starts, o)
    BY <1>1, <1>3 DEF ReadUpTo
  <2> HIDE DEF parent, owner, fresh
  <2> DEFINE Body(a, d, w, b, g) ==
               /\ w = Len(nodes) + 1
               /\ b = IF a = 0 THEN w ELSE At(innermost, o)
               /\ g = [name |-> a, parent |-> At(innermost, o),
                       children |-> EmptySlots(FDT_MAX_CHILDREN, d),
                       properties |-> EmptySlots(FDT_MAX_PROPERTIES, d)]
               /\ a = At(block, o + 4) /\ a \in NodeNames \cup {0}
               /\ a = 0 <=> At(innermost, o) = NULL
               /\ curr_offset' \in Nat /\ curr_offset <= curr_offset'
               /\ curr_offset' <= After(block, o)
               /\ root_node' = IF a = 0 THEN w ELSE root_node
               /\ b \in DOMAIN nodes \cup {w}
               /\ nodes' = [Append(nodes, g) EXCEPT ![b].children = InsertFirst(@, w)]
  <2>9. Body(name, dirty, new, own, f)
    BY <2>5, <2>6, <2>7, Zenon
  <2>10. \E a, d, w, b, g : Body(a, d, w, b, g)
    <3> HIDE DEF Body
    <3> QED
      BY <2>9, Zenon
  <2> QED
    BY <1>1, <1>3, <2>8, <2>10
<1> QED
  BY <1>4, <1>5

LEMMA AddedFields ==
  ASSUME nodes \in Seq(NodeType), NEW fresh \in NodeType, NEW new, new = Len(nodes) + 1,
         NEW owner \in DOMAIN nodes \cup {new},
         nodes' = [Append(nodes, fresh) EXCEPT ![owner].children = InsertFirst(@, new)]
  PROVE  /\ DOMAIN nodes' = DOMAIN nodes \cup {new} /\ Len(nodes') = new
         /\ new \in Nat \ {0} /\ new \notin DOMAIN nodes
         /\ nodes'[new].name = fresh.name /\ nodes'[new].properties = fresh.properties
         /\ nodes'[new].children = IF owner = new THEN InsertFirst(fresh.children, new)
                                   ELSE fresh.children
         /\ \A i \in DOMAIN nodes :
              /\ nodes'[i].name = nodes[i].name /\ nodes'[i].properties = nodes[i].properties
              /\ nodes'[i].children = IF i = owner THEN InsertFirst(nodes[i].children, new)
                                      ELSE nodes[i].children
<1> DEFINE ns == Append(nodes, fresh)
           r == [ns[owner] EXCEPT !.children = InsertFirst(ns[owner].children, new)]
<1>1. /\ new \in Nat \ {0} /\ new \notin DOMAIN nodes /\ DOMAIN nodes = 1 .. Len(nodes)
      /\ Len(nodes) \in Nat
  <2> HIDE DEF NodeType
  <2> QED
    OBVIOUS
<1>2. /\ ns \in Seq(NodeType) /\ Len(ns) = new /\ DOMAIN ns = DOMAIN nodes \cup {new}
      /\ ns[new] = fresh /\ \A i \in DOMAIN nodes : ns[i] = nodes[i]
  <2> HIDE DEF NodeType
  <2> QED
    BY <1>1
<1>3. ns[owner] \in NodeType
  <2> HIDE DEF NodeType, ns
  <2> QED
    BY <1>2
<1>4. /\ r.name = ns[owner].name /\ r.properties = ns[owner].properties
      /\ r.children = InsertFirst(ns[owner].children, new)
  <2> HIDE DEF ns
  <2> QED
    BY <1>3 DEF NodeType
<1>5. nodes' = [ns EXCEPT ![owner] = r]
  OBVIOUS
<1> HIDE DEF ns, r, NodeType
<1>6. /\ DOMAIN nodes' = DOMAIN ns /\ Len(nodes') = Len(ns) /\ nodes'[owner] = r
      /\ \A i \in DOMAIN ns : i # owner => nodes'[i] = ns[i]
  <2>1. owner \in DOMAIN ns /\ ns \in Seq(NodeType)
    BY <1>2
  <2> QED
    BY ONLY <1>5, <2>1
<1>7. \A i \in DOMAIN ns :
        /\ nodes'[i].name = ns[i].name /\ nodes'[i].properties = ns[i].properties
        /\ nodes'[i].children = IF i = owner THEN InsertFirst(ns[i].children, new)
                                ELSE ns[i].children
  BY <1>4, <1>6
<1> QED
  BY <1>1, <1>2, <1>6, <1>7

LEMMA FilledByBegin ==
  ASSUME IInv, TreeInv, FilledInv, ~panicked, BeginNode
  PROVE  FilledInv'
<1> USE DEF FDT_BEGIN_NODE, FDT_PROP, FDT_END_NODE, FDT_NOP, FDT_END
<1>1. /\ UNCHANGED firmwareVars /\ stage' = "parse"
      /\ tree' = tree /\ Filled /\ IsFiniteSet(starts)
      /\ FirmwareTypes /\ WellFormed /\ NodesOK /\ starts \subseteq Nat /\ curr_offset \in Nat
  BY BeginEffect, NodesFromIInv DEF firmwareVars, FilledInv, IInv, FirmwareTypes, TypeOK
<1>2. PICK o \in starts :
        /\ o \in Nat /\ curr_offset = o /\ At(block, o) = FDT_BEGIN_NODE
        /\ Len(nodes) = Before(block, starts, o)
        /\ \/ UNCHANGED <<curr_offset, nodes, root_node>>
           \/ \E name, dirty, new, owner, fresh :
                /\ new = Len(nodes) + 1
                /\ owner = IF name = 0 THEN new ELSE At(innermost, o)
                /\ fresh = [name |-> name, parent |-> At(innermost, o),
                            children |-> EmptySlots(FDT_MAX_CHILDREN, dirty),
                            properties |-> EmptySlots(FDT_MAX_PROPERTIES, dirty)]
                /\ name = At(block, o + 4) /\ name \in NodeNames \cup {0}
                /\ name = 0 <=> At(innermost, o) = NULL
                /\ curr_offset' \in Nat /\ curr_offset <= curr_offset'
                /\ curr_offset' <= After(block, o)
                /\ root_node' = IF name = 0 THEN new ELSE root_node
                /\ owner \in DOMAIN nodes \cup {new}
                /\ nodes' = [Append(nodes, fresh) EXCEPT
                               ![owner].children = InsertFirst(@, new)]
  BY BeginEffect
<1>3. CASE UNCHANGED <<curr_offset, nodes, root_node>>
  <2>1. Filled'
    BY <1>1, <1>3, FilledKept
  <2> QED
    BY <1>1, <2>1 DEF FilledInv
<1>4. CASE ~UNCHANGED <<curr_offset, nodes, root_node>>
  <2>1. PICK name, dirty, new, owner, fresh :
          /\ new = Len(nodes) + 1
          /\ owner = IF name = 0 THEN new ELSE At(innermost, o)
          /\ fresh = [name |-> name, parent |-> At(innermost, o),
                      children |-> EmptySlots(FDT_MAX_CHILDREN, dirty),
                      properties |-> EmptySlots(FDT_MAX_PROPERTIES, dirty)]
          /\ name = At(block, o + 4) /\ name \in NodeNames \cup {0}
          /\ name = 0 <=> At(innermost, o) = NULL
          /\ curr_offset' \in Nat /\ curr_offset <= curr_offset'
          /\ curr_offset' <= After(block, o)
          /\ root_node' = IF name = 0 THEN new ELSE root_node
          /\ owner \in DOMAIN nodes \cup {new}
          /\ nodes' = [Append(nodes, fresh) EXCEPT
                         ![owner].children = InsertFirst(@, new)]
    BY <1>2, <1>4
  <2>2. /\ NodeAt(o) = new /\ new \in DOMAIN tree
        /\ tree[new].parent = At(innermost, o) /\ tree[new].name = name
        /\ nodes \in Seq(NodeType) /\ DOMAIN nodes = 1 .. Len(nodes) /\ Len(nodes) \in Nat
    <3>1. TokenLink(o) /\ TokenMeans(o)
      BY <1>1 DEF WellFormed, TreeInv
    <3>2. NodeAt(o) = new
      BY <1>2, <2>1 DEF NodeAt
    <3>3. nodes \in Seq(NodeType)
      BY <1>1 DEF NodesOK
    <3> QED
      BY <1>2, <2>1, <3>1, <3>2, <3>3 DEF TokenLink, TokenMeans, NodeAt
  <2>3. /\ fresh \in NodeType /\ fresh.name = name
        /\ fresh.children = EmptySlots(FDT_MAX_CHILDREN, dirty)
        /\ fresh.properties = EmptySlots(FDT_MAX_PROPERTIES, dirty)
    <3>1. At(innermost, o) \in Nat \cup {NULL}
      BY <1>1, <2>2 DEF FirmwareTypes
    <3> QED
      BY <2>1, <3>1, FreshSlots DEF NodeType
  <2>4. /\ DOMAIN nodes' = DOMAIN nodes \cup {new} /\ Len(nodes') = new
        /\ new \in Nat \ {0} /\ new \notin DOMAIN nodes
        /\ nodes'[new].name = fresh.name /\ nodes'[new].properties = fresh.properties
        /\ nodes'[new].children = IF owner = new THEN InsertFirst(fresh.children, new)
                                  ELSE fresh.children
        /\ \A i \in DOMAIN nodes :
             /\ nodes'[i].name = nodes[i].name /\ nodes'[i].properties = nodes[i].properties
             /\ nodes'[i].children = IF i = owner THEN InsertFirst(nodes[i].children, new)
                                     ELSE nodes[i].children
    BY ONLY <2>1, <2>2, <2>3, AddedFields
  <2>5. PlaceOf(new) /\ (new = 1 <=> name = 0) /\ (owner = new <=> new = 1)
    <3>1. PlaceOf(new)
      BY <2>2 DEF TreeInv
    <3>2. new = 1 <=> name = 0
      BY <1>1, <2>1, <2>2, <3>1, NullNotNat DEF PlaceOf, FirmwareTypes
    <3>3. name # 0 => owner # new
      <4> SUFFICES ASSUME name # 0 PROVE owner # new
        OBVIOUS
      <4>1. owner = tree[new].parent /\ owner # NULL
        BY <2>1, <2>2
      <4>2. tree[new].parent \in 1 .. new - 1 \cup {NULL}
        BY <1>1, <2>2 DEF FirmwareTypes
      <4> QED
        BY <2>4, <4>1, <4>2
    <3> QED
      BY <2>1, <3>1, <3>2, <3>3
  <2>6. root_node' = 1
    <3>1. CASE new = 1
      BY <2>1, <2>5, <3>1
    <3>2. CASE new # 1
      <4>1. nodes # << >>
        BY <2>1, <2>2, <3>2
      <4> QED
        BY <1>1, <2>1, <2>5, <3>2, <4>1 DEF Filled
    <3> QED
      BY <3>1, <3>2
  <2>7. \A t \in starts : At(block, t) = FDT_PROP => (t < curr_offset' <=> t < curr_offset)
    <3> SUFFICES ASSUME NEW t \in starts, At(block, t) = FDT_PROP
                 PROVE  t < curr_offset' <=> t < curr_offset
      OBVIOUS
    <3>1. /\ t \in Nat /\ t # o /\ o \in Nat /\ curr_offset = o
          /\ o < t => After(block, o) <= t
      BY <1>1, <1>2 DEF WellFormed
    <3>2. After(block, o) \in Nat
      BY <1>1 DEF WellFormed, TokenShape
    <3> PICK x : x = curr_offset'
      OBVIOUS
    <3> PICK end : end = After(block, o)
      OBVIOUS
    <3>3. x \in Nat /\ o <= x /\ x <= end /\ end \in Nat
      BY <1>2, <2>1, <3>2
    <3>4. t < x <=> t < o
      BY <3>1, <3>3
    <3> QED
      BY <1>2, <3>4
  <2>8. \A i \in DOMAIN nodes : i \in DOMAIN tree
    BY <1>1 DEF NodesOK
  <2>9. ASSUME NEW i \in DOMAIN nodes, i # owner PROVE ChildrenRead(i)'
    <3> DEFINE E == ChildEntries(i)
    <3>1. PICK n \in 0 .. Len(E) :
            /\ HoldsFirst(nodes[i].children, E, n)
            /\ \A k \in DOMAIN E : k <= n <=> E[k] <= Len(nodes)
      BY <1>1 DEF Filled, ChildrenRead
    <3>2. \A k \in DOMAIN E : E[k] # new /\ E[k] \in Nat
      <4> SUFFICES ASSUME NEW k \in DOMAIN E PROVE E[k] # new /\ E[k] \in Nat
        OBVIOUS
      <4>1. /\ E[k] \in Nat
            /\ \/ i = 1 /\ E[k] = 1
               \/ tree[E[k]].parent = i
        BY <1>1, <2>8, ChildEntriesOrder
      <4> HIDE DEF E
      <4>2. tree[E[k]].parent = i => E[k] # new
        BY <2>1, <2>2, <2>4, <2>5, <2>9, NullNotNat
      <4>3. 1 # new \/ i # 1
        BY <2>4
      <4> QED
        BY <4>1, <4>2, <4>3
    <3>3. \A k \in DOMAIN E : k <= n <=> E[k] <= new
      BY <2>1, <2>2, <3>1, <3>2
    <3>4. nodes'[i].children = nodes[i].children /\ ChildEntries(i)' = E
      BY <1>1, <2>4, <2>9 DEF ChildEntries
    <3> QED
      BY <2>4, <3>1, <3>3, <3>4 DEF ChildrenRead
  <2>10. ASSUME NEW i \in DOMAIN nodes, i = owner PROVE ChildrenRead(i)'
    <3> DEFINE E == ChildEntries(i)
    <3>1. PICK n \in 0 .. Len(E) :
            /\ HoldsFirst(nodes[i].children, E, n)
            /\ \A k \in DOMAIN E : k <= n <=> E[k] <= Len(nodes)
      BY <1>1 DEF Filled, ChildrenRead
    <3>2. /\ DOMAIN E = 1 .. Len(E) /\ Len(E) \in Nat
          /\ \A k \in DOMAIN E : E[k] \in Nat /\ \A l \in 1 .. k - 1 : E[l] < E[k]
          /\ \A k \in DOMAIN tree[i].children :
               \E l \in DOMAIN E : E[l] = tree[i].children[k]
      BY <1>1, <2>8, ChildEntriesOrder
    <3>3. new # 1 /\ tree[new].parent = i
      BY <2>1, <2>2, <2>4, <2>5, <2>10
    <3>4. PICK j \in DOMAIN E : E[j] = new
      BY <2>5, <3>2, <3>3 DEF PlaceOf
    <3> HIDE DEF E
    <3>5. n < j
      BY <2>1, <2>2, <3>1, <3>2, <3>4
    <3>6. j - 1 <= n
      <4>1. CASE j = 1
        BY <3>1, <4>1
      <4>2. CASE j # 1
        <5>1. j - 1 \in DOMAIN E /\ j - 1 \in 1 .. j - 1
          BY <3>2, <3>4, <4>2
        <5>2. E[j - 1] < new /\ E[j - 1] \in Nat
          BY <3>2, <3>4, <5>1
        <5>3. E[j - 1] <= Len(nodes)
          BY <2>1, <2>2, <5>2
        <5> QED
          BY <3>1, <5>1, <5>3
      <4> QED
        BY <4>1, <4>2
    <3>7. j = n + 1 /\ n + 1 \in 0 .. Len(E) /\ n \in Nat
      BY <3>1, <3>2, <3>4, <3>5, <3>6
    <3>8. nodes[i].children \in [1 .. FDT_MAX_CHILDREN -> Nat \cup {NULL, Garbage}]
      <4>1. nodes[i] \in NodeType
        BY <1>1 DEF NodesOK
      <4> QED
        BY <4>1 DEF NodeType
    <3>9. HoldsFirst(InsertFirst(nodes[i].children, E[n + 1]), E, n + 1)
      <4>1. \A k \in 1 .. n + 1 : E[k] \notin {NULL, Garbage}
        BY <3>2, <3>7, NullNotNat
      <4>2. FDT_MAX_CHILDREN \in Nat
        BY FdtAssumption
      <4> QED
        BY <3>1, <3>7, <3>8, <4>1, <4>2, InsertHolds
    <3>10. HoldsFirst(nodes'[i].children, E, n + 1)
      BY <2>4, <2>10, <3>4, <3>7, <3>9
    <3>11. \A k \in DOMAIN E : k <= n + 1 <=> E[k] <= new
      <4> SUFFICES ASSUME NEW k \in DOMAIN E PROVE k <= n + 1 <=> E[k] <= new
        OBVIOUS
      <4>1. k \in Nat /\ E[k] \in Nat
        BY <3>2
      <4>2. CASE k <= n
        BY <2>1, <2>2, <3>1, <3>7, <4>1, <4>2
      <4>3. CASE k = n + 1
        BY <2>4, <3>4, <3>7, <4>3
      <4>4. CASE k > n + 1
        <5>1. j \in 1 .. k - 1
          BY <3>7, <4>1, <4>4
        <5>2. new < E[k]
          BY <3>2, <3>4, <5>1
        <5> QED
          BY <2>4, <3>7, <4>1, <4>4, <5>2
      <4> QED
        BY <3>7, <4>1, <4>2, <4>3, <4>4
    <3>12. ChildEntries(i)' = E
      BY <1>1 DEF ChildEntries, E
    <3> QED
      BY <2>4, <3>7, <3>10, <3>11, <3>12 DEF ChildrenRead
  <2>11. ChildrenRead(new)'
    <3> DEFINE E == ChildEntries(new)
    <3>1. /\ DOMAIN E = 1 .. Len(E) /\ Len(E) \in Nat
          /\ \A k \in DOMAIN E :
               /\ E[k] \in Nat
               /\ (new = 1 /\ k = 1 /\ E[k] = 1) \/ new < E[k]
               /\ \A l \in 1 .. k - 1 : E[l] < E[k]
      BY <1>1, <2>2, ChildEntriesOrder
    <3>2. new = 1 => Len(E) # 0 /\ E[1] = 1
      <4> SUFFICES ASSUME new = 1 PROVE Len(E) # 0 /\ E[1] = 1
        OBVIOUS
      <4>1. tree[1].children \in Seq(Nat)
        BY <1>1, <2>2, NodeFields DEF FirmwareTypes
      <4>2. E = <<1>> \o tree[1].children
        BY DEF ChildEntries
      <4> HIDE DEF E
      <4> QED
        BY <4>1, <4>2
    <3>3. ChildEntries(new)' = E
      BY <1>1 DEF ChildEntries
    <3> HIDE DEF E
    <3>4. FDT_MAX_CHILDREN \in Nat
      BY FdtAssumption
    <3>5. HoldsFirst(fresh.children, E, 0)
      BY <2>3, <3>4, EmptyHolds
    <3>6. CASE new # 1
      <4>1. HoldsFirst(nodes'[new].children, E, 0)
        BY <2>4, <2>5, <3>5, <3>6
      <4>2. \A k \in DOMAIN E : k <= 0 <=> E[k] <= new
        <5> SUFFICES ASSUME NEW k \in DOMAIN E PROVE k <= 0 <=> E[k] <= new
          OBVIOUS
        <5> QED
          BY <2>4, <3>1, <3>6
      <4>3. 0 \in 0 .. Len(E)
        BY <3>1
      <4> QED
        BY <2>4, <3>3, <4>1, <4>2, <4>3 DEF ChildrenRead
    <3>7. CASE new = 1
      <4>1. fresh.children \in [1 .. FDT_MAX_CHILDREN -> Nat \cup {NULL, Garbage}]
        BY <2>3 DEF NodeType
      <4>2. \A k \in 1 .. 0 + 1 : E[k] \notin {NULL, Garbage}
        BY <3>1, <3>2, <3>7, NullNotNat
      <4>3. HoldsFirst(InsertFirst(fresh.children, E[0 + 1]), E, 0 + 1)
        BY <3>4, <3>5, <4>1, <4>2, InsertHolds
      <4>4. 0 + 1 = 1
        OBVIOUS
      <4>5. HoldsFirst(nodes'[new].children, E, 1)
        BY <2>4, <2>5, <3>2, <3>7, <4>3, <4>4
      <4>6. \A k \in DOMAIN E : k <= 1 <=> E[k] <= new
        <5> SUFFICES ASSUME NEW k \in DOMAIN E PROVE k <= 1 <=> E[k] <= new
          OBVIOUS
        <5>1. k \in Nat /\ k >= 1
          BY <3>1
        <5>2. k = 1 => E[k] = 1
          BY <3>2, <3>7
        <5>3. k # 1 => 1 < E[k] /\ E[k] \in Nat
          BY <3>1, <3>7
        <5> QED
          BY <3>7, <5>1, <5>2, <5>3
      <4>7. 1 \in 0 .. Len(E)
        BY <3>1, <3>2, <3>7
      <4> QED
        BY <2>4, <3>3, <4>5, <4>6, <4>7 DEF ChildrenRead
    <3> QED
      BY <3>6, <3>7
  <2>12. ASSUME NEW i \in DOMAIN nodes PROVE PropertiesRead(i)'
    <3> DEFINE E == tree[i].properties
    <3>1. PICK n \in 0 .. Len(E) :
            /\ HoldsFirst(nodes[i].properties, E, n)
            /\ \A k \in DOMAIN E : k <= n <=> E[k].value < curr_offset + 12
      BY <1>1 DEF Filled, PropertiesRead
    <3>2. \A k \in DOMAIN E : \E t \in starts : /\ At(block, t) = FDT_PROP /\ t \in Nat
                                              /\ E[k].value = t + 12
      BY <1>1, <2>8, PropertyEntry
    <3>3. tree'[i].properties = E /\ nodes'[i].properties = nodes[i].properties
      BY <1>1, <2>4
    <3> HIDE DEF E
    <3> PICK x : x = curr_offset'
      OBVIOUS
    <3>4. \A k \in DOMAIN E : E[k].value < x + 12 <=> E[k].value < curr_offset + 12
      <4> SUFFICES ASSUME NEW k \in DOMAIN E
                   PROVE  E[k].value < x + 12 <=> E[k].value < curr_offset + 12
        OBVIOUS
      <4>1. PICK t \in starts : At(block, t) = FDT_PROP /\ t \in Nat /\ E[k].value = t + 12
        BY <3>2
      <4>2. t < x <=> t < curr_offset
        BY <2>7, <4>1
      <4>3. x \in Nat
        BY <2>1
      <4> QED
        BY <1>1, <4>1, <4>2, <4>3
    <3> QED
      BY <3>1, <3>3, <3>4 DEF PropertiesRead
  <2>13. PropertiesRead(new)'
    <3> DEFINE E == tree[new].properties
    <3>1. \A k \in DOMAIN E : ~(E[k].value < curr_offset' + 12)
      <4> SUFFICES ASSUME NEW k \in DOMAIN E PROVE ~(E[k].value < curr_offset' + 12)
        OBVIOUS
      <4>1. PICK t \in starts : /\ At(block, t) = FDT_PROP /\ At(innermost, t) = new
                                /\ t \in Nat /\ E[k].value = t + 12
        BY <1>1, <2>2, PropertyEntry
      <4>2. ~(t <= o)
        <5> SUFFICES ASSUME t <= o PROVE FALSE
          OBVIOUS
        <5>1. At(innermost, t) < NodeAt(t)
          BY <2>4, <4>1, NullNotNat DEF TreeInv, TokenMeans
        <5>2. /\ Before(block, starts, t) <= Before(block, starts, o)
              /\ Before(block, starts, t) \in Nat /\ Before(block, starts, o) \in Nat
          BY <1>1, <1>2, <4>1, BeforeMono, BegunFinite
        <5> QED
          BY <2>2, <2>4, <4>1, <5>1, <5>2 DEF NodeAt
      <4>3. ~(t < curr_offset')
        BY <1>2, <2>7, <4>1, <4>2
      <4>4. \A a, b \in Nat : ~(a < b) => ~(a + 12 < b + 12)
        OBVIOUS
      <4>5. ~(t + 12 < curr_offset' + 12)
        BY <2>1, <4>1, <4>3, <4>4, Zenon
      <4> QED
        BY <4>1, <4>5
    <3>2. HoldsFirst(nodes'[new].properties, E, 0)
      <4>1. FDT_MAX_PROPERTIES \in Nat
        BY FdtAssumption
      <4> QED
        BY <2>3, <2>4, <4>1, EmptyHolds
    <3>3. tree'[new].properties = E
      BY <1>1
    <3>4. DOMAIN E = 1 .. Len(E) /\ Len(E) \in Nat
      BY <1>1, <2>2, NodeFields DEF FirmwareTypes
    <3> HIDE DEF E
    <3>5. \A k \in DOMAIN E : k <= 0 <=> E[k].value < curr_offset' + 12
      BY <3>1, <3>4
    <3>6. 0 \in 0 .. Len(E)
      BY <3>4
    <3> QED
      BY <3>2, <3>3, <3>5, <3>6 DEF PropertiesRead
  <2>14. \A i \in DOMAIN nodes' : /\ nodes'[i].name = tree'[i].name
                                  /\ ChildrenRead(i)' /\ PropertiesRead(i)'
    <3>1. \A i \in DOMAIN nodes : nodes'[i].name = tree'[i].name
      BY <1>1, <2>4 DEF Filled
    <3>2. nodes'[new].name = tree'[new].name
      BY <1>1, <2>2, <2>3, <2>4
    <3>3. \A i \in DOMAIN nodes : ChildrenRead(i)'
      BY <2>9, <2>10
    <3> QED
      BY <2>4, <2>11, <2>12, <2>13, <3>1, <3>2, <3>3
  <2>15. Filled'
    BY <2>6, <2>14 DEF Filled
  <2> QED
    BY <1>1, <2>15 DEF FilledInv
<1> QED
  BY <1>3, <1>4

(* Once the parser has started there is a tree. *)
Started == stage # "write" => tree # << >>

TreeIInv == IInv /\ TreeInv /\ FilledInv /\ Started

LEMMA FilledStep ==
  ASSUME IInv, TreeInv, FilledInv, [Next]_vars
  PROVE  FilledInv'
<1>1. CASE UNCHANGED vars
  <2>1. /\ UNCHANGED firmwareVars /\ UNCHANGED <<stage, nodes, root_node, curr_offset>>
        /\ block' = block /\ tree' = tree /\ starts' = starts
    BY <1>1 DEF vars, parserVars, firmwareVars
  <2> QED
    BY <2>1 DEF FilledInv, Filled, AllRead, ChildrenRead, ChildEntries, PropertiesRead,
                Complete, SizeRead, Written
<1>2. CASE Firmware
  <2>1. stage = "write" /\ UNCHANGED parserVars
    BY <1>2 DEF Firmware, WriteRoot, WriteNode, WriteProperty, WriteNop, WriteEndNode,
                WriteEnd, Write
  <2>2. /\ stage' = "write" /\ nodes' = << >> /\ root_node' = root_node
        /\ root_node \in {NULL, 1}
    BY <2>1 DEF parserVars, IInv, Reader, FilledInv, Filled
  <2> QED
    BY <2>2 DEF FilledInv, Filled
<1>3. CASE FdtInit
  <2>1. /\ nodes' = << >> /\ root_node' = root_node /\ root_node \in {NULL, 1}
        /\ stage' \in {"parse", "invalid"}
    BY <1>3 DEF FdtInit, IInv, Reader, FilledInv, Filled
  <2> QED
    BY <2>1 DEF FilledInv, Filled
<1> QED
  BY <1>1, <1>2, <1>3, FilledByWord, FilledByProperty, FilledByBegin DEF Next, Kernel, Hang

LEMMA StartedStep ==
  ASSUME Started, [Next]_vars
  PROVE  Started'
<1>1. CASE UNCHANGED vars
  BY <1>1 DEF vars, parserVars, firmwareVars, Started
<1>2. CASE Firmware
  <2>1. stage' = "write"
    BY <1>2 DEF Firmware, WriteRoot, WriteNode, WriteProperty, WriteNop, WriteEndNode,
                WriteEnd, Write, parserVars
  <2> QED
    BY <2>1 DEF Started
<1>3. CASE Kernel
  <2>1. tree' = tree
    BY <1>3 DEF Kernel, FdtInit, BeginNode, EndNode, Property, NopOrUnknown, EndParse,
                GetMemorySize, firmwareVars
  <2>2. stage # "write" \/ tree # << >>
    BY <1>3 DEF Kernel, FdtInit, Finished, BeginNode, EndNode, Token, Property,
                NopOrUnknown, EndParse, GetMemorySize
  <2> QED
    BY <2>1, <2>2 DEF Started
<1> QED
  BY <1>1, <1>2, <1>3 DEF Next, Hang

LEMMA TreeInvariance == Spec => []TreeIInv
<1>1. Init => TreeIInv
  BY InitIInv, InitTree DEF TreeIInv, Init, Started
<1>2. TreeIInv /\ [Next]_vars => TreeIInv'
  BY IInvStep, TreeStep, FilledStep, StartedStep DEF TreeIInv
<1> QED
  BY <1>1, <1>2, PTL DEF Spec

(* What has been read to the end is held to the end. *)
LEMMA AllChildren ==
  ASSUME FirmwareTypes, TreeInv, Filled, AllRead, NEW i \in DOMAIN nodes, i \in DOMAIN tree
  PROVE  HoldsFirst(nodes[i].children, ChildEntries(i), Len(ChildEntries(i)))
<1> DEFINE E == ChildEntries(i)
<1>1. /\ DOMAIN E = 1 .. Len(E) /\ Len(E) \in Nat
      /\ \A k \in DOMAIN E : E[k] \in DOMAIN tree /\ E[k] \in Nat
  BY ChildEntriesOrder
<1>2. Len(tree) \in Nat /\ DOMAIN tree = 1 .. Len(tree) /\ Len(nodes) = Len(tree)
  BY DEF FirmwareTypes, AllRead
<1>3. PICK n \in 0 .. Len(E) :
        /\ HoldsFirst(nodes[i].children, E, n)
        /\ \A k \in DOMAIN E : k <= n <=> E[k] <= Len(nodes)
  BY DEF Filled, ChildrenRead
<1> HIDE DEF E
<1>4. \A k \in DOMAIN E : k <= n
  BY <1>1, <1>2, <1>3
<1>5. n = Len(E)
  <2>1. Len(E) # 0 => Len(E) \in DOMAIN E
    BY <1>1
  <2>2. Len(E) # 0 => Len(E) <= n
    BY <1>4, <2>1
  <2>3. n \in 0 .. Len(E) /\ Len(E) \in Nat
    BY <1>1, <1>3
  <2> QED
    BY ONLY <2>2, <2>3
<1> QED
  BY <1>3, <1>5 DEF E

LEMMA AllProperties ==
  ASSUME FirmwareTypes, TreeInv, Filled, AllRead, NEW i \in DOMAIN nodes, i \in DOMAIN tree,
         curr_offset \in Nat
  PROVE  HoldsFirst(nodes[i].properties, tree[i].properties, Len(tree[i].properties))
<1> DEFINE E == tree[i].properties
<1>1. DOMAIN E = 1 .. Len(E) /\ Len(E) \in Nat
  BY NodeFields DEF FirmwareTypes
<1>2. \A k \in DOMAIN E : E[k].value < curr_offset + 12
  <2> SUFFICES ASSUME NEW k \in DOMAIN E PROVE E[k].value < curr_offset + 12
    OBVIOUS
  <2>1. PICK o \in starts : At(block, o) = FDT_PROP /\ o \in Nat /\ E[k].value = o + 12
    BY PropertyEntry
  <2> QED
    BY <2>1 DEF AllRead
<1>3. PICK n \in 0 .. Len(E) :
        /\ HoldsFirst(nodes[i].properties, E, n)
        /\ \A k \in DOMAIN E : k <= n <=> E[k].value < curr_offset + 12
  BY DEF Filled, PropertiesRead
<1> HIDE DEF E
<1>4. \A k \in DOMAIN E : k <= n
  BY <1>2, <1>3
<1>5. n = Len(E)
  <2>1. Len(E) # 0 => Len(E) \in DOMAIN E
    BY <1>1
  <2>2. Len(E) # 0 => Len(E) <= n
    BY <1>4, <2>1
  <2>3. n \in 0 .. Len(E) /\ Len(E) \in Nat
    BY <1>1, <1>3
  <2> QED
    BY ONLY <2>2, <2>3
<1> QED
  BY <1>3, <1>5 DEF E

LEMMA TreeIsExact == TreeIInv => TreeExact
<1> SUFFICES ASSUME TreeIInv, stage \in {"query", "done"}, Complete
             PROVE  /\ Len(nodes) = Len(tree)
                    /\ \A i \in DOMAIN tree :
                         /\ nodes[i].name = tree[i].name /\ nodes[i].parent = tree[i].parent
                         /\ Stores(nodes[i].children, ChildEntries(i))
                         /\ Stores(nodes[i].properties, tree[i].properties)
  BY DEF TreeExact, ChildEntries
<1>1. /\ IInv /\ TreeInv /\ Filled /\ AllRead /\ FirmwareTypes /\ WellFormed /\ NodesOK
      /\ curr_offset \in Nat
  BY NodesFromIInv DEF TreeIInv, FilledInv, IInv, TypeOK
<1>2. Len(nodes) = Len(tree) /\ DOMAIN nodes = DOMAIN tree /\ DOMAIN tree = 1 .. Len(tree)
  BY <1>1 DEF AllRead, NodesOK, FirmwareTypes
<1>3. ASSUME NEW i \in DOMAIN tree
      PROVE  /\ nodes[i].name = tree[i].name /\ nodes[i].parent = tree[i].parent
             /\ Stores(nodes[i].children, ChildEntries(i))
             /\ Stores(nodes[i].properties, tree[i].properties)
  <2>1. nodes[i].name = tree[i].name /\ nodes[i].parent = tree[i].parent
    BY <1>1, <1>2 DEF Filled, NodesOK
  <2>2. HoldsFirst(nodes[i].children, ChildEntries(i), Len(ChildEntries(i)))
    BY <1>1, <1>2, AllChildren
  <2>3. HoldsFirst(nodes[i].properties, tree[i].properties, Len(tree[i].properties))
    BY <1>1, <1>2, AllProperties
  <2>4. /\ DOMAIN ChildEntries(i) = 1 .. Len(ChildEntries(i))
        /\ DOMAIN tree[i].properties = 1 .. Len(tree[i].properties)
    BY <1>1, ChildEntriesOrder, NodeFields DEF FirmwareTypes
  <2> QED
    BY <2>1, <2>2, <2>3, <2>4 DEF HoldsFirst, RankIn, Stores
<1> QED
  BY <1>2, <1>3

-----------------------------------------------------------------------------

(* A walk finds an entry only where it matches. *)
LEMMA LookupEntry ==
  ASSUME NEW slots, NEW hits, NEW x \in Lookup(slots, hits), x \notin {NULL, Fault}
  PROVE  \E s \in hits : x = slots[s]
BY DEF Lookup

LEMMA SlotsLength ==
  ASSUME NEW m \in Nat, NEW A, NEW slots \in [1 .. m -> A]
  PROVE  DOMAIN slots = 1 .. m /\ Len(slots) = m
<1>1. DOMAIN slots = 1 .. m
  OBVIOUS
<1>2. slots = [i \in 1 .. m |-> slots[i]]
  OBVIOUS
<1>3. \A i \in 1 .. m : slots[i] \in A
  OBVIOUS
<1>4. [i \in 1 .. m |-> slots[i]] \in Seq(A)
  BY <1>3
<1> QED
  BY <1>1, <1>2, <1>4

(* A walk over slots of which the ones before the only match are in use    *)
(* finds that match.                                                       *)
LEMMA LookupOnly ==
  ASSUME NEW m \in Nat, NEW slots, DOMAIN slots = 1 .. m, Len(slots) = m,
         NEW h \in 1 .. m,
         h \in Used(slots), \A t \in 1 .. h - 1 : t \in Used(slots),
         NEW x \in Lookup(slots, {h})
  PROVE  x = slots[h]
<1> DEFINE Passed(s) == \A t \in 1 .. s - 1 : slots[t] # NULL /\ t \notin {h}
<1>3. CASE \E s \in {h} : x = slots[s]
  BY <1>3
<1>4. \A t \in DOMAIN slots \ Used(slots) : ~Passed(t)
  <2> SUFFICES ASSUME NEW t \in DOMAIN slots \ Used(slots) PROVE ~Passed(t)
    OBVIOUS
  <2>1. t \in 1 .. m /\ t \notin Used(slots)
    OBVIOUS
  <2>2. t \notin 1 .. h - 1 /\ t # h
    BY <2>1
  <2>3. h \in 1 .. t - 1
    BY <2>1, <2>2
  <2> QED
    BY <2>3
<1>5. ~Passed(m + 1)
  <2>1. h \in 1 .. (m + 1) - 1
    OBVIOUS
  <2> QED
    BY <2>1
<1>6. \/ \E s \in {h} : x = slots[s]
      \/ \E t \in DOMAIN slots \ Used(slots) : Passed(t)
      \/ \E t \in {Len(slots)} : Passed(t + 1)
  BY DEF Lookup
<1> HIDE DEF Passed
<1> QED
  BY <1>3, <1>4, <1>5, <1>6

LEMMA HighIsZero ==
  ASSUME NEW high \in Nat, NEW base \in Nat \ {0}, NEW low \in 0 .. base - 1,
         high * base + low < base
  PROVE  high * base + low = low
<1>1. CASE high = 0
  BY <1>1
<1>2. CASE high >= 1
  <2>1. high * base >= base
    <3>1. high - 1 \in Nat /\ high * base = (high - 1) * base + base
      BY <1>2
    <3>2. (high - 1) * base \in Nat
      BY <3>1
    <3> QED
      BY <3>1, <3>2
  <2> QED
    BY <2>1
<1> QED
  BY <1>1, <1>2

(* The cells of a "reg" are a 64-bit size of which the low word is read:   *)
(* the size, when it fits in a word.                                       *)
LEMMA SizeIsLowWord ==
  ASSUME FirmwareTypes, TreeInv, NEW i \in DOMAIN tree[1].children, 1 \in DOMAIN tree,
         NEW k \in DOMAIN tree[tree[1].children[i]].properties,
         tree[tree[1].children[i]].properties[k].name = Reg,
         MemorySize(i, k) < WordBase
  PROVE  MemorySize(i, k) = SizeCell(tree[tree[1].children[i]].properties[k].value)
<1> DEFINE c == tree[1].children[i]
<1> PICK v : v = tree[c].properties[k].value
  OBVIOUS
<1>1. c \in DOMAIN tree
  BY DEF TreeInv, ChildOf
<1>2. RegWords(tree[c].properties[k])
  BY <1>1 DEF TreeInv, PropertyOf
<1>3. At(block, v + 8) \in Nat /\ At(block, v + 12) \in 0 .. WordBase - 1
  BY <1>2 DEF RegWords
<1>4. WordBase \in Nat \ {0}
  BY FdtAssumption
<1>5. MemorySize(i, k) = At(block, v + 8) * WordBase + At(block, v + 12)
  BY DEF MemorySize, WordAt, At
<1>6. SizeCell(v) = At(block, v + 12)
  BY DEF SizeCell, WordAt, At
<1>7. At(block, v + 8) * WordBase + At(block, v + 12) < WordBase
  BY <1>5
<1>8. At(block, v + 8) * WordBase + At(block, v + 12) = At(block, v + 12)
  <2> DEFINE high == At(block, v + 8)
             low == At(block, v + 12)
  <2>1. high \in Nat /\ low \in 0 .. WordBase - 1 /\ high * WordBase + low < WordBase
    BY <1>3, <1>7
  <2> HIDE DEF high, low
  <2>2. high * WordBase + low = low
    BY ONLY <1>4, <2>1, HighIsZero
  <2> QED
    BY ONLY <2>2 DEF high, low
<1>9. SizeCell(v) = SizeCell(tree[tree[1].children[i]].properties[k].value)
  OBVIOUS
<1> QED
  BY ONLY <1>5, <1>6, <1>8, <1>9

(* The children that hold a name are children in the tree. *)
LEMMA FoundChild ==
  ASSUME IInv, TreeInv, Filled, root_node = 1, NEW s \in NamedChildren(nodes[1].children, Memory)
  PROVE  \E i \in DOMAIN tree[1].children :
           /\ nodes[1].children[s] = tree[1].children[i]
           /\ tree[1].children[i] \in DOMAIN nodes
           /\ tree[tree[1].children[i]].name = Memory
<1> DEFINE E == ChildEntries(1)
           slots == nodes[1].children
<1>1. /\ FirmwareTypes /\ NodesOK /\ 1 \in DOMAIN nodes /\ 1 \in DOMAIN tree
      /\ DOMAIN nodes = 1 .. Len(nodes) /\ Len(nodes) \in Nat
  <2>1. NodesOK /\ FirmwareTypes /\ root_node \in DOMAIN nodes \cup {NULL}
    BY NodesFromIInv DEF IInv, TypeOK
  <2>2. 1 \in DOMAIN nodes
    BY <2>1, NullNotNat
  <2> QED
    BY <2>1, <2>2 DEF NodesOK
<1>2. slots \in [1 .. FDT_MAX_CHILDREN -> Nat \cup {NULL, Garbage}] /\ FDT_MAX_CHILDREN \in Nat
  <2>1. nodes[1] \in NodeType
    BY <1>1 DEF NodesOK
  <2> QED
    BY <2>1, FdtAssumption DEF NodeType
<1>3. PICK n \in 0 .. Len(E) :
        /\ HoldsFirst(slots, E, n)
        /\ \A k \in DOMAIN E : k <= n <=> E[k] <= Len(nodes)
  BY <1>1 DEF Filled, ChildrenRead
<1>4. /\ DOMAIN E = 1 .. Len(E) /\ Len(E) \in Nat
      /\ \A k \in DOMAIN E : E[k] \in DOMAIN tree /\ E[k] \in Nat
  BY <1>1, ChildEntriesOrder
<1>5. tree[1].children \in Seq(Nat) /\ E = <<1>> \o tree[1].children
  BY <1>1, NodeFields DEF FirmwareTypes, ChildEntries
<1>6. s \in Used(slots) /\ nodes[slots[s]].name = Memory
  BY DEF NamedChildren
<1> HIDE DEF E, slots
<1>7. n \in Nat
  BY <1>3, <1>4
<1>8. PICK k \in 1 .. n : slots[s] = E[k]
  BY <1>2, <1>3, <1>6, <1>7, HeldEntry
<1>9. k \in DOMAIN E /\ k <= n /\ k \in Nat /\ k >= 1
  BY <1>3, <1>4, <1>7
<1>10. E[k] \in DOMAIN nodes
  <2>1. E[k] \in DOMAIN tree /\ E[k] \in Nat /\ E[k] <= Len(nodes)
    BY <1>3, <1>4, <1>9
  <2>2. \A j \in DOMAIN tree : j >= 1
    BY <1>1 DEF FirmwareTypes
  <2> QED
    BY <1>1, <2>1, <2>2
<1>11. tree[E[k]].name = Memory
  BY <1>6, <1>8, <1>10 DEF Filled
<1>12. k # 1
  <2>1. tree[1].name = 0
    BY <1>1 DEF TreeInv, PlaceOf
  <2>2. Memory # 0
    BY FdtAssumption
  <2>3. E[1] = 1
    BY <1>5
  <2> QED
    BY <1>11, <2>1, <2>2, <2>3
<1>13. k - 1 \in DOMAIN tree[1].children /\ E[k] = tree[1].children[k - 1]
  BY <1>4, <1>5, <1>9, <1>12
<1> QED
  BY <1>8, <1>10, <1>11, <1>13 DEF slots

LEMMA FoundReg ==
  ASSUME IInv, TreeInv, Filled, NEW m \in DOMAIN nodes,
         NEW s \in Used(nodes[m].properties), nodes[m].properties[s].name = Reg
  PROVE  \E k \in DOMAIN tree[m].properties :
           /\ k \in 1 .. Len(block)
           /\ nodes[m].properties[s] = tree[m].properties[k]
<1> DEFINE E == tree[m].properties
           slots == nodes[m].properties
<1>1. FirmwareTypes /\ NodesOK /\ m \in DOMAIN tree
  BY NodesFromIInv DEF IInv, NodesOK
<1>2. /\ slots \in [1 .. FDT_MAX_PROPERTIES -> Entry \cup {NULL, Garbage}]
      /\ FDT_MAX_PROPERTIES \in Nat
  <2>1. nodes[m] \in NodeType
    BY <1>1 DEF NodesOK
  <2> QED
    BY <2>1, FdtAssumption DEF NodeType
<1>3. PICK n \in 0 .. Len(E) : HoldsFirst(slots, E, n)
  BY DEF Filled, PropertiesRead
<1>4. DOMAIN E = 1 .. Len(E) /\ Len(E) \in Nat /\ Len(E) <= Len(block) /\ Len(block) \in Nat
  <2>1. E \in Seq(Entry)
    BY <1>1, NodeFields DEF FirmwareTypes
  <2>2. Len(E) <= Len(block)
    BY <1>1 DEF TreeInv
  <2>3. Len(block) \in Nat
    BY <1>1 DEF FirmwareTypes
  <2> QED
    BY <2>1, <2>2, <2>3
<1> HIDE DEF E, slots
<1>5. n \in Nat
  BY <1>3, <1>4
<1>6. PICK k \in 1 .. n : slots[s] = E[k]
  <2>1. s \in Used(slots)
    BY DEF slots
  <2> QED
    BY <1>2, <1>3, <1>5, <2>1, HeldEntry
<1>7. k \in DOMAIN E /\ k \in 1 .. Len(block)
  BY <1>3, <1>4, <1>5
<1> QED
  BY <1>6, <1>7 DEF E, slots

LEMMA AnswerSound ==
  ASSUME TreeIInv, GetMemorySize, result' \notin {0, Fault}
  PROVE  \E r \in MemoryRegs :
           MemorySize(r[1], r[2]) < WordBase => result' = MemorySize(r[1], r[2])
<1>1. IInv /\ TreeInv /\ Filled /\ FirmwareTypes /\ NodesOK
  BY NodesFromIInv DEF TreeIInv, FilledInv, IInv
<1>2. PICK node \in FindNodeByName(root_node, Memory) :
        /\ node \notin {NULL, Fault}
        /\ \E p \in FindReg(node) : p \notin {NULL, Fault} /\ result' = SizeCell(p.value)
  BY DEF GetMemorySize
<1>3. PICK p \in FindReg(node) : p \notin {NULL, Fault} /\ result' = SizeCell(p.value)
  BY <1>2
<1>4. root_node = 1 /\ node \in Lookup(nodes[1].children, NamedChildren(nodes[1].children, Memory))
  BY <1>1, <1>2 DEF Filled, FindNodeByName, ChildNamed
<1>5. PICK s \in NamedChildren(nodes[1].children, Memory) : node = nodes[1].children[s]
  BY <1>2, <1>4, LookupEntry
<1>6. PICK i \in DOMAIN tree[1].children : /\ node = tree[1].children[i]
                                           /\ node \in DOMAIN nodes
                                           /\ tree[node].name = Memory
  BY <1>1, <1>4, <1>5, FoundChild
<1>7. PICK t \in Used(nodes[node].properties) : /\ nodes[node].properties[t].name = Reg
                                                /\ p = nodes[node].properties[t]
  BY <1>3, LookupEntry DEF FindReg
<1>8. PICK k \in DOMAIN tree[node].properties :
        k \in 1 .. Len(block) /\ p = tree[node].properties[k]
  BY <1>1, <1>6, <1>7, FoundReg
<1>9. p.name = Reg
  BY <1>7
<1>10. <<i, k>> \in MemoryRegs
  BY <1>6, <1>8, <1>9 DEF MemoryRegs
<1>11. 1 \in DOMAIN tree
  <2>1. root_node \in DOMAIN nodes \cup {NULL}
    BY <1>1 DEF IInv, TypeOK
  <2> QED
    BY <1>1, <1>4, <2>1, NullNotNat DEF NodesOK
<1>12. MemorySize(i, k) < WordBase => MemorySize(i, k) = result'
  BY <1>1, <1>3, <1>6, <1>8, <1>9, <1>11, SizeIsLowWord
<1> QED
  BY <1>10, <1>12

(* With no garbage, slot s holds entry s. *)
LEMMA HeldInPlace ==
  ASSUME NEW m \in Nat, NEW slots, DOMAIN slots = 1 .. m, Usable(slots) = DOMAIN slots,
         NEW entries, Len(entries) \in Nat, DOMAIN entries = 1 .. Len(entries),
         \A s \in DOMAIN entries : entries[s] \notin {NULL, Garbage},
         HoldsFirst(slots, entries, Len(entries))
  PROVE  /\ Used(slots) = {s \in 1 .. m : s <= Len(entries)}
         /\ \A s \in Used(slots) : s \in DOMAIN entries /\ slots[s] = entries[s]
<1>1. DOMAIN slots = 1 .. m /\ Len(entries) \in Nat /\ DOMAIN entries = 1 .. Len(entries)
  OBVIOUS
<1>2. \A s \in 1 .. m : slots[s] = IF s \in 1 .. Len(entries) THEN entries[s] ELSE NULL
  <2> SUFFICES ASSUME NEW s \in 1 .. m
               PROVE  slots[s] = IF s \in 1 .. Len(entries) THEN entries[s] ELSE NULL
    OBVIOUS
  <2>1. RankIn(slots, s) = s
    BY CleanRank
  <2>2. s \in Usable(slots)
    BY <1>1
  <2> QED
    BY <2>1, <2>2 DEF HoldsFirst
<1>3. \A s \in 1 .. Len(entries) : entries[s] \notin {NULL, Garbage}
  BY <1>1
<1>4. \A s \in 1 .. m : s \in Used(slots) <=> s \in 1 .. Len(entries)
  BY <1>1, <1>2, <1>3 DEF Used
<1>5. \A s \in 1 .. m : s \in 1 .. Len(entries) <=> s <= Len(entries)
  BY <1>1
<1>6. Used(slots) \subseteq 1 .. m
  BY <1>1 DEF Used
<1>7. \A s \in Used(slots) : s \in DOMAIN entries /\ slots[s] = entries[s]
  BY <1>1, <1>2, <1>4, <1>6
<1> QED
  BY <1>4, <1>5, <1>6, <1>7

(* The entry in slot h of a clean list, and only it, has what is looked for.*)
LEMMA FindsOnly ==
  ASSUME NEW m \in Nat, NEW slots, DOMAIN slots = 1 .. m, Usable(slots) = DOMAIN slots,
         NEW entries, Len(entries) \in Nat, DOMAIN entries = 1 .. Len(entries),
         \A s \in DOMAIN entries : entries[s] \notin {NULL, Garbage},
         HoldsFirst(slots, entries, Len(entries)), Len(slots) = m,
         NEW hits, hits \subseteq Used(slots), NEW h \in DOMAIN entries, h <= m,
         \A s \in DOMAIN entries : s \in Used(slots) => (s \in hits <=> s = h),
         NEW x \in Lookup(slots, hits)
  PROVE  x = entries[h]
<1>1. /\ Used(slots) = {s \in 1 .. m : s <= Len(entries)}
      /\ \A s \in Used(slots) : s \in DOMAIN entries /\ slots[s] = entries[s]
  BY HeldInPlace
<1>2. Len(entries) \in Nat /\ h \in 1 .. Len(entries) /\ h \in 1 .. m
  OBVIOUS
<1>3. h \in Used(slots) /\ \A t \in 1 .. h - 1 : t \in Used(slots)
  BY <1>1, <1>2
<1>4. hits = {h}
  BY <1>1, <1>3
<1>5. x = slots[h]
  BY <1>2, <1>3, <1>4, LookupOnly
<1> QED
  BY <1>1, <1>3, <1>5

LEMMA RootEntries ==
  ASSUME FirmwareTypes, 1 \in DOMAIN tree
  PROVE  /\ DOMAIN tree[1].children = 1 .. Len(tree[1].children)
         /\ Len(tree[1].children) \in Nat
         /\ ChildEntries(1) \in Seq(Nat)
         /\ ChildEntries(1)[1] = 1
         /\ \A j \in DOMAIN tree[1].children :
              /\ j + 1 \in DOMAIN ChildEntries(1)
              /\ ChildEntries(1)[j + 1] = tree[1].children[j]
         /\ \A s \in DOMAIN ChildEntries(1) : s # 1 =>
              /\ s - 1 \in DOMAIN tree[1].children
              /\ ChildEntries(1)[s] = tree[1].children[s - 1]
<1> PICK c : c = tree[1].children
  OBVIOUS
<1>1. c \in Seq(Nat)
  BY NodeFields DEF FirmwareTypes
<1>2. ChildEntries(1) = <<1>> \o c
  BY DEF ChildEntries
<1> PICK E : E = <<1>> \o c
  OBVIOUS
<1>3. /\ E \in Seq(Nat) /\ Len(E) = Len(c) + 1 /\ E[1] = 1 /\ Len(c) \in Nat
      /\ DOMAIN c = 1 .. Len(c) /\ DOMAIN E = 1 .. Len(c) + 1
      /\ \A s \in 2 .. Len(c) + 1 : E[s] = c[s - 1]
  BY <1>1
<1>4. \A s \in DOMAIN E : s # 1 => s - 1 \in DOMAIN c /\ E[s] = c[s - 1]
  <2> SUFFICES ASSUME NEW s \in DOMAIN E, s # 1
               PROVE  s - 1 \in DOMAIN c /\ E[s] = c[s - 1]
    OBVIOUS
  <2>1. s \in 2 .. Len(c) + 1 /\ s - 1 \in 1 .. Len(c)
    BY <1>3
  <2> QED
    BY <1>3, <2>1
<1>5. \A j \in DOMAIN c : j + 1 \in DOMAIN E /\ E[j + 1] = c[j]
  <2> SUFFICES ASSUME NEW j \in DOMAIN c
               PROVE  j + 1 \in DOMAIN E /\ E[j + 1] = c[j]
    OBVIOUS
  <2>1. j + 1 \in 2 .. Len(c) + 1 /\ (j + 1) - 1 = j /\ j + 1 \in 1 .. Len(c) + 1
    BY <1>3
  <2> QED
    BY <1>3, <2>1
<1> QED
  BY <1>2, <1>3, <1>4, <1>5

LEMMA AnswerFound ==
  ASSUME TreeIInv, GetMemorySize, Complete, tree # << >>,
         \A i \in DOMAIN nodes : /\ Usable(nodes[i].children) = DOMAIN nodes[i].children
                                 /\ Usable(nodes[i].properties) = DOMAIN nodes[i].properties,
         NEW r \in MemoryRegs, r[1] < FDT_MAX_CHILDREN, r[2] <= FDT_MAX_PROPERTIES,
         MemorySize(r[1], r[2]) < WordBase
  PROVE  result' = MemorySize(r[1], r[2])
<1> PICK i : i = r[1]
  OBVIOUS
<1> PICK k : k = r[2]
  OBVIOUS
<1> PICK c : c = tree[1].children[i]
  OBVIOUS
<1> DEFINE E == ChildEntries(1)
           Q == tree[c].properties
           slots == nodes[1].children
           held == nodes[c].properties
<1>1. /\ IInv /\ TreeInv /\ Filled /\ AllRead /\ FirmwareTypes /\ NodesOK
      /\ curr_offset \in Nat
  BY NodesFromIInv DEF TreeIInv, FilledInv, IInv, TypeOK, GetMemorySize
<1>2. /\ DOMAIN nodes = DOMAIN tree /\ 1 \in DOMAIN tree /\ root_node = 1
      /\ FDT_MAX_CHILDREN \in Nat /\ FDT_MAX_PROPERTIES \in Nat
  <2>1. DOMAIN nodes = 1 .. Len(nodes) /\ DOMAIN tree = 1 .. Len(tree) /\ Len(tree) = Len(nodes)
    BY <1>1 DEF AllRead, NodesOK, FirmwareTypes
  <2>2. Len(tree) \in Nat \ {0} /\ nodes # << >>
    <3>1. Len(tree) \in Nat \ {0}
      BY <1>1 DEF FirmwareTypes
    <3> QED
      BY <2>1, <3>1
  <2> QED
    BY <1>1, <2>1, <2>2, FdtAssumption DEF Filled
<1>3. /\ i \in DOMAIN tree[1].children /\ k \in 1 .. Len(block)
      /\ tree[c].name = Memory /\ k \in DOMAIN Q /\ Q[k].name = Reg
      /\ c \in DOMAIN tree /\ c \in Nat
      /\ i < FDT_MAX_CHILDREN /\ k <= FDT_MAX_PROPERTIES
  <2>1. /\ i \in DOMAIN tree[1].children /\ k \in 1 .. Len(block)
        /\ tree[c].name = Memory /\ k \in DOMAIN Q /\ Q[k].name = Reg
    BY DEF MemoryRegs
  <2>2. c \in DOMAIN tree
    BY <1>1, <1>2, <2>1 DEF TreeInv, ChildOf
  <2> QED
    BY <1>1, <2>1, <2>2 DEF FirmwareTypes
<1>4. /\ E \in Seq(Nat) /\ DOMAIN E = 1 .. Len(E) /\ Len(E) \in Nat
      /\ \A s \in DOMAIN E : E[s] \in DOMAIN tree
      /\ HoldsFirst(slots, E, Len(E)) /\ E[1] = 1
      /\ i \in Nat /\ i >= 1 /\ i + 1 \in DOMAIN E /\ E[i + 1] = c
      /\ \A s \in DOMAIN E : s # 1 =>
           s - 1 \in DOMAIN tree[1].children /\ E[s] = tree[1].children[s - 1]
  <2>1. /\ DOMAIN tree[1].children = 1 .. Len(tree[1].children)
        /\ Len(tree[1].children) \in Nat /\ E \in Seq(Nat) /\ E[1] = 1
        /\ \A j \in DOMAIN tree[1].children :
             j + 1 \in DOMAIN E /\ E[j + 1] = tree[1].children[j]
        /\ \A s \in DOMAIN E : s # 1 =>
             s - 1 \in DOMAIN tree[1].children /\ E[s] = tree[1].children[s - 1]
    BY <1>1, <1>2, RootEntries
  <2>2. /\ DOMAIN E = 1 .. Len(E) /\ Len(E) \in Nat
        /\ \A s \in DOMAIN E : E[s] \in DOMAIN tree
    BY <1>1, <1>2, ChildEntriesOrder
  <2>3. HoldsFirst(slots, E, Len(E))
    BY <1>1, <1>2, AllChildren
  <2> HIDE DEF E
  <2> QED
    BY <1>3, <2>1, <2>2, <2>3
<1>5. /\ DOMAIN slots = 1 .. FDT_MAX_CHILDREN /\ Len(slots) = FDT_MAX_CHILDREN
      /\ DOMAIN held = 1 .. FDT_MAX_PROPERTIES /\ Len(held) = FDT_MAX_PROPERTIES
  <2>1. nodes[1] \in NodeType /\ nodes[c] \in NodeType
    BY <1>1, <1>2, <1>3 DEF NodesOK
  <2>2. /\ slots \in [1 .. FDT_MAX_CHILDREN -> Nat \cup {NULL, Garbage}]
        /\ held \in [1 .. FDT_MAX_PROPERTIES -> Entry \cup {NULL, Garbage}]
    BY <2>1 DEF NodeType
  <2> HIDE DEF slots, held
  <2> QED
    BY <1>2, <2>2, SlotsLength
<1>6. Usable(slots) = DOMAIN slots /\ Usable(held) = DOMAIN held
  BY <1>2, <1>3
<1>7. i + 1 \in Nat /\ i + 1 <= FDT_MAX_CHILDREN
  <2>1. FDT_MAX_CHILDREN \in Nat
    BY ONLY <1>2
  <2>2. i < FDT_MAX_CHILDREN
    BY ONLY <1>3
  <2>3. i \in Nat
    BY ONLY <1>4
  <2> QED
    BY ONLY <2>1, <2>2, <2>3
<1>8. \A s \in DOMAIN E : tree[E[s]].name = Memory <=> s = i + 1
  <2> SUFFICES ASSUME NEW s \in DOMAIN E, tree[E[s]].name = Memory PROVE s = i + 1
    BY <1>3, <1>4
  <2>1. s # 1
    <3>1. tree[1].name = 0 /\ Memory # 0
      BY <1>1, <1>2, FdtAssumption DEF TreeInv, PlaceOf
    <3> QED
      BY <1>4, <3>1
  <2>2. s - 1 \in DOMAIN tree[1].children /\ E[s] = tree[1].children[s - 1]
    BY <1>4, <2>1
  <2>3. \A a \in DOMAIN tree[1].children : \A b \in 1 .. a - 1 :
          tree[tree[1].children[b]].name # tree[tree[1].children[a]].name
    BY <1>1, <1>2 DEF TreeInv, ChildOf
  <2>4. /\ DOMAIN tree[1].children = 1 .. Len(tree[1].children)
        /\ Len(tree[1].children) \in Nat
    BY <1>1, <1>2, RootEntries
  <2> HIDE DEF E
  <2>5. s - 1 = i
    <3>1. s - 1 \in Nat /\ i \in Nat /\ s - 1 >= 1 /\ i >= 1
      BY <1>3, <2>2, <2>4
    <3>2. i \notin 1 .. (s - 1) - 1
      BY <1>3, <2>2, <2>3
    <3>3. s - 1 \notin 1 .. i - 1
      BY <1>3, <2>2, <2>3
    <3> QED
      BY <3>1, <3>2, <3>3
  <2> QED
    BY <1>4, <2>5
<1>9. FindNodeByName(root_node, Memory) \subseteq {c}
  <2> DEFINE hits == NamedChildren(slots, Memory)
  <2>1. FindNodeByName(root_node, Memory) = Lookup(slots, hits)
    <3>1. root_node # NULL
      BY <1>2, NullNotNat
    <3> QED
      BY <1>2, <3>1 DEF FindNodeByName, ChildNamed
  <2>2. hits \subseteq Used(slots)
    BY DEF NamedChildren
  <2>3. \A s \in DOMAIN E : s \in Used(slots) => (s \in hits <=> s = i + 1)
    <3> SUFFICES ASSUME NEW s \in DOMAIN E, s \in Used(slots)
                 PROVE  s \in hits <=> s = i + 1
      OBVIOUS
    <3>1. slots[s] = E[s]
      <4>1. \A a \in DOMAIN E : E[a] \notin {NULL, Garbage}
        BY <1>4, NullNotNat
      <4>2. /\ FDT_MAX_CHILDREN \in Nat /\ DOMAIN slots = 1 .. FDT_MAX_CHILDREN
            /\ Usable(slots) = DOMAIN slots
            /\ Len(E) \in Nat /\ DOMAIN E = 1 .. Len(E) /\ HoldsFirst(slots, E, Len(E))
        BY <1>2, <1>4, <1>5, <1>6
      <4> HIDE DEF E, slots, hits
      <4> QED
        BY ONLY <4>1, <4>2, HeldInPlace, s \in Used(slots)
    <3>2. nodes[E[s]].name = tree[E[s]].name
      BY <1>1, <1>2, <1>4 DEF Filled
    <3>3. s \in hits <=> nodes[slots[s]].name = Memory
      BY DEF NamedChildren
    <3> HIDE DEF hits, slots, E
    <3> QED
      BY <1>8, <3>1, <3>2, <3>3
  <2> HIDE DEF hits, slots, E
  <2>4. \A s \in DOMAIN E : E[s] \notin {NULL, Garbage}
    BY <1>4, NullNotNat
  <2>5. \A x \in Lookup(slots, hits) : x = E[i + 1]
    <3> PICK h : h = i + 1
      OBVIOUS
    <3>1. /\ h \in DOMAIN E /\ h <= FDT_MAX_CHILDREN
          /\ \A s \in DOMAIN E : s \in Used(slots) => (s \in hits <=> s = h)
      BY <1>4, <1>7, <2>3
    <3>2. /\ FDT_MAX_CHILDREN \in Nat /\ DOMAIN slots = 1 .. FDT_MAX_CHILDREN
          /\ Len(slots) = FDT_MAX_CHILDREN /\ Usable(slots) = DOMAIN slots
          /\ Len(E) \in Nat /\ DOMAIN E = 1 .. Len(E) /\ HoldsFirst(slots, E, Len(E))
      BY <1>2, <1>4, <1>5, <1>6
    <3>3. \A x \in Lookup(slots, hits) : x = E[h]
      BY ONLY <2>2, <2>4, <3>1, <3>2, FindsOnly
    <3> QED
      BY <3>1, <3>3
  <2> QED
    BY <1>4, <2>1, <2>5
<1>10. FindReg(c) \subseteq {Q[k]}
  <2> DEFINE hits == {s \in Used(held) : held[s].name = Reg}
  <2>1. FindReg(c) = Lookup(held, hits)
    BY DEF FindReg
  <2>2. hits \subseteq Used(held)
    OBVIOUS
  <2>3. Q \in Seq(Entry) /\ HoldsFirst(held, Q, Len(Q))
    BY <1>1, <1>2, <1>3, NodeFields, AllProperties DEF FirmwareTypes
  <2>4. \A s \in DOMAIN Q : Q[s] \notin {NULL, Garbage}
    BY <1>1, <1>3, PropertyEntry
  <2>5. \A a \in DOMAIN Q : \A b \in 1 .. a - 1 : Q[b].name # Q[a].name
    <3> SUFFICES ASSUME NEW a \in DOMAIN Q, NEW b \in 1 .. a - 1
                 PROVE  Q[b].name # Q[a].name
      OBVIOUS
    <3>1. PropertyOf(c, a)
      BY <1>1, <1>3 DEF TreeInv
    <3>2. tree[c].properties[b].name # tree[c].properties[a].name
      BY ONLY <3>1, b \in 1 .. a - 1 DEF PropertyOf
    <3> QED
      BY <3>2
  <2> HIDE DEF Q
  <2>6. DOMAIN Q = 1 .. Len(Q) /\ Len(Q) \in Nat
    BY <2>3
  <2> HIDE DEF held
  <2>7. \A s \in DOMAIN Q : s \in Used(held) => (s \in hits <=> s = k)
    <3> SUFFICES ASSUME NEW s \in DOMAIN Q, s \in Used(held)
                 PROVE  s \in hits <=> s = k
      OBVIOUS
    <3>1. held[s] = Q[s]
      <4>1. FDT_MAX_PROPERTIES \in Nat
        BY <1>2
      <4>2. DOMAIN held = 1 .. FDT_MAX_PROPERTIES
        BY <1>5
      <4>3. Usable(held) = DOMAIN held
        BY <1>6
      <4>4. HoldsFirst(held, Q, Len(Q))
        BY <2>3
      <4>5. Len(Q) \in Nat
        BY <2>6
      <4>6. DOMAIN Q = 1 .. Len(Q)
        BY <2>6
      <4>7. \A t \in Used(held) : t \in DOMAIN Q /\ held[t] = Q[t]
        BY ONLY <4>1, <4>2, <4>3, <4>4, <4>5, <4>6, <2>4, HeldInPlace
      <4> QED
        BY <4>7
    <3>2. Q[s].name = Reg => s = k
      <4>1. s \in 1 .. Len(Q) /\ k \in 1 .. Len(Q)
        BY <1>3, <2>6
      <4>2. s < k => Q[s].name # Q[k].name
        BY <2>5, <2>6, <4>1
      <4>3. k < s => Q[k].name # Q[s].name
        BY <2>5, <2>6, <4>1
      <4> QED
        BY <1>3, <2>6, <4>1, <4>2, <4>3
    <3> QED
      BY <1>3, <3>1, <3>2
  <2>8. \A x \in Lookup(held, hits) : x = Q[k]
    <3> HIDE DEF hits
    <3>1. k \in DOMAIN Q /\ k <= FDT_MAX_PROPERTIES
      BY <1>3
    <3> QED
      BY ONLY <1>2, <1>5, <1>6, <2>2, <2>3, <2>4, <2>6, <2>7, <3>1, FindsOnly
  <2> QED
    BY <2>1, <2>8
<1>11. c \notin {NULL, Fault} /\ Q[k] \notin {NULL, Fault}
  BY <1>1, <1>3, PropertyEntry, NullNotNat, FdtAssumption
<1>12. result' = SizeCell(Q[k].value)
  <2> HIDE DEF Q
  <2> QED
    BY <1>9, <1>10, <1>11 DEF GetMemorySize
<1>13. MemorySize(i, k) = SizeCell(Q[k].value)
  BY <1>1, <1>2, <1>3, SizeIsLowWord
<1> QED
  BY <1>12, <1>13

LEMMA AnswerStep ==
  ASSUME TreeIInv, MemorySizeAnswer, [Next]_vars
  PROVE  MemorySizeAnswer'
<1>1. CASE stage' # "done"
  BY <1>1 DEF MemorySizeAnswer, MemorySizeSound, MemorySizeFound, Answered
<1>2. CASE UNCHANGED vars
  <2>1. /\ block' = block /\ tree' = tree /\ nodes' = nodes /\ stage' = stage
        /\ result' = result
    BY <1>2 DEF vars, firmwareVars, parserVars
  <2>2. MemoryRegs' = MemoryRegs
    BY <2>1 DEF MemoryRegs
  <2>3. Complete' = Complete /\ \A i, k : MemorySize(i, k)' = MemorySize(i, k)
    BY <2>1 DEF Complete, SizeRead, Written, MemorySize, WordAt
  <2> QED
    BY <2>1, <2>2, <2>3 DEF MemorySizeAnswer, MemorySizeSound, MemorySizeFound, Answered,
                           HeapClear, Listed
<1>3. CASE GetMemorySize
  <2>1. block' = block /\ tree' = tree /\ nodes' = nodes /\ tree # << >>
    BY <1>3 DEF GetMemorySize, firmwareVars, TreeIInv, Started
  <2>2. MemoryRegs' = MemoryRegs
    BY <2>1 DEF MemoryRegs
  <2>3. Complete' = Complete /\ \A i, k : MemorySize(i, k)' = MemorySize(i, k)
    BY <2>1 DEF Complete, SizeRead, Written, MemorySize, WordAt
  <2>4. MemorySizeSound'
    <3> SUFFICES ASSUME result' \notin {0, Fault}
                 PROVE  \E r \in MemoryRegs :
                          MemorySize(r[1], r[2]) < WordBase => result' = MemorySize(r[1], r[2])
      BY <2>2, <2>3 DEF MemorySizeSound, Answered
    <3> QED
      BY <1>3, AnswerSound
  <2>5. MemorySizeFound'
    <3> SUFFICES ASSUME Complete,
                        \A i \in DOMAIN nodes :
                          /\ Usable(nodes[i].children) = DOMAIN nodes[i].children
                          /\ Usable(nodes[i].properties) = DOMAIN nodes[i].properties,
                        NEW r \in MemoryRegs,
                        r[1] < FDT_MAX_CHILDREN, r[2] <= FDT_MAX_PROPERTIES,
                        MemorySize(r[1], r[2]) < WordBase
                 PROVE  result' = MemorySize(r[1], r[2])
      BY <2>1, <2>2, <2>3 DEF MemorySizeFound, HeapClear, Listed
    <3> QED
      BY <1>3, <2>1, AnswerFound
  <2> QED
    BY <2>4, <2>5 DEF MemorySizeAnswer
<1> QED
  <2>1. ASSUME Firmware \/ FdtInit \/ BeginNode \/ EndNode \/ Property \/ NopOrUnknown
                 \/ EndParse
        PROVE  stage' # "done"
    BY <2>1 DEF Firmware, WriteRoot, WriteNode, WriteProperty, WriteNop, WriteEndNode,
                WriteEnd, Write, parserVars, FdtInit, BeginNode, EndNode, Property, Token,
                NopOrUnknown, EndParse
  <2> QED
    BY <1>1, <1>2, <1>3, <2>1 DEF Next, Kernel, Hang

-----------------------------------------------------------------------------

(* The parser's state is of its types for every block, every length of the *)
(* lists and every heap: an end of a node never leads to what is no node.  *)
THEOREM TypeCorrect == Spec => []TypeOK
<1>1. IInv => TypeOK
  BY DEF IInv
<1> QED
  BY <1>1, Invariance, PTL

(* Only what the firmware wrote as a token, or the zeros that end a name,  *)
(* is read as one, and nothing past the end of the block, whatever names,  *)
(* values and lengths the block holds.                                     *)
THEOREM ReadsTokens == Spec => []CursorOnToken
<1>1. ASSUME IInv, Parsing
      PROVE  /\ curr_offset % 4 = 0 /\ curr_offset <= Written
             /\ \/ curr_offset \in starts
                \/ WordAt(curr_offset) = 0 /\ curr_offset + 4 \in starts
  <2>1. PICK o \in starts : ReadUpTo(o) /\ o \in Nat /\ TokenShape(o)
    BY <1>1, OnToken
  <2>2. o % 4 = 0 /\ o + 4 <= Written /\ Written \in Nat
    BY <1>1, <2>1, WrittenNat DEF TokenShape, IInv
  <2> QED
    BY <2>1, <2>2 DEF ReadUpTo, WordAt, At
<1>2. IInv => CursorOnToken
  BY <1>1 DEF CursorOnToken
<1> QED
  BY <1>2, Invariance, PTL

(* At each token curr_node is the node the firmware had open there: ends   *)
(* and properties never meet a null pointer or another node.               *)
THEOREM CurrIsRight == Spec => []CurrIsInnermostOpen
<1>1. ASSUME IInv, Parsing, curr_offset \in starts
      PROVE  curr_node = innermost[curr_offset \div 4 + 1]
  <2>1. PICK o \in starts : /\ ReadUpTo(o)
                            /\ At(block, curr_offset) # 0 => curr_offset = o
    BY <1>1, OnToken
  <2>2. At(block, curr_offset) # 0
    <3>1. TokenShape(curr_offset)
      BY <1>1 DEF IInv, WellFormed
    <3> QED
      BY <3>1 DEF TokenShape, FDT_BEGIN_NODE, FDT_PROP, FDT_END_NODE, FDT_NOP, FDT_END
  <2> QED
    BY <2>1, <2>2 DEF ReadUpTo, At
<1>2. IInv => CurrIsInnermostOpen
  BY <1>1 DEF CurrIsInnermostOpen
<1> QED
  BY <1>2, Invariance, PTL

(* When the parser has stopped, its nodes are the tree that the firmware   *)
(* wrote: every name, parent, child and property in order, up to the two   *)
(* limits, for every length of the lists and every block but those that    *)
(* the kernel reads too small a size for: Complete, in TreeExact, leaves   *)
(* the blocks out that the unswapped size_dt_struct cuts short.            *)
THEOREM TreeIsRead == Spec => []TreeExact
BY TreeIsExact, TreeInvariance, PTL

(* srv_fdt_GetMemorySize returns a size that the firmware wrote, or 0, or  *)
(* faults, if the sizes fit in a word.  It returns a size that fits in a   *)
(* word and whose node and property fit in the lists, if the heap was      *)
(* clear and the parse was not cut short by the unswapped size_dt_struct   *)
(* (Complete, in MemorySizeFound).                                         *)
THEOREM AnswersMemorySize == Spec => []MemorySizeAnswer
<1>1. Init => MemorySizeAnswer
  BY DEF Init, MemorySizeAnswer, MemorySizeSound, MemorySizeFound, Answered
<1>2. TreeIInv /\ MemorySizeAnswer /\ [Next]_vars => MemorySizeAnswer'
  BY AnswerStep
<1> QED
  BY <1>1, <1>2, TreeInvariance, PTL DEF Spec

(* Every advance of the cursor over text is the least multiple of a word   *)
(* that holds it, although the code computes it with an unsigned wrap.     *)
THEOREM AlignedAdvance ==
  ASSUME NEW value \in Nat
  PROVE  /\ AlignToNextWord(value) \in Nat
         /\ AlignToNextWord(value) % 4 = 0
         /\ value <= AlignToNextWord(value) /\ AlignToNextWord(value) < value + 4
BY DEF AlignToNextWord

=============================================================================




