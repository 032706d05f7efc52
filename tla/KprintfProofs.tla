---------------------------- MODULE KprintfProofs ----------------------------
(***************************************************************************)
(* The functions of string.c: what each loop computes, by induction on its *)
(* rounds, and that this is what string.h says.  Then kprintf, for every   *)
(* format, arguments, memory and widths of numbers: the loops over a       *)
(* number print its digits, the scan stands on the NUL of the format at    *)
(* most, what is returned is the number of characters printed, and these   *)
(* are what the pieces of the format ask for.                              *)
(***************************************************************************)
EXTENDS Kprintf, FiniteSetTheorems, TLAPS

Byte == 0 .. 255

LEMMA FunctionLength ==
  ASSUME NEW n \in Nat, NEW f, f = [k \in 1 .. n |-> f[k]]
  PROVE  Len(f) = n
<1> DEFINE S == {f[k] : k \in 1 .. n}
<1>1. f \in [1 .. n -> S]
  OBVIOUS
<1> QED
  BY <1>1

LEMMA SequenceOf ==
  ASSUME NEW n \in Nat, NEW S, NEW f, f = [k \in 1 .. n |-> f[k]],
         \A k \in 1 .. n : f[k] \in S
  PROVE  f \in Seq(S) /\ Len(f) = n
<1>1. f \in [1 .. n -> S]
  OBVIOUS
<1> QED
  BY <1>1

LEMMA SequenceIs ==
  ASSUME NEW S, NEW s \in Seq(S)
  PROVE  /\ Len(s) \in Nat /\ DOMAIN s = 1 .. Len(s)
         /\ s = [k \in 1 .. Len(s) |-> s[k]] /\ \A k \in 1 .. Len(s) : s[k] \in S
OBVIOUS

(* A concatenation place by place. *)
LEMMA Joins ==
  ASSUME NEW S, NEW s \in Seq(S), NEW t \in Seq(S)
  PROVE  /\ s \o t \in Seq(S) /\ Len(s \o t) = Len(s) + Len(t)
         /\ \A k \in 1 .. Len(s) : (s \o t)[k] = s[k]
         /\ \A k \in 1 .. Len(t) : (s \o t)[Len(s) + k] = t[k]
OBVIOUS

LEMMA JoinsRight ==
  ASSUME NEW S, NEW s \in Seq(S), NEW t \in Seq(S), NEW j \in 1 .. Len(t), NEW k, k = Len(s) + j
  PROVE  (s \o t)[k] = t[j]
BY Joins

LEMMA SameSequence ==
  ASSUME NEW S, NEW T, NEW s \in Seq(S), NEW t \in Seq(T), Len(s) = Len(t),
         \A k \in 1 .. Len(s) : s[k] = t[k]
  PROVE  s = t
OBVIOUS

(* Induction, for the elements of a set instead of a predicate.            *)
LEMMA SetInduction ==
  ASSUME NEW G, 0 \in G, \A n \in Nat : n \in G => n + 1 \in G
  PROVE  Nat \subseteq G
<1> SUFFICES ASSUME Nat \ G # {} PROVE FALSE
  OBVIOUS
<1>1. PICK n \in Nat \ G : \A m \in Nat \ G : ~(<<m, n>> \in OpToRel(<, Nat))
  BY NatLessThanWellFounded, WFMin, Nat \ G \subseteq Nat
<1>2. n # 0 /\ n - 1 \in Nat
  OBVIOUS
<1>3. n - 1 \notin G
  BY <1>2
<1>4. <<n - 1, n>> \in OpToRel(<, Nat)
  BY <1>2 DEF OpToRel
<1> QED
  BY <1>1, <1>2, <1>3, <1>4

LEMMA StrongInduction ==
  ASSUME NEW G, \A n \in Nat : (\A m \in 0 .. n - 1 : m \in G) => n \in G
  PROVE  Nat \subseteq G
<1> DEFINE H == {n \in Nat : \A m \in 0 .. n : m \in G}
<1>1. 0 \in H
  <2>1. 0 .. 0 - 1 = {} /\ 0 .. 0 = {0}
    OBVIOUS
  <2> QED
    BY <2>1
<1>2. ASSUME NEW n \in Nat, n \in H PROVE n + 1 \in H
  <2>1. (n + 1) - 1 = n /\ n + 1 \in Nat
    OBVIOUS
  <2>2. n + 1 \in G
    BY <1>2, <2>1
  <2>3. \A m \in 0 .. n + 1 : m \in 0 .. n \/ m = n + 1
    OBVIOUS
  <2> QED
    BY <1>2, <2>2, <2>3
<1>3. Nat \subseteq H
  <2> HIDE DEF H
  <2> QED
    BY <1>1, <1>2, SetInduction
<1>4. \A n \in Nat : n \in 0 .. n
  OBVIOUS
<1> QED
  BY <1>3, <1>4

LEMMA DivSmaller ==
  ASSUME NEW n \in Nat, NEW b \in {10, 16}, n >= b
  PROVE  n \div b \in Nat /\ n \div b < n
<1>1. CASE b = 10
  BY <1>1
<1>2. CASE b = 16
  BY <1>2
<1> QED
  BY <1>1, <1>2

(* A recursive function: outside of B its value at n is made from the one  *)
(* at prev[n].  It exists if prev[n] is smaller: its value at n is the one *)
(* of the function that is a solution up to n.                             *)
Solution(f, S, B, prev, leaf, node) ==
  /\ f \in [Nat -> S]
  /\ \A n \in Nat : f[n] = IF n \in B THEN leaf[n] ELSE node[<<f[prev[n]], n>>]

LEMMA RecursionHolds ==
  ASSUME NEW S, NEW B, NEW prev, \A n \in Nat \ B : prev[n] \in 0 .. n - 1,
         NEW leaf \in [Nat -> S], NEW node \in [S \X Nat -> S]
  PROVE  \E f : Solution(f, S, B, prev, leaf, node)
<1> DEFINE At1(f, n) == f[n] = IF n \in B THEN leaf[n] ELSE node[<<f[prev[n]], n>>]
           Upto(k, f) == f \in [0 .. k -> S] /\ \A n \in 0 .. k : At1(f, n)
<1>1. ASSUME NEW k \in Nat, NEW j \in Nat, NEW f, NEW g, Upto(k, f), Upto(j, g)
      PROVE  \A n \in Nat : n <= k /\ n <= j => f[n] = g[n]
  <2> DEFINE G == {n \in Nat : n <= k /\ n <= j => f[n] = g[n]}
  <2>1. ASSUME NEW n \in Nat, \A m \in 0 .. n - 1 : m \in G PROVE n \in G
    <3> SUFFICES ASSUME n <= k, n <= j PROVE f[n] = g[n]
      OBVIOUS
    <3>1. n \in 0 .. k /\ n \in 0 .. j
      OBVIOUS
    <3>2. At1(f, n) /\ At1(g, n)
      BY <1>1, <3>1
    <3>3. CASE n \in B
      BY <3>2, <3>3
    <3>4. CASE n \notin B
      <4> PICK q : q = prev[n]
        OBVIOUS
      <4>1. q \in Nat /\ q < n
        BY <3>4
      <4>2. q \in 0 .. n - 1 /\ q <= k /\ q <= j
        BY <4>1
      <4>3. f[q] = g[q]
        BY <2>1, <4>2
      <4> QED
        BY <3>2, <3>4, <4>3
    <3> QED
      BY <3>3, <3>4
  <2> HIDE DEF G
  <2>2. Nat \subseteq G
    BY <2>1, StrongInduction
  <2> QED
    BY <2>2 DEF G
<1> DEFINE K == {k \in Nat : \E f : Upto(k, f)}
<1>2. ASSUME NEW k \in Nat, \A m \in 0 .. k - 1 : m \in K PROVE k \in K
  <2>1. CASE k = 0
    <3> DEFINE f == [n \in 0 .. k |-> leaf[n]]
    <3>1. f \in [0 .. k -> S]
      OBVIOUS
    <3>2. \A n \in 0 .. k : n \in B /\ f[n] = leaf[n]
      <4>1. 0 \in B
        <5>1. 0 .. 0 - 1 = {}
          OBVIOUS
        <5> QED
          BY <5>1
      <4> QED
        BY <2>1, <4>1
    <3> HIDE DEF f
    <3>3. Upto(k, f)
      BY <3>1, <3>2
    <3> HIDE DEF Upto
    <3> QED
      BY <3>3
  <2>2. CASE k # 0
    <3>1. k - 1 \in 0 .. k - 1 /\ k - 1 \in Nat
      BY <2>2
    <3>2. k - 1 \in K
      BY <1>2, <3>1
    <3>3. PICK f : Upto(k - 1, f)
      BY <3>2
    <3> DEFINE last == IF k \in B THEN leaf[k] ELSE node[<<f[prev[k]], k>>]
               g == [n \in 0 .. k |-> IF n = k THEN last ELSE f[n]]
    <3>4. last \in S
      <4>1. CASE k \in B
        BY <4>1
      <4>2. CASE k \notin B
        <5> PICK q : q = prev[k]
          OBVIOUS
        <5>1. q \in Nat /\ q < k
          BY <4>2
        <5>2. q \in 0 .. k - 1
          BY <5>1
        <5>3. f[q] \in S
          BY <3>3, <5>2
        <5> QED
          BY <4>2, <5>3
      <4> QED
        BY <4>1, <4>2
    <3>5. g \in [0 .. k -> S]
      <4>1. \A n \in 0 .. k : n = k \/ n \in 0 .. k - 1
        OBVIOUS
      <4> HIDE DEF last
      <4> QED
        BY <3>3, <3>4, <4>1
    <3>6. ASSUME NEW n \in 0 .. k PROVE At1(g, n)
      <4>1. ASSUME n \notin B PROVE g[prev[n]] = f[prev[n]]
        <5> PICK q : q = prev[n]
          OBVIOUS
        <5>1. q \in Nat /\ q < n
          BY <4>1
        <5>2. q \in 0 .. k /\ q # k
          BY <5>1
        <5> QED
          BY <5>2
      <4>2. CASE n = k
        <5>1. g[n] = last
          BY <4>2
        <5>2. n \in B \/ g[prev[n]] = f[prev[n]]
          BY <4>1
        <5> HIDE DEF g
        <5> QED
          BY <4>2, <5>1, <5>2, Zenon
      <4>3. CASE n # k
        <5>1. n \in 0 .. k - 1 /\ g[n] = f[n]
          BY <4>3
        <5>2. At1(f, n)
          BY <3>3, <5>1
        <5> HIDE DEF g
        <5> QED
          BY <4>1, <5>1, <5>2
      <4> QED
        BY <4>2, <4>3
    <3> HIDE DEF g
    <3>7. Upto(k, g)
      BY <3>5, <3>6
    <3> HIDE DEF Upto
    <3> QED
      BY <3>7
  <2> QED
    BY <2>1, <2>2
<1>3. \A k \in Nat : \E f : Upto(k, f)
  <2> HIDE DEF K
  <2>1. Nat \subseteq K
    BY <1>2, StrongInduction
  <2> HIDE DEF Upto
  <2> QED
    BY <2>1 DEF K
<1> DEFINE sol(k) == CHOOSE f : Upto(k, f)
<1>4. \A k \in Nat : Upto(k, sol(k))
  <2> HIDE DEF Upto
  <2> QED
    BY <1>3
<1> HIDE DEF sol
<1> DEFINE F == [n \in Nat |-> sol(n)[n]]
<1>5. \A n \in Nat : n \in 0 .. n
  OBVIOUS
<1>6. F \in [Nat -> S]
  BY <1>4, <1>5
<1>7. ASSUME NEW n \in Nat PROVE At1(F, n)
  <2>1. At1(sol(n), n) /\ F[n] = sol(n)[n]
    BY <1>4, <1>5
  <2>2. CASE n \in B
    BY <2>1, <2>2
  <2>3. CASE n \notin B
    <3> PICK q : q = prev[n]
      OBVIOUS
    <3>1. q \in Nat /\ q < n
      BY <2>3
    <3>2. sol(n)[q] = sol(q)[q]
      <4>1. q <= n /\ q <= q
        BY <3>1
      <4> HIDE DEF Upto
      <4>2. Upto(n, sol(n)) /\ Upto(q, sol(q))
        BY <1>4, <3>1
      <4> QED
        BY <1>1, <3>1, <4>1, <4>2
    <3>3. F[q] = sol(q)[q]
      BY <3>1
    <3> HIDE DEF F
    <3> QED
      BY <2>1, <2>3, <3>2, <3>3
  <2> QED
    BY <2>2, <2>3
<1> HIDE DEF F
<1>8. Solution(F, S, B, prev, leaf, node)
  BY <1>6, <1>7 DEF Solution
<1> QED
  BY <1>8

(* Over the quotients of a number, and over the numbers below it.          *)
DivSolution(f, S, b, leaf, node) ==
  /\ f \in [Nat -> S]
  /\ \A n \in Nat : f[n] = IF n < b THEN leaf[n] ELSE node[<<f[n \div b], n>>]

LEMMA DivRecursion ==
  ASSUME NEW S, NEW b \in {10, 16}, NEW leaf \in [Nat -> S], NEW node \in [S \X Nat -> S]
  PROVE  \E f : DivSolution(f, S, b, leaf, node)
<1> DEFINE B == 0 .. b - 1
           prev == [n \in Nat |-> n \div b]
<1>1. \A n \in Nat : n \in B <=> n < b
  OBVIOUS
<1>2. \A n \in Nat : prev[n] = n \div b
  OBVIOUS
<1>3. \A n \in Nat \ B : prev[n] \in 0 .. n - 1
  <2> SUFFICES ASSUME NEW n \in Nat \ B PROVE n \div b \in 0 .. n - 1
    BY <1>2
  <2>1. n >= b
    BY <1>1
  <2>2. n \div b \in Nat /\ n \div b < n
    BY <2>1, DivSmaller
  <2> QED
    BY <2>2
<1> HIDE DEF B, prev
<1>4. PICK f : Solution(f, S, B, prev, leaf, node)
  BY <1>3, RecursionHolds
<1>5. DivSolution(f, S, b, leaf, node)
  BY <1>1, <1>2, <1>4 DEF Solution, DivSolution
<1> QED
  BY <1>5

StepSolution(f, S, first, node) ==
  /\ f \in [Nat -> S]
  /\ f[0] = first
  /\ \A n \in Nat \ {0} : f[n] = node[<<f[n - 1], n>>]

LEMMA StepRecursion ==
  ASSUME NEW S, NEW first \in S, NEW node \in [S \X Nat -> S]
  PROVE  \E f : StepSolution(f, S, first, node)
<1> DEFINE prev == [n \in Nat |-> n - 1]
           leaf == [n \in Nat |-> first]
<1>1. \A n \in Nat \ {0} : prev[n] \in 0 .. n - 1 /\ prev[n] = n - 1
  OBVIOUS
<1>2. leaf \in [Nat -> S] /\ leaf[0] = first
  OBVIOUS
<1> HIDE DEF prev, leaf
<1>3. PICK f : Solution(f, S, {0}, prev, leaf, node)
  BY <1>1, <1>2, RecursionHolds
<1>4. f[0] = first
  BY <1>2, <1>3 DEF Solution
<1>5. \A n \in Nat \ {0} : f[n] = node[<<f[n - 1], n>>]
  BY <1>1, <1>3 DEF Solution
<1>6. StepSolution(f, S, first, node)
  BY <1>3, <1>4, <1>5 DEF Solution, StepSolution
<1> QED
  BY <1>6

-----------------------------------------------------------------------------
(* string.c *)

(* Two loops that start alike and step alike end alike.                    *)
LEMMA SameLoop ==
  ASSUME NEW n \in Nat, NEW f, NEW g, f[0] = g[0],
         \A i \in 1 .. n : f[i - 1] = g[i - 1] => f[i] = g[i]
  PROVE  f[n] = g[n]
<1> DEFINE G == {i \in Nat : i <= n => f[i] = g[i]}
<1>1. 0 \in G
  OBVIOUS
<1>2. ASSUME NEW i \in Nat, i \in G PROVE i + 1 \in G
  <2> SUFFICES ASSUME i + 1 <= n PROVE f[i + 1] = g[i + 1]
    OBVIOUS
  <2>1. f[i] = g[i] /\ i + 1 \in 1 .. n /\ (i + 1) - 1 = i
    BY <1>2
  <2> QED
    BY <2>1
<1> HIDE DEF G
<1>3. Nat \subseteq G
  BY <1>1, <1>2, SetInduction
<1> QED
  BY <1>3 DEF G

(* The memory m with the n bytes at s1 replaced by byte[0], byte[1], ...    *)
Written(m, s1, n, byte) ==
  [a \in Address |-> IF a \in s1 .. s1 + n - 1 THEN byte[a - s1] ELSE m[a]]

(* One round of a loop that writes: its byte lands behind those written.   *)
LEMMA WriteOne ==
  ASSUME NEW m \in [Address -> Bytes], NEW s1 \in Address, NEW i \in Nat \ {0}, NEW byte
  PROVE  [Written(m, s1, i - 1, byte) EXCEPT ![s1 + i - 1] = byte[i - 1]]
           = Written(m, s1, i, byte)
<1>1. s1 \in Nat /\ Address \subseteq Nat
  BY CStringAssumption DEF Address
<1> DEFINE old == Written(m, s1, i - 1, byte)
           new == Written(m, s1, i, byte)
<1>2. ASSUME NEW a \in Address
      PROVE  [old EXCEPT ![s1 + i - 1] = byte[i - 1]][a] = new[a]
  <2>1. a \in Nat
    BY <1>1
  <2>2. CASE a = s1 + i - 1
    <3>1. a - s1 = i - 1 /\ a \in s1 .. s1 + i - 1
      BY <1>1, <2>2
    <3> QED
      BY <2>2, <3>1 DEF Written
  <2>3. CASE a # s1 + i - 1
    <3>1. a \in s1 .. s1 + i - 1 <=> a \in s1 .. s1 + (i - 1) - 1
      BY <1>1, <2>1, <2>3
    <3> QED
      BY <2>3, <3>1 DEF Written
  <2> QED
    BY <2>2, <2>3
<1> QED
  BY <1>2 DEF Written

LEMMA WriteNone ==
  ASSUME NEW m \in [Address -> Bytes], NEW s1 \in Address, NEW byte
  PROVE  Written(m, s1, 0, byte) = m
BY CStringAssumption DEF Written, Address

(* memcpy: the n bytes at s1 become those at s2. *)
LEMMA MemcpyCopies ==
  ASSUME NEW s1 \in Address, NEW s2 \in Address, NEW n \in Nat,
         mem \in [Address -> Bytes], Memcpy(s1, s2, n)
  PROVE  mem' = Written(mem, s1, n, [k \in Nat |-> mem[s2 + k]])
<1> DEFINE Phi(f) == f = [i \in 0 .. n |->
             IF i = 0 THEN mem ELSE [f[i - 1] EXCEPT ![s1 + i - 1] = f[i - 1][s2 + i - 1]]]
           byte == [k \in Nat |-> mem[s2 + k]]
           g == [i \in 0 .. n |-> Written(mem, s1, i, byte)]
           loop == CHOOSE f : Phi(f)
<1>1. mem' = loop[n]
  BY Zenon DEF Memcpy
<1>2. Phi(g)
  <2>1. g[0] = mem
    BY WriteNone
  <2>2. ASSUME NEW i \in 1 .. n
        PROVE  g[i] = [g[i - 1] EXCEPT ![s1 + i - 1] = g[i - 1][s2 + i - 1]]
    <3>1. g[i] = Written(mem, s1, i, byte) /\ g[i - 1] = Written(mem, s1, i - 1, byte)
          /\ i \in Nat \ {0}
      OBVIOUS
    <3>2. s2 + i - 1 \in Address /\ s2 + i - 1 \notin s1 .. s1 + (i - 1) - 1
          /\ byte[i - 1] = mem[s2 + i - 1]
      BY CStringAssumption DEF Memcpy, Exists, Disjoint, Address
    <3>3. g[i - 1][s2 + i - 1] = byte[i - 1]
      BY <3>1, <3>2 DEF Written
    <3> HIDE DEF g, byte
    <3> QED
      BY <3>1, <3>3, WriteOne
  <2>3. ASSUME NEW i \in 0 .. n
        PROVE  g[i] = IF i = 0 THEN mem
                      ELSE [g[i - 1] EXCEPT ![s1 + i - 1] = g[i - 1][s2 + i - 1]]
    <3>1. i = 0 \/ i \in 1 .. n
      OBVIOUS
    <3> QED
      BY <2>1, <2>2, <3>1
  <2>4. g = [i \in 0 .. n |-> g[i]]
    OBVIOUS
  <2> HIDE DEF g
  <2> QED
    BY <2>3, <2>4, Zenon
<1>3. Phi(loop)
  BY <1>2
<1> HIDE DEF loop
<1> HIDE DEF g
<1>4. loop[0] = g[0]
  <2>1. 0 \in 0 .. n
    OBVIOUS
  <2> QED
    BY <1>2, <1>3, <2>1
<1>5. ASSUME NEW i \in 1 .. n, loop[i - 1] = g[i - 1] PROVE loop[i] = g[i]
  <2>1. i \in 0 .. n /\ i # 0
    OBVIOUS
  <2>2. loop[i] = [loop[i - 1] EXCEPT ![s1 + i - 1] = loop[i - 1][s2 + i - 1]]
    BY <1>3, <2>1
  <2>3. g[i] = [g[i - 1] EXCEPT ![s1 + i - 1] = g[i - 1][s2 + i - 1]]
    BY <1>2, <2>1
  <2> HIDE DEF Phi
  <2> QED
    BY <1>5, <2>2, <2>3, Zenon
<1>6. loop[n] = g[n]
  BY <1>4, <1>5, SameLoop
<1> QED
  BY <1>1, <1>6 DEF g

(* memset: the n bytes at s become c. *)
LEMMA MemsetFills ==
  ASSUME NEW s \in Address, NEW c \in Int, NEW n \in Nat,
         mem \in [Address -> Bytes], Memset(s, c, n)
  PROVE  mem' = Written(mem, s, n, [k \in Nat |-> (c % 256)])
<1> DEFINE Phi(f) == f = [i \in 0 .. n |->
             IF i = 0 THEN mem ELSE [f[i - 1] EXCEPT ![s + i - 1] = c % 256]]
           byte == [k \in Nat |-> (c % 256)]
           g == [i \in 0 .. n |-> Written(mem, s, i, byte)]
           loop == CHOOSE f : Phi(f)
<1>1. mem' = loop[n]
  BY Zenon DEF Memset
<1>2. Phi(g)
  <2>1. g[0] = mem
    BY WriteNone
  <2>2. ASSUME NEW i \in 1 .. n
        PROVE  g[i] = [g[i - 1] EXCEPT ![s + i - 1] = c % 256]
    <3>1. g[i] = Written(mem, s, i, byte) /\ g[i - 1] = Written(mem, s, i - 1, byte)
          /\ i \in Nat \ {0} /\ byte[i - 1] = (c % 256)
      OBVIOUS
    <3> HIDE DEF g, byte
    <3> QED
      BY <3>1, WriteOne
  <2>3. ASSUME NEW i \in 0 .. n
        PROVE  g[i] = IF i = 0 THEN mem ELSE [g[i - 1] EXCEPT ![s + i - 1] = c % 256]
    <3>1. i = 0 \/ i \in 1 .. n
      OBVIOUS
    <3> QED
      BY <2>1, <2>2, <3>1
  <2>4. g = [i \in 0 .. n |-> g[i]]
    OBVIOUS
  <2> HIDE DEF g
  <2> QED
    BY <2>3, <2>4, Zenon
<1>3. Phi(loop)
  BY <1>2
<1> HIDE DEF loop
<1> HIDE DEF g
<1>4. loop[0] = g[0]
  <2>1. 0 \in 0 .. n
    OBVIOUS
  <2> QED
    BY <1>2, <1>3, <2>1
<1>5. ASSUME NEW i \in 1 .. n, loop[i - 1] = g[i - 1] PROVE loop[i] = g[i]
  <2>1. i \in 0 .. n /\ i # 0
    OBVIOUS
  <2>2. loop[i] = [loop[i - 1] EXCEPT ![s + i - 1] = c % 256]
    BY <1>3, <2>1
  <2>3. g[i] = [g[i - 1] EXCEPT ![s + i - 1] = c % 256]
    BY <1>2, <2>1
  <2> HIDE DEF Phi
  <2> QED
    BY <1>5, <2>2, <2>3, Zenon
<1>6. loop[n] = g[n]
  BY <1>4, <1>5, SameLoop
<1> QED
  BY <1>1, <1>6 DEF g

(* strncpy: the n bytes at s1 become those at s2 before their first NUL,   *)
(* and NUL behind it.                                                      *)
LEMMA StrncpyFills ==
  ASSUME NEW s1 \in Address, NEW s2 \in Address, NEW n \in Nat,
         mem \in [Address -> Bytes], Strncpy(s1, s2, n)
  PROVE  mem' = Written(mem, s1, n, [k \in Nat |->
                  IF \E j \in 0 .. k : mem[s2 + j] = NUL THEN NUL ELSE mem[s2 + k]])
<1> DEFINE Round(last, i) ==
             LET byte == last.mem[s2 + i - 1]
                 shorter == Fused(last.s2_shorter, byte)
             IN  [mem |-> [last.mem EXCEPT ![s1 + i - 1] = IF shorter THEN NUL ELSE byte],
                  s2_shorter |-> shorter]
           first == [mem |-> mem, s2_shorter |-> FALSE]
           Phi(f) == f = [i \in 0 .. n |-> IF i = 0 THEN first ELSE Round(f[i - 1], i)]
           Seen(k) == \E j \in 0 .. k : mem[s2 + j] = NUL
           fill == [k \in Nat |-> IF Seen(k) THEN NUL ELSE mem[s2 + k]]
           g == [i \in 0 .. n |-> [mem |-> Written(mem, s1, i, fill),
                                   s2_shorter |-> Seen(i - 1)]]
           loop == CHOOSE f : Phi(f)
<1>1. mem' = loop[n].mem
  BY Zenon DEF Strncpy
<1>2. Phi(g)
  <2>1. g[0] = first
    <3>1. Written(mem, s1, 0, fill) = mem
      BY WriteNone
    <3>2. Seen(0 - 1) = FALSE
      OBVIOUS
    <3>3. g[0] = [mem |-> Written(mem, s1, 0, fill), s2_shorter |-> Seen(0 - 1)]
      <4>1. 0 \in 0 .. n
        OBVIOUS
      <4> HIDE DEF Seen, fill
      <4> QED
        BY <4>1, Zenon
    <3> HIDE DEF g, Seen, fill
    <3> QED
      BY <3>1, <3>2, <3>3
  <2>2. ASSUME NEW i \in 1 .. n PROVE g[i] = Round(g[i - 1], i)
    <3>1. g[i] = [mem |-> Written(mem, s1, i, fill), s2_shorter |-> Seen(i - 1)]
          /\ i \in Nat \ {0}
      OBVIOUS
    <3>2. g[i - 1] = [mem |-> Written(mem, s1, i - 1, fill), s2_shorter |-> Seen(i - 2)]
      <4>1. i - 1 \in 0 .. n /\ (i - 1) - 1 = i - 2
        OBVIOUS
      <4> QED
        BY <4>1
    <3>3. s2 + i - 1 \in Address /\ s2 + i - 1 \notin s1 .. s1 + (i - 1) - 1
      BY CStringAssumption DEF Strncpy, Exists, Disjoint, Address
    <3>4. g[i - 1].mem[s2 + i - 1] = mem[s2 + i - 1]
      BY <3>2, <3>3 DEF Written
    <3>5. Fused(g[i - 1].s2_shorter, mem[s2 + i - 1]) = Seen(i - 1)
      <4>1. (mem[s2 + (i - 1)] = NUL \/ Seen(i - 2)) <=> Seen(i - 1)
        <5>1. \A j \in 0 .. i - 1 : j = i - 1 \/ j \in 0 .. i - 2
          OBVIOUS
        <5>2. \A j \in 0 .. i - 2 : j \in 0 .. i - 1
          OBVIOUS
        <5>3. i - 1 \in 0 .. i - 1
          OBVIOUS
        <5> QED
          BY <5>1, <5>2, <5>3
      <4>2. s2 + (i - 1) = s2 + i - 1
        BY CStringAssumption DEF Address
      <4>3. g[i - 1].s2_shorter = Seen(i - 2)
        <5> HIDE DEF g, Seen, fill
        <5>1. PICK m, b : m = Written(mem, s1, i - 1, fill) /\ b = Seen(i - 2)
          BY Zenon
        <5>2. g[i - 1] = [mem |-> m, s2_shorter |-> b]
          BY <3>2, <5>1, Zenon
        <5>3. g[i - 1].s2_shorter = b
          BY ONLY <5>2
        <5> QED
          BY <5>1, <5>3, Zenon
      <4> QED
        BY <4>1, <4>2, <4>3 DEF Fused
    <3>6. fill[i - 1] = IF Seen(i - 1) THEN NUL ELSE mem[s2 + i - 1]
      BY CStringAssumption DEF Address
    <3>7. Round(g[i - 1], i) =
            [mem |-> [g[i - 1].mem EXCEPT ![s1 + i - 1] = fill[i - 1]],
             s2_shorter |-> Seen(i - 1)]
      BY <3>4, <3>5, <3>6
    <3>8. [g[i - 1].mem EXCEPT ![s1 + i - 1] = fill[i - 1]] = Written(mem, s1, i, fill)
      <4>1. g[i - 1].mem = Written(mem, s1, i - 1, fill)
        BY <3>2
      <4> HIDE DEF g, fill
      <4> QED
        BY <3>1, <4>1, WriteOne
    <3> QED
      BY <3>1, <3>7, <3>8
  <2>3. ASSUME NEW i \in 0 .. n PROVE g[i] = IF i = 0 THEN first ELSE Round(g[i - 1], i)
    <3>1. i = 0 \/ i \in 1 .. n
      OBVIOUS
    <3> HIDE DEF g, first, Round
    <3> QED
      BY <2>1, <2>2, <3>1
  <2>4. g = [i \in 0 .. n |-> g[i]]
    OBVIOUS
  <2> HIDE DEF g, first, Round
  <2> QED
    BY <2>3, <2>4, Zenon
<1>3. Phi(loop)
  BY <1>2
<1> HIDE DEF loop, g, first, Round
<1>4. loop[0] = g[0]
  <2>1. 0 \in 0 .. n
    OBVIOUS
  <2> QED
    BY <1>2, <1>3, <2>1
<1>5. ASSUME NEW i \in 1 .. n, loop[i - 1] = g[i - 1] PROVE loop[i] = g[i]
  <2>1. i \in 0 .. n /\ i # 0
    OBVIOUS
  <2>2. loop[i] = Round(loop[i - 1], i)
    BY <1>3, <2>1
  <2>3. g[i] = Round(g[i - 1], i)
    BY <1>2, <2>1
  <2> HIDE DEF Phi
  <2> QED
    BY <1>5, <2>2, <2>3, Zenon
<1>6. loop[n] = g[n]
  BY <1>4, <1>5, SameLoop
<1>7. g[n].mem = Written(mem, s1, n, fill)
  BY DEF g
<1> QED
  BY <1>1, <1>6, <1>7

-----------------------------------------------------------------------------

Smallest(S) == CHOOSE a \in S : \A b \in S : a <= b

LEMMA SmallestExists ==
  ASSUME NEW S \in SUBSET Nat, S # {}
  PROVE  Smallest(S) \in S /\ \A b \in S : Smallest(S) <= b
<1>1. PICK a \in S : \A b \in S : ~(<<b, a>> \in OpToRel(<, Nat))
  BY NatLessThanWellFounded, WFMin
<1>2. ASSUME NEW b \in S PROVE a <= b
  <2>1. a \in Nat /\ b \in Nat
    OBVIOUS
  <2>2. ASSUME b < a PROVE FALSE
    <3>1. <<b, a>> \in OpToRel(<, Nat)
      BY <2>1, <2>2 DEF OpToRel
    <3> QED
      BY <1>1, <3>1
  <2> QED
    BY <2>1, <2>2
<1> QED
  BY <1>2 DEF Smallest

LEMMA SmallestIs ==
  ASSUME NEW S \in SUBSET Nat, NEW a \in S, \A b \in S : a <= b
  PROVE  Smallest(S) = a
<1>1. Smallest(S) \in S /\ Smallest(S) <= a
  BY SmallestExists
<1>2. a <= Smallest(S) /\ a \in Nat /\ Smallest(S) \in Nat
  BY <1>1
<1> QED
  BY <1>1, <1>2

(* The addresses of NUL from s on, and the one that ends the string at s.  *)
Nuls(m, s) == {a \in s .. MemSize - 1 : m[a] = NUL}
EndOf(m, s) == Smallest(Nuls(m, s))

LEMMA EndIs ==
  ASSUME NEW s \in Nat, NEW m, Nuls(m, s) # {}
  PROVE  /\ EndOf(m, s) \in s .. MemSize - 1 /\ EndOf(m, s) \in Address /\ m[EndOf(m, s)] = NUL
         /\ \A a \in s .. EndOf(m, s) - 1 : a \in Address /\ m[a] # NUL
         /\ StringIn(m, s) = [k \in 1 .. EndOf(m, s) - s |-> m[s + k - 1]]
<1>1. Nuls(m, s) \in SUBSET Nat
  BY CStringAssumption DEF Nuls
<1>2. EndOf(m, s) \in Nuls(m, s) /\ \A b \in Nuls(m, s) : EndOf(m, s) <= b
  BY <1>1, SmallestExists DEF EndOf
<1>3. EndOf(m, s) \in s .. MemSize - 1 /\ EndOf(m, s) \in Address /\ m[EndOf(m, s)] = NUL
  BY <1>2, CStringAssumption DEF Nuls, Address
<1>4. ASSUME NEW a \in s .. EndOf(m, s) - 1 PROVE a \in Address /\ m[a] # NUL
  BY <1>2, <1>3, CStringAssumption DEF Nuls, Address
<1>5. StringIn(m, s) = [k \in 1 .. EndOf(m, s) - s |-> m[s + k - 1]]
  BY Zenon DEF StringIn, EndOf, Smallest, Nuls
<1> QED
  BY <1>3, <1>4, <1>5

(* strlen: the length of the string. *)
LEMMA StrlenCounts ==
  ASSUME NEW str \in Address, Strlen(str)
  PROVE  call'.ret = EndOf(mem, str) - str
<1> DEFINE D == {i \in Nat : Terminated(str + i)}
           Phi(f) == f = [count \in D |-> IF mem[str + count] # NUL THEN f[count + 1] ELSE count]
           g == [count \in D |-> EndOf(mem, str + count) - str]
           loop == CHOOSE f : Phi(f)
           end == EndOf(mem, str)
<1>1. call'.ret = loop[0]
  BY Zenon DEF Strlen, Returns
<1>2. str \in Nat /\ MemSize \in Nat /\ Nuls(mem, str) # {}
  BY CStringAssumption DEF Address, Strlen, Terminated, Nuls
<1>3. Phi(g)
  <2>1. ASSUME NEW i \in D
        PROVE  g[i] = IF mem[str + i] # NUL THEN g[i + 1] ELSE i
    <3>1. str + i \in Nat /\ Nuls(mem, str + i) # {} /\ i \in Nat
      BY <1>2 DEF Nuls, Terminated
    <3>2. CASE mem[str + i] = NUL
      <4>1. EndOf(mem, str + i) = str + i
        <5>1. \E a \in str + i .. MemSize - 1 : TRUE
          BY <3>1 DEF Nuls
        <5>2. str + i \in Nuls(mem, str + i) /\ \A b \in Nuls(mem, str + i) : str + i <= b
          BY <1>2, <3>1, <3>2, <5>1 DEF Nuls
        <5>3. Nuls(mem, str + i) \in SUBSET Nat
          BY <1>2, <3>1 DEF Nuls
        <5> QED
          BY <5>2, <5>3, SmallestIs DEF EndOf
      <4> QED
        BY <1>2, <3>1, <3>2, <4>1
    <3>3. CASE mem[str + i] # NUL
      <4>1. Nuls(mem, str + i) = Nuls(mem, str + (i + 1))
        BY <1>2, <3>1, <3>3 DEF Nuls
      <4>2. i + 1 \in D
        <5>1. Terminated(str + (i + 1))
          BY <3>1, <4>1 DEF Terminated, Nuls
        <5> QED
          BY <3>1, <5>1
      <4>3. g[i + 1] = EndOf(mem, str + (i + 1)) - str
        BY <4>2
      <4>4. EndOf(mem, str + (i + 1)) = EndOf(mem, str + i)
        BY <4>1 DEF EndOf
      <4> QED
        BY <3>3, <4>3, <4>4
    <3> QED
      BY <3>2, <3>3
  <2>2. g = [count \in D |-> g[count]]
    OBVIOUS
  <2> HIDE DEF g, D
  <2> QED
    BY <2>1, <2>2, Zenon
<1>4. Phi(loop)
  BY <1>3
<1>5. /\ end \in str .. MemSize - 1 /\ mem[end] = NUL
      /\ \A a \in str .. end - 1 : mem[a] # NUL
  BY <1>2, EndIs
<1>6. ASSUME NEW i \in 0 .. end - str PROVE i \in D
  BY <1>2, <1>5 DEF Terminated
<1> HIDE DEF loop, D, end
<1>7. ASSUME NEW i \in 0 .. end - str
      PROVE  loop[i] = IF mem[str + i] # NUL THEN loop[i + 1] ELSE i
  BY <1>4, <1>6
<1> HIDE DEF Phi
<1> DEFINE same == [i \in Nat |-> loop[0]]
<1>8. loop[end - str] = same[end - str]
  <2>1. loop[0] = same[0] /\ end - str \in Nat
    BY <1>2, <1>5
  <2>2. ASSUME NEW i \in 1 .. end - str, loop[i - 1] = same[i - 1]
        PROVE  loop[i] = same[i]
    <3>1. i - 1 \in 0 .. end - str /\ str + (i - 1) \in str .. end - 1 /\ (i - 1) + 1 = i
          /\ i \in Nat /\ i - 1 \in Nat
      BY <1>2, <1>5
    <3>2. loop[i - 1] = loop[i]
      BY <1>5, <1>7, <3>1
    <3> QED
      BY <2>2, <3>1, <3>2
  <2> HIDE DEF same
  <2> QED
    BY <2>1, <2>2, SameLoop
<1>9. end - str \in 0 .. end - str /\ str + (end - str) = end /\ end - str \in Nat
  BY <1>2, <1>5
<1>10. loop[end - str] = end - str
  BY <1>5, <1>7, <1>9
<1> QED
  BY <1>1, <1>8, <1>9, <1>10 DEF end

(* Where two strings stop being alike, counted from both of their starts.  *)
Stops(s1, s2, i) ==
  {k \in Nat : /\ i <= k /\ s1 + k < MemSize /\ s2 + k < MemSize
               /\ mem[s1 + k] = NUL \/ mem[s1 + k] # mem[s2 + k]}
StopOf(s1, s2, i) == Smallest(Stops(s1, s2, i))

LEMMA StopsSomewhere ==
  ASSUME NEW s1 \in Nat, NEW s2 \in Nat, NEW i \in Nat,
         Terminated(s1 + i), Terminated(s2 + i)
  PROVE  Stops(s1, s2, i) # {}
<1>1. MemSize \in Nat
  BY CStringAssumption
<1>2. PICK k \in Nat : i <= k /\ s1 + k < MemSize /\ mem[s1 + k] = NUL
  <2>1. PICK a \in s1 + i .. MemSize - 1 : mem[a] = NUL
    BY DEF Terminated
  <2>2. a - s1 \in Nat /\ i <= a - s1 /\ s1 + (a - s1) = a
    BY <1>1
  <2> QED
    BY <1>1, <2>1, <2>2
<1>3. PICK l \in Nat : i <= l /\ s2 + l < MemSize /\ mem[s2 + l] = NUL
  <2>1. PICK a \in s2 + i .. MemSize - 1 : mem[a] = NUL
    BY DEF Terminated
  <2>2. a - s2 \in Nat /\ i <= a - s2 /\ s2 + (a - s2) = a
    BY <1>1
  <2> QED
    BY <1>1, <2>1, <2>2
<1>4. CASE k <= l
  <2>1. k \in Stops(s1, s2, i)
    BY <1>1, <1>2, <1>3, <1>4 DEF Stops
  <2> QED
    BY <2>1
<1>5. CASE l < k
  <2>1. l \in Stops(s1, s2, i)
    BY <1>1, <1>2, <1>3, <1>5 DEF Stops
  <2> QED
    BY <2>1
<1> QED
  BY <1>4, <1>5

(* strcmp: the difference where the strings stop being alike. *)
LEMMA StrcmpStops ==
  ASSUME NEW s1 \in Address, NEW s2 \in Address, Strcmp(s1, s2)
  PROVE  LET stop == StopOf(s1, s2, 0) IN call'.ret = mem[s1 + stop] - mem[s2 + stop]
<1> DEFINE D == {j \in Nat : Terminated(s1 + j) /\ Terminated(s2 + j)}
           Alike(i) == mem[s1 + i] # NUL /\ mem[s1 + i] = mem[s2 + i]
           Phi(f) == f = [i \in D |->
             IF Alike(i) THEN f[i + 1] ELSE mem[s1 + i] - mem[s2 + i]]
           Difference(i) == mem[s1 + i] - mem[s2 + i]
           g == [i \in D |-> Difference(StopOf(s1, s2, i))]
           loop == CHOOSE f : Phi(f)
           stop == StopOf(s1, s2, 0)
<1>1. call'.ret = loop[0]
  BY Zenon DEF Strcmp, Returns
<1>2. s1 \in Nat /\ s2 \in Nat /\ MemSize \in Nat /\ Terminated(s1 + 0) /\ Terminated(s2 + 0)
  BY CStringAssumption DEF Address, Strcmp
<1>3. ASSUME NEW i \in Nat, NEW j \in Nat, i <= j PROVE Stops(s1, s2, j) \subseteq Stops(s1, s2, i)
  BY <1>2, <1>3 DEF Stops
<1>4. ASSUME NEW i \in D, Alike(i)
      PROVE  i + 1 \in D /\ Stops(s1, s2, i) = Stops(s1, s2, i + 1)
  <2>1. i \in Nat /\ Terminated(s1 + i) /\ Terminated(s2 + i)
    OBVIOUS
  <2>2. Terminated(s1 + (i + 1)) /\ Terminated(s2 + (i + 1))
    BY <1>2, <1>4, <2>1 DEF Terminated
  <2>3. Stops(s1, s2, i) = Stops(s1, s2, i + 1)
    BY <1>2, <1>4, <2>1 DEF Stops
  <2> QED
    BY <2>1, <2>2, <2>3
<1>5. ASSUME NEW i \in D, ~Alike(i) PROVE StopOf(s1, s2, i) = i
  <2>1. i \in Nat /\ Terminated(s1 + i) /\ Terminated(s2 + i)
    OBVIOUS
  <2>2. s1 + i < MemSize /\ s2 + i < MemSize
    BY <1>2, <2>1 DEF Terminated
  <2>3. i \in Stops(s1, s2, i) /\ \A b \in Stops(s1, s2, i) : i <= b
    BY <1>5, <2>1, <2>2 DEF Stops
  <2>4. Stops(s1, s2, i) \in SUBSET Nat
    BY DEF Stops
  <2> QED
    BY <2>3, <2>4, SmallestIs DEF StopOf
<1>6. Phi(g)
  <2>1. ASSUME NEW i \in D
        PROVE  g[i] = IF Alike(i) THEN g[i + 1] ELSE Difference(i)
    <3>1. CASE Alike(i)
      <4>1. i + 1 \in D /\ StopOf(s1, s2, i) = StopOf(s1, s2, i + 1)
        BY <1>4, <3>1 DEF StopOf
      <4> HIDE DEF D, Alike, Difference
      <4> QED
        BY <3>1, <4>1
    <3>2. CASE ~Alike(i)
      <4>1. StopOf(s1, s2, i) = i
        BY <1>5, <3>2
      <4> HIDE DEF D, Alike, Difference
      <4> QED
        BY <3>2, <4>1
    <3> HIDE DEF Alike
    <3> QED
      BY <3>1, <3>2
  <2>2. g = [i \in D |-> g[i]]
    OBVIOUS
  <2> HIDE DEF g, D, Alike
  <2> QED
    BY <2>1, <2>2, Zenon
<1>7. Phi(loop)
  BY <1>6
<1>8. stop \in Stops(s1, s2, 0) /\ \A b \in Stops(s1, s2, 0) : stop <= b
  <2>1. Stops(s1, s2, 0) \in SUBSET Nat /\ Stops(s1, s2, 0) # {}
    BY <1>2, StopsSomewhere DEF Stops
  <2> QED
    BY <2>1, SmallestExists DEF StopOf
<1>9. stop \in Nat /\ s1 + stop < MemSize /\ s2 + stop < MemSize /\ ~Alike(stop)
  BY <1>8 DEF Stops
<1>10. ASSUME NEW i \in Nat, i < stop PROVE Alike(i)
  <2>1. i \notin Stops(s1, s2, 0)
    BY <1>8, <1>9, <1>10
  <2>2. s1 + i < MemSize /\ s2 + i < MemSize
    BY <1>2, <1>9, <1>10
  <2> QED
    BY <2>1, <2>2 DEF Stops
<1> HIDE DEF loop, stop
<1> DEFINE same == [i \in Nat |-> loop[0]]
           G == {i \in Nat : i <= stop => i \in D /\ loop[i] = loop[0]}
<1>11. 0 \in G
  BY <1>2
<1>12. ASSUME NEW i \in Nat, i \in G PROVE i + 1 \in G
  <2> SUFFICES ASSUME i + 1 <= stop PROVE i + 1 \in D /\ loop[i + 1] = loop[0]
    BY <1>12
  <2>1. i <= stop /\ i < stop
    BY <1>9
  <2>2. i \in D /\ loop[i] = loop[0]
    BY <1>12, <2>1
  <2>3. Alike(i)
    BY <1>10, <2>1
  <2>4. i + 1 \in D
    BY <1>4, <2>2, <2>3
  <2> HIDE DEF D, Alike
  <2>5. loop[i] = loop[i + 1]
    BY <1>7, <2>2, <2>3
  <2> QED
    BY <2>2, <2>4, <2>5
<1> HIDE DEF G, D, Alike
<1>13. Nat \subseteq G
  BY <1>11, <1>12, SetInduction
<1>14. stop \in D /\ loop[stop] = loop[0]
  <2>1. stop \in G /\ stop <= stop
    BY <1>9, <1>13
  <2> QED
    BY <2>1 DEF G
<1>15. loop[stop] = Difference(stop)
  BY <1>7, <1>9, <1>14
<1> QED
  BY <1>1, <1>14, <1>15 DEF stop

LEMMA SamePrefix ==
  ASSUME NEW S, NEW s \in Seq(S), NEW t \in Seq(S), NEW n \in Nat, n <= Len(s), n <= Len(t)
  PROVE  SubSeq(s, 1, n) = SubSeq(t, 1, n) <=> \A k \in 1 .. n : s[k] = t[k]
<1>1. /\ SubSeq(s, 1, n) = [k \in 1 .. n |-> s[k]]
      /\ SubSeq(t, 1, n) = [k \in 1 .. n |-> t[k]]
  OBVIOUS
<1> QED
  BY <1>1

(* The difference of the bytes there is the order of the strings.          *)
LEMMA OrderAtStop ==
  ASSUME NEW s1 \in Address, NEW s2 \in Address, NEW m \in [Address -> Bytes],
         Nuls(m, s1) # {}, Nuls(m, s2) # {},
         NEW stop \in Nat, s1 + stop < MemSize, s2 + stop < MemSize,
         m[s1 + stop] = NUL \/ m[s1 + stop] # m[s2 + stop],
         \A i \in 0 .. stop - 1 : m[s1 + i] # NUL /\ m[s1 + i] = m[s2 + i]
  PROVE  m[s1 + stop] > m[s2 + stop] <=> Above(StringIn(m, s1), StringIn(m, s2))
<1> DEFINE n1 == EndOf(m, s1) - s1
           n2 == EndOf(m, s2) - s2
           str1 == StringIn(m, s1)
           str2 == StringIn(m, s2)
<1>1. s1 \in Nat /\ s2 \in Nat /\ MemSize \in Nat /\ Bytes \subseteq Nat /\ Address \subseteq Nat
  BY CStringAssumption DEF Address
<1>2. /\ n1 \in Nat /\ s1 + n1 < MemSize /\ m[s1 + n1] = NUL
      /\ \A i \in 0 .. n1 - 1 : s1 + i \in Address /\ m[s1 + i] # NUL
      /\ str1 = [k \in 1 .. n1 |-> m[s1 + k - 1]]
  <2>1. /\ EndOf(m, s1) \in s1 .. MemSize - 1 /\ m[EndOf(m, s1)] = NUL
        /\ \A a \in s1 .. EndOf(m, s1) - 1 : a \in Address /\ m[a] # NUL
        /\ str1 = [k \in 1 .. n1 |-> m[s1 + k - 1]]
    BY <1>1, EndIs
  <2>2. n1 \in Nat /\ s1 + n1 = EndOf(m, s1) /\ s1 + n1 < MemSize
    BY <1>1, <2>1
  <2>3. \A i \in 0 .. n1 - 1 : s1 + i \in s1 .. EndOf(m, s1) - 1
    BY <1>1, <2>1
  <2> QED
    BY <2>1, <2>2, <2>3
<1>3. /\ n2 \in Nat /\ s2 + n2 < MemSize /\ m[s2 + n2] = NUL
      /\ \A i \in 0 .. n2 - 1 : s2 + i \in Address /\ m[s2 + i] # NUL
      /\ str2 = [k \in 1 .. n2 |-> m[s2 + k - 1]]
  <2>1. /\ EndOf(m, s2) \in s2 .. MemSize - 1 /\ m[EndOf(m, s2)] = NUL
        /\ \A a \in s2 .. EndOf(m, s2) - 1 : a \in Address /\ m[a] # NUL
        /\ str2 = [k \in 1 .. n2 |-> m[s2 + k - 1]]
    BY <1>1, EndIs
  <2>2. n2 \in Nat /\ s2 + n2 = EndOf(m, s2) /\ s2 + n2 < MemSize
    BY <1>1, <2>1
  <2>3. \A i \in 0 .. n2 - 1 : s2 + i \in s2 .. EndOf(m, s2) - 1
    BY <1>1, <2>1
  <2> QED
    BY <2>1, <2>2, <2>3
<1> HIDE DEF n1, n2, str1, str2
<1>4. str1 \in Seq(Nat) /\ Len(str1) = n1 /\ \A k \in 1 .. n1 : str1[k] = m[s1 + (k - 1)]
  <2>1. ASSUME NEW k \in 1 .. n1 PROVE m[s1 + k - 1] \in Nat /\ str1[k] = m[s1 + (k - 1)]
    <3>1. k - 1 \in 0 .. n1 - 1 /\ s1 + (k - 1) = s1 + k - 1
      BY <1>1, <1>2
    <3> QED
      BY <1>1, <1>2, <3>1
  <2>2. str1 \in [1 .. n1 -> Nat]
    BY <1>2, <2>1
  <2> QED
    BY <1>2, <2>1, <2>2
<1>5. str2 \in Seq(Nat) /\ Len(str2) = n2 /\ \A k \in 1 .. n2 : str2[k] = m[s2 + (k - 1)]
  <2>1. ASSUME NEW k \in 1 .. n2 PROVE m[s2 + k - 1] \in Nat /\ str2[k] = m[s2 + (k - 1)]
    <3>1. k - 1 \in 0 .. n2 - 1 /\ s2 + (k - 1) = s2 + k - 1
      BY <1>1, <1>3
    <3> QED
      BY <1>1, <1>3, <3>1
  <2>2. str2 \in [1 .. n2 -> Nat]
    BY <1>3, <2>1
  <2> QED
    BY <1>3, <2>1, <2>2
<1>6. stop <= n1 /\ stop <= n2
  <2>1. ASSUME n1 < stop PROVE FALSE
    BY <1>2, <2>1
  <2>2. ASSUME n2 < stop PROVE FALSE
    BY <1>3, <2>2
  <2> QED
    BY <1>2, <1>3, <2>1, <2>2
<1>7. m[s1 + stop] \in Nat /\ m[s2 + stop] \in Nat
  <2>1. s1 + stop \in Address /\ s2 + stop \in Address
    BY <1>1 DEF Address
  <2> QED
    BY <1>1, <2>1
<1>8. ASSUME m[s1 + stop] > m[s2 + stop] PROVE Above(str1, str2)
  <2>1. stop # n1
    BY <1>2, <1>7, <1>8 DEF NUL
  <2> DEFINE k == stop + 1
  <2>2. k \in 1 .. Len(str1) /\ k <= Len(str2) + 1 /\ k - 1 = stop
    BY <1>2, <1>3, <1>4, <1>5, <1>6, <2>1
  <2>3. SubSeq(str1, 1, k - 1) = SubSeq(str2, 1, k - 1)
    <3>1. ASSUME NEW l \in 1 .. stop PROVE str1[l] = str2[l]
      <4>1. l \in 1 .. n1 /\ l \in 1 .. n2 /\ l - 1 \in 0 .. stop - 1
        BY <1>2, <1>3, <1>6
      <4> QED
        BY <1>4, <1>5, <4>1
    <3>2. stop <= Len(str1) /\ stop <= Len(str2)
      BY <1>4, <1>5, <1>6
    <3>3. SubSeq(str1, 1, stop) = SubSeq(str2, 1, stop)
      BY <1>4, <1>5, <3>1, <3>2, SamePrefix
    <3> QED
      BY <2>2, <3>3
  <2>4. ASSUME k <= Len(str2) PROVE str1[k] > str2[k]
    <3>1. k \in 1 .. n1 /\ k \in 1 .. n2 /\ k - 1 = stop
      BY <1>4, <1>5, <2>2, <2>4
    <3> HIDE DEF k
    <3> QED
      BY <1>4, <1>5, <1>8, <3>1
  <2> HIDE DEF k
  <2> QED
    BY <2>2, <2>3, <2>4 DEF Above
<1>9. ASSUME Above(str1, str2) PROVE m[s1 + stop] > m[s2 + stop]
  <2>1. PICK k \in 1 .. Len(str1) :
          /\ k <= Len(str2) + 1
          /\ SubSeq(str1, 1, k - 1) = SubSeq(str2, 1, k - 1)
          /\ k <= Len(str2) => str1[k] > str2[k]
    BY <1>9 DEF Above
  <2>2. k \in Nat \ {0} /\ k - 1 \in Nat /\ k <= n1 /\ k - 1 <= n2
        /\ k - 1 <= Len(str1) /\ k - 1 <= Len(str2)
    BY <1>2, <1>3, <1>4, <1>5, <2>1
  <2>3. \A l \in 1 .. k - 1 : str1[l] = str2[l]
    BY <1>4, <1>5, <2>1, <2>2, SamePrefix
  <2>4. ASSUME NEW i \in 0 .. k - 2 PROVE m[s1 + i] # NUL /\ m[s1 + i] = m[s2 + i]
    <3>1. i + 1 \in 1 .. k - 1 /\ i + 1 \in 1 .. n1 /\ i + 1 \in 1 .. n2 /\ (i + 1) - 1 = i
          /\ i \in 0 .. n1 - 1
      BY <1>2, <1>3, <2>2
    <3>2. str1[i + 1] = m[s1 + i] /\ str2[i + 1] = m[s2 + i]
      BY <1>4, <1>5, <3>1
    <3> QED
      BY <1>2, <2>3, <3>1, <3>2
  <2>5. m[s1 + (k - 1)] > m[s2 + (k - 1)]
    <3>1. str1[k] = m[s1 + (k - 1)] /\ m[s1 + (k - 1)] # NUL /\ m[s1 + (k - 1)] \in Nat
      <4>1. k \in 1 .. n1 /\ k - 1 \in 0 .. n1 - 1
        BY <1>2, <2>2
      <4> QED
        BY <1>1, <1>2, <1>4, <4>1
    <3>2. CASE k <= n2
      <4>1. k \in 1 .. n2
        BY <1>3, <2>2, <3>2
      <4> QED
        BY <1>5, <2>1, <3>1, <3>2, <4>1
    <3>3. CASE k - 1 = n2
      BY <1>3, <3>1, <3>3 DEF NUL
    <3> QED
      BY <1>3, <2>2, <3>2, <3>3
  <2>6. k - 1 = stop
    <3>1. ASSUME stop < k - 1 PROVE FALSE
      <4>1. stop \in 0 .. k - 2
        BY <2>2, <3>1
      <4> QED
        BY <2>4, <4>1
    <3>2. ASSUME k - 1 < stop PROVE FALSE
      <4>1. k - 1 \in 0 .. stop - 1
        BY <2>2, <3>2
      <4>2. m[s1 + (k - 1)] = m[s2 + (k - 1)] /\ m[s1 + (k - 1)] \in Nat
        <5>1. s1 + (k - 1) \in Address
          BY <1>1, <2>2, <3>2 DEF Address
        <5> QED
          BY <1>1, <4>1, <5>1
      <4> QED
        BY <2>5, <4>2
    <3> QED
      BY <2>2, <3>1, <3>2
  <2> QED
    BY <2>5, <2>6
<1> QED
  BY <1>8, <1>9 DEF str1, str2

-----------------------------------------------------------------------------

MemTyped == mem \in [Address -> Bytes]

LEMMA MemcpySpecified ==
  ASSUME MemTyped, NEW s1 \in Address, NEW s2 \in Address, NEW n \in Nat, Memcpy(s1, s2, n)
  PROVE  StringsAsSpecified'
<1>1. mem' = Written(mem, s1, n, [k \in Nat |-> mem[s2 + k]])
  BY MemcpyCopies DEF MemTyped
<1>2. call' = [fn |-> "memcpy", s1 |-> s1, s2 |-> s2, n |-> n, c |-> NUL,
               before |-> mem, ret |-> s1]
  BY DEF Memcpy, Returns
<1>3. mem' = [a \in Address |-> IF a \in s1 .. s1 + n - 1 THEN mem[s2 + (a - s1)] ELSE mem[a]]
  <2>1. \A a \in Address : a \in s1 .. s1 + n - 1 => a - s1 \in Nat
    BY CStringAssumption DEF Address
  <2> QED
    BY <1>1, <2>1 DEF Written
<1> QED
  BY <1>2, <1>3 DEF StringsAsSpecified, Wrote

LEMMA MemsetSpecified ==
  ASSUME MemTyped, NEW s \in Address, NEW c \in Int, NEW n \in Nat, Memset(s, c, n)
  PROVE  StringsAsSpecified'
<1>1. mem' = Written(mem, s, n, [k \in Nat |-> (c % 256)])
  BY MemsetFills DEF MemTyped
<1>2. call' = [fn |-> "memset", s1 |-> s, s2 |-> s, n |-> n, c |-> c,
               before |-> mem, ret |-> s]
  BY DEF Memset, Returns
<1>3. mem' = [a \in Address |-> IF a \in s .. s + n - 1 THEN (c % 256) ELSE mem[a]]
  <2>1. \A a \in Address : a \in s .. s + n - 1 => a - s \in Nat
    BY CStringAssumption DEF Address
  <2> QED
    BY <1>1, <2>1 DEF Written
<1> QED
  BY <1>2, <1>3 DEF StringsAsSpecified, Wrote

LEMMA StrncpySpecified ==
  ASSUME MemTyped, NEW s1 \in Address, NEW s2 \in Address, NEW n \in Nat, Strncpy(s1, s2, n)
  PROVE  StringsAsSpecified'
<1>1. mem' = Written(mem, s1, n, [k \in Nat |->
               IF \E j \in 0 .. k : mem[s2 + j] = NUL THEN NUL ELSE mem[s2 + k]])
  BY StrncpyFills DEF MemTyped
<1>2. call' = [fn |-> "strncpy", s1 |-> s1, s2 |-> s2, n |-> n, c |-> NUL,
               before |-> mem, ret |-> s1]
  BY DEF Strncpy, Returns
<1>3. mem' = [a \in Address |->
               IF a \in s1 .. s1 + n - 1
                 THEN IF \E j \in 0 .. a - s1 : mem[s2 + j] = NUL THEN NUL ELSE mem[s2 + (a - s1)]
                 ELSE mem[a]]
  <2>1. \A a \in Address : a \in s1 .. s1 + n - 1 => a - s1 \in Nat
    BY CStringAssumption DEF Address
  <2> QED
    BY <1>1, <2>1 DEF Written
<1> QED
  BY <1>2, <1>3 DEF StringsAsSpecified, Wrote

LEMMA StrlenSpecified ==
  ASSUME MemTyped, NEW str \in Address, Strlen(str)
  PROVE  StringsAsSpecified'
<1> DEFINE n == EndOf(mem, str) - str
<1>1. call'.ret = n
  BY StrlenCounts
<1>2. call' = [fn |-> "strlen", s1 |-> str, s2 |-> str, n |-> 0, c |-> NUL,
               before |-> mem, ret |-> call'.ret]
  BY DEF Strlen, Returns
<1>3. str \in Nat /\ Nuls(mem, str) # {}
  BY CStringAssumption DEF Address, Strlen, Terminated, Nuls
<1>4. /\ EndOf(mem, str) \in str .. MemSize - 1
      /\ StringIn(mem, str) = [k \in 1 .. n |-> mem[str + k - 1]]
  BY <1>3, EndIs
<1>5. n \in Nat
  BY <1>3, <1>4, CStringAssumption
<1> HIDE DEF n
<1>6. Len(StringIn(mem, str)) = n
  BY <1>4, <1>5
<1>7. call'.fn = "strlen" /\ call'.s1 = str /\ call'.before = mem
  BY <1>2
<1> QED
  BY <1>1, <1>6, <1>7 DEF StringsAsSpecified

LEMMA StrcmpSpecified ==
  ASSUME MemTyped, NEW s1 \in Address, NEW s2 \in Address, Strcmp(s1, s2)
  PROVE  StringsAsSpecified'
<1> DEFINE stop == StopOf(s1, s2, 0)
           ret == mem[s1 + stop] - mem[s2 + stop]
<1>1. call'.ret = ret
  BY StrcmpStops
<1>2. call'.fn = "strcmp" /\ call'.s1 = s1 /\ call'.s2 = s2 /\ call'.before = mem
  BY DEF Strcmp, Returns
<1>3. /\ s1 \in Nat /\ s2 \in Nat /\ MemSize \in Nat /\ Bytes \subseteq Nat
      /\ Terminated(s1 + 0) /\ Terminated(s2 + 0)
      /\ Nuls(mem, s1) # {} /\ Nuls(mem, s2) # {}
  BY CStringAssumption DEF Address, Strcmp, Terminated, Nuls
<1>4. stop \in Stops(s1, s2, 0) /\ \A b \in Stops(s1, s2, 0) : stop <= b
  <2>1. Stops(s1, s2, 0) \in SUBSET Nat /\ Stops(s1, s2, 0) # {}
    BY <1>3, StopsSomewhere DEF Stops
  <2> QED
    BY <2>1, SmallestExists DEF StopOf
<1> HIDE DEF stop
<1>5. /\ stop \in Nat /\ s1 + stop < MemSize /\ s2 + stop < MemSize
      /\ mem[s1 + stop] = NUL \/ mem[s1 + stop] # mem[s2 + stop]
      /\ mem[s2 + stop] = NUL \/ mem[s2 + stop] # mem[s1 + stop]
  BY <1>4 DEF Stops
<1>6. \A i \in 0 .. stop - 1 : mem[s1 + i] # NUL /\ mem[s1 + i] = mem[s2 + i]
  <2> SUFFICES ASSUME NEW i \in 0 .. stop - 1
               PROVE  mem[s1 + i] # NUL /\ mem[s1 + i] = mem[s2 + i]
    OBVIOUS
  <2>1. i \in Nat /\ i \notin Stops(s1, s2, 0)
    BY <1>4, <1>5
  <2>2. s1 + i < MemSize /\ s2 + i < MemSize
    BY <1>3, <1>5
  <2> QED
    BY <2>1, <2>2 DEF Stops
<1>7. \A i \in 0 .. stop - 1 : mem[s2 + i] # NUL /\ mem[s2 + i] = mem[s1 + i]
  BY <1>6
<1>8. mem[s1 + stop] > mem[s2 + stop] <=> Above(StringIn(mem, s1), StringIn(mem, s2))
  BY <1>3, <1>5, <1>6, OrderAtStop DEF MemTyped
<1>9. mem[s2 + stop] > mem[s1 + stop] <=> Above(StringIn(mem, s2), StringIn(mem, s1))
  BY <1>3, <1>5, <1>7, OrderAtStop DEF MemTyped
<1>10. mem[s1 + stop] \in Int /\ mem[s2 + stop] \in Int
  <2>1. s1 + stop \in Address /\ s2 + stop \in Address
    BY <1>3, <1>5 DEF Address
  <2>2. mem[s1 + stop] \in Bytes /\ mem[s2 + stop] \in Bytes
    BY <2>1 DEF MemTyped
  <2>3. Bytes \subseteq Int
    BY CStringAssumption
  <2> QED
    BY <2>2, <2>3
<1>11. /\ ret > 0 <=> Above(StringIn(mem, s1), StringIn(mem, s2))
       /\ ret < 0 <=> Above(StringIn(mem, s2), StringIn(mem, s1))
  BY <1>8, <1>9, <1>10
<1> HIDE DEF ret
<1> QED
  BY <1>1, <1>2, <1>11 DEF StringsAsSpecified

(* A copied byte is a byte. *)
LEMMA WrittenTyped ==
  ASSUME NEW m \in [Address -> Bytes], NEW s1 \in Address, NEW n \in Nat, NEW byte,
         \A i \in 0 .. n - 1 : byte[i] \in Bytes
  PROVE  Written(m, s1, n, byte) \in [Address -> Bytes]
<1>1. ASSUME NEW a \in Address, a \in s1 .. s1 + n - 1 PROVE a - s1 \in 0 .. n - 1
  BY <1>1, CStringAssumption DEF Address
<1> QED
  BY <1>1 DEF Written

LEMMA NextStringTyped == ASSUME MemTyped, NextString PROVE MemTyped'
<1>1. PICK s1 \in Address :
        \/ Strlen(s1)
        \/ \E n \in 0 .. MemSize, c \in Bytes, sign \in {0, -256} : Memset(s1, c + sign, n)
        \/ \E s2 \in Address :
             \/ Strcmp(s1, s2)
             \/ \E n \in 0 .. MemSize : Memcpy(s1, s2, n) \/ Strncpy(s1, s2, n)
  BY DEF NextString
<1>2. CASE Strlen(s1)
  BY <1>2 DEF Strlen, MemTyped
<1>3. ASSUME NEW n \in 0 .. MemSize, NEW c \in Bytes, NEW sign \in {0, -256},
             Memset(s1, c + sign, n)
      PROVE  MemTyped'
  <2>1. c \in 0 .. 255 /\ c + sign \in Int /\ n \in Nat
    BY CStringAssumption
  <2>2. ((c + sign) % 256) = c
    BY <2>1
  <2> DEFINE byte == [k \in Nat |-> ((c + sign) % 256)]
  <2>3. mem' = Written(mem, s1, n, byte)
    BY <1>3, <2>1, MemsetFills DEF MemTyped
  <2>4. \A i \in 0 .. n - 1 : byte[i] \in Bytes
    BY <2>2
  <2> HIDE DEF byte
  <2> QED
    BY <2>1, <2>3, <2>4, WrittenTyped DEF MemTyped
<1>4. ASSUME NEW s2 \in Address, Strcmp(s1, s2) PROVE MemTyped'
  BY <1>4 DEF Strcmp, MemTyped
<1>5. ASSUME NEW s2 \in Address, NEW n \in 0 .. MemSize, Memcpy(s1, s2, n) PROVE MemTyped'
  <2> DEFINE byte == [k \in Nat |-> mem[s2 + k]]
  <2>1. n \in Nat
    BY CStringAssumption
  <2>2. mem' = Written(mem, s1, n, byte)
    BY <1>5, <2>1, MemcpyCopies DEF MemTyped
  <2>3. \A i \in 0 .. n - 1 : byte[i] \in Bytes
    BY <1>5, <2>1, CStringAssumption DEF Memcpy, Exists, Address, MemTyped
  <2> HIDE DEF byte
  <2> QED
    BY <2>1, <2>2, <2>3, WrittenTyped DEF MemTyped
<1>6. ASSUME NEW s2 \in Address, NEW n \in 0 .. MemSize, Strncpy(s1, s2, n) PROVE MemTyped'
  <2> DEFINE byte == [k \in Nat |->
               IF \E j \in 0 .. k : mem[s2 + j] = NUL THEN NUL ELSE mem[s2 + k]]
  <2>1. n \in Nat
    BY CStringAssumption
  <2>2. mem' = Written(mem, s1, n, byte)
    BY <1>6, <2>1, StrncpyFills DEF MemTyped
  <2>3. \A i \in 0 .. n - 1 : byte[i] \in Bytes
    <3>1. \A i \in 0 .. n - 1 : i \in Nat /\ mem[s2 + i] \in Bytes
      BY <1>6, <2>1, CStringAssumption DEF Strncpy, Exists, Address, MemTyped
    <3> QED
      BY <3>1, CStringAssumption
  <2> HIDE DEF byte
  <2> QED
    BY <2>1, <2>2, <2>3, WrittenTyped DEF MemTyped
<1> QED
  BY <1>1, <1>2, <1>3, <1>4, <1>5, <1>6

LEMMA NextStringSpecified == ASSUME MemTyped, NextString PROVE StringsAsSpecified'
<1>1. PICK s1 \in Address :
        \/ Strlen(s1)
        \/ \E n \in 0 .. MemSize, c \in Bytes, sign \in {0, -256} : Memset(s1, c + sign, n)
        \/ \E s2 \in Address :
             \/ Strcmp(s1, s2)
             \/ \E n \in 0 .. MemSize : Memcpy(s1, s2, n) \/ Strncpy(s1, s2, n)
  BY DEF NextString
<1>2. \A n \in 0 .. MemSize : n \in Nat
  BY CStringAssumption
<1>3. \A c \in Bytes, sign \in {0, -256} : c + sign \in Int
  BY CStringAssumption
<1> QED
  BY <1>1, <1>2, <1>3, MemcpySpecified, MemsetSpecified, StrncpySpecified, StrlenSpecified,
     StrcmpSpecified

LEMMA PrintKeepsStrings == ASSUME PrintStep PROVE UNCHANGED stringVars
BY DEF PrintStep, PlainChar, Return, Percent, ParseZeroPadWidth, ConvertLong, ConvertChar,
       ConvertInt, ConvertHex, ConvertString, ConvertPercent, ConvertDefault, Fetched, Converted

(* The functions of string.c do what string.h says of them, for every      *)
(* memory, and every pointer and length that C's rules allow: memcpy and   *)
(* strncpy write their n bytes and no other, strncpy fills up with NUL,    *)
(* memset writes the low byte of its argument, strlen counts up to the     *)
(* first NUL and the sign of strcmp is the order of the strings.           *)
THEOREM StringsCorrect == PrintSpec => []StringsAsSpecified
<1> DEFINE Ind == MemTyped /\ StringsAsSpecified
<1>1. PrintInit => Ind
  BY CStringAssumption DEF PrintInit, InitString, MemTyped, StringsAsSpecified
<1>2. Ind /\ [PrintNext]_kprintfVars => Ind'
  <2> SUFFICES ASSUME Ind, [PrintNext]_kprintfVars PROVE Ind'
    OBVIOUS
  <2>1. CASE NextString
    BY <2>1, NextStringTyped, NextStringSpecified
  <2>2. CASE UNCHANGED stringVars
    BY <2>2 DEF stringVars, MemTyped, StringsAsSpecified, Wrote
  <2>3. CASE call' = NoCall /\ UNCHANGED mem
    BY <2>3 DEF MemTyped, StringsAsSpecified
  <2>4. CASE PrintStep
    BY <2>2, <2>4, PrintKeepsStrings
  <2>5. ASSUME NEW items, Kprintf(items) PROVE call' = NoCall /\ UNCHANGED mem
    BY <2>5 DEF Kprintf
  <2> QED
    BY <2>1, <2>2, <2>3, <2>4, <2>5 DEF PrintNext, kprintfVars
<1> QED
  BY <1>1, <1>2, PTL DEF PrintSpec

-----------------------------------------------------------------------------
(* The loops over a number. *)

LEMMA DigitByte == ASSUME NEW d PROVE Digit(d) \in Byte
BY DEF Digit, DIGIT_0, UPPER_A, NUL, Byte

LEMMA DigitCountRounds ==
  ASSUME NEW b \in {10, 16}
  PROVE  \A n \in Nat : /\ DigitCount(n, b) \in Nat \ {0}
                        /\ DigitCount(n, b) = IF n < b THEN 1 ELSE 1 + DigitCount(n \div b, b)
<1> DEFINE Phi(f) == f = [n \in Nat |-> IF n < b THEN 1 ELSE 1 + f[n \div b]]
           count == CHOOSE f : Phi(f)
<1>1. \A n : DigitCount(n, b) = count[n]
  BY Zenon DEF DigitCount
<1>2. PICK f \in [Nat -> Nat \ {0}] :
        \A n \in Nat : f[n] = IF n < b THEN 1 ELSE 1 + f[n \div b]
  <2> DEFINE S == Nat \ {0}
             leaf == [n \in Nat |-> 1]
             node == [x \in S \X Nat |-> 1 + x[1]]
  <2>1. leaf \in [Nat -> S] /\ node \in [S \X Nat -> S]
    OBVIOUS
  <2>2. \A n \in Nat : leaf[n] = 1
    OBVIOUS
  <2>3. \A s \in S, n \in Nat : node[<<s, n>>] = 1 + s
    OBVIOUS
  <2> HIDE DEF S, leaf, node
  <2>4. PICK f : DivSolution(f, S, b, leaf, node)
    BY <2>1, DivRecursion
  <2>5. ASSUME NEW n \in Nat PROVE f[n] = IF n < b THEN 1 ELSE 1 + f[n \div b]
    <3>1. CASE n < b
      BY <2>2, <2>4, <3>1 DEF DivSolution
    <3>2. CASE ~(n < b)
      <4>1. n \div b \in Nat
        BY <3>2, DivSmaller
      <4>2. f[n \div b] \in S
        BY <4>1, <2>4 DEF DivSolution
      <4> QED
        BY <2>3, <2>4, <3>2, <4>2 DEF DivSolution
    <3> QED
      BY <3>1, <3>2
  <2> QED
    BY <2>4, <2>5 DEF S, DivSolution
<1>3. Phi(f)
  BY <1>2
<1>4. Phi(count)
  <2> HIDE DEF Phi
  <2> QED
    BY <1>3
<1>5. ASSUME NEW n \in Nat PROVE count[n] = IF n < b THEN 1 ELSE 1 + count[n \div b]
  BY <1>4
<1> HIDE DEF count
<1> DEFINE G == {n \in Nat : count[n] \in Nat \ {0}}
<1>6. ASSUME NEW n \in Nat, \A m \in 0 .. n - 1 : m \in G PROVE n \in G
  <2>1. CASE n < b
    BY <1>5, <2>1
  <2>2. CASE ~(n < b)
    <3> PICK q : q = n \div b
      OBVIOUS
    <3>1. q \in Nat /\ q < n
      BY <2>2, DivSmaller
    <3>2. q \in 0 .. n - 1
      BY <3>1
    <3>3. count[q] \in Nat \ {0}
      BY <1>6, <3>2
    <3> QED
      BY <1>5, <2>2, <3>3
  <2> QED
    BY <2>1, <2>2
<1>7. Nat \subseteq G
  <2> HIDE DEF G
  <2> QED
    BY <1>6, StrongInduction
<1>8. \A n \in Nat : count[n] \in Nat \ {0}
  BY <1>7
<1> QED
  BY <1>1, <1>5, <1>8

LEMMA NumeralStep ==
  ASSUME NEW b \in {10, 16}
  PROVE  \A n \in Nat :
           /\ Numeral(n, b) \in Seq(Byte)
           /\ n < b => Numeral(n, b) = <<Digit(n)>>
           /\ n >= b => Numeral(n, b) = Append(Numeral(n \div b, b), Digit(n % b))
<1> DEFINE S == Seq(Byte)
           Phi(f) == f = [m \in Nat |-> IF m < b THEN <<Digit(m)>>
                                        ELSE Append(f[m \div b], Digit(m % b))]
           numeral == CHOOSE f : Phi(f)
<1>1. \A n : Numeral(n, b) = numeral[n]
  BY Zenon DEF Numeral
<1>2. PICK f \in [Nat -> S] :
        \A n \in Nat : f[n] = IF n < b THEN <<Digit(n)>> ELSE Append(f[n \div b], Digit(n % b))
  <2> DEFINE leaf == [n \in Nat |-> <<Digit(n)>>]
             node == [x \in S \X Nat |-> Append(x[1], Digit(x[2] % b))]
  <2>1. leaf \in [Nat -> S]
    <3>1. \A n \in Nat : <<Digit(n)>> \in S
      BY DigitByte
    <3> QED
      BY <3>1
  <2>2. node \in [S \X Nat -> S]
    <3>1. \A x \in S \X Nat : Append(x[1], Digit(x[2] % b)) \in S
      <4> SUFFICES ASSUME NEW s \in S, NEW n PROVE Append(s, Digit(n % b)) \in S
        OBVIOUS
      <4> QED
        BY DigitByte
    <3> HIDE DEF S
    <3> QED
      BY <3>1
  <2>3. \A n \in Nat : leaf[n] = <<Digit(n)>>
    OBVIOUS
  <2>4. \A s \in S, n \in Nat : node[<<s, n>>] = Append(s, Digit(n % b))
    OBVIOUS
  <2> HIDE DEF S, leaf, node
  <2>5. PICK f : DivSolution(f, S, b, leaf, node)
    BY <2>1, <2>2, DivRecursion
  <2>6. ASSUME NEW n \in Nat
        PROVE  f[n] = IF n < b THEN <<Digit(n)>> ELSE Append(f[n \div b], Digit(n % b))
    <3>1. CASE n < b
      BY <2>3, <2>5, <3>1 DEF DivSolution
    <3>2. CASE ~(n < b)
      <4>1. n \div b \in Nat
        BY <3>2, DivSmaller
      <4>2. f[n \div b] \in S
        BY <4>1, <2>5 DEF DivSolution
      <4> QED
        BY <2>4, <2>5, <3>2, <4>2 DEF DivSolution
    <3> QED
      BY <3>1, <3>2
  <2> QED
    BY <2>5, <2>6 DEF DivSolution
<1>3. Phi(f)
  <2> HIDE DEF S
  <2> QED
    BY <1>2
<1>4. Phi(numeral)
  <2> HIDE DEF Phi
  <2> QED
    BY <1>3
<1>5. ASSUME NEW n \in Nat
      PROVE  numeral[n] = IF n < b THEN <<Digit(n)>> ELSE Append(numeral[n \div b], Digit(n % b))
  BY <1>4
<1> HIDE DEF numeral
<1> DEFINE G == {n \in Nat : numeral[n] \in S}
<1>6. ASSUME NEW n \in Nat, \A m \in 0 .. n - 1 : m \in G PROVE n \in G
  <2>1. CASE n < b
    <3>1. <<Digit(n)>> \in S
      BY DigitByte
    <3> QED
      BY <1>5, <2>1, <3>1
  <2>2. CASE ~(n < b)
    <3> PICK q : q = n \div b
      OBVIOUS
    <3>1. q \in Nat /\ q < n
      BY <2>2, DivSmaller
    <3>2. q \in 0 .. n - 1
      BY <3>1
    <3>3. numeral[q] \in S
      BY <1>6, <3>2
    <3>4. Append(numeral[q], Digit(n % b)) \in S
      BY <3>3, DigitByte
    <3> QED
      BY <1>5, <2>2, <3>4
  <2> QED
    BY <2>1, <2>2
<1>7. Nat \subseteq G
  <2> HIDE DEF G
  <2> QED
    BY <1>6, StrongInduction
<1>8. \A n \in Nat : numeral[n] \in S
  BY <1>7
<1>9. \A n \in Nat : n >= b <=> ~(n < b)
  OBVIOUS
<1> QED
  BY <1>1, <1>5, <1>8, <1>9

Divided(left, number, b) ==
  /\ \A i : Quotient(number, b, i) = left[i]
  /\ left[0] = number
  /\ \A i \in Nat : left[i] \in Nat
  /\ \A i \in Nat : left[i + 1] = left[i] \div b

LEMMA QuotientLoop ==
  ASSUME NEW number \in Nat, NEW b \in {10, 16}
  PROVE  \E left : Divided(left, number, b)
<1> DEFINE Phi(f) == f = [k \in Nat |-> IF k = 0 THEN number ELSE f[k - 1] \div b]
           left == CHOOSE f : Phi(f)
<1>1. \A i : Quotient(number, b, i) = left[i]
  BY Zenon DEF Quotient
<1> DEFINE node == [x \in Nat \X Nat |-> x[1] \div b]
<1>2. node \in [Nat \X Nat -> Nat]
  OBVIOUS
<1>3. \A m, n \in Nat : node[<<m, n>>] = m \div b
  OBVIOUS
<1> HIDE DEF node
<1>4. PICK f : StepSolution(f, Nat, number, node)
  BY <1>2, StepRecursion
<1>5. ASSUME NEW k \in Nat PROVE f[k] = IF k = 0 THEN number ELSE f[k - 1] \div b
  <2>1. CASE k = 0
    BY <1>4, <2>1 DEF StepSolution
  <2>2. CASE k # 0
    <3>1. k - 1 \in Nat
      BY <2>2
    <3>2. f[k - 1] \in Nat
      BY <1>4, <3>1 DEF StepSolution
    <3> QED
      BY <1>3, <1>4, <2>2, <3>2 DEF StepSolution
  <2> QED
    BY <2>1, <2>2
<1>6. f = [k \in Nat |-> f[k]]
  BY <1>4 DEF StepSolution
<1>7. Phi(f)
  BY <1>5, <1>6
<1>8. Phi(left)
  <2> HIDE DEF Phi
  <2> QED
    BY <1>7
<1>9. \A k \in Nat : left[k] = IF k = 0 THEN number ELSE left[k - 1] \div b
  BY <1>8
<1> HIDE DEF left
<1>10. \A i \in Nat : left[i + 1] = left[i] \div b
  <2> SUFFICES ASSUME NEW i \in Nat PROVE left[i + 1] = left[i] \div b
    OBVIOUS
  <2>1. i + 1 \in Nat /\ i + 1 # 0 /\ (i + 1) - 1 = i
    OBVIOUS
  <2> QED
    BY <1>9, <2>1
<1> DEFINE G == {i \in Nat : left[i] \in Nat}
<1>11. 0 \in G
  BY <1>9
<1>12. ASSUME NEW i \in Nat, i \in G PROVE i + 1 \in G
  BY <1>10, <1>12
<1>13. Nat \subseteq G
  <2> HIDE DEF G
  <2> QED
    BY <1>11, <1>12, SetInduction
<1>14. \A i \in Nat : left[i] \in Nat
  BY <1>13
<1>15. left[0] = number
  BY <1>9
<1>16. Divided(left, number, b)
  BY <1>1, <1>10, <1>14, <1>15 DEF Divided
<1> QED
  BY <1>16

LEMMA QuotientStep ==
  ASSUME NEW number \in Nat, NEW b \in {10, 16}
  PROVE  /\ Quotient(number, b, 0) = number
         /\ \A i \in Nat : Quotient(number, b, i) \in Nat
<1> PICK left : Divided(left, number, b)
  BY QuotientLoop
<1> QED
  BY DEF Divided

LEMMA QuotientNext ==
  ASSUME NEW number \in Nat, NEW b \in {10, 16}, NEW i \in Nat, NEW j, j = i + 1
  PROVE  Quotient(number, b, j) = Quotient(number, b, i) \div b
<1> PICK left : Divided(left, number, b)
  BY QuotientLoop
<1> QED
  BY DEF Divided

(* Dividing first or last.                                                 *)
LEMMA QuotientOfQuotient ==
  ASSUME NEW number \in Nat, NEW b \in {10, 16}, NEW i \in Nat, NEW j, j = i + 1
  PROVE  Quotient(number, b, j) = Quotient(number \div b, b, i)
<1> PICK q : q = number \div b
  OBVIOUS
<1>1. q \in Nat
  OBVIOUS
<1> DEFINE G == {k \in Nat : \A l : l = k + 1 => Quotient(number, b, l) = Quotient(q, b, k)}
<1>2. 0 \in G
  <2> SUFFICES ASSUME NEW l, l = 0 + 1 PROVE Quotient(number, b, l) = Quotient(q, b, 0)
    OBVIOUS
  <2>1. Quotient(number, b, l) = Quotient(number, b, 0) \div b
    BY QuotientNext
  <2>2. Quotient(q, b, 0) = q /\ Quotient(number, b, 0) = number
    BY <1>1, QuotientStep
  <2> QED
    BY <2>1, <2>2
<1>3. ASSUME NEW k \in Nat, k \in G PROVE k + 1 \in G
  <2> PICK m \in Nat : m = k + 1
    OBVIOUS
  <2> SUFFICES ASSUME NEW l, l = m + 1 PROVE Quotient(number, b, l) = Quotient(q, b, m)
    OBVIOUS
  <2>1. Quotient(number, b, l) = Quotient(number, b, m) \div b
    BY QuotientNext
  <2>2. Quotient(q, b, m) = Quotient(q, b, k) \div b
    BY <1>1, QuotientNext
  <2>3. Quotient(number, b, m) = Quotient(q, b, k)
    BY <1>3
  <2> QED
    BY <2>1, <2>2, <2>3
<1>4. Nat \subseteq G
  <2> HIDE DEF G
  <2> QED
    BY <1>2, <1>3, SetInduction
<1> QED
  BY <1>4

(* A numeral has a digit for each round of the loops; its digit at i from  *)
(* the end is the last one of the number divided i times.                  *)
LEMMA NumeralDigits ==
  ASSUME NEW b \in {10, 16}
  PROVE  \A n \in Nat :
           /\ Len(Numeral(n, b)) = DigitCount(n, b)
           /\ \A i \in 0 .. DigitCount(n, b) - 1 :
                Numeral(n, b)[DigitCount(n, b) - i] = Digit(Quotient(n, b, i) % b)
<1> DEFINE Fits(n) == /\ Len(Numeral(n, b)) = DigitCount(n, b)
                      /\ \A i \in 0 .. DigitCount(n, b) - 1 :
                           Numeral(n, b)[DigitCount(n, b) - i] = Digit(Quotient(n, b, i) % b)
           G == {n \in Nat : Fits(n)}
<1>1. ASSUME NEW n \in Nat, \A m \in 0 .. n - 1 : m \in G PROVE n \in G
  <2> PICK s : s = Numeral(n, b)
    OBVIOUS
  <2> PICK c : c = DigitCount(n, b)
    OBVIOUS
  <2>1. c \in Nat \ {0} /\ c = IF n < b THEN 1 ELSE 1 + DigitCount(n \div b, b)
    BY DigitCountRounds
  <2>2. CASE n < b
    <3>1. s = <<Digit(n)>> /\ c = 1
      BY <2>1, <2>2, NumeralStep
    <3>2. Quotient(n, b, 0) = n
      BY QuotientStep
    <3>3. n % b = n
      <4>1. CASE b = 10
        BY <2>2, <4>1
      <4>2. CASE b = 16
        BY <2>2, <4>2
      <4> QED
        BY <4>1, <4>2
    <3>4. \A i \in 0 .. c - 1 : i = 0 /\ c - i = 1
      BY <3>1
    <3>5. Len(s) = c /\ \A i \in 0 .. c - 1 : s[c - i] = Digit(Quotient(n, b, i) % b)
      BY <3>1, <3>2, <3>3, <3>4
    <3> QED
      BY <3>5
  <2>3. CASE ~(n < b)
    <3> PICK q : q = n \div b
      OBVIOUS
    <3> PICK t : t = Numeral(q, b)
      OBVIOUS
    <3> PICK d : d = DigitCount(q, b)
      OBVIOUS
    <3>1. n >= b
      BY <2>3
    <3>2. q \in Nat /\ q < n
      BY <3>1, DivSmaller
    <3>3. q \in 0 .. n - 1
      BY <3>2
    <3>4. Len(t) = d /\ \A i \in 0 .. d - 1 : t[d - i] = Digit(Quotient(q, b, i) % b)
      BY <1>1, <3>3
    <3>5. s = Append(t, Digit(n % b)) /\ t \in Seq(Byte) /\ d \in Nat \ {0} /\ c = 1 + d
      BY <2>1, <2>3, <3>1, <3>2, NumeralStep, DigitCountRounds
    <3>6. /\ Len(s) = c /\ s[c] = Digit(n % b)
          /\ \A k \in 1 .. d : s[k] = t[k]
      BY <3>4, <3>5, DigitByte
    <3>7. ASSUME NEW i \in 0 .. c - 1 PROVE s[c - i] = Digit(Quotient(n, b, i) % b)
      <4>1. CASE i = 0
        <5>1. Quotient(n, b, 0) = n
          BY QuotientStep
        <5>2. c - i = c
          BY <3>5, <4>1
        <5> QED
          BY <3>6, <4>1, <5>1, <5>2
      <4>2. CASE i # 0
        <5> PICK j : j = i - 1
          OBVIOUS
        <5>1. j \in 0 .. d - 1 /\ i = j + 1 /\ c - i = d - j /\ j \in Nat /\ d - j \in 1 .. d
          BY <3>5, <4>2
        <5>2. Quotient(n, b, i) = Quotient(n \div b, b, j)
          BY <5>1, QuotientOfQuotient
        <5> QED
          BY <3>4, <3>6, <5>1, <5>2
      <4> QED
        BY <4>1, <4>2
    <3> QED
      BY <3>6, <3>7
  <2> QED
    BY <2>2, <2>3
<1>2. Nat \subseteq G
  <2> HIDE DEF G
  <2> QED
    BY <1>1, StrongInduction
<1> QED
  BY <1>2

(* Decimal digits leave in the order in which the division yields them.    *)
LEMMA ULongIs ==
  ASSUME NEW number \in Nat
  PROVE  /\ ULong(number) = Reverse(Numeral(number, 10))
         /\ ULong(number) \in Seq(Byte)
         /\ Len(ULong(number)) = DigitCount(number, 10)
<1> PICK s : s = Numeral(number, 10)
  OBVIOUS
<1> PICK c : c = DigitCount(number, 10)
  OBVIOUS
<1>1. c \in Nat \ {0}
  BY DigitCountRounds
<1>2. s \in Seq(Byte)
  BY NumeralStep
<1>3. Len(s) = c
  BY NumeralDigits
<1>4. \A i \in 0 .. c - 1 : s[c - i] = Digit(Quotient(number, 10, i) % 10)
  BY NumeralDigits
<1>5. ULong(number) = [k \in 1 .. c |-> Digit(Quotient(number, 10, k - 1) % 10)]
  BY DEF ULong
<1>6. Reverse(s) = [k \in 1 .. c |-> s[(c - k) + 1]]
  BY <1>3 DEF Reverse
<1>7. ASSUME NEW k \in 1 .. c
      PROVE  /\ Digit(Quotient(number, 10, k - 1) % 10) = s[(c - k) + 1]
             /\ s[(c - k) + 1] \in Byte
  <2> PICK i : i = k - 1
    OBVIOUS
  <2> PICK j : j = (c - k) + 1
    OBVIOUS
  <2>1. i \in 0 .. c - 1 /\ c - i = j /\ j \in 1 .. c
    BY <1>1
  <2>2. s[j] = Digit(Quotient(number, 10, i) % 10)
    BY <1>4, <2>1
  <2>3. s[j] \in Byte
    BY <1>2, <1>3, <2>1, SequenceIs
  <2> QED
    BY <2>2, <2>3
<1>8. ULong(number) = [k \in 1 .. c |-> s[(c - k) + 1]]
  BY <1>5, <1>7
<1>9. ULong(number) \in Seq(Byte) /\ Len(ULong(number)) = c
  <2> PICK f : f = ULong(number)
    OBVIOUS
  <2>1. f = [k \in 1 .. c |-> f[k]] /\ \A k \in 1 .. c : f[k] \in Byte
    BY <1>7, <1>8
  <2> QED
    BY <1>1, <2>1, SequenceOf
<1> QED
  BY <1>6, <1>8, <1>9

(* Hexadecimal ones from the highest, behind zeros up to the width.        *)
LEMMA HexIs ==
  ASSUME NEW number \in Nat, NEW width \in Nat
  PROVE  /\ HexPadded(number, width) = Padded(Numeral(number, 16), width)
         /\ HexPadded(number, width) \in Seq(Byte)
<1> PICK s : s = Numeral(number, 16)
  OBVIOUS
<1> PICK c : c = DigitCount(number, 16)
  OBVIOUS
<1> PICK p : p = IF width > c THEN width ELSE c
  OBVIOUS
<1> DEFINE digit(i) == IF i >= c THEN DIGIT_0 ELSE Digit(Quotient(number, 16, i) % 16)
           zeros == [k \in 1 .. width - c |-> DIGIT_0]
<1>1. c \in Nat \ {0}
  BY DigitCountRounds
<1>2. s \in Seq(Byte)
  BY NumeralStep
<1>3. Len(s) = c
  BY NumeralDigits
<1>4. \A i \in 0 .. c - 1 : s[c - i] = Digit(Quotient(number, 16, i) % 16)
  BY NumeralDigits
<1>5. HexPadded(number, width) = [k \in 1 .. p |-> digit(p - k)]
  BY DEF HexPadded
<1>6. Padded(s, width) = zeros \o s
  BY <1>3 DEF Padded
<1>7. DIGIT_0 \in Byte
  BY DEF DIGIT_0, Byte
<1>8. p \in Nat /\ p - c \in Nat /\ 1 .. width - c = 1 .. p - c
  <2>1. CASE width > c
    BY <1>1, <2>1
  <2>2. CASE ~(width > c)
    <3>1. 1 .. width - c = {} /\ 1 .. p - c = {} /\ p = c
      BY <1>1, <2>2
    <3> QED
      BY <1>1, <3>1
  <2> QED
    BY <2>1, <2>2
<1>9. zeros \in Seq(Byte) /\ Len(zeros) = p - c /\ \A k \in 1 .. p - c : zeros[k] = DIGIT_0
  <2>1. zeros = [k \in 1 .. p - c |-> zeros[k]] /\ \A k \in 1 .. p - c : zeros[k] = DIGIT_0
    BY <1>8
  <2>2. \A k \in 1 .. p - c : zeros[k] \in Byte
    BY <1>7, <2>1
  <2> HIDE DEF zeros
  <2> QED
    BY <1>8, <2>1, <2>2, SequenceOf
<1> HIDE DEF zeros
<1>10. zeros \o s \in Seq(Byte) /\ Len(zeros \o s) = p
  BY <1>2, <1>3, <1>8, <1>9, <1>1
<1>11. ASSUME NEW k \in 1 .. p PROVE digit(p - k) = (zeros \o s)[k]
  <2> PICK i : i = p - k
    OBVIOUS
  <2>1. i \in 0 .. p - 1 /\ k = p - i
    BY <1>8
  <2>2. CASE i >= c
    <3>1. k \in 1 .. p - c
      BY <1>1, <1>8, <2>1, <2>2
    <3>2. (zeros \o s)[k] = zeros[k]
      BY <1>2, <1>9, <3>1
    <3> QED
      BY <1>9, <2>2, <3>1, <3>2
  <2>3. CASE ~(i >= c)
    <3>1. i \in 0 .. c - 1 /\ c - i \in 1 .. c /\ k = (p - c) + (c - i)
      BY <1>1, <1>8, <2>1, <2>3
    <3>2. (zeros \o s)[k] = s[c - i]
      <4> PICK j : j = c - i
        OBVIOUS
      <4>1. j \in 1 .. Len(s) /\ k = Len(zeros) + j
        BY <1>3, <1>9, <3>1
      <4> PICK z : z = zeros
        OBVIOUS
      <4>2. z \in Seq(Byte) /\ s \in Seq(Byte) /\ j \in 1 .. Len(s) /\ k = Len(z) + j
        BY <1>2, <1>9, <4>1
      <4>3. (z \o s)[k] = s[j]
        BY ONLY <4>2, JoinsRight
      <4> QED
        BY <4>3
    <3> QED
      BY <1>4, <2>3, <3>1, <3>2
  <2> QED
    BY <2>2, <2>3
<1> HIDE DEF digit
<1>12. zeros \o s = [k \in 1 .. p |-> (zeros \o s)[k]]
  BY <1>10, SequenceIs
<1>13. HexPadded(number, width) = zeros \o s
  BY <1>5, <1>11, <1>12
<1> QED
  BY <1>6, <1>10, <1>13

(* The digits of a negative number are those of 0.                         *)
LEMMA NumberIs ==
  ASSUME NEW number \in Int
  PROVE  /\ Number(number) = IF number < 0 THEN <<MINUS, DIGIT_0>>
                             ELSE Reverse(Numeral(number, 10))
         /\ Number(number) \in Seq(Byte)
         /\ Len(Number(number)) = NumberCount(number) + SignCount(number)
<1>1. CASE number < 0
  <2>1. number - number = 0
    OBVIOUS
  <2>2. DigitCount(0, 10) = 1
    BY DigitCountRounds
  <2>3. ULong(0) \in Seq(Byte) /\ Len(ULong(0)) = 1
        /\ ULong(0) = [k \in 1 .. 1 |-> Digit(Quotient(0, 10, k - 1) % 10)]
    BY <2>2, ULongIs DEF ULong
  <2>4. Quotient(0, 10, 0) = 0 /\ Digit(0) = DIGIT_0
    BY QuotientStep DEF Digit, DIGIT_0
  <2>5. ULong(0)[1] = DIGIT_0
    <3>1. 1 - 1 = 0 /\ 0 % 10 = 0
      OBVIOUS
    <3> QED
      BY <2>3, <2>4, <3>1
  <2>6. Number(number) = <<MINUS>> \o ULong(0)
    BY <1>1, <2>1 DEF Number
  <2>7. ULong(0) = <<DIGIT_0>>
    BY <2>3, <2>5
  <2>8. <<MINUS>> \o <<DIGIT_0>> = <<MINUS, DIGIT_0>>
    <3>1. \A a, b : <<a>> \o <<b>> = <<a, b>>
      <4> SUFFICES ASSUME NEW a, NEW b PROVE <<a>> \o <<b>> = <<a, b>>
        OBVIOUS
      <4> PICK S : S = {a, b}
        OBVIOUS
      <4>1. <<a>> \in Seq(S) /\ <<b>> \in Seq(S) /\ <<a, b>> \in Seq(S)
        OBVIOUS
      <4>2. <<a>> \o <<b>> \in Seq(S) /\ Len(<<a>> \o <<b>>) = 2
            /\ (<<a>> \o <<b>>)[1] = a /\ (<<a>> \o <<b>>)[2] = b
        BY <4>1
      <4>3. \A k \in 1 .. 2 : k = 1 \/ k = 2
        OBVIOUS
      <4> PICK t, u : t = <<a>> \o <<b>> /\ u = <<a, b>>
        OBVIOUS
      <4>4. t \in Seq(S) /\ u \in Seq(S) /\ Len(t) = 2 /\ Len(u) = 2
        BY <4>1, <4>2
      <4>5. \A k \in 1 .. 2 : t[k] = u[k]
        <5>1. t[1] = u[1] /\ t[2] = u[2]
          BY <4>2
        <5> QED
          BY <4>3, <5>1, Zenon
      <4> QED
        BY <4>4, <4>5, SameSequence
    <3> QED
      BY <3>1
  <2>9. <<MINUS, DIGIT_0>> \in Seq(Byte) /\ Len(<<MINUS, DIGIT_0>>) = 2
    BY DEF MINUS, DIGIT_0, Byte
  <2>10. NumberCount(number) + SignCount(number) = 2
    BY <1>1, <2>1, <2>2 DEF NumberCount, SignCount
  <2> QED
    BY <1>1, <2>6, <2>7, <2>8, <2>9, <2>10
<1>2. CASE ~(number < 0)
  <2>1. number \in Nat
    BY <1>2
  <2>2. Number(number) = ULong(number) /\ NumberCount(number) = DigitCount(number, 10)
        /\ SignCount(number) = 0
    BY <1>2 DEF Number, NumberCount, SignCount
  <2>3. DigitCount(number, 10) \in Nat
    BY <2>1, DigitCountRounds
  <2>4. /\ ULong(number) = Reverse(Numeral(number, 10))
        /\ ULong(number) \in Seq(Byte)
        /\ Len(ULong(number)) = DigitCount(number, 10)
    BY <2>1, ULongIs
  <2> QED
    BY <1>2, <2>2, <2>3, <2>4
<1> QED
  BY <1>1, <1>2

(* What the width of an integer type makes of a number.                    *)
LEMMA UnsignedIs ==
  ASSUME NEW val \in Int, NEW max \in Nat
  PROVE  /\ Unsigned(val, max) \in 0 .. max
         /\ val \in 0 .. max => Unsigned(val, max) = val
BY DEF Unsigned

LEMMA SignedIs ==
  ASSUME NEW val \in Int
  PROVE  /\ Signed(val) \in Int
         /\ val \in -(INT_MAX + 1) .. INT_MAX => Signed(val) = val
<1> PICK u : u = Unsigned(val, UINT_MAX)
  OBVIOUS
<1>1. UINT_MAX \in Nat /\ UINT_MAX = 2 * INT_MAX + 1 /\ INT_MAX \in Nat
  BY KprintfAssumption DEF INT_MAX
<1>2. u \in 0 .. UINT_MAX /\ (val \in 0 .. UINT_MAX => u = val)
  BY <1>1, UnsignedIs
<1>3. Signed(val) = IF u <= INT_MAX THEN u ELSE u - (UINT_MAX + 1)
  BY DEF Signed
<1>4. ASSUME val \in -(INT_MAX + 1) .. -1 PROVE u = val + (UINT_MAX + 1)
  BY <1>1, <1>4 DEF Unsigned
<1> QED
  BY <1>1, <1>2, <1>3, <1>4

-----------------------------------------------------------------------------
(* The pieces of a format, put together one by one. *)

LEMMA FlattenPrefix ==
  ASSUME NEW S, NEW m \in Nat, NEW seqs, NEW J, J[0] = <<>>,
         \A i \in 1 .. m : J[i] = J[i - 1] \o seqs[i] /\ seqs[i] \in Seq(S)
  PROVE  FlattenSeq([i \in 1 .. m |-> seqs[i]]) = J[m]
<1> DEFINE part == [i \in 1 .. m |-> seqs[i]]
           Phi(f) == f = [i \in 1 .. Len(part) |-> IF i = 1 THEN part[i] ELSE f[i - 1] \o part[i]]
           flatten == CHOOSE f : Phi(f)
<1>1. part = [i \in 1 .. m |-> part[i]] /\ \A i \in 1 .. m : part[i] = seqs[i]
  OBVIOUS
<1>2. Len(part) = m
  <2> HIDE DEF part
  <2> QED
    BY <1>1, FunctionLength
<1>3. CASE m = 0
  <2>1. part = <<>>
    BY <1>3
  <2>2. FlattenSeq(part) = part
    BY <1>2, <1>3, Zenon DEF FlattenSeq
  <2> QED
    BY <1>3, <2>1, <2>2
<1>4. CASE m # 0
  <2>1. FlattenSeq(part) = flatten[m]
    BY <1>2, <1>4, Zenon DEF FlattenSeq
  <2> DEFINE g == [i \in 1 .. m |-> J[i]]
  <2>2. ASSUME NEW i \in 1 .. m PROVE g[i] = IF i = 1 THEN part[i] ELSE g[i - 1] \o part[i]
    <3>1. g[i] = J[i - 1] \o seqs[i] /\ part[i] = seqs[i] /\ seqs[i] \in Seq(S)
      BY <1>1
    <3>2. CASE i = 1
      <4>1. i - 1 = 0
        BY <3>2
      <4>2. J[i - 1] = <<>>
        BY <4>1
      <4>3. <<>> \o seqs[i] = seqs[i]
        BY <3>1
      <4> QED
        BY <3>1, <3>2, <4>2, <4>3
    <3>3. CASE i # 1
      <4>1. i - 1 \in 1 .. m
        BY <3>3
      <4>2. g[i - 1] = J[i - 1]
        BY <4>1
      <4> QED
        BY <3>1, <3>3, <4>2
    <3> QED
      BY <3>2, <3>3
  <2>3. g = [i \in 1 .. m |-> g[i]]
    OBVIOUS
  <2>4. m \in 1 .. m /\ g[m] = J[m]
    BY <1>4
  <2> HIDE DEF g
  <2>5. Phi(g)
    <3> HIDE DEF part
    <3> QED
      BY <1>2, <2>2, <2>3
  <2>6. Phi(flatten)
    <3> HIDE DEF Phi
    <3> QED
      BY <2>5
  <2> HIDE DEF flatten
  <2>7. \A i \in 1 .. m : flatten[i] = IF i = 1 THEN part[i] ELSE flatten[i - 1] \o part[i]
    <3> HIDE DEF part
    <3> QED
      BY <1>2, <2>6
  <2> DEFINE G == {i \in Nat : i + 1 <= m => flatten[i + 1] = g[i + 1]}
  <2>8. 0 \in G
    <3> HIDE DEF part
    <3> QED
      BY <1>4, <2>2, <2>7
  <2>9. ASSUME NEW i \in Nat, i \in G PROVE i + 1 \in G
    <3> HIDE DEF part
    <3> SUFFICES ASSUME i + 2 <= m PROVE flatten[i + 2] = g[i + 2]
      OBVIOUS
    <3> PICK k, j : k = i + 2 /\ j = i + 1
      OBVIOUS
    <3>1. k \in 1 .. m /\ k # 1 /\ k - 1 = j /\ flatten[j] = g[j]
      BY <2>9
    <3>2. flatten[k] = flatten[j] \o part[k] /\ g[k] = g[j] \o part[k]
      BY <2>2, <2>7, <3>1
    <3> QED
      BY <3>1, <3>2
  <2>10. Nat \subseteq G
    <3> HIDE DEF G
    <3> QED
      BY <2>8, <2>9, SetInduction
  <2>11. flatten[m] = g[m]
    <3> PICK i \in Nat : i + 1 = m
      BY <1>4
    <3> QED
      BY <2>10
  <2> QED
    BY <2>1, <2>4, <2>11, Zenon
<1> QED
  BY <1>3, <1>4


LEMMA TogetherGrows ==
  ASSUME NEW S, NEW n \in Nat, NEW seqs, \A i \in 1 .. n : seqs[i] \in Seq(S)
  PROVE  /\ Together(seqs, 0) = <<>>
         /\ \A m \in 0 .. n : Together(seqs, m) \in Seq(S)
         /\ \A i \in 1 .. n : Together(seqs, i) = Together(seqs, i - 1) \o seqs[i]
<1> PICK T : T = Seq(S)
  OBVIOUS
<1> DEFINE node == [x \in T \X Nat |-> IF x[2] \in 1 .. n THEN x[1] \o seqs[x[2]] ELSE <<>>]
<1>1. ASSUME NEW s \in T, NEW i \in Nat
      PROVE  /\ node[<<s, i>>] = IF i \in 1 .. n THEN s \o seqs[i] ELSE <<>>
             /\ node[<<s, i>>] \in T
  <2>1. node[<<s, i>>] = IF i \in 1 .. n THEN s \o seqs[i] ELSE <<>>
    OBVIOUS
  <2> HIDE DEF node
  <2>2. CASE i \in 1 .. n
    <3>1. s \in Seq(S) /\ seqs[i] \in Seq(S)
      BY <2>2
    <3>2. s \o seqs[i] \in Seq(S)
      BY <3>1
    <3> QED
      BY <2>1, <2>2, <3>2
  <2>3. CASE i \notin 1 .. n
    <3>1. <<>> \in Seq(S)
      OBVIOUS
    <3> QED
      BY <2>1, <2>3, <3>1
  <2> QED
    BY <2>2, <2>3
<1>2. node \in [T \X Nat -> T]
  <2>1. ASSUME NEW x \in T \X Nat PROVE node[x] \in T
    <3> HIDE DEF node
    <3>1. PICK s \in T, i \in Nat : x = <<s, i>>
      OBVIOUS
    <3> QED
      BY <1>1, <3>1
  <2>2. node = [x \in T \X Nat |-> node[x]]
    OBVIOUS
  <2> HIDE DEF node
  <2> QED
    BY <2>1, <2>2
<1>3. <<>> \in T
  OBVIOUS
<1> HIDE DEF node
<1>4. PICK J : StepSolution(J, T, <<>>, node)
  BY <1>2, <1>3, StepRecursion
<1>5. J \in [Nat -> T] /\ J[0] = <<>> /\ \A i \in Nat \ {0} : J[i] = node[<<J[i - 1], i>>]
  BY <1>4 DEF StepSolution
<1>6. ASSUME NEW i \in 1 .. n PROVE J[i] = J[i - 1] \o seqs[i]
  <2>1. i - 1 \in Nat /\ i \in Nat \ {0}
    OBVIOUS
  <2>2. J[i - 1] \in T
    BY <1>5, <2>1
  <2> QED
    BY <1>1, <1>5, <2>1, <2>2
<1>7. ASSUME NEW m \in 0 .. n PROVE Together(seqs, m) = J[m] /\ J[m] \in T
  <2>1. m \in Nat /\ \A i \in 1 .. m : i \in 1 .. n
    OBVIOUS
  <2>2. \A i \in 1 .. m : J[i] = J[i - 1] \o seqs[i] /\ seqs[i] \in Seq(S)
    BY <1>6, <2>1
  <2>3. J[0] = <<>> /\ J[m] \in T
    BY <1>5, <2>1
  <2>4. FlattenSeq([i \in 1 .. m |-> seqs[i]]) = J[m]
    BY ONLY <2>1, <2>2, <2>3, FlattenPrefix
  <2> QED
    BY <2>3, <2>4 DEF Together
<1>8. ASSUME NEW i \in 1 .. n PROVE Together(seqs, i) = Together(seqs, i - 1) \o seqs[i]
  <2>1. i \in 0 .. n /\ i - 1 \in 0 .. n
    OBVIOUS
  <2> QED
    BY <1>6, <1>7, <2>1
<1>9. 0 \in 0 .. n
  OBVIOUS
<1> QED
  BY <1>5, <1>7, <1>8, <1>9

(* What stands in the whole at the place of the i-th piece. *)
LEMMA TogetherAt ==
  ASSUME NEW S, NEW n \in Nat, NEW seqs, \A i \in 1 .. n : seqs[i] \in Seq(S),
         NEW j \in 1 .. n
  PROVE  /\ Len(Together(seqs, j)) <= Len(Together(seqs, n))
         /\ \A k \in 1 .. Len(Together(seqs, j)) : Together(seqs, n)[k] = Together(seqs, j)[k]
<1> DEFINE Same(m) == /\ Len(Together(seqs, j)) <= Len(Together(seqs, m))
                      /\ \A k \in 1 .. Len(Together(seqs, j)) : Together(seqs, m)[k] = Together(seqs, j)[k]
           G == {i \in Nat : \A m \in j .. n : m = j + i => Same(m)}
<1>1. \A m \in 0 .. n : Together(seqs, m) \in Seq(S)
  BY TogetherGrows
<1>2. \A i \in 1 .. n : Together(seqs, i) = Together(seqs, i - 1) \o seqs[i]
  BY TogetherGrows
<1>3. 0 \in G
  <2>1. Same(j)
    BY <1>1
  <2> HIDE DEF Same
  <2> QED
    BY <2>1
<1>4. ASSUME NEW i \in Nat, i \in G PROVE i + 1 \in G
  <2> SUFFICES ASSUME NEW m \in j .. n, m = j + (i + 1) PROVE Same(m)
    OBVIOUS
  <2> PICK l : l = m - 1
    OBVIOUS
  <2>1. l \in j .. n /\ l = j + i /\ l \in 0 .. n /\ m \in 1 .. n /\ j \in 0 .. n
    OBVIOUS
  <2>2. Same(l)
    BY <1>4, <2>1
  <2> PICK f, g, h : f = Together(seqs, j) /\ g = Together(seqs, l) /\ h = Together(seqs, m)
    OBVIOUS
  <2>3. f \in Seq(S) /\ g \in Seq(S) /\ h = g \o seqs[m] /\ seqs[m] \in Seq(S)
    BY <1>1, <1>2, <2>1
  <2>4. Len(h) = Len(g) + Len(seqs[m]) /\ \A k \in 1 .. Len(g) : h[k] = g[k]
    BY ONLY <2>3, Joins
  <2>5. Len(f) <= Len(g) /\ \A k \in 1 .. Len(f) : g[k] = f[k]
    BY <2>2
  <2>6. Len(f) \in Nat /\ Len(g) \in Nat /\ Len(seqs[m]) \in Nat
    BY <2>3
  <2>7. Len(f) <= Len(h) /\ \A k \in 1 .. Len(f) : h[k] = f[k]
    BY ONLY <2>4, <2>5, <2>6
  <2> QED
    BY <2>7
<1>5. Nat \subseteq G
  <2> HIDE DEF G
  <2> QED
    BY <1>3, <1>4, SetInduction
<1>6. n - j \in Nat /\ n \in j .. n /\ n = j + (n - j)
  OBVIOUS
<1>7. Same(n)
  BY <1>5, <1>6
<1> QED
  BY <1>7

(* The o-th element of the j-th sequence, behind the first i, in the whole. *)
Placed(seqs, n, j, i, o) ==
  /\ Together(seqs, n)[Len(Together(seqs, i)) + o] = seqs[j][o]
  /\ Len(Together(seqs, i)) + o <= Len(Together(seqs, n))
  /\ Len(Together(seqs, i)) \in Nat

LEMMA PieceAt ==
  ASSUME NEW S, NEW n \in Nat, NEW seqs, \A i \in 1 .. n : seqs[i] \in Seq(S),
         NEW j \in 1 .. n, NEW i, i = j - 1, NEW o \in 1 .. Len(seqs[j])
  PROVE  Placed(seqs, n, j, i, o)
<1> PICK f, g, h : f = Together(seqs, i) /\ g = Together(seqs, j) /\ h = Together(seqs, n)
  OBVIOUS
<1>1. \A m \in 0 .. n : Together(seqs, m) \in Seq(S)
  BY TogetherGrows
<1>2. g = f \o seqs[j]
  BY TogetherGrows
<1>3. f \in Seq(S) /\ g \in Seq(S) /\ h \in Seq(S) /\ seqs[j] \in Seq(S)
  BY <1>1
<1>4. Len(g) <= Len(h) /\ \A k \in 1 .. Len(g) : h[k] = g[k]
  BY TogetherAt
<1>5. Len(g) = Len(f) + Len(seqs[j]) /\ \A k \in 1 .. Len(seqs[j]) : g[Len(f) + k] = seqs[j][k]
  BY <1>2, <1>3, Joins
<1>6. Len(f) \in Nat /\ Len(g) \in Nat /\ Len(h) \in Nat /\ Len(seqs[j]) \in Nat
  BY <1>3
<1>7. Len(f) + o \in 1 .. Len(g)
  BY ONLY <1>5, <1>6, o \in 1 .. Len(seqs[j])
<1>8. h[Len(f) + o] = seqs[j][o]
  BY <1>4, <1>5, <1>7
<1>9. Len(f) + o <= Len(h)
  BY ONLY <1>4, <1>6, <1>7
<1> QED
  BY <1>6, <1>8, <1>9 DEF Placed

(* What holds of the empty sequence, and is kept when a piece is added,    *)
(* holds of the whole.                                                     *)
LEMMA TogetherIn ==
  ASSUME NEW S, NEW n \in Nat, NEW seqs, \A i \in 1 .. n : seqs[i] \in Seq(S),
         NEW G, <<>> \in G, \A s \in G : \A i \in 1 .. n : s \o seqs[i] \in G
  PROVE  Together(seqs, n) \in G
<1> DEFINE H == {m \in Nat : m <= n => Together(seqs, m) \in G}
<1>1. Together(seqs, 0) = <<>> /\ \A i \in 1 .. n : Together(seqs, i) = Together(seqs, i - 1) \o seqs[i]
  BY TogetherGrows
<1>2. 0 \in H
  BY <1>1
<1>3. ASSUME NEW m \in Nat, m \in H PROVE m + 1 \in H
  <2> SUFFICES ASSUME m + 1 <= n PROVE Together(seqs, m + 1) \in G
    OBVIOUS
  <2> PICK l : l = m + 1
    OBVIOUS
  <2>1. l \in 1 .. n /\ l - 1 = m
    OBVIOUS
  <2>2. Together(seqs, l) = Together(seqs, m) \o seqs[l]
    BY <1>1, <2>1
  <2>3. Together(seqs, m) \in G
    BY <1>3
  <2> QED
    BY <2>1, <2>2, <2>3
<1> HIDE DEF H
<1>4. Nat \subseteq H
  BY <1>2, <1>3, SetInduction
<1> QED
  BY <1>4 DEF H

(* A directive of a format starts at d and has its conversion at e.        *)
Conversion(f, d, e) ==
  /\ d \in DOMAIN f /\ e \in DOMAIN f /\ d < e /\ f[d] = PERCENT
  /\ \/ f[d + 1] # DIGIT_0 /\ e = d + 1
     \/ /\ f[d + 1] = DIGIT_0 /\ e > d + 1
        /\ (\A k \in d + 1 .. e - 1 : f[k] \in DecimalDigits) /\ f[e] \notin DecimalDigits
  /\ f[e] = LOWER_L => e + 1 \in DOMAIN f /\ f[e + 1] # PERCENT

(* M holds the directives: apart, and with every percent sign.             *)
Marked(f, M) ==
  /\ \A m \in M : m[1] \in Nat /\ m[2] \in Nat /\ Conversion(f, m[1], m[2])
  /\ \A l, m \in M : l = m \/ l[2] < m[1] \/ m[2] < l[1]
  /\ \A p \in DOMAIN f : f[p] = PERCENT => \E m \in M : p \in {m[1], m[2]}

Formats == {f \in Seq(Char) : \E M : Marked(f, M)}

LEMMA AppendedPlaces ==
  ASSUME NEW s \in Seq(Char), NEW t \in Seq(Char)
  PROVE  /\ s \o t \in Seq(Char) /\ Len(s \o t) = Len(s) + Len(t)
         /\ Len(s) \in Nat /\ Len(t) \in Nat
         /\ DOMAIN (s \o t) = 1 .. Len(s) + Len(t)
         /\ DOMAIN s = 1 .. Len(s) /\ DOMAIN t = 1 .. Len(t)
         /\ \A k \in 1 .. Len(s) : (s \o t)[k] = s[k]
         /\ \A k \in 1 .. Len(t) : (s \o t)[Len(s) + k] = t[k]
OBVIOUS

LEMMA ConversionKept ==
  ASSUME NEW s \in Seq(Char), NEW t \in Seq(Char), NEW d \in Nat, NEW e \in Nat,
         Conversion(s, d, e)
  PROVE  Conversion(s \o t, d, e)
<1> PICK f : f = s \o t
  OBVIOUS
<1>1. /\ DOMAIN f = 1 .. Len(s) + Len(t) /\ DOMAIN s = 1 .. Len(s)
      /\ Len(s) \in Nat /\ Len(t) \in Nat /\ \A k \in 1 .. Len(s) : f[k] = s[k]
  BY AppendedPlaces
<1>2. /\ d \in 1 .. Len(s) /\ e \in 1 .. Len(s) /\ d < e /\ s[d] = PERCENT
      /\ d + 1 \in 1 .. Len(s) /\ \A k \in d + 1 .. e - 1 : k \in 1 .. Len(s)
  BY <1>1 DEF Conversion
<1>3. /\ f[d] = s[d] /\ f[e] = s[e] /\ f[d + 1] = s[d + 1]
      /\ \A k \in d + 1 .. e - 1 : f[k] = s[k]
  BY <1>1, <1>2
<1>4. s[e] = LOWER_L => e + 1 \in DOMAIN f /\ f[e + 1] = s[e + 1] /\ s[e + 1] # PERCENT
  BY <1>1 DEF Conversion
<1>5. d \in DOMAIN f /\ e \in DOMAIN f
  BY <1>1, <1>2
<1>6. \/ s[d + 1] # DIGIT_0 /\ e = d + 1
      \/ /\ s[d + 1] = DIGIT_0 /\ e > d + 1
         /\ (\A k \in d + 1 .. e - 1 : s[k] \in DecimalDigits) /\ s[e] \notin DecimalDigits
  BY DEF Conversion
<1>7. Conversion(f, d, e)
  BY <1>2, <1>3, <1>4, <1>5, <1>6 DEF Conversion
<1> QED
  BY <1>7

LEMMA ConversionMoved ==
  ASSUME NEW s \in Seq(Char), NEW t \in Seq(Char), NEW e \in 2 .. Len(t), Directive(t, e)
  PROVE  Conversion(s \o t, Len(s) + 1, Len(s) + e)
<1> PICK f : f = s \o t
  OBVIOUS
<1> PICK n : n = Len(s)
  OBVIOUS
<1>1. /\ DOMAIN f = 1 .. n + Len(t) /\ n \in Nat /\ Len(t) \in Nat
      /\ \A k \in 1 .. Len(t) : f[n + k] = t[k]
  BY AppendedPlaces
<1>2. /\ n + 1 \in DOMAIN f /\ n + e \in DOMAIN f /\ n + 1 < n + e /\ e \in Nat /\ e >= 2
      /\ f[n + 1] = t[1] /\ f[n + 2] = t[2] /\ f[n + e] = t[e]
  <2>1. 1 \in 1 .. Len(t) /\ 2 \in 1 .. Len(t) /\ e \in 1 .. Len(t)
    BY <1>1
  <2> QED
    BY <1>1, <2>1
<1>3. ASSUME \A k \in 2 .. e - 1 : t[k] \in DecimalDigits
      PROVE  \A k \in (n + 1) + 1 .. (n + e) - 1 : f[k] \in DecimalDigits
  <2> SUFFICES ASSUME NEW k \in (n + 1) + 1 .. (n + e) - 1 PROVE f[k] \in DecimalDigits
    OBVIOUS
  <2> PICK j : j = k - n
    OBVIOUS
  <2>1. j \in 2 .. e - 1 /\ j \in 1 .. Len(t) /\ k = n + j
    BY <1>1
  <2> QED
    BY <1>1, <1>3, <2>1
<1>4. t[e] = LOWER_L => (n + e) + 1 \in DOMAIN f /\ f[(n + e) + 1] # PERCENT
  <2> SUFFICES ASSUME t[e] = LOWER_L
               PROVE  (n + e) + 1 \in DOMAIN f /\ f[(n + e) + 1] # PERCENT
    OBVIOUS
  <2>1. e + 1 \in 2 .. Len(t) /\ e + 1 \in 1 .. Len(t) /\ e + 1 # e
    BY <1>1 DEF Directive
  <2>2. t[e + 1] # PERCENT
    BY <2>1 DEF Directive
  <2>3. (n + e) + 1 = n + (e + 1)
    BY <1>1
  <2> QED
    BY <1>1, <2>1, <2>2, <2>3
<1>5. (n + 1) + 1 = n + 2 /\ (e = 2 => n + e = (n + 1) + 1) /\ (e > 2 => n + e > (n + 1) + 1)
  BY <1>1
<1>6. /\ t[1] = PERCENT
      /\ \/ t[2] # DIGIT_0 /\ e = 2
         \/ /\ t[2] = DIGIT_0 /\ e > 2
            /\ (\A k \in 2 .. e - 1 : t[k] \in DecimalDigits) /\ t[e] \notin DecimalDigits
  BY DEF Directive
<1>7. \/ f[(n + 1) + 1] # DIGIT_0 /\ n + e = (n + 1) + 1
      \/ /\ f[(n + 1) + 1] = DIGIT_0 /\ n + e > (n + 1) + 1
         /\ \A k \in (n + 1) + 1 .. (n + e) - 1 : f[k] \in DecimalDigits
         /\ f[n + e] \notin DecimalDigits
  BY <1>2, <1>3, <1>5, <1>6
<1>8. Conversion(f, n + 1, n + e)
  BY <1>2, <1>4, <1>6, <1>7 DEF Conversion
<1> QED
  BY <1>8

(* A piece the compiler accepts, behind a format, makes a format.          *)
LEMMA PieceAdded ==
  ASSUME NEW s \in Formats, NEW t \in Seq(Char), Accepted(t)
  PROVE  s \o t \in Formats
<1>1. PICK M : Marked(s, M)
  BY DEF Formats
<1> PICK f : f = s \o t
  OBVIOUS
<1> PICK n : n = Len(s)
  OBVIOUS
<1>2. /\ f \in Seq(Char) /\ DOMAIN f = 1 .. n + Len(t) /\ n \in Nat /\ Len(t) \in Nat
      /\ DOMAIN s = 1 .. n /\ DOMAIN t = 1 .. Len(t)
      /\ \A k \in 1 .. n : f[k] = s[k]
      /\ \A k \in 1 .. Len(t) : f[n + k] = t[k]
  BY AppendedPlaces DEF Formats
<1>3. \A m \in M : /\ m[1] \in Nat /\ m[2] \in Nat /\ Conversion(f, m[1], m[2])
                   /\ m[1] <= n /\ m[2] <= n
  <2> SUFFICES ASSUME NEW m \in M
               PROVE  /\ m[1] \in Nat /\ m[2] \in Nat /\ Conversion(f, m[1], m[2])
                      /\ m[1] <= n /\ m[2] <= n
    OBVIOUS
  <2>1. m[1] \in Nat /\ m[2] \in Nat /\ Conversion(s, m[1], m[2])
    BY <1>1 DEF Marked
  <2>2. Conversion(f, m[1], m[2])
    BY <2>1, ConversionKept DEF Formats
  <2>3. m[1] \in 1 .. n /\ m[2] \in 1 .. n
    BY <1>2, <2>1 DEF Conversion
  <2> QED
    BY <1>2, <2>1, <2>2, <2>3
<1>4. \A p \in 1 .. n : f[p] = PERCENT => \E m \in M : p \in {m[1], m[2]}
  BY <1>1, <1>2 DEF Marked
<1>5. \A p \in DOMAIN f : p \in 1 .. n \/ (p - n \in 1 .. Len(t) /\ f[p] = t[p - n] /\ p \in Nat)
  <2> SUFFICES ASSUME NEW p \in DOMAIN f, p \notin 1 .. n
               PROVE  p - n \in 1 .. Len(t) /\ f[p] = t[p - n] /\ p \in Nat
    OBVIOUS
  <2> PICK j : j = p - n
    OBVIOUS
  <2>1. j \in 1 .. Len(t) /\ p = n + j
    BY <1>2
  <2> QED
    BY <1>2, <2>1
<1>6. CASE \A k \in DOMAIN t : t[k] # PERCENT
  <2>1. ASSUME NEW p \in DOMAIN f, f[p] = PERCENT PROVE \E m \in M : p \in {m[1], m[2]}
    <3>1. CASE p \in 1 .. n
      BY <1>4, <2>1, <3>1
    <3>2. CASE p \notin 1 .. n
      <4> PICK j : j = p - n
        OBVIOUS
      <4>1. j \in DOMAIN t /\ f[p] = t[j]
        BY <1>2, <1>5, <3>2
      <4> QED
        BY <1>6, <2>1, <4>1
    <3> QED
      BY <3>1, <3>2
  <2>2. Marked(f, M)
    BY <1>1, <1>3, <2>1 DEF Marked
  <2> QED
    BY <1>2, <2>2 DEF Formats
<1>7. CASE \E e \in 2 .. Len(t) : Directive(t, e)
  <2>1. PICK e \in 2 .. Len(t) : Directive(t, e)
    BY <1>7
  <2> PICK new : new = <<n + 1, n + e>>
    OBVIOUS
  <2>2. /\ new[1] = n + 1 /\ new[2] = n + e /\ new[1] \in Nat /\ new[2] \in Nat
        /\ n < new[1] /\ n < new[2]
    BY <1>2
  <2>3. Conversion(f, new[1], new[2])
    BY <2>1, <2>2, ConversionMoved DEF Formats
  <2>4. \A p \in DOMAIN f : f[p] = PERCENT => \E m \in M \cup {new} : p \in {m[1], m[2]}
    <3> SUFFICES ASSUME NEW p \in DOMAIN f, f[p] = PERCENT
                 PROVE  \E m \in M \cup {new} : p \in {m[1], m[2]}
      OBVIOUS
    <3>1. CASE p \in 1 .. n
      BY <1>4, <3>1
    <3>2. CASE p \notin 1 .. n
      <4> PICK j : j = p - n
        OBVIOUS
      <4>1. j \in 1 .. Len(t) /\ t[j] = PERCENT /\ p = n + j
        BY <1>2, <1>5, <3>2
      <4>2. j = 1 \/ j \in 2 .. Len(t)
        BY <1>2, <4>1
      <4>3. j = 1 \/ j = e
        BY <2>1, <4>1, <4>2 DEF Directive
      <4> QED
        BY <2>2, <4>1, <4>3
    <3> QED
      BY <3>1, <3>2
  <2>5. \A l, m \in M \cup {new} : l = m \/ l[2] < m[1] \/ m[2] < l[1]
    <3>1. \A l, m \in M : l = m \/ l[2] < m[1] \/ m[2] < l[1]
      BY <1>1 DEF Marked
    <3>2. \A l \in M : l[2] < new[1]
      BY <1>2, <1>3, <2>2
    <3> QED
      BY <3>1, <3>2
  <2>6. Marked(f, M \cup {new})
    BY <1>3, <2>2, <2>3, <2>4, <2>5 DEF Marked
  <2> QED
    BY <1>2, <2>6 DEF Formats
<1> QED
  BY <1>6, <1>7 DEF Accepted

Args == {a \in [kind : {"number", "string"}, val : Int] : a.kind = "string" => a.val \in Address}

TextsOf(items) == [i \in DOMAIN items |-> items[i].piece.text]
PassedOf(items) == [i \in DOMAIN items |-> Passed(items[i])]

LEMMA ItemTyped ==
  ASSUME NEW item \in Item
  PROVE  /\ item.piece \in Piece
         /\ item.piece.text \in Seq(Char) /\ item.piece.text # <<>> /\ Accepted(item.piece.text)
         /\ Passed(item) \in Seq(Args)
<1>1. /\ item.val \in Int /\ item.piece \in Piece
      /\ item.piece.takes = "string" => item.val \in Address
  BY DEF Item
<1>2. /\ item.piece.text \in Seq(Char) /\ item.piece.text # <<>> /\ Accepted(item.piece.text)
      /\ item.piece.takes \in {"nothing", "number", "string"}
  BY <1>1 DEF Piece
<1>3. CASE item.piece.takes = "nothing"
  BY <1>1, <1>2, <1>3 DEF Passed
<1>4. CASE item.piece.takes # "nothing"
  <2> DEFINE arg == [kind |-> item.piece.takes, val |-> item.val]
  <2>1. arg \in Args
    BY <1>1, <1>2, <1>4 DEF Args
  <2>2. Passed(item) = <<arg>>
    BY <1>4 DEF Passed
  <2> HIDE DEF arg
  <2> QED
    BY <1>1, <1>2, <2>1, <2>2
<1> QED
  BY <1>3, <1>4

LEMMA ItemsTyped ==
  ASSUME NEW items \in Seq(Item)
  PROVE  /\ DOMAIN items = 1 .. Len(items) /\ Len(items) \in Nat
         /\ \A i \in 1 .. Len(items) :
              /\ items[i] \in Item
              /\ TextsOf(items)[i] = items[i].piece.text /\ TextsOf(items)[i] \in Seq(Char)
              /\ PassedOf(items)[i] = Passed(items[i]) /\ PassedOf(items)[i] \in Seq(Args)
<1>1. DOMAIN items = 1 .. Len(items) /\ Len(items) \in Nat
      /\ \A i \in 1 .. Len(items) : items[i] \in Item
  OBVIOUS
<1> SUFFICES ASSUME NEW i \in 1 .. Len(items)
             PROVE  /\ TextsOf(items)[i] = items[i].piece.text /\ TextsOf(items)[i] \in Seq(Char)
                    /\ PassedOf(items)[i] = Passed(items[i]) /\ PassedOf(items)[i] \in Seq(Args)
  BY <1>1
<1>2. TextsOf(items)[i] = items[i].piece.text /\ PassedOf(items)[i] = Passed(items[i])
  BY <1>1 DEF TextsOf, PassedOf
<1>3. items[i].piece.text \in Seq(Char) /\ Passed(items[i]) \in Seq(Args)
  BY <1>1, ItemTyped
<1> QED
  BY <1>2, <1>3

LEMMA CallPasses ==
  ASSUME NEW items \in Seq(Item), Kprintf(items)
  PROVE  /\ format' = Together(TextsOf(items), Len(items)) \o <<NUL>>
         /\ va' = Together(PassedOf(items), Len(items))
<1>1. DOMAIN items = 1 .. Len(items)
  OBVIOUS
<1>2. \A f, g : (f = [i \in 1 .. Len(items) |-> g[i]] /\ g = f) => f = g
  OBVIOUS
<1>3. /\ [i \in 1 .. Len(items) |-> TextsOf(items)[i]] = [i \in DOMAIN items |-> items[i].piece.text]
      /\ [i \in 1 .. Len(items) |-> PassedOf(items)[i]] = [i \in DOMAIN items |-> Passed(items[i])]
  BY <1>1 DEF TextsOf, PassedOf
<1> QED
  BY <1>3, Zenon DEF Kprintf, Together

(* A call hands over a format and what its directives take.                *)
LEMMA CallTyped ==
  ASSUME NEW items \in Seq(Item), Kprintf(items)
  PROVE  /\ \E f \in Formats : format' = f \o <<NUL>>
         /\ va' \in Seq(Args)
<1> PICK n : n = Len(items)
  OBVIOUS
<1> PICK T : T = TextsOf(items)
  OBVIOUS
<1>1. /\ n \in Nat /\ DOMAIN items = 1 .. n
      /\ \A i \in 1 .. n : T[i] \in Seq(Char) /\ PassedOf(items)[i] \in Seq(Args)
  BY ItemsTyped
<1>2. \A i \in 1 .. n : Accepted(T[i])
  <2> SUFFICES ASSUME NEW i \in 1 .. n PROVE Accepted(T[i])
    OBVIOUS
  <2>1. items[i] \in Item /\ T[i] = items[i].piece.text
    BY ItemsTyped
  <2> QED
    BY <2>1, ItemTyped
<1>3. <<>> \in Formats
  <2>1. <<>> \in Seq(Char) /\ Marked(<<>>, {})
    BY DEF Marked
  <2> QED
    BY <2>1 DEF Formats
<1>4. \A s \in Formats : \A i \in 1 .. n : s \o T[i] \in Formats
  BY <1>1, <1>2, PieceAdded
<1>5. Together(T, n) \in Formats
  BY <1>1, <1>3, <1>4, TogetherIn
<1>6. Together(PassedOf(items), n) \in Seq(Args)
  <2>1. n \in 0 .. n
    BY <1>1
  <2> QED
    BY <1>1, <2>1, TogetherGrows
<1> QED
  BY <1>5, <1>6, CallPasses

-----------------------------------------------------------------------------

(* Where the scan stands in the format f with the directives M: outside of *)
(* them, in the width of one, or on its conversion.                        *)
OnScan(f, M, i, p) ==
  /\ i \in 0 .. Len(f)
  /\ p = "scan" => \A m \in M : i + 1 <= m[1] \/ m[2] < i + 1
  /\ p = "pad" => \E m \in M : f[m[1] + 1] = DIGIT_0 /\ m[1] + 1 < i + 1 /\ i + 1 <= m[2]
  /\ p = "convert" => \E m \in M : i + 1 = m[2]

(* Every mark is inside the format, with its percent sign.                 *)
LEMMA MarkPlaces ==
  ASSUME NEW f \in Seq(Char), NEW M, Marked(f, M)
  PROVE  /\ Len(f) \in Nat
         /\ \A m \in M : /\ m[1] \in Nat /\ m[2] \in Nat
                         /\ 1 <= m[1] /\ m[1] < m[2] /\ m[2] <= Len(f)
                         /\ f[m[1]] = PERCENT
<1>1. Len(f) \in Nat /\ DOMAIN f = 1 .. Len(f)
  OBVIOUS
<1> QED
  BY <1>1 DEF Marked, Conversion

LEMMA ScanText ==
  ASSUME NEW f \in Seq(Char), NEW M, Marked(f, M), NEW i \in 0 .. Len(f) - 1,
         OnScan(f, M, i, "scan"), f[i + 1] # PERCENT
  PROVE  OnScan(f, M, i + 1, "scan")
<1>1. i \in Nat /\ i + 1 \in 0 .. Len(f) /\ Len(f) \in Nat
  BY MarkPlaces
<1>2. ASSUME NEW m \in M PROVE (i + 1) + 1 <= m[1] \/ m[2] < (i + 1) + 1
  <2>1. i + 1 <= m[1] \/ m[2] < i + 1
    BY DEF OnScan
  <2>2. m[1] \in Nat /\ m[2] \in Nat /\ f[m[1]] = PERCENT
    BY MarkPlaces
  <2>3. i + 1 # m[1]
    BY <2>2
  <2> QED
    BY <1>1, <2>1, <2>2, <2>3
<1> QED
  BY <1>1, <1>2 DEF OnScan

LEMMA ScanPercent ==
  ASSUME NEW f \in Seq(Char), NEW M, Marked(f, M), NEW i \in 0 .. Len(f) - 1,
         OnScan(f, M, i, "scan"), f[i + 1] = PERCENT
  PROVE  /\ i + 1 \in 0 .. Len(f) - 1
         /\ f[(i + 1) + 1] = DIGIT_0 => OnScan(f, M, i + 2, "pad")
         /\ f[(i + 1) + 1] # DIGIT_0 => OnScan(f, M, i + 1, "convert")
<1>1. i \in Nat /\ Len(f) \in Nat /\ i + 1 \in DOMAIN f /\ (i + 1) + 1 = i + 2
  BY MarkPlaces
<1>2. PICK m \in M : i + 1 \in {m[1], m[2]}
  BY <1>1 DEF Marked
<1>3. m[1] \in Nat /\ m[2] \in Nat /\ m[1] < m[2] /\ m[2] <= Len(f)
  BY MarkPlaces
<1>4. i + 1 <= m[1] \/ m[2] < i + 1
  BY DEF OnScan
<1>5. m[1] = i + 1
  BY <1>1, <1>2, <1>3, <1>4
<1>6. \/ f[m[1] + 1] # DIGIT_0 /\ m[2] = m[1] + 1
      \/ f[m[1] + 1] = DIGIT_0 /\ m[2] > m[1] + 1
  BY DEF Marked, Conversion
<1>7. i + 1 \in 0 .. Len(f) - 1
  BY <1>1, <1>3, <1>5
<1>8. ASSUME f[(i + 1) + 1] = DIGIT_0 PROVE OnScan(f, M, i + 2, "pad")
  <2>1. f[m[1] + 1] = DIGIT_0 /\ m[1] + 1 < (i + 2) + 1 /\ (i + 2) + 1 <= m[2]
        /\ i + 2 \in 0 .. Len(f)
    BY <1>1, <1>3, <1>5, <1>6, <1>8
  <2> QED
    BY <2>1 DEF OnScan
<1>9. ASSUME f[(i + 1) + 1] # DIGIT_0 PROVE OnScan(f, M, i + 1, "convert")
  <2>1. (i + 1) + 1 = m[2] /\ i + 1 \in 0 .. Len(f)
    BY <1>1, <1>3, <1>5, <1>6, <1>9
  <2> QED
    BY <2>1 DEF OnScan
<1> QED
  BY <1>7, <1>8, <1>9

LEMMA ScanWidth ==
  ASSUME NEW f \in Seq(Char), NEW M, Marked(f, M), NEW i \in 0 .. Len(f),
         OnScan(f, M, i, "pad")
  PROVE  /\ i \in 0 .. Len(f) - 1
         /\ f[i + 1] \in DecimalDigits => OnScan(f, M, i + 1, "pad")
         /\ f[i + 1] \notin DecimalDigits => OnScan(f, M, i, "convert")
<1>1. PICK m \in M : f[m[1] + 1] = DIGIT_0 /\ m[1] + 1 < i + 1 /\ i + 1 <= m[2]
  BY DEF OnScan
<1>2. m[1] \in Nat /\ m[2] \in Nat /\ m[1] < m[2] /\ m[2] <= Len(f) /\ Len(f) \in Nat /\ i \in Nat
  BY MarkPlaces
<1>3. /\ \A k \in m[1] + 1 .. m[2] - 1 : f[k] \in DecimalDigits
      /\ f[m[2]] \notin DecimalDigits
  BY <1>1 DEF Marked, Conversion
<1>4. i \in 0 .. Len(f) - 1 /\ i + 1 \in 0 .. Len(f)
  BY <1>1, <1>2
<1>5. ASSUME f[i + 1] \in DecimalDigits PROVE OnScan(f, M, i + 1, "pad")
  <2>1. i + 1 # m[2]
    BY <1>3, <1>5
  <2>2. m[1] + 1 < (i + 1) + 1 /\ (i + 1) + 1 <= m[2]
    BY <1>1, <1>2, <2>1
  <2> QED
    BY <1>1, <1>4, <2>2 DEF OnScan
<1>6. ASSUME f[i + 1] \notin DecimalDigits PROVE OnScan(f, M, i, "convert")
  <2>1. i + 1 \notin m[1] + 1 .. m[2] - 1
    BY <1>3, <1>6
  <2>2. i + 1 = m[2]
    BY <1>1, <1>2, <2>1
  <2> QED
    BY <2>2 DEF OnScan
<1> QED
  BY <1>4, <1>5, <1>6

(* Behind a conversion, or behind the letter that follows an l, the scan   *)
(* is outside of the directives again.                                     *)
LEMMA ScanBehind ==
  ASSUME NEW f \in Seq(Char), NEW M, Marked(f, M), NEW i \in 0 .. Len(f),
         OnScan(f, M, i, "convert")
  PROVE  /\ i \in 0 .. Len(f) - 1
         /\ OnScan(f, M, i + 1, "scan")
         /\ f[i + 1] = LOWER_L => i + 1 \in 0 .. Len(f) - 1 /\ OnScan(f, M, i + 2, "scan")
<1>1. PICK m \in M : i + 1 = m[2]
  BY DEF OnScan
<1>2. m[1] \in Nat /\ m[2] \in Nat /\ m[1] < m[2] /\ m[2] <= Len(f) /\ Len(f) \in Nat /\ i \in Nat
  BY MarkPlaces
<1>3. i \in 0 .. Len(f) - 1 /\ i + 1 \in 0 .. Len(f)
  BY <1>1, <1>2
<1>4. \A l \in M : l[1] \in Nat /\ l[2] \in Nat /\ l[1] < l[2] /\ f[l[1]] = PERCENT
  BY MarkPlaces
<1>5. \A l \in M : l = m \/ l[2] < m[1] \/ m[2] < l[1]
  BY DEF Marked
<1>6. OnScan(f, M, i + 1, "scan")
  <2>1. ASSUME NEW l \in M PROVE (i + 1) + 1 <= l[1] \/ l[2] < (i + 1) + 1
    BY <1>1, <1>2, <1>4, <1>5
  <2> QED
    BY <1>3, <2>1 DEF OnScan
<1>7. ASSUME f[i + 1] = LOWER_L PROVE i + 1 \in 0 .. Len(f) - 1 /\ OnScan(f, M, i + 2, "scan")
  <2>1. m[2] + 1 \in DOMAIN f /\ f[m[2] + 1] # PERCENT
    BY <1>1, <1>7 DEF Marked, Conversion
  <2>2. i + 1 \in 0 .. Len(f) - 1 /\ i + 2 \in 0 .. Len(f)
    BY <1>1, <1>2, <2>1
  <2>3. ASSUME NEW l \in M PROVE (i + 2) + 1 <= l[1] \/ l[2] < (i + 2) + 1
    <3>1. l[1] # m[2] + 1
      BY <1>4, <2>1
    <3> QED
      BY <1>1, <1>2, <1>4, <1>5, <3>1
  <2> QED
    BY <2>2, <2>3 DEF OnScan
<1> QED
  BY <1>3, <1>6, <1>7

-----------------------------------------------------------------------------
(* What is printed are characters. *)

(* A string does not run over the end of the memory. *)
LEMMA StringBytes ==
  ASSUME MemTyped, NEW s \in Address
  PROVE  Characters(s) \in Seq(Byte)
<1> DEFINE before == {a \in Address : s <= a /\ \A b \in s .. a : mem[b] # NUL}
           count == Cardinality(before)
           chars == [k \in 1 .. count |-> mem[s + k - 1]]
<1>1. s \in Nat /\ MemSize \in Nat /\ s <= MemSize - 1 /\ Address = 0 .. MemSize - 1
  BY CStringAssumption DEF Address
<1>2. before \subseteq s .. MemSize - 1 /\ IsFiniteSet(s .. MemSize - 1)
      /\ Cardinality(s .. MemSize - 1) = MemSize - s
  <2>1. before \subseteq s .. MemSize - 1
    BY <1>1
  <2>2. IsFiniteSet(s .. MemSize - 1)
    BY <1>1, FS_Interval
  <2>3. Cardinality(s .. MemSize - 1) = MemSize - s
    BY <1>1, FS_Interval
  <2> QED
    BY <2>1, <2>2, <2>3
<1>3. Characters(s) = chars
  BY DEF Characters
<1> HIDE DEF before
<1>4. count \in Nat /\ count <= MemSize - s
  BY <1>2, FS_Subset, FS_CardinalityType
<1> HIDE DEF count
<1>5. \A k \in 1 .. count : chars[k] \in Byte
  <2> SUFFICES ASSUME NEW k \in 1 .. count PROVE mem[s + k - 1] \in Byte
    OBVIOUS
  <2>1. s + k - 1 \in Address
    BY <1>1, <1>4
  <2> QED
    BY <2>1, CStringAssumption DEF MemTyped, Byte
<1>6. chars = [k \in 1 .. count |-> chars[k]]
  OBVIOUS
<1> HIDE DEF chars
<1> QED
  BY <1>3, <1>4, <1>5, <1>6, SequenceOf

(* The register of the SBI call holds every character. *)
LEMMA EcallKeeps == ASSUME NEW c \in Byte PROVE LegacyEcall1(c) = c
<1>1. UINT_MAX \in Nat /\ c \in Int /\ c \in 0 .. UINT_MAX
  BY KprintfAssumption DEF Byte
<1> QED
  BY <1>1, UnsignedIs DEF LegacyEcall1

LEMMA WriteBytes ==
  ASSUME console \in Seq(Byte), NEW chars \in Seq(Byte), WriteDebugChars(chars)
  PROVE  /\ console' = console \o chars /\ console' \in Seq(Byte)
         /\ Len(console') = Len(console) + Len(chars)
<1> DEFINE sent == [k \in DOMAIN chars |-> LegacyEcall1(chars[k])]
<1>1. /\ DOMAIN chars = 1 .. Len(chars) /\ chars = [k \in 1 .. Len(chars) |-> chars[k]]
      /\ \A k \in 1 .. Len(chars) : chars[k] \in Byte
  OBVIOUS
<1>2. \A k \in 1 .. Len(chars) : LegacyEcall1(chars[k]) = chars[k]
  BY <1>1, EcallKeeps
<1>3. sent = chars
  BY <1>1, <1>2
<1>4. console' = console \o sent
  BY DEF WriteDebugChars
<1> HIDE DEF sent
<1> QED
  BY <1>3, <1>4, Joins

-----------------------------------------------------------------------------

(* The scan stands in a format. *)
InFormat(f, M) == Marked(f, M) /\ format = f \o <<NUL>> /\ OnScan(f, M, index, at)

PrintTyped ==
  /\ at \in {"idle", "scan", "pad", "convert", "done", "wild"}
  /\ console \in Seq(Byte) /\ num_written = Len(console)
  /\ zero_pad_width \in Nat
  /\ va \in Seq(Args)

(* What a conversion prints and the length it reports for it.              *)
Shows(chars, num) == chars \in Seq(Byte) /\ Len(chars) = num

LEMMA AtPlace ==
  ASSUME NEW f \in Seq(Char), format = f \o <<NUL>>, NEW i \in 0 .. Len(f)
  PROVE  /\ i < Len(f) => At(i) = f[i + 1] /\ i \in 0 .. Len(f) - 1 /\ At(i) \in Char
         /\ At(i) # NUL => i < Len(f)
<1> PICK n : n = Len(f)
  OBVIOUS
<1> PICK g : g = f \o <<NUL>>
  OBVIOUS
<1>1. n \in Nat /\ DOMAIN f = 1 .. n /\ (\A k \in 1 .. n : f[k] \in Char /\ g[k] = f[k])
      /\ g[n + 1] = NUL
  OBVIOUS
<1>2. At(i) = g[i + 1]
  BY DEF At
<1>3. ASSUME i < n PROVE At(i) = f[i + 1] /\ i \in 0 .. n - 1 /\ At(i) \in Char
  <2>1. i + 1 \in 1 .. n /\ i \in 0 .. n - 1
    BY <1>1, <1>3
  <2> QED
    BY <1>1, <1>2, <2>1
<1>4. ASSUME ~(i < n) PROVE At(i) = NUL
  <2>1. i + 1 = n + 1
    BY <1>1, <1>4
  <2> QED
    BY <1>1, <1>2, <2>1
<1> QED
  BY <1>3, <1>4

(* What was printed stays printed.                                         *)
Grows == \E chars \in Seq(Byte) : console' = console \o chars

LEMMA SameConsole == ASSUME console \in Seq(Byte), console' = console PROVE Grows
<1>1. <<>> \in Seq(Byte) /\ console = console \o <<>>
  OBVIOUS
<1> QED
  BY <1>1 DEF Grows

(* A converted directive: its characters are bytes, and it is as long as   *)
(* the letters it looked at.                                               *)
LEMMA ConvertedTyped ==
  ASSUME NEW f \in Seq(Char), NEW M, InFormat(f, M), PrintTyped, at = "convert",
         NEW length \in {1, 2}, length = 2 => At(index) = LOWER_L,
         NEW chars, NEW num, Shows(chars, num),
         Converted(length, chars, num), va' \in Seq(Args)
  PROVE  InFormat(f, M)' /\ PrintTyped' /\ Grows
<1>1. WriteDebugChars(chars) /\ num_written' = num_written + num /\ chars \in Seq(Byte)
      /\ Len(chars) = num
  BY DEF Converted, Shows
<1>2. console' \in Seq(Byte) /\ num_written' = Len(console') /\ Grows
  <2>1. console \in Seq(Byte) /\ num_written = Len(console)
    BY DEF PrintTyped
  <2>2. /\ console' \in Seq(Byte) /\ Len(console') = Len(console) + Len(chars)
        /\ console' = console \o chars
    BY <1>1, <2>1, WriteBytes
  <2>3. Grows
    BY <1>1, <2>2 DEF Grows
  <2> QED
    BY <1>1, <2>1, <2>2, <2>3
<1>3. /\ at' = "scan" /\ index' = index + length /\ format' = format
      /\ zero_pad_width' = zero_pad_width
  BY DEF Converted
<1>4. index \in 0 .. Len(f) /\ OnScan(f, M, index, "convert") /\ Marked(f, M)
      /\ format = f \o <<NUL>>
  BY DEF InFormat, OnScan
<1>5. OnScan(f, M, index + length, "scan")
  <2>1. /\ index \in 0 .. Len(f) - 1
        /\ OnScan(f, M, index + 1, "scan")
        /\ f[index + 1] = LOWER_L => OnScan(f, M, index + 2, "scan")
    BY <1>4, ScanBehind
  <2>2. At(index) = f[index + 1]
    <3>1. Len(f) \in Nat /\ index < Len(f)
      BY <2>1
    <3> QED
      BY <1>4, <3>1, AtPlace
  <2> QED
    BY <2>1, <2>2
<1>6. OnScan(f, M, index', at')
  BY <1>3, <1>5
<1>7. InFormat(f, M)'
  BY <1>3, <1>4, <1>6 DEF InFormat
<1> QED
  BY <1>2, <1>3, <1>7 DEF PrintTyped

LEMMA FetchedTyped ==
  ASSUME NEW f \in Seq(Char), NEW M, InFormat(f, M), PrintTyped, at = "convert",
         NEW length \in {1, 2}, length = 2 => At(index) = LOWER_L,
         NEW chars, NEW num, Shows(chars, num),
         Fetched(length, chars, num)
  PROVE  InFormat(f, M)' /\ PrintTyped' /\ Grows
<1>1. va' \in Seq(Args)
  BY DEF Fetched, PrintTyped
<1> QED
  BY <1>1, ConvertedTyped DEF Fetched

(* Every step of the scan keeps it in its format.                          *)
LEMMA PrintStepTyped ==
  ASSUME MemTyped, NEW f \in Seq(Char), NEW M, InFormat(f, M), PrintTyped, PrintStep
  PROVE  InFormat(f, M)' /\ PrintTyped' /\ Grows
<1>1. /\ index \in 0 .. Len(f) /\ Len(f) \in Nat /\ Marked(f, M)
      /\ format = f \o <<NUL>> /\ OnScan(f, M, index, at)
  BY DEF InFormat, OnScan
<1>2. /\ console \in Seq(Byte) /\ num_written = Len(console)
      /\ zero_pad_width \in Nat /\ va \in Seq(Args)
  BY DEF PrintTyped
<1>3. /\ index < Len(f) => At(index) = f[index + 1] /\ index \in 0 .. Len(f) - 1
                           /\ At(index) \in Char
      /\ At(index) # NUL => index < Len(f)
  BY <1>1, AtPlace
<1>4. NUL # PERCENT /\ NUL \notin DecimalDigits
  BY DEF NUL, PERCENT, DecimalDigits, DIGIT_0
<1>5. va # <<>> => /\ VaArg \in Int
                   /\ va[1].kind = "string" => VaArg \in Address
  <2> SUFFICES ASSUME va # <<>> PROVE va[1] \in Args
    BY DEF Args, VaArg
  <2> QED
    BY <1>2
<1>6. CASE PlainChar
  <2>1. /\ index < Len(f) /\ f[index + 1] # PERCENT /\ index' = index + 1
        /\ at = "scan" /\ at' = at /\ format' = format /\ va' = va
        /\ zero_pad_width' = zero_pad_width
        /\ WriteDebugChars(<<At(index)>>) /\ num_written' = num_written + 1
    BY <1>3, <1>6 DEF PlainChar
  <2>2. OnScan(f, M, index + 1, "scan")
    BY <1>1, <1>3, <2>1, ScanText
  <2>3. InFormat(f, M)'
    <3>1. OnScan(f, M, index', at')
      BY <2>1, <2>2
    <3> QED
      BY <1>1, <2>1, <3>1 DEF InFormat
  <2>4. <<At(index)>> \in Seq(Byte) /\ Len(<<At(index)>>) = 1
    BY <1>3, <2>1 DEF Char, Byte
  <2>5. /\ console' \in Seq(Byte) /\ Len(console') = Len(console) + 1
        /\ console' = console \o <<At(index)>>
    BY <1>2, <2>1, <2>4, WriteBytes
  <2>6. Grows
    BY <2>4, <2>5 DEF Grows
  <2> QED
    BY <1>2, <2>1, <2>3, <2>5, <2>6 DEF PrintTyped
<1>7. CASE Return
  <2>1. at' = "done" /\ UNCHANGED printVars
    BY <1>7 DEF Return, printVars
  <2>2. OnScan(f, M, index, "done")
    BY <1>1 DEF OnScan
  <2>3. InFormat(f, M)'
    <3>1. OnScan(f, M, index', at')
      BY <2>1, <2>2 DEF printVars
    <3> QED
      BY <1>1, <2>1, <3>1 DEF InFormat, printVars
  <2> QED
    BY <1>2, <2>1, <2>3, SameConsole DEF PrintTyped, printVars
<1>8. CASE Percent
  <2>1. /\ at = "scan" /\ At(index) = PERCENT /\ zero_pad_width' = 0
        /\ UNCHANGED <<format, num_written, va, console>>
        /\ \/ At(index + 1) = DIGIT_0 /\ at' = "pad" /\ index' = index + 2
           \/ At(index + 1) # DIGIT_0 /\ at' = "convert" /\ index' = index + 1
    BY <1>8 DEF Percent
  <2>2. /\ index + 1 \in 0 .. Len(f) - 1
        /\ f[(index + 1) + 1] = DIGIT_0 => OnScan(f, M, index + 2, "pad")
        /\ f[(index + 1) + 1] # DIGIT_0 => OnScan(f, M, index + 1, "convert")
    BY <1>1, <1>3, <1>4, <2>1, ScanPercent
  <2>3. At(index + 1) = f[(index + 1) + 1]
    <3>1. index + 1 \in 0 .. Len(f) /\ index + 1 < Len(f)
      BY <1>1, <2>2
    <3> QED
      BY <1>1, <3>1, AtPlace
  <2>4. OnScan(f, M, index', at')
    BY <2>1, <2>2, <2>3
  <2>5. InFormat(f, M)'
    BY <1>1, <2>1, <2>4 DEF InFormat
  <2> QED
    BY <1>2, <2>1, <2>5, SameConsole DEF PrintTyped
<1>9. CASE ParseZeroPadWidth
  <2>1. /\ at = "pad" /\ UNCHANGED <<format, num_written, va, console>>
        /\ \/ At(index) \in DecimalDigits /\ at' = "pad" /\ index' = index + 1
           \/ At(index) \notin DecimalDigits /\ at' = "convert" /\ index' = index
    BY <1>9 DEF ParseZeroPadWidth
  <2>2. /\ index \in 0 .. Len(f) - 1
        /\ f[index + 1] \in DecimalDigits => OnScan(f, M, index + 1, "pad")
        /\ f[index + 1] \notin DecimalDigits => OnScan(f, M, index, "convert")
    BY <1>1, <2>1, ScanWidth
  <2>3. At(index) = f[index + 1]
    BY <1>1, <1>3, <2>2
  <2>4. OnScan(f, M, index', at')
    BY <2>1, <2>2, <2>3
  <2>5. InFormat(f, M)'
    BY <1>1, <2>1, <2>4 DEF InFormat
  <2>6. zero_pad_width' \in Nat
    <3>1. \/ UNCHANGED zero_pad_width
          \/ /\ At(index) \in DecimalDigits
             /\ zero_pad_width' = Accumulated(zero_pad_width, At(index) - DIGIT_0)
      BY <1>9 DEF ParseZeroPadWidth
    <3> QED
      BY <1>2, <3>1 DEF Accumulated, DecimalDigits, DIGIT_0
  <2> QED
    BY <1>2, <2>1, <2>5, <2>6, SameConsole DEF PrintTyped
<1>10. CASE ConvertLong
  <2> DEFINE number == Unsigned(VaArg, ULONG_MAX)
             hex == HexULongPadded(number, zero_pad_width)
             dec == ULong(number)
  <2>1. ASSUME va # <<>>
        PROVE  Shows(hex, Len(hex)) /\ Shows(dec, DigitCount(number, 10))
    <3>1. number \in Nat
      <4>1. VaArg \in Int /\ ULONG_MAX \in Nat
        BY <1>5, <2>1, KprintfAssumption
      <4>2. number \in 0 .. ULONG_MAX
        BY <4>1, UnsignedIs
      <4> QED
        BY <4>1, <4>2
    <3> HIDE DEF number
    <3> QED
      BY <1>2, <3>1, HexIs, ULongIs DEF HexULongPadded, Shows
  <2>2. /\ at = "convert" /\ At(index) = LOWER_L
        /\ \/ Fetched(2, hex, Len(hex))
           \/ Fetched(2, dec, DigitCount(number, 10))
           \/ Converted(2, <<>>, 0) /\ va' = va
    BY <1>10 DEF ConvertLong
  <2> HIDE DEF hex, dec
  <2>3. 2 \in {1, 2} /\ Shows(<<>>, 0)
    BY DEF Shows
  <2>4. CASE Fetched(2, hex, Len(hex))
    <3>1. Shows(hex, Len(hex))
      BY <2>1, <2>4 DEF Fetched
    <3> QED
      BY <2>2, <2>3, <2>4, <3>1, FetchedTyped
  <2>5. CASE Fetched(2, dec, DigitCount(number, 10))
    <3>1. Shows(dec, DigitCount(number, 10))
      BY <2>1, <2>5 DEF Fetched
    <3> QED
      BY <2>2, <2>3, <2>5, <3>1, FetchedTyped
  <2>6. CASE Converted(2, <<>>, 0) /\ va' = va
    BY <1>2, <2>2, <2>3, <2>6, ConvertedTyped
  <2> QED
    BY <2>2, <2>4, <2>5, <2>6
<1>11. 1 \in {1, 2} /\ 1 # 2
  OBVIOUS
<1>12. CASE ConvertChar
  <2>1. at = "convert" /\ Fetched(1, <<VaArg % 256>>, 1) /\ VaArg \in Int
    BY <1>5, <1>12 DEF ConvertChar, Fetched
  <2>2. Shows(<<VaArg % 256>>, 1)
    <3>1. VaArg % 256 \in Byte
      BY <2>1 DEF Byte
    <3> QED
      BY <3>1 DEF Shows
  <2> QED
    BY <1>11, <2>1, <2>2, FetchedTyped
<1>13. CASE ConvertInt
  <2> PICK number : number = Signed(VaArg)
    OBVIOUS
  <2>1. /\ at = "convert" /\ VaArg \in Int
        /\ Fetched(1, Number(number), NumberCount(number) + SignCount(number))
    BY <1>5, <1>13 DEF ConvertInt, Fetched
  <2>2. number \in Int
    BY <2>1, SignedIs
  <2>3. Shows(Number(number), NumberCount(number) + SignCount(number))
    BY <2>2, NumberIs DEF Shows
  <2> QED
    BY <1>11, <2>1, <2>3, FetchedTyped
<1>14. CASE ConvertHex
  <2> PICK number : number = Unsigned(VaArg, UINT_MAX)
    OBVIOUS
  <2> PICK hex : hex = HexPadded(number, zero_pad_width)
    OBVIOUS
  <2>1. at = "convert" /\ Fetched(1, hex, Len(hex)) /\ VaArg \in Int
    BY <1>5, <1>14 DEF ConvertHex, Fetched
  <2>2. number \in Nat
    BY <2>1, KprintfAssumption, UnsignedIs
  <2>3. Shows(hex, Len(hex))
    BY <1>2, <2>2, HexIs DEF Shows
  <2> QED
    BY <1>11, <2>1, <2>3, FetchedTyped
<1>15. CASE ConvertString
  <2>1. at = "convert" /\ va # <<>>
    BY <1>15 DEF ConvertString
  <2>2. CASE va[1].kind = "string" /\ Fetched(1, Characters(VaArg), Len(Characters(VaArg)))
    <3>1. Shows(Characters(VaArg), Len(Characters(VaArg)))
      BY <1>5, <2>1, <2>2, StringBytes DEF Shows
    <3> QED
      BY <1>11, <2>1, <2>2, <3>1, FetchedTyped
  <2>3. CASE at' = "wild" /\ UNCHANGED <<stringVars, printVars>>
    <3>1. at' = "wild" /\ UNCHANGED printVars
      BY <2>3
    <3>2. OnScan(f, M, index, "wild")
      BY <1>1 DEF OnScan
    <3>3. InFormat(f, M)'
      <4>1. OnScan(f, M, index', at')
        BY <3>1, <3>2 DEF printVars
      <4> QED
        BY <1>1, <3>1, <4>1 DEF InFormat, printVars
    <3> QED
      BY <1>2, <3>1, <3>3, SameConsole DEF PrintTyped, printVars
  <2> QED
    BY <1>15, <2>2, <2>3 DEF ConvertString
<1>16. CASE ConvertPercent
  <2>1. at = "convert" /\ Converted(1, <<PERCENT>>, 1) /\ va' = va
    BY <1>16 DEF ConvertPercent
  <2>2. Shows(<<PERCENT>>, 1)
    BY DEF PERCENT, Byte, Shows
  <2> QED
    BY <1>2, <1>11, <2>1, <2>2, ConvertedTyped
<1>17. CASE ConvertDefault
  <2>1. at = "convert" /\ Converted(1, <<>>, 0) /\ va' = va
    BY <1>17 DEF ConvertDefault, DefaultLength
  <2>2. Shows(<<>>, 0)
    BY DEF Shows
  <2> QED
    BY <1>2, <1>11, <2>1, <2>2, ConvertedTyped
<1> QED
  BY <1>6, <1>7, <1>8, <1>9, <1>10, <1>12, <1>13, <1>14, <1>15, <1>16, <1>17 DEF PrintStep

LEMMA CallInFormat ==
  ASSUME NEW items \in Seq(Item), Kprintf(items)
  PROVE  /\ \E f \in Seq(Char) : \E M : InFormat(f, M)'
         /\ PrintTyped'
<1>1. PICK f \in Formats : format' = f \o <<NUL>>
  BY CallTyped
<1>2. PICK M : Marked(f, M)
  BY DEF Formats
<1>3. f \in Seq(Char) /\ Len(f) \in Nat
  BY DEF Formats
<1>4. /\ index' = 0 /\ at' = "scan" /\ console' = <<>> /\ va' \in Seq(Args)
      /\ num_written' = 0 /\ zero_pad_width' = 0
  BY CallTyped DEF Kprintf
<1>5. OnScan(f, M, 0, "scan")
  <2>1. \A m \in M : m[1] \in Nat /\ 1 <= m[1]
    BY <1>2, <1>3, MarkPlaces
  <2> QED
    BY <1>3, <2>1 DEF OnScan
<1>6. InFormat(f, M)'
  <2>1. OnScan(f, M, index', at')
    BY <1>4, <1>5
  <2> QED
    BY <1>1, <1>2, <2>1 DEF InFormat
<1>7. PrintTyped'
  <2>1. <<>> \in Seq(Byte) /\ Len(<<>>) = 0
    OBVIOUS
  <2> QED
    BY <1>4, <2>1 DEF PrintTyped
<1> QED
  BY <1>3, <1>6, <1>7

Typed == MemTyped /\ PrintTyped /\ \E f \in Seq(Char) : \E M : InFormat(f, M)

LEMMA StringPieceItem == \A s \in Address : <<[piece |-> StringPiece, val |-> s]>> \in Seq(Item)
<1> SUFFICES ASSUME NEW s \in Address
             PROVE  [piece |-> StringPiece, val |-> s] \in Item
  OBVIOUS
<1>1. s \in Int
  BY CStringAssumption DEF Address
<1> QED
  BY <1>1, KprintfAssumption DEF Item

LEMMA AlwaysTyped == PrintSpec => []Typed
<1> USE DEF Typed
<1> DEFINE Scanning == \E f \in Seq(Char) : \E M : InFormat(f, M)
<1>1. PrintInit => Typed
  <2> SUFFICES ASSUME PrintInit PROVE Typed
    OBVIOUS
  <2>1. MemTyped
    BY CStringAssumption DEF PrintInit, InitString, MemTyped
  <2>2. <<>> \in Seq(Byte) /\ <<>> \in Seq(Args) /\ Len(<<>>) = 0
    OBVIOUS
  <2>3. PrintTyped
    BY <2>2 DEF PrintInit, PrintTyped
  <2>4. <<>> \in Seq(Char) /\ InFormat(<<>>, {})
    <3>1. Marked(<<>>, {}) /\ <<>> \o <<NUL>> = <<NUL>>
      BY DEF Marked
    <3>2. OnScan(<<>>, {}, 0, "idle")
      BY <2>2 DEF OnScan
    <3> QED
      BY <3>1, <3>2 DEF PrintInit, InFormat
  <2> QED
    BY <2>1, <2>3, <2>4
<1>2. Typed /\ [PrintNext]_kprintfVars => Typed'
  <2> SUFFICES ASSUME Typed, [PrintNext]_kprintfVars PROVE Typed'
    OBVIOUS
  <2>1. PICK f \in Seq(Char) : \E M : InFormat(f, M)
    BY DEF Typed
  <2>2. PICK M : InFormat(f, M)
    BY <2>1
  <2>3. CASE UNCHANGED <<at, printVars>>
    <3>1. InFormat(f, M)' /\ PrintTyped'
      BY <2>2, <2>3 DEF InFormat, PrintTyped, printVars
    <3>2. MemTyped'
      <4>1. CASE NextString
        BY <4>1, NextStringTyped
      <4>2. CASE UNCHANGED mem
        BY <4>2 DEF MemTyped
      <4>3. CASE PrintStep
        BY <4>2, <4>3, PrintKeepsStrings DEF stringVars
      <4>4. ASSUME NEW items, Kprintf(items) PROVE UNCHANGED mem
        BY <4>4 DEF Kprintf
      <4> QED
        BY <4>1, <4>2, <4>3, <4>4 DEF PrintNext, kprintfVars, stringVars
    <3> QED
      BY <3>1, <3>2
  <2>4. CASE PrintStep
    <3>1. InFormat(f, M)' /\ PrintTyped'
      BY <2>2, <2>4, PrintStepTyped
    <3>2. MemTyped'
      BY <2>4, PrintKeepsStrings DEF stringVars, MemTyped
    <3> QED
      BY <3>1, <3>2
  <2>5. ASSUME NEW items \in Seq(Item), Kprintf(items) PROVE Typed'
    <3>1. MemTyped'
      BY <2>5 DEF Kprintf, MemTyped
    <3>2. Scanning' /\ PrintTyped'
      BY <2>5, CallInFormat
    <3> QED
      BY <3>1, <3>2
  <2>6. \A items \in Requests : items \in Seq(Item)
    BY KprintfAssumption
  <2> QED
    BY <2>3, <2>4, <2>5, <2>6, StringPieceItem DEF PrintNext, kprintfVars
<1> QED
  BY <1>1, <1>2, PTL DEF PrintSpec

(* For every format, arguments and memory kprintf returns the number of    *)
(* characters it has given to the firmware: signs, padding and strings     *)
(* included, and also behind a directive it does not know.                 *)
THEOREM ReturnsBytesWritten == PrintSpec => []BytesCounted
<1>1. Typed => BytesCounted
  BY DEF Typed, PrintTyped, BytesCounted
<1> QED
  BY <1>1, AlwaysTyped, PTL

(* For every format that the compiler lets through, whatever follows its   *)
(* percent signs, kprintf reads no character behind the NUL: it stands on  *)
(* it at most, in a width and behind an l as well.  What it prints are     *)
(* characters, and what is left of the arguments is what was passed.       *)
THEOREM ScanStaysInFormat == PrintSpec => []PrintTypeOK
<1>1. Typed => PrintTypeOK
  <2> SUFFICES ASSUME Typed PROVE PrintTypeOK
    OBVIOUS
  <2>1. PICK f \in Seq(Char) : \E M : InFormat(f, M)
    BY DEF Typed
  <2>2. PICK M : InFormat(f, M)
    BY <2>1
  <2>3. index \in 0 .. Len(format) - 1
    <3>1. Len(f \o <<NUL>>) = Len(f) + 1 /\ Len(f) \in Nat
      OBVIOUS
    <3>2. index \in 0 .. Len(f) /\ format = f \o <<NUL>>
      BY <2>2 DEF InFormat, OnScan
    <3> QED
      BY <3>1, <3>2
  <2>4. num_written \in Nat /\ PrintTyped /\ MemTyped
    BY DEF Typed, PrintTyped
  <2>5. va \in Seq([kind : {"number", "string"}, val : Int])
    <3> DEFINE S == [kind : {"number", "string"}, val : Int]
    <3>1. Args \subseteq S
      BY DEF Args
    <3> HIDE DEF S
    <3>2. va \in Seq(S)
      BY <3>1 DEF Typed, PrintTyped
    <3> QED
      BY <3>2 DEF S
  <2> QED
    BY <2>3, <2>4, <2>5 DEF PrintTypeOK, MemTyped, PrintTyped, Byte
<1> QED
  BY <1>1, AlwaysTyped, PTL

-----------------------------------------------------------------------------
(* What is printed is what was asked for: where the scan stands between    *)
(* the pieces of the request, with what was printed of them, and which of  *)
(* the arguments are left.                                                 *)

Letters(shows) ==
  CASE shows = "percent" -> <<PERCENT>>
    [] shows = "char" -> <<LOWER_C>>
    [] shows = "string" -> <<LOWER_S>>
    [] shows = "int" -> <<LOWER_D>>
    [] shows = "ulong" -> <<LOWER_L, LOWER_U>>
    [] shows = "hex" -> <<LOWER_X>>
    [] shows = "ulonghex" -> <<LOWER_L, LOWER_X>>

(* A directive without a width, and one with digits behind its 0.          *)
Plain(text, letters) ==
  /\ Len(text) = 1 + Len(letters) /\ text[1] = PERCENT
  /\ \A k \in 1 .. Len(letters) : text[1 + k] = letters[k]

Wide(text, digits, letters) ==
  /\ Len(text) = 2 + Len(digits) + Len(letters) /\ text[1] = PERCENT /\ text[2] = DIGIT_0
  /\ \A k \in 1 .. Len(digits) : text[2 + k] = digits[k]
  /\ \A k \in 1 .. Len(letters) : text[2 + Len(digits) + k] = letters[k]

(* The value of the first k digits is read[k].                             *)
Reads(read, digits) ==
  /\ read[0] = 0 /\ read[Len(digits)] = Value(digits)
  /\ \A k \in 1 .. Len(digits) : read[k] = read[k - 1] * 10 + (digits[k] - DIGIT_0)

(* Where the j-th piece starts.                                            *)
Start(items, j) == Len(Together(TextsOf(items), j - 1))

(* What stdio.c makes of a piece.  Of a decimal number it prints the       *)
(* numeral backwards, and "-0" for every negative one.                     *)
Expected(item) ==
  LET piece == item.piece
      val == item.val
  IN  CASE piece.shows = "text" -> piece.text
        [] piece.shows = "percent" -> <<PERCENT>>
        [] piece.shows = "char" -> <<val % 256>>
        [] piece.shows = "string" -> StringIn(mem, val)
        [] piece.shows = "int" ->
             IF val < 0 THEN <<MINUS, DIGIT_0>> ELSE Reverse(Numeral(val, 10))
        [] piece.shows = "ulong" -> Reverse(Numeral(Unsigned(val, ULONG_MAX), 10))
        [] piece.shows = "hex" -> Padded(Numeral(Unsigned(val, UINT_MAX), 16), piece.pad)
        [] piece.shows = "ulonghex" -> Padded(Numeral(Unsigned(val, ULONG_MAX), 16), piece.pad)

(* That of each piece that it implements.                                  *)
PrintedOf(items) ==
  [i \in DOMAIN items |-> IF items[i].piece.shows = "unsupported" THEN <<>> ELSE Expected(items[i])]

(* The pieces before the j-th have been printed, and this one is known.    *)
Reached(items, j) ==
  LET passed == Together(PassedOf(items), Len(items))
      fetched == Len(Together(PassedOf(items), j - 1))
  IN  /\ j \in 1 .. Len(items) + 1
      /\ \A i \in 1 .. Len(items) : i <= j => items[i].piece.shows # "unsupported"
      /\ Len(va) = Len(passed) - fetched
      /\ \A k \in 1 .. Len(va) : va[k] = passed[fetched + k]

Between(items, printed, j) ==
  /\ at = "scan" /\ Reached(items, j)
  /\ index = Start(items, j) /\ console = Together(printed, j - 1)

InText(items, printed, j, o) ==
  /\ at = "scan" /\ Reached(items, j)
  /\ j \in 1 .. Len(items) /\ items[j].piece.shows = "text"
  /\ o \in 0 .. Len(items[j].piece.text) - 1 /\ index = Start(items, j) + o
  /\ console = Together(printed, j - 1) \o SubSeq(items[j].piece.text, 1, o)

InWidth(items, printed, j, digits, o) ==
  LET piece == items[j].piece
  IN  /\ at = "pad" /\ Reached(items, j)
      /\ j \in 1 .. Len(items) /\ piece.shows \in {"hex", "ulonghex"}
      /\ digits \in Seq(DecimalDigits) /\ piece.pad = Value(digits)
      /\ Wide(piece.text, digits, Letters(piece.shows))
      /\ o \in 0 .. Len(digits) /\ index = Start(items, j) + 2 + o
      /\ \E read : Reads(read, digits) /\ zero_pad_width = read[o]
      /\ console = Together(printed, j - 1)

InDirective(items, printed, j) ==
  LET piece == items[j].piece
  IN  /\ at = "convert" /\ Reached(items, j)
      /\ j \in 1 .. Len(items) /\ piece.shows # "text"
      /\ index = Start(items, j) + Len(piece.text) - Len(Letters(piece.shows))
      /\ piece.shows \in {"hex", "ulonghex"} => zero_pad_width = piece.pad
      /\ console = Together(printed, j - 1)

Finished(items, printed) ==
  /\ at = "done" /\ console = Together(printed, Len(items))
  /\ \A i \in 1 .. Len(items) : items[i].piece.shows # "unsupported"

(* Behind a directive that stdio.c does not implement only what was        *)
(* printed before it is known.                                             *)
Astray(items, printed) ==
  \E u \in 1 .. Len(items) :
    /\ items[u].piece.shows = "unsupported"
    /\ \A i \in 1 .. u - 1 : items[i].piece.shows # "unsupported"
    /\ IsPrefix(Together(printed, u - 1), console)

OnItem(items, printed) ==
  \E j \in 1 .. Len(items) + 1 :
    \/ Between(items, printed, j)
    \/ \E o \in Nat : InText(items, printed, j, o)
    \/ \E digits \in Seq(DecimalDigits) : \E o \in Nat : InWidth(items, printed, j, digits, o)
    \/ InDirective(items, printed, j)

Progress(items, printed) ==
  Astray(items, printed) \/ Finished(items, printed) \/ OnItem(items, printed)

Asked(items) ==
  /\ items \in Seq(Item)
  /\ \A i \in 1 .. Len(items) : items[i].piece.takes = "string" => Terminated(items[i].val)

Printing ==
  at = "idle" \/ /\ Asked(request)
                 /\ format = Together(TextsOf(request), Len(request)) \o <<NUL>>
                 /\ Progress(request, PrintedOf(request))

LEMMA ValueReads ==
  ASSUME NEW digits \in Seq(DecimalDigits)
  PROVE  \E read : Reads(read, digits)
<1> PICK n : n = Len(digits)
  OBVIOUS
<1>1. n \in Nat /\ \A k \in 1 .. n : digits[k] - DIGIT_0 \in Int
  BY DEF DecimalDigits, DIGIT_0
<1> DEFINE Phi(f) == f = [k \in 0 .. Len(digits) |->
                            IF k = 0 THEN 0 ELSE f[k - 1] * 10 + (digits[k] - DIGIT_0)]
           read == CHOOSE f : Phi(f)
           more(m, k) == m * 10 + (digits[k] - DIGIT_0)
           node == [x \in Int \X Nat |-> IF x[2] \in 1 .. n THEN more(x[1], x[2]) ELSE 0]
<1>2. Value(digits) = read[n]
  BY Zenon DEF Value
<1>3. ASSUME NEW m \in Int, NEW k \in 1 .. n PROVE more(m, k) \in Int
  BY <1>1
<1>4. node \in [Int \X Nat -> Int] /\ \A m \in Int, k \in 1 .. n : node[<<m, k>>] = more(m, k)
  <2> HIDE DEF more
  <2>1. ASSUME NEW x \in Int \X Nat PROVE (IF x[2] \in 1 .. n THEN more(x[1], x[2]) ELSE 0) \in Int
    BY <1>3
  <2> QED
    BY <1>1, <2>1
<1> HIDE DEF node
<1>5. PICK f : StepSolution(f, Int, 0, node)
  <2>1. 0 \in Int /\ node \in [Int \X Nat -> Int]
    BY <1>4
  <2> QED
    BY ONLY <2>1, StepRecursion
<1> DEFINE g == [k \in 0 .. n |-> f[k]]
<1>6. ASSUME NEW k \in 0 .. n
      PROVE  g[k] = IF k = 0 THEN 0 ELSE g[k - 1] * 10 + (digits[k] - DIGIT_0)
  <2>1. CASE k = 0
    BY <1>5, <2>1 DEF StepSolution
  <2>2. CASE k # 0
    <3>1. k - 1 \in Nat /\ k - 1 \in 0 .. n /\ k \in 1 .. n /\ k \in Nat \ {0}
      BY <1>1, <2>2
    <3>2. f[k] = node[<<f[k - 1], k>>] /\ f[k - 1] \in Int
      BY <1>5, <3>1 DEF StepSolution
    <3>3. f[k] = more(f[k - 1], k)
      BY <1>4, <3>1, <3>2
    <3>4. g[k] = f[k] /\ g[k - 1] = f[k - 1]
      BY <3>1
    <3> QED
      BY <2>2, <3>3, <3>4
  <2> QED
    BY <2>1, <2>2
<1>7. g = [k \in 0 .. n |-> g[k]]
  OBVIOUS
<1> HIDE DEF g
<1>8. Phi(g)
  BY <1>6, <1>7
<1>9. Phi(read)
  <2> HIDE DEF Phi
  <2> QED
    BY <1>8
<1> HIDE DEF read
<1>10. \A k \in 0 .. n : read[k] = IF k = 0 THEN 0 ELSE read[k - 1] * 10 + (digits[k] - DIGIT_0)
  BY <1>9
<1>11. 0 \in 0 .. n /\ \A k \in 1 .. n : k \in 0 .. n /\ k # 0
  BY <1>1
<1>12. read[0] = 0 /\ \A k \in 1 .. n : read[k] = read[k - 1] * 10 + (digits[k] - DIGIT_0)
  BY <1>10, <1>11
<1>13. Reads(read, digits)
  BY <1>2, <1>12 DEF Reads
<1> QED
  BY <1>13

LEMMA LettersAre ==
  ASSUME NEW shows \in Shown \ {"text", "unsupported"}
  PROVE  /\ Letters(shows) \in Seq(Char) /\ Len(Letters(shows)) \in {1, 2}
         /\ Letters(shows)[1] \notin DecimalDigits
         /\ Len(Letters(shows)) = 2 <=> shows \in {"ulong", "ulonghex"}
         /\ shows = "percent" => Letters(shows)[1] = PERCENT
         /\ shows = "char" => Letters(shows)[1] = LOWER_C
         /\ shows = "string" => Letters(shows)[1] = LOWER_S
         /\ shows = "int" => Letters(shows)[1] = LOWER_D
         /\ shows = "hex" => Letters(shows)[1] = LOWER_X
         /\ shows = "ulong" => Letters(shows)[1] = LOWER_L /\ Letters(shows)[2] = LOWER_U
         /\ shows = "ulonghex" => Letters(shows)[1] = LOWER_L /\ Letters(shows)[2] = LOWER_X
<1> USE DEF Letters, Char, DecimalDigits, DIGIT_0, PERCENT, LOWER_C, LOWER_D, LOWER_L, LOWER_S,
            LOWER_U, LOWER_X
<1>1. CASE shows = "percent"
  BY <1>1
<1>2. CASE shows = "char"
  BY <1>2
<1>3. CASE shows = "string"
  BY <1>3
<1>4. CASE shows = "int"
  BY <1>4
<1>5. CASE shows = "ulong"
  BY <1>5
<1>6. CASE shows = "hex"
  BY <1>6
<1>7. CASE shows = "ulonghex"
  BY <1>7
<1> QED
  BY <1>1, <1>2, <1>3, <1>4, <1>5, <1>6, <1>7 DEF Shown

LEMMA PlainIs ==
  ASSUME NEW letters \in Seq(Char), NEW text, text = <<PERCENT>> \o letters
  PROVE  Plain(text, letters)
<1> PICK p : p = <<PERCENT>>
  OBVIOUS
<1>1. p \in Seq(Char) /\ Len(p) = 1 /\ p[1] = PERCENT
  BY DEF Char, PERCENT
<1>2. /\ Len(text) = 1 + Len(letters) /\ \A k \in 1 .. 1 : text[k] = p[k]
      /\ \A k \in 1 .. Len(letters) : text[1 + k] = letters[k]
  BY <1>1, Joins
<1> QED
  BY <1>1, <1>2 DEF Plain

LEMMA WideIs ==
  ASSUME NEW letters \in Seq(Char), NEW digits \in Seq(DecimalDigits), NEW text,
         text = <<PERCENT, DIGIT_0>> \o digits \o letters
  PROVE  Wide(text, digits, letters)
<1> PICK p : p = <<PERCENT, DIGIT_0>>
  OBVIOUS
<1> PICK q : q = p \o digits
  OBVIOUS
<1>1. p \in Seq(Char) /\ Len(p) = 2 /\ p[1] = PERCENT /\ p[2] = DIGIT_0
  BY DEF Char, PERCENT, DIGIT_0
<1>2. digits \in Seq(Char)
  <2>1. DecimalDigits \subseteq Char
    BY DEF DecimalDigits, DIGIT_0, Char
  <2> QED
    BY <2>1
<1>3. /\ q \in Seq(Char) /\ Len(q) = 2 + Len(digits) /\ \A k \in 1 .. 2 : q[k] = p[k]
      /\ \A k \in 1 .. Len(digits) : q[2 + k] = digits[k]
  BY <1>1, <1>2, Joins
<1>4. text = q \o letters
  OBVIOUS
<1>5. /\ Len(text) = Len(q) + Len(letters) /\ \A k \in 1 .. Len(q) : text[k] = q[k]
      /\ \A k \in 1 .. Len(letters) : text[Len(q) + k] = letters[k]
  BY <1>3, <1>4, Joins
<1>6. Len(digits) \in Nat
  OBVIOUS
<1>7. 1 \in 1 .. Len(q) /\ 2 \in 1 .. Len(q) /\ \A k \in 1 .. Len(digits) : 2 + k \in 1 .. Len(q)
  BY <1>3, <1>6
<1> QED
  BY <1>1, <1>3, <1>5, <1>7 DEF Wide

(* The text of a directive.                                                *)
LEMMA DirectiveIs ==
  ASSUME NEW piece \in Piece, piece.shows \notin {"text", "unsupported"}
  PROVE  LET letters == Letters(piece.shows)
             padded == piece.shows \in {"hex", "ulonghex"}
         IN  \/ Plain(piece.text, letters) /\ (padded => piece.pad = 0)
             \/ padded /\ \E digits \in Seq(DecimalDigits) :
                            Wide(piece.text, digits, letters) /\ piece.pad = Value(digits)
<1> PICK shows : shows = piece.shows
  OBVIOUS
<1> PICK text : text = piece.text
  OBVIOUS
<1>1. shows \in Shown \ {"text", "unsupported"} /\ Specified(piece)
  BY DEF Piece
<1>2. Letters(shows) \in Seq(Char)
  BY <1>1, LettersAre
<1>3. CASE shows \notin {"hex", "ulonghex"}
  <2>1. text = <<PERCENT>> \o Letters(shows)
    <3>1. CASE shows = "percent"
      BY <1>1, <3>1 DEF Specified, Letters
    <3>2. CASE shows = "char"
      BY <1>1, <3>2 DEF Specified, Letters
    <3>3. CASE shows = "string"
      BY <1>1, <3>3 DEF Specified, Letters
    <3>4. CASE shows = "int"
      BY <1>1, <3>4 DEF Specified, Letters
    <3>5. CASE shows = "ulong"
      BY <1>1, <3>5 DEF Specified, Letters
    <3> QED
      BY <1>1, <1>3, <3>1, <3>2, <3>3, <3>4, <3>5 DEF Shown
  <2>2. Plain(text, Letters(shows))
    BY <1>2, <2>1, PlainIs
  <2> QED
    BY <1>3, <2>2
<1>4. CASE shows \in {"hex", "ulonghex"}
  <2> PICK letters : letters = Letters(shows)
    OBVIOUS
  <2>1. WithWidth(text, piece.pad, letters)
    <3>1. CASE shows = "hex"
      BY <1>1, <3>1 DEF Specified, Letters
    <3>2. CASE shows = "ulonghex"
      BY <1>1, <3>2 DEF Specified, Letters
    <3> QED
      BY <1>4, <3>1, <3>2
  <2> PICK digits : digits = SubSeq(text, 3, Len(text) - Len(letters))
    OBVIOUS
  <2>2. \/ text = <<PERCENT>> \o letters /\ piece.pad = 0
        \/ /\ digits \in Seq(DecimalDigits) /\ piece.pad = Value(digits)
           /\ text = <<PERCENT, DIGIT_0>> \o digits \o letters
    BY <2>1, Zenon DEF WithWidth
  <2>3. letters \in Seq(Char)
    BY <1>2
  <2>4. CASE text = <<PERCENT>> \o letters /\ piece.pad = 0
    <3>1. Plain(text, letters)
      BY <2>3, <2>4, PlainIs
    <3> QED
      BY <2>4, <3>1
  <2>5. CASE /\ digits \in Seq(DecimalDigits) /\ piece.pad = Value(digits)
             /\ text = <<PERCENT, DIGIT_0>> \o digits \o letters
    <3>1. Wide(text, digits, letters)
      BY <2>3, <2>5, WideIs
    <3> QED
      BY <1>4, <2>5, <3>1
  <2> QED
    BY <2>2, <2>4, <2>5
<1> QED
  BY <1>3, <1>4

LEMMA CharactersAre ==
  ASSUME NEW s \in Address, Terminated(s)
  PROVE  Characters(s) = StringIn(mem, s)
<1> PICK e : e = EndOf(mem, s)
  OBVIOUS
<1>1. s \in Nat /\ MemSize \in Nat
  BY CStringAssumption DEF Address
<1>2. Nuls(mem, s) # {}
  BY DEF Nuls, Terminated
<1>3. /\ e \in s .. MemSize - 1 /\ mem[e] = NUL
      /\ \A a \in s .. e - 1 : a \in Address /\ mem[a] # NUL
      /\ StringIn(mem, s) = [k \in 1 .. e - s |-> mem[s + k - 1]]
  BY <1>1, <1>2, EndIs
<1> DEFINE before == {a \in Address : s <= a /\ \A b \in s .. a : mem[b] # NUL}
           count == Cardinality(before)
<1>4. before = s .. e - 1
  <2>1. ASSUME NEW a \in s .. e - 1 PROVE a \in before
    <3>1. a \in Address /\ s <= a
      BY <1>1, <1>3
    <3>2. \A b \in s .. a : b \in s .. e - 1
      BY <1>1, <1>3
    <3> QED
      BY <1>3, <3>1, <3>2
  <2>2. ASSUME NEW a \in before PROVE a \in s .. e - 1
    <3>1. a \in Nat /\ s <= a /\ e \notin s .. a
      BY <1>3 DEF Address
    <3> QED
      BY <1>1, <1>3, <3>1
  <2> QED
    BY <2>1, <2>2
<1>5. count = e - s
  <2>1. s \in Int /\ e - 1 \in Int /\ e \in Int /\ s <= e
    BY <1>1, <1>3
  <2>2. Cardinality(s .. e - 1) = IF s > e - 1 THEN 0 ELSE (e - 1) - s + 1
    BY <2>1, FS_Interval
  <2>3. count = Cardinality(s .. e - 1)
    BY <1>4
  <2> HIDE DEF count
  <2> QED
    BY ONLY <2>1, <2>2, <2>3
<1>6. Characters(s) = [k \in 1 .. count |-> mem[s + k - 1]]
  BY DEF Characters
<1> HIDE DEF count
<1> QED
  BY <1>3, <1>5, <1>6

(* What converting a piece prints, for the argument that belongs to it.    *)
LEMMA PrintedIs ==
  ASSUME MemTyped, NEW item \in Item, item.piece.shows # "unsupported",
         item.piece.takes = "string" => Terminated(item.val)
  PROVE  /\ Expected(item) \in Seq(Byte)
         /\ item.piece.shows = "text" => Expected(item) = item.piece.text
         /\ item.piece.shows = "percent" => Expected(item) = <<PERCENT>>
         /\ item.piece.shows = "char" => Expected(item) = <<item.val % 256>>
         /\ item.piece.shows = "string" => Expected(item) = Characters(item.val)
         /\ item.piece.shows = "int" => Expected(item) = Number(Signed(item.val))
         /\ item.piece.shows = "ulong" => Expected(item) = ULong(Unsigned(item.val, ULONG_MAX))
         /\ item.piece.shows = "hex" =>
              Expected(item) = HexPadded(Unsigned(item.val, UINT_MAX), item.piece.pad)
         /\ item.piece.shows = "ulonghex" =>
              Expected(item) = HexULongPadded(Unsigned(item.val, ULONG_MAX), item.piece.pad)
<1> PICK shows, val, pad : shows = item.piece.shows /\ val = item.val /\ pad = item.piece.pad
  OBVIOUS
<1>1. /\ val \in Int /\ item.piece \in Piece /\ pad \in Nat /\ shows \in Shown
      /\ item.piece.text \in Seq(Char) /\ item.piece.takes \in Takes(shows)
      /\ item.piece.takes = "string" => val \in Address
      /\ shows = "int" => val \in -(INT_MAX + 1) .. INT_MAX
  BY DEF Item, Piece
<1>2. ULONG_MAX \in Nat /\ UINT_MAX \in Nat
  BY KprintfAssumption
<1>3. Unsigned(val, ULONG_MAX) \in Nat /\ Unsigned(val, UINT_MAX) \in Nat
  <2>1. Unsigned(val, ULONG_MAX) \in 0 .. ULONG_MAX /\ Unsigned(val, UINT_MAX) \in 0 .. UINT_MAX
    BY <1>1, <1>2, UnsignedIs
  <2> QED
    BY <1>2, <2>1
<1>4. CASE shows = "text"
  <2>1. Expected(item) = item.piece.text
    BY <1>4 DEF Expected
  <2>2. Char \subseteq Byte
    BY DEF Char, Byte
  <2> QED
    BY <1>1, <1>4, <2>1, <2>2
<1>5. CASE shows = "percent"
  <2>1. Expected(item) = <<PERCENT>>
    BY <1>5 DEF Expected
  <2>2. PERCENT \in Byte
    BY DEF PERCENT, Byte
  <2> QED
    BY <1>5, <2>1, <2>2
<1>6. CASE shows = "char"
  <2>1. Expected(item) = <<val % 256>>
    BY <1>6 DEF Expected
  <2>2. val % 256 \in Byte
    <3>1. val \in Int
      BY <1>1
    <3> QED
      BY ONLY <3>1 DEF Byte
  <2> QED
    BY <1>6, <2>1, <2>2
<1>7. CASE shows = "string"
  <2>1. Expected(item) = StringIn(mem, val)
    BY <1>7 DEF Expected
  <2>2. item.piece.takes = "string"
    BY <1>1, <1>7 DEF Takes
  <2>3. val \in Address /\ Terminated(val)
    BY <1>1, <2>2
  <2>4. Characters(val) = StringIn(mem, val) /\ Characters(val) \in Seq(Byte)
    BY <2>3, CharactersAre, StringBytes
  <2> QED
    BY <1>7, <2>1, <2>4
<1>8. CASE shows = "int"
  <2>1. Expected(item) = IF val < 0 THEN <<MINUS, DIGIT_0>> ELSE Reverse(Numeral(val, 10))
    BY <1>8, Zenon DEF Expected
  <2>2. Signed(val) = val
    BY <1>1, <1>8, SignedIs
  <2>3. Number(val) = Expected(item) /\ Number(val) \in Seq(Byte)
    BY <1>1, <2>1, NumberIs
  <2> QED
    BY <1>8, <2>2, <2>3
<1>9. CASE shows = "ulong"
  <2>1. Expected(item) = Reverse(Numeral(Unsigned(val, ULONG_MAX), 10))
    BY <1>9, Zenon DEF Expected
  <2> QED
    BY <1>3, <1>9, <2>1, ULongIs
<1>10. CASE shows = "hex"
  <2>1. Expected(item) = Padded(Numeral(Unsigned(val, UINT_MAX), 16), pad)
    BY <1>10, Zenon DEF Expected
  <2> QED
    BY <1>1, <1>3, <1>10, <2>1, HexIs
<1>11. CASE shows = "ulonghex"
  <2>1. Expected(item) = Padded(Numeral(Unsigned(val, ULONG_MAX), 16), pad)
    BY <1>11, Zenon DEF Expected
  <2> QED
    BY <1>1, <1>3, <1>11, <2>1, HexIs DEF HexULongPadded
<1> QED
  BY <1>1, <1>4, <1>5, <1>6, <1>7, <1>8, <1>9, <1>10, <1>11 DEF Shown

LEMMA PieceChar ==
  ASSUME NEW items \in Seq(Item), format = Together(TextsOf(items), Len(items)) \o <<NUL>>,
         NEW j \in 1 .. Len(items), NEW o \in Nat, o < Len(items[j].piece.text),
         NEW i, i = Start(items, j) + o
  PROVE  At(i) = items[j].piece.text[o + 1]
<1> PICK n, T, m, p : n = Len(items) /\ T = TextsOf(items) /\ m = j - 1 /\ p = o + 1
  OBVIOUS
<1>1. n \in Nat /\ \A k \in 1 .. n : T[k] \in Seq(Char)
  BY ItemsTyped
<1>2. T[j] = items[j].piece.text
  BY ItemsTyped
<1>3. p \in 1 .. Len(T[j])
  BY <1>1, <1>2
<1>4. /\ Together(T, n)[Len(Together(T, m)) + p] = T[j][p]
      /\ Len(Together(T, m)) + p <= Len(Together(T, n)) /\ Len(Together(T, m)) \in Nat
  <2>1. n \in Nat
    BY <1>1
  <2>2. j \in 1 .. n
    OBVIOUS
  <2>3. m = j - 1
    OBVIOUS
  <2>4. \A k \in 1 .. n : T[k] \in Seq(Char)
    BY <1>1
  <2>5. p \in 1 .. Len(T[j])
    BY <1>3
  <2>6. Placed(T, n, j, m, p)
    BY ONLY <2>1, <2>2, <2>3, <2>4, <2>5, PieceAt
  <2> QED
    BY <2>6 DEF Placed
<1> PICK f : f = Together(T, n)
  OBVIOUS
<1>5. f \in Seq(Char)
  <2>1. n \in 0 .. n
    BY <1>1
  <2> QED
    BY <1>1, <2>1, TogetherGrows
<1>6. format = f \o <<NUL>>
  OBVIOUS
<1>7. i \in 0 .. Len(f) /\ i < Len(f) /\ i + 1 = Len(Together(T, m)) + p
  <2>1. i = Len(Together(T, m)) + o /\ Len(f) \in Nat
    BY <1>5 DEF Start
  <2> QED
    BY <1>4, <2>1
<1>8. At(i) = f[i + 1]
  BY ONLY <1>5, <1>6, <1>7, AtPlace
<1> QED
  BY <1>2, <1>4, <1>7, <1>8

LEMMA EndChar ==
  ASSUME NEW items \in Seq(Item), format = Together(TextsOf(items), Len(items)) \o <<NUL>>,
         NEW j, j = Len(items) + 1
  PROVE  At(Start(items, j)) = NUL
<1> PICK n, T, f : n = Len(items) /\ T = TextsOf(items) /\ f = Together(T, n)
  OBVIOUS
<1>1. n \in Nat /\ n \in 0 .. n /\ \A k \in 1 .. n : T[k] \in Seq(Char)
  BY ItemsTyped
<1>2. f \in Seq(Char)
  BY <1>1, TogetherGrows
<1>3. Start(items, j) = Len(f)
  <2>1. j - 1 = n
    BY <1>1
  <2> QED
    BY <2>1 DEF Start
<1>4. (f \o <<NUL>>)[Len(f) + 1] = NUL
  BY <1>2
<1> QED
  BY <1>3, <1>4 DEF At

LEMMA StartNext ==
  ASSUME NEW items \in Seq(Item), NEW j \in 1 .. Len(items), NEW i, i = j + 1
  PROVE  /\ Start(items, j) \in Nat
         /\ Start(items, i) = Start(items, j) + Len(items[j].piece.text)
<1> PICK n, T, m : n = Len(items) /\ T = TextsOf(items) /\ m = j - 1
  OBVIOUS
<1>1. n \in Nat /\ \A k \in 1 .. n : T[k] \in Seq(Char)
  BY ItemsTyped
<1>2. T[j] = items[j].piece.text
  BY ItemsTyped
<1>3. m \in 0 .. n /\ i - 1 = j
  BY <1>1
<1> PICK f, g : f = Together(T, m) /\ g = Together(T, j)
  OBVIOUS
<1>4. f \in Seq(Char) /\ T[j] \in Seq(Char)
  BY <1>1, <1>3, TogetherGrows
<1>5. g = f \o T[j]
  BY <1>1, TogetherGrows
<1>6. Len(g) = Len(f) + Len(T[j]) /\ Len(f) \in Nat
  BY ONLY <1>4, <1>5, Joins
<1> QED
  BY <1>2, <1>3, <1>6 DEF Start

LEMMA FetchedNext ==
  ASSUME NEW items \in Seq(Item), NEW j \in 1 .. Len(items), NEW m, m = j - 1
  PROVE  LET P == PassedOf(items)
         IN  /\ Len(Together(P, m)) \in Nat /\ Len(Passed(items[j])) \in Nat
             /\ Len(Together(P, j)) = Len(Together(P, m)) + Len(Passed(items[j]))
             /\ Len(Together(P, j)) <= Len(Together(P, Len(items)))
             /\ Len(Together(P, Len(items))) \in Nat
<1> PICK n, P : n = Len(items) /\ P = PassedOf(items)
  OBVIOUS
<1>1. n \in Nat /\ \A k \in 1 .. n : P[k] \in Seq(Args)
  BY ItemsTyped
<1>2. P[j] = Passed(items[j])
  BY ItemsTyped
<1>3. m \in 0 .. n /\ n \in 0 .. n
  BY <1>1
<1> PICK f, g, h : f = Together(P, m) /\ g = Together(P, j) /\ h = Together(P, n)
  OBVIOUS
<1>4. f \in Seq(Args) /\ P[j] \in Seq(Args) /\ h \in Seq(Args)
  BY <1>1, <1>3, TogetherGrows
<1>5. g = f \o P[j]
  BY <1>1, TogetherGrows
<1>6. Len(g) = Len(f) + Len(P[j]) /\ Len(f) \in Nat /\ Len(P[j]) \in Nat /\ Len(h) \in Nat
  BY ONLY <1>4, <1>5, Joins
<1>7. Len(g) <= Len(h)
  BY <1>1, TogetherAt
<1> QED
  BY <1>2, <1>6, <1>7

(* The next argument is the one that the caller gave for the piece.        *)
LEMMA ArgumentIs ==
  ASSUME NEW items \in Seq(Item), NEW j \in 1 .. Len(items), Reached(items, j),
         va \in Seq(Args), items[j].piece.takes # "nothing"
  PROVE  /\ va # <<>> /\ VaArg = items[j].val /\ va[1].kind = items[j].piece.takes
         /\ Len(Passed(items[j])) = 1
<1> PICK n, P, m : n = Len(items) /\ P = PassedOf(items) /\ m = j - 1
  OBVIOUS
<1> DEFINE arg == [kind |-> items[j].piece.takes, val |-> items[j].val]
<1>1. n \in Nat /\ \A k \in 1 .. n : P[k] \in Seq(Args)
  BY ItemsTyped
<1>2. P[j] = <<arg>>
  <2>1. P[j] = Passed(items[j])
    BY ItemsTyped
  <2> QED
    BY <2>1 DEF Passed
<1>3. arg.kind = items[j].piece.takes /\ arg.val = items[j].val
  OBVIOUS
<1> HIDE DEF arg
<1>4. 1 \in 1 .. Len(P[j]) /\ P[j][1] = arg /\ Len(P[j]) = 1
  BY <1>2
<1>5. /\ Together(P, n)[Len(Together(P, m)) + 1] = P[j][1]
      /\ Len(Together(P, m)) + 1 <= Len(Together(P, n)) /\ Len(Together(P, m)) \in Nat
  <2>1. n \in Nat
    BY <1>1
  <2>2. j \in 1 .. n
    OBVIOUS
  <2>3. m = j - 1
    OBVIOUS
  <2>4. \A k \in 1 .. n : P[k] \in Seq(Args)
    BY <1>1
  <2>5. 1 \in 1 .. Len(P[j])
    BY <1>4
  <2>6. Placed(P, n, j, m, 1)
    BY ONLY <2>1, <2>2, <2>3, <2>4, <2>5, PieceAt
  <2> QED
    BY <2>6 DEF Placed
<1>6. /\ Len(va) = Len(Together(P, n)) - Len(Together(P, m))
      /\ \A k \in 1 .. Len(va) : va[k] = Together(P, n)[Len(Together(P, m)) + k]
  BY DEF Reached
<1>7. Len(va) \in Nat
  OBVIOUS
<1>8. 1 \in 1 .. Len(va)
  BY <1>5, <1>6, <1>7
<1>9. va[1] = arg /\ va # <<>>
  BY <1>4, <1>5, <1>6, <1>8
<1>10. Len(Passed(items[j])) = 1
  BY <1>4, ItemsTyped
<1> QED
  BY <1>3, <1>9, <1>10 DEF VaArg

LEMMA PrefixIs ==
  ASSUME NEW S, NEW s \in Seq(S), NEW t \in Seq(S), NEW u \in Seq(S),
         IsPrefix(s, t) \/ s = t
  PROVE  IsPrefix(s, t \o u)
<1>1. Len(s) \in Nat /\ Len(t) \in Nat /\ Len(u) \in Nat
  OBVIOUS
<1>2. Len(s) <= Len(t) /\ \A k \in 1 .. Len(s) : s[k] = t[k]
  <2>1. CASE s = t
    BY <1>1, <2>1
  <2>2. CASE IsPrefix(s, t)
    <3>1. Len(s) <= Len(t) /\ SubSeq(s, 1, Len(s)) = SubSeq(t, 1, Len(s))
      BY <2>2 DEF IsPrefix
    <3>2. \A k \in 1 .. Len(s) : SubSeq(s, 1, Len(s))[k] = s[k] /\ SubSeq(t, 1, Len(s))[k] = t[k]
      BY <1>1, <3>1
    <3> QED
      BY <3>1, <3>2
  <2> QED
    BY <2>1, <2>2
<1> PICK w : w = t \o u
  OBVIOUS
<1>3. w \in Seq(S) /\ Len(w) = Len(t) + Len(u) /\ \A k \in 1 .. Len(t) : w[k] = t[k]
  BY Joins
<1>4. Len(s) <= Len(w) /\ \A k \in 1 .. Len(s) : s[k] = w[k]
  BY <1>1, <1>2, <1>3
<1>5. SubSeq(s, 1, Len(s)) = SubSeq(w, 1, Len(s))
  BY ONLY <1>1, <1>3, <1>4, s \in Seq(S)
<1> QED
  BY <1>4, <1>5 DEF IsPrefix

LEMMA OneMore ==
  ASSUME NEW S, NEW s \in Seq(S), NEW o \in Nat, NEW p \in 1 .. Len(s), p = o + 1
  PROVE  /\ SubSeq(s, 1, o) \in Seq(S)
         /\ SubSeq(s, 1, p) = SubSeq(s, 1, o) \o <<s[p]>>
<1> PICK a, b, c, d : a = SubSeq(s, 1, o) /\ b = SubSeq(s, 1, p) /\ c = <<s[p]>> /\ d = a \o c
  OBVIOUS
<1>1. Len(s) \in Nat /\ o <= Len(s) /\ o \in 0 .. Len(s)
  OBVIOUS
<1>2. a \in Seq(S) /\ Len(a) = o /\ \A k \in 1 .. o : a[k] = s[k]
  BY <1>1
<1>3. b \in Seq(S) /\ Len(b) = p /\ \A k \in 1 .. p : b[k] = s[k]
  BY <1>1
<1>4. c \in Seq(S) /\ Len(c) = 1 /\ c[1] = s[p]
  OBVIOUS
<1>5. d \in Seq(S) /\ Len(d) = p /\ (\A k \in 1 .. o : d[k] = a[k]) /\ d[o + 1] = c[1]
  BY <1>2, <1>4, Joins
<1>6. \A k \in 1 .. p : b[k] = d[k]
  BY <1>2, <1>3, <1>4, <1>5
<1>7. b = d
  BY <1>3, <1>5, <1>6, SameSequence
<1> QED
  BY <1>2, <1>7

LEMMA JoinsJoined ==
  ASSUME NEW S, NEW a \in Seq(S), NEW b \in Seq(S), NEW c \in Seq(S)
  PROVE  (a \o b) \o c = a \o (b \o c)
OBVIOUS

(* What the scan finds while it prints the items.                          *)
Setting(items, printed) ==
  /\ Asked(items)
  /\ format = Together(TextsOf(items), Len(items)) \o <<NUL>>
  /\ MemTyped /\ console \in Seq(Byte) /\ va \in Seq(Args)
  /\ \A i \in 1 .. Len(items) :
       /\ printed[i] \in Seq(Byte)
       /\ items[i].piece.shows # "unsupported" => printed[i] = Expected(items[i])

(* The scan behind a piece is in front of the next one, if stdio.c knows   *)
(* it, or what follows is not known.                                       *)
LEMMA PieceEnds ==
  ASSUME NEW items, NEW printed, Setting(items, printed),
         NEW j \in 1 .. Len(items), Reached(items, j), at' = "scan",
         NEW m, m = Len(Passed(items[j])), Len(va') = Len(va) - m, va' \in Seq(Args),
         \A k \in 1 .. Len(va') : va'[k] = va[m + k],
         index' = Start(items, j) + Len(items[j].piece.text),
         console' = Together(printed, j - 1) \o printed[j]
  PROVE  Progress(items, printed)'
<1> PICK n, i : n = Len(items) /\ i = j + 1
  OBVIOUS
<1>1. n \in Nat /\ items \in Seq(Item) /\ \A k \in 1 .. n : printed[k] \in Seq(Byte)
  BY DEF Setting, Asked
<1>2. i \in 1 .. n + 1 /\ i - 1 = j
  BY <1>1
<1>3. console' = Together(printed, j) /\ Together(printed, j) \in Seq(Byte)
  <2>1. Together(printed, j) = Together(printed, j - 1) \o printed[j]
    <3>1. n \in Nat /\ j \in 1 .. n
      BY <1>1
    <3>2. \A k \in 1 .. n : printed[k] \in Seq(Byte)
      BY <1>1
    <3>3. \A k \in 1 .. n : Together(printed, k) = Together(printed, k - 1) \o printed[k]
      BY ONLY <3>1, <3>2, TogetherGrows
    <3> QED
      BY <3>1, <3>3
  <2>2. \A k \in 0 .. n : Together(printed, k) \in Seq(Byte)
    BY <1>1, TogetherGrows
  <2>3. j \in 1 .. n /\ j \in 0 .. n
    BY <1>1
  <2> QED
    BY <2>1, <2>2, <2>3
<1>4. index' = Start(items, i)
  BY <1>1, StartNext
<1>5. \A k \in 1 .. n : k <= j => items[k].piece.shows # "unsupported"
  BY DEF Reached
<1>6. CASE i <= n /\ items[i].piece.shows = "unsupported"
  <2>1. i \in 1 .. n
    BY <1>1, <1>2, <1>6
  <2>2. \A k \in 1 .. i - 1 : items[k].piece.shows # "unsupported"
    BY <1>1, <1>2, <1>5
  <2>3. IsPrefix(Together(printed, i - 1), console')
    <3> PICK s : s = Together(printed, j)
      OBVIOUS
    <3>1. s \in Seq(Byte) /\ <<>> \in Seq(Byte)
      BY <1>3
    <3>2. IsPrefix(s, s \o <<>>)
      BY ONLY <3>1, PrefixIs
    <3>3. s \o <<>> = s
      BY <3>1
    <3> QED
      BY <1>2, <1>3, <3>2, <3>3
  <2>4. Astray(items, printed)'
    BY <1>6, <2>1, <2>2, <2>3 DEF Astray
  <2> QED
    BY <2>4 DEF Progress
<1>7. CASE ~(i <= n /\ items[i].piece.shows = "unsupported")
  <2> PICK P, h, b, c : /\ P = PassedOf(items) /\ h = Together(P, n)
                        /\ b = Len(Together(P, j - 1)) /\ c = Len(Together(P, j))
    OBVIOUS
  <2>1. b \in Nat /\ m \in Nat /\ c = b + m /\ c <= Len(h) /\ Len(h) \in Nat
    BY <1>1, FetchedNext
  <2>2. Len(va) = Len(h) - b /\ \A k \in 1 .. Len(va) : va[k] = h[b + k]
    BY DEF Reached
  <2>3. Len(va') = Len(h) - c
    BY <2>1, <2>2
  <2>4. ASSUME NEW k \in 1 .. Len(va') PROVE va'[k] = h[c + k]
    <3>1. m + k \in 1 .. Len(va) /\ b + (m + k) = c + k
      BY <2>1, <2>2, <2>3
    <3> QED
      BY <2>2, <3>1
  <2>5. ASSUME NEW k \in 1 .. n, k <= i PROVE items[k].piece.shows # "unsupported"
    <3>1. k <= j \/ k = i
      BY <1>1, <2>5
    <3> QED
      BY <1>1, <1>5, <1>7, <3>1
  <2>6. Reached(items, i)'
    BY <1>2, <2>3, <2>4, <2>5 DEF Reached
  <2>7. Between(items, printed, i)'
    BY <1>2, <1>3, <1>4, <2>6 DEF Between
  <2>8. OnItem(items, printed)'
    BY <1>2, <2>7 DEF OnItem
  <2> QED
    BY <2>8 DEF Progress
<1> QED
  BY <1>6, <1>7

LEMMA ScanSteps ==
  ASSUME at = "scan", PrintStep
  PROVE  /\ At(index) \notin {NUL, PERCENT} => PlainChar
         /\ At(index) = NUL => Return
         /\ At(index) = PERCENT => Percent
BY DEF PrintStep, PlainChar, Return, Percent, ParseZeroPadWidth, ConvertLong, ConvertChar,
       ConvertInt, ConvertHex, ConvertString, ConvertPercent, ConvertDefault, NUL, PERCENT

LEMMA ConvertSteps ==
  ASSUME at = "convert", PrintStep
  PROVE  /\ At(index) = LOWER_L => ConvertLong
         /\ At(index) = LOWER_C => ConvertChar
         /\ At(index) = LOWER_D => ConvertInt
         /\ At(index) = LOWER_X => ConvertHex
         /\ At(index) = LOWER_S => ConvertString
         /\ At(index) = PERCENT => ConvertPercent
BY DEF PrintStep, PlainChar, Return, Percent, ParseZeroPadWidth, ConvertLong, ConvertChar,
       ConvertInt, ConvertHex, ConvertString, ConvertPercent, ConvertDefault,
       PERCENT, LOWER_C, LOWER_D, LOWER_L, LOWER_S, LOWER_X

(* One character of the text. *)
LEMMA TextStep ==
  ASSUME NEW items, NEW printed, Setting(items, printed), NEW j, NEW o,
         InText(items, printed, j, o), PrintStep
  PROVE  Progress(items, printed)'
<1> PICK text : text = items[j].piece.text
  OBVIOUS
<1> PICK n, p : n = Len(items) /\ p = o + 1
  OBVIOUS
<1>1. /\ items \in Seq(Item) /\ n \in Nat /\ console \in Seq(Byte) /\ va \in Seq(Args)
      /\ \A k \in 1 .. n : printed[k] \in Seq(Byte)
  BY DEF Setting, Asked
<1>2. /\ at = "scan" /\ Reached(items, j) /\ j \in 1 .. n /\ items[j].piece.shows = "text"
      /\ o \in 0 .. Len(text) - 1 /\ index = Start(items, j) + o
      /\ console = Together(printed, j - 1) \o SubSeq(text, 1, o)
  BY DEF InText
<1>3. items[j] \in Item /\ items[j].piece \in Piece /\ text \in Seq(Char)
  BY <1>1, <1>2, ItemTyped
<1>4. text \in Seq(Byte) /\ Len(text) \in Nat
  <2>1. Char \subseteq Byte
    BY DEF Char, Byte
  <2> QED
    BY <1>3, <2>1
<1>5. p \in 1 .. Len(text) /\ o \in Nat /\ o < Len(text)
  BY <1>2, <1>4
<1>6. At(index) = text[p]
  <2>1. format = Together(TextsOf(items), Len(items)) \o <<NUL>>
    BY DEF Setting
  <2> QED
    BY <1>1, <1>2, <1>5, <2>1, PieceChar
<1>7. /\ \A k \in DOMAIN text : text[k] # PERCENT
      /\ items[j].piece.takes = "nothing"
  BY <1>2, <1>3 DEF Piece, Specified, Takes
<1>8. PlainChar
  <2>1. text[p] \in Char /\ text[p] # PERCENT
    BY <1>3, <1>5, <1>7
  <2>2. text[p] # NUL
    BY ONLY <2>1 DEF Char, NUL
  <2>3. At(index) \notin {NUL, PERCENT}
    BY <1>6, <2>1, <2>2
  <2> QED
    BY <1>2, <2>3, ScanSteps
<1>9. /\ at' = "scan" /\ index' = Start(items, j) + p /\ va' = va
      /\ WriteDebugChars(<<text[p]>>)
  <2>1. /\ index' = index + 1 /\ at' = "scan" /\ va' = va
        /\ WriteDebugChars(<<At(index)>>)
    BY <1>2, <1>8 DEF PlainChar
  <2>2. Start(items, j) \in Nat
    BY <1>1, <1>2, StartNext
  <2>3. index' = Start(items, j) + p
    BY <1>2, <1>5, <2>1, <2>2
  <2> QED
    BY <1>6, <2>1, <2>3
<1>10. console' = Together(printed, j - 1) \o SubSeq(text, 1, p)
  <2> PICK f, s, t, c : /\ f = Together(printed, j - 1) /\ s = SubSeq(text, 1, o)
                        /\ t = SubSeq(text, 1, p) /\ c = <<text[p]>>
    OBVIOUS
  <2>1. c \in Seq(Byte)
    BY <1>4, <1>5
  <2>2. s \in Seq(Byte) /\ t = s \o c
    BY <1>4, <1>5, OneMore
  <2>3. f \in Seq(Byte)
    <3>1. j - 1 \in 0 .. n
      BY <1>1, <1>2
    <3> QED
      BY <1>1, <3>1, TogetherGrows
  <2>4. console' = console \o c
    BY <1>1, <1>9, <2>1, WriteBytes
  <2>5. (f \o s) \o c = f \o (s \o c)
    <3>1. f \in Seq(Byte) /\ s \in Seq(Byte) /\ c \in Seq(Byte)
      BY <2>1, <2>2, <2>3
    <3> QED
      BY ONLY <3>1, JoinsJoined
  <2> QED
    BY <1>2, <2>2, <2>4, <2>5
<1>11. CASE p = Len(text)
  <2>1. SubSeq(text, 1, p) = text
    BY <1>4, <1>11
  <2>2. printed[j] = text
    <3>1. printed[j] = Expected(items[j])
      BY <1>2 DEF Setting
    <3> QED
      BY <1>2, <3>1 DEF Expected
  <2>3. Len(Passed(items[j])) = 0
    BY <1>7 DEF Passed
  <2>4. Len(va') = Len(va) - 0 /\ va' \in Seq(Args) /\ \A k \in 1 .. Len(va') : va'[k] = va[0 + k]
    BY <1>1, <1>9
  <2>5. Setting(items, printed) /\ j \in 1 .. Len(items) /\ Reached(items, j)
    BY <1>2
  <2>6. at' = "scan" /\ index' = Start(items, j) + Len(items[j].piece.text)
    BY <1>9, <1>11
  <2>7. console' = Together(printed, j - 1) \o printed[j]
    BY <1>10, <2>1, <2>2
  <2> QED
    BY ONLY <2>3, <2>4, <2>5, <2>6, <2>7, PieceEnds
<1>12. CASE p # Len(text)
  <2>1. p \in 0 .. Len(text) - 1 /\ p \in Nat
    BY <1>4, <1>5, <1>12
  <2>2. Reached(items, j)'
    BY <1>2, <1>9 DEF Reached
  <2>3. InText(items, printed, j, p)'
    BY <1>2, <1>9, <1>10, <2>1, <2>2 DEF InText
  <2>4. j \in 1 .. Len(items) + 1
    BY <1>1, <1>2
  <2>5. OnItem(items, printed)'
    BY <2>1, <2>3, <2>4 DEF OnItem
  <2> QED
    BY <2>5 DEF Progress
<1> QED
  BY <1>11, <1>12

LEMMA TextBegins ==
  ASSUME NEW items, NEW printed, Setting(items, printed), NEW j \in 1 .. Len(items),
         Between(items, printed, j), items[j].piece.shows = "text"
  PROVE  InText(items, printed, j, 0)
<1> PICK text : text = items[j].piece.text
  OBVIOUS
<1>1. items \in Seq(Item) /\ Len(items) \in Nat
      /\ \A k \in 1 .. Len(items) : printed[k] \in Seq(Byte)
  BY DEF Setting, Asked
<1>2. items[j] \in Item
  BY <1>1
<1>3. text \in Seq(Char) /\ text # <<>>
  BY <1>2, ItemTyped
<1>4. 0 \in 0 .. Len(text) - 1 /\ SubSeq(text, 1, 0) = <<>>
  BY <1>3
<1>5. /\ at = "scan" /\ Reached(items, j) /\ index = Start(items, j)
      /\ console = Together(printed, j - 1)
  BY DEF Between
<1>6. console = console \o <<>>
  BY DEF Setting
<1>7. Start(items, j) \in Nat
  BY <1>1, StartNext
<1>8. index = Start(items, j) + 0
  BY <1>5, <1>7
<1> QED
  BY <1>4, <1>5, <1>6, <1>8 DEF InText

LEMMA DirectiveBegins ==
  ASSUME NEW items, NEW printed, Setting(items, printed), NEW j \in 1 .. Len(items),
         Between(items, printed, j), items[j].piece.shows # "text", PrintStep
  PROVE  Progress(items, printed)'
<1> PICK piece, text, letters : /\ piece = items[j].piece /\ text = piece.text
                                /\ letters = Letters(piece.shows)
  OBVIOUS
<1>1. /\ items \in Seq(Item) /\ Len(items) \in Nat
      /\ format = Together(TextsOf(items), Len(items)) \o <<NUL>>
  BY DEF Setting, Asked
<1>2. /\ at = "scan" /\ Reached(items, j) /\ index = Start(items, j)
      /\ console = Together(printed, j - 1)
  BY DEF Between
<1>3. items[j] \in Item
  BY <1>1
<1>4. piece \in Piece /\ text \in Seq(Char) /\ Len(text) \in Nat
  BY <1>3, ItemTyped
<1>5. piece.shows \in Shown \ {"text", "unsupported"}
  BY <1>1, <1>2, <1>4 DEF Reached, Piece
<1>6. letters \in Seq(Char) /\ Len(letters) \in {1, 2} /\ letters[1] \notin DecimalDigits
  BY <1>5, LettersAre
<1>7. Start(items, j) \in Nat
  BY <1>1, StartNext
<1>8. \A o \in Nat : o < Len(text) => At(index + o) = text[o + 1]
  <2> SUFFICES ASSUME NEW o \in Nat, o < Len(text) PROVE At(index + o) = text[o + 1]
    OBVIOUS
  <2> PICK i : i = index + o
    OBVIOUS
  <2>1. i = Start(items, j) + o
    BY <1>2
  <2> QED
    BY <1>1, <2>1, PieceChar
<1>9. DIGIT_0 \in DecimalDigits
  BY DEF DIGIT_0, DecimalDigits
<1>10. index + 0 = index
  BY <1>2, <1>7
<1>11. j \in 1 .. Len(items) + 1
  BY <1>1
<1>12. ASSUME text[1] = PERCENT, Len(text) >= 2
       PROVE  /\ zero_pad_width' = 0 /\ va' = va /\ console' = console
              /\ \/ text[2] = DIGIT_0 /\ at' = "pad" /\ index' = Start(items, j) + 2
                 \/ text[2] # DIGIT_0 /\ at' = "convert" /\ index' = Start(items, j) + 1
  <2>1. At(index) = PERCENT
    <3>1. At(index + 0) = text[0 + 1]
      BY <1>4, <1>8, <1>12
    <3> QED
      BY <1>10, <1>12, <3>1
  <2>2. Percent
    BY <1>2, <2>1, ScanSteps
  <2>3. At(index + 1) = text[2]
    <3>1. At(index + 1) = text[1 + 1]
      BY <1>4, <1>8, <1>12
    <3> QED
      BY <3>1
  <2> QED
    BY <1>2, <2>2, <2>3 DEF Percent
<1>13. CASE Plain(text, letters) /\ (piece.shows \in {"hex", "ulonghex"} => piece.pad = 0)
  <2>1. Len(text) = 1 + Len(letters) /\ text[1] = PERCENT /\ text[2] = letters[1]
    <3>1. 1 \in 1 .. Len(letters) /\ 1 + 1 = 2
      BY <1>6
    <3> QED
      BY <1>13, <3>1 DEF Plain
  <2>2. text[2] # DIGIT_0 /\ Len(text) >= 2
    BY <1>6, <1>9, <2>1
  <2>3. /\ zero_pad_width' = 0 /\ va' = va /\ console' = console
        /\ at' = "convert" /\ index' = Start(items, j) + 1
    BY <1>12, <2>1, <2>2
  <2>4. index' = Start(items, j) + Len(text) - Len(letters)
    BY <1>6, <1>7, <2>1, <2>3
  <2>5. Reached(items, j)'
    BY <1>2, <2>3 DEF Reached
  <2>6. InDirective(items, printed, j)'
    BY <1>2, <1>13, <2>3, <2>4, <2>5 DEF InDirective
  <2>7. OnItem(items, printed)'
    BY <1>11, <2>6 DEF OnItem
  <2> QED
    BY <2>7 DEF Progress
<1>14. ASSUME NEW digits \in Seq(DecimalDigits), Wide(text, digits, letters),
              piece.pad = Value(digits), piece.shows \in {"hex", "ulonghex"}
       PROVE  Progress(items, printed)'
  <2>1. Len(text) >= 2 /\ text[1] = PERCENT /\ text[2] = DIGIT_0
    <3>1. Len(digits) \in Nat
      OBVIOUS
    <3> QED
      BY <1>6, <1>14, <3>1 DEF Wide
  <2>2. /\ zero_pad_width' = 0 /\ va' = va /\ console' = console
        /\ at' = "pad" /\ index' = Start(items, j) + 2
    BY <1>12, <2>1
  <2>3. PICK read : Reads(read, digits)
    BY ValueReads
  <2>4. zero_pad_width' = read[0]
    BY <2>2, <2>3 DEF Reads
  <2>5. 0 \in 0 .. Len(digits) /\ index' = Start(items, j) + 2 + 0
    BY <1>7, <2>2
  <2>6. Reached(items, j)'
    BY <1>2, <2>2 DEF Reached
  <2>7. InWidth(items, printed, j, digits, 0)'
    <3>1. \E r : Reads(r, digits) /\ zero_pad_width' = r[0]
      BY <2>3, <2>4
    <3> QED
      BY <1>2, <1>14, <2>2, <2>5, <2>6, <3>1 DEF InWidth
  <2>8. OnItem(items, printed)'
    BY <1>11, <2>7 DEF OnItem
  <2> QED
    BY <2>8 DEF Progress
<1>15. \/ Plain(text, letters) /\ (piece.shows \in {"hex", "ulonghex"} => piece.pad = 0)
       \/ /\ piece.shows \in {"hex", "ulonghex"}
          /\ \E digits \in Seq(DecimalDigits) :
               Wide(text, digits, letters) /\ piece.pad = Value(digits)
  BY <1>4, <1>5, DirectiveIs
<1> QED
  BY <1>13, <1>14, <1>15

LEMMA BetweenStep ==
  ASSUME NEW items, NEW printed, Setting(items, printed), NEW j,
         Between(items, printed, j), PrintStep
  PROVE  Progress(items, printed)'
<1>1. /\ items \in Seq(Item) /\ Len(items) \in Nat
      /\ format = Together(TextsOf(items), Len(items)) \o <<NUL>>
  BY DEF Setting, Asked
<1>2. /\ at = "scan" /\ Reached(items, j) /\ index = Start(items, j)
      /\ console = Together(printed, j - 1) /\ j \in 1 .. Len(items) + 1
  BY DEF Between, Reached
<1>3. CASE j \in 1 .. Len(items)
  <2>1. CASE items[j].piece.shows = "text"
    <3>1. InText(items, printed, j, 0)
      BY <1>3, <2>1, TextBegins
    <3> QED
      BY <3>1, TextStep
  <2> QED
    BY <1>3, <2>1, DirectiveBegins
<1>4. CASE j = Len(items) + 1
  <2>1. At(index) = NUL
    BY <1>1, <1>2, <1>4, EndChar
  <2>2. Return
    BY <1>2, <2>1, ScanSteps
  <2>3. j - 1 = Len(items)
    BY <1>1, <1>4
  <2>4. at' = "done" /\ console' = Together(printed, Len(items))
    BY <1>2, <2>2, <2>3 DEF Return, printVars
  <2>5. \A i \in 1 .. Len(items) : items[i].piece.shows # "unsupported"
    <3>1. \A i \in 1 .. Len(items) : i <= j
      BY <1>1, <1>4
    <3> QED
      BY <1>2, <3>1 DEF Reached
  <2> QED
    BY <2>4, <2>5 DEF Progress, Finished
<1> QED
  BY <1>1, <1>2, <1>3, <1>4

LEMMA WidthStep ==
  ASSUME NEW items, NEW printed, Setting(items, printed), NEW j, NEW digits, NEW o,
         InWidth(items, printed, j, digits, o), PrintStep
  PROVE  Progress(items, printed)'
<1> PICK piece, text, letters : /\ piece = items[j].piece /\ text = piece.text
                                /\ letters = Letters(piece.shows)
  OBVIOUS
<1> PICK p : p = o + 1
  OBVIOUS
<1>1. /\ items \in Seq(Item) /\ Len(items) \in Nat
      /\ format = Together(TextsOf(items), Len(items)) \o <<NUL>>
  BY DEF Setting, Asked
<1>2. /\ at = "pad" /\ Reached(items, j) /\ j \in 1 .. Len(items)
      /\ piece.shows \in {"hex", "ulonghex"}
      /\ digits \in Seq(DecimalDigits) /\ piece.pad = Value(digits)
      /\ Wide(text, digits, letters)
      /\ o \in 0 .. Len(digits) /\ index = Start(items, j) + 2 + o
      /\ console = Together(printed, j - 1)
  BY DEF InWidth
<1>3. PICK read : Reads(read, digits) /\ zero_pad_width = read[o]
  BY DEF InWidth
<1>4. letters \in Seq(Char) /\ Len(letters) \in {1, 2} /\ letters[1] \notin DecimalDigits
  <2>1. piece.shows \in Shown \ {"text", "unsupported"}
    BY <1>2 DEF Shown
  <2> QED
    BY <2>1, LettersAre
<1>5. /\ Len(digits) \in Nat /\ o \in Nat /\ Start(items, j) \in Nat
      /\ Len(text) = 2 + Len(digits) + Len(letters)
      /\ \A k \in 1 .. Len(digits) : text[2 + k] = digits[k]
      /\ \A k \in 1 .. Len(letters) : text[2 + Len(digits) + k] = letters[k]
  <2>1. Start(items, j) \in Nat
    BY <1>1, <1>2, StartNext
  <2> QED
    BY <1>2, <2>1 DEF Wide
<1>6. At(index) = text[2 + p]
  <2> PICK q : q = 2 + o
    OBVIOUS
  <2>1. q \in Nat /\ q < Len(text) /\ index = Start(items, j) + q /\ q + 1 = 2 + p
    BY <1>2, <1>4, <1>5
  <2>2. At(index) = text[q + 1]
    BY <1>1, <1>2, <2>1, PieceChar
  <2> QED
    BY <2>1, <2>2
<1>7. ParseZeroPadWidth
  BY <1>2 DEF PrintStep, PlainChar, Return, Percent, ParseZeroPadWidth, ConvertLong, ConvertChar,
              ConvertInt, ConvertHex, ConvertString, ConvertPercent, ConvertDefault
<1>8. va' = va /\ console' = console
  BY <1>7 DEF ParseZeroPadWidth
<1>9. Reached(items, j)' /\ j \in 1 .. Len(items) + 1
  BY <1>1, <1>2, <1>8 DEF Reached
<1>10. CASE o # Len(digits)
  <2>1. p \in 1 .. Len(digits) /\ p \in 0 .. Len(digits) /\ p \in Nat /\ p - 1 = o
    BY <1>2, <1>5, <1>10
  <2>2. At(index) = digits[p] /\ digits[p] \in DecimalDigits
    BY <1>2, <1>5, <1>6, <2>1
  <2>3. /\ zero_pad_width' = Accumulated(zero_pad_width, At(index) - DIGIT_0)
        /\ index' = index + 1 /\ at' = "pad"
    BY <1>2, <1>7, <2>2 DEF ParseZeroPadWidth
  <2>4. zero_pad_width' = read[p]
    BY <1>3, <2>1, <2>2, <2>3 DEF Reads, Accumulated
  <2>5. index' = Start(items, j) + 2 + p
    BY <1>2, <1>5, <2>1, <2>3
  <2>6. InWidth(items, printed, j, digits, p)'
    <3>1. \E r : Reads(r, digits) /\ zero_pad_width' = r[p]
      BY <1>3, <2>4
    <3> QED
      BY <1>2, <1>8, <1>9, <2>1, <2>3, <2>5, <3>1 DEF InWidth
  <2>7. OnItem(items, printed)'
    BY <1>2, <1>9, <2>1, <2>6 DEF OnItem
  <2> QED
    BY <2>7 DEF Progress
<1>11. CASE o = Len(digits)
  <2>1. At(index) = letters[1]
    <3>1. 2 + p = 2 + Len(digits) + 1 /\ 1 \in 1 .. Len(letters)
      BY <1>4, <1>5, <1>11
    <3> QED
      BY <1>5, <1>6, <3>1
  <2>2. at' = "convert" /\ zero_pad_width' = zero_pad_width /\ index' = index
    BY <1>4, <1>7, <2>1 DEF ParseZeroPadWidth
  <2>3. zero_pad_width' = piece.pad
    BY <1>2, <1>3, <1>11, <2>2 DEF Reads
  <2>4. index' = Start(items, j) + Len(text) - Len(letters)
    <3> PICK t, l, d, b : /\ t = Len(text) /\ l = Len(letters) /\ d = Len(digits)
                          /\ b = Start(items, j)
      OBVIOUS
    <3>1. d \in Nat /\ l \in {1, 2} /\ b \in Nat /\ t = 2 + d + l /\ index' = b + 2 + d
      BY <1>2, <1>4, <1>5, <1>11, <2>2
    <3>2. index' = b + t - l
      BY ONLY <3>1
    <3> QED
      BY <3>2
  <2>5. InDirective(items, printed, j)'
    BY <1>2, <1>8, <1>9, <2>2, <2>3, <2>4 DEF InDirective
  <2>6. OnItem(items, printed)'
    BY <1>9, <2>5 DEF OnItem
  <2> QED
    BY <2>6 DEF Progress
<1> QED
  BY <1>10, <1>11

LEMMA LettersLast ==
  ASSUME NEW piece \in Piece, piece.shows \notin {"text", "unsupported"},
         NEW letters, letters = Letters(piece.shows)
  PROVE  /\ Len(piece.text) \in Nat /\ Len(letters) \in {1, 2}
         /\ Len(piece.text) > Len(letters)
         /\ \A k \in 1 .. Len(letters) :
              piece.text[(Len(piece.text) - Len(letters)) + k] = letters[k]
<1> PICK text : text = piece.text
  OBVIOUS
<1>1. piece.shows \in Shown \ {"text", "unsupported"} /\ text \in Seq(Char)
  BY DEF Piece
<1>2. Len(letters) \in {1, 2} /\ Len(text) \in Nat
  BY <1>1, LettersAre
<1>3. CASE Plain(text, letters)
  <2>1. Len(text) = 1 + Len(letters) /\ \A k \in 1 .. Len(letters) : text[1 + k] = letters[k]
    BY <1>3 DEF Plain
  <2>2. Len(text) - Len(letters) = 1 /\ Len(text) > Len(letters)
    BY <1>2, <2>1
  <2> QED
    BY <1>2, <2>1, <2>2
<1>4. ASSUME NEW digits \in Seq(DecimalDigits), Wide(text, digits, letters)
      PROVE  /\ Len(text) > Len(letters)
             /\ \A k \in 1 .. Len(letters) : text[(Len(text) - Len(letters)) + k] = letters[k]
  <2>1. /\ Len(text) = 2 + Len(digits) + Len(letters)
        /\ \A k \in 1 .. Len(letters) : text[2 + Len(digits) + k] = letters[k]
    BY <1>4 DEF Wide
  <2>2. Len(text) - Len(letters) = 2 + Len(digits) /\ Len(text) > Len(letters)
    BY <1>2, <2>1
  <2> QED
    BY <2>1, <2>2
<1>5. Plain(text, letters) \/ \E digits \in Seq(DecimalDigits) : Wide(text, digits, letters)
  BY DirectiveIs
<1> QED
  BY <1>2, <1>3, <1>4, <1>5

LEMMA ConversionEnds ==
  ASSUME NEW items, NEW printed, Setting(items, printed), NEW j, InDirective(items, printed, j),
         NEW num, Converted(Len(Letters(items[j].piece.shows)), printed[j], num),
         \/ va' = va /\ items[j].piece.takes = "nothing"
         \/ va' = Tail(va) /\ items[j].piece.takes # "nothing"
  PROVE  Progress(items, printed)'
<1> PICK piece, letters : piece = items[j].piece /\ letters = Letters(piece.shows)
  OBVIOUS
<1>1. /\ items \in Seq(Item) /\ console \in Seq(Byte) /\ va \in Seq(Args)
      /\ j \in 1 .. Len(items) /\ printed[j] \in Seq(Byte)
  BY DEF Setting, Asked, InDirective
<1>2. /\ Reached(items, j) /\ console = Together(printed, j - 1)
      /\ index = Start(items, j) + Len(piece.text) - Len(letters)
      /\ piece.shows \notin {"text", "unsupported"}
  <2>1. \A i \in 1 .. Len(items) : i <= j => items[i].piece.shows # "unsupported"
    BY DEF InDirective, Reached
  <2>2. j <= j
    BY <1>1
  <2> QED
    BY <1>1, <2>1, <2>2 DEF InDirective
<1>3. items[j] \in Item
  BY <1>1
<1>4. piece \in Piece
  BY <1>3, ItemTyped
<1>5. Len(piece.text) \in Nat /\ Len(letters) \in {1, 2} /\ Start(items, j) \in Nat
  BY <1>1, <1>2, <1>4, LettersLast, StartNext
<1>6. at' = "scan" /\ index' = index + Len(letters) /\ WriteDebugChars(printed[j])
  BY DEF Converted
<1>7. index' = Start(items, j) + Len(items[j].piece.text)
  <2> PICK t, l, b : t = Len(piece.text) /\ l = Len(letters) /\ b = Start(items, j)
    OBVIOUS
  <2>1. t \in Nat /\ l \in {1, 2} /\ b \in Nat /\ index = b + t - l /\ index' = index + l
    BY <1>2, <1>5, <1>6
  <2>2. index' = b + t
    BY ONLY <2>1
  <2> QED
    BY <2>2
<1>8. console' = Together(printed, j - 1) \o printed[j]
  BY <1>1, <1>2, <1>6, WriteBytes
<1>9. Setting(items, printed) /\ j \in 1 .. Len(items) /\ Reached(items, j) /\ at' = "scan"
  BY <1>1, <1>2, <1>6
<1> PICK m : m = Len(Passed(items[j]))
  OBVIOUS
<1>10. Len(va') = Len(va) - m /\ va' \in Seq(Args) /\ \A k \in 1 .. Len(va') : va'[k] = va[m + k]
  <2>1. CASE va' = va /\ items[j].piece.takes = "nothing"
    <3>1. m = 0
      BY <2>1 DEF Passed
    <3> QED
      BY <1>1, <2>1, <3>1
  <2>2. CASE va' = Tail(va) /\ items[j].piece.takes # "nothing"
    <3>1. m = 1 /\ va # <<>>
      BY <1>1, <1>2, <2>2, ArgumentIs
    <3> QED
      BY <1>1, <2>2, <3>1
  <2> QED
    BY <2>1, <2>2
<1> QED
  BY ONLY <1>7, <1>8, <1>9, <1>10, m = Len(Passed(items[j])), PieceEnds

(* The conversion of a directive that stdio.c implements, with the argument *)
(* that belongs to it.                                                     *)
LEMMA DirectiveStep ==
  ASSUME NEW items, NEW printed, Setting(items, printed), NEW j,
         InDirective(items, printed, j), PrintStep
  PROVE  Progress(items, printed)'
<1> PICK item, shows, letters : /\ item = items[j] /\ shows = item.piece.shows
                                /\ letters = Letters(shows)
  OBVIOUS
<1>1. /\ items \in Seq(Item) /\ va \in Seq(Args) /\ j \in 1 .. Len(items) /\ MemTyped
      /\ format = Together(TextsOf(items), Len(items)) \o <<NUL>>
  BY DEF Setting, Asked, InDirective
<1>2. /\ at = "convert" /\ Reached(items, j) /\ shows # "text"
      /\ index = Start(items, j) + Len(item.piece.text) - Len(letters)
      /\ shows \in {"hex", "ulonghex"} => zero_pad_width = item.piece.pad
  BY DEF InDirective
<1>3. shows # "unsupported"
  <2>1. \A i \in 1 .. Len(items) : i <= j => items[i].piece.shows # "unsupported"
    BY <1>2 DEF Reached
  <2>2. j <= j
    BY <1>1
  <2> QED
    BY <1>1, <2>1, <2>2
<1>4. item \in Item
  BY <1>1
<1>5. item.piece \in Piece /\ shows \in Shown \ {"text", "unsupported"}
      /\ item.piece.takes \in Takes(shows)
  <2>1. item.piece \in Piece
    BY <1>4, ItemTyped
  <2> QED
    BY <1>2, <1>3, <2>1 DEF Piece
<1>6. /\ Len(item.piece.text) \in Nat /\ Len(letters) \in {1, 2}
      /\ Len(item.piece.text) > Len(letters)
      /\ \A k \in 1 .. Len(letters) :
           item.piece.text[(Len(item.piece.text) - Len(letters)) + k] = letters[k]
  BY <1>2, <1>3, <1>5, LettersLast
<1>7. ASSUME NEW o \in Nat, o < Len(letters) PROVE At(index + o) = letters[o + 1]
  <2> PICK t, l, b, q, i : /\ t = Len(item.piece.text) /\ l = Len(letters)
                           /\ b = Start(items, j) /\ q = (t - l) + o /\ i = index + o
    OBVIOUS
  <2>1. b \in Nat
    BY <1>1, StartNext
  <2>2. /\ t \in Nat /\ l \in {1, 2} /\ t > l /\ index = b + t - l /\ i = index + o
        /\ q = (t - l) + o /\ o \in Nat /\ o < l
    BY <1>2, <1>6, <1>7
  <2>3. /\ q \in Nat /\ q < t /\ i = b + q /\ o + 1 \in 1 .. l /\ q + 1 = (t - l) + (o + 1)
    BY ONLY <2>1, <2>2
  <2>4. At(i) = item.piece.text[q + 1]
    BY <1>1, <2>3, PieceChar
  <2>5. item.piece.text[(t - l) + (o + 1)] = letters[o + 1]
    BY <1>6, <2>3
  <2> QED
    BY <2>3, <2>4, <2>5
<1>8. index \in Int
  <2> PICK t, l, b : t = Len(item.piece.text) /\ l = Len(letters) /\ b = Start(items, j)
    OBVIOUS
  <2>1. b \in Nat
    BY <1>1, StartNext
  <2>2. t \in Nat /\ l \in {1, 2} /\ index = b + t - l
    BY <1>2, <1>6
  <2> QED
    BY ONLY <2>1, <2>2
<1>9. At(index) = letters[1]
  <2>1. At(index + 0) = letters[0 + 1]
    BY <1>6, <1>7
  <2>2. index + 0 = index /\ 0 + 1 = 1
    BY <1>8
  <2> QED
    BY <2>1, <2>2
<1>10. Len(letters) = 2 => At(index + 1) = letters[2]
  <2> SUFFICES ASSUME Len(letters) = 2 PROVE At(index + 1) = letters[2]
    OBVIOUS
  <2>1. At(index + 1) = letters[1 + 1]
    BY <1>7
  <2> QED
    BY <2>1
<1>11. /\ printed[j] = Expected(item)
       /\ item.piece.takes = "string" => Terminated(item.val)
  BY <1>1, <1>3 DEF Setting, Asked
<1>12. item.piece.takes # "nothing" =>
         va # <<>> /\ VaArg = item.val /\ va[1].kind = item.piece.takes
  BY <1>1, <1>2, ArgumentIs
<1>13. ASSUME NEW num, Fetched(Len(letters), printed[j], num), item.piece.takes # "nothing"
       PROVE  Progress(items, printed)'
  <2>1. va' = Tail(va) /\ Converted(Len(letters), printed[j], num)
    BY <1>13 DEF Fetched
  <2> QED
    BY <1>13, <2>1, ConversionEnds
<1>14. CASE shows = "percent"
  <2>1. printed[j] = <<PERCENT>>
    BY <1>1, <1>3, <1>4, <1>11, <1>14, PrintedIs
  <2>2. letters[1] = PERCENT /\ Len(letters) = 1
    BY <1>5, <1>14, <1>6, LettersAre
  <2>3. ConvertPercent
    BY <1>2, <1>9, <2>2, ConvertSteps
  <2>4. Converted(Len(letters), printed[j], 1) /\ va' = va
    BY <2>1, <2>2, <2>3 DEF ConvertPercent
  <2>5. item.piece.takes = "nothing"
    BY <1>5, <1>14 DEF Takes
  <2> QED
    BY <2>4, <2>5, ConversionEnds
<1>15. CASE shows = "char"
  <2>1. item.piece.takes = "number"
    BY <1>5, <1>15 DEF Takes
  <2>2. printed[j] = <<VaArg % 256>>
    BY <1>1, <1>3, <1>4, <1>11, <1>12, <1>15, <2>1, PrintedIs
  <2>3. letters[1] = LOWER_C /\ Len(letters) = 1
    BY <1>5, <1>6, <1>15, LettersAre
  <2>4. ConvertChar
    BY <1>2, <1>9, <2>3, ConvertSteps
  <2>5. Fetched(Len(letters), printed[j], 1)
    BY <2>2, <2>3, <2>4 DEF ConvertChar
  <2> QED
    BY <1>13, <2>1, <2>5
<1>16. CASE shows = "string"
  <2>1. item.piece.takes = "string"
    BY <1>5, <1>16 DEF Takes
  <2>2. printed[j] = Characters(VaArg)
    BY <1>1, <1>3, <1>4, <1>11, <1>12, <1>16, <2>1, PrintedIs
  <2>3. letters[1] = LOWER_S /\ Len(letters) = 1
    BY <1>5, <1>6, <1>16, LettersAre
  <2>4. ConvertString /\ va[1].kind = "string"
    BY <1>2, <1>9, <1>12, <2>1, <2>3, ConvertSteps
  <2>5. Fetched(Len(letters), printed[j], Len(Characters(VaArg)))
    BY <2>2, <2>3, <2>4 DEF ConvertString
  <2> QED
    BY <1>13, <2>1, <2>5
<1>17. CASE shows = "int"
  <2>1. item.piece.takes = "number"
    BY <1>5, <1>17 DEF Takes
  <2> PICK number : number = Signed(VaArg)
    OBVIOUS
  <2>2. printed[j] = Number(number)
    BY <1>1, <1>3, <1>4, <1>11, <1>12, <1>17, <2>1, PrintedIs
  <2>3. letters[1] = LOWER_D /\ Len(letters) = 1
    BY <1>5, <1>6, <1>17, LettersAre
  <2>4. ConvertInt
    BY <1>2, <1>9, <2>3, ConvertSteps
  <2>5. Fetched(Len(letters), printed[j], NumberCount(number) + SignCount(number))
    BY <2>2, <2>3, <2>4 DEF ConvertInt
  <2> QED
    BY <1>13, <2>1, <2>5
<1>18. CASE shows = "hex"
  <2>1. item.piece.takes = "number"
    BY <1>5, <1>18 DEF Takes
  <2>2. printed[j] = HexPadded(Unsigned(VaArg, UINT_MAX), zero_pad_width)
    BY <1>1, <1>2, <1>3, <1>4, <1>11, <1>12, <1>18, <2>1, PrintedIs
  <2>3. letters[1] = LOWER_X /\ Len(letters) = 1
    BY <1>5, <1>6, <1>18, LettersAre
  <2>4. ConvertHex
    BY <1>2, <1>9, <2>3, ConvertSteps
  <2>5. Fetched(Len(letters), printed[j], Len(printed[j]))
    BY <2>2, <2>3, <2>4 DEF ConvertHex
  <2> QED
    BY <1>13, <2>1, <2>5
<1>19. CASE shows = "ulong"
  <2>1. item.piece.takes = "number"
    BY <1>5, <1>19 DEF Takes
  <2> PICK number : number = Unsigned(VaArg, ULONG_MAX)
    OBVIOUS
  <2>2. printed[j] = ULong(number)
    BY <1>1, <1>3, <1>4, <1>11, <1>12, <1>19, <2>1, PrintedIs
  <2>3. letters[1] = LOWER_L /\ letters[2] = LOWER_U /\ Len(letters) = 2
    BY <1>5, <1>19, LettersAre
  <2>4. ConvertLong /\ At(index + 1) = LOWER_U
    BY <1>2, <1>9, <1>10, <2>3, ConvertSteps
  <2>5. Fetched(Len(letters), printed[j], DigitCount(number, 10))
    BY <2>2, <2>3, <2>4 DEF ConvertLong, LOWER_U, LOWER_X
  <2> QED
    BY <1>13, <2>1, <2>5
<1>20. CASE shows = "ulonghex"
  <2>1. item.piece.takes = "number"
    BY <1>5, <1>20 DEF Takes
  <2>2. printed[j] = HexULongPadded(Unsigned(VaArg, ULONG_MAX), zero_pad_width)
    BY <1>1, <1>2, <1>3, <1>4, <1>11, <1>12, <1>20, <2>1, PrintedIs
  <2>3. letters[1] = LOWER_L /\ letters[2] = LOWER_X /\ Len(letters) = 2
    BY <1>5, <1>20, LettersAre
  <2>4. ConvertLong /\ At(index + 1) = LOWER_X
    BY <1>2, <1>9, <1>10, <2>3, ConvertSteps
  <2>5. Fetched(Len(letters), printed[j], Len(printed[j]))
    BY <2>2, <2>3, <2>4 DEF ConvertLong, LOWER_U, LOWER_X
  <2> QED
    BY <1>13, <2>1, <2>5
<1> QED
  BY <1>5, <1>14, <1>15, <1>16, <1>17, <1>18, <1>19, <1>20 DEF Shown

(* What is known of the console stays known.                               *)
LEMMA AstrayStays ==
  ASSUME NEW items, NEW printed, Setting(items, printed), Astray(items, printed), Grows
  PROVE  Progress(items, printed)'
<1>1. /\ Len(items) \in Nat /\ console \in Seq(Byte)
      /\ \A k \in 1 .. Len(items) : printed[k] \in Seq(Byte)
  BY DEF Setting, Asked
<1>2. PICK u \in 1 .. Len(items) :
        /\ items[u].piece.shows = "unsupported"
        /\ \A i \in 1 .. u - 1 : items[i].piece.shows # "unsupported"
        /\ IsPrefix(Together(printed, u - 1), console)
  BY DEF Astray
<1>3. PICK chars \in Seq(Byte) : console' = console \o chars
  BY DEF Grows
<1>4. Together(printed, u - 1) \in Seq(Byte)
  <2>1. u - 1 \in 0 .. Len(items)
    BY <1>1
  <2> QED
    BY <1>1, <2>1, TogetherGrows
<1>5. IsPrefix(Together(printed, u - 1), console \o chars)
  BY <1>1, <1>2, <1>4, PrefixIs
<1>6. Astray(items, printed)'
  BY <1>2, <1>3, <1>5 DEF Astray
<1> QED
  BY <1>6 DEF Progress

LEMMA ProgressStep ==
  ASSUME NEW items, NEW printed, Setting(items, printed), Progress(items, printed), Grows,
         PrintStep
  PROVE  Progress(items, printed)'
<1>1. CASE Astray(items, printed)
  BY <1>1, AstrayStays
<1>2. CASE Finished(items, printed)
  BY <1>2 DEF Finished, PrintStep, PlainChar, Return, Percent, ParseZeroPadWidth, ConvertLong,
              ConvertChar, ConvertInt, ConvertHex, ConvertString, ConvertPercent, ConvertDefault
<1>3. CASE OnItem(items, printed)
  <2>1. PICK j \in 1 .. Len(items) + 1 :
          \/ Between(items, printed, j)
          \/ \E o \in Nat : InText(items, printed, j, o)
          \/ \E digits \in Seq(DecimalDigits) : \E o \in Nat : InWidth(items, printed, j, digits, o)
          \/ InDirective(items, printed, j)
    BY <1>3 DEF OnItem
  <2> QED
    BY <2>1, BetweenStep, TextStep, WidthStep, DirectiveStep
<1> QED
  BY <1>1, <1>2, <1>3 DEF Progress

LEMMA SamePrinted ==
  ASSUME NEW items, request' = items, mem' = mem
  PROVE  PrintedOf(request)' = PrintedOf(items)
<1>1. ASSUME NEW item PROVE Expected(item)' = Expected(item)
  BY DEF Expected
<1>2. PrintedOf(items)' = PrintedOf(items)
  BY <1>1 DEF PrintedOf
<1>3. PrintedOf(request)' = PrintedOf(items)'
  BY DEF PrintedOf
<1> QED
  BY <1>2, <1>3

LEMMA PrintingKept ==
  ASSUME NEW items, NEW printed, request' = items, mem' = mem, printed = PrintedOf(items),
         Asked(items), format' = Together(TextsOf(items), Len(items)) \o <<NUL>>,
         Progress(items, printed)'
  PROVE  Printing'
<1>1. PrintedOf(request)' = printed
  BY SamePrinted
<1>2. Progress(request, PrintedOf(request))'
  BY <1>1
<1>3. Asked(request)'
  BY DEF Asked, Terminated
<1>4. (format = Together(TextsOf(request), Len(request)) \o <<NUL>>)'
  OBVIOUS
<1> QED
  BY <1>2, <1>3, <1>4 DEF Printing

(* A call stands in front of the first piece, with all of the arguments.   *)
LEMMA CallPrints ==
  ASSUME NEW items \in Seq(Item), Kprintf(items)
  PROVE  Printing'
<1> PICK printed : printed = PrintedOf(items)
  OBVIOUS
<1> PICK n, P, passed : n = Len(items) /\ P = PassedOf(items) /\ passed = Together(P, n)
  OBVIOUS
<1>1. /\ n \in Nat /\ DOMAIN items = 1 .. n
      /\ (\A i \in 1 .. n : P[i] \in Seq(Args)) /\ \A i \in 1 .. n : TextsOf(items)[i] \in Seq(Char)
  BY ItemsTyped
<1>2. /\ request' = items /\ mem' = mem /\ at' = "scan" /\ index' = 0 /\ console' = <<>>
      /\ \A i \in 1 .. n : items[i].piece.takes = "string" => Terminated(items[i].val)
  BY <1>1 DEF Kprintf
<1>3. Asked(items)
  BY <1>2 DEF Asked
<1>4. format' = Together(TextsOf(items), n) \o <<NUL>> /\ va' = passed
  BY CallPasses
<1>5. Together(P, 0) = <<>> /\ Together(TextsOf(items), 0) = <<>> /\ Together(printed, 0) = <<>>
  <2>1. 0 \in Nat /\ 1 .. 0 = {}
    OBVIOUS
  <2>2. ASSUME NEW s PROVE Together(s, 0) = <<>>
    <3>1. \A i \in 1 .. 0 : s[i] \in Seq(Byte)
      BY <2>1
    <3>2. 0 \in Nat
      OBVIOUS
    <3> QED
      BY ONLY <3>1, <3>2, TogetherGrows
  <2> QED
    BY <2>2
<1>6. Progress(items, printed)'
  <2>1. CASE 1 <= n /\ items[1].piece.shows = "unsupported"
    <3>1. 1 \in 1 .. n /\ 1 - 1 = 0
      BY <1>1, <2>1
    <3>2. IsPrefix(Together(printed, 1 - 1), console')
      BY <1>2, <1>5, <3>1 DEF IsPrefix
    <3>3. Astray(items, printed)'
      BY <2>1, <3>1, <3>2 DEF Astray
    <3> QED
      BY <3>3 DEF Progress
  <2>2. CASE ~(1 <= n /\ items[1].piece.shows = "unsupported")
    <3>1. 1 \in 1 .. n + 1 /\ 1 - 1 = 0
      BY <1>1
    <3>2. \A i \in 1 .. n : i <= 1 => items[i].piece.shows # "unsupported"
      <4> SUFFICES ASSUME NEW i \in 1 .. n, i <= 1 PROVE items[i].piece.shows # "unsupported"
        OBVIOUS
      <4>1. i = 1 /\ 1 <= n
        BY <1>1
      <4> QED
        BY <2>2, <4>1
    <3>3. passed \in Seq(Args)
      <4>1. n \in 0 .. n
        BY <1>1
      <4> QED
        BY <1>1, <4>1, TogetherGrows
    <3>4. Len(Together(P, 1 - 1)) = 0
      BY <1>5, <3>1
    <3>5. /\ Len(va') = Len(passed) - Len(Together(P, 1 - 1))
          /\ \A k \in 1 .. Len(va') : va'[k] = passed[Len(Together(P, 1 - 1)) + k]
      BY <1>4, <3>3, <3>4
    <3>6. Reached(items, 1)'
      BY <3>1, <3>2, <3>5 DEF Reached
    <3>7. index' = Start(items, 1) /\ console' = Together(printed, 1 - 1)
      BY <1>2, <1>5, <3>1 DEF Start
    <3>8. Between(items, printed, 1)'
      BY <1>2, <3>6, <3>7 DEF Between
    <3>9. OnItem(items, printed)'
      BY <3>1, <3>8 DEF OnItem
    <3> QED
      BY <3>9 DEF Progress
  <2> QED
    BY <2>1, <2>2
<1> QED
  BY <1>2, <1>3, <1>4, <1>6, PrintingKept

LEMMA SettingIs ==
  ASSUME Typed, Asked(request), format = Together(TextsOf(request), Len(request)) \o <<NUL>>
  PROVE  Setting(request, PrintedOf(request))
<1> PICK items, printed : items = request /\ printed = PrintedOf(items)
  OBVIOUS
<1>1. MemTyped /\ console \in Seq(Byte) /\ va \in Seq(Args)
  BY DEF Typed, PrintTyped
<1>2. /\ items \in Seq(Item)
      /\ \A i \in 1 .. Len(items) : items[i].piece.takes = "string" => Terminated(items[i].val)
  BY DEF Asked
<1>3. ASSUME NEW i \in 1 .. Len(items)
      PROVE  /\ printed[i] \in Seq(Byte)
             /\ items[i].piece.shows # "unsupported" => printed[i] = Expected(items[i])
  <2> PICK item : item = items[i]
    OBVIOUS
  <2>1. printed[i] = IF item.piece.shows = "unsupported" THEN <<>> ELSE Expected(item)
    BY <1>2 DEF PrintedOf
  <2>2. item \in Item
    BY <1>2
  <2>3. CASE item.piece.shows = "unsupported"
    BY <2>1, <2>3
  <2>4. CASE item.piece.shows # "unsupported"
    <3>1. Expected(item) \in Seq(Byte)
      BY <1>1, <1>2, <2>2, <2>4, PrintedIs
    <3> QED
      BY <2>1, <2>4, <3>1
  <2> QED
    BY <2>3, <2>4
<1>4. Setting(items, printed)
  BY <1>1, <1>3 DEF Setting
<1> QED
  BY <1>4

LEMMA PrintStepPrints ==
  ASSUME Typed, Printing, PrintStep
  PROVE  Printing'
<1> PICK items, printed : items = request /\ printed = PrintedOf(items)
  OBVIOUS
<1>1. /\ request' = request /\ format' = format /\ at # "idle"
  BY DEF PrintStep, PlainChar, Return, Percent, ParseZeroPadWidth, ConvertLong, ConvertChar,
         ConvertInt, ConvertHex, ConvertString, ConvertPercent, ConvertDefault, Fetched, Converted,
         printVars
<1>2. mem' = mem
  BY PrintKeepsStrings DEF stringVars
<1>3. /\ Asked(items) /\ format = Together(TextsOf(items), Len(items)) \o <<NUL>>
      /\ Progress(items, printed)
  BY <1>1 DEF Printing
<1>4. Setting(items, printed)
  BY <1>3, SettingIs
<1>5. Grows
  <2>1. PICK f \in Seq(Char) : \E M : InFormat(f, M)
    BY DEF Typed
  <2>2. PICK M : InFormat(f, M)
    BY <2>1
  <2> QED
    BY <2>2, PrintStepTyped DEF Typed
<1>6. Progress(items, printed)'
  BY <1>3, <1>4, <1>5, ProgressStep
<1> QED
  BY <1>1, <1>2, <1>3, <1>6, PrintingKept

LEMMA PrintingStep ==
  ASSUME Typed, Printing, [PrintNext]_kprintfVars
  PROVE  Printing'
<1>1. CASE UNCHANGED kprintfVars
  <2>1. mem' = mem /\ request' = request /\ UNCHANGED <<at, printVars>>
    BY <1>1 DEF kprintfVars, stringVars, printVars
  <2>2. CASE at = "idle"
    BY <2>1, <2>2 DEF Printing
  <2>3. CASE at # "idle"
    <3> PICK items, printed : items = request /\ printed = PrintedOf(items)
      OBVIOUS
    <3>1. /\ Asked(items) /\ format = Together(TextsOf(items), Len(items)) \o <<NUL>>
          /\ Progress(items, printed)
      BY <2>3 DEF Printing
    <3>2. Progress(items, printed)'
      <4>1. /\ at' = at /\ index' = index /\ va' = va /\ console' = console
            /\ zero_pad_width' = zero_pad_width
        BY <2>1 DEF printVars
      <4>2. Astray(items, printed) => Astray(items, printed)'
        BY <4>1 DEF Astray
      <4>3. Finished(items, printed) => Finished(items, printed)'
        BY <4>1 DEF Finished
      <4>4. ASSUME NEW j \in 1 .. Len(items) + 1
            PROVE  /\ Between(items, printed, j) => Between(items, printed, j)'
                   /\ \A o \in Nat : InText(items, printed, j, o) => InText(items, printed, j, o)'
                   /\ InDirective(items, printed, j) => InDirective(items, printed, j)'
        BY <4>1 DEF Between, InText, InDirective, Reached
      <4>5. ASSUME NEW j, NEW o, NEW digits, InWidth(items, printed, j, digits, o)
            PROVE  InWidth(items, printed, j, digits, o)'
        BY <4>1, <4>5, Zenon DEF InWidth, Reached
      <4>6. OnItem(items, printed) => OnItem(items, printed)'
        BY <4>4, <4>5 DEF OnItem
      <4> QED
        BY <3>1, <4>2, <4>3, <4>6 DEF Progress
    <3> QED
      BY <2>1, <3>1, <3>2, PrintingKept DEF printVars
  <2> QED
    BY <2>2, <2>3
<1>2. CASE at = "idle" /\ UNCHANGED <<at, printVars>>
  BY <1>2 DEF Printing
<1>3. CASE PrintStep
  BY <1>3, PrintStepPrints
<1>4. ASSUME NEW items \in Seq(Item), Kprintf(items) PROVE Printing'
  BY <1>4, CallPrints
<1>5. \A items \in Requests : items \in Seq(Item)
  BY KprintfAssumption
<1> QED
  BY <1>1, <1>2, <1>3, <1>4, <1>5, StringPieceItem DEF PrintNext

-----------------------------------------------------------------------------

LEMMA PrintedSame ==
  ASSUME NEW items \in Seq(Item), NEW m \in 0 .. Len(items),
         \A i \in 1 .. m : items[i].piece.shows # "unsupported"
  PROVE  Together(PrintedOf(items), m) = FlattenSeq([i \in 1 .. m |-> Expected(items[i])])
<1> PICK n : n = Len(items)
  OBVIOUS
<1>1. n \in Nat /\ DOMAIN items = 1 .. n /\ m \in Nat /\ m <= n
  OBVIOUS
<1>2. \A i \in 1 .. m : i \in DOMAIN items
  BY <1>1
<1>3. \A i \in 1 .. m : PrintedOf(items)[i] = Expected(items[i])
  BY <1>2 DEF PrintedOf
<1>4. [i \in 1 .. m |-> PrintedOf(items)[i]] = [i \in 1 .. m |-> Expected(items[i])]
  BY <1>3
<1> QED
  BY <1>4, Zenon DEF Together

(* Which PrintsAsFormatted lets pass.                                      *)
LEMMA ExpectedAllowed ==
  ASSUME NEW item \in Item, item.piece.shows # "unsupported"
  PROVE  Expected(item) \in Allowed(item)
<1> DEFINE shows == item.piece.shows
           val == item.val
<1>1. shows \in Shown /\ val \in Int
  BY DEF Item, Piece
<1>2. CASE shows \in {"text", "percent", "char", "string"}
  <2>1. Expected(item) = CText(item)
    BY <1>2 DEF Expected, CText
  <2> QED
    BY <2>1, Zenon DEF Allowed
<1>3. CASE shows = "int" /\ val < 0
  <2>1. Expected(item) = IF val < 0 THEN <<MINUS, DIGIT_0>> ELSE Reverse(Numeral(val, 10))
    BY <1>3, Zenon DEF Expected
  <2>2. Expected(item) = <<MINUS, DIGIT_0>>
    BY <1>3, <2>1, Zenon
  <2>3. ~(val >= 0)
    BY <1>1, <1>3
  <2>4. Tolerated(item) = {<<MINUS, DIGIT_0>>}
    BY <1>3, <2>3, Zenon DEF Tolerated
  <2> QED
    BY <2>2, <2>4, Zenon DEF Allowed
<1>4. CASE shows = "int" /\ ~(val < 0)
  <2>1. Expected(item) = Reverse(Numeral(val, 10))
    BY <1>4, Zenon DEF Expected
  <2>2. CText(item) = Numeral(val, 10)
    BY <1>4, Zenon DEF CText
  <2>3. val >= 0
    BY <1>1, <1>4
  <2>4. Tolerated(item) = {Reverse(CText(item))}
    BY <1>4, <2>3, Zenon DEF Tolerated
  <2> QED
    BY <2>1, <2>2, <2>4, Zenon DEF Allowed
<1>5. CASE shows = "ulong"
  <2>1. Expected(item) = Reverse(Numeral(Unsigned(val, ULONG_MAX), 10))
    BY <1>5, Zenon DEF Expected
  <2>2. CText(item) = Numeral(Unsigned(val, ULONG_MAX), 10)
    BY <1>5, Zenon DEF CText
  <2>3. Tolerated(item) = {Reverse(CText(item))}
    BY <1>5, Zenon DEF Tolerated
  <2> QED
    BY <2>1, <2>2, <2>3, Zenon DEF Allowed
<1>6. CASE shows \in {"hex", "ulonghex"}
  <2>1. Expected(item) = HexText(item)
    <3>1. CASE shows = "hex"
      BY <3>1, Zenon DEF Expected, HexText
    <3>2. CASE shows = "ulonghex"
      BY <3>2, Zenon DEF Expected, HexText
    <3> QED
      BY <1>6, <3>1, <3>2
  <2>2. Tolerated(item) = {HexText(item)}
    BY <1>6, Zenon DEF Tolerated
  <2> QED
    BY <2>1, <2>2, Zenon DEF Allowed
<1> QED
  BY <1>1, <1>2, <1>3, <1>4, <1>5, <1>6 DEF Shown

(* The pieces before the first that is not implemented are the first m.    *)
LEMMA KnownAre ==
  ASSUME NEW m \in 0 .. Len(request), request \in Seq(Item),
         \A i \in 1 .. m : request[i].piece.shows # "unsupported",
         m < Len(request) => request[m + 1].piece.shows = "unsupported"
  PROVE  Known = 1 .. m /\ Cardinality(Known) = m /\ (Unsupported = {} <=> m = Len(request))
<1> PICK n : n = Len(request)
  OBVIOUS
<1>1. DOMAIN request = 1 .. n /\ n \in Nat /\ m \in Nat /\ m <= n
  OBVIOUS
<1>2. \A j \in Unsupported : j \in 1 .. n /\ m < j
  <2> SUFFICES ASSUME NEW j \in Unsupported PROVE j \in 1 .. n /\ m < j
    OBVIOUS
  <2>1. j \in 1 .. n /\ j \notin 1 .. m
    BY <1>1 DEF Unsupported
  <2> QED
    BY <1>1, <2>1
<1>3. m < n => m + 1 \in Unsupported
  <2> SUFFICES ASSUME m < n PROVE m + 1 \in Unsupported
    OBVIOUS
  <2>1. m + 1 \in DOMAIN request
    BY <1>1
  <2> QED
    BY <2>1 DEF Unsupported
<1>4. Known = 1 .. m
  <2>1. ASSUME NEW i \in Known PROVE i \in 1 .. m
    <3>1. i \in 1 .. n /\ \A j \in Unsupported : i < j
      BY <1>1 DEF Known
    <3>2. m < n => i < m + 1
      BY <1>3, <3>1
    <3> QED
      BY <1>1, <3>1, <3>2
  <2>2. ASSUME NEW i \in 1 .. m PROVE i \in Known
    <3>1. i \in DOMAIN request
      BY <1>1
    <3>2. \A j \in Unsupported : i < j
      BY <1>1, <1>2
    <3> QED
      BY <3>1, <3>2 DEF Known
  <2> QED
    BY <2>1, <2>2
<1>5. Cardinality(1 .. m) = m
  <2>1. 1 \in Int /\ m \in Int /\ m \in Nat
    BY <1>1
  <2>2. Cardinality(1 .. m) = IF 1 > m THEN 0 ELSE m - 1 + 1
    BY <2>1, FS_Interval
  <2> QED
    BY ONLY <2>1, <2>2
<1>6. Unsupported = {} <=> m = n
  <2>1. m = n => Unsupported = {}
    BY <1>1, <1>2
  <2>2. Unsupported = {} => m = n
    BY <1>1, <1>3
  <2> QED
    BY <2>1, <2>2
<1> QED
  BY <1>4, <1>5, <1>6

(* So what was printed of them is what PrintsAsFormatted asks for.         *)
LEMMA KnownPrinted ==
  ASSUME NEW m \in 0 .. Len(request), request \in Seq(Item),
         \A i \in 1 .. m : request[i].piece.shows # "unsupported",
         m < Len(request) => request[m + 1].piece.shows = "unsupported",
         IsPrefix(Together(PrintedOf(request), m), console),
         m = Len(request) => console = Together(PrintedOf(request), m),
         at = "wild" => m < Len(request)
  PROVE  PrintsAsFormatted
<1> DEFINE shown == [i \in 1 .. m |-> Expected(request[i])]
           texts == UNION {Allowed(request[i]) : i \in Known}
<1>1. Known = 1 .. m /\ Cardinality(Known) = m /\ (Unsupported = {} <=> m = Len(request))
  BY KnownAre
<1>2. \A i \in 1 .. m : shown[i] \in Allowed(request[i])
  <2> SUFFICES ASSUME NEW i \in 1 .. m PROVE shown[i] \in Allowed(request[i])
    OBVIOUS
  <2>1. request[i] \in Item /\ request[i].piece.shows # "unsupported"
    OBVIOUS
  <2>2. Expected(request[i]) \in Allowed(request[i])
    BY <2>1, ExpectedAllowed
  <2> QED
    BY <2>2
<1>3. shown \in [1 .. m -> texts]
  BY <1>1, <1>2
<1>4. Together(shown, m) = Together(PrintedOf(request), m)
  <2>1. Together(PrintedOf(request), m) = FlattenSeq([i \in 1 .. m |-> Expected(request[i])])
    BY PrintedSame
  <2>2. [i \in 1 .. m |-> shown[i]] = [i \in 1 .. m |-> Expected(request[i])]
    OBVIOUS
  <2> QED
    BY <2>1, <2>2, Zenon DEF Together
<1>5. /\ IsPrefix(Together(shown, m), console)
      /\ Unsupported = {} => console = Together(shown, m)
      /\ at = "wild" => Unsupported # {}
  <2>1. m < Len(request) => m # Len(request)
    OBVIOUS
  <2> QED
    BY <1>1, <1>4, <2>1
<1> HIDE DEF shown, texts
<1>6. \E s \in [1 .. m -> texts] :
        /\ \A i \in 1 .. m : s[i] \in Allowed(request[i])
        /\ IsPrefix(Together(s, m), console)
        /\ Unsupported = {} => console = Together(s, m)
  BY <1>2, <1>3, <1>5, Zenon
<1>7. \E s \in [1 .. Cardinality(Known) -> texts] :
        /\ \A i \in 1 .. Cardinality(Known) : s[i] \in Allowed(request[i])
        /\ IsPrefix(Together(s, Cardinality(Known)), console)
        /\ Unsupported = {} => console = Together(s, Cardinality(Known))
  BY <1>1, <1>6, Zenon
<1> QED
  BY <1>5, <1>7, Zenon DEF PrintsAsFormatted, texts

LEMMA PrintsWhatIsKnown == ASSUME Typed, Printing PROVE PrintsAsFormatted
<1>1. CASE at \notin {"done", "wild"}
  BY <1>1 DEF PrintsAsFormatted
<1>2. CASE at \in {"done", "wild"}
  <2> PICK printed, n : printed = PrintedOf(request) /\ n = Len(request)
    OBVIOUS
  <2>1. Asked(request) /\ Progress(request, printed)
    BY <1>2 DEF Printing
  <2>2. request \in Seq(Item) /\ DOMAIN request = 1 .. n /\ n \in Nat
    BY <2>1 DEF Asked
  <2>3. CASE Finished(request, printed)
    <3>1. /\ at = "done" /\ console = Together(printed, n)
          /\ \A i \in 1 .. n : request[i].piece.shows # "unsupported"
      BY <2>3 DEF Finished
    <3>2. console \in Seq(Byte)
      BY DEF Typed, PrintTyped
    <3>3. IsPrefix(console, console)
      BY <3>2 DEF IsPrefix
    <3>4. n \in 0 .. Len(request) /\ ~(n < Len(request))
      BY <2>2
    <3>5. IsPrefix(Together(PrintedOf(request), n), console)
      BY <3>1, <3>3
    <3> QED
      BY <2>2, <3>1, <3>4, <3>5, KnownPrinted
  <2>4. CASE Astray(request, printed)
    <3>1. PICK u \in 1 .. n :
            /\ request[u].piece.shows = "unsupported"
            /\ \A i \in 1 .. u - 1 : request[i].piece.shows # "unsupported"
            /\ IsPrefix(Together(printed, u - 1), console)
      BY <2>4 DEF Astray
    <3> PICK m : m = u - 1
      OBVIOUS
    <3>2. m \in 0 .. Len(request) /\ m < Len(request) /\ m + 1 = u
      BY <2>2
    <3>3. m # Len(request)
      BY <2>2, <3>2
    <3>4. /\ \A i \in 1 .. m : request[i].piece.shows # "unsupported"
          /\ request[m + 1].piece.shows = "unsupported"
          /\ IsPrefix(Together(PrintedOf(request), m), console)
      BY <3>1, <3>2
    <3> QED
      BY <2>2, <3>2, <3>3, <3>4, KnownPrinted
  <2>5. ~OnItem(request, printed)
    BY <1>2 DEF OnItem, Between, InText, InWidth, InDirective
  <2> QED
    BY <2>1, <2>3, <2>4, <2>5 DEF Progress
<1> QED
  BY <1>1, <1>2

(* For every request that the compiler lets through and every memory, what *)
(* kprintf prints is each piece of the format in its turn, with the        *)
(* argument that the caller gave for it and nothing between.  The text of  *)
(* a piece is C's, but that hexadecimal digits may be capitals, decimal    *)
(* digits may be in reverse, and of a negative number only the sign and a  *)
(* 0 may be left (Tolerated): stdio.c does print them so.  That holds up   *)
(* to the first directive that stdio.c does not implement, and only behind *)
(* such a directive is a number read through as the pointer of a %s.       *)
THEOREM PrintsWhatIsAsked == PrintSpec => []PrintsAsFormatted
<1>1. PrintInit => Printing
  BY DEF PrintInit, Printing
<1>2. Typed /\ Printing /\ [PrintNext]_kprintfVars => Printing'
  BY PrintingStep
<1>3. Typed /\ Printing => PrintsAsFormatted
  BY PrintsWhatIsKnown
<1> QED
  BY <1>1, <1>2, <1>3, AlwaysTyped, PTL DEF PrintSpec

=============================================================================
