------------------------------- MODULE CString --------------------------------
(***************************************************************************)
(* kernel/kstdlib/string.c on one array of bytes.  Pointers are indices of *)
(* mem; the functions are sequential, so a call is a step.  A recursive    *)
(* function called loop is the loop of the C function, by its index.       *)
(*                                                                         *)
(* Callers keep to C's rules: every byte a function touches exists, the    *)
(* strings of strlen and strcmp end in the array, and the blocks of memcpy *)
(* and strncpy (restrict) do not overlap.  strncpy looks at s2[i] for      *)
(* every i below n, also after the NUL, so all n bytes must exist.         *)
(***************************************************************************)
EXTENDS Integers, Sequences

CONSTANTS
  MemSize,
  Bytes,       (* the values a byte may take *)
  InitialMem,  (* what the array holds at first *)
  NoCall       (* no string function has been called *)

NUL == 0
Address == 0 .. MemSize - 1

ASSUME CStringAssumption ==
  /\ MemSize \in Nat \ {0}
  /\ Bytes \subseteq 0 .. 255 /\ NUL \in Bytes
  /\ InitialMem \in [Address -> Bytes]

VARIABLES
  mem,
  call   (* history: the last call, with the memory before it and its result *)

stringVars == <<mem, call>>

InitString == mem = InitialMem /\ call = NoCall

Exists(s, n) == s + n <= MemSize

Disjoint(s1, s2, n) == s1 + n <= s2 \/ s2 + n <= s1

Terminated(s) == \E a \in s .. MemSize - 1 : mem[a] = NUL

Returns(fn, s1, s2, n, c, ret) ==
  call' = [fn |-> fn, s1 |-> s1, s2 |-> s2, n |-> n, c |-> c, before |-> mem, ret |-> ret]

Memcpy(s1, s2, n) ==
  LET loop[i \in 0 .. n] ==
        IF i = 0 THEN mem ELSE [loop[i - 1] EXCEPT ![s1 + i - 1] = loop[i - 1][s2 + i - 1]]
  IN  /\ Exists(s1, n) /\ Exists(s2, n) /\ Disjoint(s1, s2, n)
      /\ mem' = loop[n]
      /\ Returns("memcpy", s1, s2, n, NUL, s1)

Memset(s, c, n) ==
  LET loop[i \in 0 .. n] == IF i = 0 THEN mem ELSE [loop[i - 1] EXCEPT ![s + i - 1] = c % 256]
  IN  /\ Exists(s, n)
      /\ mem' = loop[n]
      /\ Returns("memset", s, s, n, c, s)

Strlen(str) ==
  LET loop[count \in {i \in Nat : Terminated(str + i)}] ==
        IF mem[str + count] # NUL THEN loop[count + 1] ELSE count
  IN  /\ Terminated(str)
      /\ Returns("strlen", str, str, 0, NUL, loop[0])
      /\ UNCHANGED mem

(* char is unsigned in the RISC-V ABI. *)
Strcmp(s1, s2) ==
  LET loop[i \in {j \in Nat : Terminated(s1 + j) /\ Terminated(s2 + j)}] ==
        IF mem[s1 + i] # NUL /\ mem[s1 + i] = mem[s2 + i]
          THEN loop[i + 1] ELSE mem[s1 + i] - mem[s2 + i]
  IN  /\ Terminated(s1) /\ Terminated(s2)
      /\ Returns("strcmp", s1, s2, 0, NUL, loop[0])
      /\ UNCHANGED mem

Fused_NotKept(s2_shorter, byte) == byte = NUL

(* s2_shorter stays true once a NUL has been seen. *)
Fused(s2_shorter, byte) == s2_shorter \/ byte = NUL

Strncpy(s1, s2, n) ==
  LET loop[i \in 0 .. n] ==
        IF i = 0 THEN [mem |-> mem, s2_shorter |-> FALSE]
        ELSE LET last == loop[i - 1]
                 byte == last.mem[s2 + i - 1]
                 shorter == Fused(last.s2_shorter, byte)
             IN  [mem |-> [last.mem EXCEPT ![s1 + i - 1] = IF shorter THEN NUL ELSE byte],
                  s2_shorter |-> shorter]
  IN  /\ Exists(s1, n) /\ Exists(s2, n) /\ Disjoint(s1, s2, n)
      /\ mem' = loop[n].mem
      /\ Returns("strncpy", s1, s2, n, NUL, s1)

NextString ==
  \E s1 \in Address :
    \/ Strlen(s1)
    \/ \E n \in 0 .. MemSize, c \in Bytes, sign \in {0, -256} : Memset(s1, c + sign, n)
    \/ \E s2 \in Address :
         \/ Strcmp(s1, s2)
         \/ \E n \in 0 .. MemSize : Memcpy(s1, s2, n) \/ Strncpy(s1, s2, n)

-----------------------------------------------------------------------------

(* The string at s of a memory m, without its NUL. *)
StringIn(m, s) ==
  LET ends == {a \in s .. MemSize - 1 : m[a] = NUL}
      end == CHOOSE a \in ends : \A b \in ends : a <= b
  IN  [k \in 1 .. end - s |-> m[s + k - 1]]

(* The last call changed the n bytes at s1 to byte(0), byte(1), ... *)
Wrote(byte(_)) ==
  mem = [a \in Address |-> IF a \in call.s1 .. call.s1 + call.n - 1
                             THEN byte(a - call.s1) ELSE call.before[a]]

(* Greater at the first difference, a string above its prefixes. *)
Above(s, t) ==
  \E k \in 1 .. Len(s) :
    /\ k <= Len(t) + 1
    /\ SubSeq(s, 1, k - 1) = SubSeq(t, 1, k - 1)
    /\ k <= Len(t) => s[k] > t[k]

(* Every function does what string.h says, on every content of memory that *)
(* the functions themselves can bring about: the copies write the n bytes  *)
(* and no other, strncpy fills up with NUL after the end of its source,    *)
(* strlen and strcmp agree with the strings up to their first NUL, and the *)
(* sign of strcmp is the order of the strings as unsigned bytes.           *)
StringsAsSpecified ==
  call # NoCall =>
    LET source(i) == call.before[call.s2 + i]
        string(s) == StringIn(call.before, s)
    IN  CASE call.fn = "memcpy" -> Wrote(source)
          [] call.fn = "memset" -> Wrote(LAMBDA i : call.c % 256)
          [] call.fn = "strncpy" ->
               Wrote(LAMBDA i : IF \E j \in 0 .. i : source(j) = NUL THEN NUL ELSE source(i))
          [] call.fn = "strlen" -> call.ret = Len(string(call.s1))
          [] call.fn = "strcmp" ->
               /\ call.ret > 0 <=> Above(string(call.s1), string(call.s2))
               /\ call.ret < 0 <=> Above(string(call.s2), string(call.s1))

===============================================================================
