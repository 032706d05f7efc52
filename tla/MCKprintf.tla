------------------------------ MODULE MCKprintf -------------------------------
(* Model-checking instance of Kprintf: see the .cfg file.                  *)
EXTENDS Kprintf

(* 'a' and a byte above 127. *)
MCBytes == {NUL, 97, 200}
MCInitialMem == [a \in Address |-> IF a = 0 THEN 200 ELSE IF a = 1 THEN 97 ELSE NUL]
MCClearMem == [a \in Address |-> NUL]

Of(text, takes, pad, shows) == [text |-> text, takes |-> takes, pad |-> pad, shows |-> shows]

MCStringPiece == Of(<<PERCENT, LOWER_S>>, "string", 0, "string")

Texts == {Of(<<97>>, "nothing", 0, "text"), Of(<<DIGIT_0, LOWER_D>>, "nothing", 0, "text"),
          Of(<<PERCENT, PERCENT>>, "nothing", 0, "percent")}

(* %c, %d, %x, %02x, %016x on numbers of 8 bits; %lx, %03lx and %lu on 12. *)
Numbers ==
  {Of(<<PERCENT, LOWER_C>>, "number", 0, "char"),
   Of(<<PERCENT, LOWER_D>>, "number", 0, "int"),
   Of(<<PERCENT, LOWER_X>>, "number", 0, "hex"),
   Of(<<PERCENT, DIGIT_0, DIGIT_0 + 2, LOWER_X>>, "number", 2, "hex"),
   Of(<<PERCENT, DIGIT_0, DIGIT_0 + 1, DIGIT_0 + 2, LOWER_X>>, "number", 12, "hex"),
   Of(<<PERCENT, LOWER_L, LOWER_X>>, "number", 0, "ulonghex"),
   Of(<<PERCENT, DIGIT_0, DIGIT_0 + 3, LOWER_L, LOWER_X>>, "number", 3, "ulonghex"),
   Of(<<PERCENT, LOWER_L, LOWER_U>>, "number", 0, "ulong")}

(* %u, %ld, %llx, %2x and %02d: stdio.c drops u and ld, prints what is     *)
(* left of %llx and %2x, and does not pad %02d.                            *)
Unknown ==
  {Of(<<PERCENT, LOWER_U>>, "number", 0, "unsupported"),
   Of(<<PERCENT, LOWER_L, LOWER_D>>, "number", 0, "unsupported"),
   Of(<<PERCENT, LOWER_L, LOWER_L, LOWER_X>>, "number", 0, "unsupported"),
   Of(<<PERCENT, DIGIT_0 + 2, LOWER_X>>, "number", 0, "unsupported"),
   Of(<<PERCENT, DIGIT_0, DIGIT_0 + 2, LOWER_D>>, "number", 2, "unsupported")}

(* The ends of int, the carry to a second and a third digit.               *)
Values == {-128, -5, 0, 9, 10, 127}

Items ==
  [piece : Texts, val : {0}]
    \cup [piece : Numbers, val : Values]
    \cup [piece : {p \in Numbers : p.shows \in {"ulong", "ulonghex"}}, val : {256, 1230, 4095}]
    \cup [piece : Unknown, val : {10}]
    \cup [piece : {MCStringPiece}, val : {0, 1, 2}]

MCRequests == {<<>>} \cup [1 .. 1 -> Items] \cup [1 .. 2 -> Items]

(* %d of -5, %lu of 10 and %x of 10 in one format.                         *)
MCNumberRequests ==
  {<<[piece |-> Of(<<PERCENT, LOWER_D>>, "number", 0, "int"), val |-> -5],
     [piece |-> Of(<<PERCENT, LOWER_L, LOWER_U>>, "number", 0, "ulong"), val |-> 10],
     [piece |-> Of(<<PERCENT, LOWER_X>>, "number", 0, "hex"), val |-> 10]>>}

===============================================================================
