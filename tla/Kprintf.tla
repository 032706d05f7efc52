------------------------------- MODULE Kprintf --------------------------------
(***************************************************************************)
(* kernel/kstdlib/stdio.c: kprintf and kvprintf, over the strings that the *)
(* functions of CString build, on the console of debug.c and sbicall.c.    *)
(*                                                                         *)
(* Characters are their codes.  The kernel is compiled with -Wall -Werror  *)
(* and stdio.h declares the functions as printf-like, so a format is a     *)
(* sequence of pieces (text, or a directive the compiler knows) and each   *)
(* directive has its argument.  stdio.c knows fewer directives than that.  *)
(***************************************************************************)
EXTENDS CString, FiniteSets, SequencesExt

CONSTANTS
  Requests,            (* the formats and arguments of the calls *)
  StringPiece,         (* the directive %s alone *)
  UINT_MAX, ULONG_MAX  (* the greatest uint32_t and unsigned long *)

PERCENT == 37
MINUS == 45
DIGIT_0 == 48
UPPER_A == 65
LOWER_C == 99
LOWER_D == 100
LOWER_L == 108
LOWER_S == 115
LOWER_U == 117
LOWER_X == 120

(* What a directive prints, in the words of the properties. *)
Shown == {"text", "percent", "char", "string", "int", "ulong", "hex", "ulonghex", "unsupported"}

DecimalDigits == DIGIT_0 .. DIGIT_0 + 9

(* What -Wformat lets through: text, or a directive with its conversion at *)
(* e, behind a 0 and a width or right behind the percent sign.  A directive *)
(* does not end in l, and no percent sign follows but as the conversion.   *)
Directive(text, e) ==
  /\ text[1] = PERCENT
  /\ \A k \in 2 .. Len(text) : text[k] = PERCENT => k = e
  /\ \/ text[2] # DIGIT_0 /\ e = 2
     \/ /\ text[2] = DIGIT_0 /\ e > 2
        /\ (\A k \in 2 .. e - 1 : text[k] \in DecimalDigits) /\ text[e] \notin DecimalDigits
  /\ text[e] = LOWER_L => e < Len(text)

Accepted(text) ==
  \/ \A k \in DOMAIN text : text[k] # PERCENT
  \/ \E e \in 2 .. Len(text) : Directive(text, e)

Char == 1 .. 255

(* What decimal digits stand for. *)
Value(digits) ==
  LET read[k \in 0 .. Len(digits)] ==
        IF k = 0 THEN 0 ELSE read[k - 1] * 10 + (digits[k] - DIGIT_0)
  IN  read[Len(digits)]

(* A directive that converts letters, with a width of pad behind a 0 or    *)
(* without.                                                                *)
WithWidth(text, pad, letters) ==
  LET digits == SubSeq(text, 3, Len(text) - Len(letters))
  IN  \/ text = <<PERCENT>> \o letters /\ pad = 0
      \/ /\ digits \in Seq(DecimalDigits) /\ pad = Value(digits)
         /\ text = <<PERCENT, DIGIT_0>> \o digits \o letters

(* The text that the C standard has for what a piece shows; unsupported is *)
(* whatever else the compiler accepts.                                     *)
Specified(piece) ==
  LET text == piece.text
  IN  CASE piece.shows = "text" -> \A k \in DOMAIN text : text[k] # PERCENT
        [] piece.shows = "percent" -> text = <<PERCENT, PERCENT>>
        [] piece.shows = "char" -> text = <<PERCENT, LOWER_C>>
        [] piece.shows = "string" -> text = <<PERCENT, LOWER_S>>
        [] piece.shows = "int" -> text = <<PERCENT, LOWER_D>>
        [] piece.shows = "ulong" -> text = <<PERCENT, LOWER_L, LOWER_U>>
        [] piece.shows = "hex" -> WithWidth(text, piece.pad, <<LOWER_X>>)
        [] piece.shows = "ulonghex" -> WithWidth(text, piece.pad, <<LOWER_L, LOWER_X>>)
        [] piece.shows = "unsupported" -> TRUE

Takes(shows) ==
  CASE shows \in {"text", "percent"} -> {"nothing"}
    [] shows = "string" -> {"string"}
    [] shows \in {"char", "int", "ulong", "hex", "ulonghex"} -> {"number"}
    [] shows = "unsupported" -> {"nothing", "number", "string"}

Piece ==
  {p \in [text : {t \in Seq(Char) \ {<<>>} : Accepted(t)}, takes : {"nothing", "number", "string"},
          pad : Nat, shows : Shown] :
     Specified(p) /\ p.takes \in Takes(p.shows)}

INT_MAX == UINT_MAX \div 2

(* The argument of %s points into memory, that of %d is an int.            *)
Item ==
  {item \in [piece : Piece, val : Int] :
     /\ item.piece.takes = "string" => item.val \in Address
     /\ item.piece.shows = "int" => item.val \in -(INT_MAX + 1) .. INT_MAX}

ASSUME KprintfAssumption ==
  /\ \A r \in Requests : r \in Seq(Item)
  /\ StringPiece \in Piece /\ StringPiece.shows = "string"
  /\ UINT_MAX \in Nat /\ UINT_MAX % 2 = 1
  /\ UINT_MAX >= 255   (* a uint32_t holds every character *)
  /\ ULONG_MAX \in Nat

VARIABLES
  at,
  request,     (* history: the pieces of the format and their arguments *)
  format, index, num_written, zero_pad_width,
  va,          (* the arguments not yet fetched *)
  console      (* what the firmware was given to print in this call *)

printVars == <<request, format, index, num_written, zero_pad_width, va, console>>
kprintfVars == <<stringVars, at, printVars>>

PrintInit ==
  /\ InitString
  /\ at = "idle"
  /\ request = <<>> /\ format = <<NUL>> /\ index = 0
  /\ num_written = 0 /\ zero_pad_width = 0
  /\ va = <<>> /\ console = <<>>

(* What the caller passes for a piece. *)
Passed(item) ==
  IF item.piece.takes = "nothing" THEN <<>>
  ELSE <<[kind |-> item.piece.takes, val |-> item.val]>>

(* kprintf and kvprintf differ only in who owns the list of arguments.  The *)
(* string of a %s ends in the memory, as for the functions of CString.     *)
Kprintf(items) ==
  /\ at = "idle"
  /\ \A i \in DOMAIN items : items[i].piece.takes = "string" => Terminated(items[i].val)
  /\ at' = "scan"
  /\ request' = items
  /\ format' = FlattenSeq([i \in DOMAIN items |-> items[i].piece.text]) \o <<NUL>>
  /\ va' = FlattenSeq([i \in DOMAIN items |-> Passed(items[i])])
  /\ index' = 0 /\ num_written' = 0 /\ zero_pad_width' = 0 /\ console' = <<>>
  /\ call' = NoCall /\ UNCHANGED mem

At(i) == format[i + 1]

Unsigned(val, max) == val % (max + 1)

(* The firmware prints the character in the register that sbicall.c loads  *)
(* from a uint32_t; nobody looks at what it returns.                       *)
LegacyEcall1(arg0) == Unsigned(arg0, UINT_MAX)

(* srv_hal_WriteDebugChar for each character: one SBI call each, in order. *)
WriteDebugChars(chars) ==
  console' = console \o [k \in DOMAIN chars |-> LegacyEcall1(chars[k])]

PlainChar ==
  /\ at = "scan" /\ At(index) \notin {NUL, PERCENT}
  /\ WriteDebugChars(<<At(index)>>)
  /\ num_written' = num_written + 1
  /\ index' = index + 1
  /\ UNCHANGED <<stringVars, at, request, format, zero_pad_width, va>>

Return ==
  /\ at = "scan" /\ At(index) = NUL
  /\ at' = "done"
  /\ UNCHANGED <<stringVars, printVars>>

(* The start of a directive, with the zero that announces a width or not.  *)
Percent ==
  /\ at = "scan" /\ At(index) = PERCENT
  /\ zero_pad_width' = 0
  /\ \/ At(index + 1) = DIGIT_0 /\ at' = "pad" /\ index' = index + 2
     \/ At(index + 1) # DIGIT_0 /\ at' = "convert" /\ index' = index + 1
  /\ UNCHANGED <<stringVars, request, format, num_written, va, console>>

Accumulated(width, digit) == width * 10 + digit

ParseZeroPadWidth ==
  /\ at = "pad"
  /\ \/ /\ At(index) \in DecimalDigits
        /\ zero_pad_width' = Accumulated(zero_pad_width, At(index) - DIGIT_0)
        /\ index' = index + 1
        /\ UNCHANGED at
     \/ /\ At(index) \notin DecimalDigits
        /\ at' = "convert"
        /\ UNCHANGED <<zero_pad_width, index>>
  /\ UNCHANGED <<stringVars, request, format, num_written, va, console>>

Digit(d) ==
  CASE d \in 0 .. 9 -> DIGIT_0 + d
    [] d \in 10 .. 15 -> UPPER_A - 10 + d
    [] OTHER -> NUL

(* The rounds of the loops over a number: one for each digit, and one for  *)
(* a 0.                                                                    *)
DigitCount_ZeroHasNone(number, base) ==
  LET count[n \in Nat] == IF n = 0 THEN 0 ELSE 1 + count[n \div base]
  IN  count[number]

DigitCount(number, base) ==
  LET count[n \in Nat] == IF n < base THEN 1 ELSE 1 + count[n \div base]
  IN  count[number]

(* A number divided, or shifted, i times. *)
Quotient(number, base, i) ==
  LET left[k \in Nat] == IF k = 0 THEN number ELSE left[k - 1] \div base
  IN  left[i]

(* Decimal digits leave as the division yields them: the last one first.   *)
ULong(number) ==
  [k \in 1 .. DigitCount(number, 10) |-> Digit(Quotient(number, 10, k - 1) % 10)]

(* "number -= number": the digits of a negative number are those of 0.     *)
Number(number) ==
  IF number < 0 THEN <<MINUS>> \o ULong(number - number) ELSE ULong(number)

(* What the function returns for it, which leaves the sign to the caller.  *)
NumberCount(number) == DigitCount(IF number < 0 THEN number - number ELSE number, 10)

HexPadded(number, width) ==
  LET value_digits == DigitCount(number, 16)
      digits_to_print == IF width > value_digits THEN width ELSE value_digits
      digit(i) == IF i >= value_digits THEN DIGIT_0 ELSE Digit(Quotient(number, 16, i) % 16)
  IN  [k \in 1 .. digits_to_print |-> digit(digits_to_print - k)]

(* The same on an unsigned long. *)
HexULongPadded(number, width) == HexPadded(number, width)

(* The bytes at address s up to the first NUL. *)
Characters(s) ==
  LET count == Cardinality({a \in Address : s <= a /\ \A b \in s .. a : mem[b] # NUL})
  IN  [k \in 1 .. count |-> mem[s + k - 1]]

Signed(val) ==
  LET u == Unsigned(val, UINT_MAX) IN IF u <= INT_MAX THEN u ELSE u - (UINT_MAX + 1)

VaArg == va[1].val

(* The end of a directive of length characters after the width, for which  *)
(* chars are printed and num are counted.                                  *)
Converted(length, chars, num) ==
  /\ WriteDebugChars(chars)
  /\ num_written' = num_written + num
  /\ index' = index + length
  /\ at' = "scan"
  /\ UNCHANGED <<stringVars, request, format, zero_pad_width>>

Fetched(length, chars, num) ==
  /\ va # <<>>
  /\ va' = Tail(va)
  /\ Converted(length, chars, num)

(* %lx, %lu, and any other letter after l, which is swallowed. *)
ConvertLong ==
  LET number == Unsigned(VaArg, ULONG_MAX)
      hex == HexULongPadded(number, zero_pad_width)
      next == At(index + 1)
  IN  /\ at = "convert" /\ At(index) = LOWER_L
      /\ \/ next = LOWER_X /\ Fetched(2, hex, Len(hex))
         \/ next = LOWER_U /\ Fetched(2, ULong(number), DigitCount(number, 10))
         \/ next \notin {LOWER_X, LOWER_U} /\ Converted(2, <<>>, 0) /\ UNCHANGED va

ConvertChar ==
  /\ at = "convert" /\ At(index) = LOWER_C
  /\ Fetched(1, <<VaArg % 256>>, 1)

SignCount_None(number) == 0

SignCount(number) == IF number < 0 THEN 1 ELSE 0

ConvertInt ==
  LET number == Signed(VaArg)
  IN  /\ at = "convert" /\ At(index) = LOWER_D
      /\ Fetched(1, Number(number), NumberCount(number) + SignCount(number))

ConvertHex ==
  LET hex == HexPadded(Unsigned(VaArg, UINT_MAX), zero_pad_width)
  IN  /\ at = "convert" /\ At(index) = LOWER_X
      /\ Fetched(1, hex, Len(hex))

(* A number taken for a pointer is read through; what happens then is not  *)
(* followed.                                                               *)
ConvertString ==
  /\ at = "convert" /\ At(index) = LOWER_S
  /\ va # <<>>
  /\ \/ /\ va[1].kind = "string"
        /\ Fetched(1, Characters(VaArg), Len(Characters(VaArg)))
     \/ /\ va[1].kind # "string"
        /\ at' = "wild"
        /\ UNCHANGED <<stringVars, printVars>>

ConvertPercent ==
  /\ at = "convert" /\ At(index) = PERCENT
  /\ Converted(1, <<PERCENT>>, 1)
  /\ UNCHANGED va

DefaultLength_SkipsTwo == 2

DefaultLength == 1

(* default: the character is dropped, and no argument fetched. *)
ConvertDefault ==
  /\ at = "convert"
  /\ At(index) \notin {LOWER_L, LOWER_C, LOWER_D, LOWER_X, LOWER_S, PERCENT}
  /\ Converted(DefaultLength, <<>>, 0)
  /\ UNCHANGED va

PrintStep ==
  \/ PlainChar \/ Return \/ Percent \/ ParseZeroPadWidth
  \/ ConvertLong \/ ConvertChar \/ ConvertInt \/ ConvertHex \/ ConvertString
  \/ ConvertPercent \/ ConvertDefault

(* Every format is tried on the first memory, %s on whatever memory the    *)
(* string functions leave.                                                 *)
PrintNext ==
  \/ at = "idle" /\ NextString /\ UNCHANGED <<at, printVars>>
  \/ call = NoCall /\ \E items \in Requests : Kprintf(items)
  \/ \E s \in Address : Kprintf(<<[piece |-> StringPiece, val |-> s]>>)
  \/ PrintStep

PrintSpec == PrintInit /\ [][PrintNext]_kprintfVars

-----------------------------------------------------------------------------

(* Type invariant; the scan never leaves the format: it stands on its NUL  *)
(* at most, for every format the compiler lets through.                    *)
PrintTypeOK ==
  /\ mem \in [Address -> Bytes]
  /\ at \in {"idle", "scan", "pad", "convert", "done", "wild"}
  /\ index \in 0 .. Len(format) - 1
  /\ {num_written, zero_pad_width} \subseteq Nat
  /\ console \in Seq(0 .. 255)
  /\ va \in Seq([kind : {"number", "string"}, val : Int])

(* stdio.h: "@return The number of bytes written", signs, padding and      *)
(* strings included.                                                       *)
BytesCounted == num_written = Len(console)

(* The numeral of n, without a zero in front. *)
Numeral(n, base) ==
  LET numeral[m \in Nat] ==
        IF m < base THEN <<Digit(m)>> ELSE Append(numeral[m \div base], Digit(m % base))
  IN  numeral[n]

Padded(numeral, pad) == [k \in 1 .. pad - Len(numeral) |-> DIGIT_0] \o numeral

HexText(item) ==
  LET max == IF item.piece.shows = "hex" THEN UINT_MAX ELSE ULONG_MAX
  IN  Padded(Numeral(Unsigned(item.val, max), 16), item.piece.pad)

LowerCase(chars) == [k \in DOMAIN chars |-> IF chars[k] >= UPPER_A THEN chars[k] + 32 ELSE chars[k]]

(* What the C standard has printf print for a piece. *)
CText(item) ==
  LET piece == item.piece
      val == item.val
  IN  CASE piece.shows = "text" -> piece.text
        [] piece.shows = "percent" -> <<PERCENT>>
        [] piece.shows = "char" -> <<val % 256>>
        [] piece.shows = "string" -> StringIn(mem, val)
        [] piece.shows = "int" ->
             IF val < 0 THEN <<MINUS>> \o Numeral(-val, 10) ELSE Numeral(val, 10)
        [] piece.shows = "ulong" -> Numeral(Unsigned(val, ULONG_MAX), 10)
        [] piece.shows \in {"hex", "ulonghex"} -> LowerCase(HexText(item))

(* What PrintsAsFormatted lets pass beside it, all of it refuted as C's    *)
(* text by PrintsAsC: capitals, the digits of a decimal number backwards,  *)
(* and a negative number whose magnitude is lost.                          *)
Tolerated(item) ==
  CASE item.piece.shows \in {"hex", "ulonghex"} -> {HexText(item)}
    [] item.piece.shows = "int" /\ item.val < 0 -> {<<MINUS, DIGIT_0>>}
    [] item.piece.shows = "int" /\ item.val >= 0 -> {Reverse(CText(item))}
    [] item.piece.shows = "ulong" -> {Reverse(CText(item))}
    [] OTHER -> {}

Allowed(item) == {CText(item)} \cup Tolerated(item)

Unsupported == {i \in DOMAIN request : request[i].piece.shows = "unsupported"}

(* The pieces before the first directive that the compiler accepts and     *)
(* stdio.c does not implement.                                             *)
Known == {i \in DOMAIN request : \A j \in Unsupported : i < j}

(* The first m of some texts, one behind the other. *)
Together(seqs, m) == FlattenSeq([i \in 1 .. m |-> seqs[i]])

(* Each piece is printed in its turn with the argument that the caller     *)
(* gave for it and with nothing between, as C has it or as Tolerated says, *)
(* up to the first directive that stdio.c does not implement: behind it    *)
(* arguments are out of step, and only there can a number be taken for a   *)
(* string.                                                                 *)
PrintsAsFormatted ==
  LET m == Cardinality(Known)
      texts == UNION {Allowed(request[i]) : i \in Known}
  IN  /\ at = "done" =>
           \E shown \in [1 .. m -> texts] :
             /\ \A i \in 1 .. m : shown[i] \in Allowed(request[i])
             /\ IsPrefix(Together(shown, m), console)
             /\ Unsupported = {} => console = Together(shown, m)
      /\ at = "wild" => Unsupported # {}

(* stdio.h: kprintf is the "Kernel internal printf function", and declared *)
(* to the compiler as such.                                                *)
PrintsAsC ==
  at = "done" /\ Unsupported = {} =>
    console = Together([i \in DOMAIN request |-> CText(request[i])], Len(request))

===============================================================================
