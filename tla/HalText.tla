------------------------------ MODULE HalText ------------------------------
(***************************************************************************)
(* The two formatters of the HAL: alt_printf(), with which irq_timer       *)
(* prints, and the formatter of the logging macros.  A character is a      *)
(* string of length one; a format is a sequence of characters; arguments   *)
(* are words, or sequences of characters where the format has %s.          *)
(***************************************************************************)
EXTENDS Integers, SequencesExt

CONSTANTS
  Nibbles,       \* hexadecimal digits of an unsigned long: 8
  EchoLen        \* ALT_LOG_WRITE_ECHO_LEN: 15

ASSUME TextAssumption == Nibbles \in Nat \ {0} /\ EchoLen \in Nat

LongWord == 16 ^ Nibbles
Numerals == << "0", "1", "2", "3", "4", "5", "6", "7", "8", "9" >>
LowerCase == Numerals \o << "a", "b", "c", "d", "e", "f" >>
UpperCase == Numerals \o << "A", "B", "C", "D", "E", "F" >>

----------------------------------------------------------------------------
(* alt_printf().                                                           *)
Nibble(v, i) == (v \div 16 ^ i) % 16

(* A faulty Hexits: the leading zeros are printed too.                     *)
HexitsFromTop(v) == [k \in 1 .. Nibbles |-> LowerCase[Nibble(v, Nibbles - k) + 1]]

(* From the first digit that is not zero.                                  *)
Hexits(v) ==
  IF v = 0 THEN << "0" >>
  ELSE LET top == Max({i \in 0 .. Nibbles - 1 : Nibble(v, i) # 0})
       IN  [k \in 1 .. top + 1 |-> LowerCase[Nibble(v, top + 1 - k) + 1]]

(* What is printed for the character after "%".                            *)
Converted(c, arg) ==
  CASE c = "%" -> << "%" >>
    [] c = "c" -> << arg >>
    [] c = "x" -> Hexits(arg)
    [] c = "s" -> arg
    [] OTHER   -> << >>

TakesArgument(c) == c \in {"c", "x", "s"}

Start(args) == [escape |-> FALSE, args |-> args, out |-> << >>]

PrintfStep(s, c) ==
  IF ~s.escape
  THEN IF c = "%" THEN [s EXCEPT !.escape = TRUE] ELSE [s EXCEPT !.out = Append(@, c)]
  ELSE [escape |-> FALSE,
        args   |-> IF TakesArgument(c) THEN Tail(s.args) ELSE s.args,
        out    |-> s.out \o Converted(c, IF TakesArgument(c) THEN Head(s.args) ELSE 0)]

alt_printf(fmt, args) == FoldLeft(PrintfStep, Start(args), fmt).out

----------------------------------------------------------------------------
(* alt_log_private_printf().                                               *)
pfDefaults == [lead |-> FALSE, before |-> -1, after |-> -1, base |-> 10,
               signed |-> TRUE, upper |-> FALSE]

alt_log_repchar(c, r) == [k \in 1 .. Max({0, r}) |-> c]

DigitCount(v, base) ==
  CHOOSE k \in 1 .. 4 * Nibbles : v < base ^ k /\ (k > 1 => base ^ (k - 1) <= v)

DigitsOf(v, f) ==
  LET count == DigitCount(v, f.base) IN
  [k \in 1 .. count |->
     (IF f.upper THEN UpperCase ELSE LowerCase)[((v \div f.base ^ (count - k)) % f.base) + 1]]

(* A faulty IntegerPrint: the sign is dropped.                             *)
IntegerPrintUnsigned(v, f) ==
  LET digits == DigitsOf(v, f)
  IN  alt_log_repchar(IF f.lead THEN "0" ELSE " ", f.before - Len(digits)) \o digits

(* doIntegerPrint: zeros go between the sign and the digits, blanks before *)
(* the sign.                                                               *)
IntegerPrint(v, f) ==
  LET negative == f.signed /\ v >= LongWord \div 2
      digits   == DigitsOf(IF negative THEN LongWord - v ELSE v, f)
      sign     == IF negative THEN << "-" >> ELSE << >>
      room     == f.before - Len(digits) - Len(sign)
  IN  IF f.lead THEN sign \o alt_log_repchar("0", room) \o digits
                ELSE alt_log_repchar(" ", room) \o sign \o digits

(* The format after its last letter.                                       *)
Typed(f, c) ==
  CASE c \in {"d", "i"} -> f
    [] c = "u" -> [f EXCEPT !.signed = FALSE]
    [] c = "o" -> [f EXCEPT !.signed = FALSE, !.base = 8]
    [] c = "x" -> [f EXCEPT !.signed = FALSE, !.base = 16]
    [] c = "X" -> [f EXCEPT !.signed = FALSE, !.base = 16, !.upper = TRUE]

Integral(c) == c \in {"d", "i", "u", "o", "x", "X"}

Printed(f, c, arg) ==
  CASE Integral(c) -> IntegerPrint(arg, Typed(f, c))
    [] c = "c" -> alt_log_repchar(" ", f.before - 1) \o << arg >>
    [] c = "s" -> alt_log_repchar(" ", f.before - Len(arg)) \o arg

pfStart(args) == [state |-> "chars", f |-> pfDefaults, args |-> args, out |-> << >>]

(* The digits of the width, or of the precision after a point.             *)
Numeral(c) == SelectInSeq(Numerals, LAMBDA n : n = c) - 1
WithDigit(f, c) ==
  IF f.after < 0 THEN [f EXCEPT !.before = (IF @ < 0 THEN 0 ELSE @ * 10) + Numeral(c)]
                 ELSE [f EXCEPT !.after = @ * 10 + Numeral(c)]

otherFmtChar(s, c) ==
  IF c = "." THEN [s EXCEPT !.state = "other", !.f.after = 0]
  ELSE IF c \in ToSet(Numerals) THEN [s EXCEPT !.state = "other", !.f = WithDigit(@, c)]
  ELSE IF c = "l" THEN [s EXCEPT !.state = "other"]
  ELSE IF Integral(c) \/ c \in {"c", "s"}
       THEN [s EXCEPT !.state = "chars", !.args = Tail(@),
                      !.out = @ \o Printed(s.f, c, Head(s.args))]
  ELSE [s EXCEPT !.state = "chars"]

pfStep(s, c) ==
  CASE s.state = "chars" /\ c = "%" -> [s EXCEPT !.state = "first", !.f = pfDefaults]
    [] s.state = "chars" /\ c # "%" -> [s EXCEPT !.out = Append(@, c)]
    [] s.state = "first" /\ c = "0" -> [s EXCEPT !.state = "other", !.f.lead = TRUE]
    [] s.state = "first" /\ c = "%" -> [s EXCEPT !.state = "chars", !.out = Append(@, c)]
    [] OTHER -> otherFmtChar(s, c)

alt_log_private_printf(fmt, args) == FoldLeft(pfStep, pfStart(args), fmt).out

(* alt_log_write(): the echo of the first characters written; a Ctrl-D     *)
(* would end the host's terminal.  The last character makes room for the   *)
(* line's end.                                                             *)
alt_log_write(text) ==
  LET length == Min({EchoLen, Len(text)})
      kept == SubSeq(text, 1, length - 1)
  IN  IF length < 2 THEN << >>
      ELSE [k \in DOMAIN kept |-> IF kept[k] = "^D" THEN "D" ELSE kept[k]]
           \o << "\n", "\r" >>

----------------------------------------------------------------------------
(* Reference: the number a text denotes, and properties.                   *)
ValueOf(c, base) ==
  CHOOSE d \in 0 .. base - 1 : LowerCase[d + 1] = c \/ UpperCase[d + 1] = c

Denotes(text, base) ==
  LET unpadded == SelectSeq(text, LAMBDA c : c # " ")
      negative == Head(unpadded) = "-"
      magnitude == FoldLeft(LAMBDA n, c : n * base + ValueOf(c, base), 0,
                            IF negative THEN Tail(unpadded) ELSE unpadded)
  IN  IF negative THEN -magnitude ELSE magnitude

(* A word is printed as digits that read back as the word, by both         *)
(* formatters and in every base, with sign, blanks or zeros in their       *)
(* places, in a field never shorter than asked for (alt_log_printf.c:206,  *)
(* alt_printf.c:86).                                                       *)
NumberPrinted(v) ==
  /\ Denotes(alt_printf(<< "%", "x" >>, << v >>), 16) = v
  /\ Head(Hexits(v)) = "0" => v = 0
  /\ \A pad \in {<< >>, << "0" >>}, width \in {<< >>, << "7" >>} :
       \A c \in {"d", "u", "o", "x", "X"} :
         LET text == alt_log_private_printf(<< "%" >> \o pad \o width \o << c >>, << v >>)
             base == Typed(pfDefaults, c).base
         IN  /\ Denotes(text, base) =
                  IF c = "d" /\ v >= LongWord \div 2 THEN v - LongWord ELSE v
             /\ width # << >> => Len(text) >= 7

(* On the formats alt_printf() knows, the two print the same.              *)
PrintersAgree(fmt, args) ==
  alt_printf(fmt, args) = alt_log_private_printf(fmt, args)

(* The echo fits its buffer of EchoLen + 2 with the final zero, and sends  *)
(* no Ctrl-D.                                                              *)
EchoSafe(text) ==
  Len(alt_log_write(text)) + 1 <= EchoLen + 2 /\ "^D" \notin ToSet(alt_log_write(text))
=============================================================================
