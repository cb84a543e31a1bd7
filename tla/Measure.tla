------------------------------ MODULE Measure ------------------------------
(***************************************************************************)
(* The arithmetic between a pair of ADXL345 data bytes and the five        *)
(* seven-segment digits: irq_timer and seg_afficher of main.c, and the     *)
(* decoders of bin_to_7_seg.vhd, bin_to_7_seg_virgule.vhd and              *)
(* lab3_vhd.vhd.  The module has no state.                                 *)
(***************************************************************************)
EXTENDS Integers

Byte == 0..255

(* x_data once both bytes are in; as a two's complement count; as that     *)
(* count times 3.9, truncated.                                             *)
Word == {n \in Nat : n < 65536}
Counts == {n \in Int : -32768 <= n /\ n <= 32767}
MilliG == {n \in Int : -127795 <= n /\ n <= 127791}

(* x_data | (extracted_data(X_add_1) << 8), x_data being the low byte.     *)
Combine(lo, hi) == lo + 256 * hi

(* A faulty Signed: the + 1 of the two's complement is forgotten.          *)
SignedWithoutOne(raw) == IF raw >= 32768 THEN -(65535 - raw) ELSE raw

(* if (x_data & 0x8000) x_data = -(0xFFFF - x_data + 1)                    *)
Signed(raw) == IF raw >= 32768 THEN -(65535 - raw + 1) ELSE raw

(* (int)(x_data * scale_f_out): the C conversion truncates towards zero.   *)
(* The product with the double 3.9 and the exact 39/10 truncate to the     *)
(* same integer for every 16-bit count.                                    *)
Scaled(counts) ==
  IF counts >= 0 THEN (39 * counts) \div 10 ELSE -((39 * (-counts)) \div 10)

Abs(n) == IF n >= 0 THEN n ELSE -n

(* What seg_afficher leaves in sign[], seg4[] .. seg1[] for one axis.      *)
Shown == [sign : 0..1, seg4 : 0..12, seg3 : 0..9, seg2 : 0..9, seg1 : 0..9]

Digits(mg) ==
  LET d == Abs(mg)
  IN  [sign |-> IF mg >= 0 THEN 1 ELSE 0,
       seg4 |-> d \div 10000,
       seg3 |-> (d % 10000) \div 1000,
       seg2 |-> (d % 1000) \div 100,
       seg1 |-> (d % 100) \div 10]

(* The initialisers of seg1 .. seg4 and sign.                              *)
NoDigits == [sign |-> 1, seg4 |-> 0, seg3 |-> 0, seg2 |-> 0, seg1 |-> 0]

(* The reset value of the output registers PIO_1 .. PIO_5.                 *)
ResetPio == [NoDigits EXCEPT !.sign = 0]

Reading(raw) == Digits(Scaled(Signed(raw)))

----------------------------------------------------------------------------
(* The segments a decoder lights, 0 for a up to 6 for g, 7 for the point;  *)
(* the pins are active low.  Every code above 9 leaves the digit dark.     *)
Glyph ==
  << {0,1,2,3,4,5}, {1,2}, {0,1,3,4,6}, {0,1,2,3,6}, {1,2,5,6},
     {0,2,3,5,6}, {0,2,3,4,5,6}, {0,1,2}, {0,1,2,3,4,5,6}, {0,1,2,3,5,6} >>

SevenSeg(bin) == IF bin \in 0..9 THEN Glyph[bin + 1] ELSE {}

SevenSegVirgule(bin) == SevenSeg(bin) \cup {7}

SignSeg(data5) == IF data5 = 1 THEN {} ELSE {6}

(* lab3_vhd: the five displays driven by PIO_1 .. PIO_5.                   *)
Panel(pio) == << SevenSeg(pio.seg1), SevenSeg(pio.seg2),
                 SevenSegVirgule(pio.seg3), SevenSeg(pio.seg4),
                 SignSeg(pio.sign) >>

----------------------------------------------------------------------------
(* The three conversions keep the value: the sign extension changes a word *)
(* by a whole number of turns only, and the scaling errs by less than one  *)
(* milli-g, towards zero.                                                  *)
ConversionExact(raw) ==
  LET c == Signed(raw)
  IN  /\ c \in Counts /\ (c = raw \/ c = raw - 65536)
      /\ Abs(39 * c - 10 * Scaled(c)) < 10
      /\ Abs(10 * Scaled(c)) <= Abs(39 * c)

(* The digits read as a decimal number are the value in tens of milli-g,   *)
(* also where the leading "digit" is above nine.                           *)
Number(d) == 1000 * d.seg4 + 100 * d.seg3 + 10 * d.seg2 + d.seg1

DigitsExact(mg) == Number(Digits(mg)) = Abs(mg) \div 10

(* The lit segments tell the digits apart, the lit point included; a       *)
(* leading digit above nine, which takes a hundred g, is left dark.        *)
ReadableAs(lit, n) == {m \in 0..9 : SevenSeg(m) = lit} = {n} \cap 0..9

PanelReadable(d) ==
  /\ ReadableAs(Panel(d)[1], d.seg1)
  /\ ReadableAs(Panel(d)[2], d.seg2)
  /\ 7 \in Panel(d)[3] /\ ReadableAs(Panel(d)[3] \ {7}, d.seg3)
  /\ ReadableAs(Panel(d)[4], d.seg4)
  /\ d.sign = 0 <=> 6 \in Panel(d)[5]
=============================================================================
