----------------------------- MODULE Arithmetic -----------------------------
(***************************************************************************)
(* The arithmetic the other proofs use: remainders modulo m, for ring      *)
(* indices, numbered characters and words that wrap, and what irq_timer    *)
(* and seg_afficher compute from two data bytes, for every byte.  Division *)
(* by a variable is beyond the SMT solver, so that only MRange to MBelow,  *)
(* and what follows from them, are left to it.                             *)
(***************************************************************************)
EXTENDS Measure, TLAPS

(* Remainders, and those of the three words about zero.                    *)
LEMMA MRange == ASSUME NEW m \in Nat \ {0}, NEW x \in Int
                PROVE  x % m \in 0 .. m - 1
OBVIOUS

LEMMA MSame == ASSUME NEW m \in Nat \ {0}, NEW x \in 0 .. m - 1
               PROVE  x % m = x
OBVIOUS

LEMMA MAbove == ASSUME NEW m \in Nat \ {0}, NEW x \in m .. 2 * m - 1
                PROVE  x % m = x - m
OBVIOUS

LEMMA MBelow == ASSUME NEW m \in Nat \ {0}, NEW x \in -m .. -1
                PROVE  x % m = x + m
OBVIOUS

(* Quotient and remainder.                                                 *)
LEMMA MDivided ==
  ASSUME NEW m \in Nat \ {0}, NEW x \in Int
  PROVE  /\ x \div m \in Int /\ x % m \in 0 .. m - 1
         /\ x = m * (x \div m) + (x % m)
OBVIOUS

(* No multiple but zero lies strictly between -m and m.                    *)
LEMMA MSmall ==
  ASSUME NEW m \in Nat \ {0}, NEW t \in Int, -m < m * t, m * t < m
  PROVE  t = 0
<1>1. CASE t >= 1
  <2>1. m * t >= m
    BY <1>1
  <2>. QED BY <2>1
<1>2. CASE t <= -1
  <2>1. m * t <= -m
    BY <1>2
  <2>. QED BY <2>1
<1>. QED BY <1>1, <1>2

(* A number has one remainder.                                             *)
LEMMA MUnique ==
  ASSUME NEW m \in Nat \ {0}, NEW p \in Int, NEW q \in Int,
         NEW r \in 0 .. m - 1, NEW s \in 0 .. m - 1, m * p + r = m * q + s
  PROVE  r = s
<1>1. m * (p - q) = s - r
  OBVIOUS
<1>2. -m < m * (p - q) /\ m * (p - q) < m
  BY <1>1
<1>3. p - q = 0
  BY <1>2, MSmall
<1>. QED BY <1>1, <1>3

(* Multiples of m do not count.                                            *)
LEMMA MShift ==
  ASSUME NEW m \in Nat \ {0}, NEW x \in Int, NEW q \in Int
  PROVE  (x + (m * q)) % m = x % m
<1>. DEFINE d == x \div m
            r == x % m
            z == x + (m * q)
            e == z \div m
            s == z % m
            p == d + q
<1>1. d \in Int /\ r \in 0 .. m - 1 /\ x = m * d + r
  BY MDivided
<1>2. z \in Int
  OBVIOUS
<1>3. e \in Int /\ s \in 0 .. m - 1 /\ z = m * e + s
  <2>. HIDE DEF z
  <2>. QED BY <1>2, MDivided
<1>4. p \in Int /\ m * p = m * d + m * q
  BY <1>1
<1>5. m * p + r = m * e + s
  <2>1. m * d \in Int /\ m * q \in Int /\ m * e \in Int /\ m * p \in Int
    BY <1>1, <1>3, <1>4
  <2>2. z = x + m * q
    OBVIOUS
  <2>. HIDE DEF d, r, z, e, s, p
  <2>. QED BY <2>1, <2>2, <1>1, <1>2, <1>3, <1>4
<1>. HIDE DEF d, r, z, e, s, p
<1>6. r = s
  BY <1>1, <1>3, <1>4, <1>5, MUnique
<1>. QED BY <1>6 DEF r, s, z

(* A remainder taken early does not change that of a sum.                  *)
LEMMA MAdd ==
  ASSUME NEW m \in Nat \ {0}, NEW x \in Int, NEW y \in Int
  PROVE  ((x % m) + y) % m = (x + y) % m
<1>. DEFINE r == x % m
            q == x \div m
            w == r + y
<1>1. r \in Int /\ q \in Int /\ x = m * q + r /\ w \in Int
  BY MDivided
<1>2. (w + (m * q)) % m = w % m
  <2>. HIDE DEF w, q
  <2>. QED BY <1>1, MShift
<1>3. w + (m * q) = x + y
  <2>1. m * q \in Int /\ w = r + y
    BY <1>1
  <2>. HIDE DEF w, q, r
  <2>. QED BY <1>1, <2>1
<1>. QED BY <1>2, <1>3

(* Nor that of a difference.                                               *)
LEMMA MSub ==
  ASSUME NEW m \in Nat \ {0}, NEW x \in Int, NEW y \in Int
  PROVE  (y - (x % m)) % m = (y - x) % m
<1>. DEFINE r == x % m
            q == x \div m
            w == y - x
<1>1. r \in Int /\ q \in Int /\ x = m * q + r /\ w \in Int
  BY MDivided
<1>2. (w + (m * q)) % m = w % m
  <2>. HIDE DEF w, q
  <2>. QED BY <1>1, MShift
<1>3. w + (m * q) = y - r
  <2>1. m * q \in Int /\ w = y - x
    BY <1>1
  <2>. HIDE DEF w, q, r
  <2>. QED BY <1>1, <2>1
<1>. QED BY <1>2, <1>3

(* A quotient is what leaves a remainder below m.                          *)
LEMMA MQuotient ==
  ASSUME NEW m \in Nat \ {0}, NEW q \in Int, NEW r \in 0 .. m - 1,
         NEW x \in Int, x = m * q + r
  PROVE  x \div m = q /\ x % m = r
<1>. DEFINE d == x \div m
            s == x % m
<1>1. d \in Int /\ s \in 0 .. m - 1 /\ x = m * d + s
  BY MDivided
<1>. HIDE DEF d, s
<1>2. r = s
  BY <1>1, MUnique
<1>3. m * (q - d) = 0
  BY <1>1, <1>2
<1>4. q - d \in Int /\ -m < m * (q - d) /\ m * (q - d) < m
  BY <1>1, <1>3
<1>5. q - d = 0
  BY <1>4, MSmall
<1>. QED BY <1>1, <1>2, <1>5 DEF d, s

-----------------------------------------------------------------------------
(* Two bytes make a word of sixteen bits.                                  *)
LEMMA CombineType ==
  ASSUME NEW lo \in Byte, NEW hi \in Byte
  PROVE  Combine(lo, hi) \in Word
BY SMT DEF Combine, Byte, Word

(* The two halves of a word are bytes and make the word again.             *)
LEMMA SplitCombine ==
  ASSUME NEW raw \in Word
  PROVE  /\ raw % 256 \in Byte /\ raw \div 256 \in Byte
         /\ Combine(raw % 256, raw \div 256) = raw
BY SMT DEF Combine, Byte, Word

(* The sign extension of a word is its two's complement count.             *)
LEMMA SignedType ==
  ASSUME NEW raw \in Word
  PROVE  /\ Signed(raw) \in Counts
         /\ Signed(raw) = raw \/ Signed(raw) = raw - 65536
BY SMT DEF Signed, Word, Counts

(* Scaling by 3.9 stays within its bounds and errs by less than one        *)
(* milli-g, towards zero.                                                  *)
LEMMA ScaledFacts ==
  ASSUME NEW c \in Counts
  PROVE  /\ Scaled(c) \in MilliG
         /\ Abs(39 * c - 10 * Scaled(c)) < 10
         /\ Abs(10 * Scaled(c)) <= Abs(39 * c)
<1>1. CASE c >= 0
  BY <1>1, SMT DEF Scaled, Counts, MilliG, Abs
<1>2. CASE c < 0
  <2>. DEFINE q == (39 * (-c)) \div 10
  <2>1. q \in Int /\ 10 * q <= 39 * (-c) /\ 39 * (-c) < 10 * q + 10
    BY <1>2, SMT DEF Counts
  <2>2. Scaled(c) = -q
    BY <1>2, SMT DEF Scaled, Counts
  <2>. HIDE DEF q
  <2>. QED BY <1>2, <2>1, <2>2, SMT DEF Counts, MilliG, Abs
<1>. QED BY <1>1, <1>2, SMT DEF Counts

(* irq_timer's conversion of every word is exact.                          *)
THEOREM ConversionCorrect == \A raw \in Word : ConversionExact(raw)
BY SignedType, ScaledFacts DEF ConversionExact

(* seg_afficher's digits fit the output registers.                         *)
LEMMA DigitsType ==
  ASSUME NEW mg \in MilliG
  PROVE  Digits(mg) \in Shown
<1>1. Abs(mg) \in Nat /\ Abs(mg) <= 127795
  BY SMT DEF Abs, MilliG
<1>2. mg \in Int
  BY DEF MilliG
<1>. QED BY <1>1, <1>2, SMT DEF Digits, Shown

(* seg_afficher's digits are the decimal digits of every value.            *)
THEOREM DigitsCorrect == \A mg \in MilliG : DigitsExact(mg)
<1>. SUFFICES ASSUME NEW mg \in MilliG PROVE DigitsExact(mg)
  OBVIOUS
<1>. DEFINE d == Abs(mg)
<1>1. d \in Nat
  BY SMT DEF Abs, MilliG
<1>. HIDE DEF d
<1>2. (d % 10000) \div 1000 = (d \div 1000) - (10 * (d \div 10000))
  BY <1>1, SMT
<1>3. (d % 1000) \div 100 = (d \div 100) - (10 * (d \div 1000))
  BY <1>1, SMT
<1>4. (d % 100) \div 10 = (d \div 10) - (10 * (d \div 100))
  BY <1>1, SMT
<1>5. Number(Digits(mg)) =
        1000 * (d \div 10000) + 100 * ((d % 10000) \div 1000)
        + 10 * ((d % 1000) \div 100) + ((d % 100) \div 10)
  BY DEF Number, Digits, d
<1>. QED
  <2>1. Number(Digits(mg)) = d \div 10
    BY <1>1, <1>2, <1>3, <1>4, <1>5, SMT
  <2>. QED BY <2>1 DEF DigitsExact, d

(* What the converted sample of any word shows fits the registers.         *)
LEMMA ReadingType ==
  ASSUME NEW raw \in Word
  PROVE  Scaled(Signed(raw)) \in MilliG /\ Reading(raw) \in Shown
BY SignedType, ScaledFacts, DigitsType DEF Reading

(* The ten glyphs are distinct, and leave the point alone.                 *)
LEMMA GlyphsDiffer ==
  ASSUME NEW x \in 0..9, NEW y \in 0..9, SevenSeg(x) = SevenSeg(y)
  PROVE  x = y
BY DEF SevenSeg, Glyph

LEMMA GlyphsLit ==
  ASSUME NEW x \in 0..9
  PROVE  SevenSeg(x) # {} /\ 7 \notin SevenSeg(x)
BY DEF SevenSeg, Glyph

LEMMA DigitReadable ==
  ASSUME NEW n \in 0..12
  PROVE  ReadableAs(SevenSeg(n), n)
<1>1. CASE n \in 0..9
  <2>1. {m \in 0..9 : SevenSeg(m) = SevenSeg(n)} = {n}
    BY <1>1, GlyphsDiffer
  <2>. QED BY <1>1, <2>1 DEF ReadableAs
<1>2. CASE n \notin 0..9
  <2>1. SevenSeg(n) = {}
    BY <1>2 DEF SevenSeg
  <2>2. {m \in 0..9 : SevenSeg(m) = SevenSeg(n)} = {}
    BY <2>1, GlyphsLit
  <2>. QED BY <1>2, <2>2 DEF ReadableAs
<1>. QED BY <1>1, <1>2

(* The panel shows every set of digits so that it can be read.             *)
THEOREM PanelCorrect == \A d \in Shown : PanelReadable(d)
<1>. SUFFICES ASSUME NEW d \in Shown PROVE PanelReadable(d)
  OBVIOUS
<1>1. /\ d.seg1 \in 0..9 /\ d.seg2 \in 0..9 /\ d.seg3 \in 0..9
      /\ d.seg4 \in 0..12 /\ d.sign \in 0..1
  BY DEF Shown
<1>2. /\ Panel(d)[1] = SevenSeg(d.seg1) /\ Panel(d)[2] = SevenSeg(d.seg2)
      /\ Panel(d)[3] = SevenSegVirgule(d.seg3) /\ Panel(d)[4] = SevenSeg(d.seg4)
      /\ Panel(d)[5] = SignSeg(d.sign)
  BY DEF Panel
<1>3. 0..9 \subseteq 0..12
  OBVIOUS
<1>4. ReadableAs(Panel(d)[1], d.seg1) /\ ReadableAs(Panel(d)[2], d.seg2)
      /\ ReadableAs(Panel(d)[4], d.seg4)
  BY <1>1, <1>2, <1>3, DigitReadable
<1>5. 7 \in Panel(d)[3] /\ ReadableAs(Panel(d)[3] \ {7}, d.seg3)
  <2>1. 7 \in SevenSegVirgule(d.seg3)
    BY DEF SevenSegVirgule
  <2>2. SevenSegVirgule(d.seg3) \ {7} = SevenSeg(d.seg3)
    BY <1>1, GlyphsLit DEF SevenSegVirgule
  <2>. QED BY <1>1, <1>2, <1>3, <2>1, <2>2, DigitReadable
<1>6. d.sign = 0 <=> 6 \in Panel(d)[5]
  BY <1>1, <1>2 DEF SignSeg
<1>. QED BY <1>4, <1>5, <1>6 DEF PanelReadable
=============================================================================
