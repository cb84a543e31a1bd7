--------------------------- MODULE JtagUartProofs ---------------------------
(***************************************************************************)
(* Proofs about JtagUart, for every size of the rings, the FIFOs and the   *)
(* calls: no character is lost, repeated or overtaken in either direction, *)
(* the receive interrupt is not left off, and the transmit half implements *)
(* Console.                                                                *)
(***************************************************************************)
EXTENDS JtagUart, Arithmetic, SequenceTheorems

Index == 0 .. BufLen - 1
Char == 0 .. Chars - 1
Ring == [buf : [Index -> Char], in : Index, out : Index]

(* The ring holds, and the FIFO holds, the characters numbered from `from'.*)
Holds(r, from) ==
  \A d \in 0 .. Fill(r) - 1 :
    r.buf[(r.out + d) % BufLen] = (from + d) % Chars

Runs(f, from) ==
  \A i \in 1 .. Len(f) : f[i] = (from + i - 1) % Chars

----------------------------------------------------------------------------
(* One ring.                                                               *)

LEMMA Sizes ==
  /\ BufLen \in Nat \ {0} /\ Chars \in Nat \ {0}
  /\ BufLen >= 2 /\ FifoCap \in Nat /\ FifoCap >= 1
  /\ 0 \in Index /\ 0 \in Char
BY UartAssumption DEF Index, Char

LEMMA FillRange ==
  ASSUME NEW r \in Ring
  PROVE  /\ r.in \in Index /\ r.out \in Index /\ Fill(r) \in Index
         /\ r.in >= r.out => Fill(r) = r.in - r.out
         /\ r.in < r.out => Fill(r) = r.in - r.out + BufLen
<1>1. r.in \in Index /\ r.out \in Index
  BY DEF Ring
<1>. DEFINE x == r.in - r.out
<1>2. x \in Int /\ Fill(r) = x % BufLen
  BY <1>1 DEF Fill, Index
<1>3. x % BufLen \in Index
  <2>. HIDE DEF x
  <2>. QED BY <1>2, Sizes, MRange DEF Index
<1>4. ASSUME r.in >= r.out PROVE Fill(r) = x
  <2>1. x \in 0 .. BufLen - 1
    BY <1>1, <1>4, Sizes DEF Index
  <2>. HIDE DEF x
  <2>. QED BY <1>2, <2>1, Sizes, MSame
<1>5. ASSUME r.in < r.out PROVE Fill(r) = x + BufLen
  <2>1. x \in -BufLen .. -1
    BY <1>1, <1>5, Sizes DEF Index
  <2>. HIDE DEF x
  <2>. QED BY <1>2, <2>1, Sizes, MBelow
<1>. QED BY <1>1, <1>2, <1>3, <1>4, <1>5

(* Where the slot of the character d places after the first lies from the  *)
(* index in, going round.                                                  *)
LEMMA SlotPlace ==
  ASSUME NEW r \in Ring, NEW d \in Index
  PROVE  /\ (r.out + d) % BufLen \in Index
         /\ d >= Fill(r) =>
              (((r.out + d) % BufLen) - r.in) % BufLen = d - Fill(r)
         /\ d < Fill(r) =>
              (((r.out + d) % BufLen) - r.in) % BufLen = d - Fill(r) + BufLen
<1>. DEFINE x == r.out + d
            y == r.in - r.out
            z == d - Fill(r)
            v == -r.in
<1>1. /\ r.in \in Int /\ r.out \in Int /\ d \in Int /\ Fill(r) \in Index
      /\ x \in Int /\ y \in Int /\ v \in Int /\ z \in -BufLen .. BufLen - 1
  BY FillRange, Sizes DEF Index
<1>2. x % BufLen \in Index /\ x % BufLen \in Int
  <2>. HIDE DEF x
  <2>. QED BY <1>1, Sizes, MRange DEF Index
<1>3. ((x % BufLen) + v) % BufLen = (x + v) % BufLen
  <2>. HIDE DEF x, v
  <2>. QED BY <1>1, Sizes, MAdd
<1>4. (x % BufLen) + v = (x % BufLen) - r.in
  <2>. HIDE DEF x
  <2>. QED BY <1>1, <1>2
<1>5. z % BufLen = (d - y) % BufLen
  <2>1. Fill(r) = y % BufLen
    BY DEF Fill
  <2>. HIDE DEF y
  <2>. QED BY <1>1, <2>1, Sizes, MSub
<1>6. x + v = d - y
  BY <1>1
<1>7. ((x % BufLen) - r.in) % BufLen = z % BufLen
  BY <1>3, <1>4, <1>5, <1>6
<1>8. /\ d >= Fill(r) => z \in 0 .. BufLen - 1
      /\ d < Fill(r) => z \in -BufLen .. -1
  BY <1>1, Sizes DEF Index
<1>9. /\ d >= Fill(r) => z % BufLen = z
      /\ d < Fill(r) => z % BufLen = z + BufLen
  <2>. HIDE DEF z
  <2>. QED BY <1>8, Sizes, MSame, MBelow
<1>. QED BY <1>2, <1>7, <1>9

(* The first k characters are taken: those behind stay where they are.     *)
LEMMA Taking ==
  ASSUME NEW r \in Ring, NEW s \in Ring, NEW k \in 0 .. Fill(r),
         NEW from \in Int, Holds(r, from),
         s.buf = r.buf, s.in = r.in, s.out = (r.out + k) % BufLen
  PROVE  Fill(s) = Fill(r) - k /\ Holds(s, from + k)
<1>1. /\ r.in \in Int /\ r.out \in Int /\ Fill(r) \in Index /\ k \in Int
      /\ Fill(r) - k \in Index
  BY FillRange, Sizes DEF Index
<1>2. Fill(s) = Fill(r) - k
  <2>. DEFINE x == r.out + k
              y == r.in - r.out
              v == -k
  <2>1. x \in Int /\ y \in Int /\ v \in Int
    BY <1>1
  <2>2. (r.in - (x % BufLen)) % BufLen = (r.in - x) % BufLen
    <3>. HIDE DEF x
    <3>. QED BY <1>1, <2>1, Sizes, MSub
  <2>3. ((y % BufLen) + v) % BufLen = (y + v) % BufLen
    <3>. HIDE DEF y, v
    <3>. QED BY <2>1, Sizes, MAdd
  <2>4. r.in - x = y + v
    BY <1>1
  <2>5. Fill(r) + v = Fill(r) - k
    BY <1>1 DEF Index
  <2>6. Fill(s) = (Fill(r) - k) % BufLen
    BY <2>2, <2>3, <2>4, <2>5 DEF Fill
  <2>. QED BY <1>1, <2>6, Sizes, MSame DEF Index
<1>3. ASSUME NEW d \in 0 .. Fill(s) - 1
      PROVE  s.buf[(s.out + d) % BufLen] = ((from + k) + d) % Chars
  <2>. DEFINE x == r.out + k
              e == k + d
  <2>1. x \in Int /\ d \in Int /\ e \in 0 .. Fill(r) - 1
    BY <1>1, <1>2, <1>3 DEF Index
  <2>2. ((x % BufLen) + d) % BufLen = (x + d) % BufLen
    <3>. HIDE DEF x
    <3>. QED BY <2>1, Sizes, MAdd
  <2>3. x + d = r.out + e /\ from + e = (from + k) + d
    BY <1>1, <2>1
  <2>4. r.buf[(r.out + e) % BufLen] = (from + e) % Chars
    <3>. HIDE DEF e
    <3>. QED BY <2>1 DEF Holds
  <2>. QED BY <2>2, <2>3, <2>4
<1>. QED BY <1>2, <1>3 DEF Holds

(* k characters are added behind the last, in slots that were free.        *)
LEMMA Adding ==
  ASSUME NEW r \in Ring, NEW s \in Ring, NEW k \in 0 .. BufLen - 1 - Fill(r),
         NEW from \in Int, Holds(r, from),
         s.out = r.out, s.in = (r.in + k) % BufLen,
         \A i \in Index :
           s.buf[i] = IF (i - r.in) % BufLen < k
                      THEN (from + Fill(r) + ((i - r.in) % BufLen)) % Chars
                      ELSE r.buf[i]
  PROVE  Fill(s) = Fill(r) + k /\ Holds(s, from)
<1>1. /\ r.in \in Int /\ r.out \in Int /\ Fill(r) \in Index /\ k \in Int
      /\ Fill(r) + k \in Index
  BY FillRange, Sizes DEF Index
<1>2. Fill(s) = Fill(r) + k
  <2>. DEFINE x == r.in + k
              y == r.in - r.out
              v == -r.out
  <2>1. x \in Int /\ y \in Int /\ v \in Int
    BY <1>1
  <2>2. ((x % BufLen) + v) % BufLen = (x + v) % BufLen
    <3>. HIDE DEF x, v
    <3>. QED BY <2>1, Sizes, MAdd
  <2>3. ((y % BufLen) + k) % BufLen = (y + k) % BufLen
    <3>. HIDE DEF y
    <3>. QED BY <1>1, <2>1, Sizes, MAdd
  <2>4. x + v = y + k
    BY <1>1
  <2>5. (x % BufLen) + v = s.in - s.out
    <3>1. x % BufLen \in Int
      <4>. HIDE DEF x
      <4>. QED BY <2>1, Sizes, MRange
    <3>. QED BY <1>1, <3>1
  <2>6. Fill(s) = (Fill(r) + k) % BufLen
    BY <2>2, <2>3, <2>4, <2>5 DEF Fill
  <2>. QED BY <1>1, <2>6, Sizes, MSame DEF Index
<1>3. ASSUME NEW d \in 0 .. Fill(s) - 1
      PROVE  s.buf[(s.out + d) % BufLen] = (from + d) % Chars
  <2>. DEFINE i == (r.out + d) % BufLen
              p == (i - r.in) % BufLen
  <2>1. d \in Index /\ d < Fill(r) + k
    BY <1>1, <1>2, <1>3, Sizes DEF Index
  <2>2. /\ i \in Index
        /\ d >= Fill(r) => p = d - Fill(r)
        /\ d < Fill(r) => p = d - Fill(r) + BufLen
    BY <2>1, SlotPlace
  <2>3. s.buf[i] = IF p < k THEN (from + Fill(r) + p) % Chars ELSE r.buf[i]
    BY <2>2
  <2>. HIDE DEF i, p
  <2>4. CASE d >= Fill(r)
    <3>1. p < k /\ from + Fill(r) + p = from + d
      BY <1>1, <2>1, <2>2, <2>4, Sizes DEF Index
    <3>. QED BY <2>3, <3>1 DEF i
  <2>5. CASE d < Fill(r)
    <3>1. ~(p < k) /\ d \in 0 .. Fill(r) - 1
      BY <1>1, <2>1, <2>2, <2>5, Sizes DEF Index
    <3>2. r.buf[i] = (from + d) % Chars
      BY <3>1 DEF Holds, i
    <3>. QED BY <2>3, <3>1, <3>2 DEF i
  <2>. QED BY <1>1, <2>1, <2>4, <2>5 DEF Index
<1>. QED BY <1>2, <1>3 DEF Holds

----------------------------------------------------------------------------
(* The inductive invariant.                                                *)

UartTypeOK ==
  /\ tx \in Ring /\ rx \in Ring
  /\ txFifo \in Seq(Char) /\ rxFifo \in Seq(Char)
  /\ irq_enable \in SUBSET {"RE", "WE"}
  /\ ac \in BOOLEAN /\ host \in BOOLEAN
  /\ timeout \in Nat /\ host_inactive \in Nat
  /\ pc \in {"idle", "wlook", "wstore", "kick", "wspin",
             "rlook", "rtake", "rspin", "renable", "close"}
  /\ left \in 0 .. MaxCount /\ space \in 0 .. MaxCount
  /\ moved \in BOOLEAN /\ got \in BOOLEAN /\ nonblock \in BOOLEAN
  /\ n \in Index /\ seen \in Index
  /\ written \in Char /\ received \in Char /\ sent \in Char /\ taken \in Char

(* What the program decided from the indices it read still fits when it    *)
(* copies, whatever the interrupt routine did meanwhile.                   *)
StoreFits ==
  pc = "wstore" =>
    /\ 1 <= n /\ n <= left
    /\ n + Fill(tx) <= BufLen - 1 /\ tx.in + n <= BufLen

TakeFits == pc = "rtake" => n <= Fill(rx) /\ n <= space

(* Every character under way is the one its place says.                    *)
TxStream ==
  /\ Runs(txFifo, received) /\ Holds(tx, received + Len(txFifo))
  /\ (received + Len(txFifo) + Fill(tx)) % Chars = written
  /\ Len(txFifo) <= FifoCap

RxStream ==
  /\ Holds(rx, taken) /\ Runs(rxFifo, taken + Fill(rx))
  /\ (taken + Len(rxFifo) + Fill(rx)) % Chars = sent

(* A read that has taken something will enable the interrupt again.        *)
Armed ==
  "RE" \notin irq_enable =>
    Fill(rx) = BufLen - 1 \/ (got /\ pc \in {"rlook", "rtake", "renable"})

(* Once tx_out has moved there is room, until the write copies again.      *)
RoomSeen ==
  /\ pc = "wspin" => left > 0
  /\ pc \in {"kick", "wspin"} /\ left > 0 /\ tx.out # seen =>
       Fill(tx) < BufLen - 1

UartInv ==
  UartTypeOK /\ StoreFits /\ TakeFits /\ TxStream /\ RxStream /\ Armed /\ RoomSeen

----------------------------------------------------------------------------
(* The room a write finds and the characters a read finds lie in one piece.*)

LEMMA RoomFits ==
  ASSUME NEW r \in Ring
  PROVE  /\ Room(r) \in Index /\ Room(r) + Fill(r) <= BufLen - 1
         /\ r.in + Room(r) <= BufLen
         /\ Room(r) = 0 => Fill(r) = BufLen - 1
BY FillRange, Sizes DEF Room, Index

LEMMA ReadyFits ==
  ASSUME NEW r \in Ring
  PROVE  /\ Ready(r) \in Index /\ Ready(r) <= Fill(r)
         /\ Ready(r) = 0 => Fill(r) = 0
BY FillRange, Sizes DEF Ready, Index

(* The numbering does not see multiples of Chars.                          *)
LEMMA Renumber ==
  ASSUME NEW a \in Int, NEW b \in Int, a % Chars = b % Chars
  PROVE  /\ \A r \in Ring : Holds(r, a) => Holds(r, b)
         /\ \A f \in Seq(Char) : Runs(f, a) => Runs(f, b)
<1>1. ASSUME NEW d \in Int PROVE (a + d) % Chars = (b + d) % Chars
  <2>1. ((a % Chars) + d) % Chars = (a + d) % Chars
    BY <1>1, Sizes, MAdd
  <2>2. ((b % Chars) + d) % Chars = (b + d) % Chars
    BY <1>1, Sizes, MAdd
  <2>. QED BY <2>1, <2>2
<1>2. ASSUME NEW r \in Ring, Holds(r, a) PROVE Holds(r, b)
  <2>. SUFFICES ASSUME NEW d \in 0 .. Fill(r) - 1
                PROVE  r.buf[(r.out + d) % BufLen] = (b + d) % Chars
    BY DEF Holds
  <2>1. d \in Int
    BY FillRange DEF Index
  <2>. QED BY <1>1, <1>2, <2>1 DEF Holds
<1>3. ASSUME NEW f \in Seq(Char), Runs(f, a) PROVE Runs(f, b)
  <2>. SUFFICES ASSUME NEW i \in 1 .. Len(f)
                PROVE  f[i] = (b + i - 1) % Chars
    BY DEF Runs
  <2>1. i - 1 \in Int /\ a + i - 1 = a + (i - 1) /\ b + i - 1 = b + (i - 1)
    OBVIOUS
  <2>2. (a + (i - 1)) % Chars = (b + (i - 1)) % Chars
    BY <1>1, <2>1
  <2>. QED BY <1>3, <2>1, <2>2 DEF Runs
<1>. QED BY <1>2, <1>3

(* What the write copies joins the stream behind the last character.       *)
LEMMA StoreStep ==
  ASSUME UartInv, WriteStore
  PROVE  /\ tx' \in Ring /\ written' \in Char /\ TxStream'
         /\ Fill(tx') = Fill(tx) + n
<1>. DEFINE from == received + Len(txFifo)
            new == [i \in DOMAIN tx.buf |-> IF i \in tx.in .. tx.in + n - 1
                       THEN (written + i - tx.in) % Chars ELSE tx.buf[i]]
<1>1. /\ tx \in Ring /\ n \in 1 .. BufLen - 1 - Fill(tx)
      /\ tx.in + n <= BufLen /\ txFifo \in Seq(Char)
      /\ received \in Int /\ written \in Int /\ from \in Int /\ n \in Nat
      /\ Holds(tx, from) /\ (from + Fill(tx)) % Chars = written
      /\ tx.in \in Index /\ tx.in \in Int /\ Fill(tx) \in Int
  <2>1. tx \in Ring /\ txFifo \in Seq(Char) /\ n \in Index
        /\ written \in Char /\ received \in Char
    BY DEF UartInv, UartTypeOK
  <2>2. 1 <= n /\ n + Fill(tx) <= BufLen - 1 /\ tx.in + n <= BufLen
    BY DEF UartInv, StoreFits, WriteStore
  <2>3. Holds(tx, from) /\ (from + Fill(tx)) % Chars = written
    BY DEF UartInv, TxStream
  <2>4. Fill(tx) \in Index /\ tx.in \in Index
    BY <2>1, FillRange
  <2>. QED BY <2>1, <2>2, <2>3, <2>4, Sizes DEF Index, Char
<1>2. DOMAIN tx.buf = Index /\ tx.buf \in [Index -> Char]
  BY <1>1 DEF Ring
<1>3. ASSUME NEW i \in Index
      PROVE  /\ (i \in tx.in .. tx.in + n - 1) <=> ((i - tx.in) % BufLen < n)
             /\ i \in tx.in .. tx.in + n - 1 =>
                  (i - tx.in) % BufLen = i - tx.in
  <2>. DEFINE z == i - tx.in
  <2>0. i \in 0 .. BufLen - 1 /\ tx.in \in 0 .. BufLen - 1 /\ BufLen \in Nat
    BY <1>1, Sizes DEF Index
  <2>1. i \in Int /\ z \in -BufLen .. BufLen - 1
    BY <2>0
  <2>2. CASE i >= tx.in
    <3>1. z \in 0 .. BufLen - 1
      BY <1>1, <2>1, <2>2
    <3>2. z % BufLen = z
      <4>. HIDE DEF z
      <4>. QED BY <3>1, Sizes, MSame
    <3>3. (i \in tx.in .. tx.in + n - 1) <=> (z < n)
      BY <1>1, <2>1, <2>2
    <3>. QED BY <3>2, <3>3
  <2>3. CASE i < tx.in
    <3>1. z \in -BufLen .. -1
      BY <1>1, <2>1, <2>3
    <3>2. z % BufLen = z + BufLen
      <4>. HIDE DEF z
      <4>. QED BY <3>1, Sizes, MBelow
    <3>3. i >= 0
      BY DEF Index
    <3>4. i \notin tx.in .. tx.in + n - 1
      BY <1>1, <2>1, <2>3
    <3>5. tx.in \in Int /\ n \in Int /\ tx.in + n <= BufLen
      BY <1>1
    <3>6. ~(z + BufLen < n)
      BY <2>1, <3>3, <3>5, Sizes
    <3>. QED BY <3>2, <3>4, <3>6
  <2>. QED BY <1>1, <2>1, <2>2, <2>3
<1>4. ASSUME NEW i \in Index
      PROVE  /\ new[i] \in Char
             /\ new[i] = IF (i - tx.in) % BufLen < n
                         THEN (from + Fill(tx) + ((i - tx.in) % BufLen)) % Chars
                         ELSE tx.buf[i]
  <2>1. CASE i \in tx.in .. tx.in + n - 1
    <3>. DEFINE e == i - tx.in
    <3>1. e \in Int /\ written + i - tx.in = written + e
          /\ from + Fill(tx) \in Int
      BY <1>1, <2>1
    <3>2. (((from + Fill(tx)) % Chars) + e) % Chars = (from + Fill(tx) + e) % Chars
      <4>. HIDE DEF e, from
      <4>. QED BY <3>1, Sizes, MAdd
    <3>3. new[i] = (written + e) % Chars
      <4>1. new[i] = (written + i - tx.in) % Chars
        BY <1>2, <2>1
      <4>. QED BY <4>1, <3>1
    <3>4. written + e \in Int
      BY <1>1, <3>1
    <3>5. (written + e) % Chars \in Char
      <4>. HIDE DEF e
      <4>. QED BY <3>4, Sizes, MRange DEF Char
    <3>. HIDE DEF new, from
    <3>. QED BY <1>1, <1>3, <2>1, <3>2, <3>3, <3>5
  <2>2. CASE i \notin tx.in .. tx.in + n - 1
    <3>1. new[i] = tx.buf[i]
      BY <1>2, <2>2
    <3>. HIDE DEF new
    <3>. QED BY <1>2, <1>3, <2>2, <3>1
  <2>. QED BY <2>1, <2>2
<1>5. /\ tx' = [tx EXCEPT !.buf = new, !.in = (tx.in + n) % BufLen]
      /\ written' = (written + n) % Chars
      /\ UNCHANGED << txFifo, received >>
  BY DEF WriteStore
<1>6. new \in [Index -> Char] /\ (tx.in + n) % BufLen \in Index
  <2>1. new = [i \in Index |-> new[i]]
    BY <1>2
  <2>2. (tx.in + n) % BufLen \in Index
    <3>1. tx.in + n \in Int
      BY <1>1
    <3>. QED BY <3>1, Sizes, MRange DEF Index
  <2>. HIDE DEF new
  <2>. QED BY <1>4, <2>1, <2>2
<1>7. /\ tx' \in Ring /\ tx'.buf = new /\ tx'.in = (tx.in + n) % BufLen
      /\ tx'.out = tx.out
  <2>. HIDE DEF new
  <2>. QED BY <1>1, <1>5, <1>6 DEF Ring
<1>. HIDE DEF new
<1>8. n \in 0 .. BufLen - 1 - Fill(tx)
  BY <1>1
<1>9. Fill(tx') = Fill(tx) + n /\ Holds(tx', from)
  <2>. HIDE DEF from
  <2>. QED BY <1>1, <1>4, <1>7, <1>8, Adding
<1>10. written' \in Char
  <2>. HIDE DEF from
  <2>1. written + n \in Int
    BY <1>1
  <2>2. (written + n) % Chars \in Char
    BY <2>1, Sizes, MRange DEF Char
  <2>. QED BY <1>5, <2>2
<1>11. (from + Fill(tx')) % Chars = written'
  <2>. DEFINE a == from + Fill(tx)
  <2>1. a \in Int /\ n \in Int
    BY <1>1
  <2>2. ((a % Chars) + n) % Chars = (a + n) % Chars
    <3>. HIDE DEF a
    <3>. QED BY <2>1, Sizes, MAdd
  <2>3. a + n = from + Fill(tx')
    BY <1>1, <1>9
  <2>. QED BY <1>1, <1>5, <2>2, <2>3
<1>. QED BY <1>5, <1>7, <1>9, <1>10, <1>11 DEF UartInv, TxStream

(* What the read takes leaves the stream at its front.                     *)
LEMMA TakeStep ==
  ASSUME UartInv, ReadTake
  PROVE  /\ rx' \in Ring /\ taken' \in Char /\ RxStream'
         /\ Fill(rx') = Fill(rx) - n
<1>1. /\ rx \in Ring /\ rxFifo \in Seq(Char) /\ n \in Index
      /\ taken \in Char /\ n <= Fill(rx)
      /\ Holds(rx, taken) /\ Runs(rxFifo, taken + Fill(rx))
      /\ (taken + Len(rxFifo) + Fill(rx)) % Chars = sent
  BY DEF UartInv, UartTypeOK, TakeFits, RxStream, ReadTake
<1>2. /\ Fill(rx) \in Int /\ n \in Int /\ taken \in Int /\ n \in 0 .. Fill(rx)
      /\ Len(rxFifo) \in Int /\ rx.out \in Int /\ rx.out + n \in Int
  BY <1>1, FillRange DEF Index, Char
<1>3. /\ rx' = [rx EXCEPT !.out = (rx.out + n) % BufLen]
      /\ taken' = (taken + n) % Chars
      /\ UNCHANGED << rxFifo, sent >>
  BY DEF ReadTake
<1>4. (rx.out + n) % BufLen \in Index
  BY <1>2, Sizes, MRange DEF Index
<1>5. /\ rx' \in Ring /\ rx'.buf = rx.buf /\ rx'.in = rx.in
      /\ rx'.out = (rx.out + n) % BufLen
  BY <1>1, <1>3, <1>4 DEF Ring
<1>6. Fill(rx') = Fill(rx) - n /\ Holds(rx', taken + n)
  BY <1>1, <1>2, <1>5, Taking
<1>7. taken' \in Char /\ taken' \in Int
  <2>1. taken + n \in Int
    BY <1>2
  <2>. QED BY <1>3, <2>1, Sizes, MRange DEF Char
<1>8. ASSUME NEW a \in Int PROVE (taken' + a) % Chars = (taken + n + a) % Chars
  <2>. DEFINE b == taken + n
  <2>1. b \in Int
    BY <1>2
  <2>2. ((b % Chars) + a) % Chars = (b + a) % Chars
    <3>. HIDE DEF b
    <3>. QED BY <1>8, <2>1, Sizes, MAdd
  <2>. QED BY <1>3, <2>2
<1>9. Holds(rx', taken')
  <2>1. taken + n \in Int
    BY <1>2
  <2>2. taken' % Chars = (taken + n) % Chars
    BY <1>3, <1>7, Sizes, MSame DEF Char
  <2>. QED BY <1>5, <1>6, <1>7, <2>1, <2>2, Renumber
<1>10. Runs(rxFifo, taken' + Fill(rx'))
  <2>1. /\ taken' + Fill(rx') \in Int /\ taken + Fill(rx) \in Int
        /\ Fill(rx') \in Int /\ taken + n + Fill(rx') = taken + Fill(rx)
    BY <1>2, <1>6, <1>7
  <2>2. (taken' + Fill(rx')) % Chars = (taken + Fill(rx)) % Chars
    BY <1>8, <2>1
  <2>. QED BY <1>1, <2>1, <2>2, Renumber
<1>11. (taken' + Len(rxFifo) + Fill(rx')) % Chars = sent
  <2>. DEFINE a == Len(rxFifo) + Fill(rx')
  <2>1. /\ a \in Int /\ taken' + Len(rxFifo) + Fill(rx') = taken' + a
        /\ taken + n + a = taken + Len(rxFifo) + Fill(rx)
    BY <1>2, <1>6, <1>7
  <2>2. (taken' + a) % Chars = (taken + n + a) % Chars
    <3>. HIDE DEF a
    <3>. QED BY <1>8, <2>1
  <2>. QED BY <1>1, <2>1, <2>2
<1>. QED BY <1>3, <1>5, <1>6, <1>7, <1>9, <1>10, <1>11 DEF RxStream

(* The interrupt routine moves characters from the FIFO into free slots,   *)
(* and leaves some behind only if the ring is full.                        *)
LEMMA ReceiveStep ==
  ASSUME UartInv, Receive, UNCHANGED << taken, sent >>
  PROVE  /\ rx' \in Ring /\ rx'.out = rx.out /\ rxFifo' \in Seq(Char)
         /\ RxStream'
         /\ Fill(rx') \in Index /\ Fill(rx') >= Fill(rx)
         /\ rxFifo' # <<>> => Fill(rx') = BufLen - 1
<1>. DEFINE k == Least(BufLen - 1 - Fill(rx), Len(rxFifo))
            new == [i \in DOMAIN rx.buf |->
                      IF (i - rx.in) % BufLen < k
                      THEN rxFifo[((i - rx.in) % BufLen) + 1] ELSE rx.buf[i]]
<1>1. /\ rx \in Ring /\ rxFifo \in Seq(Char) /\ taken \in Int
      /\ Holds(rx, taken) /\ Runs(rxFifo, taken + Fill(rx))
      /\ (taken + Len(rxFifo) + Fill(rx)) % Chars = sent
  BY DEF UartInv, UartTypeOK, RxStream, Char
<1>2. /\ Fill(rx) \in Index /\ rx.in \in Index /\ Fill(rx) \in Int
      /\ rx.in \in Int /\ rx.out \in Index /\ Len(rxFifo) \in Nat
  BY <1>1, FillRange DEF Index
<1>3. /\ k \in 0 .. BufLen - 1 - Fill(rx) /\ k \in 0 .. Len(rxFifo)
      /\ k < Len(rxFifo) => k = BufLen - 1 - Fill(rx)
  BY <1>2, Sizes DEF Least, Index
<1>4. /\ rx' = [rx EXCEPT !.buf = new, !.in = (rx.in + k) % BufLen]
      /\ rxFifo' = SubSeq(rxFifo, k + 1, Len(rxFifo))
  BY DEF Receive
<1>5. DOMAIN rx.buf = Index /\ rx.buf \in [Index -> Char]
  BY <1>1 DEF Ring
<1>. HIDE DEF k
<1>6. ASSUME NEW i \in Index
      PROVE  /\ new[i] \in Char
             /\ new[i] = IF (i - rx.in) % BufLen < k
                         THEN (taken + Fill(rx) + ((i - rx.in) % BufLen)) % Chars
                         ELSE rx.buf[i]
  <2>. DEFINE e == (i - rx.in) % BufLen
  <2>1. i - rx.in \in Int
    BY <1>2 DEF Index
  <2>2. e \in Index
    BY <2>1, Sizes, MRange DEF Index
  <2>3. new[i] = IF e < k THEN rxFifo[e + 1] ELSE rx.buf[i]
    BY <1>5
  <2>. HIDE DEF e, new
  <2>4. CASE e < k
    <3>1. e + 1 \in 1 .. Len(rxFifo) /\ e \in Int
      BY <1>2, <1>3, <2>2, <2>4 DEF Index
    <3>2. rxFifo[e + 1] = (taken + Fill(rx) + (e + 1) - 1) % Chars
      BY <1>1, <3>1 DEF Runs
    <3>3. taken + Fill(rx) + (e + 1) - 1 = taken + Fill(rx) + e
      BY <1>1, <1>2, <3>1
    <3>4. rxFifo[e + 1] \in Char
      BY <1>1, <3>1, ElementOfSeq
    <3>. QED BY <2>3, <2>4, <3>2, <3>3, <3>4 DEF e
  <2>5. CASE ~(e < k)
    BY <1>5, <2>3, <2>5 DEF e
  <2>. QED BY <2>4, <2>5
<1>7. new \in [Index -> Char] /\ (rx.in + k) % BufLen \in Index
  <2>1. new = [i \in Index |-> new[i]]
    BY <1>5
  <2>2. (rx.in + k) % BufLen \in Index
    <3>1. rx.in + k \in Int
      BY <1>2, <1>3
    <3>. QED BY <3>1, Sizes, MRange DEF Index
  <2>. HIDE DEF new
  <2>. QED BY <1>6, <2>1, <2>2
<1>8. /\ rx' \in Ring /\ rx'.buf = new /\ rx'.in = (rx.in + k) % BufLen
      /\ rx'.out = rx.out
  <2>. HIDE DEF new
  <2>. QED BY <1>1, <1>4, <1>7 DEF Ring
<1>. HIDE DEF new
<1>9. Fill(rx') = Fill(rx) + k /\ Holds(rx', taken)
  BY <1>1, <1>3, <1>6, <1>8, Adding
<1>10. /\ rxFifo' \in Seq(Char) /\ Len(rxFifo') = Len(rxFifo) - k
       /\ \A i \in 1 .. Len(rxFifo') : rxFifo'[i] = rxFifo[k + i]
  <2>1. k + 1 \in 1 .. Len(rxFifo) + 1
    BY <1>2, <1>3
  <2>2. rxFifo' \in Seq(Char)
    BY <1>1, <1>4, <2>1, SubSeqProperties
  <2>3. Len(rxFifo') = Len(rxFifo) - k
    <3>1. Len(rxFifo') = IF k + 1 <= Len(rxFifo)
                         THEN Len(rxFifo) - (k + 1) + 1 ELSE 0
      BY <1>1, <1>4, <2>1, SubSeqProperties
    <3>. QED BY <1>2, <1>3, <3>1
  <2>4. ASSUME NEW i \in 1 .. Len(rxFifo') PROVE rxFifo'[i] = rxFifo[k + i]
    <3>1. i \in 1 .. Len(rxFifo) - (k + 1) + 1 /\ (k + 1) + i - 1 = k + i
      BY <1>2, <1>3, <2>3
    <3>2. rxFifo'[i] = rxFifo[(k + 1) + i - 1]
      BY <1>1, <1>4, <2>1, <3>1, SubSeqProperties
    <3>. QED BY <3>1, <3>2
  <2>. QED BY <2>2, <2>3, <2>4
<1>11. Runs(rxFifo', taken + Fill(rx'))
  <2>. SUFFICES ASSUME NEW i \in 1 .. Len(rxFifo')
                PROVE  rxFifo'[i] = (taken + Fill(rx') + i - 1) % Chars
    BY DEF Runs
  <2>1. k + i \in 1 .. Len(rxFifo)
    BY <1>2, <1>3, <1>10
  <2>2. taken + Fill(rx) + (k + i) - 1 = taken + Fill(rx') + i - 1
    BY <1>1, <1>2, <1>3, <1>9
  <2>. QED BY <1>1, <1>10, <2>1, <2>2 DEF Runs
<1>12. (taken + Len(rxFifo') + Fill(rx')) % Chars = sent
  <2>1. taken + Len(rxFifo') + Fill(rx') = taken + Len(rxFifo) + Fill(rx)
    BY <1>1, <1>2, <1>3, <1>9, <1>10
  <2>. QED BY <1>1, <2>1
<1>13. Fill(rx') \in Index /\ Fill(rx') >= Fill(rx)
  BY <1>2, <1>3, <1>9, Sizes DEF Index
<1>14. ASSUME rxFifo' # <<>> PROVE Fill(rx') = BufLen - 1
  <2>1. Len(rxFifo') # 0
    BY <1>10, <1>14, EmptySeq
  <2>. QED BY <1>2, <1>3, <1>9, <1>10, <2>1, Sizes
<1>. QED BY <1>8, <1>9, <1>10, <1>11, <1>12, <1>13, <1>14 DEF RxStream

(* The content of a ring that holds the characters from a number on.       *)
LEMMA ContentFacts ==
  ASSUME NEW r \in Ring, NEW from \in Int, Holds(r, from)
  PROVE  /\ Content(r) \in Seq(Char) /\ Len(Content(r)) = Fill(r)
         /\ \A i \in 1 .. Fill(r) : Content(r)[i] = (from + i - 1) % Chars
<1>1. Fill(r) \in Nat /\ r.out \in Int /\ r.buf \in [Index -> Char]
  BY FillRange, Sizes DEF Index, Ring
<1>2. ASSUME NEW i \in 1 .. Fill(r)
      PROVE  /\ Content(r)[i] = (from + i - 1) % Chars
             /\ Content(r)[i] \in Char
  <2>1. /\ i - 1 \in 0 .. Fill(r) - 1 /\ r.out + i - 1 = r.out + (i - 1)
        /\ from + i - 1 = from + (i - 1) /\ r.out + (i - 1) \in Int
    BY <1>1
  <2>2. r.buf[(r.out + (i - 1)) % BufLen] = (from + (i - 1)) % Chars
    BY <2>1 DEF Holds
  <2>3. (r.out + (i - 1)) % BufLen \in Index
    BY <2>1, Sizes, MRange DEF Index
  <2>4. Content(r)[i] = r.buf[(r.out + i - 1) % BufLen]
    BY DEF Content
  <2>. QED BY <1>1, <2>1, <2>2, <2>3, <2>4
<1>3. Content(r) \in [1 .. Fill(r) -> Char]
  <2>1. Content(r) = [i \in 1 .. Fill(r) |-> Content(r)[i]]
    BY DEF Content
  <2>. QED BY <1>2, <2>1
<1>4. Content(r) \in Seq(Char) /\ Len(Content(r)) = Fill(r)
  BY <1>1, <1>3
<1>. QED BY <1>2, <1>4

(* The interrupt routine moves characters from the ring to the end of the  *)
(* FIFO, until one is full or the other empty.                             *)
LEMMA TransmitStep ==
  ASSUME UartInv, Transmit, UNCHANGED << received, written >>
  PROVE  /\ tx' \in Ring /\ tx'.in = tx.in /\ txFifo' \in Seq(Char)
         /\ TxStream'
         /\ tx'.out # tx.out => Fill(tx') < BufLen - 1
         /\ \E k \in 0 .. Fill(tx) :
              /\ k = Half!Least(Fill(tx), FifoCap - Len(txFifo))
              /\ Fill(tx') = Fill(tx) - k /\ Len(txFifo') = Len(txFifo) + k
<1>. DEFINE k == Least(FifoCap - Len(txFifo), Fill(tx))
            from == received + Len(txFifo)
            more == SubSeq(Content(tx), 1, k)
<1>1. /\ tx \in Ring /\ txFifo \in Seq(Char) /\ received \in Int
      /\ Runs(txFifo, received) /\ Holds(tx, from)
      /\ (from + Fill(tx)) % Chars = written /\ Len(txFifo) <= FifoCap
  BY DEF UartInv, UartTypeOK, TxStream, Char
<1>2. /\ Fill(tx) \in Index /\ tx.out \in Index /\ Fill(tx) \in Int
      /\ tx.out \in Int /\ Len(txFifo) \in Nat /\ from \in Int
  BY <1>1, FillRange DEF Index
<1>3. k \in 0 .. Fill(tx) /\ Len(txFifo) + k <= FifoCap
      /\ k = Half!Least(Fill(tx), FifoCap - Len(txFifo))
  BY <1>1, <1>2, Sizes DEF Least, Half!Least, Index
<1>4. /\ tx' = [tx EXCEPT !.out = (tx.out + k) % BufLen]
      /\ txFifo' = txFifo \o more
  BY DEF Transmit
<1>. HIDE DEF k, from
<1>5. (tx.out + k) % BufLen \in Index
  <2>1. tx.out + k \in Int
    BY <1>2, <1>3
  <2>. QED BY <2>1, Sizes, MRange DEF Index
<1>6. /\ tx' \in Ring /\ tx'.buf = tx.buf /\ tx'.in = tx.in
      /\ tx'.out = (tx.out + k) % BufLen
  BY <1>1, <1>4, <1>5 DEF Ring
<1>7. Fill(tx') = Fill(tx) - k /\ Holds(tx', from + k)
  BY <1>1, <1>2, <1>3, <1>6, Taking
<1>8. /\ Content(tx) \in Seq(Char) /\ Len(Content(tx)) = Fill(tx)
      /\ \A i \in 1 .. Fill(tx) : Content(tx)[i] = (from + i - 1) % Chars
  BY <1>1, <1>2, ContentFacts
<1>9. /\ more \in Seq(Char) /\ Len(more) = k
      /\ \A i \in 1 .. k : more[i] = (from + i - 1) % Chars
  <2>1. k \in Int /\ 1 \in Int
    BY <1>3
  <2>2. \A i \in 1 .. k : i \in 1 .. Fill(tx) /\ Content(tx)[i] \in Char
    <3>. SUFFICES ASSUME NEW i \in 1 .. k
                  PROVE  i \in 1 .. Fill(tx) /\ Content(tx)[i] \in Char
      OBVIOUS
    <3>1. i \in 1 .. Len(Content(tx))
      BY <1>2, <1>3, <1>8
    <3>. QED BY <1>8, <3>1, ElementOfSeq
  <2>3. /\ more \in Seq(Char) /\ Len(more) = IF 1 <= k THEN k - 1 + 1 ELSE 0
        /\ \A i \in 1 .. k - 1 + 1 : more[i] = Content(tx)[1 + i - 1]
    BY <2>1, <2>2, SubSeqProperties
  <2>. HIDE DEF more
  <2>4. Len(more) = k
    BY <1>3, <2>3
  <2>5. ASSUME NEW i \in 1 .. k PROVE more[i] = (from + i - 1) % Chars
    <3>1. i \in 1 .. k - 1 + 1 /\ 1 + i - 1 = i
      BY <2>1
    <3>2. more[i] = Content(tx)[i]
      BY <2>3, <3>1
    <3>. QED BY <1>8, <2>2, <3>2
  <2>. QED BY <2>3, <2>4, <2>5
<1>. HIDE DEF more
<1>10. /\ txFifo' \in Seq(Char) /\ Len(txFifo') = Len(txFifo) + k
       /\ \A i \in 1 .. Len(txFifo) + k : txFifo'[i] =
            IF i <= Len(txFifo) THEN txFifo[i] ELSE more[i - Len(txFifo)]
  BY <1>1, <1>4, <1>9, ConcatProperties
<1>11. Runs(txFifo', received)
  <2>. SUFFICES ASSUME NEW i \in 1 .. Len(txFifo')
                PROVE  txFifo'[i] = (received + i - 1) % Chars
    BY DEF Runs
  <2>1. CASE i <= Len(txFifo)
    <3>1. i \in 1 .. Len(txFifo) /\ i \in 1 .. Len(txFifo) + k
      BY <1>2, <1>10, <2>1
    <3>. QED BY <1>1, <1>10, <2>1, <3>1 DEF Runs
  <2>2. CASE ~(i <= Len(txFifo))
    <3>. DEFINE j == i - Len(txFifo)
    <3>1. /\ j \in 1 .. k /\ i \in 1 .. Len(txFifo) + k
          /\ from + j - 1 = received + i - 1
      BY <1>1, <1>2, <1>3, <1>10, <2>2 DEF from
    <3>2. txFifo'[i] = more[j]
      BY <1>10, <2>2, <3>1
    <3>. HIDE DEF j
    <3>3. more[j] = (from + j - 1) % Chars
      BY <1>9, <3>1
    <3>. QED BY <3>1, <3>2, <3>3
  <2>. QED BY <2>1, <2>2
<1>12. /\ received + Len(txFifo') = from + k
       /\ received + Len(txFifo') + Fill(tx') = from + Fill(tx)
       /\ Len(txFifo') <= FifoCap
  BY <1>1, <1>2, <1>3, <1>7, <1>10 DEF from
<1>13. ASSUME tx'.out # tx.out PROVE Fill(tx') < BufLen - 1
  <2>1. k # 0
    <3>. SUFFICES ASSUME k = 0 PROVE tx'.out = tx.out
      BY <1>13
    <3>1. tx.out + k = tx.out
      BY <1>2
    <3>. QED BY <1>2, <1>6, <3>1, Sizes, MSame DEF Index
  <2>. QED BY <1>2, <1>3, <1>7, <2>1, Sizes DEF Index
<1>14. TxStream'
  BY <1>1, <1>7, <1>11, <1>12 DEF TxStream
<1>. QED BY <1>3, <1>6, <1>7, <1>10, <1>13, <1>14

(* The host takes the first character of the FIFO.                         *)
LEMMA HostReadStep ==
  ASSUME UartInv, HostRead
  PROVE  received' \in Char /\ txFifo' \in Seq(Char) /\ TxStream'
<1>1. /\ tx \in Ring /\ txFifo \in Seq(Char) /\ received \in Char
      /\ Runs(txFifo, received) /\ Holds(tx, received + Len(txFifo))
      /\ (received + Len(txFifo) + Fill(tx)) % Chars = written
      /\ Len(txFifo) <= FifoCap
  BY DEF UartInv, UartTypeOK, TxStream
<1>2. /\ txFifo # <<>> /\ txFifo' = Tail(txFifo)
      /\ received' = (received + 1) % Chars /\ UNCHANGED << tx, written >>
  BY DEF HostRead
<1>3. /\ txFifo' \in Seq(Char) /\ Len(txFifo') = Len(txFifo) - 1
      /\ \A i \in 1 .. Len(txFifo') : txFifo'[i] = txFifo[i + 1]
  BY <1>1, <1>2, HeadTailProperties
<1>4. /\ received \in Int /\ Fill(tx) \in Int
      /\ Len(txFifo) \in Int /\ Len(txFifo') \in Nat
  BY <1>1, <1>3, FillRange DEF Index, Char
<1>5. received' \in Char /\ received' \in Int
  <2>1. received + 1 \in Int
    BY <1>4
  <2>2. received' \in Char
    BY <1>2, <2>1, Sizes, MRange DEF Char
  <2>. QED BY <2>2, Sizes DEF Char
<1>6. ASSUME NEW a \in Int PROVE (received' + a) % Chars = (received + 1 + a) % Chars
  <2>. DEFINE b == received + 1
  <2>1. b \in Int
    BY <1>4
  <2>2. ((b % Chars) + a) % Chars = (b + a) % Chars
    <3>. HIDE DEF b
    <3>. QED BY <1>6, <2>1, Sizes, MAdd
  <2>. QED BY <1>2, <2>2
<1>7. Runs(txFifo', received')
  <2>. SUFFICES ASSUME NEW i \in 1 .. Len(txFifo')
                PROVE  txFifo'[i] = (received' + i - 1) % Chars
    BY DEF Runs
  <2>1. i + 1 \in 1 .. Len(txFifo) /\ i - 1 \in Int
    BY <1>3, <1>4
  <2>2. txFifo[i + 1] = (received + (i + 1) - 1) % Chars
    BY <1>1, <2>1 DEF Runs
  <2>3. (received' + (i - 1)) % Chars = (received + 1 + (i - 1)) % Chars
    BY <1>6, <2>1
  <2>4. /\ received + (i + 1) - 1 = received + 1 + (i - 1)
        /\ received' + i - 1 = received' + (i - 1)
    BY <1>4, <1>5, <2>1
  <2>. QED BY <1>3, <2>2, <2>3, <2>4
<1>8. Holds(tx, received' + Len(txFifo'))
  <2>1. /\ received' + Len(txFifo') \in Int /\ received + Len(txFifo) \in Int
        /\ received + 1 + Len(txFifo') = received + Len(txFifo)
    BY <1>3, <1>4, <1>5
  <2>2. (received' + Len(txFifo')) % Chars = (received + Len(txFifo)) % Chars
    BY <1>4, <1>6, <2>1
  <2>. QED BY <1>1, <2>1, <2>2, Renumber
<1>9. (received' + Len(txFifo') + Fill(tx)) % Chars = written
  <2>. DEFINE a == Len(txFifo') + Fill(tx)
  <2>1. /\ a \in Int /\ received' + Len(txFifo') + Fill(tx) = received' + a
        /\ received + 1 + a = received + Len(txFifo) + Fill(tx)
    BY <1>3, <1>4, <1>5
  <2>2. (received' + a) % Chars = (received + 1 + a) % Chars
    <3>. HIDE DEF a
    <3>. QED BY <1>6, <2>1
  <2>. QED BY <1>1, <2>1, <2>2
<1>10. Len(txFifo') <= FifoCap
  BY <1>1, <1>3, <1>4, Sizes
<1>. QED BY <1>2, <1>3, <1>5, <1>7, <1>8, <1>9, <1>10 DEF TxStream

(* The host adds a character at the end of the FIFO.                       *)
LEMMA HostSendStep ==
  ASSUME UartInv, HostSend
  PROVE  sent' \in Char /\ rxFifo' \in Seq(Char) /\ RxStream'
<1>. DEFINE all == taken + Len(rxFifo) + Fill(rx)
<1>1. /\ rx \in Ring /\ rxFifo \in Seq(Char) /\ taken \in Char /\ sent \in Char
      /\ Holds(rx, taken) /\ Runs(rxFifo, taken + Fill(rx))
      /\ all % Chars = sent
  BY DEF UartInv, UartTypeOK, RxStream
<1>2. /\ rxFifo' = Append(rxFifo, sent) /\ sent' = (sent + 1) % Chars
      /\ UNCHANGED << rx, taken >>
  BY DEF HostSend
<1>3. /\ rxFifo' \in Seq(Char) /\ Len(rxFifo') = Len(rxFifo) + 1
      /\ \A i \in 1 .. Len(rxFifo) : rxFifo'[i] = rxFifo[i]
      /\ rxFifo'[Len(rxFifo) + 1] = sent
  BY <1>1, <1>2, AppendProperties
<1>4. /\ taken \in Int /\ sent \in Int /\ Fill(rx) \in Int
      /\ Len(rxFifo) \in Nat /\ all \in Int
  BY <1>1, FillRange DEF Index, Char
<1>5. sent' \in Char
  <2>1. sent + 1 \in Int
    BY <1>4
  <2>. QED BY <1>2, <2>1, Sizes, MRange DEF Char
<1>6. Runs(rxFifo', taken + Fill(rx))
  <2>. SUFFICES ASSUME NEW i \in 1 .. Len(rxFifo')
                PROVE  rxFifo'[i] = (taken + Fill(rx) + i - 1) % Chars
    BY DEF Runs
  <2>1. CASE i \in 1 .. Len(rxFifo)
    BY <1>1, <1>3, <2>1 DEF Runs
  <2>2. CASE i = Len(rxFifo) + 1
    <3>1. taken + Fill(rx) + i - 1 = all
      BY <1>4, <2>2
    <3>. QED BY <1>1, <1>3, <2>2, <3>1
  <2>. QED BY <1>3, <1>4, <2>1, <2>2
<1>7. (taken + Len(rxFifo') + Fill(rx)) % Chars = sent'
  <2>1. ((all % Chars) + 1) % Chars = (all + 1) % Chars
    <3>1. all \in Int /\ 1 \in Int
      BY <1>4
    <3>. HIDE DEF all
    <3>. QED BY <3>1, Sizes, MAdd
  <2>2. taken + Len(rxFifo') + Fill(rx) = all + 1
    BY <1>3, <1>4
  <2>. QED BY <1>1, <1>2, <2>1, <2>2
<1>. QED BY <1>1, <1>2, <1>3, <1>5, <1>6, <1>7 DEF RxStream

----------------------------------------------------------------------------
(* Frames.                                                                 *)

LEMMA TxKept ==
  ASSUME UartInv, UNCHANGED << tx, txFifo, received, written >>
  PROVE  TxStream'
BY DEF UartInv, TxStream

LEMMA RxKept ==
  ASSUME UartInv, UNCHANGED << rx, rxFifo, sent, taken >>
  PROVE  RxStream'
BY DEF UartInv, RxStream

(* A step that leaves rings, counts and irq_enable alone keeps all but     *)
(* what depends on where the call is.                                      *)
LEMMA CallFrame ==
  ASSUME UartInv, UNCHANGED << rings, irq_enable, counts >>,
         ac' \in BOOLEAN, host' \in BOOLEAN,
         timeout' \in Nat, host_inactive' \in Nat,
         pc' \in {"idle", "wlook", "wstore", "kick", "wspin",
                  "rlook", "rtake", "rspin", "renable", "close"},
         left' \in 0 .. MaxCount, space' \in 0 .. MaxCount,
         moved' \in BOOLEAN, got' \in BOOLEAN, nonblock' \in BOOLEAN,
         n' \in Index, seen' \in Index
  PROVE  UartTypeOK' /\ TxStream' /\ RxStream'
<1>1. UartTypeOK'
  BY DEF UartInv, UartTypeOK, rings, counts
<1>. QED BY <1>1, TxKept, RxKept DEF rings, counts

(* A call begins, or is over.                                              *)
LEMMA CallsBegin ==
  ASSUME UartInv, WriteCalls \/ ReadCalls \/ CloseCalls
  PROVE  UartInv'
<1>1. /\ pc = "idle" /\ UNCHANGED << rings, irq_enable, check, n, seen, counts >>
      /\ pc' \in {"wlook", "rlook", "close"}
      /\ nonblock' \in BOOLEAN /\ UNCHANGED got
      /\ left' \in 0 .. MaxCount /\ space' \in 0 .. MaxCount /\ moved' \in BOOLEAN
  <2>0. left \in 0 .. MaxCount /\ space \in 0 .. MaxCount /\ moved \in BOOLEAN
        /\ \A count \in 1 .. MaxCount : count \in 0 .. MaxCount
    BY UartAssumption DEF UartInv, UartTypeOK
  <2>1. CASE WriteCalls
    BY <2>0, <2>1 DEF WriteCalls, WriteCall, Call
  <2>2. CASE ReadCalls
    BY <2>0, <2>2 DEF ReadCalls, ReadCall, Call
  <2>3. CASE CloseCalls
    BY <2>0, <2>3 DEF CloseCalls, CloseCall, Call
  <2>. QED BY <2>1, <2>2, <2>3
<1>2. UartTypeOK' /\ TxStream' /\ RxStream'
  <2>1. /\ ac \in BOOLEAN /\ host \in BOOLEAN /\ timeout \in Nat
        /\ host_inactive \in Nat /\ got \in BOOLEAN
        /\ n \in Index /\ seen \in Index
    BY DEF UartInv, UartTypeOK
  <2>. QED BY <1>1, <2>1, CallFrame DEF check
<1>3. Armed'
  BY <1>1 DEF UartInv, Armed, rings
<1>. QED BY <1>1, <1>2, <1>3 DEF UartInv, StoreFits, TakeFits, RoomSeen

LEMMA CallEnds ==
  ASSUME UartInv, Returns, UNCHANGED << rings, check, counts >>,
         irq_enable' \in SUBSET {"RE", "WE"}, irq_enable \subseteq irq_enable',
         pc \in {"rlook", "rtake", "renable"} =>
           "RE" \in irq_enable' \/ Fill(rx) = BufLen - 1
  PROVE  UartInv'
<1>1. /\ pc' = "idle" /\ space' = 0 /\ got' = FALSE /\ n' = 0 /\ seen' = 0
      /\ nonblock' = FALSE /\ UNCHANGED << left, moved >>
      /\ UNCHANGED << tx, rx, txFifo, rxFifo >>
      /\ UNCHANGED << ac, timeout, host_inactive, host >>
      /\ UNCHANGED << written, received, sent, taken >>
  BY DEF Returns, rings, check, counts
<1>2. UartTypeOK'
  <2>1. 0 \in 0 .. MaxCount
    BY UartAssumption
  <2>. QED BY <1>1, <2>1, Sizes DEF UartInv, UartTypeOK
<1>3. TxStream' /\ RxStream'
  BY <1>1, TxKept, RxKept
<1>4. Armed'
  BY <1>1 DEF UartInv, Armed
<1>. QED BY <1>1, <1>2, <1>3, <1>4 DEF UartInv, StoreFits, TakeFits, RoomSeen

(* The statements of a write.                                              *)
LEMMA LookInv == ASSUME UartInv, WriteLook PROVE UartInv'
<1>1. /\ tx \in Ring /\ left \in 0 .. MaxCount /\ left \in Int
      /\ tx.out \in Index /\ Fill(tx) \in Int /\ Room(tx) \in Index
      /\ Room(tx) \in Int
  <2>1. tx \in Ring /\ left \in 0 .. MaxCount
    BY DEF UartInv, UartTypeOK
  <2>. QED BY <2>1, FillRange, RoomFits DEF Index
<1>2. /\ pc = "wlook" /\ n' = Least(Room(tx), left)
      /\ pc' = IF n' = 0 THEN "kick" ELSE "wstore"
      /\ seen' = IF n' = 0 /\ left > 0 THEN tx.out ELSE 0
      /\ UNCHANGED << rings, irq_enable, check, left, moved, space, got,
                      nonblock, counts >>
  BY DEF WriteLook
<1>3. /\ n' \in Index /\ n' <= left /\ n' <= Room(tx)
  BY <1>1, <1>2, Sizes DEF Least, Index
<1>4. seen' \in Index
  BY <1>1, <1>2, Sizes
<1>5. UartTypeOK' /\ TxStream' /\ RxStream'
  <2>1. /\ ac \in BOOLEAN /\ host \in BOOLEAN /\ timeout \in Nat
        /\ host_inactive \in Nat /\ got \in BOOLEAN /\ moved \in BOOLEAN
        /\ nonblock \in BOOLEAN /\ space \in 0 .. MaxCount
    BY DEF UartInv, UartTypeOK
  <2>. QED BY <1>1, <1>2, <1>3, <1>4, <2>1, CallFrame DEF check
<1>6. StoreFits'
  <2>1. SUFFICES ASSUME pc' = "wstore"
                 PROVE  /\ 1 <= n' /\ n' <= left'
                        /\ n' + Fill(tx') <= BufLen - 1
                        /\ tx'.in + n' <= BufLen
    BY DEF StoreFits
  <2>2. /\ tx' = tx /\ left' = left /\ n' # 0
    BY <1>2, <2>1 DEF rings
  <2>3. 1 <= n'
    BY <1>3, <2>2 DEF Index
  <2>4. /\ Room(tx) + Fill(tx) <= BufLen - 1 /\ tx.in + Room(tx) <= BufLen
        /\ tx.in \in Int
    BY <1>1, RoomFits, FillRange DEF Index
  <2>5. n' \in Int
    BY <1>3 DEF Index
  <2>6. n' + Fill(tx) <= BufLen - 1 /\ tx.in + n' <= BufLen
    BY <1>1, <1>3, <2>4, <2>5, Sizes
  <2>. QED BY <1>3, <2>2, <2>3, <2>6
<1>7. Armed'
  BY <1>2 DEF UartInv, Armed, rings
<1>8. RoomSeen'
  BY <1>2 DEF RoomSeen, rings
<1>. QED BY <1>2, <1>5, <1>6, <1>7, <1>8 DEF UartInv, TakeFits

LEMMA StoreInv == ASSUME UartInv, WriteStore PROVE UartInv'
<1>1. /\ pc = "wstore" /\ pc' = "wlook" /\ left' = left - n /\ moved' = TRUE
      /\ n' = 0
      /\ UNCHANGED << rx, txFifo, rxFifo, irq_enable, check, space, got, seen,
                      nonblock, received, sent, taken >>
  BY DEF WriteStore
<1>2. left' \in 0 .. MaxCount
  <2>1. left \in 0 .. MaxCount /\ n \in Index /\ n <= left
    BY <1>1 DEF UartInv, UartTypeOK, StoreFits
  <2>. QED BY <1>1, <2>1, UartAssumption DEF Index
<1>3. tx' \in Ring /\ written' \in Char /\ TxStream'
  BY StoreStep
<1>4. UartTypeOK'
  BY <1>1, <1>2, <1>3, Sizes DEF UartInv, UartTypeOK, check
<1>5. RxStream'
  BY <1>1, RxKept
<1>6. Armed'
  BY <1>1 DEF UartInv, Armed
<1>. QED BY <1>1, <1>3, <1>4, <1>5, <1>6 DEF UartInv, StoreFits, TakeFits, RoomSeen

LEMMA KickInv == ASSUME UartInv, WriteKick PROVE UartInv'
<1>1. /\ pc = "kick" /\ irq_enable' = irq_enable \cup {"WE"}
      /\ UNCHANGED << rings, check, counts >>
  BY DEF WriteKick
<1>2. irq_enable' \in SUBSET {"RE", "WE"} /\ irq_enable \subseteq irq_enable'
  BY <1>1 DEF UartInv, UartTypeOK
<1>3. CASE left = 0 \/ nonblock
  BY <1>1, <1>2, <1>3, CallEnds DEF WriteKick
<1>4. CASE ~(left = 0 \/ nonblock)
  <2>1. pc' = "wspin" /\ UNCHANGED << left, moved, space, got, n, seen, nonblock >>
    BY <1>4 DEF WriteKick
  <2>2. UartTypeOK'
    BY <1>1, <1>2, <2>1 DEF UartInv, UartTypeOK, rings, check, counts
  <2>3. TxStream' /\ RxStream'
    BY <1>1, TxKept, RxKept DEF rings, counts
  <2>4. Armed'
    BY <1>1, <1>2, <2>1 DEF UartInv, Armed, rings
  <2>5. RoomSeen'
    <3>1. left \in Nat /\ left # 0
      BY <1>4 DEF UartInv, UartTypeOK
    <3>2. left > 0
      BY <3>1
    <3>. QED BY <1>1, <2>1, <3>2 DEF UartInv, RoomSeen, rings
  <2>. QED BY <2>1, <2>2, <2>3, <2>4, <2>5 DEF UartInv, StoreFits, TakeFits
<1>. QED BY <1>3, <1>4

(* A wait over: the call looks at the indices again.                       *)
LEMMA LookAgain ==
  ASSUME UartInv, NEW where \in {"wlook", "rlook"}, Goes(where),
         pc \in {"wspin", "rspin"},
         UNCHANGED << rings, irq_enable, check, counts >>
  PROVE  UartInv'
<1>1. /\ pc' \in {"wlook", "rlook"} /\ n' = 0 /\ seen' = 0
      /\ UNCHANGED << left, moved, space, got, nonblock >>
      /\ UNCHANGED << tx, rx, txFifo, rxFifo, irq_enable >>
      /\ UNCHANGED << ac, timeout, host_inactive, host >>
      /\ UNCHANGED << written, received, sent, taken >>
  BY DEF Goes, rings, check, counts
<1>2. UartTypeOK'
  BY <1>1, Sizes DEF UartInv, UartTypeOK
<1>3. TxStream' /\ RxStream'
  BY <1>1, TxKept, RxKept
<1>4. Armed'
  BY <1>1 DEF UartInv, Armed
<1>. QED BY <1>1, <1>2, <1>3, <1>4 DEF UartInv, StoreFits, TakeFits, RoomSeen

LEMMA WaitsEnd ==
  ASSUME UartInv, WriteSpin \/ ReadSpin
  PROVE  UartInv'
<1>1. /\ pc \in {"wspin", "rspin"} /\ UNCHANGED << rings, irq_enable, check, counts >>
      /\ Returns \/ (\E where \in {"wlook", "rlook"} : Goes(where))
  BY DEF WriteSpin, ReadSpin
<1>2. irq_enable' \in SUBSET {"RE", "WE"} /\ irq_enable \subseteq irq_enable'
  BY <1>1 DEF UartInv, UartTypeOK
<1>. QED BY <1>1, <1>2, CallEnds, LookAgain

(* The statements of a read, and close.                                    *)
LEMMA ReadLookInv == ASSUME UartInv, ReadLook PROVE UartInv'
<1>1. /\ rx \in Ring /\ space \in 0 .. MaxCount /\ space \in Int
      /\ rx.in \in Index /\ Fill(rx) \in Int /\ Ready(rx) \in Index
      /\ Ready(rx) \in Int /\ Ready(rx) <= Fill(rx)
      /\ Ready(rx) = 0 => Fill(rx) = 0
  <2>1. rx \in Ring /\ space \in 0 .. MaxCount
    BY DEF UartInv, UartTypeOK
  <2>. QED BY <2>1, FillRange, ReadyFits DEF Index
<1>2. /\ pc = "rlook" /\ n' = Least(Ready(rx), space)
      /\ pc' = IF n' > 0 THEN "rtake"
               ELSE IF got \/ nonblock THEN "renable" ELSE "rspin"
      /\ seen' = IF pc' = "rspin" THEN rx.in ELSE 0
      /\ UNCHANGED << rings, irq_enable, check, left, moved, space, got,
                      nonblock, counts >>
  BY DEF ReadLook
<1>3. n' \in Index /\ n' <= space /\ n' <= Fill(rx)
  BY <1>1, <1>2, Sizes DEF Least, Index
<1>4. seen' \in Index /\ pc' \in {"rtake", "renable", "rspin"}
  BY <1>1, <1>2, Sizes
<1>5. UartTypeOK' /\ TxStream' /\ RxStream'
  <2>1. /\ ac \in BOOLEAN /\ host \in BOOLEAN /\ timeout \in Nat
        /\ host_inactive \in Nat /\ got \in BOOLEAN /\ moved \in BOOLEAN
        /\ nonblock \in BOOLEAN /\ left \in 0 .. MaxCount
    BY DEF UartInv, UartTypeOK
  <2>. QED BY <1>1, <1>2, <1>3, <1>4, <2>1, CallFrame DEF check
<1>6. TakeFits'
  BY <1>2, <1>3 DEF TakeFits, rings
<1>7. Armed'
  BY <1>2, <1>4 DEF UartInv, Armed, rings
<1>. QED BY <1>4, <1>5, <1>6, <1>7 DEF UartInv, StoreFits, RoomSeen

LEMMA TakeInv == ASSUME UartInv, ReadTake PROVE UartInv'
<1>1. /\ pc = "rtake" /\ pc' \in {"rlook", "renable"} /\ space' = space - n
      /\ got' = TRUE /\ n' = 0
      /\ UNCHANGED << tx, txFifo, rxFifo, irq_enable, check, left, moved, seen,
                      nonblock, written, received, sent >>
  BY DEF ReadTake
<1>2. space' \in 0 .. MaxCount
  <2>1. space \in 0 .. MaxCount /\ n \in Index /\ n <= space
    BY <1>1 DEF UartInv, UartTypeOK, TakeFits
  <2>. QED BY <1>1, <2>1, UartAssumption DEF Index
<1>3. rx' \in Ring /\ taken' \in Char /\ RxStream'
  BY TakeStep
<1>4. UartTypeOK'
  BY <1>1, <1>2, <1>3, Sizes DEF UartInv, UartTypeOK, check
<1>5. TxStream'
  BY <1>1, TxKept
<1>6. Armed'
  BY <1>1 DEF UartInv, Armed
<1>. QED BY <1>1, <1>3, <1>4, <1>5, <1>6 DEF UartInv, StoreFits, TakeFits, RoomSeen

LEMMA EndsInv ==
  ASSUME UartInv, ReadEnable \/ Close
  PROVE  UartInv'
<1>1. /\ Returns /\ UNCHANGED << rings, check, counts >>
      /\ irq_enable' \in SUBSET {"RE", "WE"} /\ irq_enable \subseteq irq_enable'
  BY DEF ReadEnable, Close, UartInv, UartTypeOK
<1>2. pc \in {"rlook", "rtake", "renable"} =>
        "RE" \in irq_enable' \/ Fill(rx) = BufLen - 1
  <2>. SUFFICES ASSUME ReadEnable, "RE" \notin irq_enable'
                PROVE  Fill(rx) = BufLen - 1
    BY DEF Close
  <2>1. ~got /\ "RE" \notin irq_enable
    BY DEF ReadEnable
  <2>. QED BY <2>1 DEF UartInv, Armed
<1>. QED BY <1>1, <1>2, CallEnds

----------------------------------------------------------------------------
(* The interrupt routine, the alarm, the host and ioctl.                   *)

LEMMA IrqInv == ASSUME UartInv, UartIrq PROVE UartInv'
<1>1. /\ IF RI THEN Receive ELSE UNCHANGED << rx, rxFifo >>
      /\ IF WI THEN Transmit ELSE UNCHANGED << tx, txFifo >>
      /\ irq_enable' \subseteq irq_enable
      /\ "RE" \notin irq_enable' =>
           "RE" \notin irq_enable \/ (RI /\ rxFifo' # <<>>)
      /\ UNCHANGED << check, call, counts >>
  BY DEF UartIrq
<1>2. /\ rx' \in Ring /\ rxFifo' \in Seq(Char) /\ RxStream'
      /\ Fill(rx') \in Int /\ Fill(rx) \in Int /\ Fill(rx') >= Fill(rx)
      /\ Fill(rx') \in Index
      /\ RI /\ rxFifo' # <<>> => Fill(rx') = BufLen - 1
  <2>1. rx \in Ring /\ Fill(rx) \in Index
    BY FillRange DEF UartInv, UartTypeOK
  <2>2. CASE RI
    BY <1>1, <2>1, <2>2, ReceiveStep, FillRange DEF counts, Index
  <2>3. CASE ~RI
    <3>1. UNCHANGED << rx, rxFifo >>
      BY <1>1, <2>3
    <3>2. RxStream'
      BY <1>1, <3>1, RxKept DEF counts
    <3>. QED BY <2>1, <2>3, <3>1, <3>2 DEF UartInv, UartTypeOK, Index
  <2>. QED BY <2>2, <2>3
<1>3. /\ tx' \in Ring /\ txFifo' \in Seq(Char) /\ TxStream' /\ tx'.in = tx.in
      /\ Fill(tx') \in Int /\ Fill(tx) \in Int /\ Fill(tx') <= Fill(tx)
      /\ tx'.out # tx.out => Fill(tx') < BufLen - 1
  <2>1. tx \in Ring /\ Fill(tx) \in Index /\ Fill(tx) \in Int
    BY FillRange DEF UartInv, UartTypeOK, Index
  <2>2. CASE WI
    <3>1. /\ tx' \in Ring /\ tx'.in = tx.in /\ txFifo' \in Seq(Char)
          /\ TxStream'
          /\ tx'.out # tx.out => Fill(tx') < BufLen - 1
          /\ \E k \in 0 .. Fill(tx) : Fill(tx') = Fill(tx) - k
      BY <1>1, <2>2, TransmitStep DEF counts
    <3>2. Fill(tx') \in Int /\ Fill(tx') <= Fill(tx)
      BY <2>1, <3>1
    <3>. QED BY <2>1, <3>1, <3>2
  <2>3. CASE ~WI
    <3>1. UNCHANGED << tx, txFifo >>
      BY <1>1, <2>3
    <3>2. TxStream'
      BY <1>1, <3>1, TxKept DEF counts
    <3>. QED BY <2>1, <3>1, <3>2 DEF UartInv, UartTypeOK
  <2>. QED BY <2>2, <2>3
<1>4. UNCHANGED << ac, timeout, host_inactive, host, pc, left, moved, space,
                   got, n, seen, nonblock, written, received, sent, taken >>
  BY <1>1 DEF check, call, counts
<1>5. UartTypeOK'
  <2>1. irq_enable' \in SUBSET {"RE", "WE"}
    BY <1>1 DEF UartInv, UartTypeOK
  <2>. QED BY <1>2, <1>3, <1>4, <2>1 DEF UartInv, UartTypeOK
<1>6. StoreFits'
  <2>. SUFFICES ASSUME pc = "wstore"
                PROVE  /\ 1 <= n /\ n <= left
                       /\ n + Fill(tx') <= BufLen - 1
                       /\ tx'.in + n <= BufLen
    BY <1>4 DEF StoreFits
  <2>1. /\ 1 <= n /\ n <= left /\ n + Fill(tx) <= BufLen - 1
        /\ tx.in + n <= BufLen /\ n \in Index
    BY DEF UartInv, UartTypeOK, StoreFits
  <2>2. n + Fill(tx') <= BufLen - 1
    BY <1>3, <2>1, Sizes DEF Index
  <2>. QED BY <1>3, <2>1, <2>2
<1>7. TakeFits'
  <2>. SUFFICES ASSUME pc = "rtake" PROVE n <= Fill(rx') /\ n <= space
    BY <1>4 DEF TakeFits
  <2>1. n <= Fill(rx) /\ n <= space /\ n \in Index
    BY DEF UartInv, UartTypeOK, TakeFits
  <2>. QED BY <1>2, <2>1 DEF Index
<1>8. Armed'
  <2>. SUFFICES ASSUME "RE" \notin irq_enable'
                PROVE  \/ Fill(rx') = BufLen - 1
                       \/ got /\ pc \in {"rlook", "rtake", "renable"}
    BY <1>4 DEF Armed
  <2>1. CASE RI /\ rxFifo' # <<>>
    BY <1>2, <2>1
  <2>2. CASE "RE" \notin irq_enable
    <3>1. UNCHANGED rx
      BY <1>1, <2>2 DEF RI
    <3>. QED BY <2>2, <3>1 DEF UartInv, Armed
  <2>. QED BY <1>1, <2>1, <2>2
<1>9. RoomSeen'
  <2>. SUFFICES ASSUME pc \in {"kick", "wspin"}, left > 0, tx'.out # seen
                PROVE  Fill(tx') < BufLen - 1
    BY <1>4 DEF UartInv, RoomSeen
  <2>1. CASE tx'.out # tx.out
    BY <1>3, <2>1
  <2>2. CASE tx'.out = tx.out
    <3>1. Fill(tx) < BufLen - 1
      BY <2>2 DEF UartInv, RoomSeen
    <3>. QED BY <1>3, <3>1, Sizes
  <2>. QED BY <2>1, <2>2
<1>. QED BY <1>2, <1>3, <1>5, <1>6, <1>7, <1>8, <1>9 DEF UartInv

(* Steps that leave the call alone and the rings.                          *)
LEMMA AroundFrame ==
  ASSUME UartInv, UartTypeOK', TxStream', RxStream',
         UNCHANGED << tx, rx, irq_enable, call >>
  PROVE  UartInv'
<1>1. UNCHANGED << tx, rx, irq_enable, pc, left, moved, space, got, n, seen >>
  BY DEF call
<1>2. StoreFits'
  BY <1>1 DEF UartInv, StoreFits
<1>3. TakeFits'
  BY <1>1 DEF UartInv, TakeFits
<1>4. Armed'
  BY <1>1 DEF UartInv, Armed
<1>5. RoomSeen'
  BY <1>1 DEF UartInv, RoomSeen
<1>. QED BY <1>2, <1>3, <1>4, <1>5 DEF UartInv

LEMMA CheckInv ==
  ASSUME UartInv, UartTimeout \/ HostPing \/ HostPlug \/ IoctlCalls
  PROVE  UartInv'
<1>1. UNCHANGED << rings, irq_enable, call, counts >>
  BY DEF UartTimeout, HostPing, HostPlug, IoctlCalls, TIOCSTIMEOUT
<1>2. /\ ac' \in BOOLEAN /\ host' \in BOOLEAN /\ timeout' \in Nat
      /\ host_inactive' \in Nat
  <2>1. /\ ac \in BOOLEAN /\ host \in BOOLEAN /\ timeout \in Nat
        /\ host_inactive \in Nat
    BY DEF UartInv, UartTypeOK
  <2>2. CASE UartTimeout
    <3>1. /\ host_inactive' \in {0, host_inactive + 1, host_inactive}
          /\ ac' = FALSE /\ UNCHANGED << host, timeout >>
      BY <2>2 DEF UartTimeout
    <3>2. host_inactive + 1 \in Nat /\ 0 \in Nat
      BY <2>1
    <3>3. host_inactive' \in Nat
      BY <2>1, <3>1, <3>2
    <3>. QED BY <2>1, <3>1, <3>3
  <2>3. CASE HostPing
    BY <2>1, <2>3 DEF HostPing
  <2>4. CASE HostPlug
    <3>1. host' = ~host /\ UNCHANGED << ac, timeout, host_inactive >>
      BY <2>4 DEF HostPlug
    <3>2. host' \in BOOLEAN
      BY <3>1
    <3>. QED BY <2>1, <3>1, <3>2
  <2>5. CASE IoctlCalls
    <3>1. PICK arg \in 1 .. IntMax : TIOCSTIMEOUT(arg)
      BY <2>5 DEF IoctlCalls
    <3>2. /\ timeout' \in {arg, IntMax - 1}
          /\ UNCHANGED << ac, host, host_inactive >>
      BY <3>1 DEF TIOCSTIMEOUT
    <3>3. arg \in Nat /\ IntMax - 1 \in Nat
      BY UartAssumption
    <3>. QED BY <2>1, <3>2, <3>3
  <2>. QED BY <2>2, <2>3, <2>4, <2>5
<1>3. UartTypeOK' /\ TxStream' /\ RxStream'
  <2>1. /\ left \in 0 .. MaxCount /\ space \in 0 .. MaxCount
        /\ moved \in BOOLEAN /\ got \in BOOLEAN /\ nonblock \in BOOLEAN
        /\ n \in Index /\ seen \in Index
        /\ pc \in {"idle", "wlook", "wstore", "kick", "wspin",
                   "rlook", "rtake", "rspin", "renable", "close"}
    BY DEF UartInv, UartTypeOK
  <2>. QED BY <1>1, <1>2, <2>1, CallFrame DEF call
<1>. QED BY <1>1, <1>3, AroundFrame DEF rings

LEMMA HostInv ==
  ASSUME UartInv, HostRead \/ HostSend
  PROVE  UartInv'
<1>1. CASE HostRead
  <2>1. UNCHANGED << tx, rx, rxFifo, irq_enable, check, call, written, sent, taken >>
    BY <1>1 DEF HostRead
  <2>2. UartTypeOK'
    BY <1>1, <2>1, HostReadStep DEF UartInv, UartTypeOK, check, call
  <2>. QED BY <1>1, <2>1, <2>2, HostReadStep, RxKept, AroundFrame
<1>2. CASE HostSend
  <2>1. UNCHANGED << tx, rx, txFifo, irq_enable, check, call, written, received, taken >>
    BY <1>2 DEF HostSend
  <2>2. UartTypeOK'
    BY <1>2, <2>1, HostSendStep DEF UartInv, UartTypeOK, check, call
  <2>. QED BY <1>2, <2>1, <2>2, HostSendStep, TxKept, AroundFrame
<1>. QED BY <1>1, <1>2

----------------------------------------------------------------------------
(* The theorems.                                                           *)

LEMMA InitInv == Init => UartInv
<1>. SUFFICES ASSUME Init PROVE UartInv
  OBVIOUS
<1>1. /\ tx = EmptyRing /\ rx = EmptyRing /\ txFifo = <<>> /\ rxFifo = <<>>
      /\ irq_enable = {"RE"} /\ pc = "idle"
      /\ written = 0 /\ received = 0 /\ sent = 0 /\ taken = 0
      /\ left = 0 /\ space = 0 /\ n = 0 /\ seen = 0
  BY DEF Init
<1>2. /\ EmptyRing \in Ring /\ EmptyRing.in = 0 /\ EmptyRing.out = 0
  BY Sizes DEF EmptyRing, Ring, Index
<1>3. Fill(EmptyRing) = 0
  BY <1>2, FillRange
<1>4. <<>> \in Seq(Char) /\ Len(<<>>) = 0
  BY EmptySeq
<1>5. 0 \in 0 .. MaxCount /\ DefaultTimeout \in Nat /\ IntMax \in Nat
  BY UartAssumption
<1>6. UartTypeOK
  BY <1>1, <1>2, <1>4, <1>5, Sizes DEF Init, UartTypeOK
<1>7. 0 % Chars = 0
  BY Sizes, MSame DEF Char
<1>8. TxStream /\ RxStream
  <2>1. \A from : Holds(EmptyRing, from) /\ Runs(<<>>, from)
    <3>1. 0 .. Fill(EmptyRing) - 1 = {} /\ 1 .. Len(<<>>) = {}
      BY <1>3, <1>4
    <3>. QED BY <3>1 DEF Holds, Runs
  <2>2. (0 + 0 + 0) % Chars = 0
    BY <1>7
  <2>. QED BY <1>1, <1>3, <1>4, <2>1, <2>2, Sizes DEF TxStream, RxStream
<1>. QED BY <1>1, <1>6, <1>8 DEF UartInv, StoreFits, TakeFits, Armed, RoomSeen

LEMMA NextInv ==
  ASSUME UartInv, [Next]_vars
  PROVE  UartInv'
<1>1. CASE CallNext
  BY <1>1, LookInv, StoreInv, KickInv, WaitsEnd, ReadLookInv, TakeInv, EndsInv
  DEF CallNext
<1>2. CASE WriteCalls \/ ReadCalls \/ CloseCalls
  BY <1>2, CallsBegin
<1>3. CASE IoctlCalls \/ UartTimeout \/ HostPing \/ HostPlug
  BY <1>3, CheckInv
<1>4. CASE UartIrq
  BY <1>4, IrqInv
<1>5. CASE HostRead \/ HostSend
  BY <1>5, HostInv
<1>6. CASE UNCHANGED vars
  <2>1. UNCHANGED << rings, irq_enable, check, call, counts >>
    BY <1>6 DEF vars
  <2>2. UartTypeOK'
    BY <2>1 DEF UartInv, UartTypeOK, rings, check, call, counts
  <2>3. TxStream' /\ RxStream'
    BY <2>1, TxKept, RxKept DEF rings, counts
  <2>. QED BY <2>1, <2>2, <2>3, AroundFrame DEF rings
<1>. QED BY <1>1, <1>2, <1>3, <1>4, <1>5, <1>6 DEF Next, Around

(* The inductive invariant: types, both streams numbered without a gap, and *)
(* what a store, a take or a waiting writer has seen still true.           *)
THEOREM UartInvariant == Spec => []UartInv
BY InitInv, NextInv, PTL DEF Spec

(* Two numbered pieces, one behind the other, are numbered.                *)
LEMMA Joined ==
  ASSUME NEW f \in Seq(Char), NEW g \in Seq(Char), NEW from \in Int,
         Runs(f, from),
         \A i \in 1 .. Len(g) : g[i] = (from + Len(f) + i - 1) % Chars
  PROVE  f \o g = Numbered(from, Len(f) + Len(g))
<1>. DEFINE k == Len(f) + Len(g)
            h == Numbered(from, k)
<1>1. Len(f) \in Nat /\ Len(g) \in Nat /\ k \in Nat
  BY LenProperties
<1>2. ASSUME NEW i \in 1 .. k
      PROVE  h[i] = (from + i - 1) % Chars /\ h[i] \in Char
  <2>1. from + i - 1 \in Int
    BY <1>1
  <2>2. h[i] = (from + i - 1) % Chars
    BY DEF Numbered
  <2>3. (from + i - 1) % Chars \in Char
    BY <2>1, Sizes, MRange DEF Char
  <2>. QED BY <2>2, <2>3
<1>3. h \in Seq(Char) /\ Len(h) = k
  <2>1. h \in [1 .. k -> Char]
    <3>1. h = [i \in 1 .. k |-> h[i]]
      BY DEF Numbered
    <3>. HIDE DEF h
    <3>. QED BY <1>2, <3>1
  <2>. HIDE DEF h, k
  <2>. QED BY <1>1, <2>1
<1>4. /\ f \o g \in Seq(Char) /\ Len(f \o g) = k
      /\ \A i \in 1 .. k : (f \o g)[i] = IF i <= Len(f) THEN f[i]
                                          ELSE g[i - Len(f)]
  BY ConcatProperties
<1>5. ASSUME NEW i \in 1 .. k PROVE (f \o g)[i] = h[i]
  <2>1. CASE i <= Len(f)
    <3>1. i \in 1 .. Len(f)
      BY <1>1, <2>1
    <3>. HIDE DEF h, k
    <3>. QED BY <1>2, <1>4, <2>1, <3>1 DEF Runs
  <2>2. CASE ~(i <= Len(f))
    <3>. DEFINE j == i - Len(f)
    <3>1. j \in 1 .. Len(g) /\ from + Len(f) + j - 1 = from + i - 1
      BY <1>1, <2>2
    <3>2. (f \o g)[i] = g[j]
      BY <1>4, <2>2
    <3>3. g[j] = (from + Len(f) + j - 1) % Chars
      <4>. HIDE DEF j
      <4>. QED BY <3>1
    <3>. HIDE DEF h, j, k
    <3>. QED BY <1>2, <3>1, <3>2, <3>3
  <2>. QED BY <2>1, <2>2
<1>. HIDE DEF h, k
<1>6. f \o g = h
  BY <1>3, <1>4, <1>5, SeqEqual
<1>. QED BY <1>6 DEF h, k

(* What the host will read is what the program wrote, in order.            *)
THEOREM HostGetsAll == Spec => []SentInOrder
<1>1. UartInv => SentInOrder
  <2>. SUFFICES ASSUME UartInv PROVE SentInOrder
    OBVIOUS
  <2>1. /\ tx \in Ring /\ txFifo \in Seq(Char) /\ received \in Int
        /\ Runs(txFifo, received) /\ Holds(tx, received + Len(txFifo))
        /\ (received + Len(txFifo) + Fill(tx)) % Chars = written
        /\ Len(txFifo) <= FifoCap
    BY DEF UartInv, UartTypeOK, TxStream, Char
  <2>2. received + Len(txFifo) \in Int
    BY <2>1, LenProperties
  <2>3. /\ Content(tx) \in Seq(Char) /\ Len(Content(tx)) = Fill(tx)
        /\ \A i \in 1 .. Fill(tx) :
             Content(tx)[i] = (received + Len(txFifo) + i - 1) % Chars
    BY <2>1, <2>2, ContentFacts
  <2>4. txFifo \o Content(tx) = Numbered(received, Len(txFifo) + Fill(tx))
    BY <2>1, <2>3, Joined
  <2>. QED BY <2>1, <2>4 DEF SentInOrder
<1>. QED BY <1>1, UartInvariant, PTL

(* What the program will read is what the host sent, in order.             *)
THEOREM ProgramGetsAll == Spec => []ReceivedInOrder
<1>1. UartInv => ReceivedInOrder
  <2>. SUFFICES ASSUME UartInv PROVE ReceivedInOrder
    OBVIOUS
  <2>1. /\ rx \in Ring /\ rxFifo \in Seq(Char) /\ taken \in Int
        /\ Holds(rx, taken) /\ Runs(rxFifo, taken + Fill(rx))
        /\ (taken + Len(rxFifo) + Fill(rx)) % Chars = sent
    BY DEF UartInv, UartTypeOK, RxStream, Char
  <2>2. /\ Content(rx) \in Seq(Char) /\ Len(Content(rx)) = Fill(rx)
        /\ \A i \in 1 .. Fill(rx) : Content(rx)[i] = (taken + i - 1) % Chars
    BY <2>1, ContentFacts
  <2>3. Runs(Content(rx), taken)
    BY <2>2 DEF Runs
  <2>4. \A i \in 1 .. Len(rxFifo) :
          rxFifo[i] = (taken + Len(Content(rx)) + i - 1) % Chars
    BY <2>1, <2>2 DEF Runs
  <2>5. Content(rx) \o rxFifo = Numbered(taken, Len(Content(rx)) + Len(rxFifo))
    BY <2>1, <2>2, <2>3, <2>4, Joined
  <2>6. Len(Content(rx)) + Len(rxFifo) = Len(rxFifo) + Fill(rx)
    BY <2>1, <2>2, FillRange, LenProperties DEF Index
  <2>. QED BY <2>1, <2>5, <2>6 DEF ReceivedInOrder
<1>. QED BY <1>1, UartInvariant, PTL

(* The receive interrupt is off, outside a read, only over a full ring.    *)
THEOREM ReceiverStaysArmed == Spec => []ReceiverArmed
<1>1. UartInv => ReceiverArmed
  BY DEF UartInv, Armed, ReceiverArmed
<1>. QED BY <1>1, UartInvariant, PTL

----------------------------------------------------------------------------
(* The refinement.  The mapped variables, step by step.                    *)

LEMMA MappedWrite ==
  ASSUME UartInv, UartInv', CallNext, BlockingDefault
  PROVE  Half!ConsoleNext \/ UNCHANGED Half!consoleVars
<1>. USE DEF Half!ConsoleNext, Half!Caller
<1>1. CASE WriteLook
  <2>1. /\ pc = "wlook" /\ pc' = IF n' = 0 THEN "kick" ELSE "wstore"
        /\ n' = Least(Room(tx), left)
        /\ UNCHANGED << tx, txFifo, irq_enable, ac, host, host_inactive, left, moved >>
    BY <1>1 DEF WriteLook, rings, check
  <2>2. CASE n' = 0
    <3>1. tx \in Ring /\ left \in Nat
      BY DEF UartInv, UartTypeOK
    <3>2. left = 0 \/ Fill(tx) = BufLen - 1
      BY <2>1, <2>2, <3>1, RoomFits DEF Least, Index
    <3>3. Half!WriteCopy
      BY <2>1, <2>2, <3>2 DEF Half!WriteCopy
    <3>. QED BY <3>3
  <2>3. CASE n' # 0
    BY <2>1, <2>3 DEF Half!consoleVars
  <2>. QED BY <2>2, <2>3
<1>2. CASE WriteStore
  <2>1. /\ pc = "wstore" /\ pc' = "wlook" /\ left' = left - n /\ moved' = TRUE
        /\ UNCHANGED << txFifo, irq_enable, ac, host, host_inactive >>
    BY <1>2 DEF WriteStore, check
  <2>2. Fill(tx') = Fill(tx) + n
    BY <1>2, StoreStep
  <2>3. /\ tx \in Ring /\ left \in Nat /\ n \in Nat /\ 1 <= n /\ n <= left
        /\ n + Fill(tx) <= BufLen - 1
    BY <2>1 DEF UartInv, UartTypeOK, StoreFits, Index
  <2>4. Fill(tx) \in Int
    BY <2>3, FillRange DEF Index
  <2>5. /\ ~(left = 0 \/ Fill(tx) = BufLen - 1)
        /\ n \in 1 .. Half!Least(left, BufLen - 1 - Fill(tx))
    BY <2>3, <2>4, Sizes DEF Half!Least
  <2>6. Half!WriteCopy
    BY <2>1, <2>2, <2>5 DEF Half!WriteCopy
  <2>. QED BY <2>6
<1>3. CASE WriteKick
  <2>1. /\ pc = "kick" /\ irq_enable' = irq_enable \cup {"WE"}
        /\ pc' = IF left = 0 THEN "idle" ELSE "wspin"
        /\ UNCHANGED << tx, txFifo, ac, host, host_inactive, left, moved >>
    BY <1>3 DEF WriteKick, BlockingDefault, Returns, rings, check
  <2>2. Half!WriteKick
    BY <2>1 DEF Half!WriteKick
  <2>. QED BY <2>2
<1>4. CASE WriteSpin
  <2>1. /\ pc = "wspin"
        /\ seen # tx.out \/ HostGone
        /\ pc' = IF host_inactive > 0 THEN "idle" ELSE "wlook"
        /\ UNCHANGED << tx, txFifo, irq_enable, ac, host, host_inactive, left,
                        moved, timeout >>
    BY <1>4 DEF WriteSpin, Returns, Goes, rings, check
  <2>2. timeout = DefaultTimeout /\ host_inactive \in Nat /\ tx \in Ring
        /\ left \in Nat
    BY <2>1 DEF BlockingDefault, UartInv, UartTypeOK
  <2>3. Fill(tx) < BufLen - 1 \/ host_inactive >= DefaultTimeout
    BY <2>1, <2>2 DEF UartInv, RoomSeen, HostGone
  <2>4. /\ Fill(tx) < BufLen - 1
             \/ Least(host_inactive, DefaultTimeout) >= DefaultTimeout
        /\ Least(host_inactive, DefaultTimeout) > 0 <=> host_inactive > 0
    BY <2>2, <2>3, UartAssumption DEF Least
  <2>5. CASE host_inactive > 0
    <3>1. pc' = "idle" /\ Least(host_inactive, DefaultTimeout) > 0
      BY <2>1, <2>4, <2>5
    <3>2. Half!WriteSpin
      BY <2>1, <2>4, <3>1 DEF Half!WriteSpin, Half!SpinOver
    <3>. QED BY <3>2
  <2>6. CASE ~(host_inactive > 0)
    <3>1. pc' = "wlook" /\ ~(Least(host_inactive, DefaultTimeout) > 0)
      BY <2>1, <2>4, <2>6
    <3>2. Half!WriteSpin
      BY <2>1, <2>4, <3>1 DEF Half!WriteSpin, Half!SpinOver
    <3>. QED BY <3>2
  <2>. QED BY <2>5, <2>6
<1>5. CASE ReadLook \/ ReadTake \/ ReadSpin \/ ReadEnable \/ Close
  <2>1. /\ pc \in {"rlook", "rtake", "rspin", "renable", "close"}
        /\ pc' \in {"rlook", "rtake", "rspin", "renable", "idle"}
        /\ UNCHANGED << tx, txFifo, ac, host, host_inactive, left, moved >>
        /\ "WE" \in irq_enable' <=> "WE" \in irq_enable
    BY <1>5 DEF ReadLook, ReadTake, ReadSpin, ReadEnable, Close, Returns, Goes,
         rings, check
  <2>. QED BY <2>1 DEF Half!consoleVars
<1>. QED BY <1>1, <1>2, <1>3, <1>4, <1>5 DEF CallNext

LEMMA MappedIrq ==
  ASSUME UartInv, UartIrq
  PROVE  Half!ConsoleNext \/ UNCHANGED Half!consoleVars
<1>1. UNCHANGED << ac, host_inactive, host, pc, left, moved >>
  BY DEF UartIrq, check, call
<1>2. CASE WI
  <2>1. PICK k \in 0 .. Fill(tx) :
          /\ k = Half!Least(Fill(tx), FifoCap - Len(txFifo))
          /\ Fill(tx') = Fill(tx) - k /\ Len(txFifo') = Len(txFifo) + k
    BY <1>2, TransmitStep DEF UartIrq, counts
  <2>2. "WE" \in irq_enable' <=> ~(Len(txFifo') < FifoCap)
    BY <1>2 DEF UartIrq, WI
  <2>3. Len(txFifo) \in Nat /\ Fill(tx) \in Int /\ Len(txFifo) <= FifoCap
    <3>1. tx \in Ring /\ txFifo \in Seq(Char) /\ Len(txFifo) <= FifoCap
      BY DEF UartInv, UartTypeOK, TxStream
    <3>. QED BY <3>1, FillRange, LenProperties DEF Index
  <2>4. "WE" \in irq_enable' <=> k = FifoCap - Len(txFifo)
    BY <2>1, <2>2, <2>3, Sizes DEF Half!Least
  <2>5. "WE" \in irq_enable /\ Len(txFifo) <= FifoLow
    BY <1>2 DEF WI
  <2>6. Half!UartIrq
    BY <1>1, <2>1, <2>4, <2>5 DEF Half!UartIrq, Half!TxIrq
  <2>. QED BY <2>6 DEF Half!ConsoleNext
<1>3. CASE ~WI
  <2>1. UNCHANGED << tx, txFifo >> /\ ("WE" \in irq_enable' <=> "WE" \in irq_enable)
    BY <1>3 DEF UartIrq
  <2>. QED BY <1>1, <2>1 DEF Half!consoleVars
<1>. QED BY <1>2, <1>3

LEMMA MappedAround ==
  ASSUME UartInv, UartTimeout \/ HostRead \/ HostSend \/ HostPing \/ HostPlug
  PROVE  Half!ConsoleNext \/ UNCHANGED Half!consoleVars
<1>. USE DEF Half!ConsoleNext
<1>0. host_inactive \in Nat
  BY DEF UartInv, UartTypeOK
<1>1. CASE UartTimeout
  <2>1. /\ ac' = FALSE
        /\ host_inactive' = IF ac THEN 0
                            ELSE IF host_inactive < IntMax - 2
                                 THEN host_inactive + 1 ELSE host_inactive
        /\ UNCHANGED << tx, txFifo, irq_enable, host, pc, left, moved >>
    BY <1>1 DEF UartTimeout, rings, call
  <2>2. /\ DefaultTimeout \in Nat \ {0} /\ IntMax \in Nat
        /\ DefaultTimeout <= IntMax - 2
    BY UartAssumption
  <2>3. Least(host_inactive', DefaultTimeout) =
          IF ac THEN 0
          ELSE IF Least(host_inactive, DefaultTimeout) < DefaultTimeout
               THEN Least(host_inactive, DefaultTimeout) + 1
               ELSE Least(host_inactive, DefaultTimeout)
    BY <1>0, <2>1, <2>2 DEF Least
  <2>4. Half!UartTimeout
    BY <2>1, <2>3 DEF Half!UartTimeout
  <2>. QED BY <2>4
<1>2. CASE HostRead
  <2>1. /\ host /\ txFifo # <<>> /\ txFifo' = Tail(txFifo)
        /\ UNCHANGED << tx, irq_enable, ac, host_inactive, host, pc, left, moved >>
    BY <1>2 DEF HostRead, check, call
  <2>2. Len(txFifo') = Len(txFifo) - 1 /\ Len(txFifo) > 0
    <3>1. txFifo \in Seq(Char)
      BY DEF UartInv, UartTypeOK
    <3>. QED BY <2>1, <3>1, HeadTailProperties, EmptySeq
  <2>3. Half!HostRead
    BY <2>1, <2>2 DEF Half!HostRead
  <2>. QED BY <2>3
<1>3. CASE HostSend
  <2>1. UNCHANGED << tx, txFifo, irq_enable, ac, host_inactive, host, pc, left, moved >>
    BY <1>3 DEF HostSend, check, call
  <2>. QED BY <2>1 DEF Half!consoleVars
<1>4. CASE HostPing
  <2>1. Half!HostPing
    BY <1>4 DEF HostPing, Half!HostPing, rings, call
  <2>. QED BY <2>1
<1>5. CASE HostPlug
  <2>1. Half!HostPlug
    BY <1>5 DEF HostPlug, Half!HostPlug, rings, call
  <2>. QED BY <2>1
<1>. QED BY <1>1, <1>2, <1>3, <1>4, <1>5

LEMMA MappedCalls ==
  ASSUME UartInv, WriteCalls \/ ReadCalls \/ CloseCalls \/ IoctlCalls
  PROVE  Half!ConsoleNext \/ UNCHANGED Half!consoleVars
<1>1. CASE WriteCalls
  <2>1. PICK count \in 1 .. MaxCount, f \in BOOLEAN : WriteCall(count, f)
    BY <1>1 DEF WriteCalls
  <2>2. Half!WriteCall(count)
    BY <2>1 DEF WriteCall, Call, Half!WriteCall, rings, check
  <2>. QED BY <2>2 DEF Half!ConsoleNext, Half!Caller
<1>2. CASE ReadCalls \/ CloseCalls
  <2>1. /\ pc = "idle" /\ pc' \in {"rlook", "close"}
        /\ UNCHANGED << tx, txFifo, irq_enable, ac, host_inactive, host, left, moved >>
    BY <1>2 DEF ReadCalls, ReadCall, CloseCalls, CloseCall, Call, rings, check
  <2>. QED BY <2>1 DEF Half!consoleVars
<1>3. CASE IoctlCalls
  <2>1. UNCHANGED << tx, txFifo, irq_enable, ac, host_inactive, host, pc, left, moved >>
    BY <1>3 DEF IoctlCalls, TIOCSTIMEOUT, rings, call
  <2>. QED BY <2>1 DEF Half!consoleVars
<1>. QED BY <1>1, <1>2, <1>3

(* Under the default timeout the transmit half does what Console allows,   *)
(* in every step and for every size.                                       *)
THEOREM ConsoleImplemented == Spec => TransmitsAsConsole
<1>1. UartInv /\ UartInv' /\ [Next]_vars =>
        [BlockingDefault => Half!ConsoleNext]_(Half!consoleVars)
  <2>. SUFFICES ASSUME UartInv, UartInv', [Next]_vars, BlockingDefault
                PROVE  Half!ConsoleNext \/ UNCHANGED Half!consoleVars
    OBVIOUS
  <2>1. CASE UNCHANGED vars
    BY <2>1 DEF vars, rings, check, call, Half!consoleVars
  <2>. QED BY <2>1, MappedWrite, MappedIrq, MappedAround, MappedCalls
       DEF Next, Around
<1>. QED BY <1>1, UartInvariant, PTL DEF Spec, TransmitsAsConsole
=============================================================================
