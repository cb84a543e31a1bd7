--------------------------- MODULE ServicesProofs ---------------------------
(***************************************************************************)
(* Proofs about the small machines that MCServices brings together, each   *)
(* from its own specification and for every value of its constants.        *)
(***************************************************************************)
EXTENDS MCServices, Arithmetic, FiniteSetTheorems, SequenceTheorems

----------------------------------------------------------------------------
(* HalHeap, for every size of memory, of request and of frame.             *)

Address == 0 .. HeapLimit

(* What sbrk() keeps: the blocks lie in order below the end of the heap;   *)
(* while the end is aligned the stack limit is at it and the stack above.  *)
HeapInv ==
  /\ heap_end \in Address /\ limit \in Address /\ sp \in Int
  /\ reported \in BOOLEAN /\ odd \in BOOLEAN
  /\ blocks \subseteq [from : Address, to : Address]
  /\ \A b \in blocks : b.from % 4 = 0 /\ b.from <= b.to /\ b.to <= heap_end
  /\ BlocksApart
  /\ ~odd => heap_end % 4 = 0 /\ limit = heap_end
  /\ ~odd /\ ~reported => heap_end <= sp

(* Aligning keeps an address in memory, moves it up, and leaves an aligned *)
(* one alone.                                                              *)
LEMMA AlignedFacts ==
  ASSUME NEW a \in Address
  PROVE  /\ Aligned(a) \in Address /\ a <= Aligned(a) /\ Aligned(a) % 4 = 0
         /\ a % 4 = 0 => Aligned(a) = a
<1>1. HeapLimit \in Nat /\ HeapLimit % 4 = 0
  BY HeapAssumption
<1>. DEFINE q == (a + 3) \div 4
            h == HeapLimit \div 4
<1>2. q \in Int /\ 4 * q <= a + 3 /\ a + 3 < 4 * q + 4
  BY <1>1, SMT DEF Address
<1>3. h \in Int /\ HeapLimit = 4 * h
  BY <1>1, SMT
<1>4. Aligned(a) = 4 * q
  BY <1>2, SMT DEF Aligned
<1>. HIDE DEF q, h
<1>5. (4 * q) % 4 = 0
  BY <1>2, SMT
<1>6. 4 * q <= HeapLimit /\ a <= 4 * q
  BY <1>1, <1>2, <1>3, SMT DEF Address
<1>7. a % 4 = 0 => 4 * q = a
  BY <1>1, <1>2, SMT DEF Address
<1>. QED
  BY <1>1, <1>2, <1>4, <1>5, <1>6, <1>7, SMT DEF Address

(* The new end is in memory, and below the old one only when memory is     *)
(* given back.                                                             *)
LEMMA NewEndFacts ==
  ASSUME NEW incr \in Int, heap_end \in Address, Owned(incr)
  PROVE  /\ NewEnd(incr) \in Address
         /\ heap_end <= Aligned(heap_end)
         /\ ~(incr < 0) => Aligned(heap_end) <= NewEnd(incr)
         /\ ~Fits(incr) => NewEnd(incr) = Aligned(heap_end)
<1>. DEFINE e == Aligned(heap_end)
<1>1. HeapLimit \in Nat /\ e \in Address /\ heap_end <= e /\ e + incr >= 0
  BY AlignedFacts, HeapAssumption DEF Owned
<1>2. NewEnd(incr) = e + (IF e + incr <= HeapLimit THEN incr ELSE 0)
      /\ (Fits(incr) <=> e + incr <= HeapLimit)
  BY DEF NewEnd, Fits
<1>. HIDE DEF e
<1>. QED
  BY <1>1, <1>2, SMT DEF Address, e

LEMMA OwnedSizes ==
  ASSUME NEW incr \in Nat, heap_end \in Address
  PROVE  Owned(incr)
BY AlignedFacts, HeapAssumption, SMT DEF Owned, Address

(* Giving memory back cuts the blocks, and none is longer than before.     *)
LEMMA CutFacts ==
  ASSUME HeapInv, NEW n \in Address
  PROVE  \A b \in CutAt(n) :
           /\ b \in [from : Address, to : Address]
           /\ b.from % 4 = 0 /\ b.from <= b.to /\ b.to <= n
           /\ \E d \in blocks : b.from = d.from /\ b.to <= d.to
                              /\ b.to = IF d.to <= n THEN d.to ELSE n
<1>1. TAKE b \in CutAt(n)
<1>2. PICK d \in blocks : d.from < n /\
        b = [from |-> d.from, to |-> IF d.to <= n THEN d.to ELSE n]
  BY DEF CutAt
<1>3. d.from \in Address /\ d.to \in Address /\ d.from % 4 = 0 /\ d.from <= d.to
  BY DEF HeapInv
<1>4. b.from = d.from /\ b.to = IF d.to <= n THEN d.to ELSE n
  BY <1>2
<1>5. HeapLimit \in Nat
  BY HeapAssumption
<1>6. b.from <= b.to /\ b.to <= n /\ b.to \in Address /\ b.to <= d.to
  BY <1>2, <1>3, <1>4, <1>5, SMT DEF Address
<1>. QED
  BY <1>2, <1>3, <1>4, <1>6

LEMMA CutApart ==
  ASSUME HeapInv, NEW n \in Address, NEW b \in CutAt(n), NEW c \in CutAt(n), b # c
  PROVE  b.to <= c.from \/ c.to <= b.from
<1>1. PICK x \in blocks : x.from < n /\
        b = [from |-> x.from, to |-> IF x.to <= n THEN x.to ELSE n]
  BY DEF CutAt
<1>2. PICK y \in blocks : y.from < n /\
        c = [from |-> y.from, to |-> IF y.to <= n THEN y.to ELSE n]
  BY DEF CutAt
<1>3. x # y
  BY <1>1, <1>2
<1>4. x.to <= y.from \/ y.to <= x.from
  BY <1>3 DEF HeapInv, BlocksApart
<1>5. /\ x.from \in Address /\ x.to \in Address
      /\ y.from \in Address /\ y.to \in Address /\ HeapLimit \in Nat
  BY HeapAssumption DEF HeapInv
<1>6. /\ b.from = x.from /\ b.to = IF x.to <= n THEN x.to ELSE n
      /\ c.from = y.from /\ c.to = IF y.to <= n THEN y.to ELSE n
  BY <1>1, <1>2
<1>. QED
  BY <1>4, <1>5, <1>6, SMT DEF Address

(* A call keeps what sbrk() keeps.                                         *)
LEMMA SbrkKeeps ==
  ASSUME HeapInv, NEW incr \in Int, Owned(incr), ALT_SBRK(incr)
  PROVE  HeapInv'
<1>. DEFINE e == Aligned(heap_end)
            n == NewEnd(incr)
            new == [from |-> e, to |-> n]
            Ordered ==
              /\ blocks' \subseteq [from : Address, to : Address]
              /\ \A b \in blocks' :
                   b.from % 4 = 0 /\ b.from <= b.to /\ b.to <= heap_end'
              /\ \A b, c \in blocks' : b # c => b.to <= c.from \/ c.to <= b.from
<1>1. HeapLimit \in Nat
  BY HeapAssumption
<1>2. /\ e \in Address /\ n \in Address
      /\ heap_end <= e /\ e % 4 = 0
      /\ ~(incr < 0) => e <= n
      /\ heap_end % 4 = 0 => e = heap_end
      /\ ~Fits(incr) => n = e
  BY <1>1, NewEndFacts, AlignedFacts DEF HeapInv
<1>3. /\ heap_end' = n /\ limit' = (IF Follows(incr) THEN n ELSE limit)
      /\ reported' = (Follows(incr) /\ sp <= n) /\ ~reported /\ sp' = sp
      /\ blocks' = IF ~Fits(incr) THEN blocks
                   ELSE IF incr < 0 THEN CutAt(n) ELSE blocks \cup {new}
      /\ odd' = (odd \/ n % 4 # 0)
  BY DEF ALT_SBRK
<1>. HIDE DEF e, n
<1>4. /\ heap_end' \in Address /\ limit' \in Address /\ sp' \in Int
      /\ reported' \in BOOLEAN /\ odd' \in BOOLEAN
  BY <1>2, <1>3 DEF HeapInv
<1>5. ASSUME Fits(incr), ~(incr < 0) PROVE Ordered
  <2>1. new \in [from : Address, to : Address]
    BY <1>2
  <2>2. new.from % 4 = 0 /\ new.from <= new.to /\ new.to <= heap_end'
    BY <1>1, <1>2, <1>3, <1>5, SMT DEF Address
  <2>3. \A b \in blocks : b.to \in Address /\ b.to <= heap_end
    BY DEF HeapInv
  <2>4. \A b \in blocks : b.to <= heap_end'
    BY <1>1, <1>2, <1>3, <1>5, <2>3, SMT DEF HeapInv, Address
  <2>5. ASSUME NEW b \in blocks', NEW c \in blocks', b # c
        PROVE  b.to <= c.from \/ c.to <= b.from
    <3>1. CASE b \in blocks /\ c \in blocks
      BY <2>5, <3>1 DEF HeapInv, BlocksApart
    <3>2. ASSUME NEW d \in blocks PROVE d.to <= new.from
      BY <1>1, <1>2, SMT DEF HeapInv, Address
    <3>3. CASE b = new \/ c = new
      BY <1>3, <1>5, <2>5, <3>2, <3>3
    <3>. QED
      BY <1>3, <1>5, <3>1, <3>3
  <2>. QED
    BY <1>3, <1>5, <2>1, <2>2, <2>4, <2>5 DEF HeapInv
<1>6. ASSUME Fits(incr), incr < 0 PROVE Ordered
  BY <1>2, <1>3, <1>6, CutFacts, CutApart
<1>7. ASSUME ~Fits(incr) PROVE Ordered
  <2>1. \A b \in blocks : b.to <= heap_end'
    BY <1>1, <1>2, <1>3, <1>7, SMT DEF HeapInv, Address
  <2>. QED
    BY <1>3, <1>7, <2>1 DEF HeapInv, BlocksApart
<1>8. Ordered
  BY <1>5, <1>6, <1>7
<1>9. BlocksApart'
  <2>1. ASSUME NEW b \in blocks'
        PROVE  b.from % 4 = 0 /\ 0 <= b.from /\ b.to <= HeapLimit
    BY <1>1, <1>4, <1>8, SMT DEF Address
  <2>. QED
    BY <1>8, <2>1 DEF BlocksApart
<1>10. ASSUME ~odd'
      PROVE  /\ heap_end' % 4 = 0 /\ limit' = heap_end'
             /\ ~reported' => heap_end' <= sp'
  <2>1. ~odd /\ n % 4 = 0
    BY <1>3, <1>10
  <2>2. limit = heap_end /\ e = heap_end /\ heap_end <= sp
    BY <1>2, <1>3, <2>1 DEF HeapInv
  <2>3. CASE Fits(incr)
    <3>1. Follows(incr)
      BY <2>2, <2>3 DEF Follows, e
    <3>2. heap_end' = n /\ limit' = n /\ sp' = sp
      BY <1>3, <3>1
    <3>3. ~reported' => ~(sp <= n)
      BY <1>3, <3>1
    <3>4. ~(sp <= n) => n <= sp
      BY <1>1, <1>2, SMT DEF HeapInv, Address
    <3>. QED
      BY <2>1, <3>2, <3>3, <3>4
  <2>4. CASE ~Fits(incr)
    <3>1. ~Follows(incr) /\ n = heap_end
      BY <1>2, <2>2, <2>4 DEF Follows
    <3>. QED
      BY <1>3, <2>1, <2>2, <3>1
  <2>. QED
    BY <2>3, <2>4
<1>. QED
  BY <1>4, <1>8, <1>9, <1>10 DEF HeapInv

(* Entering a function keeps the stack above the limit or breaks in.       *)
LEMMA EnterKeeps ==
  ASSUME HeapInv, NEW frame \in Frames, Enter(frame)
  PROVE  HeapInv'
<1>1. frame \in Nat
  BY HeapAssumption
<1>2. /\ UNCHANGED << heap_end, limit, blocks, odd >> /\ ~reported
      /\ \/ reported' = TRUE /\ sp' = sp
         \/ ~(sp - frame < limit) /\ sp' = sp - frame /\ reported' = reported
  BY DEF Enter
<1>3. sp \in Int /\ limit \in Int /\ sp - frame \in Int
  BY <1>1, HeapAssumption, SMT DEF HeapInv, Address
<1>4. sp' \in Int /\ reported' \in BOOLEAN
  BY <1>2, <1>3 DEF HeapInv
<1>5. ~odd' /\ ~reported' => heap_end' <= sp'
  <2>1. ~(sp - frame < limit) => limit <= sp - frame
    BY <1>1, <1>3, SMT
  <2>. QED
    BY <1>2, <2>1 DEF HeapInv
<1>6. BlocksApart'
  BY <1>2 DEF HeapInv, BlocksApart
<1>. QED
  BY <1>2, <1>4, <1>5, <1>6 DEF HeapInv

(* Leaving one moves the stack away from the heap.                         *)
LEMMA LeaveKeeps ==
  ASSUME HeapInv, NEW frame \in Frames, Leave(frame)
  PROVE  HeapInv'
<1>1. frame \in Nat
  BY HeapAssumption
<1>2. /\ UNCHANGED << heap_end, limit, reported, blocks, odd >>
      /\ sp' = sp + frame
  BY DEF Leave
<1>3. sp' \in Int
  BY <1>1, <1>2, SMT DEF HeapInv
<1>4. ~odd' /\ ~reported' => heap_end' <= sp'
  BY <1>1, <1>2, HeapAssumption, SMT DEF HeapInv, Address
<1>5. BlocksApart'
  BY <1>2 DEF HeapInv, BlocksApart
<1>. QED
  BY <1>2, <1>3, <1>4, <1>5 DEF HeapInv

LEMMA HeapStart == HeapInit => HeapInv
<1>. SUFFICES ASSUME HeapInit PROVE HeapInv
  OBVIOUS
<1>1. 0 \in Address /\ 0 % 4 = 0 /\ HeapLimit \in Int /\ 0 <= HeapLimit
  BY HeapAssumption, SMT DEF Address
<1>. QED
  BY <1>1 DEF HeapInit, HeapInv, BlocksApart

LEMMA HeapStep == HeapInv /\ [HeapNext]_heapVars => HeapInv'
<1>. SUFFICES ASSUME HeapInv, [HeapNext]_heapVars PROVE HeapInv'
  OBVIOUS
<1>1. CASE UNCHANGED heapVars
  BY <1>1 DEF HeapInv, BlocksApart, heapVars
<1>2. CASE HeapNext
  <2>1. Incrs \subseteq Int
    BY HeapAssumption
  <2>. QED BY <1>2, <2>1, SbrkKeeps, EnterKeeps, LeaveKeeps DEF HeapNext
<1>. QED
  BY <1>1, <1>2

LEMMA HeapInvSound == HeapInv => HeapSound
<1>. SUFFICES ASSUME HeapInv PROVE HeapSound
  OBVIOUS
<1>1. ASSUME ~reported, ~odd, NEW b \in blocks
      PROVE  b.to <= sp
  <2>1. b.to \in Address /\ b.to <= heap_end /\ heap_end <= sp
    BY <1>1 DEF HeapInv
  <2>. QED
    BY <2>1, HeapAssumption, SMT DEF HeapInv, Address
<1>. QED
  BY <1>1 DEF HeapInv, HeapSound, StackGuarded

(* Blocks never overlap nor leave the memory, and the stack of a program   *)
(* that has not been stopped is above them all unless a size left the end  *)
(* of the heap unaligned (alt_sbrk.c:107): for every memory and every size,*)
(* negative ones included, of a program that gives back at most what it    *)
(* was given.                                                              *)
THEOREM HeapIsSound == HeapSpec => []HeapSound
BY HeapStart, HeapStep, HeapInvSound, PTL DEF HeapSpec

----------------------------------------------------------------------------
(* HalLog.                                                                 *)

Contexts == {"main", "irq"}

(* A handler that has seen room finds it: nobody fills the FIFO meanwhile. *)
(* The program does, unless a handler filled it, which cut records.        *)
RoomKept ==
  /\ polled.irq => handler # "none" /\ left.irq > 0 /\ fifo < LogFifo
  /\ polled.main => left.main > 0
  /\ polled.main /\ ~cut => fifo < LogFifo

(* The ticks are the seconds counted and what the count has on top.        *)
HeartbeatInv ==
  IF On("sys_clk")
  THEN /\ alt_log_sys_clk_count <= Interval
       /\ log_ticks = (Interval + 1) * alt_system_clock_in_sec
                      + alt_log_sys_clk_count
  ELSE alt_system_clock_in_sec = 0

LogTypeOK ==
  /\ level \in FlagLevels /\ fifo \in 0 .. LogFifo /\ ring \in Nat
  /\ handler \in {"none", "uart", "timer", "alarm"}
  /\ left \in [Contexts -> Nat] /\ polled \in [Contexts -> BOOLEAN]
  /\ writing \in BOOLEAN /\ dropped \in BOOLEAN /\ cut \in BOOLEAN
  /\ log_ticks \in Nat /\ alt_log_sys_clk_count \in Nat
  /\ alt_system_clock_in_sec \in Nat

LogInv == LogTypeOK /\ RoomKept /\ HeartbeatInv /\ (dropped => cut)

LEMMA MessageLength ==
  ASSUME NEW flag
  PROVE  Message(flag) \in Nat
<1>1. Line \in Nat /\ 0 \in Nat
  BY LogAssumption
<1>. QED BY <1>1 DEF Message

(* Steps that leave the clock's counts alone.                              *)
LEMMA HeartbeatKept ==
  ASSUME LogInv, UNCHANGED << level, clockVars >>
  PROVE  HeartbeatInv'
BY DEF LogInv, HeartbeatInv, clockVars, On

LEMMA PollInv ==
  ASSUME LogInv, NEW c \in Contexts, Poll(c)
  PROVE  LogInv'
<1>1. /\ Active(c) /\ left[c] > 0 /\ fifo < LogFifo
      /\ polled' = [polled EXCEPT ![c] = TRUE]
      /\ UNCHANGED << level, fifo, ring, handler, left, writing, clockVars,
                      dropped, cut >>
  BY DEF Poll
<1>2. HeartbeatInv'
  BY <1>1, HeartbeatKept
<1>3. LogTypeOK'
  BY <1>1 DEF LogInv, LogTypeOK, Contexts, clockVars
<1>4. RoomKept'
  <2>1. polled \in [Contexts -> BOOLEAN]
    BY DEF LogInv, LogTypeOK
  <2>2. CASE c = "main"
    <3>1. polled'["main"] = TRUE /\ polled'["irq"] = polled["irq"]
      BY <1>1, <2>1, <2>2 DEF Contexts
    <3>. QED BY <1>1, <2>2, <3>1 DEF LogInv, RoomKept
  <2>3. CASE c = "irq"
    <3>1. polled'["irq"] = TRUE /\ polled'["main"] = polled["main"]
      BY <1>1, <2>1, <2>3 DEF Contexts
    <3>2. handler # "none"
      BY <1>1, <2>3 DEF Active
    <3>. QED BY <1>1, <2>3, <3>1, <3>2 DEF LogInv, RoomKept
  <2>. QED BY <2>2, <2>3 DEF Contexts
<1>. QED BY <1>1, <1>2, <1>3, <1>4 DEF LogInv

LEMMA PutInv ==
  ASSUME LogInv, NEW c \in Contexts, Put(c)
  PROVE  LogInv'
<1>1. /\ Active(c) /\ polled[c]
      /\ polled' = [polled EXCEPT ![c] = FALSE]
      /\ left' = [left EXCEPT ![c] = left[c] - 1]
      /\ fifo' = fifo + (IF fifo < LogFifo THEN 1 ELSE 0)
      /\ cut' = (cut \/ ((IF fifo < LogFifo THEN 1 ELSE 0) > 0
                         /\ polled.main /\ handler # "none"))
      /\ dropped' = (dropped \/ fifo = LogFifo)
      /\ UNCHANGED << level, ring, handler, writing, clockVars >>
  BY DEF Put, Filled
<1>2. HeartbeatInv'
  BY <1>1, HeartbeatKept
<1>3. /\ left \in [Contexts -> Nat] /\ polled \in [Contexts -> BOOLEAN]
      /\ fifo \in 0 .. LogFifo /\ cut \in BOOLEAN /\ dropped \in BOOLEAN
      /\ LogFifo \in Nat
  BY LogAssumption DEF LogInv, LogTypeOK
<1>4. left[c] > 0 /\ left[c] \in Nat
  BY <1>1, <1>3 DEF LogInv, RoomKept, Contexts
<1>5. left' \in [Contexts -> Nat] /\ polled' \in [Contexts -> BOOLEAN]
  <2>1. left[c] - 1 \in Nat
    BY <1>4
  <2>. QED BY <1>1, <1>3, <2>1
<1>6. fifo' \in 0 .. LogFifo
  BY <1>1, <1>3
<1>7. cut' \in BOOLEAN /\ dropped' \in BOOLEAN /\ (cut => cut')
      /\ (dropped' => dropped \/ fifo = LogFifo)
  BY <1>1
<1>8. LogTypeOK'
  BY <1>1, <1>5, <1>6, <1>7 DEF LogInv, LogTypeOK, clockVars
<1>9. CASE c = "main"
  <2>1. /\ polled'["main"] = FALSE /\ polled'["irq"] = polled["irq"]
        /\ polled["main"] /\ handler = "none"
    BY <1>1, <1>3, <1>9 DEF Contexts, Active
  <2>2. RoomKept'
    BY <1>1, <2>1 DEF LogInv, RoomKept
  <2>3. fifo = LogFifo => cut
    BY <1>3, <2>1 DEF LogInv, RoomKept
  <2>4. dropped' => cut'
    BY <1>7, <2>3 DEF LogInv
  <2>. QED BY <1>2, <1>8, <2>2, <2>4 DEF LogInv
<1>10. CASE c = "irq"
  <2>1. /\ polled'["irq"] = FALSE /\ polled'["main"] = polled["main"]
        /\ left'["main"] = left["main"] /\ polled["irq"]
    BY <1>1, <1>3, <1>10 DEF Contexts
  <2>2. fifo < LogFifo /\ handler # "none"
    BY <2>1 DEF LogInv, RoomKept
  <2>3. polled["main"] => cut'
    <3>1. (IF fifo < LogFifo THEN 1 ELSE 0) > 0
      BY <2>2
    <3>. QED BY <1>1, <2>2, <3>1
  <2>4. RoomKept'
    BY <2>1, <2>3 DEF LogInv, RoomKept
  <2>5. dropped' => dropped
    BY <1>3, <1>7, <2>2
  <2>. QED BY <1>2, <1>7, <1>8, <2>4, <2>5 DEF LogInv
<1>. QED BY <1>9, <1>10 DEF Contexts

(* Steps between messages: one starts, or the FIFO is left or emptied.     *)
LEMMA ProgramInv ==
  ASSUME LogInv, alt_write \/ DriverWrite
  PROVE  LogInv'
<1>1. /\ left.main = 0 /\ handler = "none"
      /\ left' = left \/ left' = [left EXCEPT !.main = Message("write")]
      /\ ring' \in {ring, ring + 1} /\ writing' \in BOOLEAN
      /\ UNCHANGED << level, fifo, handler, polled, clockVars, dropped, cut >>
  BY DEF alt_write, DriverWrite, Active
<1>2. HeartbeatInv'
  BY <1>1, HeartbeatKept
<1>3. /\ left \in [Contexts -> Nat] /\ ring \in Nat
      /\ polled \in [Contexts -> BOOLEAN] /\ Message("write") \in Nat
  BY MessageLength DEF LogInv, LogTypeOK
<1>4. left' \in [Contexts -> Nat] /\ left'["irq"] = left["irq"]
  BY <1>1, <1>3 DEF Contexts
<1>5. ring' \in Nat
  <2>1. ring + 1 \in Nat
    BY <1>3
  <2>. QED BY <1>1, <1>3, <2>1
<1>6. LogTypeOK'
  BY <1>1, <1>4, <1>5 DEF LogInv, LogTypeOK, clockVars
<1>7. ~polled["main"] /\ ~polled["irq"]
  BY <1>1 DEF LogInv, RoomKept
<1>8. RoomKept'
  BY <1>1, <1>7 DEF RoomKept
<1>. QED BY <1>1, <1>2, <1>6, <1>8 DEF LogInv

LEMMA HandlerInv ==
  ASSUME LogInv, UartIrq \/ TimerIrq \/ Report \/ ReportEnd
  PROVE  LogInv'
<1>1. /\ handler = "none" \/ left.irq = 0
      /\ handler' \in {"uart", "timer", "alarm", "none"}
      /\ left' = left \/ \E k \in Nat : left' = [left EXCEPT !.irq = k]
      /\ UNCHANGED << level, fifo, ring, polled, writing, dropped, cut >>
  <2>1. Line \in Nat /\ 0 \in Nat
    BY LogAssumption
  <2>2. (IF Beats THEN Line ELSE 0) \in Nat
    BY <2>1
  <2>. QED BY <2>2, MessageLength DEF UartIrq, TimerIrq, Report, ReportEnd
<1>2. /\ left \in [Contexts -> Nat] /\ polled \in [Contexts -> BOOLEAN]
      /\ log_ticks \in Nat /\ alt_log_sys_clk_count \in Nat
      /\ alt_system_clock_in_sec \in Nat /\ Interval \in Nat
  BY LogAssumption DEF LogInv, LogTypeOK
<1>3. left' \in [Contexts -> Nat] /\ left'["main"] = left["main"]
  BY <1>1, <1>2 DEF Contexts
<1>4. HeartbeatInv' /\ log_ticks' \in Nat /\ alt_log_sys_clk_count' \in Nat
      /\ alt_system_clock_in_sec' \in Nat
  <2>1. CASE ~TimerIrq
    <3>1. UNCHANGED << level, clockVars >>
      BY <2>1 DEF UartIrq, Report, ReportEnd
    <3>. QED BY <1>2, <3>1, HeartbeatKept DEF clockVars
  <2>2. CASE TimerIrq
    <3>1. /\ log_ticks' = log_ticks + 1
          /\ alt_log_sys_clk_count' = IF Beats THEN 0
               ELSE IF On("sys_clk") THEN alt_log_sys_clk_count + 1 ELSE 0
          /\ alt_system_clock_in_sec' =
               alt_system_clock_in_sec + (IF Beats THEN 1 ELSE 0)
          /\ On("sys_clk")' <=> On("sys_clk")
      BY <2>2 DEF TimerIrq, On
    <3>2. CASE ~On("sys_clk")
      <4>1. ~Beats /\ alt_system_clock_in_sec = 0
        BY <3>2 DEF LogInv, HeartbeatInv, Beats
      <4>2. alt_system_clock_in_sec' = 0 /\ alt_log_sys_clk_count' = 0
        BY <3>1, <3>2, <4>1
      <4>. QED BY <1>2, <3>1, <3>2, <4>2 DEF HeartbeatInv
    <3>3. CASE On("sys_clk")
      <4>1. /\ alt_log_sys_clk_count <= Interval
            /\ log_ticks = (Interval + 1) * alt_system_clock_in_sec
                           + alt_log_sys_clk_count
            /\ Beats <=> alt_log_sys_clk_count + 1 > Interval
        BY <3>3 DEF LogInv, HeartbeatInv, Beats
      <4>2. CASE Beats
        <5>1. /\ alt_log_sys_clk_count' = 0
              /\ alt_system_clock_in_sec' = alt_system_clock_in_sec + 1
          BY <3>1, <4>2
        <5>2. alt_log_sys_clk_count = Interval
          BY <1>2, <4>1, <4>2
        <5>3. (Interval + 1) * (alt_system_clock_in_sec + 1)
                = (Interval + 1) * alt_system_clock_in_sec + (Interval + 1)
          BY <1>2
        <5>4. (Interval + 1) * alt_system_clock_in_sec \in Int
          BY <1>2
        <5>5. log_ticks' = (Interval + 1) * alt_system_clock_in_sec'
                           + alt_log_sys_clk_count'
          BY <1>2, <3>1, <4>1, <5>1, <5>2, <5>3, <5>4
        <5>6. alt_log_sys_clk_count' <= Interval /\ log_ticks' \in Nat
              /\ alt_log_sys_clk_count' \in Nat /\ alt_system_clock_in_sec' \in Nat
          BY <1>2, <3>1, <5>1
        <5>. QED BY <3>1, <3>3, <5>5, <5>6 DEF HeartbeatInv
      <4>3. CASE ~Beats
        <5>1. /\ alt_log_sys_clk_count' = alt_log_sys_clk_count + 1
              /\ alt_system_clock_in_sec' = alt_system_clock_in_sec
          BY <1>2, <3>1, <3>3, <4>3
        <5>2. (Interval + 1) * alt_system_clock_in_sec \in Int
          BY <1>2
        <5>3. log_ticks' = (Interval + 1) * alt_system_clock_in_sec'
                           + alt_log_sys_clk_count'
          BY <1>2, <3>1, <4>1, <5>1, <5>2
        <5>4. alt_log_sys_clk_count' <= Interval /\ log_ticks' \in Nat
              /\ alt_log_sys_clk_count' \in Nat /\ alt_system_clock_in_sec' \in Nat
          BY <1>2, <3>1, <4>1, <4>3, <5>1
        <5>. QED BY <3>1, <3>3, <5>3, <5>4 DEF HeartbeatInv
      <4>. QED BY <4>2, <4>3
    <3>. QED BY <3>2, <3>3
  <2>. QED BY <2>1, <2>2
<1>5. LogTypeOK'
  BY <1>1, <1>3, <1>4 DEF LogInv, LogTypeOK
<1>6. ~polled["irq"]
  BY <1>1, <1>2 DEF LogInv, RoomKept
<1>7. RoomKept'
  BY <1>1, <1>3, <1>6 DEF LogInv, RoomKept
<1>. QED BY <1>1, <1>4, <1>5, <1>7 DEF LogInv

LEMMA CopyInv == ASSUME LogInv, UartCopy PROVE LogInv'
<1>. DEFINE k == IF ring < LogFifo - fifo THEN ring ELSE LogFifo - fifo
<1>1. /\ handler = "uart" /\ left.irq = 0 /\ handler' = "none"
      /\ fifo' = fifo + k /\ ring' = ring - k
      /\ cut' = (cut \/ (k > 0 /\ polled.main /\ handler # "none"))
      /\ UNCHANGED << level, left, polled, writing, clockVars, dropped >>
  BY DEF UartCopy, Filled
<1>2. /\ fifo \in 0 .. LogFifo /\ ring \in Nat /\ LogFifo \in Nat
      /\ cut \in BOOLEAN /\ left \in [Contexts -> Nat]
  BY LogAssumption DEF LogInv, LogTypeOK
<1>3. k \in Nat /\ fifo' \in 0 .. LogFifo /\ ring' \in Nat
  BY <1>1, <1>2
<1>. HIDE DEF k
<1>4. cut' \in BOOLEAN /\ (cut => cut')
  BY <1>1
<1>5. LogTypeOK'
  BY <1>1, <1>3, <1>4 DEF LogInv, LogTypeOK, clockVars
<1>6. ~polled["irq"]
  BY <1>1, <1>2 DEF LogInv, RoomKept
<1>7. polled["main"] /\ ~cut' => fifo' < LogFifo
  <2>. SUFFICES ASSUME polled["main"], ~cut' PROVE fifo' < LogFifo
    OBVIOUS
  <2>1. ~(k > 0) /\ ~cut
    BY <1>1
  <2>2. k = 0 /\ fifo < LogFifo
    BY <1>3, <2>1 DEF LogInv, RoomKept
  <2>. QED BY <1>1, <1>2, <2>2
<1>8. RoomKept'
  BY <1>1, <1>6, <1>7 DEF LogInv, RoomKept
<1>9. HeartbeatInv'
  BY <1>1, HeartbeatKept
<1>. QED BY <1>1, <1>4, <1>5, <1>8, <1>9 DEF LogInv

LEMMA HostReadsInv == ASSUME LogInv, HostReads PROVE LogInv'
<1>1. /\ fifo > 0 /\ fifo' = fifo - 1
      /\ UNCHANGED << level, ring, handler, left, polled, writing, clockVars,
                      dropped, cut >>
  BY DEF HostReads
<1>2. fifo \in 0 .. LogFifo /\ LogFifo \in Nat
  BY LogAssumption DEF LogInv, LogTypeOK
<1>3. fifo' \in 0 .. LogFifo /\ (fifo < LogFifo => fifo' < LogFifo)
  BY <1>1, <1>2
<1>4. LogTypeOK'
  BY <1>1, <1>3 DEF LogInv, LogTypeOK, clockVars
<1>5. RoomKept'
  BY <1>1, <1>3 DEF LogInv, RoomKept
<1>6. HeartbeatInv'
  BY <1>1, HeartbeatKept
<1>. QED BY <1>1, <1>4, <1>5, <1>6 DEF LogInv

LEMMA LogStart == LogInit => LogInv
<1>. SUFFICES ASSUME LogInit PROVE LogInv
  OBVIOUS
<1>1. /\ level \in FlagLevels /\ fifo = 0 /\ ring = 0 /\ handler = "none"
      /\ left = [main |-> Message("startup"), irq |-> 0]
      /\ polled = [main |-> FALSE, irq |-> FALSE] /\ writing = FALSE
      /\ log_ticks = 0 /\ alt_log_sys_clk_count = 0
      /\ alt_system_clock_in_sec = 0 /\ dropped = FALSE /\ cut = FALSE
  BY DEF LogInit
<1>2. Message("startup") \in Nat /\ 0 \in Nat /\ 0 \in 0 .. LogFifo
      /\ Interval \in Nat
  BY MessageLength, LogAssumption
<1>3. left \in [Contexts -> Nat] /\ polled \in [Contexts -> BOOLEAN]
  <2>. DEFINE k == Message("startup")
              f == FALSE
  <2>1. left = [main |-> k, irq |-> 0] /\ k \in Nat
    BY <1>1, <1>2
  <2>2. polled = [main |-> f, irq |-> f] /\ f \in BOOLEAN
    BY <1>1
  <2>. HIDE DEF k, f
  <2>3. left \in [Contexts -> Nat]
    BY <2>1 DEF Contexts
  <2>4. polled \in [Contexts -> BOOLEAN]
    BY <2>2 DEF Contexts
  <2>. QED BY <2>3, <2>4
<1>4. LogTypeOK
  BY <1>1, <1>2, <1>3 DEF LogTypeOK
<1>5. HeartbeatInv
  <2>1. 0 <= Interval /\ 0 = (Interval + 1) * 0 + 0
    BY <1>2
  <2>. QED BY <1>1, <2>1 DEF HeartbeatInv
<1>. QED BY <1>1, <1>4, <1>5 DEF LogInv, RoomKept

LEMMA LogStep == LogInv /\ [LogNext]_logVars => LogInv'
<1>. SUFFICES ASSUME LogInv, [LogNext]_logVars PROVE LogInv'
  OBVIOUS
<1>1. CASE UNCHANGED logVars
  <2>1. HeartbeatInv'
    BY <1>1, HeartbeatKept DEF logVars, clockVars
  <2>. QED BY <1>1, <2>1 DEF logVars, LogInv, LogTypeOK, RoomKept
<1>. QED BY <1>1, PollInv, PutInv, ProgramInv, HandlerInv, CopyInv, HostReadsInv
     DEF LogNext, Contexts

LEMMA LogInvSound == LogInv => LogSound
<1>. SUFFICES ASSUME LogInv PROVE LogSound
  OBVIOUS
<1>1. fifo <= LogFifo /\ (dropped => cut)
  BY LogAssumption DEF LogInv, LogTypeOK
<1>2. CASE On("sys_clk")
  <2>. DEFINE m == Interval + 1
              q == alt_system_clock_in_sec
  <2>1. /\ m \in Nat \ {0} /\ q \in Int /\ log_ticks \in Int
        /\ alt_log_sys_clk_count \in 0 .. m - 1
        /\ log_ticks = m * q + alt_log_sys_clk_count
    BY <1>2, LogAssumption DEF LogInv, LogTypeOK, HeartbeatInv
  <2>2. log_ticks \div m = q
    <3>. HIDE DEF m, q
    <3>. QED BY <2>1, MQuotient
  <2>. QED BY <1>1, <1>2, <2>2
       DEF LogSound, DroppedOnlyIfCut, HeartbeatCounts
<1>3. CASE ~On("sys_clk")
  BY <1>1, <1>3
  DEF LogInv, HeartbeatInv, LogSound, DroppedOnlyIfCut, HeartbeatCounts
<1>. QED BY <1>2, <1>3

(* A character of a message is dropped only where an interrupt filled the  *)
(* FIFO between poll and write; a handler's own never is; the heartbeat    *)
(* comes every Interval + 1 ticks.                                         *)
THEOREM LogIsSound == LogSpec => []LogSound
BY LogStart, LogStep, LogInvSound, PTL DEF LogSpec

----------------------------------------------------------------------------
(* IntervalTimer, for every width of its registers and every reset value.  *)

(* The two writes of the period, the reading of the snapshot, and what is  *)
(* true from the end of a start on.                                        *)
Starting == {"periodl", "periodh", "start"}
Reads == {"snapl", "snaph"}
Started == {"idle"} \cup Reads
TimestampPcs == {"stop"} \cup Starting \cup Started

CoreTypeOK ==
  /\ period_l \in 0 .. Half - 1 /\ period_h \in 0 .. Half - 1
  /\ internal_counter \in 0 .. Full /\ counter_snapshot \in 0 .. Full
  /\ counter_is_running \in BOOLEAN /\ force_reload \in BOOLEAN
  /\ timeout_occurred \in BOOLEAN /\ late \in BOOLEAN
  /\ owed \in Int /\ since \in Nat

TimerTypeOK ==
  /\ CoreTypeOK
  /\ taken \in Nat \cup {Unknown} /\ owner \in {"sysclk", "timestamp"}
  /\ owner = "sysclk" => pc \in {"init", "run"}
  /\ owner = "timestamp" => pc \in TimestampPcs /\ ~continuous

(* While the periods are written the counter stands; when both are, it has *)
(* been loaded with full scale or is about to be.                          *)
StartedFresh ==
  /\ pc \in Starting => ~counter_is_running
  /\ pc \in {"periodh", "start"} => period_l = Half - 1
  /\ pc = "start" => period_h = Half - 1 /\ (force_reload \/ internal_counter = Full)

(* From then on it is since clocks below full scale, until it expires and  *)
(* stops there.                                                            *)
Counting ==
  /\ ~force_reload /\ period_l = Half - 1 /\ period_h = Half - 1
  /\ counter_is_running => since <= Full /\ internal_counter = Full - since
  /\ ~counter_is_running => since > Full /\ internal_counter = Full

(* What a snapshot of t clocks holds, and what is returned of it.          *)
SnapOf(t) == IF t <= Full THEN Full - t ELSE Full
TimeOf(t) == IF t <= Full THEN t ELSE 0

SnapshotKept ==
  /\ pc \in Reads => taken \in Nat /\ counter_snapshot = SnapOf(taken)
  /\ pc = "snaph" => lower = counter_snapshot % Half
  /\ pc \notin Reads /\ result # Unknown =>
       taken \in Nat /\ result = TimeOf(taken)

TimestampInv ==
  StartedFresh /\ (pc \in Started => Counting) /\ SnapshotKept

TimerInv ==
  /\ TimerTypeOK /\ EachExpiryTicks
  /\ owner = "timestamp" => TimestampInv

(* Two registers make every word up to full scale.                         *)
LEMMA FullFacts ==
  /\ Full \in Nat \ {0} /\ Half \in Nat \ {0} /\ Half - 1 \in 0 .. Half - 1
  /\ 0 \in 0 .. Half - 1
  /\ (Half - 1) * Half + (Half - 1) = Full
  /\ MaxClocks \in Nat /\ Full < MaxClocks /\ Period \in 0 .. Full
<1>1. Half \in Nat /\ Half >= 2
  BY TimerAssumption
<1>2. Half * Half >= 2 * Half /\ Half * Half \in Nat
  BY <1>1
<1>3. (Half - 1) * Half = Half * Half - Half
  BY <1>1
<1>4. Full \in Nat \ {0}
  BY <1>1, <1>2 DEF Full
<1>. QED BY <1>1, <1>2, <1>3, <1>4, TimerAssumption DEF Full

LEMMA LoadType ==
  ASSUME NEW h \in 0 .. Half - 1, NEW l \in 0 .. Half - 1
  PROVE  h * Half + l \in 0 .. Full
<1>1. Half \in Nat /\ h \in Nat /\ l \in Nat /\ h <= Half - 1 /\ l <= Half - 1
  BY FullFacts
<1>2. h * Half <= (Half - 1) * Half /\ h * Half \in Nat
  <2>. DEFINE d == Half - 1 - h
  <2>1. d \in Nat /\ (Half - 1) * Half = h * Half + d * Half
    BY <1>1
  <2>2. d * Half \in Nat /\ h * Half \in Nat
    BY <1>1, <2>1
  <2>. QED BY <2>1, <2>2
<1>. QED BY <1>1, <1>2, FullFacts

(* A clock keeps the core in its registers' ranges.  An expiry is a tick   *)
(* owed until the interrupt is acknowledged, which only the interrupt is.  *)
LEMMA ClockTypeOK ==
  ASSUME CoreTypeOK, NEW w, w.data \in 0 .. Half - 1, Clock(w)
  PROVE  CoreTypeOK'
<1>1. counter_load_value \in 0 .. Full
  BY LoadType DEF CoreTypeOK, counter_load_value
<1>. DEFINE load == counter_load_value
<1>2. internal_counter' \in 0 .. Full
  <2>1. internal_counter' \in {internal_counter, load}
        \/ (internal_counter # 0 /\ internal_counter' = internal_counter - 1)
    BY DEF Clock, counter_is_zero
  <2>. HIDE DEF load
  <2>. QED BY <1>1, <2>1, FullFacts DEF CoreTypeOK, load
<1>3. period_l' \in 0 .. Half - 1 /\ period_h' \in 0 .. Half - 1
      /\ counter_snapshot' \in 0 .. Full
  BY DEF Clock, CoreTypeOK
<1>4. /\ counter_is_running' \in BOOLEAN /\ force_reload' \in BOOLEAN
      /\ timeout_occurred' \in BOOLEAN /\ late' \in BOOLEAN
  BY DEF Clock
<1>5. since' \in Nat
  BY FullFacts DEF Clock, Bounded, CoreTypeOK
<1>6. owed' \in Int
  BY DEF Clock, CoreTypeOK
<1>. QED BY <1>2, <1>3, <1>4, <1>5, <1>6 DEF CoreTypeOK

LEMMA ExpiriesKept ==
  ASSUME CoreTypeOK, EachExpiryTicks, NEW w, Clock(w),
         w.reg = "status" => timeout_occurred
  PROVE  EachExpiryTicks'
<1>. DEFINE e == timeout_event
            s == w.reg = "status"
            n == (IF e THEN 1 ELSE 0)
            k == (IF s THEN 1 ELSE 0)
<1>1. /\ timeout_occurred' = (~s /\ (timeout_occurred \/ e))
      /\ late' = (late \/ (e /\ (timeout_occurred \/ s)))
      /\ ~late' => owed' = owed + n - k
  BY DEF Clock
<1>. SUFFICES ASSUME ~late' PROVE owed' = (IF timeout_occurred' THEN 1 ELSE 0)
  BY DEF EachExpiryTicks
<1>2. ~late /\ owed = (IF timeout_occurred THEN 1 ELSE 0) /\ owed' = owed + n - k
      /\ ~(e /\ (timeout_occurred \/ s))
  BY <1>1 DEF EachExpiryTicks
<1>. HIDE DEF e, s
<1>3. CASE s
  <2>1. timeout_occurred /\ ~e /\ ~timeout_occurred'
    BY <1>1, <1>2, <1>3 DEF s
  <2>2. owed = 1 /\ n = 0 /\ k = 1
    BY <1>2, <1>3, <2>1
  <2>. QED BY <1>2, <2>1, <2>2
<1>4. CASE ~s /\ e
  <2>1. ~timeout_occurred /\ timeout_occurred'
    BY <1>1, <1>2, <1>4
  <2>2. owed = 0 /\ n = 1 /\ k = 0
    BY <1>2, <1>4, <2>1
  <2>. QED BY <1>2, <2>1, <2>2
<1>5. CASE ~s /\ ~e
  <2>1. timeout_occurred' <=> timeout_occurred
    BY <1>1, <1>5
  <2>2. n = 0 /\ k = 0 /\ owed \in Int
    BY <1>5 DEF CoreTypeOK
  <2>. QED BY <1>2, <2>1, <2>2
<1>. QED BY <1>3, <1>4, <1>5

(* A counter that was started goes on counting, until it expires once.     *)
LEMMA CountingKept ==
  ASSUME CoreTypeOK, ~continuous, Counting, NEW w, Clock(w),
         w.reg \notin {"control", "periodl", "periodh"}
  PROVE  Counting'
<1>1. /\ ~force_reload' /\ period_l' = Half - 1 /\ period_h' = Half - 1
      /\ counter_load_value = Full
  <2>1. ~force_reload'
    <3>1. force_reload' = (w.reg \in {"periodl", "periodh"})
      BY DEF Clock
    <3>. QED BY <3>1
  <2>2. period_l' = Half - 1 /\ period_h' = Half - 1
    BY DEF Clock, Counting
  <2>3. counter_load_value = Full
    BY FullFacts DEF Counting, counter_load_value
  <2>. QED BY <2>1, <2>2, <2>3
<1>2. CASE ~counter_is_running
  <2>1. counter_is_running' = FALSE /\ internal_counter' = Full
        /\ since' = Bounded(since + 1)
    BY <1>2 DEF Clock, Counting, Starts
  <2>2. since' > Full
    BY <1>2, <2>1, FullFacts DEF Counting, CoreTypeOK, Bounded
  <2>. QED BY <1>1, <2>1, <2>2 DEF Counting
<1>3. CASE counter_is_running /\ internal_counter = 0
  <2>1. counter_is_running' = FALSE /\ internal_counter' = Full
        /\ since' = Bounded(since + 1)
    BY <1>1, <1>3 DEF Clock, Counting, Starts, Stops, counter_is_zero
  <2>2. since = Full
    BY <1>3, FullFacts DEF Counting, CoreTypeOK
  <2>3. since' > Full
    BY <2>1, <2>2, FullFacts DEF Bounded
  <2>. QED BY <1>1, <2>1, <2>3 DEF Counting
<1>4. CASE counter_is_running /\ internal_counter # 0
  <2>1. counter_is_running' = TRUE /\ internal_counter' = internal_counter - 1
        /\ since' = Bounded(since + 1)
    BY <1>4 DEF Clock, Counting, Starts, Stops, counter_is_zero, timeout_event
  <2>2. since \in Nat /\ since <= Full /\ internal_counter = Full - since
        /\ since < Full
    BY <1>4, FullFacts DEF Counting, CoreTypeOK
  <2>3. since' = since + 1
    BY <2>1, <2>2, FullFacts DEF Bounded
  <2>4. since' <= Full /\ internal_counter' = Full - since'
    BY <2>1, <2>2, <2>3, FullFacts
  <2>. QED BY <1>1, <2>1, <2>4 DEF Counting
<1>. QED BY <1>2, <1>3, <1>4

(* What every access has in common; the write of w need not be one.        *)
LEMMA AnyAccess ==
  ASSUME TimerInv, NEW w, w.data \in 0 .. Half - 1, Clock(w),
         w.reg = "status" => timeout_occurred, taken' \in {taken, since}
  PROVE  /\ CoreTypeOK' /\ EachExpiryTicks' /\ taken' \in Nat \cup {Unknown}
         /\ owner' = owner /\ owner' \in {"sysclk", "timestamp"}
<1>1. CoreTypeOK /\ EachExpiryTicks
  BY DEF TimerInv, TimerTypeOK
<1>2. CoreTypeOK' /\ EachExpiryTicks'
  BY <1>1, ClockTypeOK, ExpiriesKept
<1>3. taken' \in Nat \cup {Unknown}
  BY DEF TimerInv, TimerTypeOK, CoreTypeOK
<1>4. owner' = owner /\ owner' \in {"sysclk", "timestamp"}
  BY DEF Clock, TimerInv, TimerTypeOK
<1>. QED BY <1>2, <1>3, <1>4

(* A clock without a write leaves the registers, and a stopped counter.    *)
LEMMA QuietClock ==
  ASSUME Clock(NoWrite)
  PROVE  /\ NoWrite.data \in 0 .. Half - 1 /\ NoWrite.reg = "none"
         /\ continuous' = continuous /\ ~force_reload'
         /\ period_l' = period_l /\ period_h' = period_h
         /\ counter_snapshot' = counter_snapshot
         /\ ~counter_is_running => ~counter_is_running'
<1>1. NoWrite.reg = "none" /\ NoWrite.data \in 0 .. Half - 1
  BY FullFacts DEF NoWrite, Write
<1>2. force_reload' = (NoWrite.reg \in {"periodl", "periodh"})
  BY DEF Clock
<1>3. counter_is_running' = (Starts(NoWrite) \/ (counter_is_running /\ ~Stops(NoWrite)))
  BY DEF Clock
<1>4. ~Starts(NoWrite)
  BY <1>1 DEF Starts
<1>5. /\ continuous' = continuous /\ counter_snapshot' = counter_snapshot
      /\ period_l' = period_l /\ period_h' = period_h
  BY <1>1 DEF Clock
<1>. QED BY <1>1, <1>2, <1>3, <1>4, <1>5

LEMMA WaitInv == ASSUME TimerInv, Wait PROVE TimerInv'
<1>1. Clock(NoWrite) /\ UNCHANGED << pc, lower, result, taken >>
  BY DEF Wait
<1>2. /\ CoreTypeOK' /\ EachExpiryTicks' /\ taken' \in Nat \cup {Unknown}
      /\ owner' = owner /\ owner' \in {"sysclk", "timestamp"}
  BY <1>1, QuietClock, AnyAccess
<1>3. TimerTypeOK'
  BY <1>1, <1>2, QuietClock DEF TimerInv, TimerTypeOK
<1>4. ASSUME owner = "timestamp" PROVE TimestampInv'
  <2>1. TimestampInv /\ CoreTypeOK /\ ~continuous
    BY <1>4 DEF TimerInv, TimerTypeOK
  <2>2. StartedFresh'
    <3>1. CASE pc = "start"
      <4>1. ~counter_is_running /\ period_l = Half - 1 /\ period_h = Half - 1
            /\ (force_reload \/ internal_counter = Full)
        BY <2>1, <3>1 DEF TimestampInv, StartedFresh, Starting
      <4>2. counter_load_value = Full
        BY <4>1, FullFacts DEF counter_load_value
      <4>3. internal_counter' = Full
        BY <1>1, <4>1, <4>2 DEF Clock
      <4>. QED BY <1>1, <3>1, <4>1, <4>3, QuietClock DEF StartedFresh, Starting
    <3>2. CASE pc # "start"
      BY <1>1, <2>1, <3>2, QuietClock DEF TimestampInv, StartedFresh, Starting
    <3>. QED BY <3>1, <3>2
  <2>3. (pc \in Started => Counting)'
    BY <1>1, <2>1, QuietClock, CountingKept DEF TimestampInv
  <2>4. SnapshotKept'
    <3>1. SnapOf(taken') = SnapOf(taken) /\ TimeOf(taken') = TimeOf(taken)
      BY <1>1
    <3>. QED BY <1>1, <2>1, <3>1, QuietClock DEF TimestampInv, SnapshotKept
  <2>. QED BY <2>2, <2>3, <2>4 DEF TimestampInv
<1>. QED BY <1>2, <1>3, <1>4 DEF TimerInv

(* The system clock's driver: it owns a core that is no timestamp's.       *)
LEMMA SysclkInv ==
  ASSUME TimerInv, alt_avalon_timer_sc_init \/ alt_avalon_timer_sc_irq
  PROVE  TimerInv'
<1>1. owner = "sysclk"
  BY DEF alt_avalon_timer_sc_init, alt_avalon_timer_sc_irq, Access, TimerInv,
         TimerTypeOK, TimestampPcs, Starting, Started, Reads
<1>2. PICK w \in {Write("control", 0, Bits(TRUE, TRUE, TRUE, FALSE)),
                  Write("status", 0, NoBits)} :
        /\ Clock(w) /\ pc' = "run" /\ taken' = taken
        /\ w.reg = "status" => timeout_occurred
  BY DEF alt_avalon_timer_sc_init, alt_avalon_timer_sc_irq, Access, irq, Write
<1>3. w.data \in 0 .. Half - 1
  <2>1. w.data = 0
    <3>1. Write("control", 0, Bits(TRUE, TRUE, TRUE, FALSE)).data = 0
          /\ Write("status", 0, NoBits).data = 0
      BY DEF Write
    <3>. QED BY <3>1
  <2>. QED BY <2>1, FullFacts
<1>4. /\ CoreTypeOK' /\ EachExpiryTicks' /\ taken' \in Nat \cup {Unknown}
      /\ owner' = owner /\ owner' \in {"sysclk", "timestamp"}
  BY <1>2, <1>3, AnyAccess
<1>. QED BY <1>1, <1>2, <1>4 DEF TimerInv, TimerTypeOK

(* What a step of the timestamp's driver has in common.                    *)
LEMMA TimestampStep ==
  ASSUME TimerInv, NEW w, w.data \in 0 .. Half - 1, Clock(w), w.reg # "status",
         w.reg = "control" => ~w.ctl.cont,
         pc \in TimestampPcs, pc' \in TimestampPcs, taken' \in {taken, since},
         TimestampInv /\ CoreTypeOK /\ ~continuous => TimestampInv'
  PROVE  TimerInv'
<1>1. /\ CoreTypeOK' /\ EachExpiryTicks' /\ taken' \in Nat \cup {Unknown}
      /\ owner' = owner /\ owner' \in {"sysclk", "timestamp"}
  BY AnyAccess
<1>2. owner = "timestamp"
  BY DEF TimerInv, TimerTypeOK, TimestampPcs, Starting, Started, Reads
<1>3. TimestampInv /\ CoreTypeOK /\ ~continuous
  BY <1>2 DEF TimerInv, TimerTypeOK
<1>4. ~continuous'
  <2>1. continuous' = IF w.reg = "control" THEN w.ctl.cont ELSE continuous
    BY DEF Clock
  <2>. QED BY <1>3, <2>1
<1>. QED BY <1>1, <1>2, <1>3, <1>4 DEF TimerInv, TimerTypeOK

(* A stop and the two halves of the period.                                *)
LEMMA StopInv == ASSUME TimerInv, STOP PROVE TimerInv'
<1>. DEFINE w == Write("control", 0, Bits(FALSE, FALSE, FALSE, TRUE))
<1>1. /\ pc = "stop" /\ pc' = "periodl" /\ Clock(w)
      /\ UNCHANGED << lower, result, taken >>
  BY DEF STOP, Access
<1>2. w.data = 0 /\ w.reg = "control" /\ ~w.ctl.cont /\ ~w.ctl.start /\ w.ctl.stop
  BY DEF Write, Bits
<1>. HIDE DEF w
<1>3. ~counter_is_running'
  <2>1. counter_is_running' = (Starts(w) \/ (counter_is_running /\ ~Stops(w)))
    BY <1>1 DEF Clock
  <2>. QED BY <1>2, <2>1 DEF Starts, Stops
<1>4. TimestampInv => TimestampInv'
  <2>1. SnapOf(taken') = SnapOf(taken) /\ TimeOf(taken') = TimeOf(taken)
    BY <1>1
  <2>. QED BY <1>1, <1>3, <2>1
       DEF TimestampInv, StartedFresh, SnapshotKept, Starting, Started, Reads
<1>. QED BY <1>1, <1>2, <1>4, FullFacts, TimestampStep
     DEF TimestampPcs, Starting, Started, Reads

LEMMA PeriodInv == ASSUME TimerInv, PERIODL \/ PERIODH PROVE TimerInv'
<1>1. PICK reg \in {"periodl", "periodh"} :
        /\ pc = reg /\ Clock(Write(reg, Half - 1, NoBits))
        /\ pc' = (IF reg = "periodl" THEN "periodh" ELSE "start")
        /\ UNCHANGED << lower, result, taken >>
  BY DEF PERIODL, PERIODH, Access
<1>. DEFINE w == Write(reg, Half - 1, NoBits)
<1>2. w.data = Half - 1 /\ w.reg = reg /\ w.reg \notin {"status", "control"}
  BY <1>1 DEF Write
<1>3. Clock(w)
  BY <1>1
<1>. HIDE DEF w
<1>4. force_reload' /\ (~counter_is_running => ~counter_is_running')
  <2>1. force_reload' = (w.reg \in {"periodl", "periodh"})
    BY <1>3 DEF Clock
  <2>2. counter_is_running' = (Starts(w) \/ (counter_is_running /\ ~Stops(w)))
    BY <1>3 DEF Clock
  <2>3. ~Starts(w)
    BY <1>2 DEF Starts
  <2>. QED BY <1>1, <1>2, <2>1, <2>2, <2>3
<1>5. /\ reg = "periodl" => period_l' = Half - 1
      /\ reg = "periodh" => period_l' = period_l /\ period_h' = Half - 1
  BY <1>2, <1>3 DEF Clock
<1>6. TimestampInv => TimestampInv'
  <2>1. SnapOf(taken') = SnapOf(taken) /\ TimeOf(taken') = TimeOf(taken)
    BY <1>1
  <2>. QED BY <1>1, <1>4, <1>5, <2>1
       DEF TimestampInv, StartedFresh, SnapshotKept, Starting, Started, Reads
<1>. QED BY <1>1, <1>2, <1>3, <1>6, FullFacts, TimestampStep
     DEF TimestampPcs, Starting, Started, Reads

(* The start: the counter is at full scale after this clock.               *)
LEMMA StartInv == ASSUME TimerInv, START PROVE TimerInv'
<1>. DEFINE w == Write("control", 0, Bits(FALSE, FALSE, TRUE, FALSE))
<1>1. /\ pc = "start" /\ pc' = "idle" /\ Clock(w)
      /\ UNCHANGED << lower, result, taken >>
  BY DEF START, Access
<1>2. w.data = 0 /\ w.reg = "control" /\ ~w.ctl.cont /\ w.ctl.start
  BY DEF Write, Bits
<1>. HIDE DEF w
<1>3. counter_is_running' /\ ~force_reload' /\ since' = 0
  <2>1. Starts(w)
    BY <1>2 DEF Starts
  <2>2. counter_is_running' = (Starts(w) \/ (counter_is_running /\ ~Stops(w)))
        /\ force_reload' = (w.reg \in {"periodl", "periodh"})
    BY <1>1 DEF Clock
  <2>3. since' = 0
    BY <1>1, <2>1 DEF Clock
  <2>. QED BY <1>2, <2>1, <2>2, <2>3
<1>4. TimestampInv => TimestampInv'
  <2>. SUFFICES ASSUME TimestampInv PROVE TimestampInv'
    OBVIOUS
  <2>1. ~counter_is_running /\ period_l = Half - 1 /\ period_h = Half - 1
        /\ (force_reload \/ internal_counter = Full)
    BY <1>1 DEF TimestampInv, StartedFresh, Starting
  <2>2. counter_load_value = Full
    BY <2>1, FullFacts DEF counter_load_value
  <2>3. internal_counter' = Full /\ period_l' = Half - 1 /\ period_h' = Half - 1
    BY <1>1, <1>2, <2>1, <2>2 DEF Clock
  <2>4. Counting'
    BY <1>3, <2>3, FullFacts DEF Counting
  <2>5. SnapOf(taken') = SnapOf(taken) /\ TimeOf(taken') = TimeOf(taken)
    BY <1>1
  <2>6. StartedFresh' /\ SnapshotKept'
    BY <1>1, <2>5
    DEF TimestampInv, StartedFresh, SnapshotKept, Starting, Started, Reads
  <2>. QED BY <2>4, <2>6 DEF TimestampInv
<1>. QED BY <1>1, <1>2, <1>4, FullFacts, TimestampStep
     DEF TimestampPcs, Starting, Started, Reads

(* Starting again.                                                         *)
LEMMA RestartInv == ASSUME TimerInv, alt_timestamp_start PROVE TimerInv'
<1>1. /\ pc = "idle" /\ pc' = "stop" /\ Clock(NoWrite)
      /\ UNCHANGED << lower, result, taken >>
  BY DEF alt_timestamp_start
<1>2. TimestampInv => TimestampInv'
  <2>1. SnapOf(taken') = SnapOf(taken) /\ TimeOf(taken') = TimeOf(taken)
    BY <1>1
  <2>. QED BY <1>1, <2>1
       DEF TimestampInv, StartedFresh, SnapshotKept, Starting, Started, Reads
<1>. QED BY <1>1, <1>2, QuietClock, TimestampStep
     DEF TimestampPcs, Starting, Started, Reads

(* The snapshot is of the count at this clock.                             *)
LEMMA SnapshotInv == ASSUME TimerInv, alt_timestamp PROVE TimerInv'
<1>. DEFINE w == Write("snapl", 0, NoBits)
<1>1. /\ pc = "idle" /\ pc' = "snapl" /\ Clock(w) /\ taken' = since
      /\ UNCHANGED << lower, result >>
  BY DEF alt_timestamp
<1>2. w.data = 0 /\ w.reg = "snapl"
  BY DEF Write
<1>. HIDE DEF w
<1>3. TimestampInv /\ CoreTypeOK /\ ~continuous => TimestampInv'
  <2>. SUFFICES ASSUME TimestampInv, CoreTypeOK, ~continuous PROVE TimestampInv'
    OBVIOUS
  <2>1. Counting
    BY <1>1 DEF TimestampInv, Started
  <2>2. Counting'
    BY <1>1, <1>2, <2>1, CountingKept
  <2>3. counter_snapshot' = internal_counter
    BY <1>1, <1>2 DEF Clock
  <2>4. since \in Nat /\ internal_counter = SnapOf(since)
    BY <2>1, FullFacts DEF Counting, CoreTypeOK, SnapOf
  <2>5. taken' \in Nat /\ counter_snapshot' = SnapOf(taken')
    BY <1>1, <2>3, <2>4
  <2>6. StartedFresh' /\ SnapshotKept'
    BY <1>1, <2>5 DEF StartedFresh, SnapshotKept, Starting, Reads
  <2>. QED BY <2>2, <2>6 DEF TimestampInv
<1>. QED BY <1>1, <1>2, <1>3, FullFacts, TimestampStep
     DEF TimestampPcs, Starting, Started, Reads

(* Its two halves are read with the counter running on.                    *)
LEMMA ReadLowInv == ASSUME TimerInv, SNAPL PROVE TimerInv'
<1>1. /\ pc = "snapl" /\ pc' = "snaph" /\ lower' = counter_snapshot % Half
      /\ Clock(NoWrite) /\ UNCHANGED << result, taken >>
  BY DEF SNAPL
<1>2. TimestampInv /\ CoreTypeOK /\ ~continuous => TimestampInv'
  <2>. SUFFICES ASSUME TimestampInv, CoreTypeOK, ~continuous PROVE TimestampInv'
    OBVIOUS
  <2>1. Counting'
    BY <1>1, QuietClock, CountingKept DEF TimestampInv, Started, Reads
  <2>2. counter_snapshot' = counter_snapshot
    BY <1>1, QuietClock
  <2>3. SnapOf(taken') = SnapOf(taken)
    BY <1>1
  <2>4. StartedFresh' /\ SnapshotKept'
    BY <1>1, <2>2, <2>3
    DEF TimestampInv, StartedFresh, SnapshotKept, Starting, Reads
  <2>. QED BY <2>1, <2>4 DEF TimestampInv
<1>. QED BY <1>1, <1>2, QuietClock, TimestampStep
     DEF TimestampPcs, Starting, Started, Reads

LEMMA ReadHighInv == ASSUME TimerInv, SNAPH PROVE TimerInv'
<1>1. /\ pc = "snaph" /\ pc' = "idle" /\ Clock(NoWrite)
      /\ result' = Full - ((counter_snapshot \div Half) * Half + lower)
      /\ UNCHANGED << lower, taken >>
  BY DEF SNAPH
<1>2. TimestampInv /\ CoreTypeOK /\ ~continuous => TimestampInv'
  <2>. SUFFICES ASSUME TimestampInv, CoreTypeOK, ~continuous PROVE TimestampInv'
    OBVIOUS
  <2>1. Counting'
    BY <1>1, QuietClock, CountingKept DEF TimestampInv, Started, Reads
  <2>2. /\ taken \in Nat /\ counter_snapshot = SnapOf(taken)
        /\ lower = counter_snapshot % Half
    BY <1>1 DEF TimestampInv, SnapshotKept, Reads
  <2>3. result' = Full - counter_snapshot
    <3>. DEFINE q == counter_snapshot \div Half
                r == counter_snapshot % Half
    <3>1. counter_snapshot \in Int /\ Half \in Nat \ {0} /\ Full \in Int
      BY FullFacts DEF CoreTypeOK
    <3>2. q \in Int /\ r \in Int /\ counter_snapshot = Half * q + r
      BY <3>1, MDivided
    <3>3. result' = Full - (q * Half + r)
      BY <1>1, <2>2
    <3>. HIDE DEF q, r
    <3>4. q * Half = Half * q
      BY <3>1, <3>2
    <3>. QED BY <3>1, <3>2, <3>3, <3>4
  <2>4. Full - SnapOf(taken) = TimeOf(taken)
    BY <2>2, FullFacts DEF SnapOf, TimeOf
  <2>5. result' = TimeOf(taken') /\ taken' \in Nat
    BY <1>1, <2>2, <2>3, <2>4
  <2>6. StartedFresh' /\ SnapshotKept'
    BY <1>1, <2>5 DEF StartedFresh, SnapshotKept, Starting, Reads
  <2>. QED BY <2>1, <2>6 DEF TimestampInv
<1>. QED BY <1>1, <1>2, QuietClock, TimestampStep
     DEF TimestampPcs, Starting, Started, Reads

LEMMA TimerStart == TimerInit => TimerInv
<1>. SUFFICES ASSUME TimerInit PROVE TimerInv
  OBVIOUS
<1>. DEFINE q == Period \div Half
<1>1. Period % Half \in 0 .. Half - 1 /\ q \in 0 .. Half - 1
  <2>1. Period \in 0 .. Full /\ Half \in Nat \ {0} /\ Full = Half * Half - 1
    BY FullFacts DEF Full
  <2>2. q \in Int /\ Period % Half \in 0 .. Half - 1
        /\ Period = Half * q + (Period % Half)
    BY <2>1, MDivided
  <2>. HIDE DEF q
  <2>3. q >= 0
    <3>1. CASE q <= -1
      <4>1. Half * q <= -Half
        BY <2>1, <3>1, <2>2
      <4>. QED BY <2>1, <2>2, <4>1
    <3>. QED BY <2>2, <3>1
  <2>4. q <= Half - 1
    <3>1. CASE q >= Half
      <4>1. Half * q >= Half * Half
        BY <2>1, <2>2, <3>1
      <4>. QED BY <2>1, <2>2, <4>1
    <3>. QED BY <2>1, <2>2, <3>1
  <2>. QED BY <2>1, <2>2, <2>3, <2>4
<1>2. CoreTypeOK
  <2>1. /\ period_l = Period % Half /\ period_h = q
        /\ internal_counter = Period /\ counter_snapshot = 0
        /\ owed = 0 /\ since = 0
    BY DEF TimerInit
  <2>2. /\ period_l \in 0 .. Half - 1 /\ period_h \in 0 .. Half - 1
        /\ internal_counter \in 0 .. Full
    BY <1>1, <2>1, FullFacts
  <2>3. counter_snapshot \in 0 .. Full /\ owed \in Int /\ since \in Nat
    BY <2>1, FullFacts
  <2>4. /\ counter_is_running \in BOOLEAN /\ force_reload \in BOOLEAN
        /\ timeout_occurred \in BOOLEAN /\ late \in BOOLEAN
    BY DEF TimerInit
  <2>. QED BY <2>2, <2>3, <2>4 DEF CoreTypeOK
<1>3. TimerTypeOK
  BY <1>2 DEF TimerInit, TimerTypeOK, TimestampPcs
<1>4. EachExpiryTicks
  BY DEF TimerInit, EachExpiryTicks
<1>5. owner = "timestamp" => TimestampInv
  BY DEF TimerInit, TimestampInv, StartedFresh, SnapshotKept, Starting,
         Started, Reads
<1>. QED BY <1>3, <1>4, <1>5 DEF TimerInv

LEMMA TimerStep == TimerInv /\ [TimerNext]_timerVars => TimerInv'
<1>. SUFFICES ASSUME TimerInv, [TimerNext]_timerVars PROVE TimerInv'
  OBVIOUS
<1>1. CASE UNCHANGED timerVars
  <2>1. UNCHANGED << core, owner, pc, lower, result, since, taken, owed, late >>
    BY <1>1 DEF timerVars, history
  <2>2. CoreTypeOK' /\ TimerTypeOK' /\ EachExpiryTicks'
    BY <2>1 DEF TimerInv, TimerTypeOK, CoreTypeOK, EachExpiryTicks, core
  <2>3. TimestampInv => TimestampInv'
    BY <2>1 DEF TimestampInv, StartedFresh, Counting, SnapshotKept, SnapOf, TimeOf,
                core
  <2>. QED BY <2>1, <2>2, <2>3 DEF TimerInv
<1>. QED BY <1>1, WaitInv, SysclkInv, StopInv, PeriodInv, StartInv, RestartInv,
            SnapshotInv, ReadLowInv, ReadHighInv DEF TimerNext, Driver

LEMMA TimerInvExact == TimerInv => TimerExact
<1>. SUFFICES ASSUME TimerInv PROVE TimerExact
  OBVIOUS
<1>1. TimestampExact
  BY DEF TimerInv, TimestampInv, SnapshotKept, TimestampExact, Reads, TimeOf
<1>. QED BY <1>1 DEF TimerInv, TimerExact

(* The two drivers' promises: alt_timestamp() returns the clocks since the *)
(* counter was started, both halves of one moment, and each expiry of the  *)
(* system clock is one interrupt unless its handler came a period late.    *)
THEOREM TimerIsExact == TimerSpec => []TimerExact
BY TimerStart, TimerStep, TimerInvExact, PTL DEF TimerSpec

----------------------------------------------------------------------------
(* HalTime, for every word, tick rate, time and sleep.                     *)

PerTick == ALT_US \div rate

TimeTypeOK ==
  /\ rate \in Nat /\ seen \in Nat /\ ticked \in Nat
  /\ alt_resettime \in [sec : Int, usec : Int]
  /\ given \in Times \cup {Unset}
  /\ at \in {"user", "set_sec", "set_usec", "sleep"}
  /\ asked \in Nat /\ spun \in Nat /\ big_loops \in Nat /\ us \in Int

(* What settimeofday() has left by the statement it is at.                 *)
DayInv ==
  /\ nticks = (seen + ticked) % TickWord
  /\ at \in {"set_sec", "set_usec"} => rate # 0 /\ given # Unset
  /\ given # Unset =>
       /\ rate # 0
       /\ exact <=> seen * PerTick < TickWord
       /\ at # "set_sec" => alt_resettime.sec = given.sec - (seen \div rate)
       /\ at \notin {"set_sec", "set_usec"} =>
            alt_resettime.usec = given.usec - (((seen * PerTick) % TickWord) % ALT_US)

(* What a sleep has turned by the big loops that are left.                 *)
LoopsDone == (asked \div Chunk) - big_loops

SleepInv ==
  /\ at = "sleep" =>
       LoopsDone \in Nat /\ us = asked - LoopsDone * Chunk /\ spun = LoopsDone * INT_MAX
  /\ at # "sleep" /\ asked # 0 =>
       /\ spun >= asked * PerUs
       /\ \/ spun < asked * PerUs + ((asked \div Chunk) + 1) * PerUs
          \/ asked >= Chunk /\ asked % Chunk = 0

TimeInv == TimeTypeOK /\ DayInv /\ SleepInv

(* The two clocks of the module do not disturb each other's conjuncts.     *)
LEMMA GivenTypes ==
  /\ \A t \in Times : t \in [sec : Nat, usec : 0 .. ALT_US - 1]
  /\ \A t \in Times : t # Unset
<1>1. \A t \in Times : t \in [sec : Nat, usec : 0 .. ALT_US - 1]
  BY TimeAssumption
<1>2. ASSUME NEW t \in Times PROVE t # Unset
  <2>1. t.sec \in Nat
    BY <1>1
  <2>2. Unset.sec = -1
    BY DEF Unset
  <2>. QED BY <2>1, <2>2
<1>. QED BY <1>1, <1>2

LEMMA DayTypes ==
  ASSUME TimeTypeOK, rate # 0
  PROVE  rate \in Nat \ {0} /\ PerTick \in Nat
<1>1. rate \in Nat \ {0} /\ ALT_US \in Nat
  BY TimeAssumption DEF TimeTypeOK
<1>2. ALT_US \div rate \in Int
  BY <1>1, MDivided
<1>. DEFINE k == ALT_US \div rate
            r == ALT_US % rate
<1>3. k \in Int /\ r \in 0 .. rate - 1 /\ ALT_US = rate * k + r
  BY <1>1, MDivided
<1>4. k >= 0
  <2>. HIDE DEF k, r
  <2>1. CASE k <= -1
    <3>1. rate * k <= -rate
      BY <1>1, <1>3, <2>1
    <3>. QED BY <1>1, <1>3, <3>1
  <2>. QED BY <1>3, <2>1
<1>. QED BY <1>1, <1>3, <1>4 DEF PerTick

(* A tick counts, whatever a call is at.                                   *)
LEMMA TickInv == ASSUME TimeInv, Tick PROVE TimeInv'
<1>1. /\ nticks' = (nticks + 1) % TickWord /\ ticked' = ticked + 1
      /\ UNCHANGED << rate, alt_resettime, at, seen, given, exact, sleepOnly >>
  BY DEF Tick
<1>2. TimeTypeOK'
  BY <1>1 DEF TimeInv, TimeTypeOK, sleepOnly
<1>3. nticks' = (seen' + ticked') % TickWord
  <2>1. TickWord \in Nat \ {0} /\ seen + ticked \in Int /\ 1 \in Int
    BY TimeAssumption DEF TimeInv, TimeTypeOK
  <2>2. nticks = (seen + ticked) % TickWord
    BY DEF TimeInv, DayInv
  <2>3. (nticks + 1) % TickWord = ((seen + ticked) + 1) % TickWord
    BY <2>1, <2>2, MAdd
  <2>4. (seen + ticked) + 1 = seen' + ticked'
    BY <1>1 DEF TimeInv, TimeTypeOK
  <2>. QED BY <1>1, <2>3, <2>4
<1>4. DayInv'
  <2>1. PerTick' = PerTick
    BY <1>1 DEF PerTick
  <2>. QED BY <1>1, <1>3, <2>1 DEF TimeInv, DayInv
<1>5. SleepInv'
  BY <1>1 DEF TimeInv, SleepInv, LoopsDone, Chunk, sleepOnly
<1>. QED BY <1>2, <1>4, <1>5 DEF TimeInv

(* A time is set; the two fields are written one after the other.          *)
LEMMA SetInv == ASSUME TimeInv, NEW t \in Times, Set(t) PROVE TimeInv'
<1>1. /\ at = "user" /\ rate # 0
      /\ at' = "set_sec" /\ seen' = nticks /\ given' = t /\ ticked' = 0
      /\ exact' = (nticks * PerTick < TickWord)
      /\ UNCHANGED << rate, nticks, alt_resettime, sleepOnly >>
  BY DEF Set, PerTick
<1>2. TickWord \in Nat \ {0} /\ seen + ticked \in Int
      /\ nticks = (seen + ticked) % TickWord
  BY TimeAssumption DEF TimeInv, TimeTypeOK, DayInv
<1>3. nticks \in 0 .. TickWord - 1
  BY <1>2, MRange
<1>4. TimeTypeOK'
  BY <1>1, <1>2, <1>3 DEF TimeInv, TimeTypeOK, sleepOnly
<1>5. nticks' = (seen' + ticked') % TickWord
  <2>1. nticks % TickWord = nticks
    BY <1>2, <1>3, MSame
  <2>2. seen' + ticked' = nticks
    BY <1>1, <1>3
  <2>. QED BY <1>1, <2>1, <2>2
<1>6. DayInv'
  <2>1. PerTick' = PerTick
    BY <1>1 DEF PerTick
  <2>. QED BY <1>1, <1>5, <2>1, GivenTypes DEF DayInv
<1>7. SleepInv'
  BY <1>1 DEF TimeInv, SleepInv, LoopsDone, Chunk, sleepOnly
<1>. QED BY <1>4, <1>6, <1>7 DEF TimeInv

LEMMA SetFieldInv == ASSUME TimeInv, SetSec \/ SetUsec PROVE TimeInv'
<1>1. /\ at \in {"set_sec", "set_usec"} /\ at' \in {"set_usec", "user"}
      /\ UNCHANGED << rate, nticks, seen, given, ticked, exact, sleepOnly >>
  BY DEF SetSec, SetUsec
<1>2. /\ rate # 0 /\ given # Unset
      /\ exact <=> seen * PerTick < TickWord
  BY <1>1 DEF TimeInv, DayInv
<1>3. given \in [sec : Nat, usec : 0 .. ALT_US - 1] /\ seen \in Nat
      /\ rate \in Nat \ {0} /\ PerTick \in Nat
      /\ ALT_US \in Nat \ {0} /\ TickWord \in Nat \ {0}
      /\ alt_resettime \in [sec : Int, usec : Int]
  BY <1>2, GivenTypes, DayTypes, TimeAssumption DEF TimeInv, TimeTypeOK
<1>. DEFINE s == given.sec - (seen \div rate)
            u == given.usec - (((seen * PerTick) % TickWord) % ALT_US)
<1>4. s \in Int /\ u \in Int
  <2>1. seen \div rate \in Int /\ seen * PerTick \in Int
    BY <1>3, MDivided
  <2>2. (seen * PerTick) % TickWord \in Int
    BY <1>3, <2>1, MRange
  <2>3. ((seen * PerTick) % TickWord) % ALT_US \in Int
    BY <1>3, <2>2, MRange
  <2>4. given.sec \in Int /\ given.usec \in Int
    BY <1>3
  <2>. QED BY <2>1, <2>3, <2>4
<1>5. PerTick' = PerTick
  BY <1>1 DEF PerTick
<1>6. CASE SetSec
  <2>1. /\ at = "set_sec" /\ at' = "set_usec"
        /\ alt_resettime' = [alt_resettime EXCEPT !.sec = s]
    BY <1>6 DEF SetSec
  <2>2. alt_resettime' \in [sec : Int, usec : Int] /\ alt_resettime'.sec = s
    <3>. HIDE DEF s
    <3>. QED BY <1>3, <1>4, <2>1
  <2>3. TimeTypeOK'
    BY <1>1, <2>2 DEF TimeInv, TimeTypeOK, sleepOnly
  <2>4. DayInv'
    <3>1. alt_resettime'.sec = given'.sec - (seen' \div rate')
      BY <1>1, <2>2
    <3>. QED BY <1>1, <1>2, <1>5, <2>1, <3>1 DEF TimeInv, DayInv
  <2>5. SleepInv'
    BY <1>1, <2>1 DEF TimeInv, SleepInv, LoopsDone, Chunk, sleepOnly
  <2>. QED BY <2>3, <2>4, <2>5 DEF TimeInv
<1>7. CASE SetUsec
  <2>1. /\ at = "set_usec" /\ at' = "user"
        /\ alt_resettime' = [alt_resettime EXCEPT !.usec = u]
    BY <1>7 DEF SetUsec, PerTick
  <2>2. alt_resettime' \in [sec : Int, usec : Int]
        /\ alt_resettime'.sec = alt_resettime.sec /\ alt_resettime'.usec = u
    <3>. HIDE DEF u
    <3>. QED BY <1>3, <1>4, <2>1
  <2>3. TimeTypeOK'
    BY <1>1, <2>1, <2>2 DEF TimeInv, TimeTypeOK, sleepOnly
  <2>4. DayInv'
    <3>1. alt_resettime.sec = s
      BY <1>2, <2>1 DEF TimeInv, DayInv
    <3>2. alt_resettime'.sec = given'.sec - (seen' \div rate')
          /\ alt_resettime'.usec =
               given'.usec - (((seen' * PerTick') % TickWord) % ALT_US)
      BY <1>1, <1>5, <2>2, <3>1
    <3>. QED BY <1>1, <1>2, <1>5, <2>1, <3>2 DEF TimeInv, DayInv
  <2>5. SleepInv'
    BY <1>1, <2>1 DEF TimeInv, SleepInv, LoopsDone, Chunk, sleepOnly
  <2>. QED BY <2>3, <2>4, <2>5 DEF TimeInv
<1>. QED BY <1>6, <1>7

(* The turns of INT_MAX and a microsecond's worth.                         *)
LEMMA ChunkFacts ==
  /\ PerUs \in Nat \ {0} /\ INT_MAX \in Nat \ {0} /\ Chunk \in Nat \ {0}
  /\ PerUs * Chunk <= INT_MAX /\ INT_MAX < PerUs * Chunk + PerUs
<1>1. PerUs \in Nat \ {0} /\ INT_MAX \in Nat \ {0} /\ PerUs <= INT_MAX
  BY TimeAssumption
<1>. DEFINE q == INT_MAX \div PerUs
            r == INT_MAX % PerUs
<1>2. q \in Int /\ r \in 0 .. PerUs - 1 /\ INT_MAX = PerUs * q + r
  BY <1>1, MDivided
<1>3. Chunk = q
  BY DEF Chunk
<1>. HIDE DEF q, r
<1>4. q >= 1
  <2>1. CASE q <= 0
    <3>1. PerUs * q <= 0
      BY <1>1, <1>2, <2>1
    <3>. QED BY <1>1, <1>2, <3>1
  <2>. QED BY <1>2, <2>1
<1>5. PerUs * q \in Int
  BY <1>1, <1>2
<1>. QED BY <1>1, <1>2, <1>3, <1>4, <1>5

(* A sleep of n microseconds is n / Chunk big loops and a rest.            *)
LEMMA SleepParts ==
  ASSUME NEW n \in Nat
  PROVE  /\ n \div Chunk \in Nat /\ n % Chunk \in 0 .. Chunk - 1
         /\ n = Chunk * (n \div Chunk) + (n % Chunk)
         /\ n < Chunk => n \div Chunk = 0
<1>. DEFINE q == n \div Chunk
            r == n % Chunk
<1>1. Chunk \in Nat \ {0}
  BY ChunkFacts
<1>2. q \in Int /\ r \in 0 .. Chunk - 1 /\ n = Chunk * q + r
  BY <1>1, MDivided
<1>. HIDE DEF q, r
<1>3. q >= 0
  <2>1. CASE q <= -1
    <3>1. Chunk * q <= -Chunk
      BY <1>1, <1>2, <2>1
    <3>. QED BY <1>1, <1>2, <3>1
  <2>. QED BY <1>2, <2>1
<1>4. n < Chunk => q = 0
  <2>. SUFFICES ASSUME n < Chunk, q >= 1 PROVE FALSE
    BY <1>2, <1>3
  <2>1. Chunk * q >= Chunk
    BY <1>1, <1>2
  <2>. QED BY <1>1, <1>2, <2>1
<1>. QED BY <1>2, <1>3, <1>4 DEF q, r

LEMMA ClockOnly ==
  ASSUME TimeInv, UNCHANGED clockOnly, at \notin {"set_sec", "set_usec"},
         at' \in {"user", "sleep"}
  PROVE  DayInv'
BY DEF TimeInv, DayInv, clockOnly, PerTick

LEMMA UsleepInv == ASSUME TimeInv, NEW n \in Sleeps, usleep(n) PROVE TimeInv'
<1>1. /\ at = "user" /\ at' = "sleep" /\ us' = n /\ asked' = n /\ spun' = 0
      /\ big_loops' = n \div Chunk /\ UNCHANGED clockOnly
  BY DEF usleep
<1>2. n \in Nat /\ n \div Chunk \in Nat
  BY TimeAssumption, SleepParts
<1>3. TimeTypeOK'
  BY <1>1, <1>2 DEF TimeInv, TimeTypeOK, clockOnly
<1>4. SleepInv'
  <2>1. LoopsDone' = 0
    <3>1. LoopsDone' = (n \div Chunk) - (n \div Chunk)
      BY <1>1 DEF LoopsDone, Chunk
    <3>. QED BY <1>2, <3>1
  <2>2. 0 * Chunk' = 0 /\ 0 * INT_MAX = 0 /\ n - 0 = n
    BY <1>2, ChunkFacts DEF Chunk
  <2>3. LoopsDone' \in Nat /\ us' = asked' - LoopsDone' * Chunk'
        /\ spun' = LoopsDone' * INT_MAX
    BY <1>1, <2>1, <2>2
  <2>. QED BY <1>1, <2>3 DEF SleepInv
<1>. QED BY <1>1, <1>3, <1>4, ClockOnly DEF TimeInv

LEMMA BigLoopInv == ASSUME TimeInv, BigLoop PROVE TimeInv'
<1>1. /\ at = "sleep" /\ big_loops > 0
      /\ us' = us - Chunk /\ big_loops' = big_loops - 1
      /\ spun' = spun + INT_MAX /\ UNCHANGED << at, clockOnly, asked >>
  BY DEF BigLoop
<1>2. Chunk \in Nat \ {0} /\ INT_MAX \in Nat \ {0} /\ Chunk' = Chunk
  BY ChunkFacts DEF Chunk
<1>3. asked \in Nat /\ spun \in Nat /\ big_loops \in Nat /\ us \in Int
  BY DEF TimeInv, TimeTypeOK
<1>4. TimeTypeOK'
  BY <1>1, <1>2, <1>3 DEF TimeInv, TimeTypeOK, clockOnly
<1>5. LoopsDone \in Nat /\ us = asked - LoopsDone * Chunk /\ spun = LoopsDone * INT_MAX
  BY <1>1 DEF TimeInv, SleepInv
<1>6. LoopsDone' = LoopsDone + 1
  <2>1. asked \div Chunk \in Nat
    BY <1>3, SleepParts
  <2>. QED BY <1>1, <1>2, <1>3, <2>1 DEF LoopsDone
<1>7. SleepInv'
  <2>. DEFINE d == LoopsDone
  <2>1. d \in Nat /\ us = asked - d * Chunk /\ spun = d * INT_MAX
    BY <1>5
  <2>. HIDE DEF d
  <2>2. (d + 1) * Chunk = d * Chunk + Chunk /\ (d + 1) * INT_MAX = d * INT_MAX + INT_MAX
        /\ d * Chunk \in Int
    BY <1>2, <2>1
  <2>3. us' = asked' - (d + 1) * Chunk /\ spun' = (d + 1) * INT_MAX
    BY <1>1, <1>2, <1>3, <2>1, <2>2
  <2>4. LoopsDone' = d + 1 /\ d + 1 \in Nat
    BY <1>6, <2>1 DEF d
  <2>. QED BY <1>1, <1>2, <2>3, <2>4 DEF SleepInv
<1>. QED BY <1>1, <1>4, <1>7, ClockOnly DEF TimeInv

LEMMA RestInv == ASSUME TimeInv, Rest PROVE TimeInv'
<1>1. /\ at = "sleep" /\ big_loops = 0 /\ at' = "user"
      /\ spun' = spun + (IF asked >= Chunk THEN UntilZero(us * PerUs)
                         ELSE WhilePositive(us * PerUs))
      /\ UNCHANGED << clockOnly, us, big_loops, asked >>
  BY DEF Rest
<1>2. asked \in Nat /\ spun \in Nat /\ us \in Int /\ TickWord \in Nat \ {0}
  BY TimeAssumption DEF TimeInv, TimeTypeOK
<1>. DEFINE C == Chunk
            P == PerUs
            q == asked \div Chunk
            r == asked % Chunk
<1>3. /\ C \in Nat \ {0} /\ P \in Nat \ {0} /\ INT_MAX \in Nat
      /\ P * C <= INT_MAX /\ INT_MAX < P * C + P
  BY ChunkFacts
<1>4. /\ q \in Nat /\ r \in 0 .. C - 1 /\ asked = C * q + r
      /\ asked < C => q = 0
  BY <1>2, SleepParts
<1>5. spun = q * INT_MAX /\ us = r
  <2>1. LoopsDone = q
    BY <1>1, <1>4 DEF LoopsDone
  <2>2. us = asked - q * C /\ spun = q * INT_MAX
    BY <1>1, <2>1 DEF TimeInv, SleepInv
  <2>. HIDE DEF C, q, r
  <2>3. C * q = q * C /\ q * C \in Int
    BY <1>3, <1>4
  <2>. QED BY <1>3, <1>4, <2>2, <2>3
<1>6. Chunk' = C /\ asked' = asked /\ (asked \div Chunk)' = q /\ (asked % Chunk)' = r
  BY <1>1 DEF Chunk
<1>7. spun' = spun + (IF asked >= C THEN UntilZero(r * P) ELSE WhilePositive(r * P))
  BY <1>1, <1>5
<1>. HIDE DEF C, P, q, r
<1>8. r * P \in Nat /\ (r = 0 => r * P = 0) /\ (r > 0 => r * P > 0)
  BY <1>3, <1>4
<1>9. /\ asked * P = q * (P * C) + r * P
      /\ q * (P * C) <= q * INT_MAX
      /\ q * INT_MAX <= q * (P * C) + q * P
      /\ (q + 1) * P = q * P + P
      /\ q * (P * C) \in Nat /\ q * P \in Nat /\ q * INT_MAX \in Nat
  <2>1. asked * P = (C * q) * P + r * P
    BY <1>3, <1>4
  <2>2. (C * q) * P = q * (P * C)
    BY <1>3, <1>4
  <2>. DEFINE pC == P * C
              d == INT_MAX - pC
  <2>3. pC \in Nat /\ d \in Nat /\ INT_MAX = pC + d /\ d <= P
    BY <1>3
  <2>. HIDE DEF pC, d
  <2>4. q * INT_MAX = q * pC + q * d
    BY <1>4, <2>3
  <2>5. q * d \in Nat /\ q * pC \in Nat /\ q * P \in Nat
    BY <1>3, <1>4, <2>3
  <2>6. q * d <= q * P
    <3>. DEFINE e == P - d
    <3>1. e \in Nat /\ P = d + e
      BY <1>3, <2>3
    <3>. HIDE DEF e
    <3>2. q * P = q * d + q * e /\ q * e \in Nat
      BY <1>4, <2>3, <3>1
    <3>. QED BY <2>5, <3>2
  <2>7. (q + 1) * P = q * P + P
    BY <1>3, <1>4
  <2>8. q * INT_MAX \in Nat
    BY <2>4, <2>5
  <2>. QED BY <2>1, <2>2, <2>4, <2>5, <2>6, <2>7, <2>8 DEF pC
<1>10. spun' \in Nat /\
       (asked # 0 => /\ spun' >= asked * P
                     /\ \/ spun' < asked * P + (q + 1) * P
                        \/ asked >= C /\ r = 0)
  <2>1. CASE asked >= C /\ r = 0
    <3>1. spun' = q * INT_MAX + TickWord
      BY <1>5, <1>7, <1>8, <2>1 DEF UntilZero
    <3>. QED BY <1>2, <1>8, <1>9, <2>1, <3>1
  <2>2. CASE asked >= C /\ r > 0
    <3>1. spun' = q * INT_MAX + r * P
      BY <1>5, <1>7, <1>8, <2>2 DEF UntilZero
    <3>. QED BY <1>3, <1>8, <1>9, <3>1
  <2>3. CASE asked < C /\ asked # 0
    <3>1. q = 0 /\ r = asked
      BY <1>3, <1>4, <2>3
    <3>2. r > 0
      BY <1>2, <2>3, <3>1
    <3>3. spun' = q * INT_MAX + r * P
      BY <1>2, <1>3, <1>5, <1>7, <1>8, <2>3, <3>2 DEF WhilePositive
    <3>. QED BY <1>3, <1>8, <1>9, <3>3
  <2>4. CASE asked < C /\ asked = 0
    <3>1. spun' \in Nat
      BY <1>2, <1>3, <1>7, <1>8, <2>4 DEF WhilePositive
    <3>. QED BY <2>4, <3>1
  <2>. QED BY <1>2, <1>3, <1>4, <2>1, <2>2, <2>3, <2>4
<1>11. SleepInv'
  <2>1. at' # "sleep"
    BY <1>1
  <2>. QED BY <1>6, <1>10, <2>1 DEF SleepInv, C, P, q, r
<1>12. TimeTypeOK'
  BY <1>1, <1>10 DEF TimeInv, TimeTypeOK, clockOnly
<1>. QED BY <1>1, <1>11, <1>12, ClockOnly DEF TimeInv

(* Ticks of a rate that divides a second, as seconds and microseconds.     *)
LEMMA TicksAsTime ==
  ASSUME NEW n \in Nat, TimeTypeOK, rate # 0, ALT_US % rate = 0
  PROVE  /\ n \div rate \in Int /\ (n * PerTick) % ALT_US \in Nat
         /\ n * PerTick = ALT_US * (n \div rate) + ((n * PerTick) % ALT_US)
<1>. DEFINE k == PerTick
            q == n \div rate
            r == n % rate
<1>1. rate \in Nat \ {0} /\ k \in Nat /\ ALT_US \in Nat \ {0}
  BY DayTypes, TimeAssumption
<1>2. ALT_US = rate * k
  <2>1. ALT_US = rate * k + (ALT_US % rate)
    BY <1>1, MDivided DEF PerTick
  <2>2. rate * k \in Int
    BY <1>1
  <2>. QED BY <2>1, <2>2
<1>3. q \in Int /\ r \in 0 .. rate - 1 /\ n = rate * q + r
  BY <1>1, MDivided
<1>. HIDE DEF k, q, r
<1>4. k >= 1
  <2>1. CASE k = 0
    <3>1. rate * k = 0
      BY <1>1, <2>1
    <3>. QED BY <1>1, <1>2, <3>1
  <2>. QED BY <1>1, <2>1
<1>5. n * k = ALT_US * q + r * k
  <2>1. n * k = (rate * q) * k + r * k
    BY <1>1, <1>3
  <2>2. (rate * q) * k = (rate * k) * q
    BY <1>1, <1>3
  <2>. QED BY <1>2, <2>1, <2>2
<1>6. r * k \in 0 .. ALT_US - 1
  <2>. DEFINE d == rate - 1 - r
  <2>1. d \in Nat /\ rate = (r + d) + 1
    BY <1>1, <1>3
  <2>. HIDE DEF d
  <2>2. rate * k = r * k + d * k + k /\ r * k \in Nat /\ d * k \in Nat
    BY <1>1, <1>3, <2>1
  <2>. QED BY <1>1, <1>2, <1>4, <2>2
<1>7. n * k \in Int
  BY <1>1
<1>8. (n * k) % ALT_US = r * k
  <2>. DEFINE x == n * k
              s == r * k
  <2>1. x \in Int /\ s \in 0 .. ALT_US - 1 /\ x = ALT_US * q + s
    BY <1>5, <1>6, <1>7
  <2>. HIDE DEF x, s
  <2>2. x % ALT_US = s
    BY <1>1, <1>3, <2>1, MQuotient
  <2>. QED BY <2>2 DEF x, s
<1>. QED BY <1>3, <1>5, <1>6, <1>8 DEF k, q

(* gettimeofday() adds to the time last set what the ticks since make.     *)
LEMMA DayKept == ASSUME TimeInv PROVE TimeKept
<1>. SUFFICES ASSUME at \notin {"set_sec", "set_usec"}, rate # 0, given # Unset,
                     exact, ALT_US % rate = 0, seen + ticked < TickWord
              PROVE  LET total == given.usec + ticked * PerTick IN
                     /\ gettimeofday = [sec |-> given.sec + (total \div ALT_US),
                                        usec |-> total % ALT_US]
                     /\ alt_times = seen + ticked
  BY DEF TimeKept, PerTick
<1>. DEFINE n == seen + ticked
            total == given.usec + ticked * PerTick
            U == ALT_US
<1>1. /\ seen \in Nat /\ ticked \in Nat /\ n \in 0 .. TickWord - 1
      /\ TickWord \in Nat \ {0} /\ U \in Nat \ {0}
      /\ rate \in Nat \ {0} /\ PerTick \in Nat
      /\ given \in [sec : Nat, usec : 0 .. U - 1]
  BY DayTypes, GivenTypes, TimeAssumption DEF TimeInv, TimeTypeOK
<1>2. nticks = n
  <2>1. nticks = n % TickWord
    BY DEF TimeInv, DayInv
  <2>. HIDE DEF n
  <2>. QED BY <1>1, <2>1, MSame
<1>3. alt_times = n
  BY <1>2 DEF alt_times
<1>. DEFINE sq == seen \div rate
            sr == (seen * PerTick) % U
            nq == n \div rate
            nr == (n * PerTick) % U
<1>4. /\ sq \in Int /\ sr \in Nat /\ seen * PerTick = U * sq + sr
      /\ nq \in Int /\ nr \in Nat /\ n * PerTick = U * nq + nr
  <2>1. n \in Nat /\ TimeTypeOK
    BY <1>1 DEF TimeInv
  <2>. HIDE DEF n
  <2>. QED BY <1>1, <2>1, TicksAsTime
<1>5. alt_resettime.sec = given.sec - sq /\ alt_resettime.usec = given.usec - sr
  <2>1. seen * PerTick \in 0 .. TickWord - 1
    <3>1. seen * PerTick < TickWord
      BY DEF TimeInv, DayInv
    <3>2. seen * PerTick \in Nat
      BY <1>1
    <3>. QED BY <1>1, <3>1, <3>2
  <2>2. (seen * PerTick) % TickWord = seen * PerTick
    <3>. DEFINE x == seen * PerTick
    <3>1. x \in 0 .. TickWord - 1
      BY <2>1
    <3>. HIDE DEF x
    <3>2. x % TickWord = x
      BY <1>1, <3>1, MSame
    <3>. QED BY <3>2 DEF x
  <2>. QED BY <2>2 DEF TimeInv, DayInv
<1>. DEFINE t == Elapsed(n)
<1>6. t.sec = given.sec - sq + nq /\ t.usec = given.usec - sr + nr
  BY <1>5 DEF Elapsed, PerTick
<1>7. t.sec * U + t.usec = U * given.sec + total /\ total \in Nat
      /\ U * given.sec + total \in Nat
  <2>. DEFINE g == given.sec
              v == given.usec
              a == ticked * PerTick
              b == seen * PerTick
  <2>1. g \in Nat /\ v \in Nat /\ a \in Nat /\ b \in Nat /\ U * g \in Nat
    BY <1>1
  <2>2. n * PerTick = b + a
    BY <1>1
  <2>3. b = U * sq + sr /\ b + a = U * nq + nr /\ total = v + a
    BY <1>4, <2>2
  <2>4. t.sec = g - sq + nq /\ t.usec = v - sr + nr
    BY <1>6
  <2>5. (g - sq + nq) * U = U * g - U * sq + U * nq
        /\ U * sq \in Int /\ U * nq \in Int
    <3>. HIDE DEF g, sq, nq, U
    <3>. QED BY <1>1, <1>4, <2>1
  <2>6. t.sec * U = U * g - U * sq + U * nq
    BY <2>4, <2>5
  <2>. DEFINE x == t.sec * U
              ug == U * g
              us1 == U * sq
              un == U * nq
  <2>7. /\ x = ug - us1 + un /\ ug \in Nat /\ us1 \in Int /\ un \in Int
        /\ b = us1 + sr /\ b + a = un + nr
    BY <2>1, <2>3, <2>5, <2>6
  <2>. HIDE DEF g, v, a, b, sq, sr, nq, nr, t, U, total, x, ug, us1, un
  <2>8. x + t.usec = ug + total /\ total \in Nat /\ ug + total \in Nat
    BY <1>4, <2>1, <2>3, <2>4, <2>7
  <2>. QED BY <2>8 DEF x, ug, g
<1>. DEFINE q == total \div U
            r == total % U
<1>8. q \in Int /\ r \in 0 .. U - 1 /\ total = U * q + r
  <2>1. total \in Int /\ U \in Nat \ {0}
    BY <1>1, <1>7
  <2>. HIDE DEF total, U
  <2>. QED BY <2>1, MDivided
<1>9. (t.sec * U + t.usec) \div U = given.sec + q /\ (t.sec * U + t.usec) % U = r
  <2>. DEFINE x == t.sec * U + t.usec
              p == given.sec + q
  <2>1. x \in Int /\ p \in Int /\ x = U * p + r
    <3>1. x = U * given.sec + (U * q + r) /\ given.sec \in Int
      BY <1>1, <1>7, <1>8
    <3>. DEFINE g == given.sec
    <3>2. g \in Int /\ x = U * g + (U * q + r) /\ p = g + q
      BY <3>1
    <3>. HIDE DEF g, q, r, x, p, U
    <3>3. U * (g + q) = U * g + U * q /\ U * g \in Int /\ U * q \in Int
      BY <1>1, <1>8, <3>2
    <3>. QED BY <1>8, <3>2, <3>3
  <2>2. U \in Nat \ {0} /\ r \in 0 .. U - 1
    BY <1>1, <1>8
  <2>. HIDE DEF x, p, r, U
  <2>3. x \div U = p /\ x % U = r
    BY <2>1, <2>2, MQuotient
  <2>. QED BY <2>3 DEF x, p
<1>10. Normalised(t) = [sec |-> given.sec + q, usec |-> r]
  <2>1. ~(t.sec * U + t.usec < 0)
    BY <1>7
  <2>. QED BY <1>9, <2>1 DEF Normalised
<1>11. gettimeofday = Normalised(t)
  BY <1>2 DEF gettimeofday
<1>. QED BY <1>3, <1>10, <1>11

LEMMA TimeStart == TimeInit => TimeInv
<1>. SUFFICES ASSUME TimeInit PROVE TimeInv
  OBVIOUS
<1>1. TimeTypeOK
  BY TimeAssumption DEF TimeInit, TimeTypeOK
<1>2. nticks = (seen + ticked) % TickWord
  <2>1. 0 \in 0 .. TickWord - 1 /\ TickWord \in Nat \ {0}
    BY TimeAssumption
  <2>2. 0 % TickWord = 0
    BY <2>1, MSame
  <2>. QED BY <2>2 DEF TimeInit
<1>3. DayInv
  BY <1>2 DEF TimeInit, DayInv
<1>4. SleepInv
  BY DEF TimeInit, SleepInv
<1>. QED BY <1>1, <1>3, <1>4 DEF TimeInv

LEMMA TimeStep == TimeInv /\ [ClockNext \/ SleepNext]_timeVars => TimeInv'
<1>. SUFFICES ASSUME TimeInv, [ClockNext \/ SleepNext]_timeVars PROVE TimeInv'
  OBVIOUS
<1>1. CASE UNCHANGED timeVars
  BY <1>1 DEF timeVars, TimeInv, TimeTypeOK, DayInv, SleepInv, LoopsDone, Chunk,
              PerTick
<1>. QED BY <1>1, TickInv, SetInv, SetFieldInv, UsleepInv, BigLoopInv, RestInv
     DEF ClockNext, SleepNext

LEMMA TimeInvExact == TimeInv => TimeExact
BY DayKept DEF TimeInv, SleepInv, TimeExact, SleepsAsLong

(* gettimeofday() keeps the time that was set, and usleep() sleeps as long *)
(* as it was asked to.                                                     *)
THEOREM TimeIsExact == TimeSpec => []TimeExact
BY TimeStart, TimeStep, TimeInvExact, PTL DEF TimeSpec

----------------------------------------------------------------------------
(* HalProfile: the sampler, and the heap under the profiler's own calls.   *)

(* While no handler has found the flag between the program's test and its  *)
(* clearing, one level at most is between its own test and the start of    *)
(* the alarm, and the flag stays cleared from there on.                    *)
Between(l) == step[l] \in {"clear", "init"}

OneStarts ==
  /\ ~(Between("main") /\ Between("irq"))
  /\ \A l \in Levels : /\ step[l] = "clear" => pcsample_need_init
                       /\ step[l] = "init" => ~pcsample_need_init
  /\ alarms \in {0, 1}
  /\ alarms = 1 => ~pcsample_need_init /\ \A l \in Levels : ~Between(l)

Steps == {"idle", "function", "arc", "load", "store", "record", "clear", "init",
          "link_entry", "link_arc"}

SamplerInv ==
  /\ step \in [Levels -> Steps] /\ alarms \in Nat
  /\ raced \in BOOLEAN /\ pcsample_need_init \in BOOLEAN /\ spilled \in BOOLEAN
  /\ textsize \in Nat
  /\ spilled => textsize % PCSAMPLE_BYTES_PER_BUCKET # 0
  /\ ~raced => OneStarts

(* A step of a call that is not about the sampler.                         *)
LEMMA OtherStep ==
  ASSUME SamplerInv, NEW l \in Levels, NEW now, NEW next \in Steps \ {"clear", "init"},
         Goes(l, now, next), UNCHANGED << samplerVars, textsize, spilled >>
  PROVE  SamplerInv'
<1>1. step' \in [Levels -> Steps]
      /\ \A m \in Levels : step'[m] = step[m] \/ step'[m] \notin {"clear", "init"}
  BY DEF Goes, SamplerInv
<1>2. ~raced' => OneStarts'
  BY <1>1 DEF SamplerInv, OneStarts, Between, samplerVars, Levels
<1>. QED BY <1>1, <1>2 DEF SamplerInv, samplerVars

LEMMA TestInitKeeps ==
  ASSUME SamplerInv, NEW l \in Levels, TestInit(l)
  PROVE  SamplerInv'
<1>. DEFINE next == IF pcsample_need_init THEN "clear" ELSE "link_entry"
<1>1. /\ step[l] = "record" /\ Runs(l) /\ step' = [step EXCEPT ![l] = next]
      /\ raced' = (raced \/ (pcsample_need_init /\ l = "irq" /\ step["main"] = "clear"))
      /\ UNCHANGED << pcsample_need_init, alarms, textsize, spilled >>
  BY DEF TestInit, Goes
<1>2. next \in Steps
  BY DEF Steps
<1>3. step' \in [Levels -> Steps] /\ step'[l] = next
      /\ \A m \in Levels : m # l => step'[m] = step[m]
  <2>. HIDE DEF next
  <2>. QED BY <1>1, <1>2 DEF SamplerInv
<1>4. raced' \in BOOLEAN /\ (raced => raced')
  BY <1>1
<1>5. ASSUME ~raced' PROVE OneStarts'
  <2>1. OneStarts
    BY <1>4, <1>5 DEF SamplerInv
  <2>2. CASE ~pcsample_need_init
    <3>1. step'[l] = "link_entry"
      BY <1>3, <2>2
    <3>. QED BY <1>1, <1>3, <2>1, <2>2, <3>1 DEF OneStarts, Between, Levels
  <2>3. CASE pcsample_need_init
    <3>1. step'[l] = "clear" /\ alarms = 0
      BY <1>3, <2>1, <2>3 DEF OneStarts
    <3>2. \A m \in Levels : m # l => ~Between(m)
      <4>1. CASE l = "irq"
        <5>1. step["main"] # "clear"
          BY <1>1, <1>5, <2>3, <4>1
        <5>2. step["main"] # "init"
          BY <2>1, <2>3 DEF OneStarts, Levels
        <5>. QED BY <4>1, <5>1, <5>2 DEF Levels, Between
      <4>2. CASE l = "main"
        <5>1. step["irq"] = "idle"
          BY <1>1, <4>2 DEF Runs
        <5>. QED BY <4>2, <5>1 DEF Levels, Between
      <4>. QED BY <4>1, <4>2 DEF Levels
    <3>. QED BY <1>1, <1>3, <2>1, <2>3, <3>1, <3>2 DEF OneStarts, Between, Levels
  <2>. QED BY <2>2, <2>3
<1>. QED BY <1>1, <1>3, <1>4, <1>5 DEF SamplerInv

LEMMA ClearInitKeeps ==
  ASSUME SamplerInv, NEW l \in Levels, ClearInit(l)
  PROVE  SamplerInv'
<1>1. /\ step[l] = "clear" /\ step' = [step EXCEPT ![l] = "init"]
      /\ ~pcsample_need_init' /\ pcsample_need_init' \in BOOLEAN
      /\ UNCHANGED << raced, alarms, textsize, spilled >>
  BY DEF ClearInit, Goes
<1>2. step' \in [Levels -> Steps] /\ step'[l] = "init"
      /\ \A m \in Levels : m # l => step'[m] = step[m]
  BY <1>1 DEF SamplerInv, Steps
<1>3. ASSUME ~raced' PROVE OneStarts'
  BY <1>1, <1>2, <1>3 DEF SamplerInv, OneStarts, Between, Levels
<1>. QED BY <1>1, <1>2, <1>3 DEF SamplerInv

LEMMA SamplerInitKeeps ==
  ASSUME SamplerInv, NEW l \in Levels, nios2_pcsample_init(l)
  PROVE  SamplerInv'
<1>1. /\ step[l] = "init" /\ step' = [step EXCEPT ![l] = "link_entry"]
      /\ \/ alarms' = alarms + 1 /\ ~pcsample_need_init'
         \/ alarms' = alarms /\ pcsample_need_init'
      /\ pcsample_need_init' \in BOOLEAN
      /\ UNCHANGED << raced, textsize, spilled >>
  BY DEF nios2_pcsample_init, Goes
<1>2. step' \in [Levels -> Steps] /\ step'[l] = "link_entry"
      /\ \A m \in Levels : m # l => step'[m] = step[m]
  BY <1>1 DEF SamplerInv, Steps
<1>3. alarms' \in Nat
  BY <1>1 DEF SamplerInv
<1>4. ASSUME ~raced' PROVE OneStarts'
  <2>1. OneStarts
    BY <1>1, <1>4 DEF SamplerInv
  <2>2. alarms = 0 /\ \A m \in Levels : ~Between(m)'
    BY <1>1, <1>2, <2>1 DEF OneStarts, Between, Levels
  <2>3. alarms' \in {0, 1} /\ (alarms' = 1 => ~pcsample_need_init')
    BY <1>1, <2>2
  <2>. QED BY <2>2, <2>3 DEF OneStarts, Between, Levels
<1>. QED BY <1>1, <1>2, <1>3, <1>4 DEF SamplerInv

(* A sample is outside the buffer only where the text ends in a part of a  *)
(* bucket.                                                                 *)
LEMMA SampleKeeps == ASSUME SamplerInv, nios2_pcsample PROVE SamplerInv'
<1>. DEFINE B == PCSAMPLE_BYTES_PER_BUCKET
<1>1. PICK counter \in 0 .. textsize - 1 :
        spilled' = (spilled \/ counter \div B >= textsize \div B)
  BY DEF nios2_pcsample
<1>2. UNCHANGED << step, pcsample_need_init, alarms, raced, textsize >>
  BY DEF nios2_pcsample, callVars, samplerVars
<1>3. spilled' \in BOOLEAN
  BY <1>1
<1>4. ASSUME counter \div B >= textsize \div B PROVE textsize % B # 0
  <2>. DEFINE p == counter \div B
              r == counter % B
              q == textsize \div B
  <2>1. B \in Nat \ {0} /\ textsize \in Nat /\ counter \in Nat /\ counter < textsize
    BY ProfileAssumption DEF SamplerInv
  <2>2. p \in Int /\ r \in 0 .. B - 1 /\ counter = B * p + r
    BY <2>1, MDivided
  <2>3. q \in Int /\ textsize = B * q + (textsize % B) /\ textsize % B \in Int
    BY <2>1, MDivided
  <2>. SUFFICES ASSUME textsize % B = 0 PROVE FALSE
    OBVIOUS
  <2>4. p >= q
    BY <1>4
  <2>. HIDE DEF p, q, r, B
  <2>5. B * p >= B * q
    <3>. DEFINE d == p - q
    <3>1. d \in Nat /\ p = q + d
      BY <2>2, <2>3, <2>4
    <3>. HIDE DEF d
    <3>2. B * p = B * q + B * d /\ B * d \in Nat /\ B * q \in Int
      BY <2>1, <2>3, <3>1
    <3>. QED BY <3>2
  <2>. QED BY <2>1, <2>2, <2>3, <2>5
<1>5. spilled' => textsize' % PCSAMPLE_BYTES_PER_BUCKET # 0
  BY <1>1, <1>2, <1>4 DEF SamplerInv
<1>6. ~raced' => OneStarts'
  BY <1>2 DEF SamplerInv, OneStarts, Between
<1>. QED BY <1>2, <1>3, <1>5, <1>6 DEF SamplerInv

(* The heap is only used through sbrk(), with sizes that are no addresses. *)
LEMMA AllocateKeeps ==
  ASSUME HeapInv, mcount_allocate \/ UNCHANGED heapVars
  PROVE  HeapInv'
<1>1. MCOUNT_SLAB_INCREMENT \in Nat
  BY ProfileAssumption
<1>2. ALT_SBRK(MCOUNT_SLAB_INCREMENT) \/ UNCHANGED heapVars
  BY DEF mcount_allocate
<1>3. Owned(MCOUNT_SLAB_INCREMENT) /\ MCOUNT_SLAB_INCREMENT \in Int
  BY <1>1, OwnedSizes DEF HeapInv
<1>. QED BY <1>2, <1>3, SbrkKeeps, HeapStep

LEMMA BufferKeeps ==
  ASSUME HeapInv, textsize \in Nat, NEW l \in Levels, nios2_pcsample_init(l)
  PROVE  HeapInv'
<1>1. BufferSize \in Nat
  <2>. DEFINE B == PCSAMPLE_BYTES_PER_BUCKET
              q == textsize \div B
  <2>1. B \in Nat \ {0} /\ textsize \in Int
    BY ProfileAssumption
  <2>2. q \in Int /\ textsize = B * q + (textsize % B) /\ textsize % B \in 0 .. B - 1
    BY <2>1, MDivided
  <2>3. q >= 0
    <3>. DEFINE r == textsize % B
    <3>. HIDE DEF q, B, r
    <3>1. CASE q <= -1
      <4>1. B * q <= -B
        BY <2>1, <2>2, <3>1
      <4>2. r \in 0 .. B - 1 /\ textsize = B * q + r
        BY <2>2 DEF r
      <4>. QED BY <2>1, <2>2, <4>1, <4>2
    <3>. QED BY <2>2, <3>1
  <2>. HIDE DEF q
  <2>4. 2 * q \in Nat
    BY <2>2, <2>3
  <2>. QED BY <2>4 DEF BufferSize, q
<1>2. ALT_SBRK(BufferSize) \/ UNCHANGED heapVars
  BY DEF nios2_pcsample_init
<1>3. Owned(BufferSize) /\ BufferSize \in Int
  BY <1>1, OwnedSizes DEF HeapInv
<1>. QED BY <1>2, <1>3, SbrkKeeps, HeapStep

----------------------------------------------------------------------------
(* Sums over finite sets.  The sum of the community modules takes one      *)
(* element after the other, which ones is not said; the lemmas follow from *)
(* the least subset for which they would fail.                             *)
LEMMA LeastSubset ==
  ASSUME NEW S, IsFiniteSet(S), NEW Bad, Bad \subseteq SUBSET S, Bad # {}
  PROVE  \E s \in Bad : \A t \in SUBSET s : t # s => t \notin Bad
<1>1. IsWellFoundedOn(StrictSubsetOrdering(S), FiniteSubsetsOf(S))
  BY FS_StrictSubsetOrderingWellFounded
<1>2. Bad \subseteq FiniteSubsetsOf(S)
  BY FS_FiniteSubsetsOfFinite
<1>3. PICK s \in Bad : \A t \in Bad : << t, s >> \notin StrictSubsetOrdering(S)
  BY <1>1, <1>2, WFMin
<1>4. ASSUME NEW t \in SUBSET s, t # s PROVE t \notin Bad
  <2>1. t \in SUBSET S /\ s \in SUBSET S
    OBVIOUS
  <2>2. << t, s >> \in StrictSubsetOrdering(S)
    BY <1>4, <2>1 DEF StrictSubsetOrdering
  <2>. QED
    BY <1>3, <2>2
<1>. QED
  BY <1>4

Picked(s) == CHOOSE x \in s : TRUE
Others(s) == s \ {Picked(s)}

LEMMA PickedIn == ASSUME NEW s, s # {} PROVE Picked(s) \in s /\ Others(s) \in SUBSET s /\ Others(s) # s
<1>1. Picked(s) \in s
  BY DEF Picked
<1>. QED
  BY <1>1 DEF Others

(* g[s], for the subsets of S, is the sum of f over s.                     *)
Adds(g, f, S) ==
  g = [s \in SUBSET S |-> IF s = {} THEN 0 ELSE f[Picked(s)] + g[Others(s)]]

LEMMA SumIs ==
  ASSUME NEW f, NEW S
  PROVE  SumFunctionOnSet(f, S) = (CHOOSE g : Adds(g, f, S))[S]
BY DEF SumFunctionOnSet, FoldFunctionOnSet, MapThenFoldSet, Adds, Picked, Others

LEMMA AddsAt ==
  ASSUME NEW g, NEW f, NEW S, Adds(g, f, S), NEW s \in SUBSET S
  PROVE  /\ s = {} => g[s] = 0
         /\ s # {} => g[s] = f[Picked(s)] + g[Others(s)]
<1>. DEFINE G == [t \in SUBSET S |-> IF t = {} THEN 0 ELSE f[Picked(t)] + g[Others(t)]]
<1>1. g = G
  BY DEF Adds
<1>2. G[s] = IF s = {} THEN 0 ELSE f[Picked(s)] + g[Others(s)]
  OBVIOUS
<1>. HIDE DEF G
<1>. QED
  BY <1>1, <1>2

LEMMA AddsUnique ==
  ASSUME NEW S, IsFiniteSet(S), NEW T, NEW f, NEW k, NEW g, NEW h,
         Adds(g, f, S), Adds(h, k, T), NEW s \in SUBSET S, s \in SUBSET T,
         \A x \in s : f[x] = k[x]
  PROVE  g[s] = h[s]
<1>. DEFINE Bad == {t \in SUBSET s : g[t] # h[t]}
<1>1. SUFFICES ASSUME Bad # {} PROVE FALSE
  BY <1>1
<1>2. PICK t \in Bad : \A u \in SUBSET t : u # t => u \notin Bad
  <2>1. Bad \subseteq SUBSET S
    OBVIOUS
  <2>. HIDE DEF Bad
  <2>. QED
    BY <1>1, <2>1, LeastSubset
<1>3. t \in SUBSET s /\ t \in SUBSET S /\ t \in SUBSET T /\ g[t] # h[t]
  OBVIOUS
<1>4. t # {}
  BY <1>3, AddsAt
<1>5. Picked(t) \in s /\ Others(t) \in SUBSET t /\ Others(t) # t /\ Others(t) \in SUBSET s
  BY <1>3, <1>4, PickedIn
<1>6. g[Others(t)] = h[Others(t)]
  BY <1>2, <1>5
<1>7. g[t] = f[Picked(t)] + g[Others(t)] /\ h[t] = k[Picked(t)] + h[Others(t)]
  BY <1>3, <1>4, AddsAt
<1>. QED
  BY <1>3, <1>5, <1>6, <1>7

LEMMA AddsExists ==
  ASSUME NEW S, IsFiniteSet(S), NEW f
  PROVE  \E g : Adds(g, f, S)
<1>. DEFINE Bad == {t \in SUBSET S : ~ \E g : Adds(g, f, t)}
<1>1. SUFFICES ASSUME Bad # {} PROVE FALSE
  BY <1>1
<1>2. PICK s \in Bad : \A t \in SUBSET s : t # s => t \notin Bad
  <2>1. Bad \subseteq SUBSET S
    OBVIOUS
  <2>. HIDE DEF Bad
  <2>. QED
    BY <1>1, <2>1, LeastSubset
<1>. DEFINE Of(t) == CHOOSE g : Adds(g, f, t)
            Value(t) == Of(t)[t]
            G == [t \in SUBSET s |-> IF t = {} THEN 0 ELSE f[Picked(t)] + Value(Others(t))]
<1>3. \A t \in SUBSET s : t # s => Adds(Of(t), f, t)
  BY <1>2
<1>4. \A t \in SUBSET s : IsFiniteSet(t)
  BY FS_Subset
<1>. HIDE DEF Of
<1>5. ASSUME NEW u \in SUBSET s, u # s
      PROVE  Value(u) = IF u = {} THEN 0 ELSE f[Picked(u)] + Value(Others(u))
  <2>1. Adds(Of(u), f, u) /\ u \in SUBSET u
    BY <1>3, <1>5
  <2>2. CASE u = {}
    BY <2>1, <2>2, AddsAt
  <2>3. CASE u # {}
    <3>1. /\ Others(u) \in SUBSET u /\ Others(u) \in SUBSET s /\ Others(u) # s
          /\ Others(u) \in SUBSET Others(u)
      BY <1>5, <2>3, PickedIn
    <3>2. Value(u) = f[Picked(u)] + Of(u)[Others(u)]
      BY <2>1, <2>3, AddsAt
    <3>3. Adds(Of(Others(u)), f, Others(u))
      BY <1>3, <3>1
    <3>4. Of(Others(u))[Others(u)] = Of(u)[Others(u)]
      BY <1>4, <2>1, <3>1, <3>3, AddsUnique
    <3>. QED
      BY <2>3, <3>2, <3>4
  <2>. QED
    BY <2>2, <2>3
<1>6. ASSUME NEW t \in SUBSET s, t # {} PROVE G[Others(t)] = Value(Others(t))
  <2>1. Others(t) \in SUBSET s /\ Others(t) # s
    BY <1>6, PickedIn
  <2>. QED
    BY <1>5, <2>1
<1>7. G = [t \in SUBSET s |-> IF t = {} THEN 0 ELSE f[Picked(t)] + G[Others(t)]]
  <2>. DEFINE H == [t \in SUBSET s |-> IF t = {} THEN 0 ELSE f[Picked(t)] + G[Others(t)]]
  <2>1. ASSUME NEW t \in SUBSET s PROVE G[t] = H[t]
    BY <1>6
  <2>2. G = [t \in SUBSET s |-> G[t]] /\ H = [t \in SUBSET s |-> H[t]]
    OBVIOUS
  <2>. HIDE DEF G, H
  <2>3. G = H
    BY <2>1, <2>2
  <2>. QED
    BY <2>3 DEF H
<1>. HIDE DEF G
<1>8. Adds(G, f, s)
  BY <1>7 DEF Adds
<1>. QED
  BY <1>8

(* The sum over a subset is found in any function that adds.               *)
LEMMA SumOver ==
  ASSUME NEW S, IsFiniteSet(S), NEW f
  PROVE  \E g : /\ Adds(g, f, S)
                /\ \A s \in SUBSET S : g[s] = SumFunctionOnSet(f, s)
<1>1. PICK g : Adds(g, f, S)
  BY AddsExists
<1>2. ASSUME NEW s \in SUBSET S PROVE g[s] = SumFunctionOnSet(f, s)
  <2>. DEFINE h == CHOOSE h : Adds(h, f, s)
  <2>1. IsFiniteSet(s) /\ s \in SUBSET s
    BY FS_Subset
  <2>2. Adds(h, f, s)
    BY <2>1, AddsExists
  <2>3. SumFunctionOnSet(f, s) = h[s]
    BY SumIs
  <2>. HIDE DEF h
  <2>4. g[s] = h[s]
    BY <1>1, <2>1, <2>2, AddsUnique
  <2>. QED
    BY <2>3, <2>4
<1>. QED
  BY <1>1, <1>2

LEMMA SumSteps ==
  ASSUME NEW S, IsFiniteSet(S), NEW f
  PROVE  /\ S = {} => SumFunctionOnSet(f, S) = 0
         /\ S # {} => SumFunctionOnSet(f, S) =
                        f[Picked(S)] + SumFunctionOnSet(f, Others(S))
<1>1. PICK g : Adds(g, f, S) /\ \A s \in SUBSET S : g[s] = SumFunctionOnSet(f, s)
  BY SumOver
<1>2. S \in SUBSET S /\ (S # {} => Others(S) \in SUBSET S)
  BY PickedIn
<1>. QED
  BY <1>1, <1>2, AddsAt

LEMMA SumSame ==
  ASSUME NEW S, IsFiniteSet(S), NEW f, NEW k, \A x \in S : f[x] = k[x]
  PROVE  SumFunctionOnSet(f, S) = SumFunctionOnSet(k, S)
<1>1. PICK g : Adds(g, f, S) /\ \A s \in SUBSET S : g[s] = SumFunctionOnSet(f, s)
  BY SumOver
<1>2. PICK h : Adds(h, k, S) /\ \A s \in SUBSET S : h[s] = SumFunctionOnSet(k, s)
  BY SumOver
<1>3. S \in SUBSET S
  OBVIOUS
<1>4. g[S] = h[S]
  BY <1>1, <1>2, <1>3, AddsUnique
<1>. QED
  BY <1>1, <1>2, <1>3, <1>4

LEMMA SumType ==
  ASSUME NEW S, IsFiniteSet(S), NEW f, \A x \in S : f[x] \in Int
  PROVE  SumFunctionOnSet(f, S) \in Int
<1>. DEFINE Bad == {t \in SUBSET S : SumFunctionOnSet(f, t) \notin Int}
<1>1. SUFFICES ASSUME Bad # {} PROVE FALSE
  BY <1>1
<1>2. PICK s \in Bad : \A t \in SUBSET s : t # s => t \notin Bad
  <2>1. Bad \subseteq SUBSET S
    OBVIOUS
  <2>. HIDE DEF Bad
  <2>. QED
    BY <1>1, <2>1, LeastSubset
<1>3. s \in SUBSET S /\ IsFiniteSet(s) /\ SumFunctionOnSet(f, s) \notin Int
  BY FS_Subset
<1>4. s # {}
  BY <1>3, SumSteps
<1>5. Picked(s) \in S /\ Others(s) \in SUBSET S /\ SumFunctionOnSet(f, Others(s)) \in Int
  BY <1>2, <1>3, <1>4, PickedIn
<1>6. SumFunctionOnSet(f, s) = f[Picked(s)] + SumFunctionOnSet(f, Others(s))
  BY <1>3, <1>4, SumSteps
<1>. QED
  BY <1>3, <1>5, <1>6

(* Any element can be the one that is added last.                          *)
LEMMA SumWithout ==
  ASSUME NEW S, IsFiniteSet(S), NEW f, \A x \in S : f[x] \in Int, NEW a \in S
  PROVE  SumFunctionOnSet(f, S) = f[a] + SumFunctionOnSet(f, S \ {a})
<1>. DEFINE Sum(s) == SumFunctionOnSet(f, s)
            Bad == {t \in SUBSET S : \E x \in t : Sum(t) # f[x] + Sum(t \ {x})}
<1>1. SUFFICES ASSUME Bad # {} PROVE FALSE
  BY <1>1
<1>2. PICK s \in Bad : \A t \in SUBSET s : t # s => t \notin Bad
  <2>1. Bad \subseteq SUBSET S
    OBVIOUS
  <2>. HIDE DEF Bad
  <2>. QED
    BY <1>1, <2>1, LeastSubset
<1>3. PICK x \in s : Sum(s) # f[x] + Sum(s \ {x})
  OBVIOUS
<1>. DEFINE y == Picked(s)
            r == (s \ {x}) \ {y}
<1>4. /\ \A t \in SUBSET s : IsFiniteSet(t) /\ Sum(t) \in Int
      /\ s \in SUBSET S /\ s \in SUBSET s /\ x \in S
  BY FS_Subset, SumType
<1>5. y \in s /\ y \in S /\ Others(s) = s \ {y} /\ Sum(s) = f[y] + Sum(s \ {y})
  BY <1>3, <1>4, PickedIn, SumSteps DEF Others
<1>6. x # y
  BY <1>3, <1>5
<1>7. Sum(s \ {y}) = f[x] + Sum((s \ {y}) \ {x})
  <2>1. s \ {y} \in SUBSET s /\ s \ {y} # s /\ x \in s \ {y} /\ s \ {y} \in SUBSET S
    BY <1>4, <1>5, <1>6
  <2>. QED
    BY <1>2, <2>1
<1>8. Sum(s \ {x}) = f[y] + Sum(r)
  <2>1. s \ {x} \in SUBSET s /\ s \ {x} # s /\ y \in s \ {x} /\ s \ {x} \in SUBSET S
    BY <1>4, <1>5, <1>6
  <2>. QED
    BY <1>2, <2>1
<1>9. (s \ {y}) \ {x} = r /\ r \in SUBSET s /\ s \ {x} \in SUBSET s /\ s \ {y} \in SUBSET s
  OBVIOUS
<1>10. Sum(r) \in Int /\ f[x] \in Int /\ f[y] \in Int
  BY <1>4, <1>5, <1>9
<1>11. Sum(s \ {y}) = f[x] + Sum(r)
  BY <1>7, <1>9
<1>12. /\ Sum(s) = f[y] + Sum(s \ {y}) /\ Sum(s) # f[x] + Sum(s \ {x})
       /\ Sum(s \ {x}) = f[y] + Sum(r)
  BY <1>3, <1>5, <1>8
<1>. HIDE DEF Sum, y, r, Bad
<1>13. f[y] + (f[x] + Sum(r)) = f[x] + (f[y] + Sum(r))
  BY <1>10
<1>. QED
  BY <1>11, <1>12, <1>13

(* A new element, and an element with another value.                       *)
LEMMA SumAdds ==
  ASSUME NEW S, IsFiniteSet(S), NEW f, NEW k, NEW a, a \notin S, k[a] \in Int,
         \A x \in S : f[x] = k[x] /\ f[x] \in Int
  PROVE  SumFunctionOnSet(k, S \cup {a}) = SumFunctionOnSet(f, S) + k[a]
<1>1. IsFiniteSet(S \cup {a}) /\ (S \cup {a}) \ {a} = S /\ a \in S \cup {a}
  BY FS_AddElement
<1>2. \A x \in S \cup {a} : k[x] \in Int
  OBVIOUS
<1>3. SumFunctionOnSet(k, S \cup {a}) = k[a] + SumFunctionOnSet(k, (S \cup {a}) \ {a})
  BY <1>1, <1>2, SumWithout
<1>4. SumFunctionOnSet(k, S) = SumFunctionOnSet(f, S) /\ SumFunctionOnSet(f, S) \in Int
  BY SumSame, SumType
<1>5. SumFunctionOnSet(k, S \cup {a}) = k[a] + SumFunctionOnSet(f, S)
  BY <1>1, <1>3, <1>4
<1>. QED
  BY <1>4, <1>5

LEMMA SumChanges ==
  ASSUME NEW S, IsFiniteSet(S), NEW f, NEW k, NEW a \in S,
         \A x \in S : f[x] \in Int /\ k[x] \in Int,
         \A x \in S : x # a => f[x] = k[x], NEW d \in Int, k[a] = f[a] + d
  PROVE  SumFunctionOnSet(k, S) = SumFunctionOnSet(f, S) + d
<1>1. IsFiniteSet(S \ {a})
  BY FS_RemoveElement
<1>2. /\ SumFunctionOnSet(k, S) = k[a] + SumFunctionOnSet(k, S \ {a})
      /\ SumFunctionOnSet(f, S) = f[a] + SumFunctionOnSet(f, S \ {a})
  BY SumWithout
<1>3. SumFunctionOnSet(k, S \ {a}) = SumFunctionOnSet(f, S \ {a})
  <2>1. \A x \in S \ {a} : k[x] = f[x]
    OBVIOUS
  <2>. QED
    BY <1>1, <2>1, SumSame
<1>4. SumFunctionOnSet(f, S \ {a}) \in Int
  BY <1>1, SumType
<1>. QED
  BY <1>2, <1>3, <1>4

----------------------------------------------------------------------------
(* HalProfile: the lists of functions and arcs.                            *)
ArcEntries == [from : Callers, count : Int]
FunctionEntries == [self : Functions, arcs : Seq(ArcEntries)]

(* The copies of an arc, and their counts, as of a list.                   *)
PlacesIn(e) == UNION {{<< i, j >> : j \in DOMAIN e[i].arcs} : i \in DOMAIN e}
CopiesAt(e, a) == {c \in PlacesIn(e) : e[c[1]].self = a[1] /\ e[c[1]].arcs[c[2]].from = a[2]}
CountsIn(e) == [c \in PlacesIn(e) |-> e[c[1]].arcs[c[2]].count]
SumIn(e, a) == SumFunctionOnSet(CountsIn(e), CopiesAt(e, a))

(* Nothing that was in a list goes away, or changes its function or caller. *)
Keeps(e, m) ==
  \A i \in DOMAIN e :
    /\ i \in DOMAIN m /\ m[i].self = e[i].self
    /\ \A j \in DOMAIN e[i].arcs :
         j \in DOMAIN m[i].arcs /\ m[i].arcs[j].from = e[i].arcs[j].from

(* An arc linked to a function, and a count stored.                        *)
Linked(e, i, f) == [e EXCEPT ![i].arcs = Append(@, [from |-> f, count |-> 1])]
Stored(e, i, j, v) == [e EXCEPT ![i].arcs[j].count = v]

LEMMA EntryFacts ==
  ASSUME NEW e \in Seq(FunctionEntries), NEW i \in DOMAIN e
  PROVE  /\ e[i] \in FunctionEntries /\ e[i].self \in Functions
         /\ e[i].arcs \in Seq(ArcEntries)
         /\ \A j \in DOMAIN e[i].arcs :
              /\ e[i].arcs[j] \in ArcEntries
              /\ e[i].arcs[j].count \in Int
<1>1. e[i] \in FunctionEntries
  OBVIOUS
<1>2. e[i].self \in Functions /\ e[i].arcs \in Seq(ArcEntries)
  BY <1>1 DEF FunctionEntries
<1>3. \A j \in DOMAIN e[i].arcs : e[i].arcs[j] \in ArcEntries
  BY <1>2
<1>. QED
  BY <1>1, <1>2, <1>3 DEF ArcEntries

LEMMA PlaceIs ==
  ASSUME NEW e, NEW c
  PROVE  c \in PlacesIn(e) <=> \E i \in DOMAIN e : \E j \in DOMAIN e[i].arcs : c = << i, j >>
BY DEF PlacesIn

LEMMA IsCopy ==
  ASSUME NEW e, NEW i \in DOMAIN e, NEW j \in DOMAIN e[i].arcs, NEW a
  PROVE  /\ << i, j >> \in CopiesAt(e, a) <=> e[i].self = a[1] /\ e[i].arcs[j].from = a[2]
         /\ CountsIn(e)[<< i, j >>] = e[i].arcs[j].count
<1>1. << i, j >> \in PlacesIn(e)
  BY PlaceIs
<1>2. << i, j >>[1] = i /\ << i, j >>[2] = j
  OBVIOUS
<1>. QED
  BY <1>1, <1>2 DEF CopiesAt, CountsIn

LEMMA CopyIs ==
  ASSUME NEW e, NEW a, NEW c \in CopiesAt(e, a)
  PROVE  \E i \in DOMAIN e : \E j \in DOMAIN e[i].arcs :
           c = << i, j >> /\ e[i].self = a[1] /\ e[i].arcs[j].from = a[2]
<1>1. PICK i \in DOMAIN e : \E j \in DOMAIN e[i].arcs : c = << i, j >>
  BY PlaceIs DEF CopiesAt
<1>2. PICK j \in DOMAIN e[i].arcs : c = << i, j >>
  BY <1>1
<1>3. e[i].self = a[1] /\ e[i].arcs[j].from = a[2]
  BY <1>2, IsCopy
<1>. QED
  BY <1>2, <1>3

LEMMA CountsType ==
  ASSUME NEW e \in Seq(FunctionEntries), NEW a, NEW c \in CopiesAt(e, a)
  PROVE  CountsIn(e)[c] \in Int
<1>1. PICK i \in DOMAIN e : \E j \in DOMAIN e[i].arcs : c = << i, j >>
  BY CopyIs
<1>2. PICK j \in DOMAIN e[i].arcs : c = << i, j >>
  BY <1>1
<1>3. CountsIn(e)[c] = e[i].arcs[j].count
  BY <1>2, IsCopy
<1>. QED
  BY <1>3, EntryFacts

LEMMA SumTyped ==
  ASSUME NEW e \in Seq(FunctionEntries), NEW a, IsFiniteSet(CopiesAt(e, a))
  PROVE  SumIn(e, a) \in Int
<1>1. \A c \in CopiesAt(e, a) : CountsIn(e)[c] \in Int
  BY CountsType
<1>. QED
  BY <1>1, SumType DEF SumIn

(* The same copies with the same counts.                                   *)
LEMMA CopiesSame ==
  ASSUME NEW e, NEW m, NEW a,
         \A i \in DOMAIN e :
           /\ i \in DOMAIN m /\ m[i].self = e[i].self
           /\ \A j \in DOMAIN e[i].arcs :
                /\ j \in DOMAIN m[i].arcs
                /\ m[i].arcs[j].from = e[i].arcs[j].from
  PROVE  CopiesAt(e, a) \subseteq CopiesAt(m, a)
<1>. SUFFICES ASSUME NEW c \in CopiesAt(e, a) PROVE c \in CopiesAt(m, a)
  OBVIOUS
<1>1. PICK i \in DOMAIN e : \E j \in DOMAIN e[i].arcs :
           c = << i, j >> /\ e[i].self = a[1] /\ e[i].arcs[j].from = a[2]
  BY CopyIs
<1>2. PICK j \in DOMAIN e[i].arcs :
           c = << i, j >> /\ e[i].self = a[1] /\ e[i].arcs[j].from = a[2]
  BY <1>1
<1>3. /\ i \in DOMAIN m /\ j \in DOMAIN m[i].arcs
      /\ m[i].self = a[1] /\ m[i].arcs[j].from = a[2]
  BY <1>2
<1>. QED
  BY <1>2, <1>3, IsCopy

(* A new entry without arcs has no copies.                                 *)
LEMMA MoreEntries ==
  ASSUME NEW e \in Seq(FunctionEntries), NEW m \in Seq(FunctionEntries), NEW a,
         IsFiniteSet(CopiesAt(e, a)),
         \A i \in DOMAIN e : i \in DOMAIN m /\ m[i] = e[i],
         \A i \in DOMAIN m : i \in DOMAIN e \/ DOMAIN m[i].arcs = {}
  PROVE  IsFiniteSet(CopiesAt(m, a)) /\ SumIn(m, a) = SumIn(e, a)
<1>1. CopiesAt(m, a) = CopiesAt(e, a)
  <2>1. CopiesAt(e, a) \subseteq CopiesAt(m, a)
    BY CopiesSame
  <2>2. \A i \in DOMAIN m : \A j \in DOMAIN m[i].arcs :
          i \in DOMAIN e /\ j \in DOMAIN e[i].arcs /\ m[i] = e[i]
    OBVIOUS
  <2>3. CopiesAt(m, a) \subseteq CopiesAt(e, a)
    <3>. SUFFICES ASSUME NEW c \in CopiesAt(m, a) PROVE c \in CopiesAt(e, a)
      OBVIOUS
    <3>1. PICK i \in DOMAIN m : \E j \in DOMAIN m[i].arcs :
             c = << i, j >> /\ m[i].self = a[1] /\ m[i].arcs[j].from = a[2]
      BY CopyIs
    <3>2. PICK j \in DOMAIN m[i].arcs :
             c = << i, j >> /\ m[i].self = a[1] /\ m[i].arcs[j].from = a[2]
      BY <3>1
    <3>. QED
      BY <2>2, <3>2, IsCopy
  <2>. QED
    BY <2>1, <2>3
<1>2. ASSUME NEW c \in CopiesAt(e, a) PROVE CountsIn(m)[c] = CountsIn(e)[c]
  <2>1. PICK i \in DOMAIN e : \E j \in DOMAIN e[i].arcs : c = << i, j >>
    BY CopyIs
  <2>2. PICK j \in DOMAIN e[i].arcs : c = << i, j >>
    BY <2>1
  <2>3. i \in DOMAIN m /\ m[i] = e[i] /\ j \in DOMAIN m[i].arcs
    OBVIOUS
  <2>4. CountsIn(e)[<< i, j >>] = e[i].arcs[j].count
    BY IsCopy
  <2>5. CountsIn(m)[<< i, j >>] = m[i].arcs[j].count
    BY <2>3, IsCopy
  <2>. QED
    BY <2>2, <2>3, <2>4, <2>5
<1>3. SumIn(m, a) = SumIn(e, a)
  BY <1>1, <1>2, SumSame DEF SumIn
<1>. QED
  BY <1>1, <1>3

(* A new function has no arcs yet.                                         *)
LEMMA EntryAdded ==
  ASSUME NEW e \in Seq(FunctionEntries), NEW s \in Functions, NEW a,
         IsFiniteSet(CopiesAt(e, a)), NEW m, m = Append(e, [self |-> s, arcs |-> << >>])
  PROVE  /\ m \in Seq(FunctionEntries) /\ Len(m) = Len(e) + 1
         /\ Len(m) \in DOMAIN m /\ m[Len(m)].self = s
         /\ \A i \in DOMAIN e : i \in DOMAIN m /\ m[i] = e[i]
         /\ IsFiniteSet(CopiesAt(m, a)) /\ SumIn(m, a) = SumIn(e, a)
<1>. DEFINE new == [self |-> s, arcs |-> << >>]
<1>1. new \in FunctionEntries /\ new.self = s /\ new.arcs = << >>
  BY DEF FunctionEntries
<1>. HIDE DEF new
<1>2. /\ m \in Seq(FunctionEntries) /\ Len(m) = Len(e) + 1 /\ m[Len(m)] = new
      /\ \A i \in 1 .. Len(e) : m[i] = e[i]
  BY <1>1, AppendProperties DEF new
<1>3. /\ DOMAIN e = 1 .. Len(e) /\ DOMAIN m = 1 .. Len(m) /\ Len(e) \in Nat
  BY <1>2
<1>4. /\ Len(m) \in DOMAIN m /\ \A i \in DOMAIN e : i \in DOMAIN m /\ m[i] = e[i]
      /\ \A i \in DOMAIN m : i \in DOMAIN e \/ i = Len(m)
  BY <1>2, <1>3
<1>5. DOMAIN m[Len(m)].arcs = {}
  BY <1>1, <1>2
<1>6. IsFiniteSet(CopiesAt(m, a)) /\ SumIn(m, a) = SumIn(e, a)
  <2>1. \A i \in DOMAIN m : i \in DOMAIN e \/ DOMAIN m[i].arcs = {}
    BY <1>4, <1>5
  <2>. QED
    BY <1>2, <1>4, <2>1, MoreEntries
<1>. QED
  BY <1>1, <1>2, <1>4, <1>6

(* A sequence with one element replaced.                                   *)
LEMMA Replaced ==
  ASSUME NEW S, NEW q \in Seq(S), NEW i \in DOMAIN q, NEW v \in S
  PROVE  /\ [q EXCEPT ![i] = v] \in Seq(S)
         /\ DOMAIN [q EXCEPT ![i] = v] = DOMAIN q
         /\ [q EXCEPT ![i] = v][i] = v
         /\ \A j \in DOMAIN q : j # i => [q EXCEPT ![i] = v][j] = q[j]
<1>1. q \in [1 .. Len(q) -> S] /\ Len(q) \in Nat /\ DOMAIN q = 1 .. Len(q)
  OBVIOUS
<1>2. [q EXCEPT ![i] = v] \in [1 .. Len(q) -> S]
  BY <1>1
<1>3. [q EXCEPT ![i] = v] \in Seq(S)
  BY <1>1, <1>2, SeqDef
<1>. QED
  BY <1>1, <1>3

Grows(e, m, a, d) == IsFiniteSet(CopiesAt(m, a)) /\ SumIn(m, a) = SumIn(e, a) + d

OneMoreArc(e, m, i, f, n) ==
  /\ DOMAIN m = DOMAIN e /\ n \in DOMAIN m[i].arcs /\ n \notin DOMAIN e[i].arcs
  /\ m[i].arcs[n].from = f /\ m[i].arcs[n].count = 1
  /\ \A k \in DOMAIN e :
       /\ m[k].self = e[k].self
       /\ \A j \in DOMAIN e[k].arcs : j \in DOMAIN m[k].arcs /\ m[k].arcs[j] = e[k].arcs[j]
       /\ \A j \in DOMAIN m[k].arcs : j \in DOMAIN e[k].arcs \/ (k = i /\ j = n)

LEMMA MoreArcs ==
  ASSUME NEW e \in Seq(FunctionEntries), NEW m \in Seq(FunctionEntries),
         NEW i \in DOMAIN e, NEW f, NEW n, NEW a,
         IsFiniteSet(CopiesAt(e, a)), OneMoreArc(e, m, i, f, n)
  PROVE  /\ e[i].self = a[1] /\ f = a[2] => Grows(e, m, a, 1)
         /\ e[i].self # a[1] \/ f # a[2] => Grows(e, m, a, 0)
<1>1. ASSUME NEW c \in CopiesAt(e, a)
       PROVE  CountsIn(e)[c] = CountsIn(m)[c] /\ CountsIn(e)[c] \in Int /\ c # << i, n >>
  <2>1. PICK k \in DOMAIN e : \E j \in DOMAIN e[k].arcs : c = << k, j >>
    BY CopyIs
  <2>2. PICK j \in DOMAIN e[k].arcs : c = << k, j >>
    BY <2>1
  <2>3. k \in DOMAIN m /\ j \in DOMAIN m[k].arcs /\ m[k].arcs[j] = e[k].arcs[j]
    BY DEF OneMoreArc
  <2>4. CountsIn(e)[<< k, j >>] = e[k].arcs[j].count
    BY IsCopy
  <2>5. CountsIn(m)[<< k, j >>] = m[k].arcs[j].count
    BY <2>3, IsCopy
  <2>6. c # << i, n >>
    BY <2>2 DEF OneMoreArc
  <2>. QED
    BY <2>2, <2>3, <2>4, <2>5, <2>6, CountsType
<1>2. /\ << i, n >> \notin CopiesAt(e, a) /\ CountsIn(m)[<< i, n >>] = 1
      /\ << i, n >> \in CopiesAt(m, a) <=> e[i].self = a[1] /\ f = a[2]
  <2>1. /\ i \in DOMAIN m /\ n \in DOMAIN m[i].arcs /\ m[i].self = e[i].self
        /\ m[i].arcs[n].from = f /\ m[i].arcs[n].count = 1
    BY DEF OneMoreArc
  <2>2. /\ CountsIn(m)[<< i, n >>] = m[i].arcs[n].count
        /\ << i, n >> \in CopiesAt(m, a) <=> m[i].self = a[1] /\ m[i].arcs[n].from = a[2]
    BY <2>1, IsCopy
  <2>. QED
    BY <1>1, <2>1, <2>2
<1>3. CopiesAt(e, a) \subseteq CopiesAt(m, a)
  <2>1. \A k \in DOMAIN e :
           /\ k \in DOMAIN m /\ m[k].self = e[k].self
           /\ \A j \in DOMAIN e[k].arcs :
                /\ j \in DOMAIN m[k].arcs
                /\ m[k].arcs[j].from = e[k].arcs[j].from
    BY DEF OneMoreArc
  <2>. QED
    BY <2>1, CopiesSame
<1>4. CopiesAt(m, a) \subseteq CopiesAt(e, a) \cup {<< i, n >>}
  <2>. SUFFICES ASSUME NEW c \in CopiesAt(m, a), c # << i, n >> PROVE c \in CopiesAt(e, a)
    OBVIOUS
  <2>1. PICK k \in DOMAIN m : \E j \in DOMAIN m[k].arcs :
             c = << k, j >> /\ m[k].self = a[1] /\ m[k].arcs[j].from = a[2]
    BY CopyIs
  <2>2. PICK j \in DOMAIN m[k].arcs :
             c = << k, j >> /\ m[k].self = a[1] /\ m[k].arcs[j].from = a[2]
    BY <2>1
  <2>3. k \in DOMAIN e /\ j \in DOMAIN e[k].arcs
    BY <2>2 DEF OneMoreArc
  <2>4. e[k].self = a[1] /\ e[k].arcs[j].from = a[2]
    BY <2>2, <2>3 DEF OneMoreArc
  <2>. QED
    BY <2>2, <2>3, <2>4, IsCopy
<1>5. CASE e[i].self = a[1] /\ f = a[2]
  <2>1. CopiesAt(m, a) = CopiesAt(e, a) \cup {<< i, n >>}
    BY <1>2, <1>3, <1>4, <1>5
  <2>2. IsFiniteSet(CopiesAt(m, a))
    BY <2>1, FS_AddElement
  <2>3. SumIn(m, a) = SumIn(e, a) + 1
    <3>. DEFINE S == CopiesAt(e, a)
                x == CountsIn(e)
                y == CountsIn(m)
                c == << i, n >>
    <3>1. IsFiniteSet(S) /\ c \notin S /\ y[c] = 1 /\ y[c] \in Int
      BY <1>2
    <3>2. \A z \in S : x[z] = y[z] /\ x[z] \in Int
      BY <1>1
    <3>3. SumIn(m, a) = SumFunctionOnSet(y, S \cup {c}) /\ SumIn(e, a) = SumFunctionOnSet(x, S)
      BY <2>1 DEF SumIn
    <3>. HIDE DEF S, x, y, c
    <3>4. SumFunctionOnSet(y, S \cup {c}) = SumFunctionOnSet(x, S) + y[c]
      <4>1. IsFiniteSet(S) /\ c \notin S /\ y[c] \in Int
        BY <3>1
      <4>. QED
        BY <3>2, <4>1, SumAdds
    <3>. QED
      BY <3>1, <3>3, <3>4
  <2>. QED
    BY <1>5, <2>2, <2>3 DEF Grows
<1>6. CASE ~(e[i].self = a[1] /\ f = a[2])
  <2>1. CopiesAt(m, a) = CopiesAt(e, a)
    BY <1>2, <1>3, <1>4, <1>6
  <2>2. SumIn(m, a) = SumIn(e, a)
    BY <1>1, <2>1, SumSame DEF SumIn
  <2>3. SumIn(e, a) \in Int
    BY SumTyped
  <2>. QED
    BY <1>6, <2>1, <2>2, <2>3 DEF Grows
<1>. QED
  BY <1>5, <1>6


(* A new arc of a function is one more copy, with one call.                *)
LEMMA ArcAdded ==
  ASSUME NEW e \in Seq(FunctionEntries), NEW i \in DOMAIN e, NEW f \in Callers, NEW a,
         IsFiniteSet(CopiesAt(e, a)), NEW m, m = Linked(e, i, f)
  PROVE  /\ m \in Seq(FunctionEntries) /\ Keeps(e, m)
         /\ e[i].self = a[1] /\ f = a[2] => Grows(e, m, a, 1)
         /\ e[i].self # a[1] \/ f # a[2] => Grows(e, m, a, 0)
<1>. DEFINE new == [from |-> f, count |-> 1]
            arcs == Append(e[i].arcs, new)
            fun == [e[i] EXCEPT !.arcs = arcs]
            n == Len(e[i].arcs) + 1
<1>1. new \in ArcEntries /\ new.from = f /\ new.count = 1
  BY DEF ArcEntries
<1>2. e[i] \in FunctionEntries /\ e[i].arcs \in Seq(ArcEntries)
  BY EntryFacts
<1>3. m = [e EXCEPT ![i] = fun]
  BY DEF Linked
<1>. HIDE DEF new
<1>4. /\ arcs \in Seq(ArcEntries) /\ Len(arcs) = n /\ arcs[n] = new
      /\ \A j \in 1 .. Len(e[i].arcs) : arcs[j] = e[i].arcs[j]
  BY <1>1, <1>2, AppendProperties
<1>5. /\ DOMAIN arcs = 1 .. n /\ DOMAIN e[i].arcs = 1 .. Len(e[i].arcs)
      /\ Len(e[i].arcs) \in Nat
  BY <1>2, <1>4
<1>. HIDE DEF arcs
<1>6. fun \in FunctionEntries /\ fun.self = e[i].self /\ fun.arcs = arcs
  BY <1>2, <1>4 DEF FunctionEntries
<1>. HIDE DEF fun
<1>7. /\ m \in Seq(FunctionEntries) /\ DOMAIN m = DOMAIN e /\ m[i] = fun
      /\ \A k \in DOMAIN e : k # i => m[k] = e[k]
  <2>. DEFINE r == [e EXCEPT ![i] = fun]
  <2>1. /\ r \in Seq(FunctionEntries) /\ DOMAIN r = DOMAIN e /\ r[i] = fun
        /\ \A k \in DOMAIN e : k # i => r[k] = e[k]
    BY <1>6, Replaced
  <2>2. m = r
    BY <1>3
  <2>. HIDE DEF r
  <2>. QED
    BY <2>1, <2>2
<1>8. /\ n \in DOMAIN arcs /\ n \notin DOMAIN e[i].arcs
      /\ \A j \in DOMAIN arcs : j \in DOMAIN e[i].arcs \/ j = n
      /\ \A j \in DOMAIN e[i].arcs : j \in DOMAIN arcs /\ arcs[j] = e[i].arcs[j]
      /\ arcs[n] = new
  BY <1>4, <1>5
<1>. HIDE DEF n
<1>9. i \in DOMAIN m /\ m[i].arcs = arcs /\ m[i].self = e[i].self
  BY <1>6, <1>7
<1>10. \A k \in DOMAIN e :
        /\ m[k].self = e[k].self
        /\ \A j \in DOMAIN e[k].arcs :
             /\ j \in DOMAIN m[k].arcs
             /\ m[k].arcs[j] = e[k].arcs[j]
  BY <1>7, <1>8, <1>9
<1>11. \A k \in DOMAIN e : \A j \in DOMAIN m[k].arcs :
        j \in DOMAIN e[k].arcs \/ (k = i /\ j = n)
  BY <1>7, <1>8, <1>9
<1>12. /\ n \in DOMAIN m[i].arcs /\ n \notin DOMAIN e[i].arcs
       /\ m[i].arcs[n].from = f /\ m[i].arcs[n].count = 1
  BY <1>1, <1>8, <1>9
<1>13. OneMoreArc(e, m, i, f, n)
  BY <1>7, <1>10, <1>11, <1>12 DEF OneMoreArc
<1>14. /\ e[i].self = a[1] /\ f = a[2] => Grows(e, m, a, 1)
       /\ e[i].self # a[1] \/ f # a[2] => Grows(e, m, a, 0)
  BY <1>7, <1>13, MoreArcs
<1>15. Keeps(e, m)
  BY <1>7, <1>10 DEF Keeps
<1>. QED
  BY <1>7, <1>14, <1>15

(* The count of one copy is stored.                                        *)
OneCount(e, m, i, j, v) ==
  /\ DOMAIN m = DOMAIN e /\ m[i].arcs[j].count = v
  /\ \A k \in DOMAIN e :
       /\ m[k].self = e[k].self /\ DOMAIN m[k].arcs = DOMAIN e[k].arcs
       /\ \A l \in DOMAIN e[k].arcs :
            /\ m[k].arcs[l].from = e[k].arcs[l].from
            /\ k # i \/ l # j => m[k].arcs[l] = e[k].arcs[l]

LEMMA OtherCount ==
  ASSUME NEW e \in Seq(FunctionEntries), NEW m \in Seq(FunctionEntries),
         NEW i \in DOMAIN e, NEW j \in DOMAIN e[i].arcs, NEW v \in Int, NEW a,
         IsFiniteSet(CopiesAt(e, a)), OneCount(e, m, i, j, v)
  PROVE  /\ e[i].self = a[1] /\ e[i].arcs[j].from = a[2] =>
              Grows(e, m, a, v - e[i].arcs[j].count)
         /\ e[i].self # a[1] \/ e[i].arcs[j].from # a[2] => Grows(e, m, a, 0)
<1>0. e[i].arcs[j].count \in Int
  BY EntryFacts
<1>1. CopiesAt(m, a) = CopiesAt(e, a)
  <2>1. CopiesAt(e, a) \subseteq CopiesAt(m, a)
    <3>1. \A k \in DOMAIN e :
             /\ k \in DOMAIN m /\ m[k].self = e[k].self
             /\ \A l \in DOMAIN e[k].arcs :
                  /\ l \in DOMAIN m[k].arcs
                  /\ m[k].arcs[l].from = e[k].arcs[l].from
      BY DEF OneCount
    <3>. QED
      BY <3>1, CopiesSame
  <2>2. \A k \in DOMAIN m :
          /\ k \in DOMAIN e /\ e[k].self = m[k].self
          /\ \A l \in DOMAIN m[k].arcs :
               /\ l \in DOMAIN e[k].arcs
               /\ e[k].arcs[l].from = m[k].arcs[l].from
    BY DEF OneCount
  <2>3. CopiesAt(m, a) \subseteq CopiesAt(e, a)
    BY <2>2, CopiesSame
  <2>. QED
    BY <2>1, <2>3
<1>2. ASSUME NEW c \in CopiesAt(e, a), c # << i, j >>
      PROVE  CountsIn(e)[c] = CountsIn(m)[c]
  <2>1. PICK k \in DOMAIN e : \E l \in DOMAIN e[k].arcs : c = << k, l >>
    BY CopyIs
  <2>2. PICK l \in DOMAIN e[k].arcs : c = << k, l >>
    BY <2>1
  <2>3. k \in DOMAIN m /\ l \in DOMAIN m[k].arcs /\ m[k].arcs[l] = e[k].arcs[l]
    BY <1>2, <2>2 DEF OneCount
  <2>4. CountsIn(e)[<< k, l >>] = e[k].arcs[l].count
    BY IsCopy
  <2>5. CountsIn(m)[<< k, l >>] = m[k].arcs[l].count
    BY <2>3, IsCopy
  <2>. QED
    BY <2>2, <2>3, <2>4, <2>5
<1>3. CountsIn(m)[<< i, j >>] = v /\ CountsIn(e)[<< i, j >>] = e[i].arcs[j].count
  <2>1. i \in DOMAIN m /\ j \in DOMAIN m[i].arcs /\ m[i].arcs[j].count = v
    BY DEF OneCount
  <2>2. CountsIn(m)[<< i, j >>] = m[i].arcs[j].count
    BY <2>1, IsCopy
  <2>. QED
    BY <2>1, <2>2, IsCopy
<1>4. \A c \in CopiesAt(e, a) : CountsIn(e)[c] \in Int /\ CountsIn(m)[c] \in Int
  BY <1>1, CountsType
<1>5. << i, j >> \in CopiesAt(e, a) <=> e[i].self = a[1] /\ e[i].arcs[j].from = a[2]
  BY IsCopy
<1>6. SumIn(e, a) \in Int
  BY SumTyped
<1>7. CASE << i, j >> \in CopiesAt(e, a)
  <2>1. PICK d \in Int : d = v - e[i].arcs[j].count
    BY <1>0
  <2>2. SumIn(m, a) = SumIn(e, a) + d
    <3>. DEFINE S == CopiesAt(e, a)
                x == CountsIn(e)
                y == CountsIn(m)
                c == << i, j >>
    <3>1. IsFiniteSet(S) /\ c \in S
      BY <1>7
    <3>2. \A z \in S : x[z] \in Int /\ y[z] \in Int
      BY <1>4
    <3>3. \A z \in S : z # c => x[z] = y[z]
      BY <1>2
    <3>4. /\ SumIn(m, a) = SumFunctionOnSet(y, S) /\ SumIn(e, a) = SumFunctionOnSet(x, S)
          /\ y[c] = v /\ x[c] = e[i].arcs[j].count
      BY <1>1, <1>3 DEF SumIn
    <3>5. y[c] = x[c] + d
      BY <1>0, <2>1, <3>4
    <3>. HIDE DEF S, x, y, c
    <3>6. SumFunctionOnSet(y, S) = SumFunctionOnSet(x, S) + d
      BY <3>1, <3>2, <3>3, <3>5, SumChanges
    <3>. QED
      BY <3>4, <3>6
  <2>. QED
    BY <1>1, <1>5, <1>7, <2>1, <2>2 DEF Grows
<1>8. CASE << i, j >> \notin CopiesAt(e, a)
  <2>1. \A c \in CopiesAt(e, a) : CountsIn(m)[c] = CountsIn(e)[c]
    BY <1>2, <1>8
  <2>2. SumIn(m, a) = SumIn(e, a)
    BY <1>1, <2>1, SumSame DEF SumIn
  <2>. QED
    BY <1>1, <1>5, <1>6, <1>8, <2>2 DEF Grows
<1>. QED
  BY <1>7, <1>8

LEMMA CountStored ==
  ASSUME NEW e \in Seq(FunctionEntries), NEW i \in DOMAIN e, NEW j \in DOMAIN e[i].arcs,
         NEW v \in Int, NEW a, IsFiniteSet(CopiesAt(e, a)), NEW m, m = Stored(e, i, j, v)
  PROVE  /\ m \in Seq(FunctionEntries) /\ Keeps(e, m)
         /\ e[i].self = a[1] /\ e[i].arcs[j].from = a[2] =>
              Grows(e, m, a, v - e[i].arcs[j].count)
         /\ e[i].self # a[1] \/ e[i].arcs[j].from # a[2] => Grows(e, m, a, 0)
<1>. DEFINE rec == [e[i].arcs[j] EXCEPT !.count = v]
            arcs == [e[i].arcs EXCEPT ![j] = rec]
            fun == [e[i] EXCEPT !.arcs = arcs]
<1>1. /\ e[i] \in FunctionEntries /\ e[i].arcs \in Seq(ArcEntries)
      /\ e[i].arcs[j] \in ArcEntries /\ e[i].arcs[j].count \in Int
  BY EntryFacts
<1>2. rec \in ArcEntries /\ rec.from = e[i].arcs[j].from /\ rec.count = v
  BY <1>1 DEF ArcEntries
<1>3. m = [e EXCEPT ![i] = fun]
  BY DEF Stored
<1>. HIDE DEF rec
<1>4. /\ arcs \in Seq(ArcEntries) /\ DOMAIN arcs = DOMAIN e[i].arcs /\ arcs[j] = rec
      /\ \A l \in DOMAIN e[i].arcs : l # j => arcs[l] = e[i].arcs[l]
  BY <1>1, <1>2, Replaced
<1>. HIDE DEF arcs
<1>5. fun \in FunctionEntries /\ fun.self = e[i].self /\ fun.arcs = arcs
  BY <1>1, <1>4 DEF FunctionEntries
<1>. HIDE DEF fun
<1>6. /\ m \in Seq(FunctionEntries) /\ DOMAIN m = DOMAIN e /\ m[i] = fun
      /\ \A k \in DOMAIN e : k # i => m[k] = e[k]
  <2>. DEFINE r == [e EXCEPT ![i] = fun]
  <2>1. /\ r \in Seq(FunctionEntries) /\ DOMAIN r = DOMAIN e /\ r[i] = fun
        /\ \A k \in DOMAIN e : k # i => r[k] = e[k]
    BY <1>5, Replaced
  <2>2. m = r
    BY <1>3
  <2>. HIDE DEF r
  <2>. QED
    BY <2>1, <2>2
<1>7. \A k \in DOMAIN e :
        /\ m[k].self = e[k].self /\ DOMAIN m[k].arcs = DOMAIN e[k].arcs
        /\ \A l \in DOMAIN e[k].arcs :
             /\ m[k].arcs[l].from = e[k].arcs[l].from
             /\ k # i \/ l # j => m[k].arcs[l] = e[k].arcs[l]
  BY <1>2, <1>4, <1>5, <1>6
<1>8. OneCount(e, m, i, j, v)
  <2>1. m[i].arcs[j].count = v
    BY <1>2, <1>4, <1>5, <1>6
  <2>. QED
    BY <1>6, <1>7, <2>1 DEF OneCount
<1>9. /\ e[i].self = a[1] /\ e[i].arcs[j].from = a[2] =>
           Grows(e, m, a, v - e[i].arcs[j].count)
      /\ e[i].self # a[1] \/ e[i].arcs[j].from # a[2] => Grows(e, m, a, 0)
  BY <1>6, <1>8, OtherCount
<1>10. Keeps(e, m)
  BY <1>6, <1>7 DEF Keeps
<1>. QED
  BY <1>6, <1>9, <1>10

(* The newest of some places, which a search finds.                        *)
LEMMA LargestOf ==
  ASSUME NEW n \in Nat, NEW S \in SUBSET (1 .. n), S # {}
  PROVE  Max(S) \in S
<1>. DEFINE Largest(t) == \E x \in t : \A y \in t : x >= y
            Bad == {t \in SUBSET S : t # {} /\ ~Largest(t)}
<1>1. IsFiniteSet(S)
  <2>1. IsFiniteSet(1 .. n)
    BY FS_Interval
  <2>. QED
    BY <2>1, FS_Subset
<1>2. Largest(S)
  <2>. SUFFICES ASSUME ~Largest(S) PROVE FALSE
    OBVIOUS
  <2>1. PICK s \in Bad : \A t \in SUBSET s : t # s => t \notin Bad
    <3>1. Bad \subseteq SUBSET S /\ Bad # {}
      OBVIOUS
    <3>. HIDE DEF Bad
    <3>. QED
      BY <1>1, <3>1, LeastSubset
  <2>2. PICK x \in s : TRUE
    OBVIOUS
  <2>. DEFINE r == s \ {x}
  <2>3. x \in Int /\ \A y \in s : y \in Int
    OBVIOUS
  <2>4. r # {}
    BY <2>3
  <2>5. Largest(r)
    BY <2>1, <2>4
  <2>6. PICK z \in r : \A y \in r : z >= y
    BY <2>5
  <2>7. Largest(s)
    BY <2>3, <2>6
  <2>. QED
    BY <2>7
<1>. QED
  BY <1>2 DEF Max

LEMMA NewestOf ==
  ASSUME NEW n \in Nat, NEW S \in SUBSET (1 .. n)
  PROVE  /\ Newest(S) = 0 \/ Newest(S) \in S
         /\ Newest(S) \in Nat
<1>1. CASE S = {}
  BY <1>1 DEF Newest
<1>2. CASE S # {}
  <2>1. Newest(S) = Max(S) /\ Max(S) \in S
    BY <1>2, LargestOf DEF Newest
  <2>2. \A y \in S : y \in Nat
    OBVIOUS
  <2>. QED
    BY <2>1, <2>2
<1>. QED
  BY <1>1, <1>2

LEMMA FunctionFound ==
  ASSUME entries \in Seq(FunctionEntries), NEW s
  PROVE  /\ FunctionOf(s) \in Nat
         /\ FunctionOf(s) = 0 \/
              (FunctionOf(s) \in DOMAIN entries /\ entries[FunctionOf(s)].self = s)
<1>. DEFINE S == {i \in DOMAIN entries : entries[i].self = s}
<1>1. S \in SUBSET (1 .. Len(entries)) /\ Len(entries) \in Nat
  OBVIOUS
<1>2. Newest(S) \in Nat /\ (Newest(S) = 0 \/ Newest(S) \in S)
  <2>. HIDE DEF S
  <2>. QED
    BY <1>1, NewestOf
<1>3. FunctionOf(s) = Newest(S)
  BY DEF FunctionOf
<1>. QED
  BY <1>2, <1>3

LEMMA ArcFound ==
  ASSUME entries \in Seq(FunctionEntries), NEW i \in DOMAIN entries, NEW f
  PROVE  /\ ArcOf(i, f) \in Nat
         /\ ArcOf(i, f) = 0 \/
              (ArcOf(i, f) \in DOMAIN entries[i].arcs /\ entries[i].arcs[ArcOf(i, f)].from = f)
<1>. DEFINE S == {j \in DOMAIN entries[i].arcs : entries[i].arcs[j].from = f}
<1>0. entries[i].arcs \in Seq(ArcEntries)
  BY EntryFacts
<1>1. S \in SUBSET (1 .. Len(entries[i].arcs)) /\ Len(entries[i].arcs) \in Nat
  BY <1>0
<1>2. Newest(S) \in Nat /\ (Newest(S) = 0 \/ Newest(S) \in S)
  <2>. HIDE DEF S
  <2>. QED
    BY <1>1, NewestOf
<1>3. ArcOf(i, f) = Newest(S)
  BY DEF ArcOf
<1>. QED
  BY <1>2, <1>3

----------------------------------------------------------------------------
(* What a call has found is in the lists, and every call is recorded, lost *)
(* or under way.                                                           *)
Found(l) == fn_entry[l] \in DOMAIN entries /\ entries[fn_entry[l]].self = self[l]

FoundArc(l) == /\ arc[l] \in DOMAIN entries[fn_entry[l]].arcs
               /\ entries[fn_entry[l]].arcs[arc[l]].from = from[l]

EntryAt(l) ==
  /\ step[l] \in {"arc", "load", "store", "link_arc"} => Found(l)
  /\ step[l] \in {"record", "clear", "init", "link_entry"} =>
       Found(l) \/ fn_entry[l] = 0
  /\ step[l] \in {"load", "store"} => FoundArc(l)

Calls(l, a) == IF step[l] # "idle" /\ << self[l], from[l] >> = a THEN 1 ELSE 0
Pending(a) == Calls("main", a) + Calls("irq", a)

Counted(a) ==
  /\ IsFiniteSet(CopiesAt(entries, a))
  /\ SumIn(entries, a) = calls[a] - lost[a] - Pending(a)

ListTypes ==
  /\ entries \in Seq(FunctionEntries)
  /\ self \in [Levels -> Functions] /\ from \in [Levels -> Callers]
  /\ fn_entry \in [Levels -> Nat] /\ arc \in [Levels -> Nat]
  /\ loaded \in [Levels -> Int]
  /\ calls \in [Arcs -> Int] /\ lost \in [Arcs -> Int]
  /\ step \in [Levels -> Steps]

CountInv == /\ ListTypes /\ \A l \in Levels : EntryAt(l)
            /\ \A a \in Arcs : Counted(a)

LEMMA CallsType == \A l : \A a : Calls(l, a) \in {0, 1}
BY DEF Calls

LEMMA Went ==
  ASSUME ListTypes, NEW l \in Levels, NEW now, NEW next \in Steps, Goes(l, now, next)
  PROVE  /\ step[l] = now /\ step' \in [Levels -> Steps] /\ step'[l] = next
         /\ \A k \in Levels : k # l => step'[k] = step[k]
BY DEF Goes, ListTypes

(* The other level's call still has what it found.                         *)
LEMMA OtherStays ==
  ASSUME CountInv, NEW l \in Levels, NEW k \in Levels, k # l,
         Keeps(entries, entries'), step'[k] = step[k], self'[k] = self[k],
         from'[k] = from[k], fn_entry'[k] = fn_entry[k], arc'[k] = arc[k]
  PROVE  EntryAt(k)'
<1>1. EntryAt(k)
  BY DEF CountInv
<1>2. Found(k) => Found(k)'
  BY DEF Found, Keeps
<1>3. Found(k) /\ FoundArc(k) => FoundArc(k)'
  BY DEF Found, FoundArc, Keeps
<1>. QED
  BY <1>1, <1>2, <1>3 DEF EntryAt

(* A step of a call under way that goes on, and counts nothing.            *)
LEMMA CallGoesOn ==
  ASSUME CountInv, NEW l \in Levels, NEW now, NEW next \in Steps, Goes(l, now, next),
         now # "idle", next # "idle", ListTypes', EntryAt(l)',
         UNCHANGED << self, from, calls, lost >>,
         \A k \in Levels : k # l => fn_entry'[k] = fn_entry[k] /\ arc'[k] = arc[k],
         Keeps(entries, entries'),
         \A a \in Arcs : IsFiniteSet(CopiesAt(entries', a))
                         /\ SumIn(entries', a) = SumIn(entries, a)
  PROVE  CountInv'
<1>1. /\ step[l] = now /\ step'[l] = next
      /\ \A k \in Levels : k # l => step'[k] = step[k]
  BY Went DEF CountInv
<1>2. \A k \in Levels : EntryAt(k)'
  <2>1. ASSUME NEW k \in Levels, k # l PROVE EntryAt(k)'
    BY <1>1, <2>1, OtherStays
  <2>. QED
    BY <2>1
<1>3. ASSUME NEW a \in Arcs PROVE Counted(a)'
  <2>1. \A k \in Levels : Calls(k, a)' = Calls(k, a)
    BY <1>1 DEF Calls
  <2>2. Pending(a)' = Pending(a)
    BY <2>1 DEF Pending, Levels
  <2>. QED
    BY <2>2 DEF CountInv, Counted
<1>. QED
  BY <1>2, <1>3 DEF CountInv

LEMMA ListsSame ==
  ASSUME CountInv, UNCHANGED entries
  PROVE  /\ Keeps(entries, entries')
         /\ \A a \in Arcs : IsFiniteSet(CopiesAt(entries', a))
                            /\ SumIn(entries', a) = SumIn(entries, a)
BY DEF CountInv, Counted, Keeps

LEMMA FindFunctionCounts == ASSUME CountInv, NEW l \in Levels, FindFunction(l) PROVE CountInv'
<1>. DEFINE found == FunctionOf(self[l])
            next == IF found = 0 THEN "record" ELSE "arc"
<1>1. /\ Goes(l, "function", next) /\ fn_entry' = [fn_entry EXCEPT ![l] = found]
      /\ UNCHANGED << entries, self, from, arc, loaded, calls, lost >>
  <2>1. Goes(l, "function", next) /\ fn_entry' = [fn_entry EXCEPT ![l] = found]
    BY DEF FindFunction
  <2>2. UNCHANGED << entries, self, from, arc, loaded, calls, lost >>
    BY DEF FindFunction, listVars
  <2>. QED
    BY <2>1, <2>2
<1>0. next \in {"record", "arc"} /\ next \in Steps /\ next # "idle"
  <2>1. CASE found = 0
    BY <2>1 DEF Steps
  <2>2. CASE found # 0
    BY <2>2 DEF Steps
  <2>. QED
    BY <2>1, <2>2
<1>2. /\ found \in Nat /\ (next = "record" <=> found = 0)
      /\ found = 0 \/ (found \in DOMAIN entries /\ entries[found].self = self[l])
  BY FunctionFound DEF CountInv, ListTypes
<1>. HIDE DEF found, next
<1>4. step' \in [Levels -> Steps] /\ step'[l] = next
  BY <1>0, <1>1, Went DEF CountInv
<1>5. /\ fn_entry' \in [Levels -> Nat] /\ fn_entry'[l] = found
      /\ \A k \in Levels : k # l => fn_entry'[k] = fn_entry[k]
  BY <1>1, <1>2 DEF CountInv, ListTypes
<1>6. ListTypes'
  BY <1>1, <1>4, <1>5 DEF CountInv, ListTypes
<1>7. EntryAt(l)'
  BY <1>0, <1>1, <1>2, <1>4, <1>5 DEF EntryAt, Found
<1>8. \A k \in Levels : k # l => fn_entry'[k] = fn_entry[k] /\ arc'[k] = arc[k]
  BY <1>1, <1>5
<1>. QED
  BY <1>0, <1>1, <1>6, <1>7, <1>8, CallGoesOn, ListsSame

LEMMA FindArcCounts == ASSUME CountInv, NEW l \in Levels, FindArc(l) PROVE CountInv'
<1>. DEFINE found == ArcOf(fn_entry[l], from[l])
            next == IF found = 0 THEN "record" ELSE "load"
<1>1. /\ Goes(l, "arc", next) /\ arc' = [arc EXCEPT ![l] = found]
      /\ UNCHANGED << entries, self, from, fn_entry, loaded, calls, lost >>
  <2>1. Goes(l, "arc", next) /\ arc' = [arc EXCEPT ![l] = found]
    BY DEF FindArc
  <2>2. UNCHANGED << entries, self, from, fn_entry, loaded, calls, lost >>
    BY DEF FindArc, listVars
  <2>. QED
    BY <2>1, <2>2
<1>0. next \in {"record", "load"} /\ next \in Steps /\ next # "idle"
  <2>1. CASE found = 0
    BY <2>1 DEF Steps
  <2>2. CASE found # 0
    BY <2>2 DEF Steps
  <2>. QED
    BY <2>1, <2>2
<1>2. Found(l) /\ step[l] = "arc"
  BY <1>1 DEF CountInv, EntryAt, Goes
<1>3. /\ found \in Nat /\ (next = "record" <=> found = 0)
      /\ found = 0 \/ (found \in DOMAIN entries[fn_entry[l]].arcs
                        /\ entries[fn_entry[l]].arcs[found].from = from[l])
  BY <1>2, ArcFound DEF CountInv, ListTypes, Found
<1>. HIDE DEF found, next
<1>5. step' \in [Levels -> Steps] /\ step'[l] = next
  BY <1>0, <1>1, Went DEF CountInv
<1>6. /\ arc' \in [Levels -> Nat] /\ arc'[l] = found
      /\ \A k \in Levels : k # l => arc'[k] = arc[k]
  <2>1. arc \in [Levels -> Nat] /\ found \in Nat
    BY <1>3 DEF CountInv, ListTypes
  <2>2. arc' = [arc EXCEPT ![l] = found]
    BY <1>1
  <2>. QED
    BY <2>1, <2>2
<1>7. ListTypes'
  BY <1>1, <1>5, <1>6 DEF CountInv, ListTypes
<1>8. EntryAt(l)'
  BY <1>0, <1>1, <1>2, <1>3, <1>5, <1>6 DEF EntryAt, Found, FoundArc
<1>9. \A k \in Levels : k # l => fn_entry'[k] = fn_entry[k] /\ arc'[k] = arc[k]
  BY <1>1, <1>6
<1>. QED
  BY <1>0, <1>1, <1>7, <1>8, <1>9, CallGoesOn, ListsSame

LEMMA LoadCounts == ASSUME CountInv, NEW l \in Levels, LoadCount(l) PROVE CountInv'
<1>1. /\ Goes(l, "load", "store") /\ loaded' = [loaded EXCEPT ![l] = Count(l)]
      /\ UNCHANGED << entries, self, from, fn_entry, arc, calls, lost >>
  BY DEF LoadCount, listVars
<1>2. Found(l) /\ FoundArc(l)
  BY <1>1 DEF CountInv, EntryAt, Goes
<1>3. Count(l) \in Int
  BY <1>2, EntryFacts DEF CountInv, ListTypes, Found, FoundArc, Count
<1>4. step' \in [Levels -> Steps] /\ step'[l] = "store"
  <2>1. "store" \in Steps /\ ListTypes
    BY DEF CountInv, Steps
  <2>. QED
    BY <1>1, <2>1, Went
<1>5. ListTypes'
  BY <1>1, <1>3, <1>4 DEF CountInv, ListTypes
<1>6. EntryAt(l)'
  BY <1>1, <1>2, <1>4 DEF EntryAt, Found, FoundArc
<1>. QED
  <2>1. "store" \in Steps /\ "store" # "idle" /\ "load" # "idle"
    BY DEF Steps
  <2>2. \A k \in Levels : k # l => fn_entry'[k] = fn_entry[k] /\ arc'[k] = arc[k]
    BY <1>1
  <2>3. Goes(l, "load", "store") /\ UNCHANGED << self, from, calls, lost >> /\ UNCHANGED entries
    BY <1>1
  <2>. QED
    BY <1>5, <1>6, <2>1, <2>2, <2>3, CallGoesOn, ListsSame

(* The steps of __mcount_record before it links anything.                  *)
LEMMA RecordCounts ==
  ASSUME CountInv, NEW l \in Levels, TestInit(l) \/ ClearInit(l) \/ nios2_pcsample_init(l)
  PROVE  CountInv'
<1>1. PICK now \in {"record", "clear", "init"} : \E next \in {"clear", "init", "link_entry"} :
        Goes(l, now, next)
  BY DEF TestInit, ClearInit, nios2_pcsample_init
<1>2. PICK next \in {"clear", "init", "link_entry"} : Goes(l, now, next)
  BY <1>1
<1>3. UNCHANGED << entries, self, from, fn_entry, arc, loaded, calls, lost >>
  BY DEF TestInit, ClearInit, nios2_pcsample_init, listVars
<1>4. /\ step[l] = now /\ step' \in [Levels -> Steps] /\ step'[l] = next
  <2>1. next \in Steps /\ ListTypes
    BY DEF CountInv, Steps
  <2>. QED
    BY <1>2, <2>1, Went
<1>5. Found(l) \/ fn_entry[l] = 0
  BY <1>4 DEF CountInv, EntryAt
<1>6. ListTypes'
  BY <1>3, <1>4 DEF CountInv, ListTypes
<1>7. EntryAt(l)'
  BY <1>3, <1>4, <1>5 DEF EntryAt, Found
<1>. QED
  <2>1. next \in Steps /\ next # "idle" /\ now # "idle"
    BY DEF Steps
  <2>2. \A k \in Levels : k # l => fn_entry'[k] = fn_entry[k] /\ arc'[k] = arc[k]
    BY <1>3
  <2>3. UNCHANGED << self, from, calls, lost >> /\ UNCHANGED entries
    BY <1>3
  <2>. QED
    BY <1>2, <1>6, <1>7, <2>1, <2>2, <2>3, CallGoesOn, ListsSame

(* A call begins.                                                          *)
LEMMA BeginCounts ==
  ASSUME CountInv, NEW l \in Levels, NEW s \in Functions, NEW f \in Callers, mcount(l, s, f)
  PROVE  CountInv'
<1>1. /\ Goes(l, "idle", "function")
      /\ self' = [self EXCEPT ![l] = s] /\ from' = [from EXCEPT ![l] = f]
      /\ calls' = [calls EXCEPT ![<< s, f >>] = @ + 1]
      /\ UNCHANGED << entries, fn_entry, arc, loaded, lost >>
  BY DEF mcount, listVars
<1>2. ListTypes
  BY DEF CountInv
<1>3. "function" \in Steps /\ << s, f >> \in Arcs
  BY DEF Steps, Arcs
<1>4. /\ step[l] = "idle" /\ step' \in [Levels -> Steps] /\ step'[l] = "function"
      /\ \A k \in Levels : k # l => step'[k] = step[k]
  BY <1>1, <1>2, <1>3, Went
<1>5. /\ self' \in [Levels -> Functions] /\ self'[l] = s
      /\ from' \in [Levels -> Callers] /\ from'[l] = f
      /\ \A k \in Levels : k # l => self'[k] = self[k] /\ from'[k] = from[k]
  BY <1>1, <1>2 DEF ListTypes
<1>6. /\ calls' \in [Arcs -> Int] /\ calls'[<< s, f >>] = calls[<< s, f >>] + 1
      /\ \A a \in Arcs : a # << s, f >> => calls'[a] = calls[a]
      /\ \A a \in Arcs : calls[a] \in Int /\ lost[a] \in Int
  <2>1. calls \in [Arcs -> Int] /\ lost \in [Arcs -> Int]
    BY <1>2 DEF ListTypes
  <2>2. calls' = [calls EXCEPT ![<< s, f >>] = calls[<< s, f >>] + 1]
    BY <1>1
  <2>3. \A a \in Arcs : calls[a] \in Int /\ lost[a] \in Int
    BY <2>1
  <2>4. PICK c \in Arcs : c = << s, f >>
    BY <1>3
  <2>5. calls' = [calls EXCEPT ![c] = calls[c] + 1] /\ calls[c] + 1 \in Int
    BY <2>2, <2>3, <2>4
  <2>6. calls' \in [Arcs -> Int] /\ calls'[c] = calls[c] + 1
        /\ \A a \in Arcs : a # c => calls'[a] = calls[a]
    BY <2>1, <2>5
  <2>. QED
    BY <2>3, <2>4, <2>6
<1>7. ListTypes'
  BY <1>1, <1>2, <1>4, <1>5, <1>6 DEF ListTypes
<1>8. ASSUME NEW k \in Levels PROVE EntryAt(k)'
  <2>1. CASE k = l
    BY <1>4, <2>1 DEF EntryAt
  <2>2. CASE k # l
    BY <1>1, <1>4, <1>5, <2>2, OtherStays, ListsSame
  <2>. QED
    BY <2>1, <2>2
<1>9. ASSUME NEW a \in Arcs PROVE Counted(a)'
  <2>1. \A k \in Levels : k # l => Calls(k, a)' = Calls(k, a)
    BY <1>4, <1>5 DEF Calls
  <2>2. Calls(l, a) = 0 /\ Calls(l, a)' = IF << s, f >> = a THEN 1 ELSE 0
    BY <1>4, <1>5 DEF Calls
  <2>3. Pending(a)' = Pending(a) + Calls(l, a)'
    <3>1. Calls("main", a) \in Int /\ Calls("irq", a) \in Int /\ Calls(l, a)' \in Int
      BY <2>2, CallsType
    <3>. QED
      BY <2>1, <2>2, <3>1 DEF Pending, Levels
  <2>4. Pending(a) \in Int
    BY CallsType DEF Pending
  <2>5. calls'[a] = calls[a] + Calls(l, a)' /\ Calls(l, a)' \in Int
    <3>1. CASE << s, f >> = a
      BY <1>6, <2>2, <3>1
    <3>2. CASE << s, f >> # a
      BY <1>6, <2>2, <3>2
    <3>. QED
      BY <3>1, <3>2
  <2>6. IsFiniteSet(CopiesAt(entries, a)) /\ SumIn(entries, a) = calls[a] - lost[a] - Pending(a)
    BY DEF CountInv, Counted
  <2>7. calls[a] \in Int /\ lost[a] \in Int
    BY <1>6
  <2>8. lost' = lost /\ entries' = entries
    BY <1>1
  <2>9. SumIn(entries, a) = calls'[a] - lost[a] - Pending(a)'
    BY <2>3, <2>4, <2>5, <2>6, <2>7
  <2>. QED
    BY <2>6, <2>8, <2>9 DEF Counted
<1>. QED
  BY <1>7, <1>8, <1>9 DEF CountInv

(* A call ends: what the lists and the losses grow by is one call of its   *)
(* arc, and nothing of the others.                                         *)
LEMMA CallEnds ==
  ASSUME CountInv, NEW l \in Levels, NEW now, now # "idle", Goes(l, now, "idle"),
         ListTypes', Keeps(entries, entries'),
         UNCHANGED << self, from, fn_entry, arc, calls >>,
         NEW d \in Int,
         \A a \in Arcs :
           /\ a = << self[l], from[l] >> =>
                Grows(entries, entries', a, d) /\ lost'[a] = lost[a] + (1 - d)
           /\ a # << self[l], from[l] >> =>
                Grows(entries, entries', a, 0) /\ lost'[a] = lost[a]
  PROVE  CountInv'
<1>1. ListTypes
  BY DEF CountInv
<1>2. /\ step[l] = now /\ step'[l] = "idle"
      /\ \A k \in Levels : k # l => step'[k] = step[k]
  <2>1. "idle" \in Steps
    BY DEF Steps
  <2>. QED
    BY <1>1, <2>1, Went
<1>3. ASSUME NEW k \in Levels PROVE EntryAt(k)'
  <2>1. CASE k = l
    BY <1>2, <2>1 DEF EntryAt
  <2>2. CASE k # l
    BY <1>2, <2>2, OtherStays
  <2>. QED
    BY <2>1, <2>2
<1>4. ASSUME NEW a \in Arcs PROVE Counted(a)'
  <2>1. \A k \in Levels : k # l => Calls(k, a)' = Calls(k, a)
    BY <1>2 DEF Calls
  <2>2. Calls(l, a)' = 0 /\ Calls(l, a) = IF << self[l], from[l] >> = a THEN 1 ELSE 0
    BY <1>2 DEF Calls
  <2>3. Pending(a) = Pending(a)' + Calls(l, a) /\ Pending(a)' \in Int /\ Calls(l, a) \in Int
    <3>1. Calls("main", a) \in Int /\ Calls("irq", a) \in Int /\ Calls(l, a) \in Int
      BY CallsType
    <3>2. Calls("main", a)' \in Int /\ Calls("irq", a)' \in Int
      BY <2>1, <2>2, <3>1 DEF Levels
    <3>. QED
      BY <2>1, <2>2, <3>1, <3>2 DEF Pending, Levels
  <2>4. IsFiniteSet(CopiesAt(entries, a)) /\ SumIn(entries, a) = calls[a] - lost[a] - Pending(a)
    BY DEF CountInv, Counted
  <2>5. calls[a] \in Int /\ lost[a] \in Int /\ calls'[a] = calls[a]
    BY <1>1 DEF ListTypes
  <2>6. CASE a = << self[l], from[l] >>
    <3>1. Grows(entries, entries', a, d) /\ lost'[a] = lost[a] + (1 - d)
      BY <2>6
    <3>2. Calls(l, a) = 1
      BY <2>2, <2>6
    <3>3. IsFiniteSet(CopiesAt(entries', a)) /\ SumIn(entries', a) = SumIn(entries, a) + d
      BY <3>1 DEF Grows
    <3>4. SumIn(entries', a) = calls'[a] - lost'[a] - Pending(a)'
      BY <2>3, <2>4, <2>5, <3>1, <3>2, <3>3
    <3>. QED
      BY <3>3, <3>4 DEF Counted
  <2>7. CASE a # << self[l], from[l] >>
    <3>1. Grows(entries, entries', a, 0) /\ lost'[a] = lost[a]
      BY <2>7
    <3>2. Calls(l, a) = 0
      BY <2>2, <2>7
    <3>3. IsFiniteSet(CopiesAt(entries', a)) /\ SumIn(entries', a) = SumIn(entries, a) + 0
      BY <3>1 DEF Grows
    <3>4. SumIn(entries', a) = calls'[a] - lost'[a] - Pending(a)'
      BY <2>3, <2>4, <2>5, <3>1, <3>2, <3>3
    <3>. QED
      BY <3>3, <3>4 DEF Counted
  <2>. QED
    BY <2>6, <2>7
<1>. QED
  BY <1>3, <1>4 DEF CountInv

(* An arc is a function and a caller.                                      *)
LEMMA ArcParts ==
  ASSUME NEW a \in Arcs, NEW s, NEW f
  PROVE  a = << s, f >> <=> s = a[1] /\ f = a[2]
BY DEF Arcs

LEMMA StoreCounts == ASSUME CountInv, NEW l \in Levels, StoreCount(l) PROVE CountInv'
<1>1. /\ Goes(l, "store", "idle")
      /\ entries' = [entries EXCEPT ![fn_entry[l]].arcs[arc[l]].count = loaded[l] + 1]
      /\ lost' = [lost EXCEPT ![<< self[l], from[l] >>] = @ + Count(l) - loaded[l]]
      /\ UNCHANGED << self, from, fn_entry, arc, loaded, calls >>
  BY DEF StoreCount
<1>2. ListTypes /\ Found(l) /\ FoundArc(l)
  BY <1>1 DEF CountInv, EntryAt, Goes
<1>. DEFINE i == fn_entry[l]
            j == arc[l]
            v == loaded[l] + 1
            own == << self[l], from[l] >>
<1>3. /\ entries \in Seq(FunctionEntries) /\ i \in DOMAIN entries
      /\ j \in DOMAIN entries[i].arcs /\ v \in Int /\ loaded[l] \in Int
      /\ entries[i].self = self[l] /\ entries[i].arcs[j].from = from[l]
      /\ Count(l) = entries[i].arcs[j].count
  BY <1>2 DEF ListTypes, Found, FoundArc, Count
<1>4. Count(l) \in Int
  BY <1>3, EntryFacts
<1>5. entries' = Stored(entries, i, j, v)
  BY <1>1 DEF Stored
<1>6. own \in Arcs
  BY <1>2 DEF ListTypes, Arcs
<1>. HIDE DEF i, j, v
<1>7. ASSUME NEW a \in Arcs
      PROVE  /\ entries' \in Seq(FunctionEntries) /\ Keeps(entries, entries')
             /\ entries[i].self = a[1] /\ entries[i].arcs[j].from = a[2] =>
                  Grows(entries, entries', a, v - entries[i].arcs[j].count)
             /\ entries[i].self # a[1] \/ entries[i].arcs[j].from # a[2] =>
                  Grows(entries, entries', a, 0)
  <2>1. IsFiniteSet(CopiesAt(entries, a))
    BY DEF CountInv, Counted
  <2>. QED
    BY <1>3, <1>5, <2>1, CountStored
<1>8. PICK d \in Int : d = v - entries[i].arcs[j].count
  BY <1>3, <1>4
<1>9. /\ lost' \in [Arcs -> Int] /\ lost'[own] = lost[own] + (1 - d)
      /\ \A a \in Arcs : a # own => lost'[a] = lost[a]
  <2>1. lost \in [Arcs -> Int] /\ lost[own] \in Int
    BY <1>2, <1>6 DEF ListTypes
  <2>2. lost[own] + Count(l) - loaded[l] = lost[own] + (1 - d)
    <3>1. PICK c \in Int : c = Count(l)
      BY <1>4
    <3>2. PICK k \in Int : k = loaded[l]
      BY <1>3
    <3>3. d = k + 1 - c
      <4>1. entries[i].arcs[j].count = c
        BY <1>3, <3>1
      <4>2. v = k + 1
        BY <3>2 DEF v
      <4>3. d = v - c
        BY <1>8, <4>1
      <4>. QED
        BY <4>2, <4>3
    <3>4. PICK o \in Int : o = lost[own]
      BY <2>1
    <3>5. o + c - k = o + (1 - d)
      BY <3>3
    <3>. QED
      BY <3>1, <3>2, <3>4, <3>5
  <2>3. lost' = [lost EXCEPT ![own] = lost[own] + Count(l) - loaded[l]]
    BY <1>1
  <2>4. PICK w \in Int : w = lost[own] + (1 - d)
    BY <2>1
  <2>5. w = lost[own] + Count(l) - loaded[l]
    BY <2>2, <2>4
  <2>6. lost' = [lost EXCEPT ![own] = w]
    BY <2>3, <2>5
  <2>. HIDE DEF own
  <2>7. lost' \in [Arcs -> Int] /\ lost'[own] = w
        /\ \A a \in Arcs : a # own => lost'[a] = lost[a]
    BY <1>6, <2>1, <2>6
  <2>. QED
    BY <2>4, <2>7
<1>10. Keeps(entries, entries') /\ entries' \in Seq(FunctionEntries)
  BY <1>6, <1>7
<1>11. step' \in [Levels -> Steps]
  <2>1. "idle" \in Steps
    BY DEF Steps
  <2>. QED
    BY <1>1, <1>2, <2>1, Went
<1>12. ListTypes'
  BY <1>1, <1>2, <1>9, <1>10, <1>11 DEF ListTypes
<1>13. ASSUME NEW a \in Arcs
       PROVE  /\ a = own => Grows(entries, entries', a, d) /\ lost'[a] = lost[a] + (1 - d)
              /\ a # own => Grows(entries, entries', a, 0) /\ lost'[a] = lost[a]
  <2>1. a = own <=> self[l] = a[1] /\ from[l] = a[2]
    BY ArcParts
  <2>2. CASE a = own
    BY <1>3, <1>7, <1>8, <1>9, <2>1, <2>2
  <2>3. CASE a # own
    BY <1>3, <1>7, <1>9, <2>1, <2>3
  <2>. QED
    BY <2>2, <2>3
<1>14. "store" # "idle" /\ UNCHANGED << self, from, fn_entry, arc, calls >>
  BY <1>1
<1>. QED
  BY <1>1, <1>10, <1>12, <1>13, <1>14, CallEnds

LEMMA LinkEntryCounts == ASSUME CountInv, NEW l \in Levels, LinkEntry(l) PROVE CountInv'
<1>1. /\ Goes(l, "link_entry", "link_arc")
      /\ UNCHANGED << self, from, arc, loaded, calls, lost >>
  BY DEF LinkEntry
<1>2. \/ /\ fn_entry[l] = 0 /\ entries' = NewEntry(self[l])
         /\ fn_entry' = [fn_entry EXCEPT ![l] = Len(entries')]
      \/ fn_entry[l] # 0 /\ UNCHANGED << entries, fn_entry >>
  BY DEF LinkEntry, listVars
<1>3. ListTypes
  BY DEF CountInv
<1>4. "link_arc" \in Steps /\ "link_arc" # "idle" /\ "link_entry" # "idle"
  BY DEF Steps
<1>5. /\ step[l] = "link_entry" /\ step' \in [Levels -> Steps] /\ step'[l] = "link_arc"
  BY <1>1, <1>3, <1>4, Went
<1>6. CASE fn_entry[l] = 0
  <2>1. /\ entries' = Append(entries, [self |-> self[l], arcs |-> << >>])
        /\ fn_entry' = [fn_entry EXCEPT ![l] = Len(entries')]
    BY <1>2, <1>6 DEF NewEntry
  <2>2. entries \in Seq(FunctionEntries) /\ self[l] \in Functions
    BY <1>3 DEF ListTypes
  <2>3. /\ entries' \in Seq(FunctionEntries) /\ Len(entries') = Len(entries) + 1
        /\ Len(entries') \in DOMAIN entries' /\ entries'[Len(entries')].self = self[l]
        /\ \A i \in DOMAIN entries : i \in DOMAIN entries' /\ entries'[i] = entries[i]
    <3>2. PICK a \in Arcs : a = << self[l], from[l] >>
      BY <1>3 DEF ListTypes, Arcs
    <3>3. IsFiniteSet(CopiesAt(entries, a))
      BY DEF CountInv, Counted
    <3>. QED
      BY <2>1, <2>2, <3>3, EntryAdded
  <2>4. \A a \in Arcs : IsFiniteSet(CopiesAt(entries', a))
                        /\ SumIn(entries', a) = SumIn(entries, a)
    <3>. SUFFICES ASSUME NEW a \in Arcs
                  PROVE  IsFiniteSet(CopiesAt(entries', a))
                         /\ SumIn(entries', a) = SumIn(entries, a)
      OBVIOUS
    <3>1. IsFiniteSet(CopiesAt(entries, a))
      BY DEF CountInv, Counted
    <3>. QED
      BY <2>1, <2>2, <3>1, EntryAdded
  <2>5. Keeps(entries, entries')
    BY <2>3 DEF Keeps
  <2>6. PICK n \in Nat : n = Len(entries')
    BY <2>3
  <2>7. /\ fn_entry' \in [Levels -> Nat] /\ fn_entry'[l] = n
        /\ \A k \in Levels : k # l => fn_entry'[k] = fn_entry[k]
    <3>1. fn_entry \in [Levels -> Nat] /\ fn_entry' = [fn_entry EXCEPT ![l] = n]
      BY <1>3, <2>1, <2>6 DEF ListTypes
    <3>. QED
      BY <3>1
  <2>8. ListTypes'
    BY <1>1, <1>3, <1>5, <2>3, <2>7 DEF ListTypes
  <2>9. EntryAt(l)'
    BY <1>1, <1>5, <2>3, <2>6, <2>7 DEF EntryAt, Found
  <2>10. \A k \in Levels : k # l => fn_entry'[k] = fn_entry[k] /\ arc'[k] = arc[k]
    BY <1>1, <2>7
  <2>11. UNCHANGED << self, from, calls, lost >>
    BY <1>1
  <2>. QED
    BY <1>1, <1>4, <2>4, <2>5, <2>8, <2>9, <2>10, <2>11, CallGoesOn
<1>7. CASE fn_entry[l] # 0
  <2>1. UNCHANGED << entries, fn_entry >>
    BY <1>2, <1>7
  <2>2. ListTypes'
    BY <1>1, <1>3, <1>5, <2>1 DEF ListTypes
  <2>3. Found(l)
    BY <1>5, <1>7 DEF CountInv, EntryAt
  <2>4. EntryAt(l)'
    BY <1>1, <1>5, <2>1, <2>3 DEF EntryAt, Found
  <2>5. \A k \in Levels : k # l => fn_entry'[k] = fn_entry[k] /\ arc'[k] = arc[k]
    BY <1>1, <2>1
  <2>6. UNCHANGED << self, from, calls, lost >> /\ UNCHANGED entries
    BY <1>1, <2>1
  <2>. QED
    BY <1>1, <1>4, <2>2, <2>4, <2>5, <2>6, CallGoesOn, ListsSame
<1>. QED
  BY <1>6, <1>7

LEMMA LinkArcCounts == ASSUME CountInv, NEW l \in Levels, LinkArc(l) PROVE CountInv'
<1>1. /\ Goes(l, "link_arc", "idle")
      /\ entries' = Linked(entries, fn_entry[l], from[l])
      /\ UNCHANGED << self, from, fn_entry, arc, loaded, calls, lost >>
  BY DEF LinkArc, Linked
<1>2. ListTypes /\ Found(l)
  BY <1>1 DEF CountInv, EntryAt, Goes
<1>. DEFINE i == fn_entry[l]
            f == from[l]
<1>3. /\ entries \in Seq(FunctionEntries) /\ i \in DOMAIN entries
      /\ f \in Callers /\ entries[i].self = self[l] /\ entries' = Linked(entries, i, f)
  BY <1>1, <1>2 DEF ListTypes, Found
<1>4. f = from[l]
  OBVIOUS
<1>. HIDE DEF i, f
<1>5. ASSUME NEW a \in Arcs
      PROVE  /\ entries' \in Seq(FunctionEntries) /\ Keeps(entries, entries')
             /\ entries[i].self = a[1] /\ f = a[2] => Grows(entries, entries', a, 1)
             /\ entries[i].self # a[1] \/ f # a[2] => Grows(entries, entries', a, 0)
  <2>1. IsFiniteSet(CopiesAt(entries, a))
    BY DEF CountInv, Counted
  <2>. QED
    BY <1>3, <2>1, ArcAdded
<1>6. Keeps(entries, entries') /\ entries' \in Seq(FunctionEntries)
  <2>1. << self[l], from[l] >> \in Arcs
    BY <1>2 DEF ListTypes, Arcs
  <2>. QED
    BY <1>5, <2>1
<1>7. step' \in [Levels -> Steps]
  <2>1. "idle" \in Steps
    BY DEF Steps
  <2>. QED
    BY <1>1, <1>2, <2>1, Went
<1>8. ListTypes'
  BY <1>1, <1>2, <1>6, <1>7 DEF ListTypes
<1>9. ASSUME NEW a \in Arcs
      PROVE  /\ a = << self[l], from[l] >> =>
                  Grows(entries, entries', a, 1) /\ lost'[a] = lost[a] + (1 - 1)
             /\ a # << self[l], from[l] >> =>
                  Grows(entries, entries', a, 0) /\ lost'[a] = lost[a]
  <2>1. a = << self[l], from[l] >> <=> self[l] = a[1] /\ from[l] = a[2]
    BY ArcParts
  <2>2. lost'[a] = lost[a] /\ lost[a] \in Int
    BY <1>1, <1>2 DEF ListTypes
  <2>3. lost'[a] = lost[a] + (1 - 1)
    BY <2>2
  <2>. QED
    BY <1>3, <1>4, <1>5, <2>1, <2>2, <2>3
<1>10. "link_arc" # "idle" /\ UNCHANGED << self, from, fn_entry, arc, calls >> /\ 1 \in Int
  BY <1>1
<1>. QED
  BY <1>1, <1>6, <1>8, <1>9, <1>10, CallEnds

(* The steps outside calls.                                                *)
LEMMA CountsSame ==
  ASSUME CountInv, UNCHANGED << entries, step, self, from, fn_entry, arc, loaded, calls, lost >>
  PROVE  CountInv'
<1>1. ListTypes'
  BY DEF CountInv, ListTypes
<1>2. ASSUME NEW k \in Levels PROVE EntryAt(k)'
  BY DEF CountInv, EntryAt, Found, FoundArc
<1>3. ASSUME NEW a \in Arcs PROVE Counted(a)'
  <2>1. Pending(a)' = Pending(a)
    BY DEF Pending, Calls
  <2>. QED
    BY <2>1 DEF CountInv, Counted
<1>. QED
  BY <1>1, <1>2, <1>3 DEF CountInv

LEMMA CountStart == ProfileInit => CountInv
<1>. SUFFICES ASSUME ProfileInit PROVE CountInv
  OBVIOUS
<1>1. /\ entries = << >> /\ step = [l \in Levels |-> "idle"]
      /\ fn_entry = [l \in Levels |-> 0] /\ arc = fn_entry /\ loaded = fn_entry
      /\ calls = [a \in Arcs |-> 0] /\ lost = calls
      /\ self \in [Levels -> Functions] /\ from \in [Levels -> Callers]
  BY ProfileAssumption DEF ProfileInit
<1>2. ListTypes
  <2>1. "idle" \in Steps
    BY DEF Steps
  <2>2. << >> \in Seq(FunctionEntries)
    OBVIOUS
  <2>. QED
    BY <1>1, <2>1, <2>2 DEF ListTypes
<1>3. ASSUME NEW l \in Levels PROVE EntryAt(l)
  BY <1>1 DEF EntryAt
<1>4. ASSUME NEW a \in Arcs PROVE Counted(a)
  <2>1. CopiesAt(entries, a) = {}
    BY <1>1, CopyIs
  <2>2. IsFiniteSet(CopiesAt(entries, a)) /\ SumIn(entries, a) = 0
    BY <2>1, FS_EmptySet, SumSteps DEF SumIn
  <2>3. Pending(a) = 0 /\ calls[a] = 0 /\ lost[a] = 0
    BY <1>1 DEF Pending, Calls, Levels
  <2>. QED
    BY <2>2, <2>3 DEF Counted
<1>. QED
  BY <1>2, <1>3, <1>4 DEF CountInv

LEMMA CountStep == CountInv /\ [ProfileNext]_profileVars => CountInv'
<1>. SUFFICES ASSUME CountInv, [ProfileNext]_profileVars PROVE CountInv'
  OBVIOUS
<1>1. CASE UNCHANGED profileVars
  BY <1>1, CountsSame DEF profileVars, listVars, callVars
<1>2. CASE StartClock \/ nios2_pcsample
  BY <1>2, CountsSame DEF StartClock, nios2_pcsample, listVars, callVars
<1>3. ASSUME NEW l \in Levels, NEW s \in Functions, NEW f \in Callers, mcount(l, s, f)
      PROVE  CountInv'
  BY <1>3, BeginCounts
<1>4. ASSUME NEW l \in Levels, FindFunction(l) \/ FindArc(l) \/ LoadCount(l) \/ StoreCount(l)
      PROVE  CountInv'
  BY <1>4, FindFunctionCounts, FindArcCounts, LoadCounts, StoreCounts
<1>5. ASSUME NEW l \in Levels, TestInit(l) \/ ClearInit(l) \/ nios2_pcsample_init(l)
      PROVE  CountInv'
  BY <1>5, RecordCounts
<1>6. ASSUME NEW l \in Levels, LinkEntry(l) \/ LinkArc(l)
      PROVE  CountInv'
  BY <1>6, LinkEntryCounts, LinkArcCounts
<1>. QED
  BY <1>1, <1>2, <1>3, <1>4, <1>5, <1>6 DEF ProfileNext

LEMMA CountInvCounts == CountInv => CallsCounted
<1>. SUFFICES ASSUME CountInv, \A l \in Levels : step[l] = "idle", NEW a \in Arcs
              PROVE  Recorded(a) = calls[a] - lost[a]
  BY DEF CallsCounted
<1>1. Recorded(a) = SumIn(entries, a)
  BY DEF Recorded, SumIn, ArcCounts, Copies, CountsIn, CopiesAt, Places, PlacesIn
<1>2. Pending(a) = 0
  BY DEF Pending, Calls, Levels
<1>3. calls[a] \in Int /\ lost[a] \in Int
  BY DEF CountInv, ListTypes
<1>. QED
  BY <1>1, <1>2, <1>3 DEF CountInv, Counted

----------------------------------------------------------------------------
(* HalProfile: the whole of it.                                            *)
ProfileInv == HeapInv /\ SamplerInv /\ CountInv

LEMMA ProfileStart == ProfileInit => ProfileInv
<1>. SUFFICES ASSUME ProfileInit PROVE ProfileInv
  OBVIOUS
<1>1. HeapInv
  BY HeapStart DEF ProfileInit
<1>2. step = [l \in Levels |-> "idle"] /\ pcsample_need_init = TRUE /\ alarms = 0
      /\ raced = FALSE /\ spilled = FALSE /\ textsize \in Nat
  BY ProfileAssumption DEF ProfileInit
<1>3. step \in [Levels -> Steps] /\ \A l \in Levels : step[l] = "idle"
  BY <1>2 DEF Steps
<1>4. OneStarts
  BY <1>2, <1>3 DEF OneStarts, Between, Levels
<1>. QED BY <1>1, <1>2, <1>3, <1>4, CountStart DEF ProfileInv, SamplerInv

LEMMA HeapSamplerStep ==
  HeapInv /\ SamplerInv /\ [ProfileNext]_profileVars => HeapInv' /\ SamplerInv'
<1>. SUFFICES ASSUME HeapInv, SamplerInv, [ProfileNext]_profileVars
              PROVE  HeapInv' /\ SamplerInv'
  OBVIOUS
<1>1. HeapInv /\ SamplerInv /\ textsize \in Nat
  BY DEF SamplerInv
<1>2. CASE UNCHANGED profileVars
  <2>1. SamplerInv'
    BY <1>1, <1>2 DEF profileVars, callVars, samplerVars, SamplerInv, OneStarts, Between
  <2>2. HeapInv'
    BY <1>1, <1>2, HeapStep DEF profileVars
  <2>. QED BY <2>1, <2>2
<1>3. ASSUME NEW l \in Levels, NEW s \in Functions, NEW f \in Callers, mcount(l, s, f)
      PROVE  HeapInv' /\ SamplerInv'
  <2>1. Goes(l, "idle", "function") /\ "function" \in Steps \ {"clear", "init"}
        /\ UNCHANGED << heapVars, samplerVars, textsize, spilled >>
    BY <1>3 DEF mcount, Steps
  <2>. QED BY <1>1, <2>1, OtherStep, HeapStep
<1>4. ASSUME NEW l \in Levels,
             FindFunction(l) \/ FindArc(l) \/ LoadCount(l) \/ StoreCount(l)
      PROVE  HeapInv' /\ SamplerInv'
  <2>1. UNCHANGED << heapVars, samplerVars, textsize, spilled >>
    BY <1>4 DEF FindFunction, FindArc, LoadCount, StoreCount
  <2>2. \E now \in Steps : \E next \in Steps \ {"clear", "init"} : Goes(l, now, next)
    BY <1>4 DEF FindFunction, FindArc, LoadCount, StoreCount, Steps
  <2>. QED BY <1>1, <2>1, <2>2, OtherStep, HeapStep
<1>5. ASSUME NEW l \in Levels, LinkEntry(l) \/ LinkArc(l)
      PROVE  HeapInv' /\ SamplerInv'
  <2>1. /\ UNCHANGED << samplerVars, textsize, spilled >>
        /\ mcount_allocate \/ UNCHANGED heapVars
    BY <1>5 DEF LinkEntry, LinkArc
  <2>2. \E now \in Steps : \E next \in Steps \ {"clear", "init"} : Goes(l, now, next)
    BY <1>5 DEF LinkEntry, LinkArc, Steps
  <2>. QED BY <1>1, <2>1, <2>2, OtherStep, AllocateKeeps
<1>6. ASSUME NEW l \in Levels, TestInit(l) \/ ClearInit(l)
      PROVE  HeapInv' /\ SamplerInv'
  <2>1. UNCHANGED heapVars
    BY <1>6 DEF TestInit, ClearInit
  <2>. QED BY <1>1, <1>6, <2>1, TestInitKeeps, ClearInitKeeps, HeapStep
<1>7. ASSUME NEW l \in Levels, nios2_pcsample_init(l)
      PROVE  HeapInv' /\ SamplerInv'
  BY <1>1, <1>7, SamplerInitKeeps, BufferKeeps
<1>8. CASE StartClock
  <2>1. UNCHANGED << heapVars, callVars, samplerVars, textsize, spilled >>
    BY <1>8 DEF StartClock
  <2>2. SamplerInv'
    BY <1>1, <2>1 DEF callVars, samplerVars, SamplerInv, OneStarts, Between
  <2>. QED BY <1>1, <2>1, <2>2, HeapStep
<1>9. CASE nios2_pcsample
  <2>1. UNCHANGED heapVars
    BY <1>9 DEF nios2_pcsample
  <2>. QED BY <1>1, <1>9, <2>1, SampleKeeps, HeapStep
<1>. QED BY <1>2, <1>3, <1>4, <1>5, <1>6, <1>7, <1>8, <1>9 DEF ProfileNext

LEMMA ProfileStep == ProfileInv /\ [ProfileNext]_profileVars => ProfileInv'
BY HeapSamplerStep, CountStep DEF ProfileInv

LEMMA ProfileInvSound == ProfileInv => ProfileSound /\ HeapSound
<1>. SUFFICES ASSUME ProfileInv PROVE ProfileSound /\ HeapSound
  OBVIOUS
<1>1. alarms > 1 => raced
  BY DEF ProfileInv, SamplerInv, OneStarts
<1>2. SamplerOnce
  BY <1>1 DEF ProfileInv, SamplerInv, SamplerOnce
<1>. QED BY <1>2, HeapInvSound, CountInvCounts DEF ProfileInv, ProfileSound

(* Between calls, the copies of an arc together hold its calls but for the *)
(* increments that a handler's call overwrote, whatever the functions, the *)
(* callers and the places where handlers run (alt_gmon.c:177); the         *)
(* sampling alarm is started once unless a handler was profiled between    *)
(* the test of pcsample_need_init and its clearing (alt_gmon.c:167), and a *)
(* sample is counted inside its buffer where the text ends with a bucket;  *)
(* the blocks that the profiler takes keep apart like the program's.       *)
THEOREM ProfileIsSound == ProfileSpec => [](ProfileSound /\ HeapSound)
BY ProfileStart, ProfileStep, ProfileInvSound, PTL DEF ProfileSpec

----------------------------------------------------------------------------
(* The small machines together, as MCServices runs them: each subject's    *)
(* steps leave the other machines alone, and the two that use the heap use *)
(* it through sbrk().                                                      *)
ServicesInv ==
  /\ lo \in Byte /\ hi \in Byte
  /\ TimerInv /\ TimeInv /\ LogInv /\ ProfileInv

LEMMA ServicesStart == ServicesInit => ServicesInv
<1>. SUFFICES ASSUME ServicesInit PROVE ServicesInv
  OBVIOUS
<1>1. TimerInv /\ TimeInv /\ LogInv /\ ProfileInv
  BY TimerStart, TimeStart, LogStart, ProfileStart DEF ServicesInit
<1>2. lo \in Byte /\ hi \in Byte
  BY DEF ServicesInit, Byte
<1>. QED BY <1>1, <1>2 DEF ServicesInv

LEMMA WordKept ==
  ASSUME lo \in Byte, hi \in Byte, NextWord \/ UNCHANGED wordVars
  PROVE  lo' \in Byte /\ hi' \in Byte
BY SMT DEF NextWord, wordVars, Byte

(* A step of one machine, or of none.                                      *)
LEMMA EachOnItsOwn ==
  ASSUME [ServicesNext]_servicesVars
  PROVE  /\ NextWord \/ UNCHANGED wordVars
         /\ [TimerNext]_timerVars /\ [ClockNext \/ SleepNext]_timeVars
         /\ [LogNext]_logVars
         /\ \/ [ProfileNext]_profileVars
            \/ HeapNext /\ UNCHANGED << entries, callVars, samplerVars, calls, lost,
                                       textsize, spilled >>
<1>1. CASE UNCHANGED servicesVars
  <2>1. UNCHANGED << wordVars, timerVars, timeVars, logVars, profileVars >>
    BY <1>1 DEF servicesVars
  <2>. QED BY <2>1
<1>2. CASE ServicesNext
  BY <1>2 DEF ServicesNext, listVars
<1>. QED BY <1>1, <1>2

LEMMA ServicesStep == ServicesInv /\ [ServicesNext]_servicesVars => ServicesInv'
<1>. SUFFICES ASSUME ServicesInv, [ServicesNext]_servicesVars PROVE ServicesInv'
  OBVIOUS
<1>1. lo' \in Byte /\ hi' \in Byte
  BY EachOnItsOwn, WordKept DEF ServicesInv
<1>2. TimerInv' /\ TimeInv' /\ LogInv'
  BY EachOnItsOwn, TimerStep, TimeStep, LogStep DEF ServicesInv
<1>3. ProfileInv'
  <2>1. CASE [ProfileNext]_profileVars
    BY <2>1, ProfileStep DEF ServicesInv
  <2>2. CASE HeapNext /\ UNCHANGED << entries, callVars, samplerVars, calls, lost,
                                     textsize, spilled >>
    <3>1. HeapInv'
      BY <2>2, HeapStep DEF ServicesInv, ProfileInv
    <3>2. SamplerInv'
      BY <2>2 DEF ServicesInv, ProfileInv, SamplerInv, OneStarts, Between, callVars,
                  samplerVars
    <3>3. CountInv'
      BY <2>2, CountsSame DEF ServicesInv, ProfileInv, callVars
    <3>. QED BY <3>1, <3>2, <3>3 DEF ProfileInv
  <2>. QED BY <2>1, <2>2, EachOnItsOwn
<1>. QED BY <1>1, <1>2, <1>3 DEF ServicesInv

(* For every pair of data bytes, sign extension and scaling keep the       *)
(* value, the digits are the value, each fits its output register, and the *)
(* panel shows them with their sign (main.c:166, seg_afficher).            *)
THEOREM ReadingsAreExact == ServicesSpec => []EveryReadingExact
<1>1. ServicesInv => EveryReadingExact
  <2>. SUFFICES ASSUME lo \in Byte, hi \in Byte PROVE EveryReadingExact
    BY DEF ServicesInv
  <2>. DEFINE raw == Combine(lo, hi)
  <2>1. raw \in Word
    BY CombineType
  <2>. HIDE DEF raw
  <2>2. /\ ConversionExact(raw) /\ DigitsExact(Scaled(Signed(raw)))
        /\ Reading(raw) \in Shown /\ PanelReadable(Reading(raw))
    BY <2>1, ConversionCorrect, ReadingType, DigitsCorrect, PanelCorrect
  <2>. QED BY <2>2 DEF EveryReadingExact, raw
<1>. QED BY <1>1, ServicesStart, ServicesStep, PTL DEF ServicesSpec

(* The machines keep their promises in the run that checks them together.  *)
THEOREM ServicesAreSound ==
  ServicesSpec => [](TimerExact /\ TimeExact /\ LogSound /\ HeapSound /\ ProfileSound)
<1>1. ServicesInv => TimerExact /\ TimeExact /\ LogSound /\ HeapSound /\ ProfileSound
  BY TimerInvExact, TimeInvExact, LogInvSound, ProfileInvSound DEF ServicesInv
<1>. QED BY <1>1, ServicesStart, ServicesStep, PTL DEF ServicesSpec
=============================================================================
