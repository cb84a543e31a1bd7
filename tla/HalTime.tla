------------------------------ MODULE HalTime ------------------------------
(***************************************************************************)
(* The time services of the HAL: the time of day kept from the tick count, *)
(* and the busy loop behind usleep().  The system clock's interrupt falls  *)
(* between any two statements.                                             *)
(***************************************************************************)
EXTENDS Integers

CONSTANTS
  TickWord,      \* values of alt_u32: 2^32
  ALT_US,        \* microseconds in a second
  Rates,         \* tick rates the board may have; 0: no system clock
  Times,         \* times settimeofday() is given, as [sec, usec]
  MaxTicks,      \* bound on the ticks of a behaviour
  INT_MAX, PerUs,  \* ALT_CPU_FREQ / (cycles_per_loop * 1000000)
  Sleeps         \* arguments of usleep()

ASSUME TimeAssumption ==
  /\ TickWord \in Nat \ {0} /\ ALT_US \in Nat \ {0} /\ MaxTicks \in Nat
  /\ Rates \subseteq Nat /\ Sleeps \subseteq Nat
  /\ Times \subseteq [sec : Nat, usec : 0 .. ALT_US - 1]
  /\ INT_MAX \in Nat \ {0} /\ PerUs \in 1 .. INT_MAX

VARIABLES
  rate, nticks,
  alt_resettime,
  at,            \* "user", or the statement a call is about to execute
  seen,          \* settimeofday: its nticks
  given,         \* the time last set
  ticked,        \* ticks since settimeofday read the count
  exact,         \* the product of settimeofday fitted its word
  us, big_loops, \* alt_busy_sleep: its variables
  spun, asked    \* turns of the busy loop made, and the microseconds asked for

timeVars == << rate, nticks, alt_resettime, at, seen, given, ticked, exact,
               us, big_loops, spun, asked >>
clockOnly == << rate, nticks, alt_resettime, seen, given, ticked, exact >>
sleepOnly == << us, big_loops, spun, asked >>

Unset == [sec |-> -1, usec |-> 0]

TimeInit ==
  /\ rate \in Rates /\ nticks = 0
  /\ alt_resettime = [sec |-> 0, usec |-> 0]
  /\ at = "user" /\ seen = 0 /\ given = Unset /\ ticked = 0 /\ exact = TRUE
  /\ us = 0 /\ big_loops = 0 /\ spun = 0 /\ asked = 0

Tick ==
  /\ rate # 0 /\ ticked < MaxTicks
  /\ nticks' = (nticks + 1) % TickWord
  /\ ticked' = ticked + 1
  /\ UNCHANGED << rate, alt_resettime, at, seen, given, exact, sleepOnly >>

----------------------------------------------------------------------------
(* settimeofday(): the count is read, then the two fields are written.     *)
Set(t) ==
  /\ at = "user" /\ rate # 0
  /\ at' = "set_sec" /\ seen' = nticks /\ given' = t /\ ticked' = 0
  /\ exact' = (nticks * (ALT_US \div rate) < TickWord)
  /\ UNCHANGED << rate, nticks, alt_resettime, sleepOnly >>

SetSec ==
  /\ at = "set_sec" /\ at' = "set_usec"
  /\ alt_resettime' = [alt_resettime EXCEPT !.sec = given.sec - (seen \div rate)]
  /\ UNCHANGED << rate, nticks, seen, given, ticked, exact, sleepOnly >>

(* The product is of two 32-bit words: it wraps.                           *)
SetUsec ==
  /\ at = "set_usec" /\ at' = "user"
  /\ alt_resettime' = [alt_resettime EXCEPT !.usec =
       given.usec - (((seen * (ALT_US \div rate)) % TickWord) % ALT_US)]
  /\ UNCHANGED << rate, nticks, seen, given, ticked, exact, sleepOnly >>

(* A faulty ALT_GETTIMEOFDAY: the product has 32 bits.                     *)
ElapsedInWord(n) == [sec |-> alt_resettime.sec + (n \div rate),
  usec |-> alt_resettime.usec + (((n * (ALT_US \div rate)) % TickWord) % ALT_US)]

(* The fields of gettimeofday() before its two loops: here the product has *)
(* 64 bits.                                                                *)
Elapsed(n) == [sec |-> alt_resettime.sec + (n \div rate),
               usec |-> alt_resettime.usec + ((n * (ALT_US \div rate)) % ALT_US)]

(* Borrow until usec is not negative, or sec runs out; then carry.         *)
Normalised(t) ==
  LET total == t.sec * ALT_US + t.usec IN
  IF t.usec < 0 /\ total < 0 THEN [sec |-> 0, usec |-> 0]
  ELSE [sec |-> total \div ALT_US, usec |-> total % ALT_US]

gettimeofday == IF rate = 0 THEN "ENOTSUP" ELSE Normalised(Elapsed(nticks))

alt_times == IF rate = 0 THEN 0 ELSE nticks

----------------------------------------------------------------------------
(* alt_busy_sleep(): big loops of INT_MAX turns, then the rest.            *)
Chunk == INT_MAX \div PerUs

usleep(n) ==
  /\ at = "user" /\ at' = "sleep"
  /\ us' = n /\ asked' = n /\ spun' = 0 /\ big_loops' = n \div Chunk
  /\ UNCHANGED clockOnly

BigLoop ==
  /\ at = "sleep" /\ big_loops > 0
  /\ us' = us - Chunk /\ big_loops' = big_loops - 1
  /\ spun' = spun + INT_MAX
  /\ UNCHANGED << at, clockOnly, asked >>

(* Turns of "subtract, branch back": until the count is 0 (bne), which a   *)
(* count that starts at 0 is only after it has wrapped; or while it is     *)
(* positive (bgt), at least one.                                           *)
UntilZero(n) == IF n = 0 THEN TickWord ELSE n
WhilePositive(n) == IF n = 0 THEN 1 ELSE n

Rest ==
  /\ at = "sleep" /\ big_loops = 0
  /\ at' = "user"
  /\ spun' = spun + (IF asked >= Chunk THEN UntilZero(us * PerUs)
                     ELSE WhilePositive(us * PerUs))
  /\ UNCHANGED << clockOnly, us, big_loops, asked >>

ClockNext == Tick \/ SetSec \/ SetUsec \/ \E t \in Times : Set(t)
SleepNext == BigLoop \/ Rest \/ \E n \in Sleeps : usleep(n)

TimeSpec == TimeInit /\ [][ClockNext \/ SleepNext]_timeVars

----------------------------------------------------------------------------
(* Properties.                                                             *)
(* gettimeofday() returns the time last set and what has elapsed since     *)
(* then, tick for tick, across every carry and borrow of the two fields;   *)
(* times() counts the same ticks.                                          *)
(* It needs what the code does not check: a rate that divides a second, a  *)
(* product that fitted settimeofday's word and a count that has not wrapped*)
(* (alt_gettod.c:79, alt_settod.c:76).                                     *)
TimeKept ==
  at \notin {"set_sec", "set_usec"} /\ rate # 0 /\ given # Unset /\ exact
  /\ ALT_US % rate = 0 /\ seen + ticked < TickWord =>
    LET total == given.usec + ticked * (ALT_US \div rate) IN
    /\ gettimeofday = [sec |-> given.sec + (total \div ALT_US),
                       usec |-> total % ALT_US]
    /\ alt_times = seen + ticked

(* usleep() turns the busy loop as often as the microseconds ask for and,  *)
(* beyond that, less than a microsecond's worth for each big loop: unless  *)
(* the big loops leave nothing over, when the count runs through its whole *)
(* word once more (alt_busy_sleep.c:112).                                  *)
SleepsAsLong ==
  at = "user" /\ asked # 0 =>
    /\ spun >= asked * PerUs
    /\ \/ spun < asked * PerUs + ((asked \div Chunk) + 1) * PerUs
       \/ asked >= Chunk /\ asked % Chunk = 0

(* Both services keep time, in a run that checks them together.            *)
TimeExact == TimeKept /\ SleepsAsLong
=============================================================================
