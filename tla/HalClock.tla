------------------------------ MODULE HalClock ------------------------------
(***************************************************************************)
(* The system clock of the HAL: the timer in free-running mode, its        *)
(* interrupt handler, the tick count of finite width and the linked list   *)
(* of alarms that alt_tick() walks while the callbacks it makes start and  *)
(* stop alarms.  Interrupts are disabled from the first to the last step   *)
(* of a tick, and around every change of the list made outside it.         *)
(***************************************************************************)
EXTENDS Integers

CONSTANTS
  U32,         \* values of an alt_u32
  Alarms,      \* the alt_alarm structures of the program
  Head,        \* alt_alarm_list
  Intervals,   \* ticks passed to alt_alarm_start()
  Periods      \* what a callback returns

(* A start U32 - 1 ticks ahead would come back to the present count; the   *)
(* interval is one of those the width of the count can tell apart.         *)
ASSUME ClockAssumption ==
  /\ U32 \in Nat \ {0, 1}
  /\ Head \notin Alarms
  /\ Intervals \subseteq 0 .. U32 - 2
  /\ Periods \subseteq 0 .. U32 - 1

VARIABLES
  running,      \* _alt_tick_rate is set and the timer counts
  timeout,      \* the TO bit of the timer
  nticks,       \* _alt_nticks
  links,        \* llist.next and llist.previous of the head and the alarms
  time,         \* alarm->time
  rollover,     \* alarm->rollover
  walk,         \* alt_tick(): what it does, the alarm it is at, the next one
  lost          \* the walk went on to an alarm no longer on the list

hardware == << running, timeout >>
alarms == << links, time, rollover >>
vars == << hardware, nticks, alarms, walk, lost >>

Entries == Alarms \cup {Head}

(***************************************************************************)
(* The list.  An entry that is not on it is linked to itself; before its   *)
(* first start its links are never read.                                   *)
(***************************************************************************)
Unlinked == [next |-> [e \in Entries |-> e], previous |-> [e \in Entries |-> e]]

OnList(a) == links.next[a] # a

(* A faulty alt_llist_insert: the old first entry keeps its previous.      *)
alt_llist_insert_unlinked(l, e) ==
  [next |-> [l.next EXCEPT ![e] = l.next[Head], ![Head] = e],
   previous |-> [l.previous EXCEPT ![e] = Head]]

alt_llist_insert(l, e) ==
  [next |-> [l.next EXCEPT ![e] = l.next[Head], ![Head] = e],
   previous |-> [l.previous EXCEPT ![e] = Head, ![l.next[Head]] = e]]

alt_llist_remove(l, e) ==
  [next |-> [l.next EXCEPT ![l.previous[e]] = l.next[e], ![e] = e],
   previous |-> [l.previous EXCEPT ![l.next[e]] = l.previous[e], ![e] = e]]

Idle == [stage |-> "idle", at |-> Head, next |-> Head]

Init ==
  /\ running = FALSE
  /\ timeout = FALSE
  /\ nticks = 0
  /\ links = Unlinked
  /\ time = [a \in Alarms |-> 0]
  /\ rollover = [a \in Alarms |-> FALSE]
  /\ walk = Idle
  /\ lost = FALSE

(***************************************************************************)
(* The timer.  It sets TO at the end of every period; a second period that *)
(* ends before the handler has cleared it leaves no trace.                 *)
(***************************************************************************)
alt_avalon_timer_sc_init ==
  /\ ~running
  /\ running' = TRUE
  /\ UNCHANGED << timeout, nticks, alarms, walk, lost >>

Expire ==
  /\ running
  /\ timeout' = TRUE
  /\ UNCHANGED << running, nticks, alarms, walk, lost >>

alt_avalon_timer_sc_irq ==
  /\ timeout
  /\ walk = Idle
  /\ timeout' = FALSE
  /\ nticks' = (nticks + 1) % U32
  /\ walk' = [Idle EXCEPT !.stage = "visit", !.at = links.next[Head]]
  /\ UNCHANGED << running, alarms, lost >>

(***************************************************************************)
(* alt_tick(): one alarm at a time.                                        *)
(***************************************************************************)
Clears(a) == rollover[a] /\ nticks = 0

(* A faulty Expired: the roll-over flag is not looked at.                  *)
Expired_no_rollover(a) == time[a] <= nticks

(* A faulty Expired: an alarm due now is left for the next tick.           *)
Expired_late(a) == time[a] < nticks /\ (rollover[a] => Clears(a))

Expired(a) == time[a] <= nticks /\ (rollover[a] => Clears(a))

Visit ==
  LET a == walk.at IN
  /\ walk.stage = "visit"
  /\ a # Head
  /\ rollover' = [rollover EXCEPT ![a] = @ /\ ~Clears(a)]
  /\ walk' = IF Expired(a)
             THEN [stage |-> "callback", at |-> a, next |-> links.next[a]]
             ELSE [walk EXCEPT !.at = links.next[a]]
  /\ UNCHANGED << hardware, nticks, links, time, lost >>

Leave ==
  /\ walk.stage = "visit"
  /\ walk.at = Head
  /\ walk' = Idle
  /\ UNCHANGED << hardware, nticks, alarms, lost >>

Rearm(a, n) ==
  LET t == (time[a] + n) % U32 IN
  /\ time' = [time EXCEPT ![a] = t]
  /\ rollover' = [rollover EXCEPT ![a] = @ \/ t < nticks]
  /\ UNCHANGED links

alt_alarm_stop(a) ==
  /\ links' = alt_llist_remove(links, a)
  /\ UNCHANGED << time, rollover >>

Answer(n) == IF n = 0 THEN alt_alarm_stop(walk.at) ELSE Rearm(walk.at, n)

NextGone == walk.next # Head /\ ~OnList(walk.next)

(* A faulty Return: the next entry is read after the callback.             *)
Return_reads_next(n) ==
  /\ walk.stage = "callback"
  /\ Answer(n)
  /\ walk' = [stage |-> "visit", at |-> links'.next[walk.at], next |-> Head]
  /\ lost' = (lost \/ NextGone)
  /\ UNCHANGED << hardware, nticks >>

Return(n) ==
  /\ walk.stage = "callback"
  /\ Answer(n)
  /\ walk' = [stage |-> "visit", at |-> walk.next, next |-> Head]
  /\ lost' = (lost \/ NextGone)
  /\ UNCHANGED << hardware, nticks >>

(***************************************************************************)
(* Calls of the program, with interrupts disabled, and of callbacks.       *)
(***************************************************************************)
MayCall(a) == walk = Idle \/ (walk.stage = "callback" /\ a # walk.at)

alt_alarm_start(a, n) ==
  LET t == (n + nticks + 1) % U32 IN
  /\ running
  /\ MayCall(a)
  /\ ~OnList(a)
  /\ time' = [time EXCEPT ![a] = t]
  /\ rollover' = [rollover EXCEPT ![a] = t < nticks]
  /\ links' = alt_llist_insert(links, a)
  /\ UNCHANGED << hardware, nticks, walk, lost >>

(* Stopping an alarm that is on the list.  One that was stopped before is   *)
(* linked to itself, and stopping it again changes nothing; one that was   *)
(* never started has null links (ALT_LLIST_ENTRY), which the program must  *)
(* not have the code follow.                                               *)
Stop(a) ==
  /\ walk.stage # "visit"
  /\ OnList(a)
  /\ alt_alarm_stop(a)
  /\ UNCHANGED << hardware, nticks, walk, lost >>

Step == Visit \/ Leave \/ \E n \in Periods : Return(n)

Next ==
  \/ alt_avalon_timer_sc_init
  \/ Expire
  \/ alt_avalon_timer_sc_irq
  \/ Step
  \/ \E a \in Alarms :
       \/ Stop(a)
       \/ \E n \in Intervals : alt_alarm_start(a, n)

Spec == Init /\ [][Next]_vars

(* The processor goes on with the handler, callbacks return, the timer     *)
(* runs freely, and the program does not keep interrupts disabled.         *)
FairSpec ==
  /\ Spec
  /\ WF_vars(Step)
  /\ WF_vars(Expire)
  /\ WF_vars(alt_avalon_timer_sc_irq)

(***************************************************************************)
(* Properties.                                                             *)
(***************************************************************************)
(* The list stays a ring whatever the callbacks start and stop: going on   *)
(* and back leads to the same entry, and the walk is at one of them        *)
(* (alt_llist_insert, alt_llist_remove, alt_tick).                         *)
ListIntact ==
  /\ links \in [next : [Entries -> Entries], previous : [Entries -> Entries]]
  /\ \A e \in Entries :
       links.previous[links.next[e]] = e /\ links.next[links.previous[e]] = e
  /\ walk \in [stage : {"idle", "visit", "callback"}, at : Entries,
               next : Entries]

(* The ticks until an alarm rings, from its time, its flag and the count.  *)
Remaining(a) ==
  IF OnList(a)
    THEN time[a] - nticks + (IF rollover[a] /\ nticks # 0 THEN U32 ELSE 0)
    ELSE -1

Promise == INSTANCE Alarms WITH
  NoAlarm <- Head,
  left <- [a \in Alarms |-> Remaining(a)],
  ringing <- IF walk.stage = "callback" THEN walk.at ELSE Head

(* An alarm rings when its ticks have elapsed, across the roll-over of the *)
(* count, whatever other callbacks do, and the clock does not move on past *)
(* an alarm that is due.  Nothing is promised once a callback has stopped  *)
(* the alarm after its own (alt_tick, alt_alarm_start).                    *)
RingsOnTime ==
  Promise!PromiseInit /\ [][lost' \/ Promise!PromiseNext]_(Promise!promised)

(* A tick comes to its end, unless a callback stopped the alarm that       *)
(* follows its own: alt_tick() has read it as the next one, and it is now  *)
(* linked to itself.                                                       *)
TickReturns == walk.stage # "idle" ~> (walk.stage = "idle" \/ lost)

(* A started alarm rings or is stopped.                                    *)
EveryAlarmRings ==
  \A a \in Alarms :
    OnList(a) ~> (~OnList(a) \/ lost \/ (walk.stage = "callback" /\ walk.at = a))
=============================================================================
