--------------------------- MODULE HalClockProofs ---------------------------
(***************************************************************************)
(* The list of alarms stays a ring, and the clock implements Alarms, for   *)
(* any number of alarms and any width of the count.                        *)
(***************************************************************************)
EXTENDS HalClock, Arithmetic

Ring(l) ==
  /\ l \in [next : [Entries -> Entries], previous : [Entries -> Entries]]
  /\ \A e \in Entries : l.previous[l.next[e]] = e /\ l.next[l.previous[e]] = e

WalkType ==
  walk \in [stage : {"idle", "visit", "callback"}, at : Entries, next : Entries]

(* Between the start and the end of a callback the alarm is not the head.  *)
WalkIs == WalkType /\ (walk.stage = "callback" => walk.at \in Alarms)

LEMMA HeadFacts == Head \in Entries /\ Head \notin Alarms /\ Alarms \subseteq Entries
BY ClockAssumption DEF Entries

(* Each entry has one predecessor: two with the same next are the same.    *)
LEMMA RingFacts ==
  ASSUME NEW l, Ring(l)
  PROVE  /\ l.next \in [Entries -> Entries] /\ l.previous \in [Entries -> Entries]
         /\ \A e \in Entries : l.next[e] \in Entries /\ l.previous[e] \in Entries
         /\ \A d, e \in Entries : l.next[d] = e <=> l.previous[e] = d
BY DEF Ring

LEMMA InsertKeepsRing ==
  ASSUME NEW l, Ring(l), NEW e \in Alarms, l.next[e] = e
  PROVE  Ring(alt_llist_insert(l, e))
<1>. DEFINE f == l.next[Head]
            n == [l.next EXCEPT ![e] = f, ![Head] = e]
            p == [l.previous EXCEPT ![e] = Head, ![f] = e]
<1>1. e \in Entries /\ Head \in Entries /\ e # Head /\ f \in Entries
  BY HeadFacts, RingFacts
<1>2. l.previous[e] = e /\ l.previous[f] = Head /\ f # e
  BY <1>1, RingFacts
<1>3. n \in [Entries -> Entries] /\ p \in [Entries -> Entries]
  BY <1>1, RingFacts
<1>4. /\ n[e] = f /\ n[Head] = e
      /\ \A d \in Entries : d # e /\ d # Head => n[d] = l.next[d]
      /\ p[e] = Head /\ p[f] = e
      /\ \A d \in Entries : d # e /\ d # f => p[d] = l.previous[d]
  BY <1>1, <1>2, RingFacts
<1>5. alt_llist_insert(l, e) = [next |-> n, previous |-> p]
  BY DEF alt_llist_insert
<1>. HIDE DEF n, p, f
<1>6. ASSUME NEW d \in Entries PROVE p[n[d]] = d /\ n[p[d]] = d
  <2>1. /\ d # e /\ d # Head => l.next[d] # e /\ l.next[d] # f
        /\ d # e /\ d # f => l.previous[d] # e /\ l.previous[d] # Head
    BY <1>1, <1>2, RingFacts DEF f
  <2>2. p[n[d]] = d
    BY <1>1, <1>2, <1>4, <2>1, RingFacts
  <2>3. n[p[d]] = d
    BY <1>1, <1>2, <1>4, <2>1, RingFacts
  <2>. QED
    BY <2>2, <2>3
<1>. QED
  BY <1>3, <1>5, <1>6 DEF Ring

LEMMA RemoveKeepsRing ==
  ASSUME NEW l, Ring(l), NEW e \in Entries
  PROVE  Ring(alt_llist_remove(l, e))
<1>. DEFINE f == l.next[e]
            b == l.previous[e]
            n == [l.next EXCEPT ![b] = f, ![e] = e]
            p == [l.previous EXCEPT ![f] = b, ![e] = e]
<1>1. f \in Entries /\ b \in Entries /\ l.previous[f] = e /\ l.next[b] = e
  BY RingFacts
<1>2. n \in [Entries -> Entries] /\ p \in [Entries -> Entries]
  BY <1>1, RingFacts
<1>3. /\ n[e] = e /\ p[e] = e
      /\ b # e => n[b] = f
      /\ f # e => p[f] = b
      /\ \A d \in Entries : d # e /\ d # b => n[d] = l.next[d]
      /\ \A d \in Entries : d # e /\ d # f => p[d] = l.previous[d]
  BY <1>1, RingFacts
<1>4. alt_llist_remove(l, e) = [next |-> n, previous |-> p]
  BY DEF alt_llist_remove
<1>5. b = e <=> f = e
  BY <1>1, RingFacts
<1>6. ASSUME NEW d \in Entries PROVE p[n[d]] = d /\ n[p[d]] = d
  <2>1. /\ d # e /\ d # b => l.next[d] # e /\ l.next[d] # f
        /\ d # e /\ d # f => l.previous[d] # e /\ l.previous[d] # b
    BY <1>1, RingFacts
  <2>. HIDE DEF n, p, f, b
  <2>2. p[n[d]] = d
    BY <1>1, <1>3, <1>5, <2>1, RingFacts
  <2>3. n[p[d]] = d
    BY <1>1, <1>3, <1>5, <2>1, RingFacts
  <2>. QED
    BY <2>2, <2>3
<1>. HIDE DEF n, p
<1>. QED
  BY <1>2, <1>4, <1>6 DEF Ring

----------------------------------------------------------------------------
ListInv == Ring(links) /\ WalkIs

LEMMA ListKeeps ==
  ASSUME ListInv, [Next]_vars
  PROVE  ListInv'
<1>0. /\ Ring(links) /\ WalkIs /\ WalkType /\ Idle.stage = "idle"
      /\ Idle.at = Head /\ Idle.next = Head /\ Idle \in
           [stage : {"idle", "visit", "callback"}, at : Entries, next : Entries]
  BY HeadFacts DEF ListInv, WalkIs, Idle
<1>1. CASE UNCHANGED << links, walk >>
  BY <1>1 DEF ListInv, WalkIs, WalkType
<1>2. CASE alt_avalon_timer_sc_irq
  <2>1. links.next[Head] \in Entries
    BY <1>0, HeadFacts, RingFacts
  <2>2. walk' = [Idle EXCEPT !.stage = "visit", !.at = links.next[Head]] /\ links' = links
    BY <1>2 DEF alt_avalon_timer_sc_irq, alarms
  <2>3. WalkIs'
    BY <2>1, <2>2, HeadFacts DEF Idle, WalkIs, WalkType
  <2>. QED
    BY <1>0, <2>2, <2>3 DEF ListInv
<1>3. CASE Visit
  <2>1. /\ walk.at \in Entries /\ walk.at # Head /\ walk.stage = "visit"
        /\ links.next[walk.at] \in Entries /\ links' = links
    BY <1>0, <1>3, RingFacts DEF Visit, WalkType
  <2>2. walk.at \in Alarms
    BY <2>1 DEF Entries
  <2>3. \/ walk' = [stage |-> "callback", at |-> walk.at, next |-> links.next[walk.at]]
        \/ walk' = [walk EXCEPT !.at = links.next[walk.at]]
    BY <1>3 DEF Visit
  <2>4. WalkIs'
    BY <1>0, <2>1, <2>2, <2>3 DEF WalkIs, WalkType
  <2>. QED
    BY <1>0, <2>1, <2>4 DEF ListInv
<1>4. CASE Leave
  BY <1>0, <1>4 DEF Leave, alarms, ListInv, WalkIs, WalkType
<1>5. ASSUME NEW n \in Periods, Return(n) PROVE ListInv'
  <2>1. /\ walk.stage = "callback" /\ walk.at \in Alarms /\ walk.at \in Entries
        /\ walk.next \in Entries
    BY <1>0, <1>5 DEF Return, WalkIs, WalkType
  <2>2. links' = links \/ links' = alt_llist_remove(links, walk.at)
    BY <1>5 DEF Return, Answer, alt_alarm_stop, Rearm
  <2>3. Ring(links')
    BY <1>0, <2>1, <2>2, RemoveKeepsRing
  <2>4. walk' = [stage |-> "visit", at |-> walk.next, next |-> Head]
    BY <1>5 DEF Return
  <2>5. WalkIs'
    BY <2>1, <2>4, HeadFacts DEF WalkIs, WalkType
  <2>. QED
    BY <2>3, <2>5 DEF ListInv
<1>6. ASSUME NEW a \in Alarms, Stop(a) PROVE ListInv'
  <2>1. links' = alt_llist_remove(links, a) /\ walk' = walk
    BY <1>6 DEF Stop, alt_alarm_stop
  <2>2. Ring(links')
    BY <1>0, <2>1, HeadFacts, RemoveKeepsRing
  <2>. QED
    BY <1>0, <2>1, <2>2 DEF ListInv, WalkIs, WalkType
<1>7. ASSUME NEW a \in Alarms, NEW n \in Intervals, alt_alarm_start(a, n) PROVE ListInv'
  <2>1. /\ links.next[a] = a /\ walk' = walk
        /\ links' = alt_llist_insert(links, a)
    BY <1>7 DEF alt_alarm_start, OnList
  <2>2. Ring(links')
    BY <1>0, <2>1, InsertKeepsRing
  <2>. QED
    BY <1>0, <2>1, <2>2 DEF ListInv, WalkIs, WalkType
<1>8. CASE UNCHANGED vars \/ alt_avalon_timer_sc_init \/ Expire
  BY <1>1, <1>8 DEF vars, alarms, alt_avalon_timer_sc_init, Expire
<1>. QED
  BY <1>2, <1>3, <1>4, <1>5, <1>6, <1>7, <1>8 DEF Next, Step

(* Whatever is started and stopped, by the program or by the callbacks of  *)
(* a tick, every alarm's neighbours point back at it, and the walk is at   *)
(* an entry.                                                               *)
THEOREM ListStaysIntact == Spec => []ListIntact
<1>1. Init => ListInv
  <2>1. Init => Ring(links)
    BY DEF Init, Unlinked, Ring
  <2>2. Init => WalkIs
    BY HeadFacts DEF Init, Idle, WalkIs, WalkType
  <2>. QED
    BY <2>1, <2>2 DEF ListInv
<1>2. ListInv => ListIntact
  BY DEF ListInv, ListIntact, Ring, WalkIs, WalkType
<1>3. ListInv /\ [Next]_vars => ListInv'
  BY ListKeeps
<1>. QED
  BY <1>1, <1>2, <1>3, PTL DEF Spec

----------------------------------------------------------------------------
(* The order of the list.  That going on and back leads to the same entry  *)
(* does not keep two alarms from following each other outside the list of  *)
(* the head.  The alarms of the list have places, of any integers, and the *)
(* next entry is the nearest place above: a new alarm goes below all of    *)
(* them, one that is removed leaves the others where they are.             *)
Listed(l) == {a \in Alarms : l.next[a] # a}

InOrder(l, p) ==
  /\ p \in [Alarms -> Int]
  /\ \A a \in Listed(l) : \A b \in Listed(l) : p[a] = p[b] => a = b
  /\ \A a \in Listed(l) : l.next[a] # Head => l.next[a] \in Listed(l) /\ p[a] < p[l.next[a]]
  /\ \A a \in Listed(l) : \A b \in Listed(l) :
       p[a] < p[b] => l.next[a] # Head /\ p[l.next[a]] <= p[b]
  /\ l.next[Head] # Head => l.next[Head] \in Listed(l)
  /\ \A b \in Listed(l) : l.next[Head] # Head /\ p[l.next[Head]] <= p[b]

LEMMA InsertLists ==
  ASSUME NEW l, Ring(l), NEW e \in Alarms, l.next[e] = e
  PROVE  /\ Listed(alt_llist_insert(l, e)) = Listed(l) \cup {e} /\ e \notin Listed(l)
         /\ alt_llist_insert(l, e).next = [l.next EXCEPT ![e] = l.next[Head], ![Head] = e]
         /\ l.next[Head] # e
<1>1. alt_llist_insert(l, e).next = [l.next EXCEPT ![e] = l.next[Head], ![Head] = e]
  BY DEF alt_llist_insert
<1>2. e \in Entries /\ Head \in Entries /\ e # Head /\ l.next[Head] # e
  BY HeadFacts, RingFacts
<1>3. \A a \in Alarms : alt_llist_insert(l, e).next[a] = IF a = e THEN l.next[Head] ELSE l.next[a]
  BY <1>1, <1>2, HeadFacts, RingFacts
<1>. QED
  BY <1>1, <1>2, <1>3 DEF Listed

LEMMA InsertInOrder ==
  ASSUME NEW l, Ring(l), NEW p, InOrder(l, p), NEW e \in Alarms, l.next[e] = e
  PROVE  \E q : /\ InOrder(alt_llist_insert(l, e), q)
                /\ \A a \in Listed(l) : q[a] = p[a] /\ q[e] < p[a]
<1>. DEFINE low == IF l.next[Head] = Head THEN 0 ELSE p[l.next[Head]] - 1
            q == [p EXCEPT ![e] = low]
            m == alt_llist_insert(l, e)
<1>1. p \in [Alarms -> Int] /\ low \in Int
  BY DEF InOrder, Listed
<1>2. /\ q \in [Alarms -> Int] /\ q[e] = low
      /\ \A a \in Alarms : a # e => q[a] = p[a]
  BY <1>1
<1>3. /\ Listed(m) = Listed(l) \cup {e} /\ e \notin Listed(l) /\ l.next[Head] # e
      /\ m.next = [l.next EXCEPT ![e] = l.next[Head], ![Head] = e]
  BY InsertLists
<1>4. /\ m.next[e] = l.next[Head] /\ m.next[Head] = e /\ e # Head
      /\ \A a \in Listed(l) : m.next[a] = l.next[a]
  BY <1>3, HeadFacts, RingFacts DEF Listed
<1>5. \A a \in Listed(l) : q[a] = p[a] /\ q[a] \in Int /\ low < p[a]
  <2>1. \A a \in Listed(l) : a \in Alarms /\ a # e /\ p[a] \in Int
    BY <1>1, <1>3 DEF Listed
  <2>2. \A a \in Listed(l) : l.next[Head] # Head /\ p[l.next[Head]] <= p[a]
    BY DEF InOrder
  <2>3. l.next[Head] # Head => p[l.next[Head]] \in Int
    BY <1>1 DEF InOrder, Listed
  <2>4. \A a \in Listed(l) : low < p[a]
    BY <2>1, <2>2, <2>3
  <2>. QED
    BY <1>2, <2>1, <2>4
<1>6. l.next[Head] # Head => l.next[Head] \in Listed(l)
  BY DEF InOrder
<1>. HIDE DEF low, q, m
<1>7. \A a \in Listed(m) : \A b \in Listed(m) : q[a] = q[b] => a = b
  <2>1. \A a \in Listed(l) : \A b \in Listed(l) : p[a] = p[b] => a = b
    BY DEF InOrder
  <2>. QED
    BY <1>1, <1>2, <1>3, <1>5, <2>1
<1>8. ASSUME NEW a \in Listed(m), m.next[a] # Head
      PROVE  m.next[a] \in Listed(m) /\ q[a] < q[m.next[a]]
  <2>1. CASE a = e
    BY <1>2, <1>3, <1>4, <1>5, <1>6, <1>8, <2>1
  <2>2. CASE a # e
    <3>1. a \in Listed(l) /\ m.next[a] = l.next[a]
      BY <1>3, <1>4, <2>2
    <3>2. l.next[a] \in Listed(l) /\ p[a] < p[l.next[a]]
      BY <1>8, <3>1 DEF InOrder
    <3>. QED
      BY <1>3, <1>5, <3>1, <3>2
  <2>. QED
    BY <2>1, <2>2
<1>9. ASSUME NEW a \in Listed(m), NEW b \in Listed(m), q[a] < q[b]
      PROVE  m.next[a] # Head /\ q[m.next[a]] <= q[b]
  <2>1. b \in Listed(l)
    BY <1>1, <1>2, <1>3, <1>5, <1>9
  <2>2. l.next[Head] # Head /\ p[l.next[Head]] <= p[b]
    BY <2>1 DEF InOrder
  <2>3. CASE a = e
    BY <1>4, <1>5, <1>6, <2>1, <2>2, <2>3
  <2>4. CASE a # e
    <3>1. a \in Listed(l) /\ m.next[a] = l.next[a] /\ p[a] < p[b]
      BY <1>3, <1>4, <1>5, <1>9, <2>1, <2>4
    <3>2. l.next[a] # Head /\ p[l.next[a]] <= p[b] /\ l.next[a] \in Listed(l)
      BY <2>1, <3>1 DEF InOrder
    <3>. QED
      BY <1>5, <2>1, <3>1, <3>2
  <2>. QED
    BY <2>3, <2>4
<1>10. \A b \in Listed(m) : m.next[Head] # Head /\ q[m.next[Head]] <= q[b]
  BY <1>1, <1>2, <1>3, <1>4, <1>5
<1>11. InOrder(m, q)
  BY <1>2, <1>3, <1>4, <1>7, <1>8, <1>9, <1>10 DEF InOrder
<1>. QED
  BY <1>2, <1>5, <1>11 DEF m

LEMMA RemoveFacts ==
  ASSUME NEW l, Ring(l), NEW p, InOrder(l, p), NEW e \in Alarms
  PROVE  InOrder(alt_llist_remove(l, e), p) /\ Listed(alt_llist_remove(l, e)) = Listed(l) \ {e}
<1>. DEFINE f == l.next[e]
            b == l.previous[e]
            m == alt_llist_remove(l, e)
<1>1. /\ e \in Entries /\ e # Head /\ Head \in Entries /\ f \in Entries /\ b \in Entries
      /\ l.previous[f] = e /\ l.next[b] = e
  BY HeadFacts, RingFacts
<1>2. m.next = [l.next EXCEPT ![b] = f, ![e] = e]
  BY DEF alt_llist_remove
<1>3. /\ m.next[e] = e
      /\ b # e => m.next[b] = f
      /\ \A d \in Entries : d # e /\ d # b => m.next[d] = l.next[d] /\ l.next[d] # e
  BY <1>1, <1>2, RingFacts
<1>4. b = e <=> f = e
  BY <1>1, RingFacts
<1>. HIDE DEF m
<1>5. CASE f = e
  <2>1. \A d \in Entries : m.next[d] = l.next[d]
    BY <1>1, <1>3, <1>4, <1>5
  <2>2. Listed(m) = Listed(l) /\ e \notin Listed(l)
    BY <1>5, <2>1, HeadFacts DEF Listed
  <2>3. Listed(l) \subseteq Entries
    BY HeadFacts DEF Listed
  <2>4. InOrder(m, p)
    BY <1>1, <2>1, <2>2, <2>3 DEF InOrder
  <2>. QED
    BY <2>2, <2>4 DEF m
<1>6. CASE f # e
  <2>1. e \in Listed(l)
    BY <1>6 DEF Listed
  <2>2. \A a \in Listed(l) : a \in Alarms /\ a \in Entries /\ p[a] \in Int
    BY HeadFacts DEF Listed, InOrder
  <2>3. f # Head => f \in Listed(l) /\ p[e] < p[f]
    BY <2>1 DEF InOrder
  <2>4. b # Head => b \in Listed(l) /\ p[b] < p[e] /\ f # b
    <3>1. b # Head => b \in Listed(l)
      BY <1>1, <1>4, <1>6 DEF Listed, Entries
    <3>2. b # Head => p[b] < p[e]
      BY <1>1, <3>1 DEF InOrder
    <3>. QED
      BY <2>1, <2>2, <2>3, <3>1, <3>2
  <2>5. /\ b # e => m.next[b] = f
        /\ \A d \in Listed(l) : d # e /\ d # b => m.next[d] = l.next[d] /\ l.next[d] # e
    BY <1>3, <2>2
  <2>6. Listed(m) = Listed(l) \ {e}
    <3>1. ASSUME NEW d \in Alarms PROVE m.next[d] # d <=> d \in Listed(l) /\ d # e
      <4>1. CASE d = e
        BY <1>3, <4>1
      <4>2. CASE d = b /\ d # e
        BY <1>3, <2>4, <4>2, HeadFacts
      <4>3. CASE d # b /\ d # e
        BY <1>3, <4>3, HeadFacts DEF Listed
      <4>. QED
        BY <4>1, <4>2, <4>3
    <3>. QED
      BY <3>1, <2>2 DEF Listed
  <2>7. ASSUME NEW c \in Listed(l), c # e, p[e] <= p[c]
        PROVE  f # Head /\ p[f] <= p[c]
    <3>1. p[e] # p[c]
      BY <2>1, <2>7 DEF InOrder
    <3>2. p[e] < p[c]
      BY <2>1, <2>2, <2>7, <3>1
    <3>. QED
      BY <2>1, <3>2 DEF InOrder
  <2>. HIDE DEF f, b
  <2>8. ASSUME NEW a \in Listed(m), m.next[a] # Head
        PROVE  m.next[a] \in Listed(m) /\ p[a] < p[m.next[a]]
    <3>1. a \in Listed(l) /\ a # e
      BY <2>6
    <3>2. CASE a = b
      <4>1. m.next[a] = f /\ f \in Listed(l) /\ p[e] < p[f] /\ p[b] < p[e]
        BY <1>3, <2>2, <2>3, <2>4, <2>8, <3>1, <3>2, HeadFacts
      <4>. QED
        BY <1>6, <2>1, <2>2, <2>6, <3>1, <3>2, <4>1
    <3>3. CASE a # b
      <4>1. m.next[a] = l.next[a] /\ l.next[a] # e
        BY <2>5, <3>1, <3>3
      <4>2. l.next[a] \in Listed(l) /\ p[a] < p[l.next[a]]
        BY <2>8, <3>1, <4>1 DEF InOrder
      <4>. QED
        BY <2>6, <4>1, <4>2
    <3>. QED
      BY <3>2, <3>3
  <2>9. ASSUME NEW a \in Listed(m), NEW c \in Listed(m), p[a] < p[c]
        PROVE  m.next[a] # Head /\ p[m.next[a]] <= p[c]
    <3>1. a \in Listed(l) /\ a # e /\ c \in Listed(l) /\ c # e
      BY <2>6
    <3>2. l.next[a] # Head /\ p[l.next[a]] <= p[c]
      BY <2>9, <3>1 DEF InOrder
    <3>3. CASE a = b
      BY <1>1, <2>5, <2>7, <3>1, <3>2, <3>3
    <3>4. CASE a # b
      BY <2>5, <3>1, <3>2, <3>4
    <3>. QED
      BY <3>3, <3>4
  <2>10. m.next[Head] # Head => m.next[Head] \in Listed(m)
    <3>1. CASE b = Head
      BY <1>1, <1>3, <1>6, <2>3, <2>6, <3>1
    <3>2. CASE b # Head
      <4>1. m.next[Head] = l.next[Head] /\ l.next[Head] # e
        BY <1>1, <1>3, <3>2
      <4>2. l.next[Head] # Head => l.next[Head] \in Listed(l)
        BY DEF InOrder
      <4>. QED
        BY <2>6, <4>1, <4>2
    <3>. QED
      BY <3>1, <3>2
  <2>11. ASSUME NEW c \in Listed(m)
         PROVE  m.next[Head] # Head /\ p[m.next[Head]] <= p[c]
    <3>1. c \in Listed(l) /\ c # e
      BY <2>6
    <3>2. l.next[Head] # Head /\ p[l.next[Head]] <= p[c]
      BY <3>1 DEF InOrder
    <3>3. CASE b = Head
      BY <1>1, <1>3, <2>7, <3>1, <3>2, <3>3
    <3>4. CASE b # Head
      BY <1>1, <1>3, <3>2, <3>4
    <3>. QED
      BY <3>3, <3>4
  <2>12. /\ p \in [Alarms -> Int]
         /\ \A a \in Listed(m) : \A c \in Listed(m) : p[a] = p[c] => a = c
    BY <2>6 DEF InOrder
  <2>13. InOrder(m, p)
    BY <2>8, <2>9, <2>10, <2>11, <2>12 DEF InOrder
  <2>. QED
    BY <2>6, <2>13 DEF m
<1>. QED
  BY <1>5, <1>6

----------------------------------------------------------------------------
(* The time of an alarm, its flag and the count of the clock, all within   *)
(* one word, as the ticks that are left.                                   *)
Count == 0 .. U32 - 1

Ticks(t, r, k) == t - k + (IF r /\ k # 0 THEN U32 ELSE 0)

LEMMA WordFacts == /\ U32 \in Nat \ {0} /\ 0 \in Count /\ Intervals \subseteq 0 .. U32 - 2
                   /\ Periods \subseteq Count
BY ClockAssumption DEF Count

(* The sum of two counts is the sum, or a word less and then below each.   *)
LEMMA SumWraps ==
  ASSUME NEW k \in Count, NEW n \in 1 .. U32 - 1
  PROVE  /\ (k + n) % U32 \in Count
         /\ \/ (k + n) % U32 = k + n
            \/ (k + n) % U32 = k + n - U32 /\ k # 0
         /\ (k + n) % U32 < k <=> (k + n) % U32 # k + n
<1>1. U32 \in Nat \ {0} /\ k + n \in 0 .. 2 * U32 - 1
  BY WordFacts DEF Count
<1>2. CASE k + n < U32
  <2>1. k + n \in 0 .. U32 - 1
    BY <1>1, <1>2
  <2>2. (k + n) % U32 = k + n
    BY <1>1, <2>1, MSame
  <2>. QED
    BY <1>1, <2>1, <2>2 DEF Count
<1>3. CASE k + n >= U32
  <2>1. k + n \in U32 .. 2 * U32 - 1
    BY <1>1, <1>3
  <2>2. (k + n) % U32 = k + n - U32
    <3>. DEFINE x == k + n
    <3>1. x \in U32 .. 2 * U32 - 1
      BY <2>1
    <3>. HIDE DEF x
    <3>2. x % U32 = x - U32
      BY <1>1, <3>1, MAbove
    <3>. QED
      BY <1>1, <3>2 DEF x, Count
  <2>. DEFINE s == (k + n) % U32
  <2>3. s = k + n - U32
    BY <2>2
  <2>. HIDE DEF s
  <2>4. s \in Count /\ k # 0 /\ s < k /\ s # k + n
    BY <1>1, <1>3, <2>3 DEF Count
  <2>. QED
    BY <2>2, <2>4 DEF s
<1>. QED
  BY <1>1, <1>2, <1>3

(* An alarm started, or armed again, for n ticks has n ticks left, whether *)
(* or not its time has gone through the word, and only one that has is     *)
(* flagged.                                                                *)
LEMMA ArmedTicks ==
  ASSUME NEW k \in Count, NEW n \in 1 .. U32 - 1, NEW r \in BOOLEAN,
         r <=> (k + n) % U32 < k
  PROVE  /\ (k + n) % U32 \in Count /\ Ticks((k + n) % U32, r, k) = n
         /\ k = 0 => ~r
<1>. DEFINE s == (k + n) % U32
<1>1. /\ s \in Count
      /\ \/ s = k + n
         \/ s = k + n - U32 /\ k # 0
      /\ s < k <=> s # k + n
  BY SumWraps
<1>2. U32 \in Nat /\ k \in Int /\ n \in Nat \ {0}
  BY WordFacts DEF Count
<1>. HIDE DEF s
<1>3. CASE s = k + n
  <2>1. ~r
    BY <1>1, <1>3 DEF s
  <2>. QED
    BY <1>1, <1>2, <1>3, <2>1 DEF Ticks, s
<1>4. CASE s # k + n
  <2>1. r /\ s = k + n - U32 /\ k # 0
    BY <1>1, <1>4 DEF s
  <2>2. s - k + U32 = n
    BY <1>2, <2>1
  <2>. QED
    BY <1>1, <2>1, <2>2 DEF Ticks, s
<1>. QED
  BY <1>3, <1>4

(* A tick takes one from the ticks left of an alarm, across the wrap of    *)
(* the count too.                                                          *)
LEMMA TickTicks ==
  ASSUME NEW t \in Count, NEW r \in BOOLEAN, NEW k \in Count,
         Ticks(t, r, k) > 0, k = 0 => ~r
  PROVE  (k + 1) % U32 \in Count /\ Ticks(t, r, (k + 1) % U32) = Ticks(t, r, k) - 1
<1>1. U32 \in Nat \ {0} /\ k \in 0 .. U32 - 1 /\ t \in 0 .. U32 - 1
  BY WordFacts DEF Count
<1>2. CASE k + 1 < U32
  <2>1. (k + 1) % U32 = k + 1
    BY <1>1, <1>2, MSame
  <2>2. k + 1 \in Count /\ k + 1 # 0
    BY <1>1, <1>2 DEF Count
  <2>3. Ticks(t, r, k + 1) = Ticks(t, r, k) - 1
    <3>1. CASE r
      BY <1>1, <2>2, <3>1 DEF Ticks
    <3>2. CASE ~r
      BY <1>1, <2>2, <3>2 DEF Ticks
    <3>. QED
      BY <3>1, <3>2
  <2>. QED
    BY <2>1, <2>2, <2>3
<1>3. CASE k = U32 - 1
  <2>1. (k + 1) % U32 = 0
    BY <1>1, <1>3
  <2>2. r /\ k # 0
    <3>1. CASE ~(r /\ k # 0)
      BY <1>1, <1>3, <3>1 DEF Ticks
    <3>. QED
      BY <3>1
  <2>3. Ticks(t, r, k) = t - k + U32 /\ Ticks(t, r, 0) = t
    BY <1>1, <2>2 DEF Ticks
  <2>. QED
    BY <1>1, <1>3, <2>1, <2>3, WordFacts
<1>. QED
  BY <1>1, <1>2, <1>3

(* An alarm not overdue is found expired when its ticks are over, and only *)
(* then.                                                                   *)
LEMMA ExpiredTicks ==
  ASSUME NEW t \in Count, NEW r \in BOOLEAN, NEW k \in Count, Ticks(t, r, k) >= 0
  PROVE  /\ t <= k /\ (r => k = 0) => t = k /\ Ticks(t, r, k) = 0
         /\ ~(t <= k /\ (r => k = 0)) => Ticks(t, r, k) > 0
         /\ Ticks(t, r /\ ~(r /\ k = 0), k) = Ticks(t, r, k)
<1>1. U32 \in Nat \ {0} /\ k \in 0 .. U32 - 1 /\ t \in 0 .. U32 - 1
  BY WordFacts DEF Count
<1>2. CASE r /\ k # 0
  BY <1>1, <1>2 DEF Ticks
<1>3. CASE ~(r /\ k # 0)
  BY <1>1, <1>3 DEF Ticks
<1>. QED
  BY <1>2, <1>3

----------------------------------------------------------------------------
(* What a tick has done of the list and what it has before it.             *)
Times == /\ nticks \in Count
         /\ time \in [Alarms -> Count] /\ rollover \in [Alarms -> BOOLEAN]

(* An alarm the tick is done with, or that was started since.              *)
Away(a) == Remaining(a) > 0 /\ (nticks = 0 => ~rollover[a])

(* The tick has passed alarm b when it comes to entry e.                   *)
Passed(e, b, p) == e = Head \/ p[b] < p[e]

NextKnown == walk.next = Head \/ walk.next \in Listed(links)

OnTime(p) ==
  /\ \A a \in Listed(links) : Remaining(a) >= 0
  /\ walk.stage = "idle" => \A b \in Listed(links) : Away(b)
  /\ walk.stage = "visit" =>
       /\ walk.at = Head \/ walk.at \in Listed(links)
       /\ \A b \in Listed(links) : Passed(walk.at, b, p) => Away(b)
  /\ walk.stage = "callback" =>
       /\ walk.next # walk.at
       /\ time[walk.at] = nticks /\ ~rollover[walk.at]
       /\ NextKnown =>
            \A b \in Listed(links) \ {walk.at} : Passed(walk.next, b, p) => Away(b)

ClockInv ==
  /\ ListInv /\ Times
  /\ ~lost => \E p : InOrder(links, p) /\ OnTime(p)

LEMMA RemainingIs ==
  /\ \A a \in Alarms : Remaining(a) =
       IF a \in Listed(links) THEN Ticks(time[a], rollover[a], nticks) ELSE -1
  /\ \A a \in Alarms : Remaining(a)' =
       IF a \in Listed(links') THEN Ticks(time'[a], rollover'[a], nticks') ELSE -1
BY DEF Remaining, OnList, Listed, Ticks

LEMMA RemainingInt ==
  ASSUME Times
  PROVE  \A a \in Alarms : Remaining(a) \in Int
<1>1. ASSUME NEW a \in Alarms PROVE Remaining(a) \in Int
  <2>1. time[a] \in Int /\ nticks \in Int /\ U32 \in Int
    BY WordFacts DEF Times, Count
  <2>2. Ticks(time[a], rollover[a], nticks) \in Int
    BY <2>1 DEF Ticks
  <2>. QED
    BY <2>2, RemainingIs
<1>. QED
  BY <1>1

LEMMA TimesKept ==
  ASSUME ListInv, Times, [Next]_vars
  PROVE  Times'
<1>1. CASE UNCHANGED << nticks, time, rollover >>
  BY <1>1 DEF Times
<1>2. CASE alt_avalon_timer_sc_irq
  <2>1. (nticks + 1) % U32 \in Count
    BY WordFacts, MRange DEF Times, Count
  <2>. QED
    BY <1>2, <2>1 DEF alt_avalon_timer_sc_irq, alarms, Times
<1>3. CASE Visit
  <2>. DEFINE r == rollover[walk.at] /\ ~Clears(walk.at)
  <2>1. r \in BOOLEAN
    BY DEF Clears
  <2>2. rollover' = [rollover EXCEPT ![walk.at] = r] /\ UNCHANGED << nticks, time >>
    BY <1>3 DEF Visit
  <2>. HIDE DEF r
  <2>. QED
    BY <2>1, <2>2 DEF Times
<1>4. ASSUME NEW n \in Periods, Return(n) PROVE Times'
  <2>1. CASE n = 0
    BY <1>4, <2>1 DEF Return, Answer, alt_alarm_stop, hardware, Times
  <2>2. CASE n # 0
    <3>. DEFINE t == (time[walk.at] + n) % U32
                r == rollover[walk.at] \/ t < nticks
    <3>1. walk.at \in Alarms
      BY <1>4 DEF ListInv, WalkIs, Return
    <3>2. time[walk.at] + n \in Int
      BY <3>1, WordFacts DEF Times, Count
    <3>3. t \in Count /\ r \in BOOLEAN
      BY <3>2, WordFacts, MRange DEF Count
    <3>4. /\ time' = [time EXCEPT ![walk.at] = t]
          /\ rollover' = [rollover EXCEPT ![walk.at] = r] /\ nticks' = nticks
      BY <1>4, <2>2 DEF Return, Answer, Rearm
    <3>. HIDE DEF t, r
    <3>. QED
      BY <3>3, <3>4 DEF Times
  <2>. QED
    BY <2>1, <2>2
<1>5. ASSUME NEW a \in Alarms, NEW n \in Intervals, alt_alarm_start(a, n) PROVE Times'
  <2>. DEFINE t == (n + nticks + 1) % U32
              r == t < nticks
  <2>1. n + nticks + 1 \in Int
    BY WordFacts DEF Times, Count
  <2>2. t \in Count
    BY <2>1, WordFacts, MRange DEF Count
  <2>3. /\ time' = [time EXCEPT ![a] = t] /\ rollover' = [rollover EXCEPT ![a] = r]
        /\ nticks' = nticks
    BY <1>5 DEF alt_alarm_start
  <2>. HIDE DEF t
  <2>4. r \in BOOLEAN
    OBVIOUS
  <2>. HIDE DEF r
  <2>. QED
    BY <2>2, <2>3, <2>4 DEF Times
<1>6. CASE \/ UNCHANGED vars \/ alt_avalon_timer_sc_init \/ Expire \/ Leave
           \/ \E a \in Alarms : Stop(a)
  BY <1>1, <1>6 DEF vars, alarms, alt_avalon_timer_sc_init, Expire, Leave, Stop,
                    alt_alarm_stop
<1>. QED
  BY <1>2, <1>3, <1>4, <1>5, <1>6 DEF Next, Step

(* Of two alarms the walk has passed the first when it comes to what       *)
(* follows the second, and is not at the second itself.                    *)
LEMMA PassedNext ==
  ASSUME NEW l, NEW p, InOrder(l, p), NEW a \in Listed(l), NEW b \in Listed(l),
         a # b, Passed(l.next[a], b, p)
  PROVE  Passed(a, b, p)
<1>1. p[a] \in Int /\ p[b] \in Int /\ p[a] # p[b]
  BY DEF InOrder, Listed
<1>2. l.next[a] # Head => p[l.next[a]] \in Int
  BY DEF InOrder, Listed
<1>3. p[a] < p[b] => l.next[a] # Head /\ p[l.next[a]] <= p[b]
  BY DEF InOrder
<1>. QED
  BY <1>1, <1>2, <1>3 DEF Passed

----------------------------------------------------------------------------
(* Each step of the clock is a step of the specification of the alarms, or *)
(* changes nothing of what they promise.                                   *)
Left == [a \in Alarms |-> Remaining(a)]
Ringing == IF walk.stage = "callback" THEN walk.at ELSE Head

(* A step of which the two sides know nothing, or one that they share.     *)
Promised == Promise!PromiseNext \/ UNCHANGED << Left, Ringing >>

(* What each step starts from, with the places of the alarms.              *)
Kept(p) == ListInv /\ Times /\ InOrder(links, p) /\ OnTime(p)

LEMMA LeftIs ==
  /\ \A a \in Alarms : Left[a] = Remaining(a) /\ Left'[a] = Remaining(a)'
  /\ Left = [a \in Alarms |-> Left[a]] /\ Left' = [a \in Alarms |-> Left'[a]]
BY DEF Left

LEMMA QuietSteps ==
  ASSUME NEW p, Kept(p), UNCHANGED << nticks, alarms, walk >>
  PROVE  InOrder(links, p)' /\ OnTime(p)' /\ Promised
<1>1. /\ nticks' = nticks /\ time' = time /\ rollover' = rollover /\ links' = links
      /\ walk' = walk
  BY DEF alarms
<1>2. \A a \in Alarms : Remaining(a)' = Remaining(a)
  BY <1>1, RemainingIs
<1>3. Left' = Left /\ Ringing' = Ringing
  BY <1>1, <1>2 DEF Left, Ringing
<1>4. InOrder(links, p)'
  BY <1>1 DEF Kept, InOrder
<1>5. \A a \in Alarms : Away(a)' <=> Away(a)
  BY <1>1, <1>2 DEF Away
<1>6. OnTime(p)'
  BY <1>1, <1>2, <1>5 DEF Kept, OnTime, NextKnown, Passed, Listed
<1>. QED
  BY <1>3, <1>4, <1>6 DEF Promised

(* The tick: a tick less for every alarm, and none of them was due.        *)
LEMMA TickOnTime ==
  ASSUME NEW p, Kept(p), alt_avalon_timer_sc_irq
  PROVE  InOrder(links, p)' /\ OnTime(p)' /\ Promised
<1>1. /\ walk = Idle /\ walk.stage = "idle" /\ walk' = [Idle EXCEPT !.stage = "visit", !.at = links.next[Head]]
      /\ links' = links /\ time' = time /\ rollover' = rollover
      /\ nticks' = (nticks + 1) % U32
  BY DEF alt_avalon_timer_sc_irq, alarms, Idle
<1>2. walk'.stage = "visit" /\ walk'.at = links.next[Head]
  BY <1>1 DEF Idle
<1>3. \A a \in Listed(links) : a \in Alarms /\ Remaining(a) > 0 /\ (nticks = 0 => ~rollover[a])
  BY <1>1 DEF Kept, OnTime, Away, Listed
<1>4. \A a \in Alarms : Remaining(a) \in Int
  BY RemainingInt DEF Kept
<1>5. ASSUME NEW a \in Listed(links) PROVE Remaining(a)' = Remaining(a) - 1
  <2>1. /\ a \in Alarms /\ time[a] \in Count /\ rollover[a] \in BOOLEAN /\ nticks \in Count
    BY <1>3 DEF Kept, Times
  <2>2. Remaining(a) = Ticks(time[a], rollover[a], nticks)
    BY <2>1, RemainingIs
  <2>3. Ticks(time[a], rollover[a], (nticks + 1) % U32) = Remaining(a) - 1
    BY <1>3, <2>1, <2>2, TickTicks
  <2>4. Remaining(a)' = Ticks(time'[a], rollover'[a], nticks')
    BY <1>1, <2>1, RemainingIs
  <2>. QED
    BY <1>1, <2>3, <2>4
<1>6. ASSUME NEW a \in Alarms, a \notin Listed(links)
      PROVE  Remaining(a)' = -1 /\ Remaining(a) = -1
  BY <1>1, <1>6, RemainingIs
<1>7. InOrder(links, p)'
  BY <1>1 DEF Kept, InOrder
<1>8. OnTime(p)'
  <2>1. \A a \in Listed(links') : Remaining(a)' >= 0
    BY <1>1, <1>3, <1>4, <1>5
  <2>2. walk'.at = Head \/ walk'.at \in Listed(links')
    BY <1>1, <1>2 DEF Kept, InOrder
  <2>3. ASSUME NEW b \in Listed(links), Passed(links.next[Head], b, p)
        PROVE  FALSE
    <3>1. links.next[Head] # Head /\ p[links.next[Head]] <= p[b]
      BY DEF Kept, InOrder
    <3>2. links.next[Head] \in Listed(links)
      BY <3>1 DEF Kept, InOrder
    <3>3. p[links.next[Head]] \in Int /\ p[b] \in Int
      BY <3>2 DEF Kept, InOrder, Listed
    <3>. QED
      BY <2>3, <3>1, <3>3 DEF Passed
  <2>. QED
    BY <1>1, <1>2, <2>1, <2>2, <2>3 DEF OnTime
<1>9. Promise!Elapsed
  <2>1. Ringing = Head /\ Ringing' = Head
    BY <1>1, <1>2 DEF Ringing
  <2>2. \A a \in Alarms : Remaining(a) # 0
    BY <1>3, <1>4, <1>6
  <2>3. \A a \in Alarms :
          Remaining(a)' = IF Remaining(a) = -1 THEN -1 ELSE Remaining(a) - 1
    BY <1>3, <1>4, <1>5, <1>6
  <2>. QED
    BY <2>1, <2>2, <2>3 DEF Promise!Elapsed, Promise!Off, Ringing
<1>. QED
  BY <1>7, <1>8, <1>9 DEF Promised, Promise!PromiseNext

(* The walk comes to an alarm: it rings if and only if its ticks are over. *)
LEMMA VisitOnTime ==
  ASSUME NEW p, Kept(p), Visit
  PROVE  InOrder(links, p)' /\ OnTime(p)' /\ Promised
<1>0. PICK a \in Entries : a = walk.at
  BY DEF Kept, ListInv, WalkIs, WalkType
<1>. DEFINE f == links.next[a]
            r == rollover[a] /\ ~(rollover[a] /\ nticks = 0)
<1>1. /\ walk.stage = "visit" /\ a \in Listed(links) /\ a \in Alarms /\ f # a
      /\ links' = links /\ time' = time /\ nticks' = nticks
      /\ rollover' = [rollover EXCEPT ![a] = r]
  BY <1>0 DEF Visit, Clears, Kept, OnTime, Listed
<1>2. /\ time[a] \in Count /\ rollover[a] \in BOOLEAN /\ nticks \in Count
      /\ rollover \in [Alarms -> BOOLEAN]
  BY <1>1 DEF Kept, Times
<1>3. /\ rollover'[a] = r
      /\ \A b \in Alarms : b # a => rollover'[b] = rollover[b]
      /\ \A b \in Alarms : rollover'[b] => rollover[b]
  <2>1. rollover'[a] = r /\ \A b \in Alarms : b # a => rollover'[b] = rollover[b]
    BY <1>1, <1>2
  <2>. QED
    BY <2>1
<1>4. /\ Remaining(a) = Ticks(time[a], rollover[a], nticks) /\ Remaining(a) >= 0
      /\ Remaining(a)' = Ticks(time[a], r, nticks)
  <2>1. Remaining(a) >= 0
    BY <1>1 DEF Kept, OnTime
  <2>2. Remaining(a) = Ticks(time[a], rollover[a], nticks)
    BY <1>1, RemainingIs
  <2>3. Remaining(a)' = Ticks(time'[a], rollover'[a], nticks')
    BY <1>1, RemainingIs
  <2>. QED
    BY <1>1, <1>3, <2>1, <2>2, <2>3
<1>5. Ticks(time[a], r, nticks) = Remaining(a)
  BY <1>2, <1>4, ExpiredTicks
<1>6. \A b \in Alarms : Remaining(b)' = Remaining(b)
  BY <1>1, <1>3, <1>4, <1>5, RemainingIs
<1>7. \A b \in Alarms : Away(b) => Away(b)'
  BY <1>1, <1>3, <1>6 DEF Away
<1>8. /\ \A b \in Listed(links) : Passed(a, b, p) => Away(b)
      /\ a # Head /\ walk \in [stage : {"idle", "visit", "callback"}, at : Entries, next : Entries]
  BY <1>0, <1>1, HeadFacts DEF Kept, OnTime, ListInv, WalkIs, WalkType
<1>9. ASSUME NEW b \in Listed(links), b # a, Passed(f, b, p)
      PROVE  Away(b)'
  <2>1. Passed(a, b, p)
    BY <1>1, <1>9, PassedNext DEF Kept
  <2>. QED
    BY <1>7, <1>8, <2>1 DEF Listed
<1>10. Left' = Left
  BY <1>6 DEF Left
<1>11. InOrder(links, p)'
  BY <1>1 DEF Kept, InOrder
<1>12. \A b \in Listed(links') : Remaining(b)' >= 0
  BY <1>1, <1>6 DEF Kept, OnTime, Listed
<1>13. f = Head \/ f \in Listed(links)
  BY <1>1 DEF Kept, InOrder
<1>14. CASE Expired(a)
  <2>1. time[a] <= nticks /\ (rollover[a] => nticks = 0)
    BY <1>14 DEF Expired, Clears
  <2>2. time[a] = nticks /\ Remaining(a) = 0
    BY <1>2, <1>4, <2>1, ExpiredTicks
  <2>3. ~r
    BY <2>1
  <2>4. walk' = [stage |-> "callback", at |-> a, next |-> f]
    BY <1>0, <1>14 DEF Visit
  <2>. HIDE DEF f, r
  <2>5. walk'.stage = "callback" /\ walk'.at = a /\ walk'.next = f
    BY <2>4
  <2>6. OnTime(p)'
    BY <1>1, <1>3, <1>9, <1>12, <2>2, <2>3, <2>5 DEF OnTime
  <2>7. Ringing = Head /\ Ringing' = a
    BY <1>1, <2>5 DEF Ringing
  <2>8. Promise!Rings(a)
    BY <1>1, <1>10, <2>2, <2>7 DEF Promise!Rings, Left, Ringing
  <2>. QED
    BY <1>1, <1>11, <2>6, <2>8 DEF Promised, Promise!PromiseNext
<1>15. CASE ~Expired(a)
  <2>1. ~(time[a] <= nticks /\ (rollover[a] => nticks = 0))
    BY <1>15 DEF Expired, Clears
  <2>2. Remaining(a) > 0
    BY <1>2, <1>4, <2>1, ExpiredTicks
  <2>3. Away(a)'
    BY <1>1, <1>2, <1>3, <1>6, <2>2 DEF Away
  <2>4. walk' = [walk EXCEPT !.at = f]
    BY <1>0, <1>15 DEF Visit
  <2>5. walk'.stage = "visit" /\ walk'.at = f
    BY <1>1, <1>8, <2>4
  <2>. HIDE DEF f, r
  <2>6. OnTime(p)'
    BY <1>1, <1>9, <1>12, <1>13, <2>3, <2>5 DEF OnTime
  <2>7. Ringing' = Ringing
    BY <1>1, <2>5 DEF Ringing
  <2>. QED
    BY <1>10, <1>11, <2>6, <2>7 DEF Promised
<1>. QED
  BY <1>14, <1>15

(* The walk is back at the head, past every alarm.                         *)
LEMMA LeaveOnTime ==
  ASSUME NEW p, Kept(p), Leave
  PROVE  InOrder(links, p)' /\ OnTime(p)' /\ Promised
<1>1. /\ walk.stage = "visit" /\ walk.at = Head /\ walk'.stage = "idle"
      /\ links' = links /\ time' = time /\ nticks' = nticks /\ rollover' = rollover
  BY DEF Leave, alarms, Idle
<1>2. \A a \in Alarms : Remaining(a)' = Remaining(a)
  BY <1>1, RemainingIs
<1>3. \A b \in Listed(links) : Away(b) /\ b \in Alarms
  BY <1>1 DEF Kept, OnTime, Passed, Listed
<1>4. \A b \in Listed(links) : Away(b)'
  BY <1>1, <1>2, <1>3 DEF Away
<1>5. \A b \in Listed(links) : Remaining(b)' >= 0
  BY <1>1, <1>2, <1>3 DEF Kept, OnTime
<1>6. OnTime(p)' /\ InOrder(links, p)'
  BY <1>1, <1>4, <1>5 DEF OnTime, Kept, InOrder
<1>7. Left' = Left /\ Ringing' = Ringing
  BY <1>1, <1>2 DEF Left, Ringing
<1>. QED
  BY <1>6, <1>7 DEF Promised

(* An alarm that goes off the list, by a call or by a callback's answer,   *)
(* leaves the others with their ticks and in their order.                  *)
LEMMA OthersKept ==
  ASSUME NEW p, Kept(p), NEW a \in Alarms, alt_alarm_stop(a), nticks' = nticks
  PROVE  /\ InOrder(links, p)' /\ Listed(links') = Listed(links) \ {a}
         /\ time' = time /\ rollover' = rollover
         /\ Remaining(a)' = -1
         /\ \A b \in Alarms : b # a => Remaining(b)' = Remaining(b) /\ (Away(b)' <=> Away(b))
         /\ Left' = [Left EXCEPT ![a] = -1]
<1>1. links' = alt_llist_remove(links, a) /\ time' = time /\ rollover' = rollover
  BY DEF alt_alarm_stop
<1>2. InOrder(links', p) /\ Listed(links') = Listed(links) \ {a}
  BY <1>1, RemoveFacts DEF Kept, ListInv
<1>3. Remaining(a)' = -1
  BY <1>2, RemainingIs
<1>4. \A b \in Alarms : b # a => Remaining(b)' = Remaining(b)
  BY <1>1, <1>2, RemainingIs
<1>5. \A b \in Alarms : b # a => (Away(b)' <=> Away(b))
  BY <1>1, <1>4 DEF Away
<1>6. Left' = [Left EXCEPT ![a] = -1]
  BY <1>3, <1>4 DEF Left
<1>7. InOrder(links, p)'
  BY <1>2 DEF InOrder
<1>. QED
  BY <1>1, <1>2, <1>3, <1>4, <1>5, <1>6, <1>7

LEMMA StopOnTime ==
  ASSUME NEW p, Kept(p), NEW a \in Alarms, Stop(a)
  PROVE  InOrder(links, p)' /\ OnTime(p)' /\ Promised
<1>1. walk' = walk /\ nticks' = nticks /\ alt_alarm_stop(a) /\ walk.stage # "visit"
  BY DEF Stop
<1>2. /\ InOrder(links, p)' /\ Listed(links') = Listed(links) \ {a}
      /\ time' = time /\ rollover' = rollover
      /\ \A b \in Alarms : b # a => Remaining(b)' = Remaining(b) /\ (Away(b)' <=> Away(b))
      /\ Left' = [Left EXCEPT ![a] = -1]
  BY <1>1, OthersKept
<1>3. \A b \in Listed(links') : b \in Alarms /\ b # a /\ b \in Listed(links)
  BY <1>2 DEF Listed
<1>4. \A b \in Listed(links') : Remaining(b)' >= 0
  BY <1>2, <1>3 DEF Kept, OnTime
<1>5. walk.stage = "idle" => \A b \in Listed(links') : Away(b)'
  BY <1>2, <1>3 DEF Kept, OnTime
<1>6. ASSUME walk.stage = "callback"
      PROVE  /\ walk'.next # walk'.at /\ time'[walk'.at] = nticks' /\ ~rollover'[walk'.at]
             /\ NextKnown' => \A b \in Listed(links') \ {walk'.at} :
                                 Passed(walk'.next, b, p) => Away(b)'
  <2>1. walk.next # walk.at /\ time[walk.at] = nticks /\ ~rollover[walk.at]
    BY <1>6 DEF Kept, OnTime
  <2>2. NextKnown' => NextKnown
    BY <1>1, <1>3 DEF NextKnown
  <2>3. ASSUME NextKnown, NEW b \in Listed(links') \ {walk.at}, Passed(walk.next, b, p)
        PROVE  Away(b)'
    <3>1. b \in Listed(links) \ {walk.at} /\ b \in Alarms /\ b # a
      BY <1>3
    <3>2. Away(b)
      BY <1>6, <2>3, <3>1 DEF Kept, OnTime
    <3>. QED
      BY <1>2, <3>1, <3>2
  <2>. QED
    BY <1>1, <1>2, <2>1, <2>2, <2>3
<1>7. OnTime(p)'
  BY <1>1, <1>4, <1>5, <1>6 DEF OnTime
<1>8. Promise!Stopped(a)
  BY <1>1, <1>2 DEF Promise!Stopped, Promise!Off, Left
<1>. QED
  BY <1>2, <1>7, <1>8 DEF Promised, Promise!PromiseNext

(* A callback answers zero, and its alarm ends; or a number of ticks, and  *)
(* its alarm has those before it, unless the callback itself stopped it.   *)
LEMMA EndsOnTime ==
  ASSUME NEW p, Kept(p), Return(0), 0 \in Periods, NextKnown
  PROVE  InOrder(links, p)' /\ OnTime(p)' /\ Promised
<1>0. PICK a \in Alarms : a = walk.at
  BY DEF Kept, ListInv, WalkIs, Return
<1>1. /\ walk.stage = "callback" /\ nticks' = nticks /\ alt_alarm_stop(a)
      /\ walk'.stage = "visit" /\ walk'.at = walk.next /\ walk.next # a
  BY <1>0 DEF Return, Answer, Kept, OnTime, hardware
<1>2. /\ InOrder(links, p)' /\ Listed(links') = Listed(links) \ {a}
      /\ \A b \in Alarms : b # a => Remaining(b)' = Remaining(b) /\ (Away(b)' <=> Away(b))
      /\ Left' = [Left EXCEPT ![a] = -1]
  BY <1>1, OthersKept
<1>3. \A b \in Listed(links') : b \in Alarms /\ b # a /\ b \in Listed(links)
  BY <1>2 DEF Listed
<1>4. \A b \in Listed(links') : Remaining(b)' >= 0
  BY <1>2, <1>3 DEF Kept, OnTime
<1>5. \A b \in Listed(links') : Passed(walk'.at, b, p) => Away(b)'
  BY <1>0, <1>1, <1>2, <1>3 DEF Kept, OnTime
<1>6. walk'.at = Head \/ walk'.at \in Listed(links')
  BY <1>1, <1>2 DEF NextKnown
<1>7. OnTime(p)'
  BY <1>1, <1>4, <1>5, <1>6 DEF OnTime
<1>8. Ringing = a /\ Ringing' = Head /\ a # Head
  BY <1>0, <1>1, HeadFacts DEF Ringing
<1>9. Promise!Answered(0)
  BY <1>2, <1>8 DEF Promise!Answered, Promise!Off, Left, Ringing
<1>. QED
  BY <1>2, <1>7, <1>9 DEF Promised, Promise!PromiseNext

LEMMA RearmOnTime ==
  ASSUME NEW p, Kept(p), NEW n \in Periods, Return(n), n # 0, NextKnown
  PROVE  InOrder(links, p)' /\ OnTime(p)' /\ Promised
<1>0. PICK a \in Alarms : a = walk.at
  BY DEF Kept, ListInv, WalkIs, Return
<1>. DEFINE t == (nticks + n) % U32
            r == t < nticks
<1>1. /\ walk.stage = "callback" /\ nticks' = nticks /\ links' = links
      /\ walk'.stage = "visit" /\ walk'.at = walk.next /\ walk.next # a
      /\ time[a] = nticks /\ ~rollover[a]
  BY <1>0 DEF Return, Answer, Rearm, Kept, OnTime, hardware
<1>2. /\ time' = [time EXCEPT ![a] = t]
      /\ rollover' = [rollover EXCEPT ![a] = rollover[a] \/ r]
  BY <1>0, <1>1 DEF Return, Answer, Rearm
<1>3. n \in 1 .. U32 - 1 /\ nticks \in Count
  BY WordFacts DEF Kept, Times, Count
<1>4. r \in BOOLEAN
  OBVIOUS
<1>5. t \in Count /\ Ticks(t, r, nticks) = n /\ (nticks = 0 => ~r)
  BY <1>3, <1>4, ArmedTicks
<1>. HIDE DEF t, r
<1>6. /\ time'[a] = t /\ (rollover'[a] <=> r) /\ rollover'[a] \in BOOLEAN
      /\ \A b \in Alarms : b # a => time'[b] = time[b] /\ rollover'[b] = rollover[b]
  <2>1. time \in [Alarms -> Count] /\ rollover \in [Alarms -> BOOLEAN]
    BY DEF Kept, Times
  <2>2. time'[a] = t /\ \A b \in Alarms : b # a => time'[b] = time[b]
    BY <1>2, <2>1
  <2>3. rollover'[a] = (rollover[a] \/ r)
    BY <1>2, <2>1
  <2>4. \A b \in Alarms : b # a => rollover'[b] = rollover[b]
    BY <1>2, <2>1
  <2>. QED
    BY <1>1, <1>4, <2>2, <2>3, <2>4
<1>7. a \in Listed(links) => Remaining(a)' = n
  <2>1. ASSUME a \in Listed(links) PROVE Remaining(a)' = Ticks(time'[a], rollover'[a], nticks')
    BY <1>1, <2>1, RemainingIs
  <2>2. Ticks(time'[a], rollover'[a], nticks') = Ticks(t, r, nticks)
    BY <1>1, <1>6 DEF Ticks
  <2>. QED
    BY <1>5, <2>1, <2>2
<1>8. a \notin Listed(links) => Remaining(a)' = -1 /\ Remaining(a) = -1
  BY <1>1, RemainingIs
<1>9. \A b \in Alarms : b # a => Remaining(b)' = Remaining(b)
  BY <1>1, <1>6, RemainingIs
<1>10. a \in Listed(links) => Away(a)'
  BY <1>1, <1>3, <1>5, <1>6, <1>7 DEF Away
<1>11. \A b \in Alarms : b # a => (Away(b)' <=> Away(b))
  BY <1>1, <1>6, <1>9 DEF Away
<1>12. \A b \in Listed(links) : b \in Alarms
  BY DEF Listed
<1>13. \A b \in Listed(links') : Remaining(b)' >= 0
  BY <1>1, <1>3, <1>7, <1>9, <1>12 DEF Kept, OnTime
<1>14. \A b \in Listed(links') : Passed(walk'.at, b, p) => Away(b)'
  BY <1>0, <1>1, <1>10, <1>11, <1>12 DEF Kept, OnTime
<1>15. walk'.at = Head \/ walk'.at \in Listed(links')
  BY <1>1 DEF NextKnown
<1>16. OnTime(p)'
  BY <1>1, <1>13, <1>14, <1>15 DEF OnTime
<1>17. InOrder(links, p)'
  BY <1>1 DEF Kept, InOrder
<1>18. Ringing = a /\ Ringing' = Head /\ a # Head
  BY <1>0, <1>1, HeadFacts DEF Ringing
<1>19. a \in Listed(links) => Remaining(a) = 0
  <2>1. ASSUME a \in Listed(links)
        PROVE  Remaining(a) = Ticks(time[a], rollover[a], nticks)
    BY <2>1, RemainingIs
  <2>2. Ticks(time[a], rollover[a], nticks) = 0
    BY <1>1, <1>3 DEF Ticks, Count
  <2>. QED
    BY <2>1, <2>2
<1>20. Remaining(a)' = IF Remaining(a) = -1 THEN -1 ELSE n
  BY <1>7, <1>8, <1>19
<1>21. Left' = [Left EXCEPT ![a] = IF n = 0 \/ @ = -1 THEN -1 ELSE n]
  BY <1>9, <1>20 DEF Left
<1>22. Promise!Answered(n)
  BY <1>18, <1>21 DEF Promise!Answered, Promise!Off, Left, Ringing
<1>. QED
  BY <1>16, <1>17, <1>22 DEF Promised, Promise!PromiseNext

(* A new alarm is in front of the walk's way, and has its ticks before it. *)
LEMMA StartOnTime ==
  ASSUME NEW p, Kept(p), NEW a \in Alarms, NEW n \in Intervals, alt_alarm_start(a, n)
  PROVE  (\E q : InOrder(links', q) /\ OnTime(q)') /\ Promised
<1>. DEFINE t == (nticks + (n + 1)) % U32
            r == t < nticks
<1>1. /\ nticks' = nticks /\ walk' = walk /\ MayCall(a)
      /\ a \notin Listed(links) /\ links.next[a] = a
      /\ links' = alt_llist_insert(links, a)
  BY DEF alt_alarm_start, OnList, Listed, hardware
<1>2. n + 1 \in 1 .. U32 - 1 /\ nticks \in Count /\ nticks \in Int /\ n \in Int
  BY WordFacts DEF Kept, Times, Count
<1>3. n + nticks + 1 = nticks + (n + 1)
  BY <1>2
<1>4. time' = [time EXCEPT ![a] = t] /\ rollover' = [rollover EXCEPT ![a] = r]
  BY <1>3 DEF alt_alarm_start
<1>5. r \in BOOLEAN
  OBVIOUS
<1>6. t \in Count /\ Ticks(t, r, nticks) = n + 1 /\ (nticks = 0 => ~r)
  BY <1>2, <1>5, ArmedTicks
<1>. HIDE DEF t, r
<1>7. /\ time'[a] = t /\ rollover'[a] = r
      /\ \A b \in Alarms : b # a => time'[b] = time[b] /\ rollover'[b] = rollover[b]
  BY <1>4 DEF Kept, Times
<1>8. /\ Listed(links') = Listed(links) \cup {a}
      /\ \A b \in Listed(links) : b \in Alarms /\ b # a
  <2>1. Listed(links') = Listed(links) \cup {a}
    BY <1>1, InsertLists DEF Kept, ListInv
  <2>. QED
    BY <1>1, <2>1 DEF Listed
<1>9. PICK q : InOrder(links', q) /\ \A b \in Listed(links) : q[b] = p[b] /\ q[a] < p[b]
  BY <1>1, InsertInOrder DEF Kept, ListInv
<1>10. Remaining(a)' = n + 1 /\ Remaining(a) = -1
  BY <1>1, <1>6, <1>7, <1>8, RemainingIs
<1>11. \A b \in Alarms : b # a => Remaining(b)' = Remaining(b)
  BY <1>1, <1>7, <1>8, RemainingIs
<1>12. Away(a)'
  BY <1>1, <1>2, <1>6, <1>7, <1>10 DEF Away
<1>13. \A b \in Alarms : b # a => (Away(b)' <=> Away(b))
  BY <1>1, <1>7, <1>11 DEF Away
<1>14. \A b \in Listed(links') : Remaining(b)' >= 0
  BY <1>2, <1>8, <1>10, <1>11 DEF Kept, OnTime
<1>15. walk.stage = "idle" => \A b \in Listed(links') : Away(b)'
  BY <1>8, <1>12, <1>13 DEF Kept, OnTime
<1>16. walk.stage # "visit" /\ (walk.stage = "callback" => a # walk.at /\ walk.at \in Alarms)
  BY <1>1 DEF MayCall, Idle, Kept, ListInv, WalkIs
<1>17. ASSUME walk.stage = "callback"
       PROVE  /\ walk'.next # walk'.at /\ time'[walk'.at] = nticks' /\ ~rollover'[walk'.at]
              /\ NextKnown' => \A b \in Listed(links') \ {walk'.at} :
                                  Passed(walk'.next, b, q) => Away(b)'
  <2>1. /\ walk.next # walk.at /\ time[walk.at] = nticks /\ ~rollover[walk.at]
    BY <1>17 DEF Kept, OnTime
  <2>2. time'[walk.at] = nticks /\ ~rollover'[walk.at]
    BY <1>7, <1>16, <1>17, <2>1
  <2>3. ASSUME NEW b \in Listed(links') \ {walk.at}, b # a, Passed(walk.next, b, q),
               NextKnown'
        PROVE  Away(b)'
    <3>1. b \in Listed(links) /\ b \in Alarms /\ b \in Listed(links) \ {walk.at}
      BY <1>8, <2>3
    <3>2. walk.next = Head \/ walk.next \in Listed(links) \/ walk.next = a
      BY <1>1, <1>8, <2>3 DEF NextKnown
    <3>3. q[a] \in Int /\ q[b] \in Int /\ q[b] = p[b] /\ q[a] < q[b]
      BY <1>9, <3>1 DEF InOrder
    <3>4. CASE walk.next = a /\ walk.next # Head
      BY <2>3, <3>3, <3>4 DEF Passed
    <3>5. CASE walk.next = Head \/ walk.next \in Listed(links)
      <4>1. Passed(walk.next, b, p)
        BY <1>9, <2>3, <3>1, <3>5 DEF Passed
      <4>2. Away(b)
        BY <1>17, <3>1, <3>5, <4>1 DEF Kept, OnTime, NextKnown
      <4>. QED
        BY <1>13, <2>3, <3>1, <4>2
    <3>. QED
      BY <3>2, <3>4, <3>5
  <2>. QED
    BY <1>1, <1>12, <2>1, <2>2, <2>3
<1>18. OnTime(q)'
  BY <1>1, <1>14, <1>15, <1>16, <1>17 DEF OnTime
<1>19. Left' = [Left EXCEPT ![a] = n + 1]
  BY <1>10, <1>11 DEF Left
<1>20. Left[a] = -1 /\ Ringing' = Ringing
  BY <1>1, <1>10 DEF Left, Ringing
<1>21. Promise!Started(a, n)
  BY <1>19, <1>20 DEF Promise!Started, Promise!Off, Left, Ringing
<1>. QED
  BY <1>9, <1>18, <1>21 DEF Promised, Promise!PromiseNext

LEMMA StepOnTime ==
  ASSUME ClockInv, [Next]_vars, ~lost'
  PROVE  (\E q : InOrder(links', q) /\ OnTime(q)') /\ Promised
<1>1. ~lost /\ (\A n \in Periods : Return(n) => ~NextGone)
  <2>1. CASE UNCHANGED lost
    BY <2>1 DEF Return
  <2>2. ASSUME NEW n \in Periods, Return(n) PROVE ~lost /\ ~NextGone
    BY <2>2 DEF Return
  <2>3. UNCHANGED lost \/ \E n \in Periods : Return(n)
    BY DEF Next, Step, vars, alt_avalon_timer_sc_init, Expire, alt_avalon_timer_sc_irq,
           Visit, Leave, Stop, alt_alarm_start
  <2>. QED
    BY <2>1, <2>2, <2>3 DEF Return
<1>2. PICK p : Kept(p)
  BY <1>1 DEF ClockInv, Kept
<1>3. CASE UNCHANGED << nticks, alarms, walk >>
  BY <1>2, <1>3, QuietSteps DEF InOrder
<1>4. CASE alt_avalon_timer_sc_irq
  BY <1>2, <1>4, TickOnTime DEF InOrder
<1>5. CASE Visit
  BY <1>2, <1>5, VisitOnTime DEF InOrder
<1>6. CASE Leave
  BY <1>2, <1>6, LeaveOnTime DEF InOrder
<1>7. ASSUME NEW n \in Periods, Return(n)
      PROVE  (\E q : InOrder(links', q) /\ OnTime(q)') /\ Promised
  <2>1. walk.next \in Entries
    BY <1>2 DEF Kept, ListInv, WalkIs, WalkType
  <2>2. NextKnown
    BY <1>1, <1>7, <2>1 DEF NextGone, NextKnown, OnList, Listed, Entries
  <2>3. CASE n = 0
    BY <1>2, <1>7, <2>2, <2>3, EndsOnTime DEF InOrder
  <2>4. CASE n # 0
    BY <1>2, <1>7, <2>2, <2>4, RearmOnTime DEF InOrder
  <2>. QED
    BY <2>3, <2>4
<1>8. ASSUME NEW a \in Alarms, Stop(a)
      PROVE  (\E q : InOrder(links', q) /\ OnTime(q)') /\ Promised
  BY <1>2, <1>8, StopOnTime DEF InOrder
<1>9. ASSUME NEW a \in Alarms, NEW n \in Intervals, alt_alarm_start(a, n)
      PROVE  (\E q : InOrder(links', q) /\ OnTime(q)') /\ Promised
  BY <1>2, <1>9, StartOnTime
<1>10. CASE UNCHANGED vars \/ alt_avalon_timer_sc_init \/ Expire
  BY <1>3, <1>10 DEF vars, alt_avalon_timer_sc_init, Expire
<1>. QED
  BY <1>4, <1>5, <1>6, <1>7, <1>8, <1>9, <1>10 DEF Next, Step

(* The clock implements the specification of the alarms: an alarm rings    *)
(* when the ticks it was started or armed for have elapsed, neither        *)
(* earlier nor later, across the wrap of the count and whatever other      *)
(* callbacks start and stop, until one of them stops the alarm that the    *)
(* walk has taken for its next (alt_tick, alt_alarm_start).                *)
THEOREM AlarmsImplemented == Spec => RingsOnTime
<1>1. Init => ClockInv /\ Promise!PromiseInit
  <2>. SUFFICES ASSUME Init PROVE ClockInv /\ Promise!PromiseInit
    OBVIOUS
  <2>1. ListInv /\ Listed(links) = {}
    BY HeadFacts DEF Init, Unlinked, Ring, Idle, WalkIs, WalkType, ListInv, Listed, Entries
  <2>2. Times
    BY WordFacts DEF Init, Times
  <2>3. links.next[Head] = Head
    BY HeadFacts DEF Init, Unlinked
  <2>4. InOrder(links, [a \in Alarms |-> 0])
    BY <2>1, <2>3 DEF InOrder
  <2>5. OnTime([a \in Alarms |-> 0])
    BY <2>1 DEF OnTime, Init, Idle
  <2>6. \A a \in Alarms : Remaining(a) = -1
    BY <2>1, RemainingIs
  <2>7. Promise!PromiseInit
    BY <2>6 DEF Promise!PromiseInit, Promise!Off, Init, Idle
  <2>. QED
    BY <2>1, <2>2, <2>4, <2>5, <2>7 DEF ClockInv
<1>2. ClockInv /\ [Next]_vars => ClockInv'
  <2>. SUFFICES ASSUME ClockInv, [Next]_vars PROVE ClockInv'
    OBVIOUS
  <2>1. ListInv' /\ Times'
    BY ListKeeps, TimesKept DEF ClockInv
  <2>2. ASSUME ~lost' PROVE \E q : InOrder(links', q) /\ OnTime(q)'
    BY <2>2, StepOnTime
  <2>. QED
    BY <2>1, <2>2 DEF ClockInv, InOrder
<1>3. ClockInv /\ [Next]_vars => [lost' \/ Promise!PromiseNext]_(Promise!promised)
  <2>. SUFFICES ASSUME ClockInv, [Next]_vars, ~lost'
                PROVE  Promise!PromiseNext \/ UNCHANGED (Promise!promised)
    OBVIOUS
  <2>. QED
    BY StepOnTime DEF Promised, Promise!promised, Left, Ringing
<1>. QED
  BY <1>1, <1>2, <1>3, PTL DEF Spec, RingsOnTime
=============================================================================
