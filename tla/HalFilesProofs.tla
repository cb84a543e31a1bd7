--------------------------- MODULE HalFilesProofs ---------------------------
(***************************************************************************)
(* The pool of file descriptors, for every size of it and every sequence   *)
(* of calls.                                                               *)
(***************************************************************************)
EXTENDS HalBoot, WellFoundedInduction, FiniteSetTheorems,
        SequenceTheorems, TLAPS

Device == {DevNull, DevUart} \cup FileSystems
Descriptor == [dev : Device \cup {NoDev}, mode : Modes, nonblock : BOOLEAN,
               excl : BOOLEAN, isdev : BOOLEAN]
PoolType == [fd : [Fds -> Descriptor], max : -1 .. (MaxFd - 1)]

(* What every call keeps of a pool: the mark, clean free descriptors, the  *)
(* standard ones in use, and locks on devices only.                        *)
Marked(p) == \A f \in Fds \ Std : p.fd[f].dev # NoDev => f <= p.max
Clean(p) == \A f \in Fds : p.fd[f].dev = NoDev => p.fd[f] = Free
LocksDevices(p) ==
  \A f \in Fds : p.fd[f].excl => p.fd[f].dev \in {DevNull, DevUart}
IsDevice(p) == \A f \in Fds : p.fd[f].isdev => p.fd[f].dev \in {DevNull, DevUart}
StdInUse(p) == \A f \in Std : p.fd[f].dev # NoDev

PoolKept(p) ==
  p \in PoolType /\ Marked(p) /\ Clean(p) /\ LocksDevices(p) /\ IsDevice(p)
  /\ StdInUse(p)

(* The least element of a set of natural numbers.                          *)
LEMMA SmallestOf ==
  ASSUME NEW T \in SUBSET Nat, T # {}
  PROVE  \E m \in T : \A k \in T : m <= k
<1>. DEFINE R == OpToRel(<, Nat)
<1>1. IsWellFoundedOn(R, Nat)
  BY NatLessThanWellFounded
<1>2. R = {ss \in Nat \X Nat : ss[1] < ss[2]}
  BY DEF OpToRel
<1>3. \E x \in T : \A y \in T : ~ (<< y, x >> \in R)
  <2>. HIDE DEF R
  <2>. QED
    BY <1>1, WFMin
<1>4. ASSUME NEW x \in T, NEW y \in T, ~ (<< y, x >> \in R)
      PROVE  x <= y
  <2>1. /\ x \in Nat /\ y \in Nat /\ << y, x >> \in Nat \X Nat
        /\ << y, x >>[1] = y /\ << y, x >>[2] = x
    OBVIOUS
  <2>2. ~ (y < x)
    BY <1>2, <1>4, <2>1
  <2>. QED
    BY <2>1, <2>2, SMT
<1>. QED
  BY <1>3, <1>4

LEMMA DeviceNames ==
  /\ DevNull # DevUart /\ NoDev \notin Device
  /\ DevNull \notin FileSystems /\ DevUart \notin FileSystems
<1>1. Len(DevNull) = 2 /\ Len(DevUart) = 2 /\ Len(NoDev) = 0
  BY DEF DevNull, DevUart, NoDev
<1>2. DevNull[2] # DevUart[2]
  BY DEF DevNull, DevUart
<1>3. \A fs \in FileSystems : Len(fs) > 0 /\ fs \notin {DevNull, DevUart}
  BY BootAssumption
<1>4. NoDev \notin FileSystems
  BY <1>1, <1>3
<1>. QED
  BY <1>1, <1>2, <1>3, <1>4 DEF Device

LEMMA FdFacts == Fds \subseteq Nat /\ Std \subseteq Fds /\ 3 \in Fds \ Std
BY FilesAssumption, SMT DEF Fds, Std

LEMMA FreeFacts ==
  /\ Free \in Descriptor /\ Free.dev = NoDev /\ Free.excl = FALSE
  /\ Free.isdev = FALSE
BY DEF Free, Entry, Descriptor, Modes

LEMMA EntryFacts ==
  ASSUME NEW d \in Device, NEW m \in Modes, NEW b \in BOOLEAN, NEW i \in BOOLEAN
  PROVE  /\ Entry(d, m, b, i) \in Descriptor /\ Entry(d, m, b, i).dev = d
         /\ Entry(d, m, b, i).excl = FALSE /\ Entry(d, m, b, i).isdev = i
         /\ Entry(d, m, b, i).mode = m
BY DEF Entry, Descriptor

(* alt_get_fd gives a descriptor that was free and not one of the standard *)
(* ones, and the mark is at it or above, or the pool is full.              *)
LEMMA GetFacts ==
  ASSUME NEW p, PoolKept(p), NEW d \in Device
  PROVE  LET r == alt_get_fd(p, d) IN
         \/ /\ r = Failed(p, Errno.EMFILE)
            /\ \A f \in Fds : p.fd[f].dev # NoDev
         \/ \E i \in Fds \ Std, m \in 0 .. (MaxFd - 1) :
              /\ p.fd[i] = Free /\ i <= m /\ p.max <= m
              /\ r = Done([fd |-> [p.fd EXCEPT ![i].dev = d], max |-> m], i)
<1>. DEFINE unused == {i \in Fds : p.fd[i].dev = NoDev}
            i == CHOOSE j \in unused : \A k \in unused : j <= k
            m == IF i > p.max THEN i ELSE p.max
<1>1. CASE unused = {}
  <2>1. alt_get_fd(p, d) = Failed(p, Errno.EMFILE)
    BY <1>1 DEF alt_get_fd
  <2>. QED
    BY <1>1, <2>1
<1>2. CASE unused # {}
  <2>1. \E j \in unused : \A k \in unused : j <= k
    BY <1>2, SmallestOf, FdFacts
  <2>2. i \in unused
    BY <2>1
  <2>3. alt_get_fd(p, d) = Done([fd |-> [p.fd EXCEPT ![i].dev = d], max |-> m], i)
    BY <1>2 DEF alt_get_fd
  <2>4. i \in Fds \ Std /\ p.fd[i] = Free
    BY <2>2, FdFacts DEF PoolKept, Clean, StdInUse
  <2>5. p.max \in -1 .. (MaxFd - 1)
    BY DEF PoolKept, PoolType
  <2>. HIDE DEF i
  <2>6. m \in 0 .. (MaxFd - 1) /\ i <= m /\ p.max <= m
    BY <2>4, <2>5, FilesAssumption, SMT DEF Fds
  <2>. HIDE DEF m
  <2>. QED
    BY <2>3, <2>4, <2>6
<1>. QED
  BY <1>1, <1>2

GoodLists == devs \in Seq({DevNull, DevUart}) /\ fss \in Seq(FileSystems)

(* A search of a list returns one of its entries that is wanted, or none.  *)
LEMMA FirstFacts ==
  ASSUME NEW D, NEW list \in Seq(D), NEW S
  PROVE  \/ First(list, S) = NoDev /\ \A i \in 1 .. Len(list) : list[i] \notin S
         \/ First(list, S) \in D \cap S
<1>. DEFINE at == {i \in 1 .. Len(list) : list[i] \in S}
            i == CHOOSE i \in at : \A j \in at : i <= j
<1>1. CASE at = {}
  BY <1>1 DEF First
<1>2. CASE at # {}
  <2>1. at \subseteq Nat
    BY SMT
  <2>2. i \in at
    BY <1>2, <2>1, SmallestOf
  <2>3. First(list, S) = list[i]
    BY <1>2 DEF First
  <2>. HIDE DEF i
  <2>4. list[i] \in D
    BY <2>2
  <2>. QED
    BY <2>2, <2>3, <2>4
<1>. QED
  BY <1>1, <1>2

(* A pool with one free descriptor taken, or given back.                   *)
Taken(p, i, e, m) == [fd |-> [p.fd EXCEPT ![i] = e], max |-> m]

LEMMA TakenFacts ==
  ASSUME NEW p, PoolKept(p), NEW i \in Fds \ Std, p.fd[i] = Free,
         NEW d \in Device, NEW e \in Descriptor, NEW m \in 0 .. (MaxFd - 1)
  PROVE  /\ [[fd |-> [p.fd EXCEPT ![i].dev = d], max |-> m] EXCEPT !.fd[i] = e]
              = Taken(p, i, e, m)
         /\ Taken(p, i, e, m).fd \in [Fds -> Descriptor]
         /\ Taken(p, i, e, m).fd[i] = e /\ Taken(p, i, e, m).max = m
         /\ \A k \in Fds \ {i} : Taken(p, i, e, m).fd[k] = p.fd[k]
         /\ alt_release_fd(Taken(p, i, e, m), i) = [fd |-> p.fd, max |-> m]
<1>1. p.fd \in [Fds -> Descriptor]
  BY DEF PoolKept, PoolType
<1>2. i > 2 /\ i \in Fds
  BY FilesAssumption, SMT DEF Fds, Std
<1>3. [[fd |-> [p.fd EXCEPT ![i].dev = d], max |-> m] EXCEPT !.fd[i] = e]
        = Taken(p, i, e, m)
  BY <1>1, <1>2 DEF Taken
<1>4. [[p.fd EXCEPT ![i] = e] EXCEPT ![i] = Free] = p.fd
  BY <1>1, <1>2
<1>5. alt_release_fd(Taken(p, i, e, m), i) = [fd |-> p.fd, max |-> m]
  BY <1>1, <1>2, <1>4 DEF alt_release_fd, Taken
<1>. QED
  BY <1>1, <1>2, <1>3, <1>5 DEF Taken

(* What alt_open may do to a pool: nothing but raise the mark, or take one *)
(* free descriptor for a device nobody holds for himself.                  *)
Refuses(p, r) ==
  /\ r.val = -1 /\ r.pool.fd = p.fd
  /\ r.pool \in PoolType /\ p.max <= r.pool.max

Opens(p, r, e) ==
  /\ e \in Descriptor /\ e.dev \in Device /\ e.excl = FALSE
  /\ e.isdev => e.dev \in {DevNull, DevUart}
  /\ \A k \in Fds : p.fd[k].excl => p.fd[k].dev # e.dev
  /\ \E i \in Fds \ Std, m \in 0 .. (MaxFd - 1) :
       /\ p.fd[i] = Free /\ i <= m /\ p.max <= m
       /\ r = Done(Taken(p, i, e, m), i)

LEMMA AccessError ==
  /\ ~ (-Errno.EACCES >= 0) /\ - (-Errno.EACCES) = Errno.EACCES
  /\ 0 >= 0
<1>1. Errno.EACCES = 13
  BY DEF Errno
<1>2. \A n \in Int : n = 13 => -n < 0
  BY SMT
<1>3. \A n \in Int : n < 0 => ~ (n >= 0)
  BY SMT
<1>4. \A n \in Int : - (-n) = n /\ -n \in Int
  BY SMT
<1>5. 13 \in Int /\ 0 >= 0
  BY SMT
<1>. QED
  BY <1>1, <1>2, <1>3, <1>4, <1>5

LEMMA OpenFacts ==
  ASSUME NEW p, PoolKept(p), GoodLists, NEW name, NEW mode \in Modes,
         NEW nonblock \in BOOLEAN, NEW drv
  PROVE  LET r == alt_open(p, devs, fss, name, mode, nonblock, drv) IN
         Refuses(p, r) \/ \E e \in Descriptor : Opens(p, r, e)
<1>. DEFINE dev == alt_find_dev(name, devs)
            owner == IF dev # NoDev THEN dev ELSE alt_find_file(name, fss)
            got == alt_get_fd(p, owner)
            e == Entry(owner, mode, nonblock, dev # NoDev)
            q == [got.pool EXCEPT !.fd[got.val] = e]
            status == IF dev # NoDev /\ alt_file_locked(q, got.val) THEN -Errno.EACCES
                      ELSE IF "open" \in Provides(owner) THEN drv ELSE 0
            r == alt_open(p, devs, fss, name, mode, nonblock, drv)
<1>1. r = IF owner = NoDev THEN Failed(p, Errno.ENODEV)
          ELSE IF got.val < 0 THEN got
          ELSE IF status >= 0 THEN Done(q, got.val)
          ELSE Failed(alt_release_fd(q, got.val), -status)
  BY DEF alt_open
<1>2. /\ dev = NoDev \/ dev \in {DevNull, DevUart}
      /\ alt_find_file(name, fss) = NoDev \/ alt_find_file(name, fss) \in FileSystems
  BY FirstFacts DEF alt_find_dev, alt_find_file, GoodLists
<1>3. owner = NoDev \/ owner \in Device
  BY <1>2 DEF Device
<1>4. p \in PoolType /\ p.max \in Int
  BY FilesAssumption, SMT DEF PoolKept, PoolType
<1>5. CASE owner = NoDev
  BY <1>1, <1>4, <1>5 DEF Failed, Refuses
<1>6. CASE owner \in Device
  <2>1. owner # NoDev
    BY <1>6, DeviceNames
  <2>2. e \in Descriptor /\ e.dev = owner /\ e.excl = FALSE
        /\ e.isdev = (dev # NoDev)
    <3>1. (dev # NoDev) \in BOOLEAN
      OBVIOUS
    <3>. HIDE DEF owner, dev, got, q, status, r
    <3>. QED
      BY <1>6, <3>1 DEF Entry, Descriptor
  <2>3. CASE got = Failed(p, Errno.EMFILE)
    <3>1. got.val = -1 /\ got.pool = p /\ got.val < 0
      BY <2>3, SMT DEF Failed
    <3>. QED
      BY <1>1, <1>4, <2>1, <3>1 DEF Refuses
  <2>4. ASSUME NEW i \in Fds \ Std, NEW m \in 0 .. (MaxFd - 1),
               p.fd[i] = Free, i <= m, p.max <= m,
               got = Done([fd |-> [p.fd EXCEPT ![i].dev = owner], max |-> m], i)
        PROVE  Refuses(p, r) \/ Opens(p, r, e)
    <3>1. ~ (got.val < 0) /\ got.val = i
          /\ got.pool = [fd |-> [p.fd EXCEPT ![i].dev = owner], max |-> m]
      BY <2>4, FdFacts DEF Done
    <3>2. q = Taken(p, i, e, m)
      <4>1. q = [[fd |-> [p.fd EXCEPT ![i].dev = owner], max |-> m] EXCEPT !.fd[i] = e]
        BY <3>1
      <4>. HIDE DEF q, e, got, owner
      <4>. QED
        BY <1>6, <2>2, <2>4, <4>1, TakenFacts
    <3>. HIDE DEF q, e, got
    <3>3. CASE ~ (status >= 0)
      <4>1. r = Failed([fd |-> p.fd, max |-> m], -status)
        BY <1>1, <1>6, <2>1, <2>2, <2>4, <3>1, <3>2, <3>3, TakenFacts
      <4>2. [fd |-> p.fd, max |-> m] \in PoolType
        <5>1. m \in -1 .. (MaxFd - 1)
          BY FilesAssumption, SMT
        <5>. QED
          BY <1>4, <5>1 DEF PoolType
      <4>. QED
        BY <2>4, <4>1, <4>2 DEF Failed, Refuses
    <3>4. CASE status >= 0
      <4>1. r = Done(Taken(p, i, e, m), i)
        BY <1>1, <2>1, <3>1, <3>2, <3>4
      <4>2. ASSUME NEW k \in Fds, p.fd[k].excl, p.fd[k].dev = owner
            PROVE  FALSE
        <5>1. owner \in {DevNull, DevUart}
          BY <4>2 DEF PoolKept, LocksDevices
        <5>2. dev # NoDev
          BY <1>2, <2>1, <5>1, DeviceNames
        <5>3. ~ alt_file_locked(q, i)
          BY <3>1, <3>4, <5>2, AccessError
        <5>4. k # i
          BY <2>4, <4>2, FreeFacts
        <5>5. k <= p.max \/ k \in Std
          BY <2>1, <4>2 DEF PoolKept, Marked
        <5>6. k <= m
          BY <1>4, <2>4, <5>5, FilesAssumption, SMT DEF Fds, Std
        <5>7. q.max = m /\ q.fd[k] = p.fd[k] /\ q.fd[i] = e
          BY <1>6, <2>2, <2>4, <3>2, <5>4, TakenFacts
        <5>. QED
          BY <2>2, <4>2, <5>3, <5>4, <5>6, <5>7 DEF alt_file_locked
      <4>3. e.isdev => e.dev \in {DevNull, DevUart}
        BY <1>2, <2>2
      <4>. QED
        BY <1>6, <2>2, <2>4, <4>1, <4>2, <4>3 DEF Opens
    <3>. QED
      BY <3>3, <3>4
  <2>. QED
    BY <1>6, <2>2, <2>3, <2>4, GetFacts
<1>. QED
  BY <1>3, <1>5, <1>6

----------------------------------------------------------------------------
(* What one call may do to the pool: change one descriptor, by releasing   *)
(* it, by taking a free one, or in its flags.                              *)
Released(f, e) == f \notin Std /\ e = Free

NewUse(p, f, e, max) ==
  /\ f \notin Std /\ p.fd[f] = Free /\ f <= max
  /\ e.dev \in Device /\ e.excl = FALSE
  /\ e.isdev => e.dev \in {DevNull, DevUart}
  /\ \A k \in Fds : p.fd[k].excl => p.fd[k].dev # e.dev

SameUse(d, e) ==
  /\ d.dev # NoDev /\ e.dev = d.dev /\ e.mode = d.mode /\ e.isdev = d.isdev
  /\ e.excl => e.dev \in {DevNull, DevUart}

Step(p, q) ==
  /\ q \in PoolType /\ p.max <= q.max
  /\ \E f \in Fds, e \in Descriptor :
       /\ q.fd = [p.fd EXCEPT ![f] = e]
       /\ \/ e = p.fd[f] \/ Released(f, e)
          \/ NewUse(p, f, e, q.max) \/ SameUse(p.fd[f], e)

NoNewUser(p, q) ==
  \A f \in Fds : p.fd[f].excl =>
    \A g \in Fds : q.fd[g].dev = p.fd[f].dev => p.fd[g].dev = p.fd[f].dev

(* The standard streams as the redirection leaves them.                    *)
Streams(p) ==
  /\ \A f \in Std : p.fd[f].dev = DevUart
  /\ p.fd[0].mode = "RDONLY" /\ p.fd[1].mode = "WRONLY" /\ p.fd[2].mode = "WRONLY"

LEMMA StdFacts == Std = {0, 1, 2}
BY SMT DEF Std

LEMMA StepKeeps ==
  ASSUME NEW p, PoolKept(p), NEW q, Step(p, q)
  PROVE  PoolKept(q) /\ NoNewUser(p, q) /\ (Streams(p) => Streams(q))
<1>. PICK f \in Fds, e \in Descriptor :
       /\ q.fd = [p.fd EXCEPT ![f] = e]
       /\ \/ e = p.fd[f] \/ Released(f, e)
          \/ NewUse(p, f, e, q.max) \/ SameUse(p.fd[f], e)
  BY DEF Step
<1>1. /\ p \in PoolType /\ p.fd \in [Fds -> Descriptor] /\ p.max \in Int
      /\ q \in PoolType /\ q.fd \in [Fds -> Descriptor] /\ q.max \in Int
      /\ p.max <= q.max
  BY FilesAssumption, SMT DEF PoolKept, PoolType, Step
<1>2. q.fd[f] = e /\ \A k \in Fds \ {f} : q.fd[k] = p.fd[k]
  BY <1>1
<1>3. Marked(q)
  <2>1. ASSUME NEW k \in Fds \ Std, q.fd[k].dev # NoDev
        PROVE  k <= q.max
    <3>1. k \in Nat
      BY FdFacts
    <3>2. p.fd[k].dev # NoDev \/ k <= q.max
      BY <1>2, <2>1, FreeFacts DEF Released, NewUse, SameUse
    <3>3. p.fd[k].dev # NoDev => k <= p.max
      BY <2>1 DEF PoolKept, Marked
    <3>. QED
      BY <1>1, <3>1, <3>2, <3>3, SMT
  <2>. QED
    BY <2>1 DEF Marked
<1>4. Clean(q)
  <2>1. e.dev = NoDev => e = Free
    BY DeviceNames DEF Released, NewUse, SameUse, PoolKept, Clean
  <2>. QED
    BY <1>2, <2>1 DEF PoolKept, Clean
<1>5. LocksDevices(q)
  <2>1. e.excl => e.dev \in {DevNull, DevUart}
    BY FreeFacts DEF Released, NewUse, SameUse, PoolKept, LocksDevices
  <2>. QED
    BY <1>2, <2>1 DEF PoolKept, LocksDevices
<1>6. IsDevice(q)
  <2>1. e.isdev => e.dev \in {DevNull, DevUart}
    BY FreeFacts DEF Released, NewUse, SameUse, PoolKept, IsDevice
  <2>. QED
    BY <1>2, <2>1 DEF PoolKept, IsDevice
<1>7. \A k \in Std : q.fd[k].dev = p.fd[k].dev /\ q.fd[k].mode = p.fd[k].mode
  BY <1>2, FdFacts DEF Released, NewUse, SameUse
<1>8. StdInUse(q)
  BY <1>7 DEF PoolKept, StdInUse
<1>9. NoNewUser(p, q)
  <2>1. ASSUME NEW k \in Fds, p.fd[k].excl, NEW g \in Fds,
               q.fd[g].dev = p.fd[k].dev
        PROVE  p.fd[g].dev = p.fd[k].dev
    <3>1. p.fd[k].dev # NoDev
      BY <2>1, DeviceNames DEF PoolKept, LocksDevices, Device
    <3>. QED
      BY <1>2, <2>1, <3>1, FreeFacts DEF Released, NewUse, SameUse
  <2>. QED
    BY <2>1 DEF NoNewUser
<1>10. Streams(p) => Streams(q)
  BY <1>7, StdFacts DEF Streams
<1>. QED
  BY <1>1, <1>3, <1>4, <1>5, <1>6, <1>8, <1>9, <1>10 DEF PoolKept

(* Each call is such a step.                                               *)
LEMMA NoStep ==
  ASSUME NEW p, PoolKept(p)
  PROVE  Step(p, p)
<1>1. p.fd[0] \in Descriptor /\ 0 \in Fds /\ p.fd = [p.fd EXCEPT ![0] = p.fd[0]]
  BY FdFacts, StdFacts DEF PoolKept, PoolType
<1>2. p.max <= p.max
  BY FilesAssumption, SMT DEF PoolKept, PoolType
<1>. QED
  BY <1>1, <1>2 DEF PoolKept, Step

LEMMA OpenStep ==
  ASSUME NEW p, PoolKept(p), NEW r,
         Refuses(p, r) \/ \E e \in Descriptor : Opens(p, r, e)
  PROVE  Step(p, r.pool)
<1>1. p.fd \in [Fds -> Descriptor]
  BY DEF PoolKept, PoolType
<1>2. CASE Refuses(p, r)
  <2>1. p.fd[0] \in Descriptor /\ 0 \in Fds /\ p.fd = [p.fd EXCEPT ![0] = p.fd[0]]
    BY <1>1, FdFacts, StdFacts
  <2>. QED
    BY <1>2, <2>1 DEF Refuses, Step
<1>3. ASSUME NEW e \in Descriptor, Opens(p, r, e), NEW i \in Fds \ Std,
             NEW m \in 0 .. (MaxFd - 1), p.fd[i] = Free, i <= m, p.max <= m,
             r = Done(Taken(p, i, e, m), i)
      PROVE  Step(p, r.pool)
  <2>1. r.pool.fd = [p.fd EXCEPT ![i] = e] /\ r.pool.max = m
    BY <1>3 DEF Done, Taken
  <2>2. m \in -1 .. (MaxFd - 1)
    BY FilesAssumption, SMT
  <2>3. r.pool \in PoolType
    BY <1>1, <1>3, <2>2 DEF Done, Taken, PoolType
  <2>4. NewUse(p, i, e, r.pool.max)
    BY <1>3, <2>1 DEF Opens, NewUse
  <2>. QED
    BY <1>3, <2>1, <2>3, <2>4 DEF Step
<1>. QED
  BY <1>2, <1>3 DEF Opens

LEMMA ReleaseStep ==
  ASSUME NEW p, PoolKept(p), NEW f \in Fds
  PROVE  Step(p, alt_release_fd(p, f))
<1>1. p.fd \in [Fds -> Descriptor] /\ p.max <= p.max
  BY FilesAssumption, SMT DEF PoolKept, PoolType
<1>2. CASE f > 2
  <2>1. f \notin Std
    BY <1>2, FdFacts, SMT DEF Std
  <2>2. alt_release_fd(p, f) = [p EXCEPT !.fd[f] = Free]
    BY <1>2 DEF alt_release_fd
  <2>3. [p EXCEPT !.fd[f] = Free] \in PoolType
    BY FreeFacts DEF PoolKept, PoolType
  <2>4. [p EXCEPT !.fd[f] = Free].fd = [p.fd EXCEPT ![f] = Free]
        /\ [p EXCEPT !.fd[f] = Free].max = p.max
    BY DEF PoolKept, PoolType
  <2>. QED
    BY <1>1, <2>1, <2>2, <2>3, <2>4, FreeFacts DEF Step, Released
<1>3. CASE ~ (f > 2)
  BY <1>3, NoStep DEF alt_release_fd
<1>. QED
  BY <1>2, <1>3

LEMMA FlagStep ==
  ASSUME NEW p, PoolKept(p), NEW f \in Fds, p.fd[f].dev # NoDev
  PROVE  /\ \A b \in BOOLEAN : Step(p, [p EXCEPT !.fd[f].nonblock = b])
         /\ Step(p, [p EXCEPT !.fd[f].excl = FALSE])
         /\ p.fd[f].isdev => Step(p, [p EXCEPT !.fd[f].excl = TRUE])
<1>1. p.fd \in [Fds -> Descriptor] /\ p.fd[f] \in Descriptor /\ p.max <= p.max
  BY FilesAssumption, SMT DEF PoolKept, PoolType
<1>2. ASSUME NEW e \in Descriptor, SameUse(p.fd[f], e)
      PROVE  Step(p, [p EXCEPT !.fd[f] = e])
  <2>1. [p EXCEPT !.fd[f] = e] \in PoolType
    BY DEF PoolKept, PoolType
  <2>2. [p EXCEPT !.fd[f] = e].fd = [p.fd EXCEPT ![f] = e]
        /\ [p EXCEPT !.fd[f] = e].max = p.max
    BY DEF PoolKept, PoolType
  <2>. QED
    BY <1>1, <1>2, <2>1, <2>2 DEF Step
<1>3. /\ p.fd[f].excl => p.fd[f].dev \in {DevNull, DevUart}
      /\ p.fd[f].isdev => p.fd[f].dev \in {DevNull, DevUart}
  BY DEF PoolKept, LocksDevices, IsDevice
<1>4. ASSUME NEW b \in BOOLEAN
      PROVE  Step(p, [p EXCEPT !.fd[f].nonblock = b])
  <2>. DEFINE e == [p.fd[f] EXCEPT !.nonblock = b]
  <2>1. e \in Descriptor /\ SameUse(p.fd[f], e)
    BY <1>1, <1>3 DEF Descriptor, SameUse
  <2>2. [p EXCEPT !.fd[f].nonblock = b] = [p EXCEPT !.fd[f] = e]
    BY <1>1 DEF PoolKept, PoolType
  <2>. QED
    BY <1>2, <2>1, <2>2
<1>5. ASSUME NEW b \in BOOLEAN, b => p.fd[f].isdev
      PROVE  Step(p, [p EXCEPT !.fd[f].excl = b])
  <2>. DEFINE e == [p.fd[f] EXCEPT !.excl = b]
  <2>1. e \in Descriptor /\ SameUse(p.fd[f], e)
    BY <1>1, <1>3, <1>5 DEF Descriptor, SameUse
  <2>2. [p EXCEPT !.fd[f].excl = b] = [p EXCEPT !.fd[f] = e]
    BY <1>1 DEF PoolKept, PoolType
  <2>. QED
    BY <1>2, <2>1, <2>2
<1>. QED
  BY <1>4, <1>5

LEMMA DriverPool ==
  ASSUME NEW p, NEW drv
  PROVE  /\ FromDriver(p, drv).pool = p /\ Passed(p, drv).pool = p
         /\ Signalled(p, drv).pool = p
BY DEF FromDriver, Passed, Signalled, Done, Failed

(* stat leaves every descriptor as it was.                                 *)
LEMMA StatStep ==
  ASSUME NEW p, PoolKept(p), GoodLists, NEW name, NEW drv
  PROVE  LET q == alt_stat(p, devs, fss, name, drv).pool IN
         Step(p, q) /\ q.fd = p.fd
<1>. DEFINE opened == alt_open(p, devs, fss, name, "RDONLY", FALSE, drv)
            stated == alt_fstat(opened.pool, opened.val, drv)
            q == alt_stat(p, devs, fss, name, drv).pool
<1>1. q = alt_close(opened.pool, opened.val, 0).pool
  <2>. DEFINE closed == alt_close(opened.pool, opened.val, 0).pool
  <2>1. \/ stated = Failed(opened.pool, Errno.EBADFD)
        \/ stated = Done(opened.pool, 0)
        \/ stated = Done(opened.pool, drv)
    BY DEF alt_fstat, Passed
  <2>2. alt_stat(p, devs, fss, name, drv) = [stated EXCEPT !.pool = closed]
    BY DEF alt_stat
  <2>. HIDE DEF stated, closed, opened
  <2>3. \A x, y, z : /\ [Failed(x, y) EXCEPT !.pool = z].pool = z
                     /\ [Done(x, y) EXCEPT !.pool = z].pool = z
    BY DEF Failed, Done
  <2>4. [stated EXCEPT !.pool = closed].pool = closed
    <3>1. stated = Failed(opened.pool, Errno.EBADFD)
            => [stated EXCEPT !.pool = closed].pool = closed
      BY <2>3
    <3>2. stated = Done(opened.pool, 0)
            => [stated EXCEPT !.pool = closed].pool = closed
      BY <2>3
    <3>3. stated = Done(opened.pool, drv)
            => [stated EXCEPT !.pool = closed].pool = closed
      BY <2>3
    <3>. QED
      BY <2>1, <3>1, <3>2, <3>3
  <2>. QED
    BY <2>2, <2>4 DEF closed
<1>2. "RDONLY" \in Modes /\ FALSE \in BOOLEAN
  BY DEF Modes
<1>3. Refuses(p, opened) \/ \E e \in Descriptor : Opens(p, opened, e)
  BY <1>2, OpenFacts
<1>. HIDE DEF opened, q
<1>4. CASE Refuses(p, opened)
  <2>1. q = opened.pool
    BY <1>1, <1>4 DEF Refuses, alt_close, Failed
  <2>. QED
    BY <1>4, <2>1, OpenStep DEF Refuses, q
<1>5. ASSUME NEW e \in Descriptor, NEW i \in Fds \ Std, NEW m \in 0 .. (MaxFd - 1),
             p.fd[i] = Free, p.max <= m, e.dev \in Device,
             opened = Done(Taken(p, i, e, m), i)
      PROVE  Step(p, q) /\ q.fd = p.fd
  <2>1. opened.pool = Taken(p, i, e, m) /\ opened.val = i /\ ~ (i < 0)
    BY <1>5, FdFacts, SMT DEF Done
  <2>2. q = alt_release_fd(Taken(p, i, e, m), i)
    BY <1>1, <2>1, DriverPool DEF alt_close
  <2>3. q = [fd |-> p.fd, max |-> m]
    <3>1. p.fd \in [Fds -> Descriptor]
      BY DEF PoolKept, PoolType
    <3>. HIDE DEF opened
    <3>2. i > 2 /\ [[p.fd EXCEPT ![i] = e] EXCEPT ![i] = Free] = p.fd
      BY <1>5, <3>1, FilesAssumption, SMT DEF Fds, Std
    <3>3. Taken(p, i, e, m) = [fd |-> [p.fd EXCEPT ![i] = e], max |-> m]
      BY DEF Taken
    <3>. QED
      BY <2>2, <3>2, <3>3 DEF alt_release_fd
  <2>4. m \in -1 .. (MaxFd - 1)
    BY FilesAssumption, SMT
  <2>5. q \in PoolType
    BY <2>3, <2>4 DEF PoolKept, PoolType
  <2>6. p.fd[0] \in Descriptor /\ 0 \in Fds /\ p.fd = [p.fd EXCEPT ![0] = p.fd[0]]
    BY FdFacts, StdFacts DEF PoolKept, PoolType
  <2>. QED
    BY <1>5, <2>3, <2>5, <2>6 DEF Step
<1>. QED
  BY <1>3, <1>4, <1>5 DEF Opens, q

LEMMA CloseStep ==
  ASSUME NEW p, PoolKept(p), NEW f \in Fds \cup {-1}, NEW drv
  PROVE  Step(p, alt_close(p, f, drv).pool)
<1>1. CASE f < 0
  BY <1>1, NoStep DEF alt_close, Failed
<1>2. CASE ~ (f < 0)
  <2>1. f \in Fds
    BY <1>2, SMT
  <2>2. alt_close(p, f, drv).pool = alt_release_fd(p, f)
    BY <1>2, DriverPool DEF alt_close
  <2>. QED
    BY <2>1, <2>2, ReleaseStep
<1>. QED
  BY <1>1, <1>2

LEMMA TransferStep ==
  ASSUME NEW f, Transfer(f)
  PROVE  pool' = pool
<1>1. PICK drv \in DriverResults :
        \/ Returns(alt_read(pool, f, drv))
        \/ Returns(alt_write(pool, f, drv))
        \/ Returns(alt_lseek(pool, f, drv))
        \/ Returns(alt_fstat(pool, f, drv))
        \/ Returns(alt_isatty(pool, f, drv = 0))
  BY DEF Transfer
<1>2. \A err, val : Failed(pool, err).pool = pool /\ Done(pool, val).pool = pool
  BY DEF Failed, Done
<1>3. alt_read(pool, f, drv).pool = pool /\ alt_write(pool, f, drv).pool = pool
  BY <1>2, DriverPool DEF alt_read, alt_write
<1>4. alt_lseek(pool, f, drv).pool = pool /\ alt_fstat(pool, f, drv).pool = pool
  BY <1>2, DriverPool DEF alt_lseek, alt_fstat
<1>5. alt_isatty(pool, f, drv = 0).pool = pool
  BY DEF alt_isatty, Done, Failed
<1>. QED
  BY <1>1, <1>3, <1>4, <1>5 DEF Returns

(* Taking and giving up exclusive access.                                  *)
LEMMA LockPool ==
  ASSUME NEW p, NEW f
  PROVE  /\ \/ alt_fd_lock(p, f).pool = p
            \/ alt_fd_lock(p, f).pool = [p EXCEPT !.fd[f].excl = TRUE]
         /\ alt_fd_unlock(p, f).pool = [p EXCEPT !.fd[f].excl = FALSE]
<1>1. \A x, y : Failed(x, y).pool = x /\ Done(x, y).pool = x
  BY DEF Failed, Done
<1>. QED
  BY <1>1 DEF alt_fd_lock, alt_fd_unlock, Passed

LEMMA ControlStep ==
  ASSUME PoolKept(pool), NEW f \in Usable, Control(f)
  PROVE  Step(pool, pool')
<1>1. f \in Fds /\ ~ (f < 0) => pool.fd[f].dev # NoDev
  BY SMT DEF Usable
<1>2. f < 0 \/ f \in Fds
  BY SMT DEF Usable
<1>3. \A err, val : Failed(pool, err).pool = pool /\ Done(pool, val).pool = pool
  BY DEF Failed, Done
<1>4. ASSUME NEW req, NEW drv, Returns(alt_ioctl(pool, f, req, drv))
      PROVE  Step(pool, pool')
  <2>. DEFINE r == alt_ioctl(pool, f, req, drv)
  <2>1. pool' = r.pool
    BY <1>4 DEF Returns
  <2>2. \/ r.pool = pool
        \/ ~ (f < 0) /\ pool.fd[f].isdev /\ r.pool = alt_fd_lock(pool, f).pool
        \/ ~ (f < 0) /\ r.pool = alt_fd_unlock(pool, f).pool
    BY <1>3, DriverPool DEF alt_ioctl
  <2>3. \/ r.pool = pool
        \/ ~ (f < 0) /\ pool.fd[f].isdev /\ r.pool = [pool EXCEPT !.fd[f].excl = TRUE]
        \/ ~ (f < 0) /\ r.pool = [pool EXCEPT !.fd[f].excl = FALSE]
    <3>. HIDE DEF r
    <3>. QED
      BY <2>2, LockPool
  <2>. HIDE DEF r
  <2>. QED
    BY <1>1, <1>2, <2>1, <2>3, NoStep, FlagStep
<1>5. ASSUME NEW cmd, NEW nonblock \in BOOLEAN,
             Returns(alt_fcntl(pool, f, cmd, nonblock))
      PROVE  Step(pool, pool')
  <2>. DEFINE r == alt_fcntl(pool, f, cmd, nonblock)
  <2>1. pool' = r.pool
    BY <1>5 DEF Returns
  <2>2. \/ r.pool = pool
        \/ ~ (f < 0) /\ r.pool = [pool EXCEPT !.fd[f].nonblock = nonblock]
    BY <1>3 DEF alt_fcntl, Done, Failed
  <2>. HIDE DEF r
  <2>3. CASE r.pool = pool
    BY <2>1, <2>3, NoStep
  <2>4. CASE ~ (f < 0) /\ r.pool = [pool EXCEPT !.fd[f].nonblock = nonblock]
    <3>1. f \in Fds /\ pool.fd[f].dev # NoDev
      BY <1>1, <1>2, <2>4
    <3>2. Step(pool, [pool EXCEPT !.fd[f].nonblock = nonblock])
      BY <3>1, FlagStep
    <3>. QED
      BY <2>1, <2>4, <3>2
  <2>. QED
    BY <2>2, <2>3, <2>4
<1>. QED
  BY <1>4, <1>5 DEF Control
----------------------------------------------------------------------------
(* The redirection: from a pool whose other descriptors are free, each of  *)
(* the three becomes the UART's.                                           *)
Fresh(p) ==
  /\ \A k \in Fds \ Std : p.fd[k] = Free
  /\ \A k \in Fds : ~ p.fd[k].excl

UartListed == \E i \in 1 .. Len(devs) : devs[i] = DevUart

LEMMA OpenUart ==
  ASSUME NEW p, PoolKept(p), Fresh(p), GoodLists, UartListed, NEW mode \in Modes
  PROVE  \E i \in Fds \ Std, m \in 0 .. (MaxFd - 1) :
           /\ p.fd[i] = Free /\ i <= m /\ p.max <= m
           /\ alt_open(p, devs, fss, DevUart, mode, FALSE, 0)
                = Done(Taken(p, i, Entry(DevUart, mode, FALSE, TRUE), m), i)
<1>. DEFINE e == Entry(DevUart, mode, FALSE, TRUE)
            got == alt_get_fd(p, DevUart)
            q == [got.pool EXCEPT !.fd[got.val] = e]
<1>1. alt_find_dev(DevUart, devs) = DevUart /\ DevUart # NoDev
  <2>1. DevUart # NoDev
    BY DeviceNames DEF Device
  <2>2. First(devs, {DevUart}) = NoDev => \A i \in 1 .. Len(devs) : devs[i] # DevUart
    BY <2>1, FirstFacts DEF GoodLists
  <2>3. First(devs, {DevUart}) = NoDev \/ First(devs, {DevUart}) = DevUart
    BY FirstFacts DEF GoodLists
  <2>. QED
    BY <2>1, <2>2, <2>3 DEF alt_find_dev, UartListed
<1>2. alt_open(p, devs, fss, DevUart, mode, FALSE, 0)
        = IF got.val < 0 THEN got
          ELSE IF ~ alt_file_locked(q, got.val) THEN Done(q, got.val)
          ELSE Failed(alt_release_fd(q, got.val), Errno.EACCES)
  <2>. DEFINE status == IF alt_file_locked(q, got.val) THEN -Errno.EACCES
                        ELSE IF "open" \in Provides(DevUart) THEN 0 ELSE 0
  <2>1. alt_open(p, devs, fss, DevUart, mode, FALSE, 0)
          = IF got.val < 0 THEN got
            ELSE IF status >= 0 THEN Done(q, got.val)
            ELSE Failed(alt_release_fd(q, got.val), -status)
    BY <1>1 DEF alt_open
  <2>2. status = IF alt_file_locked(q, got.val) THEN -Errno.EACCES ELSE 0
    OBVIOUS
  <2>. HIDE DEF status, q, got
  <2>. QED
    BY <2>1, <2>2, AccessError
<1>3. DevUart \in Device /\ e \in Descriptor /\ e.excl = FALSE
  BY EntryFacts DEF Device
<1>4. PICK i \in Fds \ Std, m \in 0 .. (MaxFd - 1) :
        /\ p.fd[i] = Free /\ i <= m /\ p.max <= m
        /\ got = Done([fd |-> [p.fd EXCEPT ![i].dev = DevUart], max |-> m], i)
  <2>1. 3 \in Fds /\ p.fd[3].dev = NoDev
    BY FdFacts, FreeFacts DEF Fresh
  <2>. QED
    BY <1>3, <2>1, GetFacts
<1>5. ~ (got.val < 0) /\ got.val = i
      /\ got.pool = [fd |-> [p.fd EXCEPT ![i].dev = DevUart], max |-> m]
  BY <1>4, FdFacts DEF Done
<1>6. q = Taken(p, i, e, m)
  <2>1. q = [[fd |-> [p.fd EXCEPT ![i].dev = DevUart], max |-> m] EXCEPT !.fd[i] = e]
    BY <1>5
  <2>. HIDE DEF q, e, got
  <2>. QED
    BY <1>3, <1>4, <2>1, TakenFacts
<1>. HIDE DEF q, e, got
<1>7. ~ alt_file_locked(q, i)
  <2>1. \A k \in Fds \ {i} : q.fd[k] = p.fd[k]
    BY <1>3, <1>4, <1>6, TakenFacts
  <2>. QED
    BY <2>1 DEF alt_file_locked, Fresh
<1>. QED
  BY <1>2, <1>4, <1>5, <1>6, <1>7 DEF e

LEMMA RedirectOne ==
  ASSUME NEW p, PoolKept(p), Fresh(p), GoodLists, UartListed,
         NEW f \in Std, NEW mode \in Modes
  PROVE  LET q == alt_open_fd(p, devs, fss, f, DevUart, mode) IN
         /\ PoolKept(q) /\ Fresh(q)
         /\ q.fd[f].dev = DevUart /\ q.fd[f].mode = mode
         /\ \A k \in Std \ {f} : q.fd[k] = p.fd[k]
<1>. DEFINE e == Entry(DevUart, mode, FALSE, TRUE)
            old == alt_open(p, devs, fss, DevUart, mode, FALSE, 0)
            q == alt_open_fd(p, devs, fss, f, DevUart, mode)
<1>1. PICK i \in Fds \ Std, m \in 0 .. (MaxFd - 1) :
        p.fd[i] = Free /\ i <= m /\ p.max <= m /\ old = Done(Taken(p, i, e, m), i)
  BY OpenUart
<1>2. /\ p.fd \in [Fds -> Descriptor] /\ p.max \in Int
      /\ f \in Fds /\ i \in Fds /\ i > 2 /\ f # i
  BY FilesAssumption, FdFacts, SMT DEF PoolKept, PoolType, Fds, Std
<1>3. e \in Descriptor /\ e.dev = DevUart /\ e.mode = mode /\ ~ e.excl
      /\ DevUart # NoDev
  <2>1. DevUart \in Device
    BY DEF Device
  <2>2. TRUE \in BOOLEAN /\ FALSE \in BOOLEAN
    OBVIOUS
  <2>3. e \in Descriptor /\ e.dev = DevUart /\ e.mode = mode /\ e.excl = FALSE
    BY <2>1, <2>2 DEF Entry, Descriptor
  <2>4. DevUart # NoDev
    BY <2>1, DeviceNames
  <2>. HIDE DEF e, old, q
  <2>. QED
    BY <2>3, <2>4
<1>4. old.val = i /\ ~ (i < 0) /\ old.pool = [fd |-> [p.fd EXCEPT ![i] = e], max |-> m]
  <2>1. ~ (i < 0)
    BY <1>2, FdFacts, SMT
  <2>. HIDE DEF old, e
  <2>. QED
    BY <1>1, <2>1 DEF Done, Taken
<1>5. q = alt_release_fd([old.pool EXCEPT !.fd[f] = old.pool.fd[old.val]], old.val)
  BY <1>4 DEF alt_open_fd
<1>. HIDE DEF e, old
<1>6. [old.pool EXCEPT !.fd[f] = old.pool.fd[old.val]]
        = [fd |-> [[p.fd EXCEPT ![i] = e] EXCEPT ![f] = e], max |-> m]
  BY <1>2, <1>4
<1>7. [[[p.fd EXCEPT ![i] = e] EXCEPT ![f] = e] EXCEPT ![i] = Free]
        = [p.fd EXCEPT ![f] = e]
  BY <1>1, <1>2
<1>8. q = [fd |-> [p.fd EXCEPT ![f] = e], max |-> m]
  <2>. DEFINE r == [fd |-> [[p.fd EXCEPT ![i] = e] EXCEPT ![f] = e], max |-> m]
  <2>1. q = alt_release_fd(r, i)
    BY <1>4, <1>5, <1>6
  <2>2. alt_release_fd(r, i) = [r EXCEPT !.fd[i] = Free]
    BY <1>2 DEF alt_release_fd
  <2>. QED
    BY <1>7, <2>1, <2>2
<1>. HIDE DEF q
<1>9. q.max = m /\ q.fd[f] = e /\ (\A k \in Fds \ {f} : q.fd[k] = p.fd[k])
      /\ q.fd \in [Fds -> Descriptor]
  BY <1>2, <1>3, <1>8
<1>10. q \in PoolType
  <2>1. m \in -1 .. (MaxFd - 1)
    BY FilesAssumption, SMT
  <2>. QED
    BY <1>8, <1>9, <2>1 DEF PoolType
<1>11. Marked(q) /\ Clean(q) /\ StdInUse(q)
  <2>1. \A k \in Fds \ Std : q.fd[k] = Free
    BY <1>2, <1>9 DEF Fresh
  <2>2. \A k \in Std : q.fd[k].dev # NoDev
    BY <1>3, <1>9, FdFacts DEF StdInUse, PoolKept
  <2>. QED
    BY <2>1, <2>2, FreeFacts DEF Marked, Clean, StdInUse
<1>12. LocksDevices(q) /\ IsDevice(q)
  BY <1>3, <1>9 DEF LocksDevices, IsDevice, PoolKept
<1>13. Fresh(q)
  BY <1>3, <1>9 DEF Fresh
<1>. QED
  BY <1>3, <1>9, <1>10, <1>11, <1>12, <1>13, FdFacts DEF PoolKept, q

LEMMA RedirectAll ==
  ASSUME NEW p, PoolKept(p), Fresh(p), GoodLists, UartListed
  PROVE  LET q == alt_io_redirect(p, devs, fss, Stdout, Stdin, Stderr) IN
         PoolKept(q) /\ Streams(q)
<1>. DEFINE p1 == alt_open_fd(p, devs, fss, 1, DevUart, "WRONLY")
            p2 == alt_open_fd(p1, devs, fss, 0, DevUart, "RDONLY")
            q == alt_open_fd(p2, devs, fss, 2, DevUart, "WRONLY")
<1>0. "WRONLY" \in Modes /\ "RDONLY" \in Modes
  BY DEF Modes
<1>1. PoolKept(p1) /\ Fresh(p1) /\ p1.fd[1].dev = DevUart /\ p1.fd[1].mode = "WRONLY"
  BY <1>0, RedirectOne, StdFacts
<1>. HIDE DEF p1
<1>2. /\ PoolKept(p2) /\ Fresh(p2) /\ p2.fd[0].dev = DevUart /\ p2.fd[0].mode = "RDONLY"
      /\ p2.fd[1] = p1.fd[1]
  BY <1>0, <1>1, RedirectOne, StdFacts
<1>. HIDE DEF p2
<1>3. /\ PoolKept(q) /\ q.fd[2].dev = DevUart /\ q.fd[2].mode = "WRONLY"
      /\ q.fd[0] = p2.fd[0] /\ q.fd[1] = p2.fd[1]
  BY <1>0, <1>2, RedirectOne, StdFacts
<1>. HIDE DEF q
<1>4. PoolKept(q) /\ Streams(q)
  BY <1>1, <1>2, <1>3, StdFacts DEF Streams
<1>. QED
  BY <1>4 DEF q, p2, p1, alt_io_redirect, Stdout, Stdin, Stderr

----------------------------------------------------------------------------
(* The inductive invariant: the pool is as it was loaded until the streams *)
(* are redirected, and has them from then on.                              *)
Starting == {"alt_irq_init", "alt_sys_init", "alt_io_redirect"}

BootInv ==
  /\ GoodLists
  /\ PoolKept(pool)
  /\ pc \in Starting => Fresh(pool)
  /\ pc = "alt_io_redirect" => UartListed
  /\ pc \notin Starting => Streams(pool)

LEMMA LoadedPool == PoolKept(InitialPool) /\ Fresh(InitialPool)
<1>. DEFINE null == Entry(DevNull, "RDONLY", FALSE, FALSE)
<1>1. DevNull \in Device /\ "RDONLY" \in Modes /\ DevNull # NoDev
  BY DeviceNames DEF Device, Modes
<1>2. null \in Descriptor /\ null.dev = DevNull /\ ~ null.excl /\ ~ null.isdev
  BY <1>1, EntryFacts
<1>. HIDE DEF null
<1>3. /\ InitialPool.max = -1
      /\ InitialPool.fd = [i \in Fds |-> IF i \in Std THEN null ELSE Free]
      /\ InitialPool = [fd |-> InitialPool.fd, max |-> InitialPool.max]
  BY DEF InitialPool, null
<1>4. /\ InitialPool.fd \in [Fds -> Descriptor]
      /\ \A k \in Std : InitialPool.fd[k] = null
      /\ \A k \in Fds \ Std : InitialPool.fd[k] = Free
  BY <1>2, <1>3, FdFacts, FreeFacts
<1>5. InitialPool \in PoolType
  <2>1. -1 \in -1 .. (MaxFd - 1)
    BY FilesAssumption, SMT
  <2>. QED
    BY <1>3, <1>4, <2>1 DEF PoolType
<1>. HIDE DEF Free
<1>6. Marked(InitialPool) /\ Clean(InitialPool) /\ StdInUse(InitialPool)
  BY <1>1, <1>2, <1>4, FreeFacts DEF Marked, Clean, StdInUse
<1>7. LocksDevices(InitialPool) /\ IsDevice(InitialPool) /\ Fresh(InitialPool)
  BY <1>2, <1>4, FreeFacts DEF LocksDevices, IsDevice, Fresh
<1>. QED
  BY <1>5, <1>6, <1>7 DEF PoolKept

LEMMA BootStarts == BootInit => BootInv
<1>. SUFFICES ASSUME BootInit PROVE BootInv
  OBVIOUS
<1>1. devs \in Seq({DevNull, DevUart}) /\ fss \in Seq(FileSystems)
  BY DEF BootInit
<1>. QED
  BY <1>1, LoadedPool DEF BootInit, BootInv, GoodLists, Starting

(* What a call of the program may do.                                      *)
LEMMA ProgramStep ==
  ASSUME BootInv, Program
  PROVE  /\ Step(pool, pool')
         /\ UNCHANGED << devs, fss >>
         /\ pc = "main" /\ pc' \in {"main", "halted"}
<1>. USE DEF Returns
<1>0. PoolKept(pool) /\ GoodLists /\ pc = "main"
  BY DEF BootInv, Program
<1>1. CASE Open
  <2>1. PICK name \in Names, m \in OpenModes, drv \in DriverResults :
          Returns(alt_open(pool, devs, fss, name, m.mode, m.nonblock, drv))
    BY <1>1 DEF Open
  <2>2. m.mode \in Modes /\ m.nonblock \in BOOLEAN
    BY BootAssumption
  <2>. DEFINE r == alt_open(pool, devs, fss, name, m.mode, m.nonblock, drv)
  <2>3. Refuses(pool, r) \/ \E e \in Descriptor : Opens(pool, r, e)
    BY <1>0, <2>2, OpenFacts
  <2>4. pool' = r.pool /\ pc' = pc /\ devs' = devs /\ fss' = fss
    BY <2>1
  <2>. HIDE DEF r
  <2>. QED
    BY <1>0, <2>3, <2>4, OpenStep
<1>2. CASE Stat
  <2>1. PICK name \in Names, drv \in DriverResults :
          Returns(alt_stat(pool, devs, fss, name, drv))
    BY <1>2 DEF Stat
  <2>. QED
    BY <1>0, <2>1, StatStep
<1>3. CASE Unsupported
  BY <1>0, <1>3, NoStep DEF Unsupported
<1>4. ASSUME NEW f \in Usable, Close(f)
      PROVE  Step(pool, pool') /\ UNCHANGED << devs, fss >> /\ pc' = "main"
  <2>1. f \in Fds \cup {-1}
    BY SMT DEF Usable
  <2>2. PICK drv \in DriverResults : Returns(alt_close(pool, f, drv))
    BY <1>4 DEF Close
  <2>. QED
    BY <1>0, <2>1, <2>2, CloseStep
<1>5. ASSUME NEW f \in Usable, Transfer(f)
      PROVE  Step(pool, pool') /\ UNCHANGED << devs, fss >> /\ pc' = "main"
  <2>1. UNCHANGED << devs, fss, pc >>
    BY <1>5 DEF Transfer
  <2>2. pool' = pool
    BY <1>5, TransferStep
  <2>. QED
    BY <1>0, <2>1, <2>2, NoStep
<1>6. ASSUME NEW f \in Usable, Control(f)
      PROVE  Step(pool, pool') /\ UNCHANGED << devs, fss >> /\ pc' = "main"
  <2>1. UNCHANGED << devs, fss, pc >>
    BY <1>6 DEF Control
  <2>. QED
    BY <1>0, <1>6, <2>1, ControlStep
<1>7. ASSUME NEW pid, NEW sig, kill(pid, sig)
      PROVE  Step(pool, pool') /\ UNCHANGED << devs, fss >> /\ pc' \in {"main", "halted"}
  BY <1>0, <1>7, NoStep DEF kill
<1>. QED
  BY <1>0, <1>1, <1>2, <1>3, <1>4, <1>5, <1>6, <1>7 DEF Program

LEMMA BootKeeps ==
  ASSUME BootInv, [BootNext]_bootVars
  PROVE  BootInv' /\ NoNewUser(pool, pool')
<1>0. /\ PoolKept(pool) /\ NoNewUser(pool, pool)
  BY DEF BootInv, NoNewUser
<1>1. CASE UNCHANGED bootVars
  BY <1>0, <1>1 DEF bootVars, BootInv, GoodLists, UartListed
<1>2. CASE IrqInit
  BY <1>0, <1>2 DEF IrqInit, BootInv, GoodLists, Starting
<1>3. CASE SysInit
  <2>1. DevUart # NoDev /\ NoDev \notin FileSystems
    BY DeviceNames DEF Device
  <2>2. devs' = << DevUart >> \o devs
    BY <1>3, <2>1 DEF SysInit, alt_dev_llist_insert, alt_llist_insert
  <2>3. devs' \in Seq({DevNull, DevUart}) /\ Len(devs') > 0 /\ devs'[1] = DevUart
    BY <2>2 DEF BootInv, GoodLists
  <2>4. 1 \in 1 .. Len(devs')
    BY <2>3
  <2>5. UartListed'
    BY <2>3, <2>4 DEF UartListed
  <2>6. fss' \in Seq(FileSystems)
    <3>1. CASE fss' = fss
      BY <3>1 DEF BootInv, GoodLists
    <3>2. ASSUME NEW fs \in FileSystems, fss' = alt_fs_reg(fss, fs)
          PROVE  fss' \in Seq(FileSystems)
      <4>1. fss' = << fs >> \o fss
        BY <2>1, <3>2 DEF alt_fs_reg, alt_llist_insert
      <4>. QED
        BY <4>1 DEF BootInv, GoodLists
    <3>. QED
      BY <1>3, <3>1, <3>2 DEF SysInit
  <2>7. pc = "alt_sys_init" /\ pc' = "alt_io_redirect" /\ pool' = pool
    BY <1>3 DEF SysInit
  <2>. QED
    BY <1>0, <2>3, <2>5, <2>6, <2>7 DEF BootInv, GoodLists, Starting
<1>4. CASE Redirect
  <2>1. PoolKept(pool') /\ Streams(pool')
    BY <1>4, RedirectAll DEF Redirect, BootInv, Starting
  <2>2. NoNewUser(pool, pool')
    BY <1>4 DEF Redirect, BootInv, Starting, Fresh, NoNewUser
  <2>3. GoodLists' /\ pc' = "_do_ctors"
    BY <1>4 DEF Redirect, BootInv, GoodLists
  <2>. QED
    BY <2>1, <2>2, <2>3 DEF BootInv, Starting
<1>5. CASE do_ctors
  BY <1>0, <1>5 DEF do_ctors, BootInv, GoodLists, Starting
<1>6. CASE Program
  <2>1. /\ PoolKept(pool') /\ NoNewUser(pool, pool')
        /\ Streams(pool) => Streams(pool')
    BY <1>0, <1>6, ProgramStep, StepKeeps
  <2>2. GoodLists' /\ Streams(pool) /\ pc' \in {"main", "halted"}
    BY <1>6, ProgramStep DEF BootInv, GoodLists, Starting
  <2>. QED
    BY <2>1, <2>2 DEF BootInv, Starting
<1>7. CASE MainReturns
  <2>1. Step(pool, pool')
    BY <1>0, <1>7, FdFacts, StdFacts, CloseStep DEF MainReturns
  <2>2. /\ PoolKept(pool') /\ NoNewUser(pool, pool')
        /\ Streams(pool) => Streams(pool')
    BY <1>0, <2>1, StepKeeps
  <2>. QED
    BY <1>7, <2>2 DEF MainReturns, BootInv, GoodLists, Starting
<1>8. CASE do_dtors
  BY <1>0, <1>8 DEF do_dtors, BootInv, GoodLists, Starting
<1>9. CASE Flush
  BY <1>0, <1>9 DEF Flush, BootInv, GoodLists, Starting
<1>10. CASE exit
  BY <1>0, <1>10 DEF exit, BootInv, GoodLists, Starting
<1>. QED
  BY <1>1, <1>2, <1>3, <1>4, <1>5, <1>6, <1>7, <1>8, <1>9, <1>10 DEF BootNext

LEMMA BootInvHolds == BootSpec => []BootInv
<1>1. BootInv /\ [BootNext]_bootVars => BootInv'
  BY BootKeeps
<1>. QED
  BY BootStarts, <1>1, PTL DEF BootSpec

(* Whatever the program opened and closed, the mark is at the highest      *)
(* descriptor in use or above, and no lock survives a descriptor.          *)
THEOREM PoolIsSound == BootSpec => []PoolSound
<1>1. BootInv => PoolSound
  BY DEF BootInv, PoolKept, Marked, Clean, PoolSound, HighWaterMark, FreeIsClean
<1>. QED
  BY BootInvHolds, <1>1, PTL

(* A device that one descriptor holds for itself gains no descriptor.      *)
THEOREM LockedDevice == BootSpec => LockedGainsNoUser
<1>1. BootInv /\ [BootNext]_bootVars
        => [\A f \in Fds : pool.fd[f].excl =>
              \A g \in Fds : pool'.fd[g].dev = pool.fd[f].dev
                             => pool.fd[g].dev = pool.fd[f].dev]_bootVars
  BY BootKeeps DEF NoNewUser
<1>. QED
  BY BootInvHolds, <1>1, PTL DEF BootSpec, LockedGainsNoUser

(* An open that fails and a stat leave every descriptor as it was.         *)
THEOREM NothingLost == BootSpec => NoDescriptorLost
<1>1. ASSUME BootInv, Stat PROVE pool'.fd = pool.fd
  <2>1. PICK name \in Names, drv \in DriverResults :
          Returns(alt_stat(pool, devs, fss, name, drv))
    BY <1>1 DEF Stat
  <2>. QED
    BY <1>1, <2>1, StatStep DEF BootInv, Returns
<1>2. ASSUME BootInv, Open, failed' PROVE pool'.fd = pool.fd
  <2>1. PICK name \in Names, m \in OpenModes, drv \in DriverResults :
          Returns(alt_open(pool, devs, fss, name, m.mode, m.nonblock, drv))
    BY <1>2 DEF Open
  <2>2. m.mode \in Modes /\ m.nonblock \in BOOLEAN
    BY BootAssumption
  <2>. DEFINE r == alt_open(pool, devs, fss, name, m.mode, m.nonblock, drv)
  <2>3. Refuses(pool, r) \/ \E e \in Descriptor : Opens(pool, r, e)
    BY <1>2, <2>2, OpenFacts DEF BootInv
  <2>4. pool' = r.pool /\ failed' = (r.val < 0)
    BY <2>1 DEF Returns
  <2>. HIDE DEF r
  <2>5. ASSUME NEW e \in Descriptor, Opens(pool, r, e) PROVE FALSE
    <3>1. r.val \in Fds
      BY <2>5 DEF Opens, Done
    <3>2. ~ (r.val < 0)
      <4>1. \A x \in Nat : ~ (x < 0)
        BY SMT
      <4>. QED
        BY <3>1, <4>1, FdFacts
    <3>. QED
      BY <1>2, <2>4, <3>2
  <2>. QED
    BY <2>3, <2>4, <2>5 DEF Refuses
<1>3. BootInv => [pool'.fd # pool.fd => ~Stat /\ ~(failed' /\ Open)]_bootVars
  BY <1>1, <1>2
<1>. QED
  BY BootInvHolds, <1>3, PTL DEF BootSpec, NoDescriptorLost

----------------------------------------------------------------------------
(* The constructors from the last to the first, then the destructors the   *)
(* same way: what has run after n of the ones and m of the others.         *)
RanAfter(n, m) ==
  [k \in 1 .. n + m |-> IF k <= n THEN << "ctor", Ctors + 1 - k >>
                                  ELSE << "dtor", Ctors + 1 - (k - n) >>]

(* How many have run where the program is.                                 *)
RanInv ==
  \E n, m \in 0 .. Ctors :
    /\ ran = RanAfter(n, m)
    /\ pc \in Starting => n = 0
    /\ pc \in Starting \cup {"_do_ctors", "main"} => m = 0
    /\ pc \in {"main", "exit", "flush", "_exit"} => n = Ctors
    /\ pc \in {"flush", "_exit"} => m = Ctors
    /\ pc \in Starting \cup {"_do_ctors", "main", "exit", "flush", "_exit", "halted"}

LEMMA RanFacts ==
  ASSUME NEW n \in Nat, NEW m \in Nat
  PROVE  /\ Len(RanAfter(n, m)) = n + m
         /\ \A k \in 1 .. n + m :
              RanAfter(n, m)[k] = IF k <= n THEN << "ctor", Ctors + 1 - k >>
                                  ELSE << "dtor", Ctors + 1 - (k - n) >>
         /\ RanAfter(n, m) \in Seq({"ctor", "dtor"} \X Int)
<1>. DEFINE S == {"ctor", "dtor"} \X Int
<1>1. n + m \in Nat
  OBVIOUS
<1>2. \A k \in 1 .. n + m :
        (IF k <= n THEN << "ctor", Ctors + 1 - k >>
                   ELSE << "dtor", Ctors + 1 - (k - n) >>) \in S
  BY BootAssumption
<1>3. RanAfter(n, m) \in [1 .. n + m -> S]
  BY <1>2 DEF RanAfter
<1>4. RanAfter(n, m) \in Seq(S)
  BY <1>1, <1>3
<1>5. DOMAIN RanAfter(n, m) = 1 .. n + m
  BY DEF RanAfter
<1>. QED
  BY <1>1, <1>4, <1>5 DEF RanAfter

LEMMA LeftAfter ==
  ASSUME NEW n \in 0 .. Ctors, NEW m \in 0 .. Ctors, ran = RanAfter(n, m)
  PROVE  LeftOf("ctor") = Ctors - n /\ LeftOf("dtor") = Ctors - m
<1>0. n \in Nat /\ m \in Nat /\ Ctors \in Nat
  BY BootAssumption
<1>1. /\ Len(ran) = n + m
      /\ \A k \in 1 .. n + m : k <= n => ran[k][1] = "ctor"
      /\ \A k \in 1 .. n + m : ~ (k <= n) => ran[k][1] = "dtor"
  <2>1. /\ Len(ran) = n + m
        /\ \A k \in 1 .. n + m : ran[k] = IF k <= n THEN << "ctor", Ctors + 1 - k >>
                                          ELSE << "dtor", Ctors + 1 - (k - n) >>
    BY <1>0, RanFacts
  <2>2. ASSUME NEW k \in 1 .. n + m, k <= n PROVE ran[k][1] = "ctor"
    <3>1. ran[k] = << "ctor", Ctors + 1 - k >>
      BY <2>1, <2>2, Zenon
    <3>. QED
      BY <3>1
  <2>3. ASSUME NEW k \in 1 .. n + m, ~ (k <= n) PROVE ran[k][1] = "dtor"
    <3>1. ran[k] = << "dtor", Ctors + 1 - (k - n) >>
      BY <2>1, <2>3, Zenon
    <3>. QED
      BY <3>1
  <2>. QED
    BY <2>1, <2>2, <2>3
<1>2. {k \in 1 .. n + m : k <= n} = 1 .. n /\ {k \in 1 .. n + m : ~ (k <= n)} = n + 1 .. n + m
  BY <1>0
<1>3. {k \in 1 .. Len(ran) : ran[k][1] = "ctor"} = 1 .. n
  BY <1>1, <1>2
<1>4. {k \in 1 .. Len(ran) : ran[k][1] = "dtor"} = n + 1 .. n + m
  BY <1>1, <1>2
<1>5. Cardinality(1 .. n) = n
  <2>1. Cardinality(1 .. n) = IF 1 > n THEN 0 ELSE n - 1 + 1
    BY <1>0, FS_Interval
  <2>. QED
    BY <1>0, <2>1
<1>6. Cardinality(n + 1 .. n + m) = m
  <2>1. n + 1 \in Int /\ n + m \in Int
    BY <1>0
  <2>2. Cardinality(n + 1 .. n + m)
          = IF n + 1 > n + m THEN 0 ELSE n + m - (n + 1) + 1
    BY <2>1, FS_Interval
  <2>. QED
    BY <1>0, <2>2
<1>. QED
  BY <1>3, <1>4, <1>5, <1>6 DEF LeftOf

(* One more of either kind.                                                *)
LEMMA RanMore ==
  ASSUME NEW n \in 0 .. Ctors, NEW m \in 0 .. Ctors
  PROVE  /\ m = 0 => Append(RanAfter(n, m), << "ctor", Ctors - n >>) = RanAfter(n + 1, 0)
         /\ Append(RanAfter(n, m), << "dtor", Ctors - m >>) = RanAfter(n, m + 1)
<1>. DEFINE R == RanAfter(n, m)
            S == {"ctor", "dtor"} \X Int
<1>0. n \in Nat /\ m \in Nat /\ Ctors \in Nat
  BY BootAssumption
<1>1. /\ Len(R) = n + m /\ R \in Seq(S)
      /\ \A k \in 1 .. n + m : R[k] = IF k <= n THEN << "ctor", Ctors + 1 - k >>
                                  ELSE << "dtor", Ctors + 1 - (k - n) >>
  BY <1>0, RanFacts
<1>. HIDE DEF R
<1>2. ASSUME NEW e \in S, NEW T, DOMAIN T = 1 .. n + m + 1, T = [k \in DOMAIN T |-> T[k]],
             \A k \in 1 .. n + m : T[k] = R[k], T[n + m + 1] = e
      PROVE  Append(R, e) = T
  <2>1. /\ DOMAIN Append(R, e) = 1 .. n + m + 1
        /\ Append(R, e) = [k \in DOMAIN Append(R, e) |-> Append(R, e)[k]]
        /\ Append(R, e)[n + m + 1] = e
        /\ \A k \in 1 .. n + m : Append(R, e)[k] = R[k]
    <3>1. /\ Append(R, e) \in Seq(S) /\ Len(Append(R, e)) = n + m + 1
          /\ Append(R, e)[n + m + 1] = e
          /\ \A k \in 1 .. n + m : Append(R, e)[k] = R[k]
      <4>. HIDE DEF S
      <4>. QED
        BY <1>1, AppendProperties
    <3>2. ASSUME NEW s \in Seq(S)
          PROVE  DOMAIN s = 1 .. Len(s) /\ s = [k \in DOMAIN s |-> s[k]]
      BY <3>2
    <3>. HIDE DEF S
    <3>. QED
      BY <3>1, <3>2
  <2>2. \A k \in 1 .. n + m + 1 : k \in 1 .. n + m \/ k = n + m + 1
    BY <1>0
  <2>3. \A k \in 1 .. n + m + 1 : Append(R, e)[k] = T[k]
    BY <1>2, <2>1, <2>2
  <2>. QED
    BY <1>2, <2>1, <2>3
<1>3. ASSUME m = 0
      PROVE  Append(R, << "ctor", Ctors - n >>) = RanAfter(n + 1, 0)
  <2>. DEFINE T == RanAfter(n + 1, 0)
  <2>1. n + 1 + 0 = n + m + 1 /\ n + 1 \in 1 .. n + 1 + 0
    BY <1>0, <1>3
  <2>2. DOMAIN T = 1 .. n + m + 1 /\ T = [k \in DOMAIN T |-> T[k]]
    BY <2>1 DEF RanAfter
  <2>3. \A k \in 1 .. n + m : k \in 1 .. n + 1 + 0 /\ k <= n + 1 /\ k <= n
    BY <1>0, <1>3
  <2>4. \A k \in 1 .. n + m : T[k] = << "ctor", Ctors + 1 - k >>
    BY <2>3 DEF RanAfter
  <2>5. \A k \in 1 .. n + m : T[k] = R[k]
    BY <1>1, <2>3, <2>4
  <2>6. T[n + m + 1] = << "ctor", Ctors - n >>
    <3>1. Ctors + 1 - (n + 1) = Ctors - n /\ n + 1 <= n + 1 /\ n + m + 1 = n + 1
      BY <1>0, <1>3
    <3>. QED
      BY <2>1, <3>1 DEF RanAfter
  <2>7. << "ctor", Ctors - n >> \in S
    BY <1>0
  <2>. HIDE DEF T, S
  <2>. QED
    BY <1>2, <2>2, <2>5, <2>6, <2>7 DEF T
<1>4. Append(R, << "dtor", Ctors - m >>) = RanAfter(n, m + 1)
  <2>. DEFINE T == RanAfter(n, m + 1)
  <2>1. n + (m + 1) = n + m + 1 /\ n + m + 1 \in 1 .. n + (m + 1) /\ ~ (n + m + 1 <= n)
    BY <1>0
  <2>2. DOMAIN T = 1 .. n + m + 1 /\ T = [k \in DOMAIN T |-> T[k]]
    BY <2>1 DEF RanAfter
  <2>3. \A k \in 1 .. n + m : k \in 1 .. n + (m + 1)
    BY <1>0
  <2>4. \A k \in 1 .. n + m : T[k] = R[k]
    BY <1>1, <2>3 DEF RanAfter
  <2>5. T[n + m + 1] = << "dtor", Ctors - m >>
    <3>1. Ctors + 1 - (n + m + 1 - n) = Ctors - m
      BY <1>0
    <3>. QED
      BY <2>1, <3>1 DEF RanAfter
  <2>6. << "dtor", Ctors - m >> \in S
    BY <1>0
  <2>. HIDE DEF T, S
  <2>. QED
    BY <1>2, <2>2, <2>4, <2>5, <2>6 DEF T
<1>. QED
  BY <1>3, <1>4 DEF R

LEMMA RanKeeps ==
  ASSUME RanInv, [BootNext]_bootVars
  PROVE  RanInv'
<1>. PICK n \in 0 .. Ctors, m \in 0 .. Ctors :
       /\ ran = RanAfter(n, m)
       /\ pc \in Starting => n = 0
       /\ pc \in Starting \cup {"_do_ctors", "main"} => m = 0
       /\ pc \in {"main", "exit", "flush", "_exit"} => n = Ctors
       /\ pc \in {"flush", "_exit"} => m = Ctors
       /\ pc \in Starting \cup {"_do_ctors", "main", "exit", "flush", "_exit", "halted"}
  BY DEF RanInv
<1>0. /\ LeftOf("ctor") = Ctors - n /\ LeftOf("dtor") = Ctors - m /\ Ctors \in Nat
      /\ Ctors - n > 0 => n + 1 \in 0 .. Ctors
      /\ Ctors - m > 0 => m + 1 \in 0 .. Ctors
      /\ ~ (Ctors - n > 0) => n = Ctors
      /\ ~ (Ctors - m > 0) => m = Ctors
      /\ 0 \in 0 .. Ctors
  <2>1. LeftOf("ctor") = Ctors - n /\ LeftOf("dtor") = Ctors - m
    BY LeftAfter
  <2>. QED
    BY <2>1, BootAssumption
<1>1. CASE UNCHANGED bootVars
  BY <1>1 DEF bootVars, RanInv
<1>2. CASE IrqInit
  BY <1>2 DEF IrqInit, RanInv, Starting
<1>3. CASE SysInit
  BY <1>3 DEF SysInit, RanInv, Starting
<1>4. CASE Redirect
  BY <1>4 DEF Redirect, RanInv, Starting
<1>5. CASE do_ctors
  <2>0. pc = "_do_ctors" /\ m = 0
    BY <1>5 DEF do_ctors
  <2>1. CASE Ctors - n > 0
    <3>1. ran' = RanAfter(n + 1, 0) /\ pc' = "_do_ctors"
      BY <1>0, <1>5, <2>0, <2>1, RanMore DEF do_ctors
    <3>. QED
      BY <1>0, <2>1, <3>1 DEF RanInv, Starting
  <2>2. CASE ~ (Ctors - n > 0)
    <3>1. ran' = RanAfter(n, 0) /\ pc' = "main" /\ n = Ctors
      BY <1>0, <1>5, <2>0, <2>2 DEF do_ctors
    <3>. QED
      BY <1>0, <3>1 DEF RanInv, Starting
  <2>. QED
    BY <2>1, <2>2
<1>6. CASE Program
  <2>1. pc = "main" /\ pc' \in {"main", "halted"} /\ ran' = ran
    BY <1>6 DEF Program, Open, Stat, Unsupported, Close, Transfer, Control, Returns, kill
  <2>. QED
    BY <2>1 DEF RanInv, Starting
<1>7. CASE MainReturns
  BY <1>7 DEF MainReturns, RanInv, Starting
<1>8. CASE do_dtors
  <2>0. pc = "exit" /\ n = Ctors
    BY <1>8 DEF do_dtors
  <2>1. CASE Ctors - m > 0
    <3>0. Append(RanAfter(n, m), << "dtor", Ctors - m >>) = RanAfter(n, m + 1)
      BY RanMore
    <3>1. ran' = RanAfter(n, m + 1) /\ pc' = "exit"
      BY <1>0, <1>8, <2>0, <2>1, <3>0 DEF do_dtors
    <3>. QED
      BY <1>0, <2>0, <2>1, <3>1 DEF RanInv, Starting
  <2>2. CASE ~ (Ctors - m > 0)
    <3>1. ran' = RanAfter(n, m) /\ pc' = "flush" /\ m = Ctors
      BY <1>0, <1>8, <2>2 DEF do_dtors
    <3>. QED
      BY <2>0, <3>1 DEF RanInv, Starting
  <2>. QED
    BY <2>1, <2>2
<1>9. CASE Flush
  BY <1>9 DEF Flush, RanInv, Starting
<1>10. CASE exit
  BY <1>10 DEF exit, RanInv, Starting
<1>. QED
  BY <1>1, <1>2, <1>3, <1>4, <1>5, <1>6, <1>7, <1>8, <1>9, <1>10 DEF BootNext

LEMMA RanInvHolds == BootSpec => []RanInv
<1>1. BootInit => RanInv
  <2>1. ASSUME BootInit PROVE ran = RanAfter(0, 0)
    <3>1. Len(RanAfter(0, 0)) = 0 /\ RanAfter(0, 0) \in Seq({"ctor", "dtor"} \X Int)
      BY RanFacts
    <3>. QED
      BY <2>1, <3>1 DEF BootInit
  <2>2. 0 \in 0 .. Ctors
    BY BootAssumption
  <2>. QED
    BY <2>1, <2>2 DEF BootInit, RanInv, Starting
<1>2. RanInv /\ [BootNext]_bootVars => RanInv'
  BY RanKeeps
<1>. QED
  BY <1>1, <1>2, PTL DEF BootSpec

(* Each has run once where all have.                                       *)
LEMMA EachOnce ==
  ASSUME NEW n \in 0 .. Ctors, NEW m \in 0 .. Ctors, ran = RanAfter(n, m),
         NEW i \in 1 .. Ctors
  PROVE  /\ n = Ctors => \E k \in 1 .. Len(ran) : \A j \in 1 .. Len(ran) :
                           ran[j] = << "ctor", i >> <=> j = k
         /\ n = Ctors /\ m = Ctors
              => \E k \in 1 .. Len(ran) : \A j \in 1 .. Len(ran) :
                   ran[j] = << "dtor", i >> <=> j = k
<1>0. n \in Nat /\ m \in Nat /\ Ctors \in Nat /\ i \in Nat /\ 1 <= i /\ i <= Ctors
  BY BootAssumption
<1>1. /\ Len(ran) = n + m
      /\ \A k \in 1 .. n + m : ran[k] = IF k <= n THEN << "ctor", Ctors + 1 - k >>
                                        ELSE << "dtor", Ctors + 1 - (k - n) >>
  BY <1>0, RanFacts
<1>2. ASSUME n = Ctors
      PROVE  \E k \in 1 .. Len(ran) : \A j \in 1 .. Len(ran) :
               ran[j] = << "ctor", i >> <=> j = k
  <2>1. Ctors + 1 - i \in 1 .. Len(ran)
    BY <1>0, <1>1, <1>2
  <2>2. ASSUME NEW j \in 1 .. Len(ran)
        PROVE  ran[j] = << "ctor", i >> <=> j = Ctors + 1 - i
    <3>1. CASE j <= n
      <4>1. ran[j] = << "ctor", Ctors + 1 - j >>
        BY <1>1, <3>1, Zenon
      <4>2. Ctors + 1 - j = i <=> j = Ctors + 1 - i
        BY <1>0, <1>1
      <4>. QED
        BY <4>1, <4>2
    <3>2. CASE ~ (j <= n)
      <4>1. ran[j] = << "dtor", Ctors + 1 - (j - n) >>
        BY <1>1, <3>2, Zenon
      <4>2. j # Ctors + 1 - i
        BY <1>0, <1>1, <1>2, <3>2
      <4>. QED
        BY <4>1, <4>2
    <3>. QED
      BY <3>1, <3>2
  <2>. QED
    BY <2>1, <2>2, Zenon
<1>3. ASSUME n = Ctors, m = Ctors
      PROVE  \E k \in 1 .. Len(ran) : \A j \in 1 .. Len(ran) :
               ran[j] = << "dtor", i >> <=> j = k
  <2>1. n + (Ctors + 1 - i) \in 1 .. Len(ran)
    BY <1>0, <1>1, <1>3
  <2>2. ASSUME NEW j \in 1 .. Len(ran)
        PROVE  ran[j] = << "dtor", i >> <=> j = n + (Ctors + 1 - i)
    <3>1. CASE j <= n
      <4>1. ran[j] = << "ctor", Ctors + 1 - j >>
        BY <1>1, <3>1, Zenon
      <4>2. j # n + (Ctors + 1 - i)
        BY <1>0, <1>1, <3>1
      <4>. QED
        BY <4>1, <4>2
    <3>2. CASE ~ (j <= n)
      <4>1. ran[j] = << "dtor", Ctors + 1 - (j - n) >>
        BY <1>1, <3>2, Zenon
      <4>2. Ctors + 1 - (j - n) = i <=> j = n + (Ctors + 1 - i)
        BY <1>0, <1>1
      <4>. QED
        BY <4>1, <4>2
    <3>. QED
      BY <3>1, <3>2
  <2>. QED
    BY <2>1, <2>2, Zenon
<1>. QED
  BY <1>2, <1>3

LEMMA RanOnce == RanInv => RunOnce
<1>. SUFFICES ASSUME RanInv PROVE RunOnce
  OBVIOUS
<1>. PICK n \in 0 .. Ctors, m \in 0 .. Ctors :
       /\ ran = RanAfter(n, m)
       /\ pc \in {"main", "exit", "flush", "_exit"} => n = Ctors
       /\ pc \in {"flush", "_exit"} => m = Ctors
  BY DEF RanInv
<1>1. ASSUME pc \in {"main", "exit", "flush", "_exit"}, NEW i \in 1 .. Ctors
      PROVE  \E k \in 1 .. Len(ran) : \A j \in 1 .. Len(ran) :
               ran[j] = << "ctor", i >> <=> j = k
  BY <1>1, EachOnce
<1>2. ASSUME pc \in {"flush", "_exit"}, NEW i \in 1 .. Ctors
      PROVE  \E k \in 1 .. Len(ran) : \A j \in 1 .. Len(ran) :
               ran[j] = << "dtor", i >> <=> j = k
  BY <1>2, EachOnce
<1>. QED
  BY <1>1, <1>2 DEF RunOnce

(* The streams after the redirection, as start-up leaves them.             *)
LEMMA StreamFacts ==
  ASSUME BootInv, pc \in {"main", "exit", "flush"}
  PROVE  /\ pool.fd[0].dev = DevUart /\ pool.fd[0].mode = "RDONLY"
         /\ \A f \in {1, 2} : pool.fd[f].dev = DevUart /\ pool.fd[f].mode = "WRONLY"
         /\ Provides(DevUart) = {"close", "read", "write", "ioctl"}
         /\ DevUart # DevNull
         /\ \A f \in Std : ~ (f < 0)
<1>1. Streams(pool)
  BY DEF BootInv, Starting
<1>2. \A f \in Std : ~ (f < 0)
  BY SMT DEF Std
<1>. QED
  BY <1>1, <1>2, StdFacts, DeviceNames DEF Streams, Provides

LEMMA StreamsLast == BootInv => StreamsToTheEnd
<1>. SUFFICES ASSUME BootInv, pc \in {"main", "exit", "flush"}
              PROVE  /\ alt_read(pool, 0, 0).val = 0
                     /\ \A f \in {1, 2} : alt_write(pool, f, 0).val = 0
                     /\ \A f \in Std : pool.fd[f].dev = DevUart
  BY DEF StreamsToTheEnd
<1>1. \A p : FromDriver(p, 0).val = 0
  BY SMT DEF FromDriver, Done
<1>2. alt_read(pool, 0, 0) = FromDriver(pool, 0)
  BY StreamFacts, StdFacts DEF alt_read
<1>3. \A f \in {1, 2} : alt_write(pool, f, 0) = FromDriver(pool, 0)
  BY StreamFacts, StdFacts DEF alt_write
<1>. QED
  BY <1>1, <1>2, <1>3, StreamFacts, StdFacts

(* What each way of ending a call returns, and leaves in errno.            *)
LEMMA Results ==
  ASSUME NEW p, NEW rc \in Int
  PROVE  /\ Done(p, rc).val = rc /\ Passed(p, rc).val = rc
         /\ Signalled(p, rc).val = rc /\ Direct(rc).val = rc /\ Direct(rc).err = 0
         /\ \A e : Failed(p, e).val = -1 /\ Failed(p, e).err = e
         /\ BadFile.val = -1
         /\ rc >= 0 => FromDriver(p, rc) = Done(p, rc)
         /\ rc < 0 => FromDriver(p, rc) = Failed(p, -rc)
BY SMT DEF Done, Passed, Signalled, Direct, Failed, BadFile, FromDriver

LEMMA DriverTypes == DriverResults \subseteq Int /\ -Errno.EBADFD \in Int /\ -Errno.EBADFD < 0
<1>1. Errno.EBADFD = 81 /\ Errno.EWOULDBLOCK = 11
  BY DEF Errno
<1>. QED
  BY <1>1, SMT DEF DriverResults

(* What each function returns for a stream, with and without the pool.     *)
LEMMA StreamCalls ==
  ASSUME BootInv, pc = "main", NEW f \in Std, NEW drv \in DriverResults
  PROVE  /\ alt_ioctl(pool, f, "TIOCGCONNECTED", drv).val = drv
         /\ ioctl_direct(f, drv) = Direct(drv)
         /\ alt_fstat(pool, f, drv).val = 0 /\ fstat_direct(f).val = 0
         /\ alt_isatty(pool, f, drv = 0).val = 1 /\ isatty_direct(f).val = 1
         /\ f = 0 => /\ alt_read(pool, f, drv) = FromDriver(pool, drv)
                     /\ read_direct(f, drv) = Direct(drv)
                     /\ alt_write(pool, f, drv).val = -1
                     /\ write_direct(f, drv).val = -1
         /\ f # 0 => /\ alt_write(pool, f, drv) = FromDriver(pool, drv)
                     /\ write_direct(f, drv) = Direct(drv)
                     /\ alt_read(pool, f, drv).val = -1
                     /\ read_direct(f, drv).val = -1
<1>1. /\ pool.fd[f].dev = DevUart /\ ~ (f < 0)
      /\ Provides(DevUart) = {"close", "read", "write", "ioctl"} /\ DevUart # DevNull
      /\ f = 0 => pool.fd[f].mode = "RDONLY"
      /\ f \in {1, 2} => pool.fd[f].mode = "WRONLY"
      /\ (f = 0 /\ f \notin {1, 2}) \/ (f # 0 /\ f \in {1, 2})
  BY StreamFacts, StdFacts
<1>2. drv \in Int
  BY DriverTypes
<1>3. alt_ioctl(pool, f, "TIOCGCONNECTED", drv).val = drv
  <2>1. alt_ioctl(pool, f, "TIOCGCONNECTED", drv)
          = Signalled(Passed(pool, drv).pool, Passed(pool, drv).val)
    BY <1>1 DEF alt_ioctl
  <2>. QED
    BY <1>2, <2>1, Results
<1>4. alt_fstat(pool, f, drv) = Passed(pool, 0)
      /\ alt_isatty(pool, f, drv = 0) = Done(pool, 1)
  BY <1>1 DEF alt_fstat, alt_isatty
<1>5. /\ alt_fstat(pool, f, drv).val = 0 /\ fstat_direct(f).val = 0
      /\ alt_isatty(pool, f, drv = 0).val = 1 /\ isatty_direct(f).val = 1
  BY <1>4, Results DEF fstat_direct, isatty_direct
<1>6. ioctl_direct(f, drv) = Direct(drv)
  BY <1>1 DEF ioctl_direct
<1>7. \A e : Failed(pool, e).val = -1 /\ BadFile.val = -1
  BY DEF Failed, BadFile
<1>8. ASSUME f = 0
      PROVE  /\ alt_read(pool, f, drv) = FromDriver(pool, drv)
             /\ read_direct(f, drv) = Direct(drv)
             /\ alt_write(pool, f, drv).val = -1 /\ write_direct(f, drv).val = -1
  <2>1. alt_read(pool, f, drv) = FromDriver(pool, drv)
    BY <1>1, <1>8 DEF alt_read
  <2>2. alt_write(pool, f, drv) = Failed(pool, Errno.EACCES)
    BY <1>1, <1>8 DEF alt_write
  <2>3. read_direct(f, drv) = Direct(drv) /\ write_direct(f, drv) = BadFile
    BY <1>1, <1>8 DEF read_direct, write_direct
  <2>. QED
    BY <1>7, <2>1, <2>2, <2>3
<1>9. ASSUME f # 0
      PROVE  /\ alt_write(pool, f, drv) = FromDriver(pool, drv)
             /\ write_direct(f, drv) = Direct(drv)
             /\ alt_read(pool, f, drv).val = -1 /\ read_direct(f, drv).val = -1
  <2>1. alt_write(pool, f, drv) = FromDriver(pool, drv)
    BY <1>1, <1>9 DEF alt_write
  <2>2. alt_read(pool, f, drv) = Failed(pool, Errno.EACCES)
    BY <1>1, <1>9 DEF alt_read
  <2>3. write_direct(f, drv) = Direct(drv) /\ read_direct(f, drv) = BadFile
    BY <1>1, <1>9 DEF read_direct, write_direct
  <2>. QED
    BY <1>7, <2>1, <2>2, <2>3
<1>. QED
  BY <1>3, <1>5, <1>6, <1>8, <1>9

LEMMA NoStreamCalls ==
  ASSUME NEW drv \in DriverResults
  PROVE  /\ alt_read(pool, -1, drv).val = -1 /\ read_direct(-1, drv).val = -1
         /\ alt_write(pool, -1, drv).val = -1 /\ write_direct(-1, drv).val = -1
         /\ alt_ioctl(pool, -1, "TIOCGCONNECTED", drv).val = -Errno.EBADFD
         /\ ioctl_direct(-1, drv).val = -1
         /\ alt_fstat(pool, -1, drv).val = -1 /\ fstat_direct(-1).val = -1
         /\ alt_isatty(pool, -1, drv = 0).val = 0 /\ isatty_direct(-1).val = 0
<1>1. -1 < 0 /\ -1 \notin Std /\ -1 \notin {1, 2} /\ -1 # 0
  BY StdFacts, SMT
<1>2. [Failed(pool, Errno.EBADFD) EXCEPT !.val = 0].val = 0
  BY DEF Failed
<1>3. alt_ioctl(pool, -1, "TIOCGCONNECTED", drv).val = -Errno.EBADFD
  <2>1. alt_ioctl(pool, -1, "TIOCGCONNECTED", drv)
          = Signalled(Passed(pool, -Errno.EBADFD).pool, Passed(pool, -Errno.EBADFD).val)
    BY <1>1 DEF alt_ioctl
  <2>. QED
    BY <2>1, DriverTypes, Results
<1>4. /\ alt_read(pool, -1, drv) = Failed(pool, Errno.EBADFD)
      /\ alt_write(pool, -1, drv) = Failed(pool, Errno.EBADFD)
      /\ alt_fstat(pool, -1, drv) = Failed(pool, Errno.EBADFD)
      /\ alt_isatty(pool, -1, drv = 0) = [Failed(pool, Errno.EBADFD) EXCEPT !.val = 0]
  BY <1>1 DEF alt_read, alt_write, alt_fstat, alt_isatty
<1>5. /\ read_direct(-1, drv) = BadFile /\ write_direct(-1, drv) = BadFile
      /\ ioctl_direct(-1, drv) = BadFile
      /\ fstat_direct(-1) = Direct(-1) /\ isatty_direct(-1) = Direct(0)
  BY <1>1 DEF read_direct, write_direct, ioctl_direct, fstat_direct, isatty_direct
<1>6. Direct(-1).val = -1 /\ Direct(0).val = 0 /\ BadFile.val = -1
      /\ Failed(pool, Errno.EBADFD).val = -1
  BY SMT DEF Direct, BadFile, Failed
<1>. QED
  BY <1>2, <1>3, <1>4, <1>5, <1>6

LEMMA BuildsSame == BootInv => BuildsAgree
<1>. SUFFICES ASSUME BootInv, pc = "main" PROVE SameSuccess /\ DriverErrorFound
  BY DEF BuildsAgree
<1>1. ASSUME NEW f \in Std \cup {-1}, NEW drv \in DriverResults,
             NEW c \in CallPairs(f, drv)
      PROVE  c[1].val = c[2].val \/ (c[1].val < 0 /\ c[2].val < 0)
  <2>1. drv \in Int /\ -1 < 0 /\ (drv >= 0 \/ drv < 0)
    BY DriverTypes, SMT
  <2>2. \/ FromDriver(pool, drv).val = Direct(drv).val
        \/ FromDriver(pool, drv).val < 0 /\ Direct(drv).val < 0
    BY <2>1, Results
  <2>3. CASE f = -1
    BY <1>1, <2>1, <2>3, DriverTypes, NoStreamCalls DEF CallPairs
  <2>4. CASE f \in Std
    <3>1. CASE f = 0
      BY <1>1, <2>1, <2>2, <2>4, <3>1, StreamCalls, Results DEF CallPairs
    <3>2. CASE f # 0
      BY <1>1, <2>1, <2>2, <2>4, <3>2, StreamCalls, Results DEF CallPairs
    <3>. QED
      BY <3>1, <3>2
  <2>. QED
    BY <2>3, <2>4
<1>2. ASSUME NEW drv \in DriverResults, drv < 0
      PROVE  /\ \A c \in {alt_read(pool, 0, drv), alt_write(pool, 1, drv),
                          alt_write(pool, 2, drv)} : c.val = -1 /\ c.err = -drv
             /\ \A c \in {read_direct(0, drv), write_direct(1, drv),
                          write_direct(2, drv)} : c.val = drv /\ c.err = 0
             /\ \A f \in Std :
                  /\ alt_ioctl(pool, f, "TIOCGCONNECTED", drv).val = drv
                  /\ ioctl_direct(f, drv).val = drv
  <2>1. drv \in Int /\ 0 \in Std /\ 1 \in Std /\ 2 \in Std /\ 1 # 0 /\ 2 # 0
    BY DriverTypes, StdFacts, SMT DEF Std
  <2>2. /\ FromDriver(pool, drv).val = -1 /\ FromDriver(pool, drv).err = -drv
        /\ Direct(drv).val = drv /\ Direct(drv).err = 0
    BY <1>2, <2>1, Results
  <2>. QED
    BY <2>1, <2>2, StreamCalls
<1>. QED
  BY <1>1, <1>2 DEF SameSuccess, DriverErrorFound

(* For any number of constructors and whatever the program opens, closes   *)
(* and locks: each constructor runs once before main and each destructor   *)
(* once before the last write; until then the streams are the UART's and   *)
(* usable.  On them the build with the file layer and the one without      *)
(* succeed and fail alike; a driver's error is in errno in the first, in   *)
(* the result in the second, and after an ioctl in the result of both.     *)
THEOREM StartToEnd == BootSpec => []FromStartToEnd
<1>1. BootInv /\ RanInv => FromStartToEnd
  BY RanOnce, StreamsLast, BuildsSame DEF FromStartToEnd
<1>. QED
  BY BootInvHolds, RanInvHolds, <1>1, PTL
=============================================================================
