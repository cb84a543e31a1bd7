----------------------------- MODULE HalProfile -----------------------------
(***************************************************************************)
(* The profiler of the HAL: every function of an instrumented program      *)
(* begins with a call of mcount, and so does every function of its         *)
(* interrupt handlers.  The search of the lists runs with interrupts       *)
(* enabled, only the insertion disables them; a call made from a handler   *)
(* runs from its start to its end between two steps of the program's call. *)
(***************************************************************************)
EXTENDS HalHeap, Sequences, FiniteSetsExt

CONSTANTS
  Functions, Callers,  \* the return addresses self_pc and from_pc
  Size,          \* sizeof (struct mcount_fn_entry) and of mcount_fn_arc
  MCOUNT_SLAB_INCREMENT,
  PCSAMPLE_BYTES_PER_BUCKET,
  TextSizes,     \* etext - stext
  MaxCalls       \* bound on the calls of one arc

ASSUME ProfileAssumption ==
  /\ Functions # {} /\ Callers # {}
  /\ Size \in Nat \ {0} /\ MCOUNT_SLAB_INCREMENT \in Nat /\ MaxCalls \in Nat
  /\ Size <= MCOUNT_SLAB_INCREMENT
  /\ PCSAMPLE_BYTES_PER_BUCKET \in Nat \ {0} /\ TextSizes \subseteq Nat

Levels == {"main", "irq"}
Arcs == Functions \X Callers

VARIABLES
  entries,       \* the functions, oldest first: [self, arcs], arcs as
                 \* [from, count], oldest first
  step, self, from, fn_entry, arc, loaded,     \* of each level's call
  mcount_slab_size, pcsample_need_init,
  s_pcsamples, textsize, running,  \* running: the system clock has started
  alarms,        \* times the sampling alarm was started
  calls, lost,   \* history: calls of each arc, increments overwritten
  raced,         \* history: a handler's call found the flag between the
                 \* program's test and its clearing
  wild, spilled  \* history: memory used that sbrk() refused; a sample
                 \* counted outside the buffer

listVars == << entries, mcount_slab_size >>
callVars == << step, self, from, fn_entry, arc, loaded >>
samplerVars == << pcsample_need_init, s_pcsamples, alarms, raced >>
profileVars == << heapVars, listVars, callVars, samplerVars, textsize,
                  running, calls, lost, wild, spilled >>

NoBuffer == -2

ProfileInit ==
  /\ HeapInit
  /\ entries = << >> /\ mcount_slab_size = 0
  /\ step = [l \in Levels |-> "idle"]
  /\ self = [l \in Levels |-> CHOOSE s \in Functions : TRUE]
  /\ from = [l \in Levels |-> CHOOSE f \in Callers : TRUE]
  /\ fn_entry = [l \in Levels |-> 0] /\ arc = fn_entry /\ loaded = fn_entry
  /\ pcsample_need_init = TRUE /\ s_pcsamples = NoBuffer /\ alarms = 0
  /\ raced = FALSE /\ running = FALSE /\ textsize \in TextSizes
  /\ calls = [a \in Arcs |-> 0] /\ lost = calls
  /\ wild = FALSE /\ spilled = FALSE

(* The program goes on where no handler is running.                        *)
Runs(l) == l = "irq" \/ step["irq"] = "idle"

Goes(l, now, next) ==
  Runs(l) /\ step[l] = now /\ step' = [step EXCEPT ![l] = next]

(* A handler starts only where interrupts are enabled.                     *)
mcount(l, s, f) ==
  /\ Goes(l, "idle", "function")
  /\ l = "irq" => step["main"] # "link_arc"
  /\ calls[<< s, f >>] < MaxCalls
  /\ self' = [self EXCEPT ![l] = s] /\ from' = [from EXCEPT ![l] = f]
  /\ calls' = [calls EXCEPT ![<< s, f >>] = @ + 1]
  /\ UNCHANGED << heapVars, listVars, samplerVars, fn_entry, arc, loaded,
                  textsize, running, lost, wild, spilled >>

(* Elements are put at the head of their list, where a search begins: it   *)
(* finds the newest, or nothing (0).                                       *)
Newest(S) == IF S = {} THEN 0 ELSE Max(S)
FunctionOf(s) == Newest({i \in DOMAIN entries : entries[i].self = s})
ArcOf(i, f) == Newest({j \in DOMAIN entries[i].arcs : entries[i].arcs[j].from = f})

FindFunction(l) ==
  /\ Goes(l, "function", IF FunctionOf(self[l]) = 0 THEN "record" ELSE "arc")
  /\ fn_entry' = [fn_entry EXCEPT ![l] = FunctionOf(self[l])]
  /\ UNCHANGED << heapVars, listVars, samplerVars, self, from, arc, loaded,
                  textsize, running, calls, lost, wild, spilled >>

FindArc(l) ==
  LET found == ArcOf(fn_entry[l], from[l]) IN
  /\ Goes(l, "arc", IF found = 0 THEN "record" ELSE "load")
  /\ arc' = [arc EXCEPT ![l] = found]
  /\ UNCHANGED << heapVars, listVars, samplerVars, self, from, fn_entry, loaded,
                  textsize, running, calls, lost, wild, spilled >>

Count(l) == entries[fn_entry[l]].arcs[arc[l]].count

(* .Lfound_arc: load, add and store, three instructions.                   *)
LoadCount(l) ==
  /\ Goes(l, "load", "store")
  /\ loaded' = [loaded EXCEPT ![l] = Count(l)]
  /\ UNCHANGED << heapVars, listVars, samplerVars, self, from, fn_entry, arc,
                  textsize, running, calls, lost, wild, spilled >>

StoreCount(l) ==
  /\ Goes(l, "store", "idle")
  /\ entries' = [entries EXCEPT ![fn_entry[l]].arcs[arc[l]].count = loaded[l] + 1]
  /\ lost' = [lost EXCEPT ![<< self[l], from[l] >>] = @ + Count(l) - loaded[l]]
  /\ UNCHANGED << heapVars, mcount_slab_size, samplerVars, self, from, fn_entry,
                  arc, loaded, textsize, running, calls, wild, spilled >>

----------------------------------------------------------------------------
(* __mcount_record().                                                      *)
TestInit(l) ==
  /\ Goes(l, "record", IF pcsample_need_init THEN "clear" ELSE "link_entry")
  /\ raced' = (raced \/ (pcsample_need_init /\ l = "irq" /\ step["main"] = "clear"))
  /\ UNCHANGED << heapVars, listVars, self, from, fn_entry, arc, loaded,
                  pcsample_need_init, s_pcsamples, alarms, textsize, running,
                  calls, lost, wild, spilled >>

(* A faulty __mcount_record: pcsample_need_init is not cleared.            *)
NeverClears(l) ==
  /\ Goes(l, "clear", "init") /\ UNCHANGED pcsample_need_init
  /\ UNCHANGED << heapVars, listVars, self, from, fn_entry, arc, loaded, raced,
                  s_pcsamples, alarms, textsize, running, calls, lost, wild, spilled >>

ClearInit(l) ==
  /\ Goes(l, "clear", "init") /\ pcsample_need_init' = FALSE
  /\ UNCHANGED << heapVars, listVars, self, from, fn_entry, arc, loaded, raced,
                  s_pcsamples, alarms, textsize, running, calls, lost, wild, spilled >>

(* Two bytes for a bucket; only a null pointer, never sbrk()'s -1, is      *)
(* taken for a failure.                                                    *)
BufferSize == 2 * (textsize \div PCSAMPLE_BYTES_PER_BUCKET)

nios2_pcsample_init(l) ==
  /\ Goes(l, "init", "link_entry")
  /\ IF running
     THEN /\ ALT_SBRK(BufferSize)
          /\ s_pcsamples' = Returned(BufferSize)
          /\ alarms' = alarms + 1 /\ pcsample_need_init' = FALSE
          /\ wild' = (wild \/ ~Fits(BufferSize))
     ELSE /\ pcsample_need_init' = TRUE
          /\ UNCHANGED << heapVars, s_pcsamples, alarms, wild >>
  /\ UNCHANGED << listVars, self, from, fn_entry, arc, loaded, raced, textsize,
                  running, calls, lost, spilled >>

(* mcount_allocate(Size): a new slab when the old one is used up.          *)
mcount_allocate ==
  IF Size > mcount_slab_size
  THEN /\ ALT_SBRK(MCOUNT_SLAB_INCREMENT)
       /\ mcount_slab_size' = MCOUNT_SLAB_INCREMENT - Size
       /\ wild' = (wild \/ ~Fits(MCOUNT_SLAB_INCREMENT))
  ELSE /\ mcount_slab_size' = mcount_slab_size - Size
       /\ UNCHANGED << heapVars, wild >>

(* A faulty __mcount_record: a new entry replaces the list.                *)
NewEntryAlone(s) == << [self |-> s, arcs |-> << >>] >>

(* Interrupts are disabled here, for the entry and the arc.                *)
NewEntry(s) == Append(entries, [self |-> s, arcs |-> << >>])

LinkEntry(l) ==
  /\ Goes(l, "link_entry", "link_arc")
  /\ IF fn_entry[l] = 0
     THEN /\ mcount_allocate
          /\ entries' = NewEntry(self[l])
          /\ fn_entry' = [fn_entry EXCEPT ![l] = Len(entries')]
     ELSE UNCHANGED << heapVars, listVars, fn_entry, wild >>
  /\ UNCHANGED << self, from, arc, loaded, samplerVars, textsize, running,
                  calls, lost, spilled >>

LinkArc(l) ==
  /\ Goes(l, "link_arc", "idle")
  /\ mcount_allocate
  /\ entries' = [entries EXCEPT ![fn_entry[l]].arcs =
                   Append(@, [from |-> from[l], count |-> 1])]
  /\ UNCHANGED << self, from, fn_entry, arc, loaded, samplerVars, textsize,
                  running, calls, lost, spilled >>

----------------------------------------------------------------------------
(* alt_sysclk_init(): from here on alt_ticks_per_second() is not 0.        *)
StartClock ==
  /\ ~running /\ running' = TRUE
  /\ UNCHANGED << heapVars, listVars, callVars, samplerVars, textsize, calls,
                  lost, wild, spilled >>

(* The alarm samples the program counter, anywhere in the text.            *)
nios2_pcsample ==
  /\ alarms > 0 /\ s_pcsamples # NoBuffer
  /\ \E counter \in 0 .. textsize - 1 :
       spilled' = (spilled \/ counter \div PCSAMPLE_BYTES_PER_BUCKET
                              >= textsize \div PCSAMPLE_BYTES_PER_BUCKET)
  /\ UNCHANGED << heapVars, listVars, callVars, samplerVars, textsize, running,
                  calls, lost, wild >>

ProfileNext ==
  \/ \E l \in Levels :
       \/ \E s \in Functions, f \in Callers : mcount(l, s, f)
       \/ FindFunction(l) \/ FindArc(l) \/ LoadCount(l) \/ StoreCount(l)
       \/ TestInit(l) \/ ClearInit(l) \/ nios2_pcsample_init(l)
       \/ LinkEntry(l) \/ LinkArc(l)
  \/ StartClock \/ nios2_pcsample

ProfileSpec == ProfileInit /\ [][ProfileNext]_profileVars

----------------------------------------------------------------------------
(* Properties.                                                             *)
(* Between calls, the copies of an arc together hold its calls, but for    *)
(* the increments that a handler's call lost: the copies that the comment  *)
(* of __mcount_record allows (alt_gmon.c:177) lose nothing.                *)
Places == UNION {{<< i, j >> : j \in DOMAIN entries[i].arcs} : i \in DOMAIN entries}

Copies(a) == {c \in Places : /\ entries[c[1]].self = a[1]
                             /\ entries[c[1]].arcs[c[2]].from = a[2]}

ArcCounts == [c \in Places |-> entries[c[1]].arcs[c[2]].count]

Recorded(a) == SumFunctionOnSet(ArcCounts, Copies(a))

CallsCounted ==
  (\A l \in Levels : step[l] = "idle") =>
    \A a \in Arcs : Recorded(a) = calls[a] - lost[a]

(* The sampling alarm, one element of the list of alarms, is started once, *)
(* unless a handler was profiled between the test of pcsample_need_init    *)
(* and its clearing (alt_gmon.c:167); it counts inside its buffer, unless  *)
(* the text does not end with a bucket or there was no memory for it.      *)
SamplerOnce ==
  /\ alarms > 1 => raced
  /\ spilled => textsize % PCSAMPLE_BYTES_PER_BUCKET # 0

ProfileSound == CallsCounted /\ SamplerOnce
=============================================================================
