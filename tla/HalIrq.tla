------------------------------- MODULE HalIrq -------------------------------
(***************************************************************************)
(* The interrupt registry and nesting of the HAL on the internal interrupt *)
(* controller: alt_irq_register, _enable and _disable, which the program   *)
(* and its handlers call, alt_irq_handler, and the pair                    *)
(* alt_irq_interruptible / alt_irq_non_interruptible by which a handler    *)
(* lets more urgent lines in.  Lines are level sensitive; the lower number *)
(* is the more urgent.  A call runs with interrupts disabled from its      *)
(* first statement, so at most one is under way.                           *)
(***************************************************************************)
EXTENDS Integers, Sequences

CONSTANTS
  N,              \* lines in use, of the ALT_NIRQ there are
  Handlers,       \* what may be registered; each has a context of its own
  NoHandler,      \* NULL
  MaxDepth        \* bound on the nesting explored

ASSUME IrqAssumption ==
  /\ N \in Nat \ {0}
  /\ NoHandler \notin Handlers /\ Handlers # {}
  /\ MaxDepth \in Nat \ {0}

Lines == 0 .. N - 1
NoLine == N

VARIABLES
  asserted,       \* the lines the devices drive
  pie,            \* status.PIE
  ienable,        \* the ienable register
  active,         \* alt_irq_active
  mask,           \* alt_priority_mask
  table,          \* alt_irq[]
  stack,          \* one frame per exception taken: the line whose handler
                  \* runs, what was called, whether it is between its
                  \* interruptible and non_interruptible, old_priority
  call,           \* the call under way and its next statement
  exposed         \* a call rewrote ienable while a handler was interruptible

registry == << active, table >>
vars == << asserted, pie, ienable, registry, mask, stack, call, exposed >>

Entry(h, c) == [handler |-> h, context |-> c]
NoCall == [at |-> "none", id |-> NoLine, handler |-> NoHandler, status |-> FALSE]

Init ==
  /\ asserted = {}
  /\ pie = TRUE                     \* alt_irq_cpu_enable_interrupts
  /\ ienable = {} /\ active = {}
  /\ mask = Lines
  /\ table = [i \in Lines |-> Entry(NoHandler, NoHandler)]
  /\ stack = <<>>
  /\ call = NoCall
  /\ exposed = FALSE

Pending == asserted \cap ienable      \* alt_irq_pending
Top == stack[Len(stack)]
InHandler == stack # <<>> /\ Top.irq # NoLine
Running == call = NoCall /\ (stack = <<>> \/ InHandler)

Raise(i) ==
  /\ asserted' = asserted \cup {i}
  /\ UNCHANGED << pie, ienable, registry, mask, stack, call, exposed >>

----------------------------------------------------------------------------
(* The calls.  alt_irq_disable_all saves the status and clears PIE;        *)
(* alt_irq_enable_all writes the saved status back.                        *)
Begin(at, id, h) ==
  /\ Running
  /\ call' = [at |-> at, id |-> id, handler |-> h, status |-> pie]
  /\ pie' = FALSE
  /\ UNCHANGED << asserted, ienable, registry, mask, stack, exposed >>

(* A faulty alt_irq_register: interrupts stay enabled.                     *)
alt_irq_register_enabled(id, h) ==
  /\ id < N /\ Running
  /\ call' = [at |-> "handler", id |-> id, handler |-> h, status |-> pie]
  /\ UNCHANGED << asserted, pie, ienable, registry, mask, stack, exposed >>

alt_irq_register(id, h) == id < N /\ Begin("handler", id, h)

(* A line with no handler is not to be enabled.                            *)
alt_irq_enable(id) ==
  table[id].handler # NoHandler /\ Begin("active", id, table[id].handler)

alt_irq_disable(id) == Begin("active", id, NoHandler)

Goes(at) == call' = [call EXCEPT !.at = at]

SetHandler ==
  /\ call.at = "handler"
  /\ table' = [table EXCEPT ![call.id].handler = call.handler]
  /\ Goes("context")
  /\ UNCHANGED << asserted, pie, ienable, active, mask, stack, exposed >>

SetContext ==
  /\ call.at = "context"
  /\ table' = [table EXCEPT ![call.id].context = call.handler]
  /\ Goes("active")
  /\ UNCHANGED << asserted, pie, ienable, active, mask, stack, exposed >>

SetActive ==
  /\ call.at = "active"
  /\ active' = IF call.handler = NoHandler THEN active \ {call.id}
                                           ELSE active \cup {call.id}
  /\ Goes("ienable")
  /\ UNCHANGED << asserted, pie, ienable, table, mask, stack, exposed >>

(* The register takes every line of alt_irq_active, whatever the priority  *)
(* mask in force.                                                          *)
SetIenable ==
  /\ call.at = "ienable"
  /\ ienable' = active
  /\ exposed' = (exposed \/ mask # Lines)
  /\ Goes("restore")
  /\ UNCHANGED << asserted, pie, registry, mask, stack >>

alt_irq_enable_all ==
  /\ call.at = "restore"
  /\ pie' = call.status
  /\ call' = NoCall
  /\ UNCHANGED << asserted, ienable, registry, mask, stack, exposed >>

CallStep == SetHandler \/ SetContext \/ SetActive \/ SetIenable \/ alt_irq_enable_all

----------------------------------------------------------------------------
(* Taking an interrupt clears PIE; the frame keeps it set in estatus.      *)
TakeIrq ==
  /\ pie /\ Pending # {}
  /\ Len(stack) < MaxDepth
  /\ pie' = FALSE
  /\ stack' = Append(stack, [irq |-> NoLine, called |-> NoHandler,
                             with |-> NoHandler, open |-> FALSE, old |-> {}])
  /\ UNCHANGED << asserted, ienable, registry, mask, call, exposed >>

InDispatcher == stack # <<>> /\ Top.irq = NoLine

(* A faulty search: it starts from the other end.                          *)
MostUrgent_last(i) == i \in Pending /\ \A j \in Pending : j <= i

MostUrgent(i) == i \in Pending /\ \A j \in Pending : i <= j

(* One pass of alt_irq_handler.                                            *)
Dispatch(i) ==
  /\ InDispatcher /\ MostUrgent(i)
  /\ stack' = [stack EXCEPT ![Len(stack)] =
       [@ EXCEPT !.irq = i, !.called = table[i].handler, !.with = table[i].context]]
  /\ UNCHANGED << asserted, pie, ienable, registry, mask, call, exposed >>

ReturnFromIrq ==
  /\ InDispatcher /\ Pending = {}
  /\ pie' = TRUE
  /\ stack' = SubSeq(stack, 1, Len(stack) - 1)
  /\ UNCHANGED << asserted, ienable, registry, mask, call, exposed >>

----------------------------------------------------------------------------
(* What a handler does.                                                    *)
Acknowledge ==
  /\ Running /\ InHandler
  /\ asserted' = asserted \ {Top.irq}
  /\ UNCHANGED << pie, ienable, registry, mask, stack, call, exposed >>

(* A faulty alt_irq_interruptible: the line served stays on.               *)
alt_irq_interruptible_including ==
  LET m == {i \in Lines : i <= Top.irq} IN
  /\ Running /\ InHandler /\ ~Top.open
  /\ mask' = m
  /\ ienable' = active \cap m
  /\ pie' = TRUE
  /\ stack' = [stack EXCEPT ![Len(stack)] = [@ EXCEPT !.open = TRUE, !.old = mask]]
  /\ UNCHANGED << asserted, registry, call, exposed >>

alt_irq_interruptible ==
  LET m == {i \in Lines : i < Top.irq} IN
  /\ Running /\ InHandler /\ ~Top.open
  /\ mask' = m
  /\ ienable' = active \cap m
  /\ pie' = TRUE
  /\ stack' = [stack EXCEPT ![Len(stack)] = [@ EXCEPT !.open = TRUE, !.old = mask]]
  /\ UNCHANGED << asserted, registry, call, exposed >>

(* A faulty alt_irq_non_interruptible: ienable is not restored.            *)
alt_irq_non_interruptible_masked ==
  /\ Running /\ InHandler /\ Top.open
  /\ pie' = FALSE
  /\ mask' = Top.old
  /\ stack' = [stack EXCEPT ![Len(stack)] = [@ EXCEPT !.open = FALSE, !.old = {}]]
  /\ UNCHANGED << asserted, ienable, registry, call, exposed >>

alt_irq_non_interruptible ==
  /\ Running /\ InHandler /\ Top.open
  /\ pie' = FALSE
  /\ mask' = Top.old
  /\ ienable' = Top.old \cap active
  /\ stack' = [stack EXCEPT ![Len(stack)] = [@ EXCEPT !.open = FALSE, !.old = {}]]
  /\ UNCHANGED << asserted, registry, call, exposed >>

HandlerReturns ==
  /\ Running /\ InHandler /\ ~Top.open
  /\ stack' = [stack EXCEPT ![Len(stack)] =
       [@ EXCEPT !.irq = NoLine, !.called = NoHandler, !.with = NoHandler]]
  /\ UNCHANGED << asserted, pie, ienable, registry, mask, call, exposed >>

(* Every handler closes what it opened and returns.                        *)
HandlerEnds == alt_irq_non_interruptible \/ HandlerReturns

Calls ==
  \/ \E id \in 0 .. N, h \in Handlers \cup {NoHandler} : alt_irq_register(id, h)
  \/ \E id \in Lines : alt_irq_enable(id) \/ alt_irq_disable(id)

Dispatcher == TakeIrq \/ ReturnFromIrq \/ \E i \in Lines : Dispatch(i)

Next ==
  \/ \E i \in Lines : Raise(i)
  \/ Calls \/ CallStep \/ Dispatcher
  \/ Acknowledge \/ alt_irq_interruptible \/ HandlerEnds

Spec == Init /\ [][Next]_vars

(* The processor goes on, takes an interrupt between two instructions, and *)
(* a handler comes to its end.                                             *)
FairSpec == Spec /\ WF_vars(CallStep) /\ SF_vars(Dispatcher) /\ SF_vars(HandlerEnds)

----------------------------------------------------------------------------
(* Properties.                                                             *)
(* No exception calls through NULL or hands a handler the context of       *)
(* another, whoever is rewriting the table (alt_irq_register.c:84-88).     *)
CalledComplete ==
  \A k \in 1 .. Len(stack) :
    stack[k].irq # NoLine =>
      stack[k].called # NoHandler /\ stack[k].with = stack[k].called

(* A handler is interrupted by more urgent lines only, hence never by      *)
(* itself, unless a call made inside an interruptible handler has turned   *)
(* every line on again (alt_legacy_irq.h:103-105, :76, :94).               *)
NestsByPriority ==
  exposed \/ \A j, k \in 1 .. Len(stack) :
               j < k /\ stack[k].irq # NoLine => stack[k].irq < stack[j].irq

(* Back in the program every line is unmasked and exactly the registered   *)
(* ones are enabled, however the handlers nested and whatever they called  *)
(* (alt_irq_interruptible, alt_irq_non_interruptible, alt_irq_enable_all). *)
MaskRestored ==
  stack = <<>> /\ call = NoCall => pie /\ mask = Lines /\ ienable = active

(* The most urgent line is served, or turned off, whatever the others do;  *)
(* the bound on nesting aside.                                             *)
UrgentServed ==
  0 \in Pending ~> \/ 0 \notin active
                   \/ \E k \in 1 .. Len(stack) : stack[k].irq = 0
                   \/ Len(stack) = MaxDepth
=============================================================================
