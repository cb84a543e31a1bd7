---------------------------- MODULE HalIrqProofs ----------------------------
(***************************************************************************)
(* Interrupt nesting for any number of lines, any depth and any handlers:  *)
(* what a call, an interrupt and a handler may find and leave behind.      *)
(***************************************************************************)
EXTENDS HalIrq, SequenceTheorems, TLAPS

Handler == Handlers \cup {NoHandler}
Frame == [irq : 0 .. N, called : Handler, with : Handler, open : BOOLEAN,
          old : SUBSET Lines]

LEMMA LineFacts ==
  /\ N \in Nat \ {0} /\ NoLine \in 0 .. N /\ NoLine \notin Lines
  /\ Lines \subseteq 0 .. N /\ \A i \in 0 .. N : i # NoLine => i \in Lines
  /\ \A i \in 0 .. N : i < N => i \in Lines
BY IrqAssumption, SMT DEF Lines, NoLine

----------------------------------------------------------------------------
(* The three things that happen to the stack.                              *)
Pushed(s, t, e) ==
  /\ t \in Seq(Frame) /\ t # <<>> /\ Len(t) = Len(s) + 1 /\ t[Len(t)] = e
  /\ \A k \in 1 .. Len(s) : t[k] = s[k]

Popped(s, t) ==
  /\ t \in Seq(Frame) /\ Len(t) = Len(s) - 1
  /\ \A k \in 1 .. Len(t) : t[k] = s[k]

Retopped(s, t, e) ==
  /\ t \in Seq(Frame) /\ t # <<>> /\ Len(t) = Len(s) /\ t[Len(t)] = e
  /\ \A k \in 1 .. Len(s) : k # Len(s) => t[k] = s[k]

LEMMA StackSize ==
  ASSUME NEW s \in Seq(Frame)
  PROVE  /\ Len(s) \in Nat
         /\ s # <<>> => Len(s) \in Nat \ {0} /\ Len(s) \in 1 .. Len(s)
                        /\ s[Len(s)] \in Frame
         /\ s = <<>> => Len(s) = 0
         /\ Len(s) = 0 => s = <<>>
         /\ \A k \in 1 .. Len(s) : s[k] \in Frame
<1>1. Len(s) \in Nat
  OBVIOUS
<1>2. s = <<>> => Len(s) = 0
  OBVIOUS
<1>3. s # <<>> => Len(s) # 0
  BY EmptySeq
<1>4. s # <<>> => Len(s) \in Nat \ {0} /\ Len(s) \in 1 .. Len(s)
  BY <1>1, <1>3, SMT
<1>5. \A k \in 1 .. Len(s) : s[k] \in Frame
  BY ElementOfSeq
<1>. QED
  BY <1>1, <1>2, <1>3, <1>4, <1>5

LEMMA Push ==
  ASSUME NEW s \in Seq(Frame), NEW e \in Frame
  PROVE  Pushed(s, Append(s, e), e)
BY AppendProperties DEF Pushed

LEMMA Pop ==
  ASSUME NEW s \in Seq(Frame), s # <<>>
  PROVE  Popped(s, SubSeq(s, 1, Len(s) - 1))
<1>1. Len(s) \in Nat \ {0} /\ \A k \in 1 .. Len(s) : s[k] \in Frame
  BY StackSize
<1>. DEFINE n == Len(s) - 1
            t == SubSeq(s, 1, n)
<1>2. n \in Int /\ 1 \in Int /\ n \in Nat /\ 1 .. n \subseteq 1 .. Len(s)
      /\ (IF 1 <= n THEN n - 1 + 1 ELSE 0) = n /\ n - 1 + 1 = n
  <2>1. n \in Nat /\ n <= Len(s)
    BY <1>1, SMT
  <2>. HIDE DEF n
  <2>2. \A i \in 1 .. n : i \in 1 .. Len(s)
    BY <1>1, <2>1, SMT
  <2>3. (IF 1 <= n THEN n - 1 + 1 ELSE 0) = n /\ n - 1 + 1 = n
    BY <2>1, SMT
  <2>. QED
    BY <2>1, <2>2, <2>3
<1>3. t \in Seq(Frame)
      /\ Len(t) = (IF 1 <= n THEN n - 1 + 1 ELSE 0)
      /\ \A i \in 1 .. n - 1 + 1 : t[i] = s[1 + i - 1]
  <2>. HIDE DEF n
  <2>. QED
    BY <1>1, <1>2, SubSeqProperties
<1>4. \A i \in 1 .. n : 1 + i - 1 = i
  BY <1>2, SMT
<1>. HIDE DEF t
<1>5. Len(t) = n /\ \A i \in 1 .. n : t[i] = s[i]
  BY <1>2, <1>3, <1>4
<1>. QED
  BY <1>3, <1>5 DEF Popped, t

LEMMA Retop ==
  ASSUME NEW s \in Seq(Frame), s # <<>>, NEW e \in Frame
  PROVE  Retopped(s, [s EXCEPT ![Len(s)] = e], e)
<1>1. Len(s) \in 1 .. Len(s) /\ Len(s) \in Nat \ {0}
  BY StackSize
<1>. DEFINE t == [s EXCEPT ![Len(s)] = e]
<1>2. /\ t \in Seq(Frame) /\ Len(t) = Len(s)
      /\ \A j \in 1 .. Len(s) : t[j] = IF j = Len(s) THEN e ELSE s[j]
  BY <1>1, ExceptSeq
<1>3. t # <<>>
  BY <1>1, <1>2, StackSize
<1>. HIDE DEF t
<1>4. Retopped(s, t, e)
  BY <1>1, <1>2, <1>3 DEF Retopped
<1>. QED
  BY <1>4 DEF t

----------------------------------------------------------------------------
(* Which interrupts are open where.  Only the top frame may be closed, and *)
(* each open one keeps the mask of the one below it.                       *)
BelowMask(s, k) == IF k = 0 THEN Lines ELSE {i \in Lines : i < s[k].irq}

Opened(s) == IF s = <<>> THEN 0
             ELSE IF s[Len(s)].open THEN Len(s) ELSE Len(s) - 1

StackIs(s) ==
  /\ \A k \in 1 .. Len(s) : k < Len(s) => s[k].open
  /\ \A k \in 1 .. Len(s) :
       s[k].open => s[k].irq \in Lines /\ s[k].old = BelowMask(s, k - 1)

(* The program or an open handler runs with interrupts enabled.            *)
AtOpen(s) == s = <<>> \/ s[Len(s)].open

CallType == [at : {"none", "handler", "context", "active", "ienable", "restore"},
             id : 0 .. N, handler : Handler, status : BOOLEAN]

NestInv ==
  /\ stack \in Seq(Frame) /\ StackIs(stack)
  /\ mask = BelowMask(stack, Opened(stack))
  /\ call \in CallType /\ (call.at = "none" <=> call = NoCall)
  /\ pie \in BOOLEAN /\ (pie <=> call = NoCall /\ AtOpen(stack))
  /\ call # NoCall => /\ call.id \in Lines
                      /\ stack = <<>> \/ InHandler
                      /\ call.status <=> AtOpen(stack)

(* The registry, and what the call under way has yet to do to it.          *)
TableInv ==
  /\ asserted \subseteq Lines /\ ienable \subseteq Lines /\ active \subseteq Lines
  /\ table \in [Lines -> [handler : Handler, context : Handler]]
  /\ \A i \in Lines : \/ table[i].handler = table[i].context
                      \/ call.at = "context" /\ i = call.id
  /\ \A i \in active : \/ table[i].handler # NoHandler
                       \/ i = call.id /\ call.at \in {"handler", "context", "active"}
  /\ call.at = "context" => table[call.id].handler = call.handler
  /\ call.at = "active" /\ call.handler # NoHandler
       => table[call.id].handler = call.handler
  /\ call.at # "ienable" => ienable \subseteq active

(* The enabled lines are the registered ones the mask lets through, except *)
(* after a call made inside an open handler.                               *)
MaskInv ==
  /\ exposed \in BOOLEAN
  /\ call.at # "ienable" /\ (~ exposed \/ mask = Lines) => ienable = active \cap mask

IrqInv == NestInv /\ TableInv /\ MaskInv /\ CalledComplete /\ NestsByPriority

(* Frames below the top one and their masks are the same in two stacks.    *)
LEMMA SameBelow ==
  ASSUME NEW s \in Seq(Frame), NEW t \in Seq(Frame), NEW m \in Nat,
         m <= Len(s), m <= Len(t), \A k \in 1 .. m : t[k] = s[k]
  PROVE  /\ BelowMask(t, m) = BelowMask(s, m)
         /\ StackIs(s) => \A k \in 1 .. m : t[k].open
              => t[k].irq \in Lines /\ t[k].old = BelowMask(t, k - 1)
<1>1. \A k \in 0 .. m : BelowMask(t, k) = BelowMask(s, k)
  <2>1. \A k \in 0 .. m : k = 0 \/ k \in 1 .. m
    BY SMT
  <2>. QED
    BY <2>1 DEF BelowMask
<1>2. m \in 0 .. m /\ \A k \in 1 .. m : k - 1 \in 0 .. m /\ k \in 1 .. Len(s)
  BY StackSize, SMT
<1>. QED
  BY <1>1, <1>2 DEF StackIs

LEMMA PushKeeps ==
  ASSUME NEW s \in Seq(Frame), NEW t, NEW e \in Frame, Pushed(s, t, e),
         StackIs(s), AtOpen(s), ~ e.open
  PROVE  StackIs(t) /\ BelowMask(t, Opened(t)) = BelowMask(s, Opened(s))
         /\ ~ AtOpen(t)
<1>1. /\ Len(s) \in Nat /\ Len(t) = Len(s) + 1 /\ t # <<>> /\ t \in Seq(Frame)
      /\ \A k \in 1 .. Len(s) : t[k] = s[k]
      /\ ~ t[Len(t)].open
  BY StackSize DEF Pushed
<1>2. Opened(s) = Len(s) /\ Opened(t) = Len(s)
  BY <1>1, StackSize DEF AtOpen, Opened
<1>3. Len(s) <= Len(s) /\ Len(s) <= Len(t)
  BY <1>1, SMT
<1>4. /\ BelowMask(t, Len(s)) = BelowMask(s, Len(s))
      /\ \A k \in 1 .. Len(s) : t[k].open
              => t[k].irq \in Lines /\ t[k].old = BelowMask(t, k - 1)
  BY <1>1, <1>3, SameBelow
<1>5. \A k \in 1 .. Len(t) : k \in 1 .. Len(s) \/ k = Len(t)
  BY <1>1, SMT
<1>6. \A k \in 1 .. Len(s) : k < Len(s) \/ k = Len(s)
  BY <1>1, SMT
<1>7. \A k \in 1 .. Len(s) : s[k].open
  BY <1>6, StackSize DEF StackIs, AtOpen
<1>8. \A k \in 1 .. Len(t) : k < Len(t) => k \in 1 .. Len(s)
  BY <1>1, SMT
<1>. QED
  BY <1>1, <1>2, <1>4, <1>5, <1>7, <1>8 DEF StackIs, AtOpen

LEMMA PopKeeps ==
  ASSUME NEW s \in Seq(Frame), s # <<>>, NEW t, Popped(s, t), StackIs(s),
         ~ s[Len(s)].open
  PROVE  StackIs(t) /\ BelowMask(t, Opened(t)) = BelowMask(s, Opened(s)) /\ AtOpen(t)
<1>1. /\ Len(s) \in Nat \ {0} /\ Len(t) \in Nat /\ Len(s) = Len(t) + 1
      /\ t \in Seq(Frame) /\ \A k \in 1 .. Len(t) : t[k] = s[k]
  BY StackSize DEF Popped
<1>2. Len(t) <= Len(s) /\ Len(t) <= Len(t)
      /\ \A k \in 1 .. Len(t) : k \in 1 .. Len(s) /\ k < Len(s)
  BY <1>1, SMT
<1>3. \A k \in 1 .. Len(t) : t[k].open
  BY <1>1, <1>2 DEF StackIs
<1>4. AtOpen(t) /\ Opened(t) = Len(t)
  BY <1>1, <1>3, StackSize DEF AtOpen, Opened
<1>5. Opened(s) = Len(t)
  BY <1>1, SMT DEF Opened
<1>6. /\ BelowMask(t, Len(t)) = BelowMask(s, Len(t))
      /\ \A k \in 1 .. Len(t) : t[k].open
              => t[k].irq \in Lines /\ t[k].old = BelowMask(t, k - 1)
  BY <1>1, <1>2, SameBelow
<1>. QED
  BY <1>3, <1>4, <1>5, <1>6 DEF StackIs

LEMMA RetopKeeps ==
  ASSUME NEW s \in Seq(Frame), s # <<>>, NEW t, NEW e \in Frame,
         Retopped(s, t, e), StackIs(s),
         e.open => e.irq \in Lines /\ e.old = BelowMask(s, Len(s) - 1)
  PROVE  /\ StackIs(t) /\ (AtOpen(t) <=> e.open)
         /\ Opened(t) = IF e.open THEN Len(s) ELSE Len(s) - 1
         /\ BelowMask(t, Len(s) - 1) = BelowMask(s, Len(s) - 1)
         /\ BelowMask(t, Len(s)) = {i \in Lines : i < e.irq}
<1>1. /\ Len(s) \in Nat \ {0} /\ Len(t) = Len(s) /\ t # <<>> /\ t \in Seq(Frame)
      /\ t[Len(s)] = e
      /\ \A k \in 1 .. Len(s) : k # Len(s) => t[k] = s[k]
  BY StackSize DEF Retopped
<1>. DEFINE m == Len(s) - 1
<1>2. /\ m \in Nat /\ m <= Len(s) /\ m <= Len(t)
      /\ \A k \in 1 .. m : k \in 1 .. Len(s) /\ k # Len(s)
      /\ \A k \in 1 .. Len(s) : k < Len(s) => k \in 1 .. m
      /\ \A k \in 1 .. Len(s) : k \in 1 .. m \/ k = Len(s)
  BY <1>1, SMT
<1>3. \A k \in 1 .. m : t[k] = s[k]
  BY <1>1, <1>2
<1>. HIDE DEF m
<1>4. /\ BelowMask(t, m) = BelowMask(s, m)
      /\ \A k \in 1 .. m : t[k].open
              => t[k].irq \in Lines /\ t[k].old = BelowMask(t, k - 1)
  BY <1>1, <1>2, <1>3, SameBelow
<1>5. e.open => e.irq \in Lines /\ e.old = BelowMask(t, Len(s) - 1)
  BY <1>4 DEF m
<1>6. \A k \in 1 .. Len(t) : k < Len(t) => t[k].open
  BY <1>1, <1>2, <1>3 DEF StackIs
<1>7. StackIs(t)
  BY <1>1, <1>2, <1>4, <1>5, <1>6 DEF StackIs
<1>8. (AtOpen(t) <=> e.open) /\ Opened(t) = IF e.open THEN Len(s) ELSE m
  BY <1>1 DEF AtOpen, Opened, m
<1>9. BelowMask(t, Len(s)) = {i \in Lines : i < e.irq}
  BY <1>1 DEF BelowMask
<1>. QED
  BY <1>4, <1>7, <1>8, <1>9 DEF m

----------------------------------------------------------------------------
(* What each step does to the stack.                                       *)
LEMMA NestStarts == Init => NestInv
<1>. SUFFICES ASSUME Init PROVE NestInv
  OBVIOUS
<1>1. stack \in Seq(Frame) /\ stack = <<>> /\ Len(stack) = 0
  BY DEF Init
<1>2. StackIs(stack)
  BY <1>1, SMT DEF StackIs
<1>3. NoCall \in CallType /\ NoCall.at = "none"
  BY LineFacts DEF NoCall, CallType, Handler
<1>. QED
  BY <1>1, <1>2, <1>3 DEF Init, NestInv, BelowMask, Opened, AtOpen

LEMMA BeginNest ==
  ASSUME NestInv, NEW at \in {"handler", "active"}, NEW id \in Lines,
         NEW h \in Handler, Begin(at, id, h)
  PROVE  NestInv'
<1>1. call' = [at |-> at, id |-> id, handler |-> h, status |-> pie]
      /\ call'.at # "none" /\ call' # NoCall
  BY DEF Begin, NoCall
<1>2. call' \in CallType
  BY <1>1, LineFacts DEF CallType, NestInv
<1>3. call = NoCall /\ (stack = <<>> \/ InHandler)
  BY DEF Begin, Running
<1>4. call'.id \in Lines /\ (call'.status <=> AtOpen(stack))
  BY <1>1, <1>3 DEF NestInv
<1>5. stack' = stack /\ mask' = mask /\ pie' = FALSE
  BY DEF Begin
<1>. QED
  BY <1>1, <1>2, <1>3, <1>4, <1>5 DEF NestInv, InHandler, Top

(* A call goes on from one statement to the next.                          *)
LEMMA GoesNest ==
  ASSUME NestInv, NEW at \in {"context", "active", "ienable", "restore"},
         call.at # "none", Goes(at), UNCHANGED << stack, mask, pie >>
  PROVE  NestInv'
<1>1. call \in CallType /\ call' = [call EXCEPT !.at = at]
  BY DEF NestInv, Goes
<1>2. call' \in CallType /\ call'.at = at /\ call'.id = call.id
      /\ call'.status = call.status /\ at # "none" /\ NoCall.at = "none"
  BY <1>1 DEF CallType, NoCall
<1>. QED
  BY <1>2 DEF NestInv, InHandler, Top

LEMMA NestKeeps ==
  ASSUME NestInv, TableInv, [Next]_vars
  PROVE  NestInv'
<1>0. stack \in Seq(Frame) /\ StackIs(stack)
  BY DEF NestInv
<1>1. CASE UNCHANGED << stack, mask, pie, call >>
  BY <1>1 DEF NestInv, InHandler, Top
<1>2. ASSUME NEW i \in Lines, Raise(i) PROVE NestInv'
  BY <1>1, <1>2 DEF Raise
<1>3. ASSUME NEW id \in 0 .. N, NEW h \in Handler, alt_irq_register(id, h)
      PROVE  NestInv'
  <2>1. id \in Lines /\ Begin("handler", id, h)
    BY <1>3, LineFacts DEF alt_irq_register
  <2>. QED
    BY <2>1, BeginNest
<1>4. ASSUME NEW id \in Lines, alt_irq_enable(id) \/ alt_irq_disable(id)
      PROVE  NestInv'
  <2>1. table[id].handler \in Handler /\ NoHandler \in Handler
    BY DEF TableInv, Handler
  <2>. QED
    BY <1>4, <2>1, BeginNest DEF alt_irq_enable, alt_irq_disable
<1>5. CASE SetHandler
  BY <1>5, GoesNest DEF SetHandler
<1>6. CASE SetContext
  BY <1>6, GoesNest DEF SetContext
<1>7. CASE SetActive
  BY <1>7, GoesNest DEF SetActive
<1>8. CASE SetIenable
  BY <1>8, GoesNest DEF SetIenable
<1>9. CASE alt_irq_enable_all
  <2>1. call # NoCall
    BY <1>9 DEF alt_irq_enable_all, NoCall
  <2>2. NoCall \in CallType /\ NoCall.at = "none"
    BY LineFacts DEF NoCall, CallType, Handler
  <2>3. call.status \in BOOLEAN
    BY DEF NestInv, CallType
  <2>. QED
    BY <1>9, <2>1, <2>2, <2>3 DEF alt_irq_enable_all, NestInv, InHandler, Top
<1>10. CASE TakeIrq
  <2>. DEFINE e == [irq |-> NoLine, called |-> NoHandler, with |-> NoHandler,
                    open |-> FALSE, old |-> {}]
  <2>1. e \in Frame /\ ~ e.open
    BY LineFacts DEF Frame, Handler
  <2>2. stack' = Append(stack, e) /\ pie /\ pie' = FALSE
        /\ UNCHANGED << mask, call >>
    BY <1>10 DEF TakeIrq
  <2>. HIDE DEF e
  <2>3. AtOpen(stack) /\ call = NoCall
    BY <2>2 DEF NestInv
  <2>4. Pushed(stack, stack', e)
    BY <1>0, <2>1, <2>2, Push
  <2>5. /\ StackIs(stack') /\ ~ AtOpen(stack')
        /\ BelowMask(stack', Opened(stack')) = BelowMask(stack, Opened(stack))
    BY <1>0, <2>1, <2>3, <2>4, PushKeeps
  <2>. QED
    BY <2>2, <2>3, <2>4, <2>5 DEF NestInv, Pushed
<1>11. CASE ReturnFromIrq
  <2>1. stack # <<>> /\ stack[Len(stack)].irq = NoLine /\ pie' = TRUE
        /\ stack' = SubSeq(stack, 1, Len(stack) - 1) /\ UNCHANGED << mask, call >>
    BY <1>11 DEF ReturnFromIrq, InDispatcher, Top
  <2>2. call = NoCall
    BY <2>1 DEF NestInv, InHandler, Top
  <2>3. ~ stack[Len(stack)].open
    BY <1>0, <2>1, LineFacts, StackSize DEF StackIs
  <2>4. Popped(stack, stack')
    BY <1>0, <2>1, Pop
  <2>5. /\ StackIs(stack') /\ AtOpen(stack')
        /\ BelowMask(stack', Opened(stack')) = BelowMask(stack, Opened(stack))
    BY <1>0, <2>1, <2>3, <2>4, PopKeeps
  <2>. QED
    BY <2>1, <2>2, <2>4, <2>5 DEF NestInv, Popped
<1>12. ASSUME NEW i \in Lines, Dispatch(i) PROVE NestInv'
  <2>. DEFINE f == stack[Len(stack)]
              e == [f EXCEPT !.irq = i, !.called = table[i].handler,
                             !.with = table[i].context]
  <2>1. stack # <<>> /\ f.irq = NoLine /\ UNCHANGED << mask, pie, call >>
        /\ stack' = [stack EXCEPT ![Len(stack)] = e]
    BY <1>12 DEF Dispatch, InDispatcher, Top
  <2>2. f \in Frame /\ ~ f.open
    BY <1>0, <2>1, LineFacts, StackSize DEF StackIs
  <2>3. table[i].handler \in Handler /\ table[i].context \in Handler
    BY DEF TableInv
  <2>4. e \in Frame /\ ~ e.open
    BY <2>2, <2>3, LineFacts DEF Frame
  <2>5. call = NoCall
    BY <2>1 DEF NestInv, InHandler, Top
  <2>6. ~ AtOpen(stack) /\ Opened(stack) = Len(stack) - 1
    BY <2>1, <2>2 DEF AtOpen, Opened
  <2>. HIDE DEF e, f
  <2>7. Retopped(stack, stack', e)
    BY <1>0, <2>1, <2>4, Retop
  <2>8. /\ StackIs(stack') /\ ~ AtOpen(stack')
        /\ Opened(stack') = Len(stack) - 1
        /\ BelowMask(stack', Len(stack) - 1) = BelowMask(stack, Len(stack) - 1)
    BY <1>0, <2>1, <2>4, <2>7, RetopKeeps
  <2>. QED
    BY <2>1, <2>5, <2>6, <2>7, <2>8 DEF NestInv, Retopped
<1>13. CASE Acknowledge
  BY <1>1, <1>13 DEF Acknowledge
<1>14. CASE alt_irq_interruptible
  <2>. DEFINE f == stack[Len(stack)]
              e == [f EXCEPT !.open = TRUE, !.old = mask]
  <2>1. stack # <<>> /\ f.irq # NoLine /\ ~ f.open /\ call = NoCall
    BY <1>14 DEF alt_irq_interruptible, Running, InHandler, Top
  <2>2. mask' = {i \in Lines : i < f.irq} /\ pie' = TRUE /\ call' = call
        /\ stack' = [stack EXCEPT ![Len(stack)] = e]
    BY <1>14 DEF alt_irq_interruptible, Top
  <2>3. f \in Frame /\ f.irq \in Lines
    BY <1>0, <2>1, LineFacts, StackSize DEF Frame
  <2>4. Opened(stack) = Len(stack) - 1 /\ mask = BelowMask(stack, Len(stack) - 1)
    BY <2>1 DEF Opened, NestInv
  <2>5. mask \in SUBSET Lines
    BY <2>4 DEF BelowMask
  <2>6. e \in Frame /\ e.open /\ e.irq = f.irq /\ e.old = mask
    BY <2>3, <2>5 DEF Frame
  <2>. HIDE DEF e, f
  <2>7. Retopped(stack, stack', e)
    BY <1>0, <2>1, <2>2, <2>6, Retop
  <2>8. /\ StackIs(stack') /\ AtOpen(stack') /\ Opened(stack') = Len(stack)
        /\ BelowMask(stack', Len(stack)) = {i \in Lines : i < e.irq}
    BY <1>0, <2>1, <2>3, <2>4, <2>6, <2>7, RetopKeeps
  <2>. QED
    BY <2>1, <2>2, <2>6, <2>7, <2>8 DEF NestInv, Retopped
<1>15. CASE alt_irq_non_interruptible
  <2>. DEFINE f == stack[Len(stack)]
              e == [f EXCEPT !.open = FALSE, !.old = {}]
  <2>1. stack # <<>> /\ f.open /\ call = NoCall
    BY <1>15 DEF alt_irq_non_interruptible, Running, InHandler, Top
  <2>2. mask' = f.old /\ pie' = FALSE /\ call' = call
        /\ stack' = [stack EXCEPT ![Len(stack)] = e]
    BY <1>15 DEF alt_irq_non_interruptible, Top
  <2>3. f \in Frame /\ f.old = BelowMask(stack, Len(stack) - 1)
    BY <1>0, <2>1, StackSize DEF StackIs
  <2>4. e \in Frame /\ ~ e.open
    BY <2>3 DEF Frame
  <2>. HIDE DEF e, f
  <2>5. Retopped(stack, stack', e)
    BY <1>0, <2>1, <2>2, <2>4, Retop
  <2>6. /\ StackIs(stack') /\ ~ AtOpen(stack') /\ Opened(stack') = Len(stack) - 1
        /\ BelowMask(stack', Len(stack) - 1) = BelowMask(stack, Len(stack) - 1)
    BY <1>0, <2>1, <2>4, <2>5, RetopKeeps
  <2>. QED
    BY <2>1, <2>2, <2>3, <2>5, <2>6 DEF NestInv, Retopped
<1>16. CASE HandlerReturns
  <2>. DEFINE f == stack[Len(stack)]
              e == [f EXCEPT !.irq = NoLine, !.called = NoHandler, !.with = NoHandler]
  <2>1. stack # <<>> /\ ~ f.open /\ call = NoCall /\ UNCHANGED << mask, pie, call >>
    BY <1>16 DEF HandlerReturns, Running, InHandler, Top
  <2>2. stack' = [stack EXCEPT ![Len(stack)] = e]
    BY <1>16 DEF HandlerReturns
  <2>3. f \in Frame
    BY <1>0, <2>1, StackSize
  <2>4. e \in Frame /\ ~ e.open
    BY <2>1, <2>3, LineFacts DEF Frame, Handler
  <2>5. ~ AtOpen(stack) /\ Opened(stack) = Len(stack) - 1
    BY <2>1 DEF AtOpen, Opened
  <2>. HIDE DEF e, f
  <2>6. Retopped(stack, stack', e)
    BY <1>0, <2>1, <2>2, <2>4, Retop
  <2>7. /\ StackIs(stack') /\ ~ AtOpen(stack') /\ Opened(stack') = Len(stack) - 1
        /\ BelowMask(stack', Len(stack) - 1) = BelowMask(stack, Len(stack) - 1)
    BY <1>0, <2>1, <2>4, <2>6, RetopKeeps
  <2>. QED
    BY <2>1, <2>5, <2>6, <2>7 DEF NestInv, Retopped
<1>17. CASE UNCHANGED vars
  BY <1>1, <1>17 DEF vars
<1>18. CASE Calls
  BY <1>3, <1>4, <1>18 DEF Calls, Handler
<1>19. CASE CallStep \/ Dispatcher
  BY <1>5, <1>6, <1>7, <1>8, <1>9, <1>10, <1>11, <1>12, <1>19 DEF CallStep, Dispatcher
<1>20. CASE Acknowledge \/ alt_irq_interruptible \/ HandlerEnds
  BY <1>13, <1>14, <1>15, <1>16, <1>20 DEF HandlerEnds
<1>. QED
  BY <1>2, <1>17, <1>18, <1>19, <1>20 DEF Next

----------------------------------------------------------------------------
(* What each step does to the registry and the enabled lines.              *)
LEMMA TableStarts == Init => TableInv /\ MaskInv
<1>. SUFFICES ASSUME Init PROVE TableInv /\ MaskInv
  OBVIOUS
<1>1. call = NoCall /\ call.at = "none"
  BY DEF Init, NoCall
<1>2. Entry(NoHandler, NoHandler) \in [handler : Handler, context : Handler]
      /\ Entry(NoHandler, NoHandler).handler = NoHandler
      /\ Entry(NoHandler, NoHandler).context = NoHandler
  BY DEF Entry, Handler
<1>. QED
  BY <1>1, <1>2 DEF Init, TableInv, MaskInv

LEMMA BeginTable ==
  ASSUME NestInv, TableInv, MaskInv, NEW at \in {"handler", "active"},
         NEW id \in Lines, NEW h \in Handler, Begin(at, id, h),
         at = "active" /\ h # NoHandler => table[id].handler = h
  PROVE  TableInv' /\ MaskInv'
<1>1. call.at = "none"
  BY DEF Begin, Running, NoCall
<1>2. call'.at = at /\ call'.id = id /\ call'.handler = h
      /\ UNCHANGED << asserted, ienable, active, table, mask, exposed >>
  BY DEF Begin, registry
<1>. QED
  BY <1>1, <1>2 DEF TableInv, MaskInv

LEMMA TableKeeps ==
  ASSUME NestInv, TableInv, MaskInv, [Next]_vars
  PROVE  TableInv' /\ MaskInv'
<1>0. /\ asserted \subseteq Lines /\ ienable \subseteq Lines /\ active \subseteq Lines
      /\ table \in [Lines -> [handler : Handler, context : Handler]]
      /\ call \in CallType /\ call.handler \in Handler
      /\ (call # NoCall => call.id \in Lines) /\ NoCall.at = "none"
  BY DEF NestInv, TableInv, CallType, NoCall
<1>1. CASE asserted' \subseteq Lines
           /\ UNCHANGED << ienable, active, table, mask, call, exposed >>
  BY <1>1 DEF TableInv, MaskInv
<1>2. ASSUME NEW i \in Lines, Raise(i) PROVE TableInv' /\ MaskInv'
  BY <1>0, <1>1, <1>2 DEF Raise, registry
<1>3. ASSUME NEW id \in 0 .. N, NEW h \in Handler, alt_irq_register(id, h)
      PROVE  TableInv' /\ MaskInv'
  <2>1. id \in Lines /\ Begin("handler", id, h)
    BY <1>3, LineFacts DEF alt_irq_register
  <2>. QED
    BY <2>1, BeginTable
<1>4. ASSUME NEW id \in Lines, alt_irq_enable(id) \/ alt_irq_disable(id)
      PROVE  TableInv' /\ MaskInv'
  <2>1. table[id].handler \in Handler /\ NoHandler \in Handler
    BY DEF TableInv, Handler
  <2>. QED
    BY <1>4, <2>1, BeginTable DEF alt_irq_enable, alt_irq_disable
<1>5. CASE SetHandler
  <2>1. call.id \in Lines /\ call.at = "handler"
    BY <1>0, <1>5 DEF SetHandler
  <2>2. call' = [call EXCEPT !.at = "context"]
        /\ table' = [table EXCEPT ![call.id].handler = call.handler]
        /\ UNCHANGED << asserted, ienable, active, mask, exposed >>
    BY <1>5 DEF SetHandler, Goes
  <2>3. call'.at = "context" /\ call'.id = call.id /\ call'.handler = call.handler
    BY <1>0, <2>2 DEF CallType
  <2>4. /\ table' \in [Lines -> [handler : Handler, context : Handler]]
        /\ table'[call.id].handler = call.handler
        /\ \A i \in Lines : i # call.id => table'[i] = table[i]
    BY <1>0, <2>1, <2>2
  <2>. QED
    BY <2>1, <2>2, <2>3, <2>4 DEF TableInv, MaskInv
<1>6. CASE SetContext
  <2>1. call.id \in Lines /\ call.at = "context"
    BY <1>0, <1>6 DEF SetContext
  <2>2. call' = [call EXCEPT !.at = "active"]
        /\ table' = [table EXCEPT ![call.id].context = call.handler]
        /\ UNCHANGED << asserted, ienable, active, mask, exposed >>
    BY <1>6 DEF SetContext, Goes
  <2>3. call'.at = "active" /\ call'.id = call.id /\ call'.handler = call.handler
    BY <1>0, <2>2 DEF CallType
  <2>4. /\ table' \in [Lines -> [handler : Handler, context : Handler]]
        /\ table'[call.id].handler = table[call.id].handler
        /\ table'[call.id].context = call.handler
        /\ \A i \in Lines : i # call.id => table'[i] = table[i]
    BY <1>0, <2>1, <2>2
  <2>5. table[call.id].handler = call.handler
    BY <2>1 DEF TableInv
  <2>. QED
    BY <2>1, <2>2, <2>3, <2>4, <2>5 DEF TableInv, MaskInv
<1>7. CASE SetActive
  <2>1. call.id \in Lines /\ call.at = "active"
    BY <1>0, <1>7 DEF SetActive
  <2>2. call' = [call EXCEPT !.at = "ienable"]
        /\ active' = (IF call.handler = NoHandler THEN active \ {call.id}
                                                  ELSE active \cup {call.id})
        /\ UNCHANGED << asserted, ienable, table, mask, exposed >>
    BY <1>7 DEF SetActive, Goes
  <2>3. call'.at = "ienable" /\ call'.id = call.id /\ call'.handler = call.handler
    BY <1>0, <2>2 DEF CallType
  <2>4. active' \subseteq Lines
    BY <1>0, <2>1, <2>2
  <2>5. \A i \in active' : table[i].handler # NoHandler
    BY <2>1, <2>2 DEF TableInv
  <2>. QED
    BY <2>1, <2>2, <2>3, <2>4, <2>5 DEF TableInv, MaskInv
<1>8. CASE SetIenable
  <2>1. call' = [call EXCEPT !.at = "restore"] /\ call.at = "ienable"
        /\ ienable' = active /\ exposed' = (exposed \/ mask # Lines)
        /\ UNCHANGED << asserted, active, table, mask >>
    BY <1>8 DEF SetIenable, Goes, registry
  <2>2. call'.at = "restore"
    BY <1>0, <2>1 DEF CallType
  <2>3. active \cap Lines = active
    BY <1>0
  <2>. QED
    BY <2>1, <2>2, <2>3 DEF TableInv, MaskInv
<1>9. CASE alt_irq_enable_all
  BY <1>0, <1>9 DEF alt_irq_enable_all, registry, TableInv, MaskInv
<1>10. CASE TakeIrq
  BY <1>0, <1>1, <1>10 DEF TakeIrq, registry
<1>11. CASE ReturnFromIrq
  BY <1>0, <1>1, <1>11 DEF ReturnFromIrq, registry
<1>12. ASSUME NEW i \in Lines, Dispatch(i) PROVE TableInv' /\ MaskInv'
  BY <1>0, <1>1, <1>12 DEF Dispatch, registry
<1>13. CASE Acknowledge
  BY <1>0, <1>1, <1>13 DEF Acknowledge, registry
<1>14. CASE alt_irq_interruptible
  <2>1. ienable' = active \cap mask' /\ call = NoCall
        /\ UNCHANGED << asserted, active, table, call, exposed >>
    BY <1>14 DEF alt_irq_interruptible, Running, registry
  <2>. QED
    BY <1>0, <2>1 DEF TableInv, MaskInv
<1>15. CASE alt_irq_non_interruptible
  <2>1. ienable' = active \cap mask' /\ call = NoCall
        /\ UNCHANGED << asserted, active, table, call, exposed >>
    BY <1>15 DEF alt_irq_non_interruptible, Running, registry
  <2>. QED
    BY <1>0, <2>1 DEF TableInv, MaskInv
<1>16. CASE HandlerReturns
  BY <1>0, <1>1, <1>16 DEF HandlerReturns, registry
<1>17. CASE UNCHANGED vars
  BY <1>0, <1>1, <1>17 DEF vars, registry
<1>18. CASE Calls
  BY <1>3, <1>4, <1>18 DEF Calls, Handler
<1>19. CASE CallStep \/ Dispatcher
  BY <1>5, <1>6, <1>7, <1>8, <1>9, <1>10, <1>11, <1>12, <1>19 DEF CallStep, Dispatcher
<1>20. CASE Acknowledge \/ alt_irq_interruptible \/ HandlerEnds
  BY <1>13, <1>14, <1>15, <1>16, <1>20 DEF HandlerEnds
<1>. QED
  BY <1>2, <1>17, <1>18, <1>19, <1>20 DEF Next

----------------------------------------------------------------------------
(* What the handlers were called with, and in what order they nest.        *)
Complete(s) ==
  \A k \in 1 .. Len(s) :
    s[k].irq # NoLine => s[k].called # NoHandler /\ s[k].with = s[k].called

Nested(s) ==
  \A j, k \in 1 .. Len(s) : j < k /\ s[k].irq # NoLine => s[k].irq < s[j].irq

(* A step that gives the top frame no new line keeps both.                 *)
LEMMA RetopOrder ==
  ASSUME NEW s \in Seq(Frame), s # <<>>, NEW t, NEW e \in Frame, Retopped(s, t, e),
         \/ e.irq = NoLine
         \/ e.irq = s[Len(s)].irq /\ e.called = s[Len(s)].called
            /\ e.with = s[Len(s)].with
  PROVE  (Complete(s) => Complete(t)) /\ (Nested(s) => Nested(t))
<1>1. /\ Len(s) \in Nat \ {0} /\ Len(t) = Len(s) /\ t[Len(s)] = e
      /\ Len(s) \in 1 .. Len(s)
      /\ \A k \in 1 .. Len(s) : k # Len(s) => t[k] = s[k]
  BY StackSize DEF Retopped
<1>2. \A k \in 1 .. Len(s) :
        /\ t[k].irq # NoLine
             => t[k].irq = s[k].irq /\ t[k].called = s[k].called /\ t[k].with = s[k].with
        /\ k # Len(s) => t[k].irq = s[k].irq
  BY <1>1
<1>3. Complete(s) => Complete(t)
  BY <1>1, <1>2 DEF Complete
<1>4. \A j, k \in 1 .. Len(s) : j < k => j # Len(s)
  BY <1>1, SMT
<1>5. Nested(s) => Nested(t)
  BY <1>1, <1>2, <1>4 DEF Nested
<1>. QED
  BY <1>3, <1>5

LEMMA OrderKeeps ==
  ASSUME NestInv, TableInv, MaskInv, [Next]_vars
  PROVE  /\ Complete(stack) => Complete(stack')
         /\ Nested(stack) /\ ~ exposed => Nested(stack')
<1>0. stack \in Seq(Frame) /\ StackIs(stack) /\ Len(stack) \in Nat
  BY DEF NestInv
<1>1. CASE stack' = stack
  BY <1>1
<1>2. CASE TakeIrq
  <2>. DEFINE e == [irq |-> NoLine, called |-> NoHandler, with |-> NoHandler,
                    open |-> FALSE, old |-> {}]
  <2>1. e \in Frame /\ e.irq = NoLine
    BY LineFacts DEF Frame, Handler
  <2>2. stack' = Append(stack, e)
    BY <1>2 DEF TakeIrq
  <2>. HIDE DEF e
  <2>3. Pushed(stack, stack', e)
    BY <1>0, <2>1, <2>2, Push
  <2>4. /\ \A k \in 1 .. Len(stack') : k \in 1 .. Len(stack) \/ k = Len(stack')
        /\ \A j, k \in 1 .. Len(stack') : j < k => j \in 1 .. Len(stack)
    BY <1>0, <2>3, SMT DEF Pushed
  <2>5. /\ \A k \in 1 .. Len(stack) : stack'[k] = stack[k]
        /\ stack'[Len(stack')].irq = NoLine
    BY <2>1, <2>3 DEF Pushed
  <2>. QED
    BY <2>4, <2>5 DEF Complete, Nested
<1>3. CASE ReturnFromIrq
  <2>1. Popped(stack, stack')
    BY <1>0, <1>3, Pop DEF ReturnFromIrq, InDispatcher
  <2>2. Len(stack') \in Nat /\ Len(stack') = Len(stack) - 1
    BY <2>1, StackSize DEF Popped
  <2>3. \A k \in 1 .. Len(stack') : k \in 1 .. Len(stack)
    BY <1>0, <2>2, SMT
  <2>. QED
    BY <2>1, <2>3 DEF Popped, Complete, Nested
<1>4. ASSUME NEW i \in Lines, Dispatch(i)
      PROVE  /\ Complete(stack) => Complete(stack')
             /\ Nested(stack) /\ ~ exposed => Nested(stack')
  <2>. DEFINE f == stack[Len(stack)]
              e == [f EXCEPT !.irq = i, !.called = table[i].handler,
                             !.with = table[i].context]
  <2>1. stack # <<>> /\ f.irq = NoLine /\ i \in ienable
        /\ stack' = [stack EXCEPT ![Len(stack)] = e]
    BY <1>4 DEF Dispatch, InDispatcher, Top, MostUrgent, Pending
  <2>2. f \in Frame /\ ~ f.open /\ Len(stack) \in Nat \ {0}
        /\ Len(stack) \in 1 .. Len(stack)
    BY <1>0, <2>1, LineFacts, StackSize DEF StackIs
  <2>3. table[i].handler \in Handler /\ table[i].context \in Handler
    BY DEF TableInv
  <2>4. e \in Frame /\ e.irq = i /\ e.called = table[i].handler
        /\ e.with = table[i].context
    BY <2>2, <2>3, LineFacts DEF Frame
  <2>5. call = NoCall /\ call.at = "none"
    BY <2>1 DEF NestInv, InHandler, Top
  <2>6. e.called # NoHandler /\ e.with = e.called
    BY <2>1, <2>4, <2>5 DEF TableInv
  <2>7. Opened(stack) = Len(stack) - 1
    BY <2>1, <2>2 DEF Opened
  <2>. HIDE DEF e, f
  <2>8. Retopped(stack, stack', e)
    BY <1>0, <2>1, <2>4, Retop
  <2>9. Len(stack') = Len(stack) /\ stack'[Len(stack)] = e
        /\ \A k \in 1 .. Len(stack) : k # Len(stack) => stack'[k] = stack[k]
    BY <2>8 DEF Retopped
  <2>10. Complete(stack) => Complete(stack')
    BY <2>6, <2>9 DEF Complete
  <2>11. ASSUME Nested(stack), ~ exposed PROVE Nested(stack')
    <3>1. i \in BelowMask(stack, Len(stack) - 1)
      BY <2>1, <2>5, <2>7, <2>11 DEF MaskInv, NestInv
    <3>2. \A j \in 1 .. Len(stack) : j < Len(stack) =>
            j = Len(stack) - 1 \/ (j < Len(stack) - 1)
      BY <2>2, SMT
    <3>3. \A j \in 1 .. Len(stack) : j < Len(stack) =>
            /\ Len(stack) - 1 # 0 /\ Len(stack) - 1 \in 1 .. Len(stack)
            /\ Len(stack) - 1 < Len(stack)
      <4>1. \A l \in Nat : \A j \in 1 .. l : j < l =>
              l - 1 # 0 /\ 1 <= l - 1 /\ l - 1 <= l /\ l - 1 < l /\ l - 1 \in Nat
        BY SMT
      <4>2. \A l \in Nat, x \in Nat : 1 <= x /\ x <= l => x \in 1 .. l
        BY SMT
      <4>. QED
        BY <1>0, <4>1, <4>2
    <3>4. ASSUME NEW j \in 1 .. Len(stack), j < Len(stack) PROVE i < stack[j].irq
      <4>. DEFINE m == Len(stack) - 1
      <4>1. m # 0 /\ m \in 1 .. Len(stack) /\ m < Len(stack)
        BY <3>3, <3>4
      <4>2. j = m \/ j < m
        BY <3>2, <3>4
      <4>. HIDE DEF m
      <4>3. i < stack[m].irq
        BY <3>1, <4>1 DEF BelowMask, m
      <4>4. stack[m].open /\ stack[m].irq \in Lines
        BY <1>0, <4>1 DEF StackIs
      <4>5. stack[m].irq # NoLine
        BY <4>4, LineFacts
      <4>6. j < m => stack[m].irq < stack[j].irq
        BY <2>11, <4>1, <4>5 DEF Nested
      <4>7. stack[j].irq \in 0 .. N /\ stack[m].irq \in 0 .. N /\ i \in 0 .. N
        BY <1>0, <4>1, StackSize, LineFacts DEF Frame
      <4>. QED
        BY <4>2, <4>3, <4>6, <4>7, LineFacts, SMT
    <3>5. ASSUME NEW j \in 1 .. Len(stack), NEW k \in 1 .. Len(stack), j < k,
                 stack'[k].irq # NoLine
          PROVE  stack'[k].irq < stack'[j].irq
      <4>1. j < Len(stack) /\ j # Len(stack)
        BY <2>2, <3>5, SMT
      <4>2. CASE k = Len(stack)
        BY <2>4, <2>9, <3>4, <4>1, <4>2
      <4>3. CASE k # Len(stack)
        BY <2>9, <2>11, <3>5, <4>1, <4>3 DEF Nested
      <4>. QED
        BY <4>2, <4>3
    <3>. QED
      BY <2>9, <3>5 DEF Nested
  <2>. QED
    BY <2>10, <2>11
<1>5. ASSUME NEW e, e \in Frame, stack # <<>>,
             stack' = [stack EXCEPT ![Len(stack)] = e],
             \/ e.irq = NoLine
             \/ e.irq = Top.irq /\ e.called = Top.called /\ e.with = Top.with
      PROVE  /\ Complete(stack) => Complete(stack')
             /\ Nested(stack) => Nested(stack')
  <2>1. Retopped(stack, stack', e)
    BY <1>0, <1>5, Retop
  <2>. QED
    BY <1>0, <1>5, <2>1, RetopOrder DEF Top
<1>6. ASSUME stack # <<>>
      PROVE  /\ Top \in Frame
             /\ \A b \in BOOLEAN, o \in SUBSET Lines :
                  LET e == [Top EXCEPT !.open = b, !.old = o] IN
                  e \in Frame /\ e.irq = Top.irq /\ e.called = Top.called
                  /\ e.with = Top.with
             /\ LET e == [Top EXCEPT !.irq = NoLine, !.called = NoHandler,
                                     !.with = NoHandler] IN
                e \in Frame /\ e.irq = NoLine
  <2>1. Top \in Frame
    BY <1>0, <1>6, StackSize DEF Top
  <2>. QED
    BY <2>1, LineFacts DEF Frame, Handler
<1>7. CASE alt_irq_interruptible
  <2>1. mask \in SUBSET Lines
    BY DEF NestInv, BelowMask
  <2>. QED
    BY <1>5, <1>6, <1>7, <2>1 DEF alt_irq_interruptible, InHandler, Top
<1>8. CASE alt_irq_non_interruptible
  BY <1>5, <1>6, <1>8 DEF alt_irq_non_interruptible, InHandler, Top
<1>9. CASE HandlerReturns
  BY <1>5, <1>6, <1>9 DEF HandlerReturns, InHandler, Top
<1>10. CASE Calls
  BY <1>1, <1>10 DEF Calls, alt_irq_register, alt_irq_enable, alt_irq_disable, Begin
<1>11. CASE CallStep
  BY <1>1, <1>11 DEF CallStep, SetHandler, SetContext, SetActive, SetIenable,
                     alt_irq_enable_all
<1>12. CASE UNCHANGED vars \/ Acknowledge \/ \E i \in Lines : Raise(i)
  BY <1>1, <1>12 DEF vars, Acknowledge, Raise
<1>. QED
  BY <1>2, <1>3, <1>4, <1>7, <1>8, <1>9, <1>10, <1>11, <1>12
     DEF Next, Dispatcher, HandlerEnds

----------------------------------------------------------------------------
LEMMA IrqInvHolds == Spec => []IrqInv
<1>1. Init => IrqInv
  BY NestStarts, TableStarts DEF IrqInv, Init, CalledComplete, NestsByPriority
<1>2. ASSUME IrqInv, [Next]_vars PROVE IrqInv'
  <2>1. NestInv' /\ TableInv' /\ MaskInv'
    BY <1>2, NestKeeps, TableKeeps DEF IrqInv
  <2>2. CalledComplete <=> Complete(stack)
    BY DEF CalledComplete, Complete
  <2>3. CalledComplete' <=> Complete(stack')
    BY DEF CalledComplete, Complete
  <2>4. exposed => exposed'
    BY <1>2 DEF Next, vars, Raise, Calls, alt_irq_register, alt_irq_enable,
       alt_irq_disable, Begin, CallStep, SetHandler, SetContext, SetActive, SetIenable,
       alt_irq_enable_all, Dispatcher, TakeIrq, Dispatch, ReturnFromIrq, Acknowledge,
       alt_irq_interruptible, HandlerEnds, alt_irq_non_interruptible, HandlerReturns
  <2>5. NestsByPriority <=> exposed \/ Nested(stack)
    BY DEF NestsByPriority, Nested
  <2>6. NestsByPriority' <=> exposed' \/ Nested(stack')
    BY DEF NestsByPriority, Nested
  <2>. QED
    BY <1>2, <2>1, <2>2, <2>3, <2>4, <2>5, <2>6, OrderKeeps DEF IrqInv
<1>. QED
  BY <1>1, <1>2, PTL DEF Spec

(* No exception calls through NULL or with the context of another handler. *)
THEOREM HandlersComplete == Spec => []CalledComplete
BY IrqInvHolds, PTL DEF IrqInv

(* Handlers nest by priority, at any depth.                                *)
THEOREM PriorityNests == Spec => []NestsByPriority
BY IrqInvHolds, PTL DEF IrqInv

(* The program always finds every registered line enabled again.           *)
THEOREM MaskComesBack == Spec => []MaskRestored
<1>1. IrqInv => MaskRestored
  <2>. SUFFICES ASSUME IrqInv, stack = <<>>, call = NoCall
                PROVE  pie /\ mask = Lines /\ ienable = active
    BY DEF MaskRestored
  <2>1. pie /\ mask = Lines
    BY DEF IrqInv, NestInv, AtOpen, Opened, BelowMask
  <2>2. NoCall.at = "none" /\ active \cap Lines = active
    BY DEF NoCall, IrqInv, TableInv
  <2>. QED
    BY <2>1, <2>2 DEF IrqInv, MaskInv
<1>. QED
  BY IrqInvHolds, <1>1, PTL
=============================================================================
