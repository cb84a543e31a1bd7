------------------------------ MODULE HalHeap ------------------------------
(***************************************************************************)
(* sbrk() and the stack it grows towards.  The linker puts both in one     *)
(* region: the heap up from its start, the stack down from the heap limit. *)
(* Addresses are bytes.  sbrk() runs with interrupts disabled, so that one *)
(* call is one step.                                                       *)
(***************************************************************************)
EXTENDS Integers

CONSTANTS
  HeapLimit,     \* __alt_heap_limit, the heap starting at address 0
  Incrs,         \* sizes sbrk() is asked for, negative to give memory back
  Frames         \* sizes of stack frames

ASSUME HeapAssumption ==
  HeapLimit \in Nat /\ HeapLimit % 4 = 0
  /\ Incrs \subseteq Int /\ Frames \subseteq Nat \ {0}

VARIABLES
  heap_end,
  limit,         \* the stack limit, in et and in alt_stack_limit_value
  sp,
  reported,      \* alt_report_stack_overflow() or the compiler's check broke in
  blocks,        \* what sbrk() gave and has not got back, as [from, to]
  odd            \* history: heap_end was left unaligned

heapVars == << heap_end, limit, sp, reported, blocks, odd >>

HeapInit ==
  /\ heap_end = 0 /\ limit = 0 /\ sp = HeapLimit
  /\ reported = FALSE /\ blocks = {} /\ odd = FALSE

(* A faulty alignment: down to the word.                                   *)
AlignedDown(a) == (a \div 4) * 4

Aligned(a) == ((a + 3) \div 4) * 4

Fits(incr) == Aligned(heap_end) + incr <= HeapLimit

(* The new end of the heap: it is aligned even when the call fails.        *)
NewEnd(incr) == Aligned(heap_end) + (IF Fits(incr) THEN incr ELSE 0)

(* What a call returns, -1 for failure.                                    *)
Failed == -1
Returned(incr) == IF Fits(incr) THEN Aligned(heap_end) ELSE Failed

(* A faulty test: against the new end of the heap.                         *)
FollowsNewEnd(incr) == Fits(incr) /\ limit = NewEnd(incr)

(* The limit is moved only where it points at the top of the heap.         *)
Follows(incr) == Fits(incr) /\ limit = Aligned(heap_end)

(* What is left of the blocks when the end of the heap is moved down.      *)
CutAt(end) ==
  {[from |-> b.from, to |-> IF b.to <= end THEN b.to ELSE end] :
     b \in {c \in blocks : c.from < end}}

ALT_SBRK(incr) ==
  /\ ~reported
  /\ heap_end' = NewEnd(incr)
  /\ limit' = IF Follows(incr) THEN NewEnd(incr) ELSE limit
  /\ reported' = (Follows(incr) /\ sp <= NewEnd(incr))
  /\ blocks' = IF ~Fits(incr) THEN blocks
               ELSE IF incr < 0 THEN CutAt(NewEnd(incr))
               ELSE blocks \cup {[from |-> Aligned(heap_end), to |-> NewEnd(incr)]}
  /\ odd' = (odd \/ NewEnd(incr) % 4 # 0)
  /\ UNCHANGED sp

(* A function is entered: the compiler compares the stack with the limit.  *)
Enter(frame) ==
  /\ ~reported /\ sp >= frame
  /\ IF sp - frame < limit THEN reported' = TRUE /\ UNCHANGED sp
                           ELSE sp' = sp - frame /\ UNCHANGED reported
  /\ UNCHANGED << heap_end, limit, blocks, odd >>

Leave(frame) ==
  /\ ~reported /\ sp + frame <= HeapLimit
  /\ sp' = sp + frame
  /\ UNCHANGED << heap_end, limit, reported, blocks, odd >>

(* The C library, which calls it, gives back no more than it was given;    *)
(* sbrk() does not look.                                                   *)
Owned(incr) == Aligned(heap_end) + incr >= 0

HeapNext ==
  \/ \E incr \in Incrs : Owned(incr) /\ ALT_SBRK(incr)
  \/ \E frame \in Frames : Enter(frame) \/ Leave(frame)

HeapSpec == HeapInit /\ [][HeapNext]_heapVars

----------------------------------------------------------------------------
(* Properties.                                                             *)
(* No two blocks overlap, whatever was asked for, refused and given back,  *)
(* and none is beyond the memory there is: sbrk() checks that bound        *)
(* (alt_sbrk.c:88), though the comment above it says it checks none and    *)
(* allocates whatever the region collides with (alt_sbrk.c:46-48).         *)
BlocksApart ==
  /\ \A b \in blocks : b.from % 4 = 0 /\ 0 <= b.from /\ b.to <= HeapLimit
  /\ \A b, c \in blocks : b # c => b.to <= c.from \/ c.to <= b.from

(* While a program runs on, its stack stays above every block: as long as  *)
(* no size left the end of the heap unaligned, for the limit then stops    *)
(* following it (alt_sbrk.c:107).                                          *)
StackGuarded ==
  ~reported /\ ~odd => \A b \in blocks : b.to <= sp

(* Blocks, limit and stack, together.                                      *)
HeapSound == BlocksApart /\ StackGuarded
=============================================================================
