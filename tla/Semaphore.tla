----------------------------- MODULE Semaphore -----------------------------
(***************************************************************************)
(* src/providers/semaphore.ts as operators on a semaphore's state: the     *)
(* free permits, and the callers that wait, each with the permits it asks  *)
(* for.  Waiters are served in order, but an acquire that finds permits    *)
(* free overtakes them.                                                    *)
(***************************************************************************)
EXTENDS Integers, Sequences, SequencesExt

NewSemaphore(capacity) == [free |-> capacity, queue |-> << >>]

(* tryAcquire, whoever waits. *)
CanTake(s, n) == n <= s.free

Take(s, n) == [s EXCEPT !.free = @ - n]

Wait(s, who, n) == [s EXCEPT !.queue = Append(@, [who |-> who, permits |-> n])]

(* Mutant of GiveUp: the waiter is left in the queue. *)
GiveUpUnnoticed(s, who) == s

PlaceInQueue(s, who) == CHOOSE i \in 1..Len(s.queue) : s.queue[i].who = who

(* onAbort: the waiter goes; those behind it are not looked at. *)
GiveUp(s, who) == [s EXCEPT !.queue = RemoveAt(@, PlaceInQueue(s, who))]

(* What the first k waiters ask for. *)
Wanted(s, k) ==
  LET sum[i \in 0..Len(s.queue)] == IF i = 0 THEN 0 ELSE sum[i - 1] + s.queue[i].permits
  IN  sum[k]

(* Mutant of Satisfied: a release wakes nobody. *)
SatisfiedNobody(s, n) == 0

(* drain: how many waiters, from the head on, n more permits satisfy. *)
Satisfied(s, n) == Max({k \in 0..Len(s.queue) : Wanted(s, k) <= s.free + n})

(* release, if anything was acquired. *)
Release(s, n) ==
  IF n = 0 THEN s
  ELSE [free  |-> s.free + n - Wanted(s, Satisfied(s, n)),
        queue |-> SubSeq(s.queue, Satisfied(s, n) + 1, Len(s.queue))]

Woken(s, n) == IF n = 0 THEN {} ELSE {s.queue[i].who : i \in 1..Satisfied(s, n)}
=============================================================================
