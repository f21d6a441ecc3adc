---------------------------- MODULE InboxProofs ----------------------------
(***************************************************************************)
(* Theorems about Inbox, for any number of events, rooms, copies, crashes  *)
(* and any delays, and however long a turn takes: type correctness, that   *)
(* outcomes are final, that a turn holds its claim while its lease lasts,  *)
(* that an event is acted upon once, that commands are completed answered, *)
(* and the bound on attempts.                                              *)
(*                                                                         *)
(* TurnHoldsClaim is not inductive: how much of a lease is left has to be  *)
(* related to how long its turn has run, a row that is processing for this *)
(* process must have a turn, or it would stay claimed for ever, and a turn *)
(* that lost its row must not get it back.  ActsOnce needs that whoever    *)
(* claims a row does so when no earlier turn can have completed the event  *)
(* unless it failed, died or lost the row.                                 *)
(***************************************************************************)
EXTENDS Inbox, FiniteSetTheorems, SequenceTheorems, TLAPS

(* Tasks of room r for one of the events in D. *)
TaskIn(D, r) == {t \in Task : t.event \in D /\ RoomOf[t.event] = r}

(* Tasks, turns and handlers are for events of the ledger and in their     *)
(* room, one turn to a room; a dead process has none.                      *)
Known ==
  /\ \A r \in Rooms : waiting[r] \in Seq(TaskIn(DOMAIN ledger, r))
  /\ \A x \in Retry : retrying[x] > 0 => x.event \in DOMAIN ledger
  /\ \A r \in Rooms : \A t \in turns[r] : t.event \in DOMAIN ledger /\ RoomOf[t.event] = r
  /\ \A r \in Rooms : \A t, u \in turns[r] : t = u
  /\ ~alive => /\ \A r \in Rooms : waiting[r] = << >> /\ turns[r] = {}
               /\ \A x \in Retry : retrying[x] = 0

Struct == TypeOK /\ Known

(* What the row of a turn that lost it may be.                             *)
Lost == {"received", "failed", "dead_letter"}

(* The row of a running turn is this process's, and leased for at least as *)
(* long as is left of the turn's lease, unless that is over and the timer  *)
(* took the row; no other row is this process's.                           *)
Leased(e) ==
  /\ ledger[e].owner <= epoch
  /\ \A t \in turns[RoomOf[e]] : t.event = e =>
       \/ Owned(e) /\ ledger[e].lease >= Lease - t.time
       \/ t.time = Lease /\ ledger[e].state \in Lost
  /\ alive /\ Owned(e) => Running(e)

(* How many attempts a row may have had, by the process that had them.     *)
Counted(e) ==
  /\ ledger[e].state = "processing" =>
       ledger[e].attempts <= MaxAttempts + ledger[e].owner + reclaimed[e]
  /\ ledger[e].state \in {"received", "failed"} =>
       ledger[e].attempts < MaxAttempts + epoch + reclaimed[e]
  /\ ledger[e].state \in Terminal =>
       ledger[e].attempts <= MaxAttempts + epoch + reclaimed[e]

(* A turn of the event is about to act.                                    *)
Unspent(e) == \E t \in turns[RoomOf[e]] : t.event = e /\ t.step = "claimed"

Chances(e) == ran[e] + (IF Unspent(e) THEN 1 ELSE 0)

(* An event was acted upon, or is about to be, more often than its turns   *)
(* were cut short or lost its row only if a turn of it has the row or has  *)
(* completed it.                                                           *)
Tallied(e) ==
  IF e \in Chat THEN ran[e] <= 1 /\ (e \notin saved => ran[e] = 0)
  ELSE /\ Chances(e) <= 1 + cut[e] + reclaimed[e]
       /\ Chances(e) > cut[e] + reclaimed[e] =>
            /\ e \in DOMAIN ledger
            /\ (Running(e) /\ Owned(e)) \/ ledger[e].state = "completed"

Answered(e) ==
  /\ \A t \in turns[RoomOf[e]] : t.event = e /\ t.step = "replied" => e \in replied
  /\ e \in DOMAIN ledger \ Chat /\ ledger[e].state = "completed" => e \in replied

Core ==
  /\ \A e \in DOMAIN ledger : Leased(e) /\ Counted(e)
  /\ \A e \in Events : Tallied(e) /\ Answered(e)

IInv == Struct /\ Core

-----------------------------------------------------------------------------
LEMMA FreshType ==
  ASSUME NEW S, NEW s \in Seq(S)
  PROVE  Fresh(s) \in Seq(S)
<1> DEFINE P == {i \in 1..Len(s) : \A j \in 1..i : s[j].age > MaxAge}
<1>1. Len(s) \in Nat
  BY LenProperties
<1>2. IsFiniteSet(1..Len(s)) /\ Cardinality(1..Len(s)) = Len(s)
  BY <1>1, FS_Interval, SMTT(30)
<1>3. IsFiniteSet(P)
  BY <1>2, FS_Subset
<1>4. StaleCount(s) \in Nat
  BY <1>3, FS_CardinalityType DEF StaleCount
<1>5. \A i \in (StaleCount(s) + 1)..Len(s) : s[i] \in S
  BY <1>1, <1>4, ElementOfSeq
<1> QED
  BY <1>1, <1>4, <1>5, SubSeqProperties DEF Fresh

LEMMA LessType ==
  ASSUME NEW b \in Nat, NEW i \in 0..b
  PROVE  Less(i) \in 0..b /\ Less(i) >= i - 1
BY DEF Less

LEMMA OlderType ==
  ASSUME NEW b \in Nat, NEW i \in 0..(b + 1)
  PROVE  Older(i, b) \in 0..(b + 1)
BY DEF Older

(* Each of the functions that rewrite a row yields a row, and in which     *)
(* state, for whom and after how many attempts.                            *)
LEMMA RowUpdates ==
  ASSUME NEW r \in Row, epoch \in Nat
  PROVE  /\ Deferred(r) \in Row /\ Deferred(r).attempts = r.attempts + 1
         /\ Deferred(r).owner = r.owner
         /\ Deferred(r).state = IF r.attempts + 1 >= MaxAttempts THEN "dead_letter" ELSE "failed"
         /\ Claimed(r) \in Row /\ Claimed(r).attempts = r.attempts + 1
         /\ Claimed(r).owner = epoch /\ Claimed(r).lease = Lease
         /\ Claimed(r).state = "processing"
         /\ Completed(r) \in Row /\ Completed(r).attempts = r.attempts
         /\ Completed(r).owner = 0 /\ Completed(r).state = "completed"
         /\ Failed(r) \in Row /\ Failed(r).attempts = r.attempts /\ Failed(r).owner = 0
         /\ Failed(r).state = IF r.attempts >= MaxAttempts THEN "dead_letter" ELSE "failed"
<1>1. /\ Lease \in Nat \ {0} /\ Backoff \in Nat /\ MaxAttempts \in Nat \ {0}
      /\ 0 \in 0..Lease /\ Lease \in 0..Lease /\ Backoff \in 0..Backoff
  BY InboxAssumption
<1>2. /\ r.state \in State /\ r.wait \in 0..Backoff /\ r.attempts \in Nat
      /\ r.owner \in Nat /\ r.lease \in 0..Lease /\ r.age \in 0..(StrandAge + 1)
      /\ r.attempts + 1 \in Nat
  BY DEF Row
<1> DEFINE n == r.attempts + 1
           ds == IF n >= MaxAttempts THEN "dead_letter" ELSE "failed"
           fs == IF r.attempts >= MaxAttempts THEN "dead_letter" ELSE "failed"
<1>3. n \in Nat /\ ds \in State /\ fs \in State
  BY <1>2 DEF State
<1>4. /\ Deferred(r) \in Row /\ Deferred(r).attempts = n
      /\ Deferred(r).owner = r.owner /\ Deferred(r).state = ds
  <2>1. Deferred(r) = [r EXCEPT !.state = ds, !.attempts = n, !.wait = Backoff]
    BY DEF Deferred
  <2> HIDE DEF n, ds
  <2> QED
    BY <1>1, <1>2, <1>3, <2>1 DEF Row
<1>5. /\ Claimed(r) \in Row /\ Claimed(r).attempts = n
      /\ Claimed(r).owner = epoch /\ Claimed(r).lease = Lease
      /\ Claimed(r).state = "processing"
  <2>1. Claimed(r) = [r EXCEPT !.state = "processing", !.owner = epoch, !.lease = Lease,
                               !.attempts = n]
    BY DEF Claimed
  <2> HIDE DEF n
  <2> QED
    BY <1>1, <1>2, <1>3, <2>1, ZenonT(40) DEF Row, State
<1>6. /\ Completed(r) \in Row /\ Completed(r).attempts = r.attempts
      /\ Completed(r).owner = 0 /\ Completed(r).state = "completed"
  BY <1>1, <1>2 DEF Completed, Row, State
<1>7. /\ Failed(r) \in Row /\ Failed(r).attempts = r.attempts /\ Failed(r).owner = 0
      /\ Failed(r).state = fs
  <2> DEFINE u == [r EXCEPT !.state = fs, !.wait = Backoff]
  <2>1. Failed(r) = [u EXCEPT !.owner = 0, !.lease = 0]
    BY DEF Failed
  <2> HIDE DEF fs
  <2>2. u \in Row /\ u.attempts = r.attempts /\ u.state = fs
    BY <1>1, <1>2, <1>3 DEF Row
  <2> HIDE DEF u
  <2> DEFINE v == [u EXCEPT !.owner = 0]
  <2>3. v \in Row /\ v.attempts = u.attempts /\ v.state = u.state /\ v.owner = 0
    BY <2>2 DEF Row
  <2>4. Failed(r) = [v EXCEPT !.lease = 0]
    BY <2>1
  <2> HIDE DEF v
  <2>5. /\ [v EXCEPT !.lease = 0] \in Row
        /\ [v EXCEPT !.lease = 0].attempts = v.attempts
        /\ [v EXCEPT !.lease = 0].owner = v.owner
        /\ [v EXCEPT !.lease = 0].state = v.state
    BY <1>1, <2>3 DEF Row
  <2> QED
    BY <2>2, <2>3, <2>4, <2>5
<1> QED
  BY <1>4, <1>5, <1>6, <1>7

LEMMA RecoveredType ==
  ASSUME NEW r \in Row, Stranded(r)
  PROVE  /\ Recovered(r) \in Row /\ Recovered(r).attempts = r.attempts
         /\ Recovered(r).owner <= r.owner
         /\ r.state \in {"received", "processing"}
         /\ Recovered(r).state = IF r.state = "received" THEN "failed" ELSE "received"
<1>1. 0 \in 0..Lease
  BY InboxAssumption
<1>2. /\ r.state \in State /\ r.wait \in 0..Backoff /\ r.attempts \in Nat
      /\ r.owner \in Nat /\ r.lease \in 0..Lease /\ r.age \in 0..(StrandAge + 1)
  BY DEF Row
<1>3. CASE r.state = "received"
  BY <1>2, <1>3 DEF Recovered, Row, State
<1>4. CASE r.state = "processing"
  <2> DEFINE u == [r EXCEPT !.state = "received", !.owner = 0]
  <2>1. u \in Row /\ u.attempts = r.attempts /\ u.state = "received" /\ u.owner = 0
    BY <1>2 DEF Row, State
  <2>2. Recovered(r) = [u EXCEPT !.lease = 0]
    BY <1>4 DEF Recovered
  <2> HIDE DEF u
  <2>3. /\ Recovered(r) \in Row /\ Recovered(r).attempts = u.attempts
        /\ Recovered(r).owner = u.owner /\ Recovered(r).state = u.state
    BY <1>1, <2>1, <2>2 DEF Row
  <2> QED
    BY <1>2, <1>4, <2>1, <2>3
<1> QED
  BY <1>3, <1>4 DEF Stranded

LEMMA FreshRow ==
  [state |-> "received", wait |-> 0, attempts |-> 0, owner |-> 0, lease |-> 0, age |-> 0] \in Row
<1>1. 0 \in 0..Backoff /\ 0 \in 0..Lease /\ 0 \in 0..(StrandAge + 1)
  BY InboxAssumption
<1> QED
  BY <1>1 DEF Row, State

-----------------------------------------------------------------------------
(* Enqueueing keeps each room's tasks those of events in the ledger. *)
LEMMA EnqueueKnown ==
  ASSUME Struct, NEW e \in Events, Enqueue(e), NEW D, DOMAIN ledger \subseteq D, e \in D
  PROVE  /\ waiting' \in [Rooms -> Seq(Task)]
         /\ \A r \in Rooms : waiting'[r] \in Seq(TaskIn(D, r))
<1> DEFINE room == RoomOf[e]
           new == [event |-> e, age |-> 0]
           next(r) == IF r # room THEN waiting[r]
                      ELSE IF Full(room) THEN Fresh(waiting[r])
                      ELSE Append(Fresh(waiting[r]), new)
<1>1. room \in Rooms /\ new \in TaskIn(D, room)
  BY InboxAssumption DEF TaskIn, Task
<1>2. waiting' = [r \in Rooms |-> next(r)]
  BY DEF Enqueue, Struct, TypeOK
<1>3. ASSUME NEW r \in Rooms
      PROVE  next(r) \in Seq(TaskIn(D, r)) /\ next(r) \in Seq(Task)
  <2>1. TaskIn(DOMAIN ledger, r) \subseteq TaskIn(D, r) /\ TaskIn(D, r) \subseteq Task
    BY DEF TaskIn
  <2>2. waiting[r] \in Seq(TaskIn(D, r))
    BY <2>1, SeqMonotonic DEF Struct, Known
  <2>3. Fresh(waiting[r]) \in Seq(TaskIn(D, r))
    BY <2>2, FreshType
  <2>4. r = room => Append(Fresh(waiting[r]), new) \in Seq(TaskIn(D, r))
    BY <1>1, <2>3, AppendProperties
  <2>5. next(r) \in Seq(TaskIn(D, r))
    BY <2>2, <2>3, <2>4
  <2> QED
    BY <2>1, <2>5, SeqMonotonic
<1> HIDE DEF next
<1> QED
  BY <1>2, <1>3

LEMMA InitIInv ==
  ASSUME Init
  PROVE  IInv
<1>1. TypeOK
  <2>1. \A r \in Rooms : waiting[r] \in Seq(Task)
    BY DEF Init
  <2>2. waiting \in [Rooms -> Seq(Task)]
    BY <2>1 DEF Init
  <2>3. {ran, cut, reclaimed} \subseteq [Events -> Nat] /\ replied \subseteq Events
    BY DEF Init
  <2>4. retrying \in [Retry -> Nat]
    BY DEF Init
  <2> QED
    BY <2>2, <2>3, <2>4 DEF Init, TypeOK
<1>2. Known
  <2>1. \A r \in Rooms : waiting[r] \in Seq(TaskIn(DOMAIN ledger, r))
    BY DEF Init
  <2> QED
    BY <2>1 DEF Init, Known
<1>3. \A e \in Events : Tallied(e) /\ Answered(e)
  BY InboxAssumption DEF Init, Tallied, Chances, Unspent, Answered
<1>4. DOMAIN ledger = {}
  BY DEF Init
<1> QED
  BY <1>1, <1>2, <1>3, <1>4 DEF IInv, Struct, Core

(* What an action does to the ledger when it rewrites at most one row. *)
Rewrites(e, row) ==
  ledger' = ledger \/ ledger' = [ledger EXCEPT ![e] = row]

LEMMA RewritesType ==
  ASSUME TypeOK, NEW e \in Events, NEW row \in Row, Rewrites(e, row)
  PROVE  DOMAIN ledger' = DOMAIN ledger /\ \A f \in DOMAIN ledger' : ledger'[f] \in Row
<1>1. CASE ledger' = ledger
  BY <1>1 DEF TypeOK
<1>2. CASE ledger' = [ledger EXCEPT ![e] = row]
  BY <1>2 DEF TypeOK
<1> QED
  BY <1>1, <1>2 DEF Rewrites

LEMMA DeferRewrites ==
  ASSUME TypeOK, NEW e \in DOMAIN ledger, DeferUnclaimed(e)
  PROVE  Rewrites(e, Deferred(ledger[e]))
BY DEF DeferUnclaimed, Update, Rewrites

(* One more waiting handler, and one less.                                 *)
LEMMA HandlersType ==
  ASSUME NEW handlers \in [Retry -> Nat], NEW x \in Retry
  PROVE  /\ Joined(x, handlers) \in [Retry -> Nat]
         /\ \A y \in Retry : Joined(x, handlers)[y] > 0 => y = x \/ handlers[y] > 0
         /\ handlers[x] > 0 =>
              /\ Gone(x, handlers) \in [Retry -> Nat]
              /\ \A y \in Retry : Gone(x, handlers)[y] > 0 => handlers[y] > 0
BY DEF Joined, Gone

LEMMA DeliverStruct ==
  ASSUME Struct, NEW e \in Events, Deliver(e)
  PROVE  /\ Struct'
         /\ DOMAIN ledger' = DOMAIN ledger \cup {e}
         /\ \A f \in DOMAIN ledger : ledger'[f] = ledger[f]
         /\ e \notin DOMAIN ledger =>
              ledger'[e] = [state |-> "received", wait |-> 0, attempts |-> 0,
                            owner |-> 0, lease |-> 0, age |-> 0]
<1> DEFINE new == [state |-> "received", wait |-> 0, attempts |-> 0,
                   owner |-> 0, lease |-> 0, age |-> 0]
<1>1. /\ DOMAIN ledger' = DOMAIN ledger \cup {e}
      /\ \A f \in DOMAIN ledger : ledger'[f] = ledger[f]
      /\ e \notin DOMAIN ledger => ledger'[e] = new
  <2>1. CASE e \in DOMAIN ledger
    BY <2>1 DEF Deliver, Admit
  <2>2. CASE e \notin DOMAIN ledger
    BY <2>2 DEF Deliver, Admit
  <2> QED
    BY <2>1, <2>2
<1>2. new \in Row
  BY FreshRow
<1> HIDE DEF new
<1>3. \A f \in DOMAIN ledger' : ledger'[f] \in Row
  BY <1>1, <1>2 DEF Struct, TypeOK
<1>4. /\ waiting' \in [Rooms -> Seq(Task)]
      /\ \A r \in Rooms : waiting'[r] \in Seq(TaskIn(DOMAIN ledger', r))
  BY <1>1, EnqueueKnown DEF Deliver
<1>5. /\ retrying' \in [Retry -> Nat]
      /\ \A x \in Retry : retrying'[x] > 0 => x.event \in DOMAIN ledger'
  <2> DEFINE y == [event |-> e, left |-> Retries]
  <2>1. y \in Retry /\ y.event = e
    BY InboxAssumption DEF Retry
  <2>2. retrying' = retrying \/ retrying' = Joined(y, retrying)
    BY DEF Deliver
  <2> HIDE DEF y
  <2>3. retrying \in [Retry -> Nat] /\ \A x \in Retry : retrying[x] > 0 => x.event \in DOMAIN ledger
    BY DEF Struct, TypeOK, Known
  <2>4. CASE retrying' = retrying
    BY <1>1, <2>3, <2>4
  <2>5. CASE retrying' = Joined(y, retrying)
    BY <1>1, <2>1, <2>3, <2>5, HandlersType
  <2> QED
    BY <2>2, <2>4, <2>5
<1>6. TypeOK'
  BY <1>1, <1>3, <1>4, <1>5 DEF Deliver, Struct, TypeOK
<1>7. Known'
  BY <1>1, <1>4, <1>5 DEF Deliver, Struct, Known
<1> QED
  BY <1>1, <1>6, <1>7 DEF Struct, new

LEMMA RetryStruct ==
  ASSUME Struct, NEW x \in Retry, RetryEnqueue(x)
  PROVE  Struct'
<1>1. x.event \in Events /\ x.event \in DOMAIN ledger /\ retrying[x] > 0
  BY DEF RetryEnqueue, Struct, TypeOK, Known, Retry
<1>2. ledger[x.event] \in Row /\ epoch \in Nat
  BY <1>1 DEF Struct, TypeOK
<1>3. Deferred(ledger[x.event]) \in Row
  BY <1>2, RowUpdates
<1>4. Rewrites(x.event, Deferred(ledger[x.event]))
  <2>1. ledger' = ledger \/ DeferUnclaimed(x.event)
    BY DEF RetryEnqueue
  <2> QED
    BY <1>1, <2>1, DeferRewrites DEF Struct, Rewrites
<1>5. DOMAIN ledger' = DOMAIN ledger /\ \A f \in DOMAIN ledger' : ledger'[f] \in Row
  BY <1>1, <1>3, <1>4, RewritesType DEF Struct
<1>6. /\ waiting' \in [Rooms -> Seq(Task)]
      /\ \A r \in Rooms : waiting'[r] \in Seq(TaskIn(DOMAIN ledger', r))
  BY <1>1, <1>5, EnqueueKnown DEF RetryEnqueue
<1>7. /\ retrying' \in [Retry -> Nat]
      /\ \A y \in Retry : retrying'[y] > 0 => y.event \in DOMAIN ledger'
  <2>1. /\ Gone(x, retrying) \in [Retry -> Nat]
        /\ \A y \in Retry : Gone(x, retrying)[y] > 0 => retrying[y] > 0
    BY <1>1, HandlersType DEF Struct, TypeOK
  <2>2. CASE retrying' = Gone(x, retrying)
    BY <1>5, <2>1, <2>2 DEF Struct, Known
  <2>3. CASE x.left > 1 /\ retrying' = Joined([x EXCEPT !.left = @ - 1], Gone(x, retrying))
    <3> DEFINE y == [x EXCEPT !.left = x.left - 1]
    <3>1. y \in Retry /\ y.event = x.event
      BY <2>3, InboxAssumption DEF Retry
    <3>2. retrying' = Joined(y, Gone(x, retrying))
      BY <2>3
    <3> HIDE DEF y
    <3>3. /\ retrying' \in [Retry -> Nat]
          /\ \A z \in Retry : retrying'[z] > 0 => z = y \/ Gone(x, retrying)[z] > 0
      BY <2>1, <3>1, <3>2, HandlersType
    <3> QED
      BY <1>1, <1>5, <2>1, <3>1, <3>3 DEF Struct, Known
  <2> QED
    BY <2>2, <2>3 DEF RetryEnqueue
<1>8. UNCHANGED <<saved, turns, alive, epoch, ran, cut, reclaimed, replied>> /\ alive
  BY <1>1 DEF RetryEnqueue, Struct, Known
<1>9. TypeOK'
  BY <1>5, <1>6, <1>7, <1>8 DEF Struct, TypeOK
<1>10. Known'
  BY <1>5, <1>6, <1>7, <1>8 DEF Struct, Known
<1> QED
  BY <1>9, <1>10 DEF Struct

(* A turn starts for an event that may be claimed, or not at all. *)
LEMMA BeginClaims ==
  ASSUME Struct, NEW r \in Rooms, Begin(r)
  PROVE  /\ waiting' \in [Rooms -> Seq(Task)]
         /\ \A x \in Rooms : waiting'[x] \in Seq(TaskIn(DOMAIN ledger, x))
         /\ alive /\ turns[r] = {}
         /\ \/ ledger' = ledger /\ turns' = turns
            \/ \E e \in DOMAIN ledger :
                 /\ RoomOf[e] = r /\ Claimable(ledger[e])
                 /\ ledger' = [ledger EXCEPT ![e] = Claimed(ledger[e])]
                 /\ turns' = [turns EXCEPT ![r] =
                                {[event |-> e, step |-> "claimed", time |-> 0]}]
<1> DEFINE tasks == Fresh(waiting[r])
           rest == IF tasks = << >> THEN << >> ELSE Tail(tasks)
           S == TaskIn(DOMAIN ledger, r)
<1>0. S \subseteq Task
  BY DEF TaskIn
<1>1. tasks \in Seq(S)
  BY FreshType DEF Struct, Known
<1>2. rest \in Seq(S) /\ (tasks # << >> => Head(tasks) \in S)
  <2>1. << >> \in Seq(S)
    BY EmptySeq
  <2> HIDE DEF tasks, S
  <2>2. tasks # << >> => Head(tasks) \in S /\ Tail(tasks) \in Seq(S)
    BY <1>1, HeadTailProperties
  <2> QED
    BY <2>1, <2>2
<1>3. waiting' = [waiting EXCEPT ![r] = rest]
  BY DEF Begin
<1>4. rest \in Seq(Task)
  BY <1>0, <1>2, SeqMonotonic
<1> HIDE DEF rest
<1>5. waiting' \in [Rooms -> Seq(Task)]
  BY <1>3, <1>4 DEF Struct, TypeOK
<1>6. \A x \in Rooms : waiting'[x] \in Seq(TaskIn(DOMAIN ledger, x))
  BY <1>2, <1>3 DEF Struct, TypeOK, Known
<1>7. alive /\ turns[r] = {}
  BY DEF Begin, Struct, Known
<1>8. CASE tasks # << >> /\ Claimable(ledger[Head(tasks).event])
  <2> DEFINE e == Head(tasks).event
  <2>1. e \in DOMAIN ledger /\ RoomOf[e] = r
    BY <1>2, <1>8 DEF TaskIn
  <2>2. /\ ledger' = [ledger EXCEPT ![e] = Claimed(ledger[e])]
        /\ turns' = [turns EXCEPT ![r] = {[event |-> e, step |-> "claimed", time |-> 0]}]
    BY <1>8 DEF Begin, Update
  <2> HIDE DEF e, tasks
  <2> QED
    BY <1>5, <1>6, <1>7, <1>8, <2>1, <2>2 DEF e
<1>9. CASE ~(tasks # << >> /\ Claimable(ledger[Head(tasks).event]))
  BY <1>5, <1>6, <1>7, <1>9 DEF Begin
<1> QED
  BY <1>8, <1>9

LEMMA BeginStruct ==
  ASSUME Struct, NEW r \in Rooms, Begin(r)
  PROVE  Struct'
<1>1. /\ waiting' \in [Rooms -> Seq(Task)]
      /\ \A x \in Rooms : waiting'[x] \in Seq(TaskIn(DOMAIN ledger, x))
      /\ alive
  BY BeginClaims
<1>2. UNCHANGED <<saved, retrying, alive, epoch, ran, cut, reclaimed, replied>>
  BY DEF Begin
<1>3. CASE ledger' = ledger /\ turns' = turns
  BY <1>1, <1>2, <1>3 DEF Struct, TypeOK, Known
<1>4. ASSUME NEW e \in DOMAIN ledger, RoomOf[e] = r,
             ledger' = [ledger EXCEPT ![e] = Claimed(ledger[e])],
             turns' = [turns EXCEPT ![r] = {[event |-> e, step |-> "claimed", time |-> 0]}]
      PROVE  Struct'
  <2>1. e \in Events /\ ledger[e] \in Row /\ epoch \in Nat
    BY DEF Struct, TypeOK
  <2>2. Claimed(ledger[e]) \in Row
    BY <2>1, RowUpdates
  <2>3. DOMAIN ledger' = DOMAIN ledger /\ \A f \in DOMAIN ledger' : ledger'[f] \in Row
    BY <1>4, <2>1, <2>2, RewritesType DEF Rewrites, Struct
  <2> DEFINE t == [event |-> e, step |-> "claimed", time |-> 0]
  <2>4. t \in Turn /\ t.event = e
    BY <2>1, InboxAssumption DEF Turn
  <2> HIDE DEF t
  <2>5. turns' = [turns EXCEPT ![r] = {t}]
    BY <1>4 DEF t
  <2>6. turns' \in [Rooms -> SUBSET Turn]
    BY <2>4, <2>5 DEF Struct, TypeOK
  <2>7. TypeOK'
    BY <1>1, <1>2, <2>3, <2>6 DEF Struct, TypeOK
  <2>8. Known'
    BY <1>1, <1>2, <1>4, <2>3, <2>4, <2>5 DEF Struct, TypeOK, Known
  <2> QED
    BY <2>7, <2>8 DEF Struct
<1> QED
  BY <1>3, <1>4, BeginClaims

(* A step of a running turn: the turn goes on or ends, its row is left     *)
(* alone or rewritten.                                                     *)
LEMMA TurnStruct ==
  ASSUME Struct, NEW r \in Rooms, NEW t \in turns[r], NEW row \in Row,
         Rewrites(t.event, row), NEW step \in {"claimed", "acted", "replied"},
         turns' = [turns EXCEPT ![r] = {[t EXCEPT !.step = step]}]
           \/ turns' = [turns EXCEPT ![r] = {}],
         UNCHANGED <<waiting, retrying, alive, epoch>>,
         saved' \subseteq Chat, {ran, cut, reclaimed}' \subseteq [Events -> Nat] /\ replied' \subseteq Events
  PROVE  Struct'
<1>1. t \in Turn /\ t.event \in Events /\ t.event \in DOMAIN ledger /\ RoomOf[t.event] = r
  BY DEF Struct, TypeOK, Known, Turn
<1>2. DOMAIN ledger' = DOMAIN ledger /\ \A f \in DOMAIN ledger' : ledger'[f] \in Row
  BY <1>1, RewritesType DEF Struct
<1> DEFINE u == [t EXCEPT !.step = step]
<1>3. u \in Turn /\ u.event = t.event
  BY <1>1 DEF Turn
<1>4. turns' = [turns EXCEPT ![r] = {u}] \/ turns' = [turns EXCEPT ![r] = {}]
  OBVIOUS
<1> HIDE DEF u
<1> DEFINE T == turns'[r]
<1>t. /\ turns' = [turns EXCEPT ![r] = T] /\ T \in {{u}, {}} /\ turns \in [Rooms -> SUBSET Turn]
  BY <1>4 DEF Struct, TypeOK
<1> HIDE DEF T
<1>5. turns' \in [Rooms -> SUBSET Turn]
  <2>1. T \in SUBSET Turn
    BY <1>3, <1>t
  <2> QED
    BY <1>t, <2>1
<1>6. TypeOK'
  BY <1>2, <1>5 DEF Struct, TypeOK
<1>7. /\ \A x \in Rooms : \A v \in turns'[x] :
              v.event \in DOMAIN ledger' /\ RoomOf[v.event] = x
      /\ \A x \in Rooms : \A v, w \in turns'[x] : v = w
  <2> SUFFICES ASSUME NEW x \in Rooms
               PROVE  /\ \A v \in turns'[x] : v.event \in DOMAIN ledger' /\ RoomOf[v.event] = x
                      /\ \A v, w \in turns'[x] : v = w
    OBVIOUS
  <2>1. CASE x = r
    <3>1. turns'[x] = T
      BY <1>t, <2>1
    <3> QED
      BY <1>1, <1>2, <1>3, <1>t, <2>1, <3>1
  <2>2. CASE x # r
    <3>1. turns'[x] = turns[x]
      BY <1>t, <2>2
    <3> QED
      BY <1>2, <3>1 DEF Struct, Known
  <2> QED
    BY <2>1, <2>2
<1>8. alive
  BY DEF Struct, Known
<1>9. Known'
  BY <1>2, <1>7, <1>8 DEF Struct, Known
<1> QED
  BY <1>6, <1>9 DEF Struct

LEMMA CounterUp ==
  ASSUME NEW f \in [Events -> Nat], NEW e \in Events
  PROVE  [f EXCEPT ![e] = @ + 1] \in [Events -> Nat]
OBVIOUS

LEMMA RunTurnStruct ==
  ASSUME Struct, NEW r \in Rooms, RunTurn(r)
  PROVE  Struct'
<1>1. PICK t \in turns[r] : Act(r, t) \/ Reply(r, t) \/ Complete(r, t) \/ Fail(r, t)
  BY DEF RunTurn
<1> DEFINE e == t.event
<1>2. e \in Events /\ ledger[e] \in Row /\ epoch \in Nat /\ saved \subseteq Chat
  BY DEF Struct, TypeOK, Known, Turn
<1>3. /\ ran \in [Events -> Nat] /\ cut \in [Events -> Nat] /\ reclaimed \in [Events -> Nat]
      /\ replied \subseteq Events
  BY DEF Struct, TypeOK
<1>4. Completed(ledger[e]) \in Row /\ Failed(ledger[e]) \in Row
  BY <1>2, RowUpdates
<1>5. CASE Act(r, t)
  <2>1. Rewrites(e, Completed(ledger[e]))
    BY <1>5 DEF Act, Release, Update, Rewrites
  <2>2. /\ turns' = [turns EXCEPT ![r] = {[t EXCEPT !.step = "acted"]}]
              \/ turns' = [turns EXCEPT ![r] = {}]
        /\ UNCHANGED <<waiting, retrying, alive, epoch>>
        /\ saved' \subseteq Chat
        /\ cut' = cut /\ reclaimed' = reclaimed /\ replied' = replied
        /\ ran' = ran \/ ran' = [ran EXCEPT ![e] = @ + 1]
    BY <1>2, <1>5 DEF Act, EndTurn
  <2>3. {ran, cut, reclaimed}' \subseteq [Events -> Nat] /\ replied' \subseteq Events
    BY <1>2, <1>3, <2>2, CounterUp
  <2> HIDE DEF e
  <2> QED
    BY <1>4, <2>1, <2>2, <2>3, TurnStruct DEF e
<1>6. CASE Reply(r, t)
  <2>1. Rewrites(e, Completed(ledger[e]))
    BY <1>6 DEF Reply, Rewrites
  <2>2. /\ turns' = [turns EXCEPT ![r] = {[t EXCEPT !.step = "replied"]}]
        /\ UNCHANGED <<waiting, retrying, alive, epoch, saved, ran, cut, reclaimed>>
        /\ replied' = replied \cup {e}
    BY <1>6 DEF Reply
  <2>3. {ran, cut, reclaimed}' \subseteq [Events -> Nat] /\ replied' \subseteq Events
    BY <1>2, <1>3, <2>2, CounterUp
  <2> HIDE DEF e
  <2> QED
    BY <1>2, <1>4, <2>1, <2>2, <2>3, TurnStruct DEF e
<1>7. CASE Complete(r, t)
  <2>1. Rewrites(e, Completed(ledger[e]))
    BY <1>7 DEF Complete, Release, Update, Rewrites
  <2>2. /\ turns' = [turns EXCEPT ![r] = {}]
        /\ UNCHANGED <<waiting, retrying, alive, epoch, saved, ran, cut, reclaimed, replied>>
    BY <1>7 DEF Complete, EndTurn
  <2>3. {ran, cut, reclaimed}' \subseteq [Events -> Nat] /\ replied' \subseteq Events
    BY <1>3, <2>2
  <2> HIDE DEF e
  <2> QED
    BY <1>2, <1>4, <2>1, <2>2, <2>3, TurnStruct DEF e
<1>8. CASE Fail(r, t)
  <2>1. Rewrites(e, Failed(ledger[e]))
    BY <1>8 DEF Fail, Release, Update, Rewrites
  <2>2. /\ turns' = [turns EXCEPT ![r] = {}]
        /\ UNCHANGED <<waiting, retrying, alive, epoch, saved, ran, reclaimed, replied>>
        /\ cut' = [cut EXCEPT ![e] = @ + 1]
    BY <1>8 DEF Fail, EndTurn
  <2>3. {ran, cut, reclaimed}' \subseteq [Events -> Nat] /\ replied' \subseteq Events
    BY <1>2, <1>3, <2>2, CounterUp
  <2> HIDE DEF e
  <2> QED
    BY <1>2, <1>4, <2>1, <2>2, <2>3, TurnStruct DEF e
<1> QED
  BY <1>1, <1>5, <1>6, <1>7, <1>8

LEMMA RecoverStruct ==
  ASSUME Struct, RecoverStranded
  PROVE  Struct'
<1>1. DOMAIN ledger' = DOMAIN ledger
  BY DEF RecoverStranded
<1>2. \A e \in DOMAIN ledger' : ledger'[e] \in Row
  BY <1>1, RecoveredType DEF RecoverStranded, Struct, TypeOK
<1>3. reclaimed' \in [Events -> Nat]
  BY DEF RecoverStranded, Struct, TypeOK
<1>4. UNCHANGED <<saved, waiting, turns, retrying, alive, epoch, ran, cut, replied>> /\ alive
  BY DEF RecoverStranded
<1>5. TypeOK'
  BY <1>1, <1>2, <1>3, <1>4 DEF Struct, TypeOK
<1>6. Known'
  BY <1>1, <1>4 DEF Struct, Known
<1> QED
  BY <1>5, <1>6 DEF Struct

(* In a room at most one turn is lost. *)
LEMMA OneTurnLost ==
  ASSUME Struct, NEW e \in Events
  PROVE  /\ Cardinality({t \in turns[RoomOf[e]] : t.event = e}) \in Nat
         /\ Running(e) => Cardinality({t \in turns[RoomOf[e]] : t.event = e}) = 1
<1> DEFINE S == {t \in turns[RoomOf[e]] : t.event = e}
<1>1. RoomOf[e] \in Rooms
  BY InboxAssumption
<1>2. CASE Running(e)
  <2>1. PICK t \in turns[RoomOf[e]] : t.event = e
    BY <1>2 DEF Running
  <2>2. S = {t}
    BY <1>1, <2>1 DEF Struct, Known
  <2> QED
    BY <2>2, FS_Singleton
<1>3. CASE ~Running(e)
  <2>1. S = {}
    BY <1>3 DEF Running
  <2> QED
    BY <1>3, <2>1, FS_EmptySet
<1> QED
  BY <1>2, <1>3

LEMMA CrashStruct ==
  ASSUME Struct, Crash
  PROVE  Struct'
<1>1. cut' \in [Events -> Nat]
  <2>1. cut' = [e \in Events |->
                 cut[e] + Cardinality({t \in turns[RoomOf[e]] : t.event = e})]
    BY DEF Crash
  <2>2. cut \in [Events -> Nat]
    BY DEF Struct, TypeOK
  <2>3. ASSUME NEW e \in Events
        PROVE  cut[e] + Cardinality({t \in turns[RoomOf[e]] : t.event = e}) \in Nat
    <3> DEFINE n == Cardinality({t \in turns[RoomOf[e]] : t.event = e})
    <3>1. n \in Nat
      BY OneTurnLost
    <3> HIDE DEF n
    <3>2. cut[e] + n \in Nat
      BY <2>2, <3>1
    <3> QED
      BY <3>2 DEF n
  <2> QED
    BY <2>1, <2>3
<1>2. /\ waiting' = [r \in Rooms |-> << >>] /\ turns' = [r \in Rooms |-> {}]
      /\ retrying' = [x \in Retry |-> 0] /\ alive' = FALSE
      /\ UNCHANGED <<ledger, saved, epoch, ran, reclaimed, replied>>
  BY DEF Crash
<1>3. \A r \in Rooms : /\ waiting'[r] \in Seq(Task)
                       /\ waiting'[r] \in Seq(TaskIn(DOMAIN ledger', r))
  BY <1>2, EmptySeq
<1>4. TypeOK'
  BY <1>1, <1>2, <1>3 DEF Struct, TypeOK
<1>5. Known'
  BY <1>2, <1>3 DEF Struct, Known
<1> QED
  BY <1>4, <1>5 DEF Struct

LEMMA RestartStruct ==
  ASSUME Struct, Restart
  PROVE  Struct'
<1>1. TypeOK'
  BY DEF Restart, Struct, TypeOK
<1>2. Known'
  BY DEF Restart, Struct, Known
<1> QED
  BY <1>1, <1>2 DEF Struct

LEMMA TickRow ==
  ASSUME NEW row \in Row
  PROVE  [row EXCEPT !.wait = Less(@), !.lease = Less(@), !.age = Older(@, StrandAge)] \in Row
<1>1. /\ row.wait \in 0..Backoff /\ row.lease \in 0..Lease /\ row.age \in 0..(StrandAge + 1)
  BY DEF Row
<1>2. Backoff \in Nat /\ Lease \in Nat /\ StrandAge \in Nat
  BY InboxAssumption
<1>3. /\ Less(row.wait) \in 0..Backoff /\ Less(row.lease) \in 0..Lease
      /\ Older(row.age, StrandAge) \in 0..(StrandAge + 1)
  BY <1>1, <1>2, LessType, OlderType
<1> DEFINE w == Less(row.wait)
           l == Less(row.lease)
           a == Older(row.age, StrandAge)
<1> HIDE DEF w, l, a
<1>4. [row EXCEPT !.wait = w, !.lease = l] \in Row
  BY <1>3 DEF Row, w, l
<1>5. \A v \in Row : [v EXCEPT !.age = a] \in Row
  BY <1>3 DEF Row, a
<1>6. [[row EXCEPT !.wait = w, !.lease = l] EXCEPT !.age = a] \in Row
  BY <1>4, <1>5
<1> QED
  BY <1>6 DEF w, l, a

LEMMA TickQueue ==
  ASSUME NEW D, NEW r, NEW s \in Seq(TaskIn(D, r))
  PROVE  [i \in DOMAIN s |-> [s[i] EXCEPT !.age = Older(@, MaxAge)]] \in Seq(TaskIn(D, r))
<1> DEFINE S == TaskIn(D, r)
           f(i) == [s[i] EXCEPT !.age = Older(@, MaxAge)]
<1>1. Len(s) \in Nat /\ DOMAIN s = 1..Len(s)
  BY LenProperties
<1>2. ASSUME NEW i \in 1..Len(s)
      PROVE  f(i) \in S
  <2>1. s[i] \in S
    BY ElementOfSeq
  <2>2. s[i].age \in 0..(MaxAge + 1) /\ MaxAge \in Nat
    BY <2>1, InboxAssumption DEF TaskIn, Task
  <2>3. Older(s[i].age, MaxAge) \in 0..(MaxAge + 1)
    BY <2>2, OlderType
  <2> QED
    BY <2>1, <2>3 DEF TaskIn, Task
<1> HIDE DEF f, S
<1>3. [i \in 1..Len(s) |-> f(i)] \in [1..Len(s) -> S]
  BY <1>2
<1>4. [i \in 1..Len(s) |-> f(i)] \in Seq(S)
  BY <1>1, <1>3, SeqDef
<1> QED
  BY <1>1, <1>4 DEF f, S

LEMMA TickStruct ==
  ASSUME Struct, Tick
  PROVE  Struct'
<1>1. DOMAIN ledger' = DOMAIN ledger
  BY DEF Tick
<1>2. \A e \in DOMAIN ledger' : ledger'[e] \in Row
  BY <1>1, TickRow DEF Tick, Struct, TypeOK
<1>3. \A r \in Rooms : waiting'[r] \in Seq(TaskIn(DOMAIN ledger, r))
  BY TickQueue DEF Tick, Struct, Known
<1>4. waiting' \in [Rooms -> Seq(Task)]
  <2>1. \A r \in Rooms : TaskIn(DOMAIN ledger, r) \subseteq Task
    BY DEF TaskIn
  <2>2. \A r \in Rooms : waiting'[r] \in Seq(Task)
    BY <1>3, <2>1, SeqMonotonic
  <2>3. waiting' = [r \in Rooms |-> waiting'[r]]
    BY DEF Tick
  <2> QED
    BY <2>2, <2>3
<1>5. \A r \in Rooms : \A t \in turns[r] :
        [t EXCEPT !.time = Older(@, Lease - 1)] \in Turn /\ [t EXCEPT !.time = Older(@, Lease - 1)].event = t.event
  <2> SUFFICES ASSUME NEW r \in Rooms, NEW t \in turns[r]
               PROVE  /\ [t EXCEPT !.time = Older(@, Lease - 1)] \in Turn
                      /\ [t EXCEPT !.time = Older(@, Lease - 1)].event = t.event
    OBVIOUS
  <2>1. t \in Turn
    BY DEF Struct, TypeOK
  <2>2. Older(t.time, Lease - 1) \in 0..Lease
    BY <2>1, InboxAssumption DEF Turn, Older
  <2> QED
    BY <2>1, <2>2 DEF Turn
<1>6. turns' = [r \in Rooms |-> {[t EXCEPT !.time = Older(@, Lease - 1)] : t \in turns[r]}]
  BY DEF Tick
<1>7. turns' \in [Rooms -> SUBSET Turn]
  BY <1>5, <1>6
<1>8. UNCHANGED <<saved, retrying, alive, epoch, ran, cut, reclaimed, replied>>
  BY DEF Tick
<1>9. TypeOK'
  BY <1>1, <1>2, <1>4, <1>7, <1>8 DEF Struct, TypeOK
<1>10. \A r \in Rooms : \A t \in turns'[r] : t.event \in DOMAIN ledger' /\ RoomOf[t.event] = r
  <2> SUFFICES ASSUME NEW r \in Rooms, NEW u \in turns'[r]
               PROVE  u.event \in DOMAIN ledger' /\ RoomOf[u.event] = r
    OBVIOUS
  <2>1. PICK t \in turns[r] : u = [t EXCEPT !.time = Older(@, Lease - 1)]
    BY <1>6
  <2>2. u.event = t.event
    BY <1>5, <2>1
  <2> QED
    BY <1>1, <2>2 DEF Struct, Known
<1>11. \A r \in Rooms : \A t, u \in turns'[r] : t = u
  BY <1>6 DEF Struct, Known
<1>12. ~alive' => /\ \A r \in Rooms : waiting'[r] = << >> /\ turns'[r] = {}
                  /\ \A x \in Retry : retrying'[x] = 0
  <2> SUFFICES ASSUME ~alive
               PROVE  /\ \A r \in Rooms : waiting'[r] = << >> /\ turns'[r] = {}
                      /\ \A x \in Retry : retrying'[x] = 0
    BY <1>8
  <2>1. /\ \A x \in Retry : retrying'[x] = 0
        /\ \A r \in Rooms : waiting[r] = << >> /\ turns[r] = {}
    BY <1>8 DEF Struct, Known
  <2>2. ASSUME NEW r \in Rooms
        PROVE  waiting'[r] = << >>
    <3> DEFINE s == waiting'[r]
    <3>1. DOMAIN s = DOMAIN waiting[r]
      BY DEF Tick
    <3>2. waiting[r] = << >> /\ DOMAIN << >> = 1..0
      BY <2>1
    <3>3. s \in Seq(Task)
      BY <1>4
    <3> HIDE DEF s
    <3>4. DOMAIN s = 1..Len(s) /\ Len(s) \in Nat
      BY <3>3, LenProperties
    <3>5. Len(s) = 0
      BY <3>1, <3>2, <3>4
    <3>6. s = << >>
      BY <3>3, <3>5, EmptySeq
    <3> QED
      BY <3>6 DEF s
  <2>3. \A r \in Rooms : turns'[r] = {}
    BY <1>6, <2>1
  <2> QED
    BY <2>1, <2>2, <2>3
<1>13. Known'
  BY <1>1, <1>3, <1>8, <1>10, <1>11, <1>12 DEF Struct, Known
<1> QED
  BY <1>9, <1>13 DEF Struct

LEMMA NextStruct ==
  ASSUME Struct, [Next]_vars
  PROVE  Struct'
<1>1. CASE \E e \in Events : Deliver(e)
  BY <1>1, DeliverStruct
<1>2. CASE \E x \in Retry : RetryEnqueue(x)
  BY <1>2, RetryStruct
<1>3. CASE \E r \in Rooms : Begin(r) \/ RunTurn(r)
  BY <1>3, BeginStruct, RunTurnStruct
<1>4. CASE RecoverStranded
  BY <1>4, RecoverStruct
<1>5. CASE Crash
  BY <1>5, CrashStruct
<1>6. CASE Restart
  BY <1>6, RestartStruct
<1>7. CASE Tick
  BY <1>7, TickStruct
<1>8. CASE UNCHANGED vars
  <2>1. TypeOK'
    BY <1>8 DEF vars, Struct, TypeOK
  <2>2. Known'
    BY <1>8 DEF vars, Struct, Known
  <2> QED
    BY <2>1, <2>2 DEF Struct
<1> QED
  BY <1>1, <1>2, <1>3, <1>4, <1>5, <1>6, <1>7, <1>8 DEF Next

(* Tasks, turns and handlers are always for events of the ledger.          *)
THEOREM StructInvariant == Spec => []Struct
<1>1. Init => Struct
  BY InitIInv DEF IInv
<1>2. Struct /\ [Next]_vars => Struct'
  BY NextStruct
<1> QED
  BY <1>1, <1>2, PTL DEF Spec

(* Every variable of intake keeps its type.                                *)
THEOREM TypeCorrect == Spec => []TypeOK
<1>1. Struct => TypeOK
  BY DEF Struct
<1> QED
  BY <1>1, StructInvariant, PTL

-----------------------------------------------------------------------------
(* No step changes the state of a row that has its outcome. *)
Final == \A e \in DOMAIN ledger :
           ledger[e].state \in Terminal => ledger'[e].state = ledger[e].state

LEMMA RewritesFinal ==
  ASSUME Struct, NEW e, NEW row, Rewrites(e, row),
         ledger' # ledger => ledger[e].state \notin Terminal
  PROVE  Final
<1>1. CASE ledger' = ledger
  BY <1>1 DEF Final
<1>2. CASE ledger' # ledger
  BY <1>2 DEF Final, Rewrites
<1> QED
  BY <1>1, <1>2

LEMMA NextFinal ==
  ASSUME Struct, [Next]_vars
  PROVE  Final
<1>1. CASE \E e \in Events : Deliver(e)
  BY <1>1, DeliverStruct DEF Final
<1>2. ASSUME NEW x \in Retry, RetryEnqueue(x)
      PROVE  Final
  <2>1. \/ ledger' = ledger
        \/ /\ ledger' = [ledger EXCEPT ![x.event] = Deferred(ledger[x.event])]
           /\ ledger[x.event].state = "received"
    BY <1>2 DEF RetryEnqueue, DeferUnclaimed, Update
  <2> QED
    BY <2>1, RewritesFinal DEF Rewrites, Terminal
<1>3. ASSUME NEW r \in Rooms, Begin(r)
      PROVE  Final
  <2>1. CASE ledger' = ledger
    BY <2>1 DEF Final
  <2>2. ASSUME NEW e \in DOMAIN ledger, Claimable(ledger[e]),
               ledger' = [ledger EXCEPT ![e] = Claimed(ledger[e])]
        PROVE  Final
    BY <2>2, RewritesFinal DEF Rewrites, Claimable, Terminal
  <2> QED
    BY <1>3, <2>1, <2>2, BeginClaims
<1>4. ASSUME NEW r \in Rooms, NEW t \in turns[r],
             Act(r, t) \/ Reply(r, t) \/ Complete(r, t) \/ Fail(r, t)
      PROVE  Final
  <2>1. \/ ledger' = ledger
        \/ /\ \/ ledger' = [ledger EXCEPT ![t.event] = Completed(ledger[t.event])]
              \/ ledger' = [ledger EXCEPT ![t.event] = Failed(ledger[t.event])]
           /\ Owned(t.event)
    BY <1>4 DEF Act, Reply, Complete, Fail, Release, Update
  <2> QED
    BY <2>1, RewritesFinal DEF Rewrites, Owned, Terminal
<1>5. CASE RecoverStranded
  BY <1>5, RecoveredType DEF RecoverStranded, Final, Terminal, Struct, TypeOK
<1>6. CASE Crash \/ Restart \/ UNCHANGED vars
  BY <1>6 DEF Crash, Restart, vars, Final
<1>7. CASE Tick
  <2>1. ASSUME NEW row \in Row
        PROVE  [row EXCEPT !.wait = Less(@), !.lease = Less(@),
                           !.age = Older(@, StrandAge)].state = row.state
    BY DEF Row
  <2> QED
    BY <1>7, <2>1 DEF Tick, Final, Struct, TypeOK
<1> QED
  BY <1>1, <1>2, <1>3, <1>4, <1>5, <1>6, <1>7 DEF Next, RunTurn

(* Once an event is completed or dead-lettered it stays that way, whatever *)
(* copies of it are queued or running, and whatever timers and waiting     *)
(* handlers still do (InboxService.ts:126-189, AppRuntime.ts:275-328).     *)
THEOREM OutcomesFinal == Spec => OutcomeIsFinal
<1>1. Struct /\ [Next]_vars => [Final]_vars
  BY NextFinal
<1>2. [Final]_vars => [\A e \in DOMAIN ledger :
         ledger[e].state \in Terminal => ledger'[e].state = ledger[e].state]_vars
  BY DEF Final
<1> QED
  BY <1>1, <1>2, StructInvariant, PTL DEF Spec, OutcomeIsFinal

-----------------------------------------------------------------------------
(* What one event's part of the invariant depends on. *)
SameTurns(e) == \A t : t.event = e => (t \in turns'[RoomOf[e]] <=> t \in turns[RoomOf[e]])

SameOutcome(e) ==
  /\ e \in DOMAIN ledger => e \in DOMAIN ledger'
  /\ (e \in DOMAIN ledger /\ ledger[e].state = "completed")
       <=> (e \in DOMAIN ledger' /\ ledger'[e].state = "completed")
  /\ e \in DOMAIN ledger /\ Running(e) /\ Owned(e) => Owned(e)'

LEMMA RowKept ==
  ASSUME NEW e, Leased(e), Counted(e), ledger'[e] = ledger[e], SameTurns(e),
         epoch' = epoch, alive' = alive, reclaimed'[e] = reclaimed[e]
  PROVE  Leased(e)' /\ Counted(e)'
<1>1. Running(e)' <=> Running(e)
  BY DEF Running, SameTurns
<1>2. Owned(e)' <=> Owned(e)
  BY DEF Owned
<1>3. \A t \in turns'[RoomOf[e]] : t.event = e => t \in turns[RoomOf[e]]
  BY DEF SameTurns
<1>4. Leased(e)'
  BY <1>1, <1>2, <1>3 DEF Leased
<1> QED
  BY <1>4 DEF Counted

LEMMA HistoryKept ==
  ASSUME NEW e \in Events, Tallied(e), Answered(e), SameTurns(e), SameOutcome(e),
         e \in saved' <=> e \in saved, e \in replied' <=> e \in replied,
         ran'[e] = ran[e], cut'[e] = cut[e], reclaimed'[e] = reclaimed[e]
  PROVE  Tallied(e)' /\ Answered(e)'
<1>1. (Running(e)' <=> Running(e)) /\ (Unspent(e)' <=> Unspent(e))
  BY DEF Running, Unspent, SameTurns
<1>2. Chances(e)' = Chances(e)
  BY <1>1 DEF Chances
<1>3. CASE e \in Chat
  BY <1>3 DEF Tallied, Answered, SameOutcome, SameTurns
<1>4. CASE e \notin Chat
  <2>1. Tallied(e)'
    BY <1>1, <1>2, <1>4 DEF Tallied, SameOutcome
  <2>2. \A t \in turns'[RoomOf[e]] : t.event = e => t \in turns[RoomOf[e]]
    BY DEF SameTurns
  <2>3. Answered(e)'
    BY <2>2 DEF Answered, SameOutcome
  <2> QED
    BY <2>1, <2>3
<1> QED
  BY <1>3, <1>4

LEMMA DeliverCore ==
  ASSUME IInv, NEW e \in Events, Deliver(e)
  PROVE  Core'
<1>1. /\ DOMAIN ledger' = DOMAIN ledger \cup {e}
      /\ \A f \in DOMAIN ledger : ledger'[f] = ledger[f]
      /\ e \notin DOMAIN ledger =>
           ledger'[e] = [state |-> "received", wait |-> 0, attempts |-> 0,
                         owner |-> 0, lease |-> 0, age |-> 0]
  BY DeliverStruct DEF IInv
<1>2. UNCHANGED <<saved, turns, alive, epoch, ran, cut, reclaimed, replied>>
  BY DEF Deliver
<1>3. \A f : SameTurns(f)
  BY <1>2 DEF SameTurns
<1>4. \A f \in DOMAIN ledger : Leased(f)' /\ Counted(f)'
  BY <1>1, <1>2, <1>3, RowKept DEF IInv, Core
<1>5. e \notin DOMAIN ledger => Leased(e)' /\ Counted(e)'
  <2> SUFFICES ASSUME e \notin DOMAIN ledger PROVE Leased(e)' /\ Counted(e)'
    OBVIOUS
  <2>1. \A t \in turns'[RoomOf[e]] : t.event # e
    BY <1>2, InboxAssumption DEF IInv, Struct, Known
  <2>2. /\ ledger'[e].state = "received" /\ ledger'[e].attempts = 0
        /\ ledger'[e].owner = 0
    BY <1>1
  <2>3. /\ epoch \in Nat /\ MaxAttempts \in Nat \ {0} /\ epoch' = epoch
        /\ reclaimed[e] \in Nat /\ reclaimed' = reclaimed
    BY <1>2, InboxAssumption DEF IInv, Struct, TypeOK
  <2>4. Leased(e)'
    BY <2>1, <2>2, <2>3 DEF Leased, Owned
  <2>5. Counted(e)'
    <3>1. 0 < MaxAttempts + epoch + reclaimed[e]
      BY <2>3
    <3> QED
      BY <2>2, <2>3, <3>1 DEF Counted, Terminal
  <2> QED
    BY <2>4, <2>5
<1>6. \A f \in Events : SameOutcome(f)
  BY <1>1, <1>2 DEF SameOutcome, Owned
<1>7. \A f \in Events : Tallied(f)' /\ Answered(f)'
  BY <1>2, <1>3, <1>6, HistoryKept DEF IInv, Core
<1> QED
  BY <1>1, <1>4, <1>5, <1>7 DEF Core

(* A row that is not being processed may be deferred, though a turn that   *)
(* lost it still runs.                                                     *)
LEMMA RetryCore ==
  ASSUME IInv, NEW x \in Retry, RetryEnqueue(x)
  PROVE  Core'
<1> DEFINE e == x.event
<1>1. /\ e \in Events /\ e \in DOMAIN ledger /\ ledger[e] \in Row /\ epoch \in Nat
      /\ reclaimed[e] \in Nat
  BY DEF IInv, Struct, TypeOK, Known, RetryEnqueue, Retry
<1>2. UNCHANGED <<saved, turns, alive, epoch, ran, cut, reclaimed, replied>>
  BY DEF RetryEnqueue
<1>3. \A f : SameTurns(f)
  BY <1>2 DEF SameTurns
<1>4. \/ ledger' = ledger
      \/ ledger' = [ledger EXCEPT ![e] = Deferred(ledger[e])] /\ ledger[e].state = "received"
  BY DEF RetryEnqueue, DeferUnclaimed, Update
<1> HIDE DEF e
<1>5. DOMAIN ledger' = DOMAIN ledger /\ \A f \in DOMAIN ledger : f # e => ledger'[f] = ledger[f]
  BY <1>4
<1>6. \A f \in DOMAIN ledger : ledger'[f] = ledger[f] => Leased(f)' /\ Counted(f)'
  BY <1>2, <1>3, RowKept DEF IInv, Core
<1>7. CASE ledger'[e] = Deferred(ledger[e]) /\ ledger[e].state = "received"
  <2>1. /\ ledger'[e].attempts = ledger[e].attempts + 1
        /\ ledger'[e].owner = ledger[e].owner
        /\ ledger'[e].state = IF ledger[e].attempts + 1 >= MaxAttempts
                              THEN "dead_letter" ELSE "failed"
    BY <1>1, <1>7, RowUpdates
  <2>2. Leased(e) /\ Counted(e)
    BY <1>1 DEF IInv, Core
  <2>3. \A t \in turns[RoomOf[e]] : t.event = e => t.time = Lease
    BY <1>7, <2>2 DEF Leased, Owned
  <2>4. ~Owned(e)' /\ ledger'[e].state \in Lost /\ ~Owned(e)
    BY <1>7, <2>1 DEF Owned, Lost
  <2>5. Leased(e)'
    BY <1>2, <2>1, <2>2, <2>3, <2>4 DEF Leased
  <2>6. ledger[e].attempts \in Nat /\ MaxAttempts \in Nat \ {0}
    BY <1>1, InboxAssumption DEF Row
  <2>7. ledger[e].attempts < MaxAttempts + epoch + reclaimed[e]
    BY <1>7, <2>2 DEF Counted
  <2>8. Counted(e)'
    BY <1>1, <1>2, <2>1, <2>6, <2>7 DEF Counted, Terminal
  <2>9. ledger'[e].state # "completed"
    BY <2>1
  <2>10. \A f \in Events : SameOutcome(f)
    BY <1>2, <1>5, <1>7, <2>4, <2>9 DEF SameOutcome, Owned
  <2>11. \A f \in Events : Tallied(f)' /\ Answered(f)'
    BY <1>2, <1>3, <2>10, HistoryKept DEF IInv, Core
  <2> QED
    BY <1>5, <1>6, <2>5, <2>8, <2>11 DEF Core
<1>8. CASE ledger' = ledger
  <2>1. \A f \in Events : SameOutcome(f)
    BY <1>2, <1>8 DEF SameOutcome, Owned
  <2>2. \A f \in Events : Tallied(f)' /\ Answered(f)'
    BY <1>2, <1>3, <2>1, HistoryKept DEF IInv, Core
  <2> QED
    BY <1>6, <1>8, <2>2 DEF Core
<1> QED
  BY <1>1, <1>4, <1>7, <1>8

(* A step of a room's turn concerns one event: of the others it changes    *)
(* neither row nor turn.                                                   *)
LEMMA OthersKept ==
  ASSUME IInv, NEW r \in Rooms, NEW e \in DOMAIN ledger, NEW T,
         \A t \in turns[r] \cup T : t.event = e,
         turns' = [turns EXCEPT ![r] = T],
         NEW row, Rewrites(e, row),
         UNCHANGED <<alive, epoch>>,
         UNCHANGED reclaimed,
         \A f \in Events \ {e} : /\ f \in saved' <=> f \in saved
                                 /\ f \in replied' <=> f \in replied
                                 /\ ran'[f] = ran[f] /\ cut'[f] = cut[f],
         Leased(e)', Counted(e)', Tallied(e)', Answered(e)'
  PROVE  Core'
<1>1. DOMAIN ledger' = DOMAIN ledger /\ \A f \in DOMAIN ledger : f # e => ledger'[f] = ledger[f]
  BY DEF Rewrites
<1>2. ASSUME NEW f, f # e
      PROVE  SameTurns(f)
  BY <1>2 DEF SameTurns, IInv, Struct, TypeOK
<1>3. \A f \in DOMAIN ledger : f # e => Leased(f)' /\ Counted(f)'
  BY <1>1, <1>2, RowKept DEF IInv, Core
<1>4. \A f \in Events : f # e => SameOutcome(f)
  BY <1>1 DEF SameOutcome, Owned
<1>5. \A f \in Events : f # e => Tallied(f)' /\ Answered(f)'
  BY <1>2, <1>4, HistoryKept DEF IInv, Core
<1> QED
  BY <1>1, <1>3, <1>5 DEF Core

LEMMA BeginCore ==
  ASSUME IInv, NEW r \in Rooms, Begin(r)
  PROVE  Core'
<1>1. UNCHANGED <<saved, retrying, alive, epoch, ran, cut, reclaimed, replied>>
  BY DEF Begin
<1>2. CASE ledger' = ledger /\ turns' = turns
  <2>1. \A f \in Events : SameTurns(f) /\ SameOutcome(f)
    BY <1>1, <1>2 DEF SameTurns, SameOutcome, Owned
  <2>2. \A f \in DOMAIN ledger : SameTurns(f)
    BY <1>2 DEF SameTurns
  <2>3. \A f \in DOMAIN ledger : Leased(f)' /\ Counted(f)'
    BY <1>1, <1>2, <2>2, RowKept DEF IInv, Core
  <2>4. \A f \in Events : Tallied(f)' /\ Answered(f)'
    BY <1>1, <2>1, HistoryKept DEF IInv, Core
  <2> QED
    BY <1>2, <2>3, <2>4 DEF Core
<1>3. ASSUME NEW e \in DOMAIN ledger, RoomOf[e] = r, Claimable(ledger[e]),
             alive, turns[r] = {},
             ledger' = [ledger EXCEPT ![e] = Claimed(ledger[e])],
             turns' = [turns EXCEPT ![r] = {[event |-> e, step |-> "claimed", time |-> 0]}]
      PROVE  Core'
  <2> DEFINE u == [event |-> e, step |-> "claimed", time |-> 0]
  <2>1. e \in Events /\ ledger[e] \in Row /\ epoch \in Nat
    BY DEF IInv, Struct, TypeOK
  <2>2. /\ ledger'[e].attempts = ledger[e].attempts + 1
        /\ ledger'[e].owner = epoch /\ ledger'[e].lease = Lease
        /\ ledger'[e].state = "processing"
    BY <1>3, <2>1, RowUpdates
  <2>3. turns'[r] = {u} /\ u.event = e /\ u.step = "claimed" /\ u.time = 0
    BY <1>3 DEF IInv, Struct, TypeOK
  <2> HIDE DEF u
  <2>4. Leased(e) /\ Counted(e) /\ Tallied(e) /\ Answered(e)
    BY <2>1 DEF IInv, Core
  <2>5. ledger[e].attempts < MaxAttempts + epoch + reclaimed[e]
    <3>1. /\ ledger[e].attempts \in Nat /\ ledger[e].owner \in Nat /\ MaxAttempts \in Nat
          /\ reclaimed[e] \in Nat
      BY <2>1, InboxAssumption DEF Row, IInv, Struct, TypeOK
    <3>2. CASE ledger[e].state \in {"received", "failed"}
      BY <2>4, <3>2 DEF Counted
    <3>3. CASE ledger[e].state = "processing"
      <4>1. ledger[e].owner # epoch
        BY <1>3, <2>4, <3>3 DEF Leased, Owned, Running
      <4> QED
        BY <2>1, <2>4, <3>1, <3>3, <4>1 DEF Leased, Counted
    <3> QED
      BY <1>3, <3>2, <3>3 DEF Claimable
  <2>6. Lease \in Nat
    BY InboxAssumption
  <2>7. Owned(e)' /\ Running(e)' /\ Unspent(e)'
    BY <1>1, <1>3, <2>2, <2>3 DEF Owned, Running, Unspent
  <2>8. Leased(e)'
    BY <1>1, <1>3, <2>1, <2>2, <2>3, <2>6, <2>7 DEF Leased
  <2>9. Counted(e)'
    <3>1. ledger[e].attempts \in Nat /\ MaxAttempts \in Nat /\ reclaimed[e] \in Nat
      BY <2>1, InboxAssumption DEF Row, IInv, Struct, TypeOK
    <3> QED
      BY <1>1, <2>1, <2>2, <2>5, <3>1 DEF Counted, Terminal
  <2>10. ledger[e].state # "completed" /\ ~Unspent(e) /\ ~Running(e)
    BY <1>3 DEF Claimable, Unspent, Running
  <2>11. Tallied(e)'
    <3>1. ran[e] \in Nat /\ cut[e] \in Nat /\ reclaimed[e] \in Nat
      BY <2>1 DEF IInv, Struct, TypeOK
    <3>2. CASE e \in Chat
      BY <1>1, <2>4, <3>2 DEF Tallied
    <3>3. CASE e \notin Chat
      <4>1. ran[e] <= cut[e] + reclaimed[e]
        BY <2>4, <2>10, <3>1, <3>3 DEF Tallied, Chances
      <4>2. Chances(e)' = ran[e] + 1 /\ cut'[e] = cut[e] /\ reclaimed'[e] = reclaimed[e]
        BY <1>1, <2>7 DEF Chances
      <4>3. Chances(e)' <= 1 + cut'[e] + reclaimed'[e] /\ e \in DOMAIN ledger'
        BY <1>3, <3>1, <4>1, <4>2
      <4> QED
        BY <2>7, <3>3, <4>3 DEF Tallied
    <3> QED
      BY <3>2, <3>3
  <2>12. Answered(e)'
    BY <1>3, <2>2, <2>3 DEF Answered
  <2>13. \A t \in turns[r] \cup {u} : t.event = e
    BY <1>3, <2>3
  <2>14. turns' = [turns EXCEPT ![r] = {u}] /\ Rewrites(e, Claimed(ledger[e]))
    BY <1>3 DEF Rewrites, u
  <2> QED
    BY <1>1, <2>8, <2>9, <2>11, <2>12, <2>13, <2>14, OthersKept
<1> QED
  BY <1>2, <1>3, BeginClaims DEF IInv

(* What is known of a turn, its event and its row. *)
LEMMA TurnFacts ==
  ASSUME IInv, NEW r \in Rooms, NEW t \in turns[r]
  PROVE  /\ t \in Turn /\ t.event \in Events /\ t.event \in DOMAIN ledger
         /\ RoomOf[t.event] = r /\ turns[r] = {t} /\ alive
         /\ ledger[t.event] \in Row /\ epoch \in Nat
         /\ ran[t.event] \in Nat /\ cut[t.event] \in Nat /\ reclaimed[t.event] \in Nat
         /\ Owned(t.event) \/ ledger[t.event].state \in Lost
         /\ Leased(t.event) /\ Counted(t.event) /\ Tallied(t.event) /\ Answered(t.event)
<1>1. /\ t \in Turn /\ t.event \in Events /\ t.event \in DOMAIN ledger
      /\ RoomOf[t.event] = r /\ turns[r] = {t} /\ alive
      /\ ledger[t.event] \in Row /\ epoch \in Nat
  BY DEF IInv, Struct, TypeOK, Known, Turn
<1>2. ran[t.event] \in Nat /\ cut[t.event] \in Nat /\ reclaimed[t.event] \in Nat
  BY <1>1 DEF IInv, Struct, TypeOK
<1>3. Leased(t.event) /\ Counted(t.event) /\ Tallied(t.event) /\ Answered(t.event)
  BY <1>1 DEF IInv, Core
<1>4. Owned(t.event) \/ ledger[t.event].state \in Lost
  BY <1>1, <1>3 DEF Leased
<1> QED
  BY <1>1, <1>2, <1>3, <1>4

(* A turn ends: the row that is still its own is completed or failed, one  *)
(* that it lost is left alone.                                             *)
LEMMA EndedRow ==
  ASSUME IInv, NEW r \in Rooms, NEW t \in turns[r], NEW row \in Row,
         ledger' = IF Owned(t.event) THEN [ledger EXCEPT ![t.event] = row] ELSE ledger,
         turns' = [turns EXCEPT ![r] = {}], epoch' = epoch, reclaimed' = reclaimed,
         row.owner = 0, row.attempts = ledger[t.event].attempts,
         row.state \in Terminal \/ (row.state = "failed" /\ row.attempts < MaxAttempts)
  PROVE  /\ Leased(t.event)' /\ Counted(t.event)' /\ Rewrites(t.event, row)
         /\ turns'[r] = {}
         /\ \/ ledger'[t.event] = row
            \/ ledger' = ledger /\ ledger[t.event].state \in Lost
<1> DEFINE e == t.event
<1>1. /\ e \in DOMAIN ledger /\ RoomOf[e] = r /\ epoch \in Nat /\ ledger[e] \in Row
      /\ reclaimed[e] \in Nat /\ (Owned(e) \/ ledger[e].state \in Lost)
      /\ Leased(e) /\ Counted(e)
  BY TurnFacts
<1> HIDE DEF e
<1>2. turns'[r] = {}
  BY DEF IInv, Struct, TypeOK
<1>3. CASE Owned(e)
  <2>1. ledger' = [ledger EXCEPT ![e] = row]
    BY <1>3 DEF e
  <2>2. ledger'[e] = row /\ Rewrites(e, row)
    BY <1>1, <2>1 DEF IInv, Struct, TypeOK, Rewrites
  <2>3. ~Owned(e)'
    BY <2>2 DEF Owned, Terminal
  <2>4. Leased(e)'
    BY <1>1, <1>2, <2>2, <2>3 DEF Leased
  <2>5. row.attempts \in Nat /\ MaxAttempts \in Nat
    BY InboxAssumption DEF Row
  <2>6. row.attempts <= MaxAttempts + epoch + reclaimed[e]
    <3>1. ledger[e].owner = epoch /\ ledger[e].state = "processing"
      BY <1>3 DEF Owned
    <3> QED
      BY <1>1, <3>1 DEF Counted, e
  <2>7. Counted(e)'
    BY <1>1, <2>2, <2>5, <2>6 DEF Counted, Terminal, e
  <2> QED
    BY <1>2, <2>2, <2>4, <2>7 DEF e
<1>4. CASE ~Owned(e)
  <2>1. ledger' = ledger /\ ledger[e].state \in Lost
    BY <1>1, <1>4 DEF e
  <2>2. ~Owned(e)' /\ Rewrites(e, row)
    BY <1>4, <2>1 DEF Owned, Rewrites
  <2>3. Leased(e)'
    BY <1>1, <1>2, <2>1, <2>2 DEF Leased
  <2>4. Counted(e)'
    BY <1>1, <2>1 DEF Counted
  <2> QED
    BY <1>2, <2>1, <2>2, <2>3, <2>4 DEF e
<1> QED
  BY <1>3, <1>4

LEMMA ActCore ==
  ASSUME IInv, NEW r \in Rooms, NEW t \in turns[r], Act(r, t)
  PROVE  Core'
<1> DEFINE e == t.event
<1>1. /\ t \in Turn /\ e \in Events /\ e \in DOMAIN ledger /\ RoomOf[e] = r
      /\ turns[r] = {t} /\ alive /\ ledger[e] \in Row /\ epoch \in Nat
      /\ ran[e] \in Nat /\ cut[e] \in Nat /\ reclaimed[e] \in Nat
      /\ Leased(e) /\ Counted(e) /\ Tallied(e) /\ Answered(e)
  BY TurnFacts
<1>2. UNCHANGED <<waiting, retrying, alive, epoch, cut, reclaimed, replied>> /\ t.step = "claimed"
  BY DEF Act
<1>3. ran \in [Events -> Nat] /\ cut \in [Events -> Nat]
  BY DEF IInv, Struct, TypeOK
<1>4. CASE e \in Chat \cap saved
  <2> DEFINE row == Completed(ledger[e])
  <2>1. /\ row \in Row /\ row.owner = 0 /\ row.attempts = ledger[e].attempts
        /\ row.state = "completed"
    BY <1>1, RowUpdates
  <2> HIDE DEF row
  <2>2. /\ turns' = [turns EXCEPT ![r] = {}]
        /\ ledger' = IF Owned(e) THEN [ledger EXCEPT ![e] = row] ELSE ledger
        /\ saved' = saved /\ ran' = ran
    BY <1>1, <1>4 DEF Act, EndTurn, Release, Update, row
  <2>3. Leased(e)' /\ Counted(e)' /\ Rewrites(e, row) /\ turns'[r] = {}
    BY <1>2, <2>1, <2>2, EndedRow DEF Terminal
  <2>4. Tallied(e)'
    BY <1>1, <1>4, <2>2 DEF Tallied
  <2>5. Answered(e)'
    BY <1>1, <1>4, <2>3 DEF Answered
  <2> HIDE DEF e
  <2> QED
    BY <1>1, <1>2, <2>2, <2>3, <2>4, <2>5, OthersKept DEF e
<1>5. CASE e \notin Chat \cap saved
  <2> DEFINE u == [t EXCEPT !.step = "acted"]
  <2>1. u.event = e /\ u.step = "acted" /\ u.time = t.time
    BY <1>1 DEF Turn
  <2> HIDE DEF u
  <2>2. /\ turns' = [turns EXCEPT ![r] = {u}] /\ saved' = saved \cup ({e} \cap Chat)
        /\ ran' = [ran EXCEPT ![e] = @ + 1] /\ ledger' = ledger
    BY <1>5 DEF Act, u
  <2>3. turns'[r] = {u} /\ ran'[e] = ran[e] + 1
    BY <1>1, <1>3, <2>2 DEF IInv, Struct, TypeOK
  <2>4. /\ (Owned(e)' <=> Owned(e)) /\ Running(e)' /\ Running(e)
        /\ Unspent(e) /\ ~Unspent(e)'
    BY <1>1, <1>2, <2>1, <2>2, <2>3 DEF Owned, Running, Unspent
  <2>5. Leased(e)'
    BY <1>1, <1>2, <2>1, <2>2, <2>3, <2>4 DEF Leased
  <2>6. Counted(e)'
    BY <1>1, <1>2, <2>2 DEF Counted
  <2>7. Tallied(e)'
    <3>1. CASE e \in Chat
      <4>1. e \notin saved /\ e \in saved'
        BY <1>5, <2>2, <3>1
      <4>2. ran'[e] <= 1
        BY <1>1, <2>3, <3>1, <4>1 DEF Tallied
      <4> QED
        BY <3>1, <4>1, <4>2 DEF Tallied
    <3>2. CASE e \notin Chat
      <4>1. Chances(e)' = Chances(e)
        BY <1>1, <2>3, <2>4 DEF Chances
      <4>2. cut'[e] = cut[e] /\ reclaimed'[e] = reclaimed[e] /\ ledger' = ledger
        BY <1>2, <2>2
      <4> QED
        BY <1>1, <2>4, <3>2, <4>1, <4>2 DEF Tallied
    <3> QED
      BY <3>1, <3>2
  <2>8. Answered(e)'
    BY <1>1, <1>2, <2>1, <2>2, <2>3 DEF Answered
  <2>9. \A v \in turns[r] \cup {u} : v.event = e
    BY <1>1, <2>1
  <2>10. Rewrites(e, ledger[e])
    BY <2>2 DEF Rewrites
  <2>11. /\ \A f \in Events \ {e} : f \in saved' <=> f \in saved
         /\ \A f \in Events \ {e} : ran'[f] = ran[f]
    BY <1>3, <2>2
  <2> HIDE DEF e
  <2> QED
    BY <1>1, <1>2, <2>2, <2>5, <2>6, <2>7, <2>8, <2>9, <2>10, <2>11, OthersKept
<1> QED
  BY <1>4, <1>5

LEMMA ReplyCore ==
  ASSUME IInv, NEW r \in Rooms, NEW t \in turns[r], Reply(r, t)
  PROVE  Core'
<1> DEFINE e == t.event
           u == [t EXCEPT !.step = "replied"]
<1>1. /\ t \in Turn /\ e \in Events /\ e \in DOMAIN ledger /\ RoomOf[e] = r
      /\ turns[r] = {t} /\ alive /\ ran[e] \in Nat
      /\ Leased(e) /\ Counted(e) /\ Tallied(e) /\ Answered(e)
  BY TurnFacts
<1>2. UNCHANGED <<ledger, saved, waiting, retrying, alive, epoch, ran, cut, reclaimed>>
      /\ t.step = "acted"
  BY DEF Reply
<1>3. u.event = e /\ u.step = "replied" /\ u.time = t.time
  BY <1>1 DEF Turn
<1> HIDE DEF u
<1>4. turns' = [turns EXCEPT ![r] = {u}] /\ replied' = replied \cup {e}
  BY DEF Reply, u
<1>5. turns'[r] = {u} /\ e \in replied'
  BY <1>1, <1>4 DEF IInv, Struct, TypeOK
<1>6. /\ (Owned(e)' <=> Owned(e)) /\ Running(e)' /\ Running(e)
      /\ ~Unspent(e) /\ ~Unspent(e)'
  BY <1>1, <1>2, <1>3, <1>5 DEF Owned, Running, Unspent
<1>7. Leased(e)'
  BY <1>1, <1>2, <1>3, <1>5, <1>6 DEF Leased
<1>8. Counted(e)'
  BY <1>1, <1>2 DEF Counted
<1>9. Tallied(e)'
  <2>1. Chances(e)' = Chances(e)
    BY <1>2, <1>6 DEF Chances
  <2> QED
    BY <1>1, <1>2, <1>6, <2>1 DEF Tallied
<1>10. Answered(e)'
  BY <1>5 DEF Answered
<1>11. \A v \in turns[r] \cup {u} : v.event = e
  BY <1>1, <1>3
<1>12. Rewrites(e, ledger[e])
  BY <1>2 DEF Rewrites
<1>13. \A f \in Events \ {e} : f \in replied' <=> f \in replied
  BY <1>4
<1> HIDE DEF e
<1> QED
  BY <1>1, <1>2, <1>4, <1>7, <1>8, <1>9, <1>10, <1>11, <1>12, <1>13, OthersKept

LEMMA CompleteCore ==
  ASSUME IInv, NEW r \in Rooms, NEW t \in turns[r], Complete(r, t)
  PROVE  Core'
<1> DEFINE e == t.event
           row == Completed(ledger[e])
<1>1. /\ e \in Events /\ e \in DOMAIN ledger /\ RoomOf[e] = r /\ turns[r] = {t}
      /\ ledger[e] \in Row /\ epoch \in Nat /\ Tallied(e) /\ Answered(e)
      /\ ran[e] \in Nat /\ cut[e] \in Nat /\ reclaimed[e] \in Nat
  BY TurnFacts
<1>2. UNCHANGED <<saved, waiting, retrying, alive, epoch, ran, cut, reclaimed, replied>>
      /\ t.step = "replied"
  BY DEF Complete
<1>3. /\ row \in Row /\ row.owner = 0 /\ row.attempts = ledger[e].attempts
      /\ row.state = "completed"
  BY <1>1, RowUpdates
<1> HIDE DEF row
<1>4. /\ turns' = [turns EXCEPT ![r] = {}]
      /\ ledger' = IF Owned(e) THEN [ledger EXCEPT ![e] = row] ELSE ledger
  BY <1>1 DEF Complete, EndTurn, Release, Update, row
<1>5. /\ Leased(e)' /\ Counted(e)' /\ Rewrites(e, row) /\ turns'[r] = {}
      /\ \/ ledger'[e] = row
         \/ ledger' = ledger /\ ledger[e].state \in Lost
  BY <1>2, <1>3, <1>4, EndedRow DEF Terminal
<1>6. e \in DOMAIN ledger'
  BY <1>1, <1>5 DEF Rewrites
<1>7. Tallied(e)'
  <2>1. CASE e \in Chat
    BY <1>1, <1>2, <2>1 DEF Tallied
  <2>2. CASE e \notin Chat
    <3>1. ~Unspent(e) /\ ~Unspent(e)'
      BY <1>1, <1>2, <1>5 DEF Unspent
    <3>2. Chances(e)' = Chances(e) /\ Chances(e) \in Nat
      BY <1>1, <1>2, <3>1 DEF Chances
    <3>3. CASE ledger'[e] = row
      BY <1>1, <1>2, <1>3, <1>6, <2>2, <3>2, <3>3 DEF Tallied
    <3>4. CASE ledger' = ledger /\ ledger[e].state \in Lost
      <4>1. ~Owned(e) /\ ledger[e].state # "completed"
        BY <3>4 DEF Lost, Owned
      <4>2. Chances(e) <= cut[e] + reclaimed[e]
        BY <1>1, <2>2, <3>2, <4>1 DEF Tallied
      <4> QED
        BY <1>1, <1>2, <2>2, <3>2, <4>2 DEF Tallied
    <3> QED
      BY <1>5, <3>3, <3>4
  <2> QED
    BY <2>1, <2>2
<1>8. Answered(e)'
  BY <1>1, <1>2, <1>5 DEF Answered
<1> HIDE DEF e
<1> QED
  BY <1>1, <1>2, <1>4, <1>5, <1>7, <1>8, OthersKept DEF e

LEMMA FailCore ==
  ASSUME IInv, NEW r \in Rooms, NEW t \in turns[r], Fail(r, t)
  PROVE  Core'
<1> DEFINE e == t.event
           row == Failed(ledger[e])
<1>1. /\ e \in Events /\ e \in DOMAIN ledger /\ RoomOf[e] = r /\ turns[r] = {t}
      /\ ledger[e] \in Row /\ epoch \in Nat /\ Tallied(e) /\ Answered(e)
      /\ ran[e] \in Nat /\ cut[e] \in Nat /\ reclaimed[e] \in Nat
  BY TurnFacts
<1>2. UNCHANGED <<saved, waiting, retrying, alive, epoch, ran, reclaimed, replied>>
      /\ cut' = [cut EXCEPT ![e] = @ + 1]
  BY DEF Fail
<1>3. /\ row \in Row /\ row.owner = 0 /\ row.attempts = ledger[e].attempts
      /\ row.state = IF row.attempts >= MaxAttempts THEN "dead_letter" ELSE "failed"
  BY <1>1, RowUpdates
<1> HIDE DEF row
<1>4. /\ turns' = [turns EXCEPT ![r] = {}]
      /\ ledger' = IF Owned(e) THEN [ledger EXCEPT ![e] = row] ELSE ledger
  BY <1>1 DEF Fail, EndTurn, Release, Update, row
<1>5. row.state \in Terminal \/ (row.state = "failed" /\ row.attempts < MaxAttempts)
  BY <1>3, InboxAssumption DEF Row, Terminal
<1>6. /\ Leased(e)' /\ Counted(e)' /\ Rewrites(e, row) /\ turns'[r] = {}
      /\ \/ ledger'[e] = row
         \/ ledger' = ledger /\ ledger[e].state \in Lost
  BY <1>2, <1>3, <1>4, <1>5, EndedRow
<1>7. cut'[e] = cut[e] + 1 /\ \A f \in Events \ {e} : cut'[f] = cut[f]
  BY <1>1, <1>2 DEF IInv, Struct, TypeOK
<1>8. Tallied(e)'
  <2>1. CASE e \in Chat
    BY <1>1, <1>2, <2>1 DEF Tallied
  <2>2. CASE e \notin Chat
    <3>1. ~Unspent(e)'
      BY <1>1, <1>6 DEF Unspent
    <3>2. Chances(e)' = ran[e] /\ ran[e] <= Chances(e) /\ Chances(e) \in Nat
      BY <1>1, <1>2, <3>1 DEF Chances
    <3>3. Chances(e)' <= cut'[e] + reclaimed'[e]
      BY <1>1, <1>2, <1>7, <2>2, <3>2 DEF Tallied
    <3>4. cut'[e] \in Nat /\ reclaimed'[e] \in Nat /\ Chances(e)' \in Nat
      BY <1>1, <1>2, <1>7, <3>2
    <3> QED
      BY <2>2, <3>3, <3>4 DEF Tallied
  <2> QED
    BY <2>1, <2>2
<1>9. Answered(e)'
  BY <1>1, <1>2, <1>3, <1>6 DEF Answered
<1> HIDE DEF e
<1> QED
  BY <1>1, <1>2, <1>4, <1>6, <1>7, <1>8, <1>9, OthersKept DEF e

(* The timer takes the row of a running turn only when the turn's lease is *)
(* over, and counts it.                                                    *)
LEMMA RecoverCore ==
  ASSUME IInv, RecoverStranded
  PROVE  Core'
<1>1. UNCHANGED <<saved, waiting, turns, retrying, alive, epoch, ran, cut, replied>> /\ alive
  BY DEF RecoverStranded
<1>2. DOMAIN ledger' = DOMAIN ledger /\ DOMAIN ledger \subseteq Events
  BY DEF RecoverStranded, IInv, Struct, TypeOK
<1>3. \A f : SameTurns(f)
  BY <1>1 DEF SameTurns
<1>4. \A f \in Events : reclaimed'[f] = IF f \in DOMAIN ledger /\ Overrun(f)
                                        THEN reclaimed[f] + 1 ELSE reclaimed[f]
  BY DEF RecoverStranded
<1>5. ASSUME NEW e \in DOMAIN ledger, Stranded(ledger[e])
      PROVE  /\ Leased(e)' /\ Counted(e)' /\ ledger'[e].state # "completed"
             /\ ledger[e].state # "completed" /\ (Running(e) /\ Owned(e) => Overrun(e))
  <2> DEFINE row == Recovered(ledger[e])
  <2>1. /\ e \in Events /\ ledger[e] \in Row /\ epoch \in Nat /\ RoomOf[e] \in Rooms
        /\ reclaimed[e] \in Nat
    BY InboxAssumption DEF IInv, Struct, TypeOK
  <2>2. /\ row \in Row /\ row.attempts = ledger[e].attempts /\ row.owner <= ledger[e].owner
        /\ ledger[e].state \in {"received", "processing"}
        /\ row.state = IF ledger[e].state = "received" THEN "failed" ELSE "received"
    BY <1>5, <2>1, RecoveredType
  <2> HIDE DEF row
  <2>3. ledger'[e] = row
    BY <1>5 DEF RecoverStranded, row
  <2>4. Leased(e) /\ Counted(e)
    BY DEF IInv, Core
  <2>5. ~Owned(e)' /\ ledger'[e].state \in Lost
    BY <2>2, <2>3 DEF Owned, Lost
  <2>6. \A t \in turns[RoomOf[e]] : t.event = e => t.time = Lease
    <3> SUFFICES ASSUME NEW t \in turns[RoomOf[e]], t.event = e, Owned(e),
                        ledger[e].lease >= Lease - t.time
                 PROVE  t.time = Lease
      BY <2>4 DEF Leased
    <3>1. t.time \in 0..Lease /\ Lease \in Nat
      BY <2>1, InboxAssumption DEF IInv, Struct, TypeOK, Turn
    <3>2. ledger[e].lease = 0
      BY <1>5 DEF Stranded, Owned
    <3> QED
      BY <3>1, <3>2
  <2>7. /\ ledger[e].owner \in Nat /\ row.owner \in Nat /\ ledger[e].attempts \in Nat
        /\ MaxAttempts \in Nat
    BY <2>1, <2>2, InboxAssumption DEF Row
  <2>8. Leased(e)'
    BY <1>1, <2>1, <2>2, <2>3, <2>4, <2>5, <2>6, <2>7 DEF Leased
  <2>9. Running(e) /\ Owned(e) => Overrun(e)
    BY <1>5 DEF Stranded, Owned, Overrun
  <2>10. ledger[e].attempts < MaxAttempts + epoch + reclaimed'[e]
    <3>1. reclaimed'[e] = IF Overrun(e) THEN reclaimed[e] + 1 ELSE reclaimed[e]
      BY <1>4, <2>1
    <3>2. CASE ledger[e].state = "received"
      <4>1. ~Overrun(e)
        BY <3>2 DEF Overrun
      <4> QED
        BY <2>4, <3>1, <3>2, <4>1 DEF Counted
    <3>3. CASE ledger[e].state = "processing" /\ Overrun(e)
      <4>1. ledger[e].owner <= epoch /\ ledger[e].attempts <= MaxAttempts + ledger[e].owner + reclaimed[e]
        BY <2>4, <3>3 DEF Leased, Counted
      <4> QED
        BY <2>1, <2>7, <3>1, <3>3, <4>1
    <3>4. CASE ledger[e].state = "processing" /\ ~Overrun(e)
      <4>1. ~Owned(e)
        BY <1>1, <2>4, <2>9, <3>4 DEF Leased
      <4>2. ledger[e].owner < epoch
        BY <2>1, <2>4, <2>7, <3>4, <4>1 DEF Leased, Owned
      <4>3. ledger[e].attempts <= MaxAttempts + ledger[e].owner + reclaimed[e]
        BY <2>4, <3>4 DEF Counted
      <4> QED
        BY <2>1, <2>7, <3>1, <3>4, <4>2, <4>3
    <3> QED
      BY <2>2, <3>2, <3>3, <3>4
  <2>11. Counted(e)'
    BY <1>1, <2>2, <2>3, <2>10 DEF Counted, Terminal
  <2> QED
    BY <2>2, <2>3, <2>8, <2>9, <2>11
<1>6. \A e \in DOMAIN ledger : ~Stranded(ledger[e]) => ledger'[e] = ledger[e] /\ ~Overrun(e)
  BY DEF RecoverStranded, Stranded, Overrun
<1>7. \A e \in DOMAIN ledger : ~Stranded(ledger[e]) => Leased(e)' /\ Counted(e)'
  BY <1>1, <1>2, <1>3, <1>4, <1>6, RowKept DEF IInv, Core
<1>8. ASSUME NEW e \in Events
      PROVE  Tallied(e)' /\ Answered(e)'
  <2>1. Tallied(e) /\ Answered(e)
    BY DEF IInv, Core
  <2>2. CASE ~(e \in DOMAIN ledger /\ Overrun(e))
    <3>1. reclaimed'[e] = reclaimed[e]
      BY <1>4, <2>2
    <3>2. SameOutcome(e)
      <4>1. CASE e \in DOMAIN ledger /\ Stranded(ledger[e])
        BY <1>2, <1>5, <2>2, <4>1 DEF SameOutcome
      <4>2. CASE e \in DOMAIN ledger /\ ~Stranded(ledger[e])
        BY <1>1, <1>2, <1>6, <4>2 DEF SameOutcome, Owned
      <4>3. CASE e \notin DOMAIN ledger
        BY <1>2, <4>3 DEF SameOutcome
      <4> QED
        BY <4>1, <4>2, <4>3
    <3> QED
      BY <1>1, <1>3, <2>1, <3>1, <3>2, HistoryKept
  <2>3. CASE e \in DOMAIN ledger /\ Overrun(e)
    <3>1. reclaimed'[e] = reclaimed[e] + 1
      BY <1>4, <2>3
    <3>2. Stranded(ledger[e])
      BY <2>3 DEF Overrun, Stranded
    <3>3. ledger'[e].state # "completed"
      BY <1>5, <2>3, <3>2
    <3>4. /\ ran[e] \in Nat /\ cut[e] \in Nat /\ reclaimed[e] \in Nat
          /\ UNCHANGED <<ran, cut, turns, replied, saved>>
      BY <1>1 DEF IInv, Struct, TypeOK
    <3>5. Answered(e)'
      BY <1>2, <2>1, <3>3, <3>4 DEF Answered
    <3>6. Tallied(e)'
      <4>1. CASE e \in Chat
        BY <2>1, <3>4, <4>1 DEF Tallied
      <4>2. CASE e \notin Chat
        <5>1. Chances(e)' = Chances(e) /\ Chances(e) \in Nat
          BY <3>4 DEF Chances, Unspent
        <5>2. Chances(e)' <= cut'[e] + reclaimed'[e]
          BY <2>1, <3>1, <3>4, <4>2, <5>1 DEF Tallied
        <5>3. cut'[e] \in Nat /\ reclaimed'[e] \in Nat /\ Chances(e)' \in Nat
          BY <3>1, <3>4, <5>1
        <5> QED
          BY <4>2, <5>2, <5>3 DEF Tallied
      <4> QED
        BY <4>1, <4>2
    <3> QED
      BY <3>5, <3>6
  <2> QED
    BY <2>2, <2>3
<1> QED
  BY <1>2, <1>5, <1>7, <1>8 DEF Core

LEMMA CrashCore ==
  ASSUME IInv, Crash
  PROVE  Core'
<1>1. /\ turns' = [r \in Rooms |-> {}] /\ alive' = FALSE
      /\ UNCHANGED <<ledger, saved, epoch, ran, reclaimed, replied>>
      /\ cut' = [e \in Events |->
                   cut[e] + Cardinality({t \in turns[RoomOf[e]] : t.event = e})]
  BY DEF Crash
<1>2. \A e \in Events : turns'[RoomOf[e]] = {}
  BY <1>1, InboxAssumption
<1>3. \A e \in DOMAIN ledger : Leased(e)' /\ Counted(e)'
  <2> SUFFICES ASSUME NEW e \in DOMAIN ledger PROVE Leased(e)' /\ Counted(e)'
    OBVIOUS
  <2>1. Leased(e) /\ Counted(e) /\ turns'[RoomOf[e]] = {}
    BY <1>2 DEF IInv, Struct, TypeOK, Core
  <2> QED
    BY <1>1, <2>1 DEF Leased, Counted
<1>4. ASSUME NEW e \in Events
      PROVE  Tallied(e)' /\ Answered(e)'
  <2> DEFINE n == Cardinality({t \in turns[RoomOf[e]] : t.event = e})
  <2>1. n \in Nat /\ (Running(e) => n = 1)
    BY OneTurnLost DEF IInv
  <2>2. /\ cut'[e] = cut[e] + n /\ cut[e] \in Nat /\ ran[e] \in Nat /\ reclaimed[e] \in Nat
    BY <1>1 DEF IInv, Struct, TypeOK
  <2> HIDE DEF n
  <2>3. Tallied(e) /\ Answered(e)
    BY DEF IInv, Core
  <2>4. Tallied(e)'
    <3>1. CASE e \in Chat
      BY <1>1, <2>3, <3>1 DEF Tallied
    <3>2. CASE e \notin Chat
      <4>1. ~Unspent(e)'
        BY <1>2 DEF Unspent
      <4>2. /\ Chances(e)' = ran[e] /\ ran[e] <= Chances(e) /\ Chances(e) \in Nat
            /\ reclaimed'[e] = reclaimed[e] /\ cut'[e] \in Nat
        BY <1>1, <2>1, <2>2, <4>1 DEF Chances
      <4>3. Chances(e)' <= 1 + cut'[e] + reclaimed'[e]
        BY <2>1, <2>2, <2>3, <3>2, <4>2 DEF Tallied
      <4>4. Chances(e)' > cut'[e] + reclaimed'[e] =>
              e \in DOMAIN ledger /\ ledger[e].state = "completed"
        BY <2>1, <2>2, <2>3, <3>2, <4>2 DEF Tallied
      <4> QED
        BY <1>1, <3>2, <4>3, <4>4 DEF Tallied
    <3> QED
      BY <3>1, <3>2
  <2>5. Answered(e)'
    BY <1>1, <1>2, <2>3 DEF Answered
  <2> QED
    BY <2>4, <2>5
<1> QED
  BY <1>1, <1>3, <1>4 DEF Core

LEMMA RestartCore ==
  ASSUME IInv, Restart
  PROVE  Core'
<1>1. /\ epoch' = epoch + 1
      /\ UNCHANGED <<ledger, saved, waiting, turns, retrying, ran, cut, reclaimed, replied>>
  BY DEF Restart
<1>2. \A e \in Events : turns[RoomOf[e]] = {}
  BY InboxAssumption DEF Restart, IInv, Struct, Known
<1>3. ASSUME NEW e \in DOMAIN ledger
      PROVE  Leased(e)' /\ Counted(e)'
  <2>1. /\ e \in Events /\ epoch \in Nat /\ ledger[e].owner \in Nat
        /\ ledger[e].attempts \in Nat /\ MaxAttempts \in Nat /\ reclaimed[e] \in Nat
    BY InboxAssumption DEF IInv, Struct, TypeOK, Row
  <2>2. Leased(e) /\ Counted(e) /\ turns'[RoomOf[e]] = {}
    BY <1>1, <1>2, <2>1 DEF IInv, Core
  <2>3. ~Owned(e)'
    BY <1>1, <2>1, <2>2 DEF Leased, Owned
  <2>4. Leased(e)'
    BY <1>1, <2>1, <2>2, <2>3 DEF Leased
  <2>5. Counted(e)'
    BY <1>1, <2>1, <2>2 DEF Counted
  <2> QED
    BY <2>4, <2>5
<1>4. \A e \in Events : SameTurns(e) /\ SameOutcome(e)
  BY <1>1, <1>2 DEF SameTurns, SameOutcome, Running
<1>5. \A e \in Events : Tallied(e)' /\ Answered(e)'
  BY <1>1, <1>4, HistoryKept DEF IInv, Core
<1> QED
  BY <1>1, <1>3, <1>5 DEF Core

LEMMA TickCore ==
  ASSUME IInv, Tick
  PROVE  Core'
<1>1. /\ UNCHANGED <<saved, retrying, alive, epoch, ran, cut, reclaimed, replied>>
      /\ DOMAIN ledger' = DOMAIN ledger
  BY DEF Tick
<1>2. ASSUME NEW e \in DOMAIN ledger
      PROVE  /\ ledger'[e].state = ledger[e].state /\ ledger'[e].owner = ledger[e].owner
             /\ ledger'[e].attempts = ledger[e].attempts
             /\ ledger'[e].lease = Less(ledger[e].lease)
  <2>1. ledger[e] \in Row
    BY DEF IInv, Struct, TypeOK
  <2> QED
    BY <2>1 DEF Tick, Row
<1>3. ASSUME NEW e \in Events, NEW u \in turns'[RoomOf[e]], u.event = e
      PROVE  \E t \in turns[RoomOf[e]] :
               /\ t \in Turn /\ t.event = e /\ u.step = t.step
               /\ u.time = Older(t.time, Lease - 1)
  <2>1. RoomOf[e] \in Rooms
    BY InboxAssumption
  <2>2. PICK t \in turns[RoomOf[e]] : u = [t EXCEPT !.time = Older(@, Lease - 1)]
    BY <2>1 DEF Tick
  <2>3. t \in Turn
    BY <2>1 DEF IInv, Struct, TypeOK
  <2> QED
    BY <1>3, <2>2, <2>3 DEF Turn
<1>4. ASSUME NEW e \in Events, NEW t \in turns[RoomOf[e]], t.event = e
      PROVE  \E u \in turns'[RoomOf[e]] : u.event = e /\ u.step = t.step
  <2>1. RoomOf[e] \in Rooms
    BY InboxAssumption
  <2>2. t \in Turn
    BY <2>1 DEF IInv, Struct, TypeOK
  <2>3. [t EXCEPT !.time = Older(@, Lease - 1)] \in turns'[RoomOf[e]]
    BY <2>1 DEF Tick
  <2>4. /\ [t EXCEPT !.time = Older(@, Lease - 1)].event = e
        /\ [t EXCEPT !.time = Older(@, Lease - 1)].step = t.step
    BY <1>4, <2>2 DEF Turn
  <2> QED
    BY <2>3, <2>4
<1>5. \A e \in Events : (Running(e)' <=> Running(e)) /\ (Unspent(e)' <=> Unspent(e))
  BY <1>3, <1>4 DEF Running, Unspent
<1>6. ASSUME NEW e \in DOMAIN ledger
      PROVE  Leased(e)' /\ Counted(e)'
  <2>1. e \in Events /\ ledger[e].lease \in 0..Lease /\ Lease \in Nat
    BY InboxAssumption DEF IInv, Struct, TypeOK, Row
  <2>2. Leased(e) /\ Counted(e)
    BY DEF IInv, Core
  <2>3. Owned(e)' <=> Owned(e)
    BY <1>1, <1>2 DEF Owned
  <2>4. Less(ledger[e].lease) >= ledger[e].lease - 1 /\ Less(ledger[e].lease) \in 0..Lease
    BY <2>1, LessType
  <2>5. ASSUME NEW u \in turns'[RoomOf[e]], u.event = e
        PROVE  \/ Owned(e)' /\ ledger'[e].lease >= Lease - u.time
               \/ u.time = Lease /\ ledger'[e].state \in Lost
    <3>1. PICK t \in turns[RoomOf[e]] :
            t \in Turn /\ t.event = e /\ u.time = Older(t.time, Lease - 1)
      BY <1>3, <2>1, <2>5
    <3>2. t.time \in 0..Lease
      BY <3>1 DEF Turn
    <3>3. /\ t.time = Lease => u.time = Lease
          /\ t.time < Lease => u.time = t.time + 1
      BY <2>1, <3>1, <3>2 DEF Older
    <3>4. CASE t.time = Lease /\ ledger[e].state \in Lost
      BY <1>2, <3>3, <3>4
    <3>5. CASE Owned(e) /\ ledger[e].lease >= Lease - t.time
      <4>1. Less(ledger[e].lease) >= Lease - u.time
        BY <2>1, <2>4, <3>2, <3>3, <3>5
      <4> QED
        BY <1>2, <2>3, <3>5, <4>1
    <3> QED
      BY <2>2, <3>1, <3>4, <3>5 DEF Leased
  <2>6. Leased(e)'
    BY <1>1, <1>2, <1>5, <2>1, <2>2, <2>3, <2>5 DEF Leased
  <2>7. Counted(e)'
    BY <1>1, <1>2, <2>2 DEF Counted
  <2> QED
    BY <2>6, <2>7
<1>7. ASSUME NEW e \in Events
      PROVE  Tallied(e)' /\ Answered(e)'
  <2>1. Tallied(e) /\ Answered(e)
    BY DEF IInv, Core
  <2>2. Chances(e)' = Chances(e)
    BY <1>1, <1>5 DEF Chances
  <2>3. Tallied(e)'
    <3>1. CASE e \in Chat
      BY <1>1, <2>1, <3>1 DEF Tallied
    <3>2. CASE e \notin Chat
      <4>1. e \in DOMAIN ledger =>
              (Owned(e)' <=> Owned(e)) /\ ledger'[e].state = ledger[e].state
        BY <1>1, <1>2 DEF Owned
      <4> QED
        BY <1>1, <1>5, <2>1, <2>2, <3>2, <4>1 DEF Tallied
    <3> QED
      BY <3>1, <3>2
  <2>4. \A u \in turns'[RoomOf[e]] : u.event = e /\ u.step = "replied" => e \in replied'
    BY <1>1, <1>3, <2>1 DEF Answered
  <2>5. Answered(e)'
    BY <1>1, <1>2, <2>1, <2>4 DEF Answered
  <2> QED
    BY <2>3, <2>5
<1> QED
  BY <1>1, <1>6, <1>7 DEF Core

LEMMA NextIInv ==
  ASSUME IInv, [Next]_vars
  PROVE  IInv'
<1>1. Struct'
  BY NextStruct DEF IInv
<1>2. CASE \E e \in Events : Deliver(e)
  BY <1>1, <1>2, DeliverCore DEF IInv
<1>3. CASE \E x \in Retry : RetryEnqueue(x)
  BY <1>1, <1>3, RetryCore DEF IInv
<1>4. CASE \E r \in Rooms : Begin(r)
  BY <1>1, <1>4, BeginCore DEF IInv
<1>5. CASE \E r \in Rooms : RunTurn(r)
  BY <1>1, <1>5, ActCore, ReplyCore, CompleteCore, FailCore DEF IInv, RunTurn
<1>6. CASE RecoverStranded
  BY <1>1, <1>6, RecoverCore DEF IInv
<1>7. CASE Crash
  BY <1>1, <1>7, CrashCore DEF IInv
<1>8. CASE Restart
  BY <1>1, <1>8, RestartCore DEF IInv
<1>9. CASE Tick
  BY <1>1, <1>9, TickCore DEF IInv
<1>10. CASE UNCHANGED vars
  <2>1. \A e \in Events : SameTurns(e) /\ SameOutcome(e)
    BY <1>10 DEF vars, SameTurns, SameOutcome, Owned
  <2>2. \A e \in DOMAIN ledger : SameTurns(e)
    BY <1>10 DEF vars, SameTurns
  <2>3. \A e \in DOMAIN ledger : Leased(e)' /\ Counted(e)'
    BY <1>10, <2>2, RowKept DEF vars, IInv, Core
  <2>4. \A e \in Events : Tallied(e)' /\ Answered(e)'
    BY <1>10, <2>1, HistoryKept DEF vars, IInv, Core
  <2> QED
    BY <1>1, <1>10, <2>3, <2>4 DEF vars, IInv, Core
<1> QED
  BY <1>2, <1>3, <1>4, <1>5, <1>6, <1>7, <1>8, <1>9, <1>10 DEF Next

-----------------------------------------------------------------------------
(* The invariant that the following theorems rest on. *)
THEOREM Invariance == Spec => []IInv
<1>1. Init => IInv
  BY InitIInv
<1>2. IInv /\ [Next]_vars => IInv'
  BY NextIInv
<1> QED
  BY <1>1, <1>2, PTL DEF Spec

(* While its lease lasts a running turn has its row, so that the results   *)
(* of complete and fail, which AppRuntime.ts:311-314 ignores, report on it *)
(* as they should.                                                         *)
THEOREM ClaimsHold == Spec => []TurnHoldsClaim
<1>1. IInv => TurnHoldsClaim
  <2> SUFFICES ASSUME IInv, NEW r \in Rooms, NEW t \in turns[r], t.time < Lease
               PROVE  /\ ledger[t.event].state = "processing"
                      /\ ledger[t.event].owner = epoch /\ ledger[t.event].lease > 0
    BY DEF TurnHoldsClaim
  <2>1. /\ t \in Turn /\ Leased(t.event) /\ RoomOf[t.event] = r
        /\ ledger[t.event] \in Row
    BY TurnFacts
  <2>2. /\ t.time \in 0..Lease /\ Lease \in Nat /\ t.time # Lease
        /\ ledger[t.event].lease \in 0..Lease
    BY <2>1, InboxAssumption DEF Turn, Row
  <2>3. Owned(t.event) /\ ledger[t.event].lease >= Lease - t.time
    BY <2>1, <2>2 DEF Leased
  <2> QED
    BY <2>2, <2>3 DEF Owned
<1> QED
  BY <1>1, Invariance, PTL

(* However often an event is delivered, and however long its turns take,   *)
(* it is acted upon once, plus once for each turn of a command that failed *)
(* or died or lost its row to the timer (agent/index.ts:672-690,           *)
(* InboxService.ts:199-226).                                               *)
THEOREM ActedOnce == Spec => []ActsOnce
<1>1. IInv => ActsOnce
  <2> SUFFICES ASSUME IInv, NEW e \in Events
               PROVE  ran[e] <= 1 + (IF e \in Chat THEN 0 ELSE cut[e] + reclaimed[e])
    BY DEF ActsOnce
  <2>1. Tallied(e) /\ ran[e] \in Nat /\ cut[e] \in Nat /\ reclaimed[e] \in Nat
    BY DEF IInv, Core, Struct, TypeOK
  <2> QED
    BY <2>1 DEF Tallied, Chances
<1> QED
  BY <1>1, Invariance, PTL

(* No command is recorded as completed before a reply of it is in the      *)
(* outbox (AppRuntime.ts:310-311).                                         *)
THEOREM CommandsGetAnswers == Spec => []CommandsAnswered
<1>1. IInv => CommandsAnswered
  BY DEF IInv, Struct, TypeOK, Core, Answered, CommandsAnswered
<1> QED
  BY <1>1, Invariance, PTL

(* An event is tried MaxAttempts times, and once more for each crash and   *)
(* for each turn of it that outlasted its lease (InboxService.ts:112-226). *)
THEOREM AttemptsStayBounded == Spec => []AttemptsBounded
<1>1. IInv => AttemptsBounded
  <2> SUFFICES ASSUME IInv, NEW e \in DOMAIN ledger
               PROVE  ledger[e].attempts <= MaxAttempts + epoch + reclaimed[e]
    BY DEF AttemptsBounded
  <2>1. Leased(e) /\ Counted(e)
    BY DEF IInv, Core
  <2>2. /\ ledger[e].state \in State /\ ledger[e].attempts \in Nat /\ reclaimed[e] \in Nat
        /\ ledger[e].owner \in Nat /\ epoch \in Nat /\ MaxAttempts \in Nat
    BY InboxAssumption DEF IInv, Struct, TypeOK, Row
  <2> QED
    BY <2>1, <2>2 DEF Leased, Counted, State, Terminal
<1> QED
  BY <1>1, Invariance, PTL
=============================================================================
