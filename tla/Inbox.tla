------------------------------- MODULE Inbox -------------------------------
(***************************************************************************)
(* Intake of provider events: the ledger of src/messaging/InboxService.ts, *)
(* the handler that src/runtime/AppRuntime.ts installs on every provider,  *)
(* and the steps of an agent turn (src/agent/index.ts) that decide whether *)
(* an event is acted upon again.                                           *)
(*                                                                         *)
(* The ledger is durable but holds no message: an event is acted upon only *)
(* through a task in the process's memory, which a crash, the queue's age  *)
(* limit or backpressure may lose.  MessageQueue is abstracted to what     *)
(* intake sees of it: per room a bounded queue in which tasks go stale,    *)
(* and one turn at a time.                                                 *)
(*                                                                         *)
(* Time is kept as what is left of each delay (wait, lease) and as the     *)
(* time since admission or enqueueing (age).  Nothing bounds a turn by its *)
(* lease: one that outlasts it may find its row taken back by the timer.   *)
(***************************************************************************)
EXTENDS Integers, FiniteSets, Sequences

CONSTANTS
  Events,       \* provider events, told apart by their event key
  Rooms,
  RoomOf,
  Chat,         \* events that store a user message before they are answered
  QueueLimit,   \* tasks a room's queue holds
  MaxAge,       \* age beyond which a queued task is dropped
  Retries,      \* attempts to enqueue before the event is deferred
  Lease,        \* LEASE_MS
  Backoff,      \* delay before a failed event may be claimed again
  MaxAttempts,  \* MAX_ATTEMPTS
  StrandAge,    \* age at which an unclaimed event counts as stranded
  MaxCopies,    \* bound: tasks of one event in the process at once
  MaxFaults     \* bound: crashes, and rows that the timer takes from a turn

ASSUME InboxAssumption ==
  /\ RoomOf \in [Events -> Rooms]
  /\ Chat \subseteq Events
  /\ {QueueLimit, Retries, Lease, Backoff, MaxAttempts, MaxCopies} \subseteq Nat \ {0}
  /\ {MaxAge, StrandAge, MaxFaults} \subseteq Nat

VARIABLES
  ledger,    \* table message_inbox
  saved,     \* events with a user message in table messages
  waiting,   \* per room, the queued tasks
  turns,     \* per room, the running turn, if any
  retrying,  \* the handlers that wait for room in the queue, how many of each kind
  alive,     \* the process runs
  epoch,     \* its incarnation; inboxOwner is drawn anew by each one
  ran,       \* history: turns that acted on each event
  cut,       \* history: turns of each event that failed or died
  reclaimed, \* history: how often the timer took its row from a running turn
  replied    \* history: events with a reply handed to the outbox

vars == <<ledger, saved, waiting, turns, retrying, alive, epoch, ran, cut,
          reclaimed, replied>>

State == {"received", "processing", "completed", "failed", "dead_letter"}

Terminal == {"completed", "dead_letter"}

Row == [state : State, wait : 0..Backoff, attempts : Nat, owner : Nat,
        lease : 0..Lease, age : 0..(StrandAge + 1)]

Task == [event : Events, age : 0..(MaxAge + 1)]

(* How long a turn has run matters only up to the length of its lease.     *)
Turn == [event : Events, step : {"claimed", "acted", "replied"},
         time : 0..Lease]

Retry == [event : Events, left : 1..Retries]

(* How many tasks dropStale takes off the head of a queue. *)
StaleCount(tasks) ==
  Cardinality({i \in 1..Len(tasks) : \A j \in 1..i : tasks[j].age > MaxAge})

Fresh(tasks) == SubSeq(tasks, StaleCount(tasks) + 1, Len(tasks))

(* Tasks of an event that the process still knows of. *)
Copies(e) ==
  {<<"queued", i>> : i \in {j \in DOMAIN waiting[RoomOf[e]] :
                              waiting[RoomOf[e]][j].event = e}}
    \cup {<<"turn", t>> : t \in {u \in turns[RoomOf[e]] : u.event = e}}
    \cup {<<"retry", p>> : p \in {q \in Retry \X (1..MaxCopies) :
                                     q[1].event = e /\ q[2] <= retrying[q[1]]}}

-----------------------------------------------------------------------------
Init ==
  /\ ledger = [e \in {} |-> {}]
  /\ saved = {}
  /\ waiting = [r \in Rooms |-> <<>>]
  /\ turns = [r \in Rooms |-> {}]
  /\ retrying = [x \in Retry |-> 0]
  /\ alive = TRUE
  /\ epoch = 0
  /\ ran = [e \in Events |-> 0]
  /\ cut = [e \in Events |-> 0]
  /\ reclaimed = [e \in Events |-> 0]
  /\ replied = {}

Update(e, New(_)) == ledger' = [ledger EXCEPT ![e] = New(@)]

(* admit: INSERT ... ON CONFLICT(platform, event_key) DO NOTHING; an event *)
(* of which the ledger knows the outcome is not accepted again.            *)
Admit(e) ==
  ledger' = IF e \in DOMAIN ledger THEN ledger
            ELSE [f \in DOMAIN ledger \cup {e} |->
                    IF f = e
                    THEN [state |-> "received", wait |-> 0, attempts |-> 0,
                          owner |-> 0, lease |-> 0, age |-> 0]
                    ELSE ledger[f]]

Admissible(e) == e \in DOMAIN ledger => ledger[e].state \notin Terminal

Full(r) == Len(Fresh(waiting[r])) >= QueueLimit

(* MessageQueue.enqueue drops what is stale before it looks for room.      *)
Enqueue(e) ==
  waiting' = [waiting EXCEPT ![RoomOf[e]] =
                IF Full(RoomOf[e]) THEN Fresh(@)
                ELSE Append(Fresh(@), [event |-> e, age |-> 0])]

(* One more waiting handler, or one less. *)
Joined(x, handlers) == [handlers EXCEPT ![x] = @ + 1]

Gone(x, handlers) == [handlers EXCEPT ![x] = @ - 1]

(* queuedHandler: a provider delivers an event, for the first time or      *)
(* again.  Refused by a full queue, the handler tries again later.         *)
Deliver(e) ==
  /\ alive
  /\ Admissible(e)
  /\ Cardinality(Copies(e)) < MaxCopies
  /\ Admit(e)
  /\ Enqueue(e)
  /\ retrying' = IF Full(RoomOf[e]) THEN Joined([event |-> e, left |-> Retries], retrying)
                 ELSE retrying
  /\ UNCHANGED <<saved, turns, alive, epoch, ran, cut, reclaimed, replied>>

Deferred(r) ==
  [r EXCEPT !.state = IF r.attempts + 1 >= MaxAttempts THEN "dead_letter" ELSE "failed",
            !.attempts = @ + 1, !.wait = Backoff]

(* Mutant of DeferUnclaimed: the state of the row is not looked at.        *)
DeferAnyway(e) == Update(e, Deferred)

DeferUnclaimed(e) ==
  IF ledger[e].state = "received" THEN Update(e, Deferred) ELSE ledger' = ledger

(* The next attempt of a waiting handler; after the last one it gives up.  *)
RetryEnqueue(x) ==
  LET e == x.event
      others == Gone(x, retrying)
  IN  /\ retrying[x] > 0
      /\ Enqueue(e)
      /\ \/ ~Full(RoomOf[e]) /\ retrying' = others /\ ledger' = ledger
         \/ /\ Full(RoomOf[e]) /\ x.left > 1
            /\ retrying' = Joined([x EXCEPT !.left = @ - 1], others)
            /\ ledger' = ledger
         \/ /\ Full(RoomOf[e]) /\ x.left = 1
            /\ retrying' = others
            /\ DeferUnclaimed(e)
      /\ UNCHANGED <<saved, turns, alive, epoch, ran, cut, reclaimed, replied>>

-----------------------------------------------------------------------------
(* Mutant of Claimable: whatever state the row is in.                      *)
ClaimableAnyState(r) == r.wait = 0

(* Mutant of Claimable: a row that failed once is not claimed again.       *)
ClaimableOnce(r) ==
  r.wait = 0 /\ (r.state = "received" \/ (r.state = "processing" /\ r.lease = 0))

Claimable(r) ==
  /\ r.wait = 0
  /\ r.state \in {"received", "failed"} \/ (r.state = "processing" /\ r.lease = 0)

(* Mutant of Claimed: the lease is over before the turn is.                *)
ClaimedBriefly(r) ==
  [r EXCEPT !.state = "processing", !.owner = epoch, !.lease = 0, !.attempts = @ + 1]

Claimed(r) ==
  [r EXCEPT !.state = "processing", !.owner = epoch, !.lease = Lease, !.attempts = @ + 1]

(* MessageQueue starts the next task of an idle room: it claims its event, *)
(* or returns if the event is not to be had.                               *)
Begin(r) ==
  LET tasks == Fresh(waiting[r])
      e == Head(tasks).event
  IN  /\ waiting[r] # <<>> /\ turns[r] = {}
      /\ waiting' = [waiting EXCEPT ![r] = IF tasks = <<>> THEN <<>> ELSE Tail(tasks)]
      /\ IF tasks # <<>> /\ Claimable(ledger[e])
         THEN /\ Update(e, Claimed)
              /\ turns' = [turns EXCEPT ![r] = {[event |-> e, step |-> "claimed", time |-> 0]}]
         ELSE UNCHANGED <<ledger, turns>>
      /\ UNCHANGED <<saved, retrying, alive, epoch, ran, cut, reclaimed, replied>>

Owned(e) == ledger[e].state = "processing" /\ ledger[e].owner = epoch

Completed(r) == [r EXCEPT !.state = "completed", !.owner = 0, !.lease = 0]

(* Mutant of Failed: one attempt too many.                                 *)
FailedLate(r) ==
  [r EXCEPT !.state = IF r.attempts > MaxAttempts THEN "dead_letter" ELSE "failed",
            !.wait = Backoff, !.owner = 0, !.lease = 0]

(* Mutant of Failed: a turn that failed is recorded like one that did not. *)
FailedAsCompleted(r) == Completed(r)

Failed(r) ==
  [r EXCEPT !.state = IF r.attempts >= MaxAttempts THEN "dead_letter" ELSE "failed",
            !.wait = Backoff, !.owner = 0, !.lease = 0]

(* complete and fail report on the row only while it is the owner's.       *)
Release(e, New(_)) == IF Owned(e) THEN Update(e, New) ELSE ledger' = ledger

Running(e) == \E t \in turns[RoomOf[e]] : t.event = e

EndTurn(r) == turns' = [turns EXCEPT ![r] = {}]

(* The turn reaches the point where it acts: a command runs; a chat turn   *)
(* first stores the user message, and returns if it is already there.      *)
Act(r, t) ==
  /\ t.step = "claimed"
  /\ IF t.event \in Chat \cap saved
     THEN /\ EndTurn(r)
          /\ Release(t.event, Completed)
          /\ UNCHANGED <<saved, ran>>
     ELSE /\ turns' = [turns EXCEPT ![r] = {[t EXCEPT !.step = "acted"]}]
          /\ saved' = saved \cup ({t.event} \cap Chat)
          /\ ran' = [ran EXCEPT ![t.event] = @ + 1]
          /\ ledger' = ledger
  /\ UNCHANGED <<waiting, retrying, alive, epoch, cut, reclaimed, replied>>

(* The reply is handed to the outbox.                                      *)
Reply(r, t) ==
  /\ t.step = "acted"
  /\ turns' = [turns EXCEPT ![r] = {[t EXCEPT !.step = "replied"]}]
  /\ replied' = replied \cup {t.event}
  /\ UNCHANGED <<ledger, saved, waiting, retrying, alive, epoch, ran, cut, reclaimed>>

Complete(r, t) ==
  /\ t.step = "replied"
  /\ EndTurn(r)
  /\ Release(t.event, Completed)
  /\ UNCHANGED <<saved, waiting, retrying, alive, epoch, ran, cut, reclaimed, replied>>

(* The handler throws: before it acts, or because not even the reply that  *)
(* reports its error could be enqueued.                                    *)
Fail(r, t) ==
  /\ t.step \in {"claimed", "acted"}
  /\ EndTurn(r)
  /\ Release(t.event, Failed)
  /\ cut' = [cut EXCEPT ![t.event] = @ + 1]
  /\ UNCHANGED <<saved, waiting, retrying, alive, epoch, ran, reclaimed, replied>>

-----------------------------------------------------------------------------
(* Mutant of Stranded: what a process left behind stays as it is.          *)
StrandedUnclaimed(r) == r.state = "received" /\ r.age > StrandAge

Stranded(r) ==
  \/ r.state = "received" /\ r.age > StrandAge
  \/ r.state = "processing" /\ r.lease = 0

Recovered(r) ==
  IF r.state = "received" THEN [r EXCEPT !.state = "failed"]
  ELSE [r EXCEPT !.state = "received", !.owner = 0, !.lease = 0]

(* The turn that has the row goes on, although its lease is over.          *)
Overrun(e) == Running(e) /\ ledger[e].state = "processing" /\ ledger[e].lease = 0

(* The hourly timer.  Nothing is enqueued: the event itself is not stored. *)
RecoverStranded ==
  /\ alive
  /\ \E e \in DOMAIN ledger : Stranded(ledger[e])
  /\ ledger' = [e \in DOMAIN ledger |->
                  IF Stranded(ledger[e]) THEN Recovered(ledger[e]) ELSE ledger[e]]
  /\ reclaimed' = [e \in Events |->
                     IF e \in DOMAIN ledger /\ Overrun(e) THEN reclaimed[e] + 1 ELSE reclaimed[e]]
  /\ UNCHANGED <<saved, waiting, turns, retrying, alive, epoch, ran, cut, replied>>

(* The bound on crashes and on turns that outlast their lease.              *)
FaultsLeft == \A e \in Events : epoch + reclaimed[e] < MaxFaults

Crash ==
  /\ alive /\ FaultsLeft
  /\ alive' = FALSE
  /\ waiting' = [r \in Rooms |-> <<>>]
  /\ turns' = [r \in Rooms |-> {}]
  /\ retrying' = [x \in Retry |-> 0]
  /\ cut' = [e \in Events |->
               cut[e] + Cardinality({t \in turns[RoomOf[e]] : t.event = e})]
  /\ UNCHANGED <<ledger, saved, epoch, ran, reclaimed, replied>>

Restart ==
  /\ ~alive
  /\ alive' = TRUE
  /\ epoch' = epoch + 1
  /\ UNCHANGED <<ledger, saved, waiting, turns, retrying, ran, cut, reclaimed, replied>>

(* Mutant of Less: a delay runs below zero.                                *)
LessUnclamped(i) == i - 1

Less(i) == IF i = 0 THEN 0 ELSE i - 1

(* What an age is compared with never tells higher ones apart.             *)
Older(i, limit) == IF i > limit THEN i ELSE i + 1

(* A room that is idle starts its next task at once.                       *)
Tick ==
  /\ \A r \in Rooms : turns[r] = {} => waiting[r] = <<>>
  /\ \/ \A r \in Rooms : \A t \in turns[r] : t.time + 1 < Lease
     \/ FaultsLeft
  /\ ledger' = [e \in DOMAIN ledger |->
       [ledger[e] EXCEPT !.wait = Less(@), !.lease = Less(@), !.age = Older(@, StrandAge)]]
  /\ waiting' = [r \in Rooms |-> [i \in DOMAIN waiting[r] |->
       [waiting[r][i] EXCEPT !.age = Older(@, MaxAge)]]]
  /\ turns' = [r \in Rooms |-> {[t EXCEPT !.time = Older(@, Lease - 1)] : t \in turns[r]}]
  /\ UNCHANGED <<saved, retrying, alive, epoch, ran, cut, reclaimed, replied>>

RunTurn(r) == \E t \in turns[r] : Act(r, t) \/ Reply(r, t) \/ Complete(r, t) \/ Fail(r, t)

Next ==
  \/ \E e \in Events : Deliver(e)
  \/ \E x \in Retry : RetryEnqueue(x)
  \/ \E r \in Rooms : Begin(r) \/ RunTurn(r)
  \/ RecoverStranded
  \/ Crash
  \/ Restart
  \/ Tick

Spec == Init /\ [][Next]_vars

(* Timers fire, idle rooms start their tasks, turns end, a supervisor      *)
(* restarts a process that died, and however busy it is, time passes.      *)
(* Nothing is assumed of the providers: having called the handler they do  *)
(* not deliver an event again.                                             *)
FairSpec ==
  /\ Spec
  /\ WF_vars(\E x \in Retry : RetryEnqueue(x))
  /\ \A r \in Rooms : WF_vars(Begin(r)) /\ WF_vars(RunTurn(r))
  /\ WF_vars(RecoverStranded)
  /\ WF_vars(Restart)
  /\ SF_vars(Tick)

-----------------------------------------------------------------------------
(* Every variable holds a value of its kind. *)
TypeOK ==
  /\ DOMAIN ledger \subseteq Events
  /\ \A e \in DOMAIN ledger : ledger[e] \in Row
  /\ saved \subseteq Chat
  /\ waiting \in [Rooms -> Seq(Task)]
  /\ turns \in [Rooms -> SUBSET Turn]
  /\ retrying \in [Retry -> Nat]
  /\ alive \in BOOLEAN /\ epoch \in Nat
  /\ {ran, cut, reclaimed} \subseteq [Events -> Nat] /\ replied \subseteq Events

(* A turn has its row while its lease lasts: nobody may take it over, so   *)
(* that complete and fail (126-137, 166-189) find the row they report on   *)
(* although AppRuntime ignores what they return.                           *)
TurnHoldsClaim ==
  \A r \in Rooms : \A t \in turns[r] :
    LET row == ledger[t.event]
    IN  t.time < Lease => row.state = "processing" /\ row.owner = epoch /\ row.lease > 0

(* An event is acted upon once, however often it is delivered, unless a    *)
(* turn of it failed or died, or outlasted its lease and lost its row to   *)
(* the timer; a chat event is never acted upon twice.                      *)
ActsOnce ==
  \A e \in Events :
    ran[e] <= 1 + (IF e \in Chat THEN 0 ELSE cut[e] + reclaimed[e])

(* A command leaves the ledger's care only answered: when its row is       *)
(* completed (AppRuntime.ts:311) a reply of it is in the outbox, whichever *)
(* turn of it completed the row.                                           *)
CommandsAnswered ==
  \A e \in DOMAIN ledger \ Chat : ledger[e].state = "completed" => e \in replied

(* Once completed or dead-lettered, whatever copies, retries and timers    *)
(* are still on their way.                                                 *)
OutcomeIsFinal ==
  [][\A e \in DOMAIN ledger :
       ledger[e].state \in Terminal => ledger'[e].state = ledger[e].state]_vars

(* An event that keeps failing is dead-lettered after MaxAttempts; only a  *)
(* crash in mid-turn, or a turn that outlasts its lease, adds an attempt.  *)
AttemptsBounded ==
  \A e \in DOMAIN ledger : ledger[e].attempts <= MaxAttempts + epoch + reclaimed[e]

Open(e) == e \in DOMAIN ledger /\ ledger[e].state \in {"received", "processing"}

(* No row stays received or processing for ever, whichever process, queue  *)
(* or turn has lost what was to release it: the timer does in the end      *)
(* (InboxService.ts:199-226).                                              *)
RowsReleased == \A e \in Events : Open(e) ~> ~Open(e)

(* AppRuntime.ts:786-787 says of stranded rows that they are recovered "so *)
(* they are not lost forever": an event the ledger admitted is completed   *)
(* or dead-lettered in the end.                                            *)
EventsSettle ==
  \A e \in Events :
    e \in DOMAIN ledger ~> e \in DOMAIN ledger /\ ledger[e].state \in Terminal

(* The value RoomOf has in the runs: every event is of the same room. *)
OneRoom == [e \in Events |-> CHOOSE r \in Rooms : TRUE]
=============================================================================
