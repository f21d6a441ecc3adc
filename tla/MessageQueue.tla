---------------------------- MODULE MessageQueue ----------------------------
(***************************************************************************)
(* The in-memory turn queue of src/utils/MessageQueue.ts.  Every room has  *)
(* a FIFO of tasks; a room runs at most Concurrency tasks at once and the  *)
(* whole process at most MaxRunning.  The class is synchronous JavaScript: *)
(* enqueue, the completion callback of a task, the prune timer and the     *)
(* shutdown calls each run to completion, so each is one action here, and  *)
(* what interleaves is the order in which they are called.                 *)
(*                                                                         *)
(* A task is the record pushed by enqueue: an identity, its room and the   *)
(* time it was enqueued.  `running' and `discarded' are kept as sets of    *)
(* tasks: queue.running is the number of running tasks of a room and       *)
(* droppedTasks is the number of discarded tasks plus the refused calls.   *)
(***************************************************************************)
EXTENDS Integers, Sequences, FiniteSets

CONSTANTS
  Rooms,         \* canonical room keys
  Concurrency,   \* tasks one room may run at once (the runtime passes 1)
  PerRoomLimit,  \* backlog of one room
  GlobalLimit,   \* backlog of all rooms
  MaxRunning,    \* tasks the process may run at once
  MaxAge,        \* a task queued for longer than this is dropped
  IdleTimeout,   \* an empty room unused for longer than this is forgotten
  Grace,         \* how long closeAndDrain waits for running tasks
  MaxCalls,      \* bound: calls of enqueue
  MaxTime        \* bound: ticks of the clock

ASSUME QueueAssumption ==
  /\ Concurrency \in Nat \ {0}
  /\ PerRoomLimit \in Nat \ {0}
  /\ GlobalLimit \in Nat /\ GlobalLimit >= PerRoomLimit
  /\ MaxRunning \in Nat \ {0}
  /\ {MaxAge, IdleTimeout, Grace, MaxCalls, MaxTime} \subseteq Nat

Task == [id : 1..MaxCalls, room : Rooms, at : 0..MaxTime]

VARIABLES
  q,         \* what the queue stores: see Queue
  now,       \* Date.now()
  calls,     \* calls of enqueue so far; the last one's task has this identity
  stopped,
  aborted,   \* running tasks whose AbortController has fired
  drain,     \* the pending closeAndDrain call
  refused,   \* history: identities enqueue answered false to
  finished   \* history: tasks that ran and settled

vars == <<q, now, calls, stopped, aborted, drain, refused, finished>>

(* The Map is the set of rooms that have an entry, with the enqueue call   *)
(* that created each entry: a Map is iterated in insertion order.          *)
Queue == [rooms : SUBSET Rooms,
          since : [Rooms -> 0..MaxCalls],
          tasks : [Rooms -> Seq(Task)],
          lastActivity : [Rooms -> 0..MaxTime],
          running : SUBSET Task,
          discarded : SUBSET Task]

Drain == [phase : {"none", "waiting", "settled", "expired"},
          tasks : SUBSET Task,
          deadline : Nat]

-----------------------------------------------------------------------------
Elements(seq) == {seq[i] : i \in DOMAIN seq}

Pending(s) == UNION {Elements(s.tasks[r]) : r \in s.rooms}

PendingCount(s) == Cardinality(Pending(s))

RunningIn(s, r) == Cardinality({t \in s.running : t.room = r})

(* Summed over the rooms of the Map, so a forgotten room is not counted. *)
RunningCount(s) == Cardinality({t \in s.running : t.room \in s.rooms})

Stale(t) == t.at < now - MaxAge

(* How many tasks dropStale takes off the head: those with no fresh task   *)
(* at or before them.                                                      *)
StaleCount(seq) ==
  Cardinality({i \in 1..Len(seq) : \A j \in 1..i : Stale(seq[j])})

Live(seq) == SubSeq(seq, StaleCount(seq) + 1, Len(seq))

StaleHead(seq) == {seq[i] : i \in 1..StaleCount(seq)}

DropStale(s, R) ==
  [s EXCEPT
     !.tasks = [r \in Rooms |-> IF r \in R THEN Live(s.tasks[r])
                                           ELSE s.tasks[r]],
     !.discarded = @ \cup UNION {StaleHead(s.tasks[r]) : r \in R}]

(* Move the head task of each room of R from its FIFO to the running set.  *)
StartHead(s, R) ==
  [s EXCEPT
     !.tasks = [r \in Rooms |-> IF r \in R THEN Tail(s.tasks[r])
                                           ELSE s.tasks[r]],
     !.lastActivity = [r \in Rooms |-> IF r \in R THEN now
                                                  ELSE s.lastActivity[r]],
     !.running = @ \cup {Head(s.tasks[r]) : r \in R}]

(* A room whose own concurrency limit lets it start a task. *)
Open(s, r) == r \in s.rooms /\ RunningIn(s, r) < Concurrency

(* An open room in which a task is left once the stale ones are dropped. *)
Startable(s, r) == Open(s, r) /\ Live(s.tasks[r]) # << >>

(* Mutants of ProcessNext: no cap on running tasks; the task taken off the *)
(* head is lost at the cap; or it goes back to the end of the FIFO.        *)
ProcessNextUncapped(s, room) ==
  LET R == {r \in {room} : Open(s, r)}
  IN  StartHead(DropStale(s, R), {r \in R : Startable(s, r)})

ProcessNextLosing(s, room) ==
  LET R == {r \in {room} : Startable(s, r)}
      d == DropStale(s, R)
  IN  IF RunningCount(s) < MaxRunning THEN StartHead(d, R)
      ELSE [d EXCEPT !.tasks = [r \in Rooms |-> IF r \in R THEN Tail(d.tasks[r])
                                                ELSE d.tasks[r]]]

ProcessNextRotating(s, room) ==
  LET R == {r \in {room} : Startable(s, r)}
      d == DropStale(s, R)
  IN  IF RunningCount(s) < MaxRunning THEN StartHead(d, R)
      ELSE [d EXCEPT !.tasks = [r \in Rooms |->
              IF r \in R THEN Append(Tail(d.tasks[r]), Head(d.tasks[r]))
              ELSE d.tasks[r]]]

(* processNext: the task is put back at the head, that is left there, when *)
(* the process is at its running cap.                                      *)
ProcessNext(s, room) ==
  LET R == {r \in {room} : Open(s, r)}
      S == {r \in R : Startable(s, r) /\ RunningCount(s) < MaxRunning}
  IN  StartHead(DropStale(s, R), S)

(* pumpAll: the rooms the loop reaches, in insertion order, before the cap *)
(* is hit; every startable room ahead of r has used one slot by then.      *)
Ahead(s, r) == {p \in s.rooms : s.since[p] < s.since[r] /\ Startable(s, p)}

Reached(s) ==
  {r \in s.rooms : RunningCount(s) + Cardinality(Ahead(s, r)) < MaxRunning}

(* Mutant of PumpAll: a completion only serves its own room. *)
PumpNone(s) == s

PumpAll(s) ==
  LET R == {r \in Reached(s) : Open(s, r)}
  IN  StartHead(DropStale(s, R), {r \in R : Startable(s, r)})

-----------------------------------------------------------------------------
Init ==
  /\ q = [rooms |-> {},
          since |-> [r \in Rooms |-> 0],
          tasks |-> [r \in Rooms |-> << >>],
          lastActivity |-> [r \in Rooms |-> 0],
          running |-> {},
          discarded |-> {}]
  /\ now = 0
  /\ calls = 0
  /\ stopped = FALSE
  /\ aborted = {}
  /\ drain = [phase |-> "none", tasks |-> {}, deadline |-> 0]
  /\ refused = {}
  /\ finished = {}

(* The Map entry of a room, created on its first message. *)
Ensure(s, room) ==
  IF room \in s.rooms THEN s
  ELSE [s EXCEPT !.rooms = @ \cup {room},
                 !.since[room] = calls',
                 !.lastActivity[room] = now]

(* Mutant of Admissible: off by one at both limits. *)
AdmissibleOneMore(s, room) ==
  Len(s.tasks[room]) <= PerRoomLimit /\ PendingCount(s) <= GlobalLimit

Admissible(s, room) ==
  /\ Len(s.tasks[room]) < PerRoomLimit
  /\ PendingCount(s) < GlobalLimit

Push(s, t) ==
  [s EXCEPT !.tasks[t.room] = Append(@, t), !.lastActivity[t.room] = now]

EnqueueStopped(room) ==
  /\ stopped
  /\ refused' = refused \cup {calls'}
  /\ q' = q

EnqueueOpen(room) ==
  LET s == DropStale(Ensure(q, room), {room})
      t == [id |-> calls', room |-> room, at |-> now]
  IN  /\ ~stopped
      /\ \/ /\ ~Admissible(s, room)
            /\ q' = s
            /\ refused' = refused \cup {calls'}
         \/ /\ Admissible(s, room)
            /\ q' = PumpAll(ProcessNext(Push(s, t), room))
            /\ refused' = refused

Enqueue(room) ==
  /\ calls < MaxCalls
  /\ calls' = calls + 1
  /\ EnqueueStopped(room) \/ EnqueueOpen(room)
  /\ UNCHANGED <<now, stopped, aborted, drain, finished>>

(* Mutants of Settle: the slot is not given back; the room is back-dated.  *)
SettleKeepsSlot(s, t) == [s EXCEPT !.lastActivity[t.room] = now]

SettleBackdated(s, t) ==
  [s EXCEPT !.running = @ \ {t}, !.lastActivity[t.room] = now - 1]

(* The finally block of a task that settled, whether it failed or not: the *)
(* room it ran in is served before any other.                              *)
Settle(s, t) ==
  [s EXCEPT !.running = @ \ {t}, !.lastActivity[t.room] = now]

Finish(t) ==
  /\ t \in q.running
  /\ \/ stopped /\ q' = Settle(q, t)
     \/ ~stopped /\ \E s \in {ProcessNext(Settle(q, t), t.room)} : q' = PumpAll(s)
  /\ finished' = finished \cup {t}
  /\ aborted' = aborted \ {t}
  /\ UNCHANGED <<now, calls, stopped, drain, refused>>

(* Mutant of Idle: a room that runs a task may be forgotten. *)
IdleWhileRunning(s, r) ==
  s.tasks[r] = << >> /\ s.lastActivity[r] < now - IdleTimeout

(* The prune timer: drop what is stale in every room, forget idle rooms.   *)
Idle(s, r) ==
  /\ RunningIn(s, r) = 0
  /\ s.tasks[r] = << >>
  /\ s.lastActivity[r] < now - IdleTimeout

Forget(s) == [s EXCEPT !.rooms = {r \in s.rooms : ~Idle(s, r)}]

Prune ==
  /\ ~stopped
  /\ q' = Forget(DropStale(q, q.rooms))
  /\ UNCHANGED <<now, calls, stopped, aborted, drain, refused, finished>>

(* Mutant of BeginStop: running tasks are not told. *)
BeginStopSilent ==
  IF stopped THEN UNCHANGED <<q, stopped, aborted>>
  ELSE /\ stopped' = TRUE
       /\ q' = [q EXCEPT !.tasks = [r \in Rooms |-> << >>],
                         !.discarded = @ \cup Pending(q)]
       /\ UNCHANGED aborted

(* beginStop: every queued task is dropped, every running one is aborted.  *)
BeginStop ==
  IF stopped THEN UNCHANGED <<q, stopped, aborted>>
  ELSE /\ stopped' = TRUE
       /\ q' = [q EXCEPT !.tasks = [r \in Rooms |-> << >>],
                         !.discarded = @ \cup Pending(q)]
       /\ aborted' = q.running

Stop ==
  /\ BeginStop
  /\ UNCHANGED <<now, calls, drain, refused, finished>>

CloseAndDrain ==
  /\ drain.phase = "none"
  /\ BeginStop
  /\ drain' = [phase |-> IF q.running = {} THEN "settled" ELSE "waiting",
               tasks |-> q.running,
               deadline |-> now + Grace]
  /\ UNCHANGED <<now, calls, refused, finished>>

(* Promise.race between the tasks it found running and the grace timer.    *)
DrainSettled ==
  /\ drain.phase = "waiting"
  /\ drain.tasks \cap q.running = {}
  /\ drain' = [drain EXCEPT !.phase = "settled"]
  /\ UNCHANGED <<q, now, calls, stopped, aborted, refused, finished>>

DrainExpired ==
  /\ drain.phase = "waiting"
  /\ now >= drain.deadline
  /\ drain' = [drain EXCEPT !.phase = "expired"]
  /\ UNCHANGED <<q, now, calls, stopped, aborted, refused, finished>>

Tick ==
  /\ now < MaxTime
  /\ now' = now + 1
  /\ UNCHANGED <<q, calls, stopped, aborted, drain, refused, finished>>

FinishAny == \E t \in q.running : Finish(t)

Next ==
  \/ \E room \in Rooms : Enqueue(room)
  \/ FinishAny
  \/ Prune
  \/ Stop
  \/ CloseAndDrain
  \/ DrainSettled
  \/ DrainExpired
  \/ Tick

Spec == Init /\ [][Next]_vars

(* Assumed of the callers: every task settles.  The calls a turn makes are *)
(* each bounded by a timeout, though no one deadline bounds the whole turn.*)
(* With MaxCalls tasks, fairness of the completions together says so of    *)
(* each.  The event loop delivers the callback of a drain that may return. *)
FairSpec ==
  /\ Spec
  /\ WF_vars(FinishAny)
  /\ WF_vars(DrainSettled \/ DrainExpired)

-----------------------------------------------------------------------------
Admitted == {i \in 1..calls : i \notin refused}

Ids(T) == {t.id : t \in T}

(* Every variable holds a value of its kind. *)
TypeOK ==
  /\ q \in Queue
  /\ now \in 0..MaxTime
  /\ calls \in 0..MaxCalls
  /\ stopped \in BOOLEAN
  /\ aborted \in SUBSET Task
  /\ drain \in Drain
  /\ refused \in SUBSET (1..MaxCalls)
  /\ finished \in SUBSET Task

(* MessageQueue.ts:42-49: whatever order enqueue, completions, the prune   *)
(* timer and shutdown come in, never more than MaxRunning tasks execute in *)
(* the process and never more than Concurrency in one room.                *)
RunningCaps ==
  /\ Cardinality(q.running) <= MaxRunning
  /\ \A r \in Rooms : RunningIn(q, r) <= Concurrency

(* The running total is summed over the Map, so the Map must hold every    *)
(* room that still runs or queues something: prune (166-174) must never    *)
(* forget one that does.                                                   *)
RoomsTracked ==
  \A r \in Rooms :
    (RunningIn(q, r) > 0 \/ q.tasks[r] # << >>) => r \in q.rooms

(* No lost wake-up: a slot is never left free while a room that may use it *)
(* has work (the pumpAll calls at 101 and 143).                            *)
WorkConserving ==
  (~stopped /\ Cardinality(q.running) < MaxRunning) =>
    \A r \in Rooms : RunningIn(q, r) < Concurrency => q.tasks[r] = << >>

(* The backlog never exceeds its two limits (line 86), stale tasks         *)
(* included, although the limits are checked before the push only.         *)
BacklogBounded ==
  /\ \A r \in Rooms : Len(q.tasks[r]) <= PerRoomLimit
  /\ PendingCount(q) <= GlobalLimit

(* No task vanishes and none runs twice: what enqueue answered true to is  *)
(* waiting, running, settled or counted in droppedTasks, in exactly one of *)
(* these (the unshift at 122, the counters at 162 and 241).                *)
Conservation ==
  LET places == <<Ids(Pending(q)), Ids(q.running),
                  Ids(finished), Ids(q.discarded)>>
  IN  /\ Admitted = UNION Elements(places)
      /\ \A i, j \in DOMAIN places : i # j => places[i] \cap places[j] = {}
      /\ PendingCount(q) = Cardinality(Ids(Pending(q)))

(* A task only starts when the queue is open, it has not outlived maxAge   *)
(* in the backlog, and it is the oldest waiting task of its room, even     *)
(* when it was taken off the head and put back before (120-124).           *)
StartDiscipline ==
  [][\A t \in q'.running \ q.running :
       /\ ~stopped
       /\ ~Stale(t)
       /\ \A u \in Pending(q') : u.room = t.room => u.id > t.id]_vars

(* After beginStop (231-247) nothing waits, everything that still runs has *)
(* been told to abort, and a closeAndDrain that returned before its grace  *)
(* period left no task running.                                            *)
ShutdownQuiesces ==
  stopped => /\ Pending(q) = {}
             /\ q.running \subseteq aborted
             /\ drain.phase = "settled" => q.running = {}

(* The books of the queue agree, whatever order its callbacks come in: no  *)
(* task lost or run twice, none over the limits, none left waiting beside  *)
(* a free slot, none left running by a shutdown that claims to be done.    *)
Accounted == Conservation /\ BacklogBounded /\ WorkConserving /\ ShutdownQuiesces

(* A queued task is started or dropped: no completion forgets to hand its  *)
(* slot on.                                                                *)
QueuedLeaves ==
  \A i \in 1..MaxCalls :
    (i \in Ids(Pending(q))) ~> (i \notin Ids(Pending(q)))
=============================================================================
