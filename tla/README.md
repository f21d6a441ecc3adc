# ElastraX: a TLA+ model of a multi-platform chat bot

ElastraX is one Bun process that connects to WhatsApp, Telegram and Discord,
answers messages with language models and tools, relays webhooks into rooms and
sends reminders and digests.  Its difficulty is not in any one function: it
promises durable, ordered, once-only work on top of an event loop, a SQLite
file, several timers, and providers whose calls may fail, hang or succeed
without telling.  That is what is modelled here.

## The system and what is modelled of it

Sources are below `src/src` unless they say otherwise; `PROJECT.json` maps each
definition to its lines.

| Part | State it keeps | Operations | Modules |
|---|---|---|---|
| Turn queue, `utils/MessageQueue.ts` | FIFO of each room, running counts, stop flag (memory) | enqueue, completion, prune timer, stop, closeAndDrain | `MessageQueue` |
| Outbox, `messaging/OutboxService.ts` | table `message_outbox` | enqueue (queued, fast path, streamed), claim, markSent, markEnqueuedSent, fail, prune | `Outbox`, `Delivery` |
| Inbox, `messaging/InboxService.ts` | table `message_inbox` | admit, claim, complete, fail, deferUnclaimed, recoverStranded | `Inbox` |
| Scheduler, `utils/Scheduler.ts` | table `reminders`, retry counters (memory) | set, cancel, process, retry, retire | `Scheduler` |
| Permits and downloads, `providers/semaphore.ts`, `providers/media.ts`, `utils/MediaStorage.ts` | free permits, waiters, slots and bytes held, temporary files | acquire, tryAcquire, release, abort; reserve, write, grow, store, leave | `Semaphore`, `Downloads` |
| Agent turn, `agent/index.ts` with `ai/*.ts` | iteration, history, live message, budget | ask, stream, call tools, edit, reply | `Turn` |
| Model router, `utils/ModelRouter.ts` | circuits | order, probe, fail, fall back | `ModelRouter` |
| Tool registry, `tools/registry.ts` | rate windows, queues of mutating tools; tools and aliases | admit, queue, time out; check; load, reload | `Turn`, `Access`, `Console` |
| Identity and roles, `utils/IdentityService.ts`, `utils/AuthService.ts`, `tools/RoleTool.ts` | aliases, identities, roles, group lists, privileges and their cache | learn, resolve, grant, revoke, set, reset | `Access`, `Privileges` |
| Rate limiter, `utils/RateLimiter.ts` | token buckets | check, resize, refill, prune | `Access` |
| Flow sessions, `core/FlowHandler.ts` | table `flow_sessions`, copy in memory | start, continue, clear, expire, prune, restart | `Flows` |
| Flows of the tools, `tools/PDFTool.ts`, `MenfessTool.ts`, `MediaBindTool.ts` | collected files, previews, service bindings | merge, draw, edit, forward, connect, disconnect | `Flows` |
| Room keys, `messaging/roomKeys.ts`, `db/rooms.ts` | `room_keys`, `chat_rooms` | resolve a destination, register, find or create, report conflicts | `Notifications`, `Filing` |
| Notifications, `utils/NotificationSubscriptionService.ts` | subscriptions | add, remove, find the rooms of an event | `Notifications` |
| Webhook server, `webhooks/*.ts` | buckets, replay cache, registered enqueuer | admit, find destinations, dispatch, answer | `Webhook` |
| Digests, `utils/DigestService.ts` | markers in `app_kv` | poll, claim, send, give back | `Digests` |
| Providers, `providers/{whatsapp,telegram,discord}.ts` | socket, bot or client, generation, timer, status | start, stop, reconnect, read a message, reply | `Providers`, `WhatsApp`, `Telegram`, `Discord` |
| Runtime, `index.ts`, `runtime/AppRuntime.ts` | what is started, timers, work under way | boot, start, stop, tear down, exit | `Lifecycle` |
| Database file, `db/{index,migrations,runtime,backup,retention}.ts` | schema, journal, leases, backups; rows of every table | open, migrate, renew, back up, prune, restore; sweep, dry run | `Store` |
| Filing, `agent/index.ts`, `utils/syncHistoricalDatabase.ts` | `chat_rooms`, `messages` | store a message, a history, a webhook's room | `Filing` |
| Media directory, `utils/mediaShared.ts`, `MediaStorage.ts`, `MediaCleanup.ts` | files, temporary files, cached totals, the paths messages name | save, make room, clear paths, discard, prune by age | `Filing` |
| Summaries, `utils/ConversationSummarizer.ts` | summary and watermark of a room | fetch, summarise, store, trim | `Summaries` |
| Memories and documents, `tools/MemoryTool.ts`, `utils/roomKnowledge.ts`, `utils/EmbeddingService.ts`, `src/scripts/backfillEmbeddings.ts` | `memories`, consent, cache and requests of embeddings | grant, revoke, store, index, embed, search, embed again | `Knowledge` |
| Admin console, `admin/*.ts`, plugins | logins, sessions; plugin files | sign in and out, reload | `Console` |
| Health, `utils/HealthMonitor.ts`, `HealthMetrics.ts`, `feedback.ts` | outcomes of checks, counters, windows, verdicts | check, measure, rate | `Health` |
| Agenda, tasks and calendar, `tools/ReminderTool.ts`, `utils/scheduledTasks.ts`, `utils/Scheduler.ts` | `reminders`, budget of the day, when a reminder comes due next | add, list, cancel; admit, run, time out; recur | `Tasks` |
| Commands, `tools/ParameterValidator.ts`, `tools/registry.ts` | none: a line and what a tool is given | split, parse, validate, run | `Commands` |
| Programs, `providers/process.ts`, `tools/DownloadTool.ts`, `utils/FFmpegConverter.ts` | children, permits, directories | run, feed, time out, terminate, kill, clean up | `Programs` |
| Service clients, most tools, translations, configuration, CI scripts | nothing of their own that changes | request and format | none: I/O and text |

How they meet: a provider calls the intake handler, which admits the event to
the inbox and enqueues a task under the room's key; the queue starts the task,
which claims the row, runs the agent turn and completes or fails the row.  The
turn resolves its sender's roles, continues a flow or asks a model, runs tools,
and its answer goes to the outbox, whose worker delivers it unless the turn's
own fast-path send does.  Webhooks go to the outbox directly.  Scheduler and
digests have senders of their own.  All state is shared through SQLite
statements, each atomic; everything between two awaits is atomic too, so an
action of the models is one such stretch.

What is hard here, and what the properties are about:

* **order of callbacks**: completions, timers, late answers, late events of a
  replaced connection and shutdown meet in any order;
* **crash between two steps**: rows, markers and backups outlive the process;
  tasks, timers, counters and sessions in memory do not;
* **late effects**: a send, a check or a tool that timed out goes on;
* **duplicates**: platforms and webhook senders deliver again while a first
  copy is queued or running;
* **stale reads**: roles, destinations, sessions, privileges and lists are read
  before an await and used after it;
* **leases**: a row, or the database, is taken over by time while its owner
  still works;
* **limits**: backlogs, attempts, buckets, quotas, budgets, permits, and the
  tables that count them.

## The modules and how they correspond to the code

An action is one stretch of code between two awaits, or one SQL statement or
transaction with the synchronous code around it.  Primed variables are what the
code assigns.  Variables marked *history* record what happened for the
properties; a guard reads one only to let each message or reminder be handed
over once or to bound a run.

**MessageQueue**.  `q` is the class's `Map` of rooms: the rooms with an entry,
the order they were created in (a `Map` is iterated in insertion order, and
`pumpAll` depends on it), their FIFOs and last activity, and the running tasks.
`ProcessNext` and `PumpAll` are functions on `q`: JavaScript runs them to
completion inside the calls, so each public call, each completion, the prune
timer and both ways to shut down are one action.  `closeAndDrain` is a call and
two ways to return from it.

**Outbox**. A row is `rows[key]`: the message it was inserted for, state,
attempts, owner, remaining wait and lease, age. Messages may share a key, as the
replies to messages of the same number in two chats do: the second gets no row,
and its send reports to the row that is there (`Holder`, `RowOf`). Absolute
times are kept as what is left of each delay, so that the state space stays
finite without a bound on time. The worker's batch is one action, followed by
one `Acknowledge`, `Reject` or `TimeOut` a send; `Show` is the provider's
visible effect and may come at any time while the send is on the wire: before
its answer, after its timeout, after a crash. **Delivery** is the abstract
specification: a key is new, kept, sent or dropped, and may be confirmed only
once a message of it was shown; `Outbox!Phase` is the refinement mapping.

**Inbox**.  `ledger` is the table, `waiting` and `turns` the task queue as
intake sees it, `retrying` the handlers that wait after a refusal.  A turn is
`claimed`, `acted`, `replied`: it may die between any two of these, and the
check for an already stored user message is where the code makes it.  Nothing
bounds a turn by its lease: one that outlasts it may find that the recovery timer
has taken its row, and that another copy has claimed it (`Overrun`, `reclaimed`).
A provider may deliver an event any number of times, at any time, and need not.

**Scheduler**.  `due` is the rest of the selected batch, as it was selected,
`send` the one awaited send.  `TakeNext` is the conditional claim with
everything up to the next await.  A recurrence is a fixed interval here; days
and months are in **Tasks**.

**Semaphore**, **Downloads**.  `CancellableSemaphore` as operators on a record;
`saveMediaStream` over its three instances, one action for each stretch between
awaits; a chunk is the unit of bytes.

**Turn** over **ModelRouter**.  Turns of one sender in several rooms: what the
stream brings (text, hollow text, fragments of calls, failures), the router's
order and fallback, the live message with its failed sends and edits, the
admission and queues of mutating tools, budgets, and the ways a turn ends.
Text is kept as whose useful text it holds.  Circuits are shared by the turns.

**Access**.  Contacts are platform and id; identities are learnt in the
background while messages are handled.  A message's roles are resolved once,
from the rows, the configuration and the cached group list, and used up to the
change it makes.  The limiter counts tokens in integer fractions.

**Flows**.  A session is read from its row, or from memory when there is none
or the read fails, pruned, changed and written back with its version; the
pruning job works from a snapshot.  The flows' own steps are actions with the
downloads and sends they await; documents are sequences of pages.

**Edge** composes **Webhook**, **Notifications** and **Digests** over one
registry of rooms, with the clients, users and clocks around them.

**Lifecycle** composes **WhatsApp**, **Telegram** and **Discord** (over
**Providers**) with the runtime.  A provider has one connection a generation,
and every event of one says which it belongs to; `start()` and `stop()` are the
stretches between their awaits, as are `AppRuntime.start`, `stop` and
`tearDown`.  A signal or an unhandled error may come at any step of the boot.

**Upkeep** composes what goes on beside the turns, which meets in the database
only (`MCUpkeep` holds its scenes); **Stage** holds what its parts share, a
*scene* with a budget for each kind of event, and each scene plays one part.
**Store**: two processes and two backup jobs on a file; a schema is a count of
migrations with a ledger, fingerprints and leases; retention is each statement of
a run. **Filing**: rooms of before and after the migration to keys, histories in
batches; and, with variables and scenes of their own, the saves and the cleaner of
the media directory, one action for each deletion, with files as sizes in the
order they were written. **Summaries**: the order of time and of ids, which
differ. **Knowledge**: a vector is the text it was made from and the model that
made it, so that a swap shows. **Console**: a session has the number of its
login; a load awaits each import; the first does not wait its turn. **Privileges**: a query is answered some time after it
ran. **Health**: checks that overlap; rings and percentiles as they are computed.
**Tasks**: numbers that are an id or a place; a turn with nobody watching; and the
calendar, whose months have few days, whose days have four hours and whose clock
is put forward and back once. **Commands**: a line is split character by
character; elsewhere it is a sequence of words, which the parser of the code,
branch by branch, makes the arguments of a tool described as in its schema,
grammar and tables. **Programs**: children that may take no notice of SIGTERM,
with their permits and directories.

## The runs

| Run | Question | Bounds |
|---|---|---|
| `queue` | caps; the books (`Accounted`: conservation, backlog limits, no idle slot, shutdown); order and freshness of starts; queued tasks leave | 3 rooms, 2 slots, 4 calls, clock 0..1 |
| `outbox` | of the messages of a key one is kept, duplicates have a cause, `Delivery` is implemented, every row ends | 3 messages (fast path; another under its key, fast or streamed; blank), batches of 2, 2 attempts, 1 crash or outage, sends never come off the wire |
| `inbox` | acted upon once unless a turn failed, died or lost its row; commands answered; outcomes final; no row stays received or processing | a command and a chat event, 1 room, queue of 1, 2 copies, 1 retry, 1 crash or turn that loses its row |
| `inbox_stranded` | *refuted*: an admitted event is completed or dead-lettered in the end | those of `inbox` |
| `runtime` | connections have their owner and stop (`ConnectionsKept`), permits, waiters and disk are kept (`BudgetKept`); the process ends; all downloads end | each provider with a message and 2 failures, all three together; 3 generations, a signal at any step; 4 downloads, 3 slots, 3 units of budget |
| `turn` | one probe; mutations one at a time; what is shown or run is whole (`AnswersWhole`); every turn ends | pairs out of 4 turns, 2 providers, 3 tools, 2 iterations, 2 chunks |
| `access` | roles and rates are the sender's (`SenderKnown`); changes are within authority | 8 contacts of 6 persons, 5 rooms, 4 scenes of up to 5 messages, 2 at once |
| `pending` | a message continues what was begun; what goes out is what was asked (`FlowsTrue`); cancellation, pacing, phase of schedules and once a period (`ScheduleFollowed`) | a chat and a group, 11 scenes of up to 4 messages, one job, restart or fault; 3 reminders (recurring, one-shot, mismatched), clock 0..4, 1 crash |
| `edge` | what was answered is kept and goes nowhere else (`NoticesRight`); intake is bounded and markers are true (`TimersBounded`) | 9 scenes, 2 requests at a time, up to 3 sends of an event, 1 fault of a kind, 5 hours of 2-hour days |
| `digest_once` | *refuted*: a digest that was claimed is shown, once | one room, two days, 2 failed sends, 1 crash |
| `upkeep` | `StoreSafe`, `FilingTrue`, `SummarisedOnce`, `LibraryTrue`, `ConsentRespected`, `ConsoleSound`, `PrivilegesTrue`, `HealthTrue`, `TasksKept`, `CommandsTrue`, `ProgramsContained` | 69 scenes; the budgets are in `MCUpkeep.Cast` |
| `tasks_echoed` | *refuted*: a task is run each time it comes due | one recurring task, due twice |

`runtime` and `pending` play two components each, one at a time (`part`): they
share no state, and each scene starts one of them. A property named in brackets
is the conjunction of the named facts that stand before it in the module, each
with its own comment.

Why the bounds are enough to meet the interesting cases:

* *queue*: with `MaxAge = 0` two clock values tell a fresh task from a stale
  one; four calls fill both slots and leave two tasks waiting, in the same or
  in different rooms, and reach both limits (2); a third room makes the order
  of `pumpAll` matter; `IdleTimeout = 0` forgets a room after one tick.
* *outbox*: `SendTimeout = 1` below `Grace = Lease = 2` keeps the order of the
  real values (15 s, 20 s, 120 s).  Two attempts reach failure, retry and
  retirement; two messages of a key let either caller report to the row of the
  other; a batch of two sends one message while another waits for its turn.
* *inbox*: one room is where turns contend, a queue of one is full at the first
  task, two copies put a duplicate behind its twin.  `Lease = 1`: a turn that
  goes on over one tick has outlasted it, and the timer may take its row,
  whereupon the second copy acts after the first.  A crash or a row taken so is
  one fault (`MaxFaults`); after it, turns end within their lease.
* *reminders*: interval 2 and backoff 1 let a retry fall into the same and into
  the next period; five clock values span two periods and a lateness of more
  than one; a batch of two leaves a third reminder behind.
* *downloads*: the reservations add up to five units of three, and there is one
  slot too few: some wait for a slot, for their reservation, for more bytes in
  mid-stream and for the I/O slot, up to two at a time behind each other.
* *turn*: two turns are enough to contend for a tool and for a probe;
  `Threshold = 2` opens a circuit by turns together; two chunks let a stream
  fail with nothing, something and everything useful passed on.
* *access*: ids that two platforms share, a person seen under a LID, a number
  and both, a grant to each alias; five ticks of a bucket of two windows.
* *flows*: three ticks are longer than the longest life of a flow; three flows
  begun in one turn, with an order to come back to.
* *digests*: the daily digest of one room over two days is enough to lose one
  to a crash and to show one twice.
* *edge*, *process*, *upkeep*: each scene gives every fault that concerns it
  once, twice where the second meets what the first left behind (generations,
  restarts, reloads, leases).  A scene plays one part alone because the parts
  share nothing but the database, whose statements are atomic.
* *calendar*: reminders of every hour of the day, and on the day the clock is put
  forward and the one it is put back; seven months of 5 to 7 days; served at once, an
  hour late, after two days, and after more days than `CatchUp` steps make up for.
* *commands*: tools of the code and of its tests with some of their actions, in every
  line of up to four words (three where there are named words to spare) from a
  vocabulary of what its schema tells apart; lines of characters up to two words
  of two, out of a letter, a space, both quotes and the backslash.
* *media directory*: three saves against a quota of two or three sizes, or of one
  or two files, and the cleaner: totals that are trusted, two runs that delete the
  same files, a file larger than the quota, a temporary file that outlives its
  grace; ticks for totals, grace and age to pass.

`outbox` and `inbox` check deadlock; the other runs have bounded clocks, budgets
or a program that ends, and say so in their configuration.

### Fairness

* `queue`: completions, because every call a turn makes is bounded by a
  timeout; the callback of a drain that may return.
* `outbox`: the one-second interval of the worker, settling of sends
  (`withTimeout`), time, the restart by a supervisor (the container restarts
  always), reconnection of a provider.  No fairness of `Show`: a provider may
  never show anything.
* `inbox`: retry timers, start and end of turns, the recovery timer, restart.
  `Tick` waits for tasks that can start, which disables it again and again but
  not for ever: strong fairness says that time passes all the same.  Nothing is
  assumed of the providers: the handler has returned when an event is enqueued,
  so that they have no cause to deliver it again.  `inbox_stranded` shows what
  becomes of events then.
* `runtime`, downloads: every step of a download; aborts are never owed.
* `turn`: each turn's own steps, because requests, tools and sends have
  timeouts; nothing is owed by cool-downs or by the minutes of a rate window.
* `runtime`, process: the steps of a shutdown and the end of the work it waits for
  (each bounded by a time limit in the code); nothing is assumed of the network,
  the providers or the turns.
* The other runs state no fairness: their properties are safety.

## What is proved

`tlapm` proves the following for all values of the constants that satisfy the
`ASSUME`s of the modules.  Each invariant was first checked by TLC, as an
invariant of the run of its module.

**MessageQueueProofs** (2959 obligations).  `TypeCorrect`, `CapsHold`,
`RoomsStayTracked`, `NoTaskLost`, `BacklogStaysBounded`, `SlotsNeverWasted`,
`ShutdownLeavesNothing`, which together are `BooksBalance` (`Accounted`), and the
action property `StartsDisciplined` (`StartDiscipline`).  None of them is
inductive alone: the running total is summed over the `Map`, so the process cap
needs that every room with a running task is in the `Map`; that needs that
`prune` forgets idle rooms only; and both need that queued and running tasks
carry the room they are filed under.  `Coherent` says all of that (`Filed`,
`Tracked`, `Capped`), and that rooms were created at different calls
(`Ordered`), by which `pumpAll` reaches them in turn.  `Books` adds the `Ledger`
(each admitted identity is in one place, each FIFO in the order of the calls) and
where a shutdown stands (`Shut`).  The hard step is `PumpAll`, which starts
several tasks at once: lemmas count the rooms it reaches against the free slots;
`Advances` says what such a step may do (keep all tasks, shorten FIFOs, start what
is fresh and the oldest left of its room), which composes; and `Served` that it
leaves no slot beside work that could use it.

**OutboxProofs** (2105 obligations).  `TypeCorrect`, `AtLeastOnce`,
`LeaseOutlivesSend`, `DuplicatesAreCaused`, `SettledStaysSettled` and the
refinement `OutboxImplementsDelivery`, for any assignment of keys to messages:
nothing is assumed of `KeyOf`, since the code does not make keys unique.  What the
outbox promises it promises to keys, therefore: that one of the messages of a key
is kept, not each.  `AcceptedIsKept` needs that a row is filed under the key of
its message, and that a key asked for keeps its row until that is pruned
(`Filed`); that a send reports to a row of its own message's key, and was shown if
it reached its provider (`SendsFiled`); and that a row is `sent` only if a message
of its key was shown (`SentIsShown`).  `IInv` adds that rows and sends are finite
(`Finite`), because a crash counts the sends it loses.  `SendInv` says that of the
sends of a message one is awaited at most (`OneAwaited`), and that nobody else may
deliver its message from a row of its own before it is over (`Secured`): the
worker's row is leased to it, and the fast path's, if it got one, is held back for
longer than the send may last, or was marked sent by another caller of the key.
`Paid` counts the copies shown, those that still may be, and the one an unsettled
row stands for, against one and the sends given up.  The refinement maps a key to
its phase in `Delivery`; `Standing` is that phase read off its row, and each
action is shown to take one abstract step or none.

**InboxProofs** (1918 obligations).  `TypeCorrect`, `OutcomesFinal`,
`ClaimsHold`, `ActedOnce`, `CommandsGetAnswers` and `AttemptsStayBounded`, however
long turns take.  The invariant `IInv == Struct /\ Core` says for every event
which of its row, its turn and its histories agree: `Leased` (a turn holds its
row, and the lease covers the time it has left, unless that is over and the timer
took the row; no row is the process's without a turn of it), `Counted` (attempts
against turns, crashes and rows taken back), `Tallied` (turns that acted, or are
about to, against turns cut short, rows taken back and the stored user message),
`Answered` (a reply against the step of the turn and the state of the row).  They
hold or break together: an event has more chances to act than turns that failed,
died or lost its row only while a turn of it holds the row, or once one has
completed it, and from neither can it be claimed.  The rooms run one turn at a
time, so the copy that claims a row which was taken back begins after the turn
that lost it has ended, and that turn reports on the row no more.

**RuntimeProofs** (1768 obligations), the scheduler. `SchedulerTypeCorrect`,
`CancelledStayUnsent`, `BackoffIsServed` and `SchedulesFollowed`. A send begins
only where a claim repeats the conditions of the selection (`BegunByTakeNext`), so
they need an invariant on rows, not on the batch: a cancelled reminder has no row
and its id is not given out again (`CancelledIsGone`); a row whose last failure
still has to wait is retired, or held back by its time or by its claim (`Paced`),
which `releaseClaim` uses for recurring reminders, because their time must not
move. The type of the next occurrence needs that selected reminders were due
(`SelectedIsDue`). `InPhase` says that a recurring row, and what was selected from
it, stands on an occurrence of its schedule, named by a witness so that the solver
need not divide by a variable, and that this occurrence is later than the period
the reminder was last served in; three lemmas state the facts of division it uses.

**RuntimeProofs**, the life of the process. `ConnectionsHaveOwners`, for any
number of generations and messages and any scenes whose messages are messages
(`LifecycleAssumption`). A part for each provider says that what is alive is the
current generation's (`WaSound`, `TgSound`, `DcSound`; for WhatsApp and Telegram
also that no live connection is beside a timer that will start another);
`TurnsSound` that a message keeps its generation; and `Phased` takes the process
through `Booting`, `Up`, `TearingDown` and `Stopped`. The phases meet the
providers in one place: a provider that is quiet (not wanted, no timer, no
connection) stays so until the runtime starts it, so what `stop()` made quiet, or
what was never started because the stop came first, is quiet when the process
exits, whatever events come late.

**TurnProofs** (1287 obligations).  `ProbesAreSingle`, `MutationsOneByOne` and
`AnswersAreWhole`, for any number of turns of a sender, any providers in tiers,
tools and bounds.  The invariant has three parts.  `Probing`: requests through
a circuit are counted only while it is half open and its mark is set.  `Lines`:
the places of a mutating tool's queue are those of the turns that run it or wait,
once each, the run at the head, so that who leaves is the one in front.  `Own`,
turn by turn: what it has heard, shows, may run and has asked, by where it is.
`Turn.TypeOK` is left to TLC: it says which providers may be heard, and that is
what `SelectSeq` computes.

**AccessProofs** (1747 obligations).  `SendersAreKnown` (`SenderKnown`), which is
`RolesAreTheSenders` (`RolesExact`) and the bound on rates (`RateBound`), and the
action property `ChangesAreAuthorised` (`WithinAuthority`), for any persons,
aliases, rooms, messages and scenes, provided that a person has one id on a
platform and on WhatsApp a LID besides (`AliasAssumption`), that what a message
shows is of one person and of its room's platform and that only built-in roles
are assigned (`SceneAssumption`; `RoleTool.ts:334` and 364 refuse others), and
that limits are -1 or positive (`LimitsAssumption`; `AuthService.ts:62-66`).
`Linking` says that an identity belongs to one person, that of its primary alias,
and that aliases once recorded together share theirs from then on; it stands
because two aliases recorded together are all their person has, so that no later
record can move one of them alone.  `Stored` says that rows and lists name
contacts.  `Handled` holds each message against the histories of its sender by
where the message is, and `Watched` says that every step extends these histories
truly.  The history `kept` holds grants and not their roles: a role may come from
one grant first and from another later, and of those neither stood all the time.
`RateInv` weighs a contact's bucket against each message that was let through:
it holds no more than the widest bucket would still grant after that message and
those since (`Meters`), whatever limits it was made, resized and refilled with.
The solvers do not multiply variables, so lemmas state each product once
(`Takes`, `Begins`); a contact without a limit leaves no entry in `sent`.

**StorageProofs** (9648 obligations) and **UpkeepProofs** (3801), one for the
lemmas about what is stored, the theorem about `Downloads` and the lemmas about
`Console`, the other for the rest and for the theorems about `Upkeep`, for any
scenes. A part has an invariant
of its own; its steps keep it, and the steps of the others leave its variables
alone.

* `ProgramsStayContained` (`ProgramsContained`), for any programs and permits.
  The free permits of a kind and the works that hold one come to its capacity, the
  queue holds those that wait, once each (`SemaphoreSound`), and a program that is
  alive is awaited, and is tracked or has been told to end (`WorkSound`).  What
  those in front of a queue want is a sum; each wants one permit, so it is their
  number (`UnitsWanted`), and a release serves exactly those it can.
* `PrivilegesStayTrue` (`PrivilegesTrue`), for any roles and any questions and
  settings that overlap.  `written` is all the values a role had; what is cached
  of it is one of those since the settings that are still about to drop it
  (`HeldTrue`, `Floor`), or it is overtaken; what a question has read or answers
  is one of those since it was asked (`LookupTrue`).
* `MessagesSummarisedOnce` (`SummarisedOnce`), for any number of turns that
  summarise at once.  What a story covers of a view lies in it up to its marker,
  or the marker is not older than the view (`Covered`), and of two views one has
  grown out of the other (`Alike`); so what a turn adds to a summary that another
  stored meanwhile is new to it, in the order of time, which is not that of ids.
* `StoreStaysSafe` (`StoreSafe`), if a lease outlives two heartbeats
  (`StoreAssumption`; `db/index.ts:94-106` renews it each third) and rows have the
  columns and unique ids of their tables (`RetentionAssumption`).  `RunnerSound`:
  a process that runs and did not oversleep holds the lease up to its next beat.
  `BackupsInv`: names are new, a job removes none of the newest, and every
  manifest that is kept has its file.  `Sweeps`: the rows that are gone are those
  due in the categories done and some of the one at hand (`PartGone`), as many as
  are counted; a row is due for one category, so no batch takes what another
  counted.
* The action property `ConsentIsRespected` (`ConsentRespected`), for any calls that
  wait for each other's requests: who has withdrawn the consent has it nowhere and
  no request in flight is about to grant it again, nor has one whose revocation is
  about to be written (`ConsentInv`).
* `FilingStaysTrue` (`FilingTrue`), for any rooms, histories, files and quotas
  (`FilingAssumption`: a batch is not empty, a legacy room has a raw id).
  `HistoryInv`: a key has one room, under one of its two ids, and what a turn has
  found or a history has resolved is the room of its key; what a history was given
  is stored or still to come, unless the database was busy.  `MediaInv`: each save
  has a number of its own; a save that has counted has the slot, has seen every
  file there is, and by the end of its scan found room (`SaverSound`); the cleaner
  counts beside it, and its count is of what it saw (`CleanerSound`); a file that
  is named is there, has lapsed, or is about to be told as gone (`Named`).  Bytes
  are sums over sets of files, as `MapThenSumSet` takes them.
* `BudgetStaysKept` (`BudgetKept`), in `StorageProofs`, for any finite set of
  downloads, any slots, and any budget that no limit exceeds
  (`DownloadsAssumption`; `mediaShared.ts:89` caps a limit at `HARD_MEDIA_MAX_BYTES`,
  the budget itself).  Of slots and the I/O permit, those inside hold one each
  (`Singly`); of bytes, each download holds a number and, while it waits, wants
  another (`Metered`).  A release serves the first `k` of the queue, who want a
  partial sum `g[k]` of it (`Releasing`), and what all hold grows by just that
  (`FedTotal`).  Nobody is in a queue twice, so an abort takes out one waiter and
  the right one (`Without`).
* `ConsoleStaysSound` (`ConsoleSound`), for any browsers and scenes, if the default
  levels are among the levels and a scene's lists are lists (`ConsoleAssumption`).
  A session that is gone is over, or has as many younger ones as there may be:
  who is evicted has the least of the numbers, and above it lie all the others
  (`LeastBelow`).  A load reads when those asked for before it are done
  (`LoadSound`), so no done load is newer than the one that is applied; only the
  first does not wait, and is dropped.  Tools keep their names through the fold
  that enters them: a later one could take a name only as its alias, and is then
  refused (`EnteredAnswers`).

Two lemmas stand for induction. The library's theorems about it take the property
as an operator, which no prover here can give them; `Least` (a set of numbers that
is not empty has a least one) and `NumbersReached` (a set with zero and each
successor holds every number) take it as a set instead. With them the proofs show
what a recursive function computes (`UnitsWanted`, `WantedSums`) and that a fold
over a finite set does not depend on the order it takes its elements in
(`TotalSums`, `BytesTotal`), or, over a list, comes to what its steps lead to
(`FirstOnes`).  `SelectSeq`, `:>` and `@@` mean nothing to the provers; where they
matter, `Console` writes them out (`MapSet`, `MapDelete`, `Instances`).

Only model-checked:

* Liveness (`QueuedLeaves`, `RowsSettle`, `RowsReleased`, `DownloadsSettle`,
  `TurnsEnd`, `ShutdownEnds`): properties under fairness, and anything with
  ENABLED, are out of the prover's reach.
* `FlowsContinued`, `FlowsTrue`, `NoticesRight`, `TimersBounded`, `LibraryTrue`,
  `HealthTrue`, `TasksKept` and `CommandsTrue`: they turn on what the data hold
  (documents, vectors, lines, dates, percentiles), computed by functions over
  sequences, which TLC enumerates.


## Where the code and its documentation disagree

Shown by the run `tasks_echoed`: the id of a scheduled task's message is made of
platform, room and instruction only (`AppRuntime.ts:146-157`), and the agent
ignores a message whose id is stored already (`agent/index.ts:671-690`).  A
recurring task, or one that timed out and is tried again, is charged to the
budget and counted as served, but no turn is run, although
`docs/architecture.md:61` says that each is "executed as an agent turn in its
room at fire time".

Shown by the run `inbox_stranded`: `AppRuntime.ts:786-787` recovers stranded rows
"so they are not lost forever", and `InboxService.ts:190-196` returns them to
`received` "so the claim query can pick them up".  A claim is made by id and only
from a task in memory (`AppRuntime.ts:303-316`); the ledger holds no message to
make a task of.  An event whose task was lost, to a crash, to the age limit of the
queue or to a failed turn, stays `received` or `failed`: the provider's handler has
returned, and nothing delivers it again.  What the code does give is
`RowsReleased`, that no row stays received or processing for ever.

Shown by the run `digest_once`: `docs/architecture.md:69` says of the digests "with
exactly-once delivery via markers in `app_kv`", and `DigestService.ts:7` "Exactly-once
delivery is keyed on the `app_kv` table".  A process that dies after it claimed a
marker (`DigestService.ts:376`, 437) leaves it for good, since only the `catch` of the
same call deletes it (397, 451): that room gets no digest of the day or week.  A
send given up after its time limit although the provider shows it deletes the
marker, and the next poll shows the digest again.  `DigestSettled`, within
`TimersBounded`, bounds both: no more digests are lost than there were crashes, and
none is shown again but for such a send.

Seen while modelling, and excluded from the properties by a condition that
names them:

* *Outbox.*  A timed-out fast-path send stays on the wire, since providers look
  at a signal between chunks only, while the worker sends the row again
  (`OutboxService.ts:12-27`).  Telegram numbers messages per chat, so replies in
  two chats may share a key (`agent/index.ts:169`): the second has no row, and is
  lost if its own send fails, although `docs/architecture.md:53-56` promises
  at-least-once delivery.  The model has such replies; `AcceptedIsKept` promises
  one of the messages of a key.
  `prune` deletes `failed` rows still to be retried (`OutboxService.ts:328-332`).
* *Inbox.*  A chat turn that dies after it stored the user message is completed
  without an answer when it comes again (`agent/index.ts:687`,
  `docs/architecture.md:53`).  No deadline keeps a turn within the lease of 120 s:
  the timer may take its row, and a copy of a command then acts once more.  The
  model has this; `ActsOnce` allows one more turn for each row taken back.
* *Scheduler.*  A recurring reminder that falls due while its platform has no
  sender is moved to the time of the retry (`Scheduler.ts:503` against 443-448).
  `schema.ts:146` speaks of at-most-once delivery; a send that times out, or a
  crash after it, repeats it.
* *Downloads* hold bytes while they wait for more: two that outgrow their
  announcement may wait for each other until one is aborted.
  `DownloadsSettle` is checked on reservations that fit together.
* *Turn.*  A fragment that the accumulator refuses abandons the router's
  generator; if that request was a probe, its mark stays and the provider is not
  tried again (`agent/index.ts:1102`, `docs/architecture.md:40`).  A tool that timed
  out goes on beside the next run of the same tool.
* *Access.*  `setRole` replaces the one row of a user and a scope, so an admin
  who may grant `user` and `premium` takes another admin's role away by granting
  one (`RoleTool.ts:345` against 446).  A grant by number before the LID was known
  is not found by a revocation aimed at the LID.
* *Privileges.*  A query that ran before a setting may be cached after it, and
  loading another role restarts the age of the whole cache
  (`AuthService.ts:539-540`).
* *Flows.*  `pruneAllExpired` deletes or overwrites by id from a snapshot,
  without lock or version: a flow begun meanwhile is gone after a restart
  (`FlowHandler.ts:297`, `docs/flows.md:3`).  A failed second binding leaves the
  first one bound.
* *Webhook.*  A delivery id that is only reserved is answered as a duplicate,
  with 202; if its first copy then fails, nobody delivers the event
  (`WebhookServer.ts:203`, `AppRuntime.ts:571`).  The limit of destinations is
  looked at before duplicates are dropped (`WebhookServer.ts:333`).
* *Digests.*  Besides what `digest_once` shows, a room is sent to on the default
  platform whatever its own (`DigestService.ts:170-173`).
* *Providers.*  A Discord gateway that is lost and resumed leaves the provider in
  backoff (`discord.ts:176`, `docs/provider-staging-matrix.md:59`).  A provider whose
  first `start()` was rejected reconnects but is not admitted
  (`AppRuntime.ts:408-414`).  `createContext` throws when a socket was replaced, and
  nobody catches it (`whatsapp.ts:367`).  A message may be downloaded for a
  Telegram bot that was stopped (`telegram.ts:270-275`).
* *Store.*  A crash between the commit of a migration and the record of its
  fingerprint makes every later start fail.  A snapshot without a manifest is
  never pruned.
* *Media directory.*  The totals a save may trust for a minute are not raised by
  what they let in, so the directory may exceed its quota until the next scan
  (`mediaShared.ts:142-147` and 209); `QuotaKept` excepts those files.  A file that
  another run deleted meanwhile still counts, so more than needed is deleted, or
  the save refused (`mediaShared.ts:192-206`).  A reconciliation that deletes and
  then throws leaves messages naming what it deleted (`MediaStorage.ts:69-70`,
  `MediaCleanup.ts:42-45`), as does a path that is stored after the file was
  deleted (`agent/index.ts:695-701`); `NamesTrue` excepts these (`lapsed`).
* *Summaries.*  After a burst that asks nothing, messages outside the fetched
  window are passed by the watermark untold (`agent/index.ts:776-778` against
  `ConversationSummarizer.ts:135-139`).
* *Knowledge.*  The quota is read before the embeddings are awaited
  (`roomKnowledge.ts:158`).  The script records the model's name where the
  program records a space (`src/scripts/backfillEmbeddings.ts:21`).  A revocation
  whose delete fails is reported as done (`MemoryTool.ts:96`).
* *Console.*  Imports are cached by the process: a reload does not see a file
  that was replaced (`registry.ts:553`).
* *Health.*  The limit of the day refuses a withdrawal as it refuses a verdict
  (`feedback.ts:179`), and a verdict that is taken back after its message has left
  `recentSends` stays counted (`feedback.ts:169`).
* *Tasks.*  `/task /command` is run as a command, where `deniedToolNames` is not
  applied (`agent/index.ts:547-592`, `docs/architecture.md:61`).  The number of a
  reminder that has fired is read as a place in the list
  (`ReminderTool.ts:308-322`).
* *Calendar.*  A monthly reminder keeps to the day it was created on, not to the
  day it was set for (`Scheduler.ts:401`).  One whose hour is skipped when the
  clock is put forward stays an hour later from then on (`Scheduler.ts:158-171`).
* *Commands.*  `parseActionSpecific` counts the words without a name but reads
  the next from among all of them, so that after a `name=value` one a word is
  read twice or the named one is read as it stands; and it ends at the first
  field without a word, so that a later named one is dropped
  (`ParameterValidator.ts:209` and 217).  `WordsKept` is about words without a name.
* *Programs.*  `forceExit` kills tracked programs; one that was terminated and
  lingers is not tracked any more (`process.ts:178`, `index.ts:21-29`).

Hazards no property covers: a task that never settles blocks its room and a slot
(`MessageQueue.ts:126`); a busy room may keep the slots while another's tasks age
out (`MessageQueue.ts:141`); handlers that wait for room retry after later
messages of their room (`AppRuntime.ts:318`); `memorySessions` grows
(`FlowHandler.ts:171`).

## Not modelled

Text: message formats, prompts, translations, webhook adapters. Service clients
and most tools: single requests with no state of their own. Conversion of media.
Similarity of vectors. Parsing of requests, payloads, times and configuration;
nested schemas, which no tool has. The strictness of SQLite's own isolation is
assumed.

## Plan

1. Done: the modules above, with proofs of the queue, the outbox and its
   refinement, the inbox, the scheduler, the turns, the life of the process, who
   a sender is and may do, and of what is stored, run and summarised beside the
   turns.
2. Theorems still open: the agenda of `TasksKept` and the vectors of `LibraryTrue`.
3. An abstract queue (bounded FIFO, one turn a room) that `Inbox` relies on,
   implemented by `MessageQueue`; the composition of flows with the queue.
