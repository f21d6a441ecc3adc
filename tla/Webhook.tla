------------------------------ MODULE Webhook ------------------------------
(***************************************************************************)
(* The intake of webhooks: webhooks/WebhookServer.ts with the rate limiter *)
(* and the replay cache of webhooks/utils.ts, webhooks/rooms.ts and the    *)
(* enqueuer of runtime/AppRuntime.ts.                                      *)
(*                                                                         *)
(* A request reads its body, passes the checks of admission in one step,   *)
(* finds its destinations over several, and is dispatched in one: the      *)
(* enqueuer awaits nothing, so the server's own timeout never wins         *)
(* against it.  Until the process is torn down the enqueuer and the        *)
(* senders are registered together.                                        *)
(***************************************************************************)
EXTENDS Notifications, SequencesExt

CONSTANTS
  Conns,             \* requests handled at a time
  Keys,              \* source and address keys of the rate limiter
  MaxRequests, Window, MaxSources,
  ReplayTtl, ReplayMax,
  MaxDestinations

ASSUME WebhookAssumption == {MaxRequests, Window, MaxSources, ReplayTtl, ReplayMax, MaxDestinations} \subseteq Nat \ {0}

VARIABLES
  clock,
  serving,           \* "up", "closing" (no enqueuer, no sender) or "down"
  operational,       \* the platforms of operational providers
  buckets,           \* key -> [tokens (in parts of a Window), at]
  completed,         \* replay cache: id -> its expiry
  pending,           \* replay cache: the ids being handled
  rows,              \* outbox rows: [event, at, addressed, room]
  req                \* [Conns -> the request being handled]

webhookVars == <<clock, serving, operational, buckets, completed, pending, rows, req>>

NoReq == [at |-> "idle", event |-> None, reserved |-> FALSE, todo |-> {}, targets |-> <<>>, chosen |-> {}]

WebhookInit ==
  /\ clock = 0 /\ serving = "up" /\ operational = Platforms
  /\ buckets = <<>> /\ completed = <<>> /\ pending = {} /\ rows = {}
  /\ req = [c \in Conns |-> NoReq]

Full == MaxRequests * Window

(* Mutant of Pruned: at capacity every bucket goes. *)
PrunedAll(now) == IF Cardinality(DOMAIN buckets) < MaxSources THEN buckets ELSE <<>>

(* WebhookRateLimiter.prune *)
Pruned(now) ==
  IF Cardinality(DOMAIN buckets) < MaxSources THEN buckets
  ELSE Restrict(buckets, {k \in DOMAIN buckets : now - buckets[k].at < 2 * Window})

(* WebhookRateLimiter.consume: unseen keys need room; every key needs a    *)
(* token, and only if all have one is one taken of each.                   *)
Consumed(keys, now) ==
  LET kept   == Pruned(now)
      unseen == keys \ DOMAIN kept
      tokens == [k \in keys |-> IF k \in unseen THEN Full
                                ELSE LET t == kept[k].tokens + (now - kept[k].at) * MaxRequests IN IF t > Full THEN Full ELSE t]
      ok     == \A k \in keys : tokens[k] >= Window
  IN  IF unseen # {} /\ Cardinality(DOMAIN kept) + Cardinality(unseen) > MaxSources THEN [ok |-> FALSE, buckets |-> kept]
      ELSE [ok |-> ok, buckets |-> [k \in keys |-> [tokens |-> tokens[k] - (IF ok THEN Window ELSE 0), at |-> now]] @@ kept]

(* WebhookReplayCache.reserve and its prune *)
Reservation(id, now) ==
  LET live == IF Cardinality(DOMAIN completed) < ReplayMax THEN completed
              ELSE Restrict(completed, {i \in DOMAIN completed : completed[i] > now})
      kept == IF id \in DOMAIN live /\ live[id] <= now THEN Restrict(live, DOMAIN live \ {id}) ELSE live
  IN  IF id \in DOMAIN kept \cup pending THEN [is |-> "duplicate", completed |-> kept]
      ELSE IF Cardinality(DOMAIN kept) + Cardinality(pending) >= ReplayMax THEN [is |-> "capacity", completed |-> kept]
      ELSE [is |-> "reserved", completed |-> kept]

(* completeReplay: nothing if the server's stop has cleared the cache. *)
CompleteReplay(c) ==
  LET id == req[c].event.id
  IN  IF req[c].reserved /\ id \in pending
      THEN pending' = pending \ {id} /\ completed' = (id :> clock + ReplayTtl) @@ completed
      ELSE UNCHANGED <<pending, completed>>

(* Mutant of ReleaseReplay: a failed request is taken for a handled one. *)
ReleaseReplayAsDone(c) == CompleteReplay(c)

(* releaseReplay *)
ReleaseReplay(c) ==
  /\ pending' = IF req[c].reserved THEN pending \ {req[c].event.id} ELSE pending
  /\ UNCHANGED completed

Step(c, changes) == req' = [req EXCEPT ![c] = changes]

Finish(c) == Step(c, NoReq)

Refuse(c) == ReleaseReplay(c) /\ Finish(c)

(* handlePost, up to the body. *)
Receive(c, e) ==
  /\ serving # "down" /\ req[c].at = "idle"
  /\ Step(c, [NoReq EXCEPT !.at = "reading", !.event = e])
  /\ UNCHANGED <<clock, serving, operational, buckets, completed, pending, rows>>

(* readRequestBytesWithLimit and the parser: a body that is too long, too  *)
(* slow or no JSON object.                                                 *)
Reject(c) ==
  /\ req[c].at = "reading" /\ Finish(c)
  /\ UNCHANGED <<clock, serving, operational, buckets, completed, pending, rows>>

(* authenticateSharedSecret and verifyGitHubSignature *)
Authentic(e) == e.signed

(* handlePost: authentication, the rate limiter, the replay cache.  An     *)
(* event without an id is not looked up.                                   *)
AdmitAs(c, answer) ==
  LET e    == req[c].event
      rate == Consumed(e.keys, clock)
      held == Reservation(e.id, clock)
      to   == IF e.media THEN "binding" ELSE "resolving"
  IN  /\ req[c].at = "reading"
      /\ buckets' = IF Authentic(e) THEN rate.buckets ELSE buckets
      /\ answer = IF ~Authentic(e) \/ ~rate.ok THEN "refused"
                  ELSE IF e.id = None THEN "admitted"
                  ELSE IF held.is = "reserved" THEN "admitted" ELSE IF held.is = "duplicate" THEN "duplicate" ELSE "refused"
      /\ completed' = IF Authentic(e) /\ rate.ok /\ e.id # None THEN held.completed ELSE completed
      /\ pending' = IF answer = "admitted" /\ e.id # None THEN pending \cup {e.id} ELSE pending
      /\ IF answer = "admitted" THEN Step(c, [req[c] EXCEPT !.at = to, !.reserved = e.id # None]) ELSE Finish(c)
      /\ UNCHANGED <<clock, serving, operational, rows>>

Asked(c) == IF Len(req[c].targets) < Len(req[c].event.rooms) THEN req[c].event.rooms[Len(req[c].targets) + 1] ELSE None

Target(platform, remote) == [platform |-> platform, remote |-> remote]

(* handleGenericWebhook: resolveWebhookDestinations, a room after another. *)
Resolve(c) ==
  /\ req[c].at = "resolving" /\ Asked(c) # None
  /\ Len(req[c].event.rooms) <= MaxDestinations
  /\ LET d == Destination(Asked(c), req[c].event.platform)
     IN  /\ d.ok
         /\ Step(c, [req[c] EXCEPT !.targets = Append(@, Target(d.platform, Asked(c)))])
         /\ IF d.platform = None THEN UNCHANGED known ELSE Keyed(RoomOf(d.platform, Asked(c)))
  /\ UNCHANGED <<clock, serving, operational, buckets, completed, pending, rows>>

(* The same, where a room or the number of rooms is refused. *)
RefuseRooms(c) ==
  /\ req[c].at = "resolving"
  /\ \/ Len(req[c].event.rooms) > MaxDestinations
     \/ Asked(c) # None /\ ~Destination(Asked(c), req[c].event.platform).ok
  /\ Refuse(c)
  /\ UNCHANGED <<clock, serving, operational, buckets, rows>>

(* handleMediaWebhook and addMediaTargets: the users of the account, no    *)
(* more than MaxDestinations of them, and their rooms.                     *)
Bind(c) ==
  /\ req[c].at = "binding" /\ req[c].event.account # None
  /\ LET linked == UsersOf(req[c].event.account)
     IN  \E users \in SUBSET linked :
           /\ Cardinality(users) = (IF Cardinality(linked) > MaxDestinations THEN MaxDestinations ELSE Cardinality(linked))
           /\ Step(c, [req[c] EXCEPT !.at = "targets", !.todo = Subscribed(users), !.chosen = users])
  /\ UNCHANGED <<clock, serving, operational, buckets, completed, pending, rows>>

(* An adapter found nothing worth telling: no account. *)
Drop(c) ==
  /\ req[c].at = "binding" /\ req[c].event.account = None
  /\ CompleteReplay(c)
  /\ Finish(c)
  /\ UNCHANGED <<clock, serving, operational, buckets, rows>>

(* addTarget: the limit is looked at before the room is known for one that *)
(* is already there.                                                       *)
AddTarget(c, room) ==
  LET d == Destination(room.remote, room.platform)
      t == Target(room.platform, room.remote)
      refused == Len(req[c].targets) >= MaxDestinations \/ ~d.ok
      added   == IF Contains(req[c].targets, t) THEN req[c].targets ELSE Append(req[c].targets, t)
  IN  /\ req[c].at \in {"targets", "admins"} /\ room \in req[c].todo
      /\ IF refused THEN Refuse(c) /\ UNCHANGED known
         ELSE /\ Step(c, [req[c] EXCEPT !.todo = @ \ {room}, !.targets = added])
              /\ Keyed(room)
              /\ UNCHANGED <<pending, completed>>
      /\ UNCHANGED <<clock, serving, operational, buckets, rows>>

(* getAdminNotificationRooms *)
Administrators(c) ==
  /\ req[c].at = "targets" /\ req[c].todo = {}
  /\ Step(c, [req[c] EXCEPT !.at = "admins", !.todo = AdminRooms])
  /\ UNCHANGED <<clock, serving, operational, buckets, completed, pending, rows>>

Ready(c) == \/ req[c].at = "resolving" /\ Asked(c) = None /\ Len(req[c].event.rooms) <= MaxDestinations
            \/ req[c].at = "admins" /\ req[c].todo = {} /\ req[c].targets # <<>>

(* handleMediaWebhook: nobody to tell. *)
NoSubscribers(c) ==
  /\ req[c].at = "admins" /\ req[c].todo = {} /\ req[c].targets = <<>>
  /\ CompleteReplay(c)
  /\ Finish(c)
  /\ UNCHANGED <<clock, serving, operational, buckets, rows>>

(* inferWebhookPlatform; None where it throws. *)
Inferred(t) ==
  LET on == PlatformsOf(t.remote)
  IN  IF t.platform # None THEN t.platform
      ELSE IF Cardinality(on) = 1 THEN CHOOSE p \in on : TRUE
      ELSE IF on = {} THEN Shape[t.remote] ELSE None

Deliverable(c) == \A i \in DOMAIN req[c].targets : Inferred(req[c].targets[i]) \in operational

(* The idempotency key of a row. *)
Row(c, t) == [event |-> req[c].event.name, at |-> IF req[c].event.id = None THEN clock ELSE 0,
              addressed |-> t.platform, room |-> RoomOf(Inferred(t), t.remote)]

RowsOf(c, n) == {Row(c, req[c].targets[i]) : i \in 1..n}

(* dispatch and enqueueWebhook: a row per destination, each under its key, *)
(* which registers the room of one that came without a platform.           *)
Dispatch(c) ==
  /\ Ready(c) /\ serving = "up" /\ operational # {} /\ Deliverable(c)
  /\ rows' = rows \cup RowsOf(c, Len(req[c].targets))
  /\ known' = known \cup {r.room : r \in RowsOf(c, Len(req[c].targets))}
  /\ CompleteReplay(c)
  /\ Finish(c)
  /\ UNCHANGED <<clock, serving, operational, buckets>>

(* The database refuses a row; those before it stay. *)
DispatchFails(c, n) ==
  /\ Ready(c) /\ serving = "up" /\ Deliverable(c)
  /\ n < Len(req[c].targets)
  /\ rows' = rows \cup RowsOf(c, n)
  /\ Refuse(c)
  /\ UNCHANGED <<clock, serving, operational, buckets>>

(* No provider for some destination, or, with the hooks gone, no enqueuer: *)
(* then the request sends by itself, and there is no sender.               *)
Undeliverable(c) ==
  /\ Ready(c) /\ (serving # "up" \/ ~Deliverable(c))
  /\ Refuse(c)
  /\ UNCHANGED <<clock, serving, operational, buckets, rows>>

(* teardown: the hooks first, the server later.  Requests in flight go on. *)
Unwire ==
  /\ serving = "up" /\ serving' = "closing"
  /\ UNCHANGED <<clock, operational, buckets, completed, pending, rows, req>>

StopServer ==
  /\ serving = "closing" /\ serving' = "down"
  /\ buckets' = <<>> /\ completed' = <<>> /\ pending' = {}
  /\ UNCHANGED <<clock, operational, rows, req>>

(* The process dies, and starts again. *)
Crash ==
  /\ serving' = "down"
  /\ buckets' = <<>> /\ completed' = <<>> /\ pending' = {}
  /\ req' = [c \in Conns |-> NoReq]
  /\ UNCHANGED <<clock, operational, rows>>

Restart ==
  /\ serving = "down" /\ req = [c \in Conns |-> NoReq] /\ serving' = "up"
  /\ UNCHANGED <<clock, operational, buckets, completed, pending, rows, req>>

Toggle(p) ==
  /\ operational' = IF p \in operational THEN operational \ {p} ELSE operational \cup {p}
  /\ UNCHANGED <<clock, serving, buckets, completed, pending, rows, req>>

Tick == clock' = clock + 1 /\ UNCHANGED <<serving, operational, buckets, completed, pending, rows, req>>
=============================================================================
