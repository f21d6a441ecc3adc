-------------------------------- MODULE Edge --------------------------------
(***************************************************************************)
(* What reaches the bot from outside the chats, and what it sends there by *)
(* itself: Webhook, Notifications and Digests over one registry of rooms.  *)
(*                                                                         *)
(* A scene is what happens around them: the events and how often a client  *)
(* sends each, the commands, the subscriptions and rooms of the start, and *)
(* how many faults of each kind.  The rest are history variables.          *)
(***************************************************************************)
EXTENDS Webhook, Digests

CONSTANT Scenes

VARIABLES
  scene,
  sent,       \* [events of the scene -> times sent]
  left,       \* faults and outside steps left, by kind
  must, may,  \* [Conns -> the rooms the event meant all along, and at some time]
  promised,   \* [event, at, room] of the requests answered as queued
  allowed,    \* [event, room] an event ever meant
  handled,    \* the events answered as queued or as nobody's
  assured,    \* ... with no copy in flight
  admitted,   \* [Keys -> the times at which a request was let in]
  settled,    \* the markers of digests shown or quiet
  shown,      \* [marker -> times shown]
  stalls,     \* [marker -> the sends of it that failed though shown]
  told        \* [week, item] of the media that were told

history == <<must, may, promised, allowed, handled, assured, admitted, settled, shown, stalls, told>>
outside == <<scene, sent, left>>
vars == <<known, notifyVars, webhookVars, digestVars, outside, history>>

Init ==
  /\ scene \in Scenes
  /\ NotifyInit /\ WebhookInit /\ DigestsInit
  /\ known = scene.known
  /\ sent = [e \in scene.events |-> 0]
  /\ left = scene.left
  /\ must = [c \in Conns |-> {}] /\ may = [c \in Conns |-> {}]
  /\ promised = {} /\ allowed = {} /\ handled = {} /\ assured = {}
  /\ admitted = [k \in Keys |-> <<>>]
  /\ settled = {} /\ shown = <<>> /\ stalls = <<>> /\ told = {}

Spend(kind) == left[kind] > 0 /\ left' = [left EXCEPT ![kind] = @ - 1] /\ UNCHANGED <<scene, sent>>

(* The rooms a request's event means now. *)
Wanted(r) ==
  IF r.event.media THEN IF r.event.account = None THEN {}
                        ELSE AdminRooms \cup Subscribed(IF r.at \in {"reading", "binding"} THEN UsersOf(r.event.account) ELSE r.chosen)
  ELSE UNION {Meant(remote, r.event.platform) : remote \in Range(r.event.rooms)}

Observe ==
  LET Goal(c) == IF req'[c].at = "idle" THEN {} ELSE Wanted(req[c])'
  IN  /\ must' = [c \in Conns |-> IF req[c].at = "idle" THEN Goal(c) ELSE must[c] \cap Goal(c)]
      /\ may'  = [c \in Conns |-> IF req'[c].at = "idle" THEN {} ELSE IF req[c].at = "idle" THEN Goal(c) ELSE may[c] \cup Goal(c)]
      /\ allowed' = allowed \cup UNION {{[event |-> req'[c].event.name, room |-> r] : r \in Goal(c)} : c \in {d \in Conns : req'[d].at # "idle"}}

DigestHistory == UNCHANGED <<settled, shown, stalls, told>>
AnswerHistory == UNCHANGED <<promised, handled, assured, admitted>>

Answer(c, queued) ==
  LET e == req[c].event
      at == IF e.id = None THEN clock ELSE 0
  IN  /\ handled' = handled \cup {e.name}
      /\ promised' = IF queued THEN promised \cup {[event |-> e.name, at |-> at, room |-> r] : r \in must[c]} ELSE promised
      /\ UNCHANGED <<assured, admitted>>

Silent == UNCHANGED outside /\ AnswerHistory /\ DigestHistory
Apart == UNCHANGED <<notifyVars, digestVars>>

ClientSends(c, e) ==
  /\ c \in scene.conns /\ sent[e] < scene.sends /\ sent' = [sent EXCEPT ![e] = @ + 1] /\ UNCHANGED <<scene, left>>
  /\ Receive(c, e) /\ UNCHANGED known
  /\ Apart /\ AnswerHistory /\ DigestHistory

Admit(c, answer) ==
  /\ AdmitAs(c, answer) /\ UNCHANGED known
  /\ assured' = IF answer = "duplicate" /\ req[c].event.id \notin pending THEN assured \cup {req[c].event.name} ELSE assured
  /\ admitted' = [k \in Keys |-> IF k \in req[c].event.keys /\ Authentic(req[c].event) /\ Consumed(req[c].event.keys, clock).ok THEN Append(admitted[k], clock) ELSE admitted[k]]
  /\ UNCHANGED <<promised, handled>>
  /\ Apart /\ UNCHANGED outside /\ DigestHistory

RequestStep(c) ==
  \/ /\ (Resolve(c) \/ \E room \in req[c].todo : AddTarget(c, room))
     /\ Silent /\ Apart
  \/ /\ (Reject(c) \/ RefuseRooms(c) \/ Bind(c) \/ Administrators(c) \/ Undeliverable(c))
     /\ UNCHANGED known /\ Silent /\ Apart
  \/ Dispatch(c) /\ Answer(c, TRUE) /\ UNCHANGED outside /\ DigestHistory /\ Apart
  \/ (NoSubscribers(c) \/ Drop(c)) /\ UNCHANGED known /\ Answer(c, FALSE) /\ UNCHANGED outside /\ DigestHistory /\ Apart
  \/ /\ Spend("faults") /\ \E n \in 0..MaxDestinations : DispatchFails(c, n)
     /\ UNCHANGED known /\ AnswerHistory /\ DigestHistory /\ Apart

CommandStep(u) ==
  /\ \/ \E c \in scene.commands : Spend("commands") /\ Notify(u, c)
     \/ (Look(u) \/ Store(u)) /\ UNCHANGED outside
  /\ UNCHANGED <<known, webhookVars, digestVars>> /\ AnswerHistory /\ DigestHistory

(* What happens to the process and around it. *)
Around ==
  /\ \/ Spend("stops") /\ (Unwire \/ StopServer) /\ UNCHANGED known
     \/ UNCHANGED outside /\ Restart /\ UNCHANGED known
     \/ Spend("crashes") /\ Crash /\ UNCHANGED known
     \/ Spend("outages") /\ (\E p \in Platforms : Toggle(p)) /\ UNCHANGED known
     \/ Spend("ticks") /\ Tick /\ UNCHANGED known
     \/ Spend("meets") /\ (\E r \in Room : r \notin known /\ known' = known \cup {r}) /\ UNCHANGED webhookVars
  /\ admitted' = IF buckets' = <<>> THEN [k \in Keys |-> <<>>] ELSE admitted
  /\ UNCHANGED <<promised, handled, assured>> /\ Apart /\ DigestHistory

Times(counts, m) == IF m \in DOMAIN counts THEN counts[m] ELSE 0
Once(counts, m) == (m :> Times(counts, m) + 1) @@ counts
Shown(m) == shown' = Once(shown, m)
Tell == told' = told \cup {[week |-> run.marker.key, item |-> i] : i \in run.items}

DigestStep ==
  /\ \/ Spend("polls") /\ Poll /\ UNCHANGED known /\ DigestHistory
     \/ UNCHANGED outside /\ ClaimDaily /\ DigestHistory
     \/ UNCHANGED outside /\ (BeginWeekly \/ (\E room \in run.todo : ClaimWeekly(room)) \/ EndRun \/ Prepared) /\ UNCHANGED known /\ DigestHistory
     \/ UNCHANGED outside /\ Quiet /\ UNCHANGED known /\ settled' = settled \cup {run.marker} /\ UNCHANGED <<shown, stalls, told>>
     \/ UNCHANGED outside /\ Delivered /\ UNCHANGED known /\ settled' = settled \cup {run.marker} /\ Shown(run.marker) /\ Tell /\ UNCHANGED stalls
     \/ Spend("fails") /\ (PreparingFails \/ SendingFails) /\ UNCHANGED known /\ DigestHistory
     \/ /\ Spend("fails") /\ senders /\ SendingFails /\ UNCHANGED known
        /\ Shown(run.marker) /\ stalls' = Once(stalls, run.marker) /\ Tell /\ UNCHANGED settled
     \/ Spend("items") /\ AddItem /\ UNCHANGED known /\ DigestHistory
     \/ Spend("hours") /\ NextHour /\ UNCHANGED known /\ DigestHistory
     \/ Spend("unwires") /\ UnwireDigests /\ UNCHANGED known /\ DigestHistory
     \/ Spend("restarts") /\ DigestsCrash /\ UNCHANGED known /\ DigestHistory
  /\ UNCHANGED <<notifyVars, webhookVars>> /\ AnswerHistory

Next ==
  /\ \/ \E c \in Conns : (\E e \in scene.events : ClientSends(c, e)) \/ (\E a \in {"admitted", "duplicate", "refused"} : Admit(c, a)) \/ RequestStep(c)
     \/ \E u \in Users : CommandStep(u)
     \/ Around
     \/ DigestStep
  /\ Observe

Spec == Init /\ [][Next]_vars
-----------------------------------------------------------------------------
(* What a client was told is kept, stops, retries, crashes and outages or  *)
(* not: an answer "queued" stands for a row in the outbox for every room   *)
(* the event meant all along, and an event is answered as a duplicate of a *)
(* handled one only when one was (WebhookServer.ts:189-264 and 525-538,    *)
(* AppRuntime.ts:568-625).                                                 *)
NothingLost ==
  /\ \A p \in promised : \E r \in rows : r.event = p.event /\ r.at = p.at /\ r.room = p.room
  /\ assured \subseteq handled

(* A webhook goes to no room it was not meant for: one it names, on the    *)
(* only platform that knows the id, or one somebody concerned had          *)
(* subscribed while it was handled (roomKeys.ts:324-382, AppRuntime.ts:    *)
(* 531-546, WebhookServer.ts:311-372).                                     *)
NothingStray == \A r \in rows : [event |-> r.event, room |-> r.room] \in allowed

(* However requests are spread over sources, a server lets no key in more  *)
(* than twice its allowance within a window, and the tables of the limiter *)
(* and of the replay cache keep their limits (webhooks/utils.ts:267-358).  *)
IntakeBounded ==
  /\ \A k \in Keys : \A i \in DOMAIN admitted[k] :
       Cardinality({j \in i..Len(admitted[k]) : admitted[k][j] - admitted[k][i] < Window}) <= 2 * MaxRequests
  /\ Cardinality(DOMAIN buckets) <= MaxSources
  /\ Cardinality(DOMAIN completed) + Cardinality(pending) <= ReplayMax

(* What is left of exactly-once delivery when processes die and sends are  *)
(* given up: a marker that is claimed hides a digest neither shown nor     *)
(* empty only while it is at work, or for good once for each crash; a      *)
(* digest is shown again only after a send of it that failed although it   *)
(* was shown; and a rollup tells of no item of an earlier week             *)
(* (DigestService.ts:82-98, 339-521).                                      *)
Unsettled == markers \ (settled \cup {run.marker})
DigestSettled ==
  /\ Cardinality(Unsettled) <= scene.left.restarts - left.restarts
  /\ \A m \in DOMAIN shown : shown[m] <= 1 + Times(stalls, m)
  /\ \A t \in told : WeekOf(media[t.item]) >= t.week

(* docs/architecture.md:69 and DigestService.ts:7 say "exactly-once        *)
(* delivery" of the digests: one that was claimed, and is no longer at     *)
(* work, was shown or had nothing to say, and none is shown twice.         *)
DigestsOnce == Unsettled = {} /\ \A m \in DOMAIN shown : shown[m] = 1

(* A webhook reaches the rooms it was meant for, all of them, no others.   *)
NoticesRight == NothingLost /\ NothingStray

(* What requests and timers may do at a time is bounded.                   *)
TimersBounded == IntakeBounded /\ DigestSettled
=============================================================================
