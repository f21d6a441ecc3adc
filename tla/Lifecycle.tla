------------------------------ MODULE Lifecycle ------------------------------
(***************************************************************************)
(* The life of the process: src/src/index.ts boots and shuts down, and     *)
(* src/src/runtime/AppRuntime.ts starts and stops what it is made of: the  *)
(* providers, the HTTP server, the scheduler, the digests, the health      *)
(* monitor, timers and their work, and the queue of messages.              *)
(*                                                                         *)
(* A scene is the providers and messages there are, and how often each     *)
(* kind of thing happens from outside.                                     *)
(***************************************************************************)
EXTENDS WhatsApp, Telegram, Discord

CONSTANT Scenes

ASSUME LifecycleAssumption == \A s \in Scenes : s.msgs \subseteq Msgs

VARIABLES
  scene, left,
  rt,    \* AppRuntime: [at, stopRequested, started, stopping, down]
  on,    \* what runs: "server", "scheduler", "digest", "monitor", "outboxTimer", "upkeepTimer", "queue", "database"
  active, wired, \* the providers admitted, and those with registered senders
  work,  \* what is in flight: "outbox", "retention", "cleanup", "flows"
  proc   \* "up", "stopping", "closing", "exiting", "exited"

rtVars == <<rt, on, active, wired, work, proc>>
outside == <<scene, left>>
vars == <<turnVars, waVars, tgVars, dcVars, rtVars, outside>>

Init ==
  /\ scene \in Scenes /\ left = scene.left
  /\ TurnsInit /\ WaInit /\ TgInit /\ DcInit
  /\ rt = [at |-> "registry", stopRequested |-> FALSE, started |-> FALSE, stopping |-> FALSE, down |-> "none"]
  /\ on = {"queue", "database"} /\ active = {} /\ wired = {} /\ work = {} /\ proc = "up"

Spend(kind) == left[kind] > 0 /\ left' = [left EXCEPT ![kind] = @ - 1] /\ UNCHANGED scene

Operational ==
  {p \in active : IF p = "whatsapp" THEN WaRunning ELSE IF p = "telegram" THEN TgRunning ELSE DcRunning}
Outcome(p) == IF p = "whatsapp" THEN wa.outcome ELSE IF p = "telegram" THEN tg.outcome ELSE dc.outcome
-----------------------------------------------------------------------------
(* The first step of start(): the tools and flows are there, unless a stop *)
(* came first, the providers are started together.                         *)
StartProviders ==
  /\ rt.at = "registry"
  /\ IF rt.stopRequested
     THEN rt' = [rt EXCEPT !.at = "returned"] /\ UNCHANGED <<waVars, tgVars, dcVars>>
     ELSE /\ rt' = [rt EXCEPT !.at = "connecting"]
          /\ IF "whatsapp" \in scene.platforms THEN WaStart ELSE UNCHANGED waVars
          /\ IF "telegram" \in scene.platforms THEN TgStart ELSE UNCHANGED tgVars
          /\ IF "discord" \in scene.platforms THEN DcStart ELSE UNCHANGED dcVars
  /\ UNCHANGED <<turnVars, on, active, wired, work, proc>>

AllSettled == rt.at = "connecting" /\ \A p \in scene.platforms : Outcome(p) # "none"

(* Mutant of Interrupted: a stop during the start goes unnoticed.          *)
InterruptedNever == FALSE

Interrupted == rt.stopRequested

(* A stop came meanwhile: what came up is taken down. *)
Unwind ==
  /\ AllSettled /\ Interrupted
  /\ rt' = [rt EXCEPT !.at = "unwinding", !.started = TRUE, !.down = "work"]
  /\ UNCHANGED <<on, active, wired, work, proc>>

(* The providers whose start() resolved are admitted, whether they run or  *)
(* not, and get their senders; then the server is started.                 *)
Admitted == {p \in scene.platforms : Outcome(p) = "fulfilled"}

RegisterSenders == wired' = Admitted

AdmitProviders ==
  /\ AllSettled /\ ~Interrupted
  /\ rt' = [rt EXCEPT !.at = "server", !.started = TRUE]
  /\ active' = Admitted /\ RegisterSenders /\ on' = on \cup {"server"}
  /\ UNCHANGED <<work, proc>>

ServerFails ==
  /\ AllSettled /\ ~Interrupted
  /\ rt' = [rt EXCEPT !.at = "failing", !.started = TRUE, !.stopRequested = TRUE, !.stopping = TRUE, !.down = "work"]
  /\ active' = Admitted /\ UNCHANGED <<on, wired, work, proc>>

(* A batch of the outbox is sent while any provider runs. *)
Batch == IF Operational # {} THEN {"outbox"} ELSE {}

StartServices ==
  /\ rt.at \in {"server", "scheduler", "digest"}
  /\ IF Interrupted THEN rt' = [rt EXCEPT !.at = "returned"] /\ UNCHANGED <<on, work>>
     ELSE CASE rt.at = "server" -> rt' = [rt EXCEPT !.at = "scheduler"] /\ on' = on \cup {"scheduler"} /\ UNCHANGED work
            [] rt.at = "scheduler" -> rt' = [rt EXCEPT !.at = "digest"] /\ on' = on \cup {"digest"} /\ UNCHANGED work
            [] rt.at = "digest" -> /\ rt' = [rt EXCEPT !.at = "returned"]
                                   /\ on' = on \cup {"monitor", "outboxTimer", "upkeepTimer"}
                                   /\ work' = work \cup Batch \cup {"retention", "cleanup"}
  /\ UNCHANGED <<active, wired, proc>>

(* The timers: each kind of work once at a time. *)
Fires(w) ==
  /\ w \notin work
  /\ IF w \in {"outbox", "retention"} THEN "outboxTimer" \in on ELSE "upkeepTimer" \in on
  /\ w = "outbox" => Operational # {}
  /\ work' = work \cup {w} /\ UNCHANGED <<rt, on, active, wired, proc>>

(* Mutant of Ends: a delivery has no time limit. *)
EndsButOutbox(w) == w # "outbox"

Ends(w) == w \in work

EndWork(w) == Ends(w) /\ work' = work \ {w} /\ UNCHANGED <<rt, on, active, wired, proc>>
-----------------------------------------------------------------------------
(* stop() tears down what was started, and returns at once when nothing    *)
(* was, or when it is under way.                                           *)
Stops == rt.started /\ ~rt.stopping

Stop ==
  IF Stops THEN /\ rt' = [rt EXCEPT !.stopRequested = TRUE, !.stopping = TRUE, !.down = "work"]
                /\ wired' = {} /\ on' = on \ {"outboxTimer"}
  ELSE rt' = [rt EXCEPT !.stopRequested = TRUE] /\ UNCHANGED <<on, wired>>

(* A signal, or an error nobody handles, shuts down once. *)
Shutdown ==
  /\ proc = "up" /\ Stop
  /\ proc' = IF Stops THEN "stopping" ELSE "closing"
  /\ UNCHANGED <<active, work>>

Awaited(stage) == [work |-> {"outbox", "retention"}, upkeep |-> {"cleanup"}, drain |-> {}, flush |-> {"outbox"}, providers |-> {}][stage]

(* The stages of teardown(), up to the providers. *)
TearDown ==
  /\ rt.down \in {"work", "upkeep", "flush"} /\ work \cap Awaited(rt.down) = {}
  /\ CASE rt.down = "work" -> rt' = [rt EXCEPT !.down = "upkeep"] /\ on' = on \ {"upkeepTimer"}
       [] rt.down = "upkeep" -> rt' = [rt EXCEPT !.down = "drain"] /\ on' = on \ {"digest", "scheduler", "server", "monitor", "queue"}
       [] rt.down = "flush" -> rt' = [rt EXCEPT !.down = "providers"] /\ UNCHANGED on
  /\ UNCHANGED <<active, wired, work, proc>>

(* The queue is empty, or its time is up; the outbox is flushed once more. *)
Queued == {m \in Msgs : turn[m].at = "queued"}

Drained ==
  /\ rt.down = "drain" /\ rt' = [rt EXCEPT !.down = "flush"]
  /\ work' = work \cup Batch /\ UNCHANGED <<on, active, wired, proc>>

StopProviders ==
  /\ rt.down = "providers"
  /\ IF "whatsapp" \in scene.platforms THEN WaStop ELSE UNCHANGED waVars
  /\ IF "telegram" \in scene.platforms THEN TgStop ELSE UNCHANGED tgVars
  /\ IF "discord" \in scene.platforms THEN DcStop ELSE UNCHANGED dcVars
  /\ media' = [m \in Msgs |-> IF media[m] = "loading" THEN "lost" ELSE media[m]]
  /\ rt' = [rt EXCEPT !.down = "none", !.started = FALSE, !.stopping = FALSE, !.at = IF @ \in {"unwinding", "failing"} THEN "returned" ELSE @]
  /\ active' = {} /\ proc' = IF proc = "stopping" \/ (rt.at = "failing" /\ proc = "up") THEN "closing" ELSE proc
  /\ UNCHANGED <<turn, rejected, stale, on, wired, work>>

(* The database is closed; the process ends when its children have.        *)
CloseDatabase == proc = "closing" /\ proc' = "exiting" /\ on' = on \ {"database"} /\ UNCHANGED <<rt, active, wired, work>>
Exit == proc = "exiting" /\ proc' = "exited" /\ UNCHANGED <<rt, on, active, wired, work>>
-----------------------------------------------------------------------------
(* The runtime's handler takes a message while the queue is open. *)
Offer(m) == turn[m].at = "offered" /\ Moves(m, IF "queue" \in on THEN "queued" ELSE "dropped") /\ UNCHANGED <<media, rejected, stale>>
Finish(m) == turn[m].at = "queued" /\ Moves(m, "done") /\ UNCHANGED <<media, rejected, stale>>

ProvidersApart == UNCHANGED <<waVars, tgVars, dcVars>>

WhatsAppStep ==
  /\ \/ (WaTimer \/ WaCredentials \/ WaConnect) /\ UNCHANGED <<turnVars, outside>>
     \/ WaStartFails /\ Spend("fails") /\ UNCHANGED turnVars
     \/ \E g \in Gens : (WaOpen(g) \/ WaSeed(g)) /\ UNCHANGED <<turnVars, outside>>
     \/ \E g \in Gens : (WaSeedFails(g) \/ \E out \in BOOLEAN : WaClose(g, out)) /\ Spend("closes") /\ UNCHANGED turnVars
     \/ \E m \in scene.msgs, g \in Gens, how \in {"whatsapp", "history"} : WaArrive(m, g, how) /\ UNCHANGED outside
     \/ \E m \in scene.msgs : (WaRead(m) \/ WaDeliver(m) \/ WaReply(m) \/ WaDownload(m) \/ WaSaved(m)) /\ UNCHANGED outside
  /\ UNCHANGED <<tgVars, dcVars, rtVars>>

TelegramStep ==
  /\ \/ TgTimer /\ UNCHANGED <<turnVars, outside>>
     \/ TgGuard /\ Spend("fails") /\ UNCHANGED turnVars
     \/ \E g \in Gens : (TgAuthenticated(g) \/ TgSeeded(g)) /\ UNCHANGED <<turnVars, outside>>
     \/ \E g \in Gens : TgFails(g) /\ Spend("closes") /\ UNCHANGED turnVars
     \/ \E m \in scene.msgs, g \in Gens : TgArrive(m, g) /\ UNCHANGED outside
     \/ \E m \in scene.msgs : (TgReply(m) \/ TgAct(m) \/ TgFile(m) \/ TgSaved(m)) /\ UNCHANGED outside
  /\ UNCHANGED <<waVars, dcVars, rtVars>>

DiscordStep ==
  /\ \/ \E g \in Gens : (DcLogin(g) \/ DcReady(g) \/ DcResumed(g) \/ DcSeeded(g)) /\ UNCHANGED <<turnVars, outside>>
     \/ \E g \in Gens : DcLoginFails(g) /\ Spend("fails") /\ UNCHANGED turnVars
     \/ \E g \in Gens : (DcReconnecting(g) \/ DcDisconnect(g)) /\ Spend("closes") /\ UNCHANGED turnVars
     \/ \E m \in scene.msgs, g \in Gens : DcArrive(m, g) /\ UNCHANGED outside
     \/ \E m \in scene.msgs : (DcRead(m) \/ DcReply(m) \/ DcDownload(m) \/ DcSaved(m)) /\ UNCHANGED outside
  /\ UNCHANGED <<waVars, tgVars, rtVars>>

RuntimeStep ==
  \/ StartProviders /\ UNCHANGED outside
  \/ (Unwind \/ AdmitProviders \/ StartServices) /\ ProvidersApart /\ UNCHANGED <<turnVars, outside>>
  \/ ServerFails /\ Spend("fails") /\ ProvidersApart /\ UNCHANGED turnVars
  \/ (\E w \in {"outbox", "retention", "cleanup", "flows"} : Fires(w)) /\ Spend("ticks") /\ ProvidersApart /\ UNCHANGED turnVars
  \/ Shutdown /\ (IF rejected THEN UNCHANGED outside ELSE Spend("signals")) /\ ProvidersApart /\ UNCHANGED turnVars
  \/ \E m \in scene.msgs : (Offer(m) \/ Finish(m)) /\ ProvidersApart /\ UNCHANGED <<rtVars, outside>>

TearDownStep ==
  \/ (TearDown \/ Drained \/ CloseDatabase \/ Exit) /\ ProvidersApart /\ UNCHANGED <<turnVars, outside>>
  \/ StopProviders /\ UNCHANGED outside

WorkEnds(w) == EndWork(w) /\ ProvidersApart /\ UNCHANGED <<turnVars, outside>>

Next ==
  /\ proc # "exited"
  /\ WhatsAppStep \/ TelegramStep \/ DiscordStep \/ RuntimeStep \/ TearDownStep \/ \E w \in {"outbox", "retention", "cleanup", "flows"} : WorkEnds(w)

(* The steps of a shutdown and the work they wait for go on; nothing is    *)
(* assumed of the network, of the providers, or of the turns.              *)
Fairness == WF_vars(TearDownStep) /\ \A w \in {"outbox", "retention", "cleanup"} : WF_vars(WorkEnds(w))

Spec == Init /\ [][Next]_vars /\ Fairness
-----------------------------------------------------------------------------
(* Whatever events come late, a provider has no connection but its current *)
(* one, says that it runs only while that one is up and wanted, and no     *)
(* message is answered on a connection that was closed                     *)
(* (whatsapp.ts:290-420 and 814-831, telegram.ts:194-259, discord.ts:      *)
(* 159-255).                                                               *)
ConnectionsOwned ==
  /\ WaLive \subseteq {wa.sock} /\ TgLive \subseteq {tg.bot} /\ DcLive \subseteq {dc.client}
  /\ WaRunning => wa.desired /\ wa.sock # 0 /\ waConn[wa.sock] = "open"
  /\ TgRunning => tg.desired /\ tg.bot # 0 /\ bots[tg.bot] = "polling"
  /\ DcRunning => dc.client # 0 /\ clients[dc.client] = "ready"
  /\ stale = {}

Ended == proc \in {"exiting", "exited"}

(* However a stop and the start race, nothing runs on a closed database,   *)
(* and once both have returned there is no connection, no timer to make    *)
(* one, and no delivery in flight (AppRuntime.ts:262-275, 334-344, 385-398 *)
(* and 448-512).                                                           *)
StopQuiesces ==
  /\ Ended => wired = {} /\ on \cap {"server", "scheduler", "digest", "monitor", "outboxTimer"} = {}
  /\ Ended /\ rt.at = "returned" /\ rt.down = "none" =>
       /\ WaLive \cup TgLive \cup DcLive = {}
       /\ wa.timer = 0 /\ tg.timer = 0
       /\ "outbox" \notin work

(* Once asked to, the process ends, whatever the providers and the turns   *)
(* do (index.ts:51-99, AppRuntime.ts:470-512 and 884).                     *)
ShutdownEnds == (proc # "up") ~> (proc = "exited")

(* A connection that runs has its owner, and none outlives the runtime.    *)
ConnectionsKept == ConnectionsOwned /\ StopQuiesces
-----------------------------------------------------------------------------
(* The scenes TLC plays: each provider with a message, the start and stop  *)
(* of several, and a shutdown at any time.                                 *)
Scene(platforms, msgs, fails, closes, ticks) ==
  [platforms |-> platforms, msgs |-> msgs, left |-> [fails |-> fails, closes |-> closes, ticks |-> ticks, signals |-> 1]]

Chatting(p, closes) == Scene({p}, Msgs, 0, closes, 0)
Failing(p) == Scene({p}, {}, 2, 2, 1)
Together == Scene({"whatsapp", "telegram", "discord"}, {}, 1, 0, 1)

Cast ==
  {Chatting("whatsapp", 1), Chatting("telegram", 2), Chatting("discord", 2), Together}
     \cup {Failing(p) : p \in {"whatsapp", "telegram", "discord"}}
=============================================================================
