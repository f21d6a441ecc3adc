---------------------------- MODULE RuntimeProofs ----------------------------
(***************************************************************************)
(* Theorems about the two machines that run for as long as the runtime     *)
(* does, each with a specification of its own: Lifecycle, the process and  *)
(* its providers, and Scheduler, its reminders.                            *)
(*                                                                         *)
(* Lifecycle, for any number of generations and messages and any scenes:   *)
(* who owns a connection, and what is left after a stop.  The invariant    *)
(* has a part for each provider (WaSound, TgSound, DcSound), one for the   *)
(* messages (TurnsSound), and one for the runtime (Phased), which goes     *)
(* through four phases.  What the phases need of a provider is that a      *)
(* quiet one stays quiet until it is started, and that it is started only  *)
(* while it is quiet.                                                      *)
(*                                                                         *)
(* Scheduler: its variables are well typed, a cancelled reminder is not    *)
(* sent, a failed send is repeated only after its backoff, and schedules   *)
(* keep their phase.  The phase is a matter of numbers: the next time of a *)
(* recurring reminder is its first one and a multiple of Interval, its     *)
(* period a quotient, and InPhase says how the row, the batch, the send    *)
(* and what was served stand to each other.  The facts on quotients are    *)
(* lemmas of their own, because the solver finds them only with nothing    *)
(* else in sight.                                                          *)
(***************************************************************************)
EXTENDS Lifecycle, Scheduler, TLAPS

(* A socket belongs to the generation of now, which is wanted; a start on  *)
(* its way, or a timer that will start again, has none beside it.          *)
WaTyped ==
  /\ DOMAIN wa = {"desired", "gen", "status", "sock", "timer", "run", "at", "lid", "outcome"}
  /\ wa.gen \in Nat /\ {wa.sock, wa.timer, wa.run} \subseteq 0..MaxGen
  /\ DOMAIN waConn = Gens

WaSound ==
  /\ WaTyped
  /\ wa.at # "none" => wa.run # 0
  /\ wa.run # 0 /\ wa.run = wa.gen => wa.sock = 0
  /\ wa.timer # 0 /\ wa.timer = wa.gen => wa.sock = 0 /\ wa.run # wa.gen
  /\ wa.sock # 0 => wa.sock = wa.gen /\ wa.desired /\ waConn[wa.sock] \in {"connecting", "open"}
  /\ \A g \in Gens : waConn[g] \in {"connecting", "open"} => g = wa.sock
  /\ WaRunning => wa.sock # 0 /\ waConn[wa.sock] = "open"

WaQuiet == ~wa.desired /\ wa.timer = 0 /\ wa.sock = 0

(* The bot there is belongs to the generation of now; it is dead when a    *)
(* timer is to start another.                                              *)
TgTyped ==
  /\ DOMAIN tg = {"desired", "gen", "status", "bot", "timer", "started", "guard", "outcome"}
  /\ tg.gen \in Nat /\ {tg.bot, tg.timer} \subseteq 0..MaxGen
  /\ DOMAIN bots = Gens

TgSound ==
  /\ TgTyped
  /\ tg.bot # 0 => tg.bot = tg.gen /\ tg.desired /\ bots[tg.bot] # "stopped"
  /\ tg.timer # 0 /\ tg.timer = tg.gen /\ tg.bot # 0 => bots[tg.bot] = "dead"
  /\ \A g \in Gens : bots[g] \in {"authenticating", "seeding", "polling"} => g = tg.bot
  /\ TgRunning => tg.bot # 0 /\ bots[tg.bot] = "polling"

TgQuiet == ~tg.desired /\ tg.timer = 0 /\ tg.bot = 0

(* A client that is connected belongs to the generation of now. *)
DcTyped ==
  /\ DOMAIN dc = {"gen", "status", "client", "run", "outcome"}
  /\ dc.gen \in Nat /\ dc.client \in 0..MaxGen
  /\ DOMAIN clients = Gens

DcSound ==
  /\ DcTyped
  /\ dc.client # 0 => dc.client = dc.gen /\ clients[dc.client] # "destroyed"
  /\ \A g \in Gens : clients[g] \in {"up", "ready", "reconnecting", "resumed"} => g = dc.client
  /\ DcRunning => dc.client # 0 /\ clients[dc.client] = "ready"

DcQuiet == dc.client = 0

(* A message has the generation it came in with. *)
TurnsSound ==
  /\ DOMAIN turn = Msgs
  /\ \A m \in Msgs : DOMAIN turn[m] = {"at", "on", "gen"} /\ (turn[m].at # "none" => turn[m].gen \in Gens)
  /\ stale = {}

(* A provider the scene does not have is never started. *)
Absent ==
  /\ "whatsapp" \notin scene.platforms => WaQuiet
  /\ "telegram" \notin scene.platforms => TgQuiet
  /\ "discord" \notin scene.platforms => DcQuiet

Quiet == WaQuiet /\ TgQuiet /\ DcQuiet

Services == {"server", "scheduler", "digest", "monitor", "outboxTimer"}
InService == {"server", "scheduler", "digest", "returned"}
Over == {"closing", "exiting", "exited"}

(* Before start() admits anything; a stop is only noted. *)
Booting ==
  /\ rt.at \in {"registry", "connecting"} /\ ~rt.started /\ ~rt.stopping /\ rt.down = "none"
  /\ wired = {} /\ on \cap Services = {} /\ "outbox" \notin work
  /\ rt.at = "registry" => Quiet
  /\ IF rt.stopRequested THEN proc \in Over ELSE proc = "up"

Up ==
  /\ rt.at \in InService /\ rt.started /\ ~rt.stopping /\ ~rt.stopRequested /\ rt.down = "none"
  /\ proc = "up"

(* By stop(), or by start() itself when it cannot go on. *)
TearingDown ==
  /\ rt.started /\ rt.stopRequested /\ rt.down \in {"work", "upkeep", "drain", "flush", "providers"}
  /\ wired = {} /\ "outboxTimer" \notin on
  /\ rt.down \in {"drain", "flush", "providers"} => on \cap Services = {}
  /\ rt.down = "providers" => "outbox" \notin work
  /\ \/ rt.at \in InService /\ rt.stopping /\ proc = "stopping"
     \/ rt.at = "unwinding" /\ proc \in Over /\ on \cap Services = {}
     \/ rt.at = "failing" /\ rt.stopping /\ proc \in Over \cup {"up"} /\ on \cap Services = {}

Stopped ==
  /\ rt.at \in InService /\ ~rt.started /\ ~rt.stopping /\ rt.stopRequested /\ rt.down = "none"
  /\ wired = {} /\ on \cap Services = {} /\ "outbox" \notin work
  /\ Quiet /\ proc \in Over

Phased ==
  /\ scene \in Scenes
  /\ rt \in [at : InService \cup {"registry", "connecting", "unwinding", "failing"}, stopRequested : BOOLEAN, started : BOOLEAN, stopping : BOOLEAN,
             down : {"none", "work", "upkeep", "drain", "flush", "providers"}]
  /\ Booting \/ Up \/ TearingDown \/ Stopped

IInv == WaSound /\ TgSound /\ DcSound /\ TurnsSound /\ Absent /\ Phased

-----------------------------------------------------------------------------
(***************************************************************************)
(* WhatsApp *)
(***************************************************************************)
WaStep ==
  \/ WaTimer \/ WaCredentials \/ WaConnect \/ WaStartFails
  \/ \E g \in Gens : WaOpen(g) \/ WaSeed(g) \/ WaSeedFails(g) \/ \E out \in BOOLEAN : WaClose(g, out)
  \/ \E m \in Msgs : WaRead(m)

LEMMA WaStartSound ==
  ASSUME WaSound, WaQuiet, WaStart
  PROVE  WaSound'
<1>1. CASE wa.run # 0
  BY <1>1 DEF WaSound, WaTyped, WaQuiet, WaStart, WaStarted, WaRunning
<1>2. CASE wa.run = 0
  <2>1. /\ wa' = [wa EXCEPT !.desired = TRUE, !.status = "starting", !.gen = wa.gen + 1, !.run = wa.gen + 1, !.at = "auth"]
        /\ wa.gen + 1 \in 1..MaxGen /\ waConn' = waConn
    BY <1>2, ProvidersAssumption DEF WaSound, WaTyped, WaStart, WaStarted
  <2>2. WaTyped'
    BY <2>1 DEF WaSound, WaTyped
  <2> QED
    BY <1>2, <2>1, <2>2 DEF WaSound, WaTyped, WaQuiet, WaRunning
<1> QED
  BY <1>1, <1>2

LEMMA WaStopSound ==
  ASSUME WaSound, WaStop
  PROVE  WaSound' /\ WaQuiet'
<1>1. /\ wa' = [wa EXCEPT !.desired = FALSE, !.gen = wa.gen + 1, !.status = "stopped", !.timer = 0, !.sock = 0, !.lid = FALSE]
      /\ waConn' = [g \in Gens |-> IF g = wa.sock THEN "closed" ELSE waConn[g]]
  BY DEF WaStop, WaStopped
<1>2. WaTyped' /\ wa'.desired = FALSE /\ wa'.timer = 0 /\ wa'.sock = 0 /\ wa'.status = "stopped" /\ wa'.run = wa.run /\ wa'.at = wa.at
  BY <1>1, ProvidersAssumption DEF WaSound, WaTyped
<1> QED
  BY <1>1, <1>2 DEF WaSound, WaTyped, WaQuiet, WaRunning

LEMMA WaStepSound ==
  ASSUME WaSound, WaStep
  PROVE  WaSound' /\ (WaQuiet => WaQuiet')
<1> USE DEF WaSound, WaTyped, WaQuiet, WaRunning
<1>1. CASE WaTimer
  <2>1. CASE wa.desired /\ wa.timer = wa.gen /\ wa.run = 0
    <3>1. /\ wa' = [wa EXCEPT !.desired = TRUE, !.status = "starting", !.gen = wa.gen + 1, !.run = wa.gen + 1, !.at = "auth", !.timer = 0]
          /\ wa.gen + 1 \in 1..MaxGen /\ waConn' = waConn /\ wa.timer # 0
      BY <1>1, <2>1, ProvidersAssumption DEF WaTimer, WaStarted
    <3>2. WaTyped'
      BY <3>1, ProvidersAssumption
    <3> QED
      BY <2>1, <3>1, <3>2
  <2>2. CASE ~(wa.desired /\ wa.timer = wa.gen /\ wa.run = 0)
    <3>1. wa' = [wa EXCEPT !.timer = 0] /\ waConn' = waConn
      BY <1>1, <2>2 DEF WaTimer
    <3> QED
      BY <3>1, ProvidersAssumption
  <2> QED
    BY <2>1, <2>2
<1>2. ASSUME wa' = [wa EXCEPT !.run = 0, !.at = "none", !.outcome = IF wa.outcome = "none" THEN "fulfilled" ELSE wa.outcome],
             waConn' = waConn
      PROVE  WaSound' /\ (WaQuiet => WaQuiet')
  <2>1. WaTyped'
    BY <1>2, ProvidersAssumption
  <2> QED
    BY <1>2, <2>1, ProvidersAssumption
<1>3. CASE WaCredentials
  <2>1. CASE WaEnsured(wa.run)
    <3>1. wa' = [wa EXCEPT !.at = "version"] /\ waConn' = waConn /\ wa.run # 0
      BY <1>3, <2>1 DEF WaCredentials
    <3> QED
      BY <3>1, ProvidersAssumption
  <2>2. CASE ~WaEnsured(wa.run)
    BY <1>2, <1>3, <2>2 DEF WaCredentials, WaSettled
  <2> QED
    BY <2>1, <2>2
<1>4. CASE WaConnect
  <2>1. CASE WaEnsured(wa.run)
    <3>1. /\ wa.run # 0 /\ wa.run = wa.gen /\ wa.desired /\ wa.sock = 0 /\ wa.run \in Gens
          /\ wa' = [wa EXCEPT !.run = 0, !.at = "none", !.outcome = IF wa.outcome = "none" THEN "fulfilled" ELSE wa.outcome, !.sock = wa.run]
          /\ waConn' = [g \in Gens |-> IF g = wa.run THEN "connecting" ELSE IF g = wa.sock THEN "closed" ELSE waConn[g]]
      BY <1>4, <2>1, ProvidersAssumption DEF WaConnect, WaEnsured, WaSettled, Gens
    <3>2. WaTyped'
      BY <3>1, ProvidersAssumption
    <3> QED
      BY <3>1, <3>2, ProvidersAssumption
  <2>2. CASE ~WaEnsured(wa.run)
    BY <1>2, <1>4, <2>2 DEF WaConnect, WaSettled
  <2> QED
    BY <2>1, <2>2
<1>5. CASE WaStartFails
  <2>1. CASE WaEnsured(wa.run)
    <3>1. /\ wa.run # 0 /\ wa.run = wa.gen /\ wa.desired /\ wa.sock = 0
          /\ \E t \in {wa.timer, wa.run} :
               wa' = [wa EXCEPT !.run = 0, !.at = "none", !.outcome = IF wa.outcome = "none" THEN "rejected" ELSE wa.outcome,
                                !.sock = 0, !.lid = FALSE, !.status = "backoff", !.timer = t]
          /\ waConn' = waConn
      BY <1>5, <2>1, ProvidersAssumption DEF WaStartFails, WaEnsured, WaSettled, Reconnecting
    <3>2. WaTyped'
      BY <3>1, ProvidersAssumption
    <3> QED
      BY <3>1, <3>2, ProvidersAssumption
  <2>2. CASE ~WaEnsured(wa.run)
    BY <1>2, <1>5, <2>2 DEF WaStartFails, WaSettled
  <2> QED
    BY <2>1, <2>2
<1>6. ASSUME NEW g \in Gens, WaOpen(g)
      PROVE  WaSound' /\ (WaQuiet => WaQuiet')
  <2>1. /\ g = wa.sock /\ g # 0 /\ WaCurrent(g) /\ wa' = [wa EXCEPT !.status = "running"]
        /\ waConn' = [waConn EXCEPT ![g] = "open"]
    BY <1>6, ProvidersAssumption DEF WaOpen, WaCurrent, Gens
  <2>2. WaTyped'
    BY <2>1
  <2> QED
    BY <2>1, <2>2, ProvidersAssumption
<1>7. ASSUME NEW g \in Gens, WaSeed(g) \/ WaSeedFails(g)
      PROVE  WaSound' /\ (WaQuiet => WaQuiet')
  <2>1. (wa' = wa \/ wa' = [wa EXCEPT !.lid = TRUE]) /\ waConn' = waConn
    BY <1>7 DEF WaSeed, WaSeedFails
  <2> QED
    BY <2>1, ProvidersAssumption
<1>8. ASSUME NEW g \in Gens, NEW out \in BOOLEAN, WaClose(g, out)
      PROVE  WaSound' /\ (WaQuiet => WaQuiet')
  <2>1. /\ g = wa.sock /\ g # 0 /\ g \in 0..MaxGen /\ WaCurrent(g)
        /\ waConn' = [waConn EXCEPT ![g] = "closed"] /\ wa' = WaClosed(g, out)
    BY <1>8, ProvidersAssumption DEF WaClose, WaCurrent, WaLive, Gens
  <2>2. /\ wa.timer # wa.gen \/ wa.timer = 0
        /\ wa.run = 0 \/ wa.run # wa.gen
    BY <2>1 DEF WaCurrent
  <2>3. CASE out
    <3>1. wa' = [wa EXCEPT !.sock = 0, !.lid = FALSE, !.status = "error"]
      BY <2>1, <2>3 DEF WaClosed
    <3> QED
      BY <2>1, <2>2, <3>1, ProvidersAssumption
  <2>4. CASE ~out
    <3>1. /\ DOMAIN wa' = DOMAIN wa /\ wa'.sock = 0 /\ wa'.status = "backoff"
          /\ wa'.timer \in {wa.timer, g} /\ wa'.desired = wa.desired /\ wa'.gen = wa.gen /\ wa'.run = wa.run /\ wa'.at = wa.at
      BY <2>1, <2>4 DEF WaClosed, Reconnecting
    <3>2. WaTyped'
      BY <2>1, <3>1, ProvidersAssumption
    <3> QED
      BY <2>1, <2>2, <3>1, <3>2, ProvidersAssumption DEF WaCurrent
  <2> QED
    BY <2>3, <2>4
<1>9. ASSUME NEW m \in Msgs, WaRead(m)
      PROVE  WaSound' /\ (WaQuiet => WaQuiet')
  <2>1. (wa' = wa \/ wa' = [wa EXCEPT !.lid = TRUE]) /\ waConn' = waConn
    BY <1>9 DEF WaRead
  <2> QED
    BY <2>1, ProvidersAssumption
<1> QED
  BY <1>1, <1>3, <1>4, <1>5, <1>6, <1>7, <1>8, <1>9 DEF WaStep

-----------------------------------------------------------------------------
(***************************************************************************)
(* Telegram *)
(***************************************************************************)
TgStep ==
  \/ TgTimer \/ TgGuard
  \/ \E g \in Gens : TgAuthenticated(g) \/ TgSeeded(g) \/ TgFails(g)

(* A start, by the runtime or by the timer, finds no bot alive.            *)
LEMMA TgStartedSound ==
  ASSUME TgSound, NEW t, DOMAIN t = DOMAIN tg, t.timer = 0,
         t.desired = tg.desired, t.status = tg.status, t.gen = tg.gen, t.bot = tg.bot, tg.bot = 0 \/ bots[tg.bot] = "dead",
         tg.gen + 1 \in Gens, tg' = TgStarted(t), bots' = TgBots(t)
  PROVE  TgSound'
<1> USE DEF TgSound, TgTyped, TgRunning
<1>1. CASE TgStarts(t)
  <2>1. /\ DOMAIN tg' = DOMAIN tg /\ tg'.desired = TRUE /\ tg'.status = "starting" /\ tg'.gen = tg.gen + 1 /\ tg'.bot = tg.gen + 1
        /\ tg'.timer = 0
        /\ bots' = [bots EXCEPT ![tg.gen + 1] = "authenticating"]
    BY <1>1 DEF TgStarted, TgBots
  <2> QED
    BY <2>1, ProvidersAssumption DEF Gens
<1>2. CASE ~TgStarts(t)
  <2>1. tg' = t /\ bots' = bots
    BY <1>2 DEF TgStarted, TgBots
  <2> QED
    BY <2>1, ProvidersAssumption
<1> QED
  BY <1>1, <1>2

LEMMA TgStartSound ==
  ASSUME TgSound, TgQuiet, TgStart
  PROVE  TgSound'
<1>1. tg.timer = 0 /\ tg.bot = 0
  BY DEF TgSound, TgTyped, TgQuiet
<1>2. tg.gen + 1 \in Gens
  BY ProvidersAssumption DEF TgStart, TgSound, TgTyped, Gens
<1> QED
  BY <1>1, <1>2, TgStartedSound DEF TgStart

LEMMA TgStopSound ==
  ASSUME TgSound, TgStop
  PROVE  TgSound' /\ TgQuiet'
<1>1. /\ DOMAIN tg' = DOMAIN tg /\ tg'.desired = FALSE /\ tg'.gen = tg.gen + 1 /\ tg'.bot = 0 /\ tg'.status = "stopped" /\ tg'.timer = 0
      /\ bots' = [g \in Gens |-> IF g = tg.bot /\ g \in TgLive THEN "stopped" ELSE bots[g]]
  BY DEF TgStop, TgSound, TgTyped
<1> QED
  BY <1>1, ProvidersAssumption DEF TgSound, TgTyped, TgQuiet, TgRunning, TgLive

LEMMA TgStepSound ==
  ASSUME TgSound, TgStep
  PROVE  TgSound' /\ (TgQuiet => TgQuiet')
<1> USE DEF TgSound, TgTyped, TgQuiet, TgRunning
<1>1. CASE TgTimer
  <2> DEFINE t == [tg EXCEPT !.timer = 0]
  <2>1. CASE t.desired /\ tg.timer = t.gen
    <3>1. tg' = TgStarted(t) /\ bots' = TgBots(t) /\ tg.timer # 0 /\ tg.timer = tg.gen /\ tg.gen < MaxGen
      BY <1>1, <2>1 DEF TgTimer
    <3>2. tg.gen + 1 \in Gens /\ (tg.bot = 0 \/ bots[tg.bot] = "dead")
      BY <3>1, ProvidersAssumption DEF Gens
    <3>3. DOMAIN t = DOMAIN tg /\ t.timer = 0 /\ t.desired = tg.desired /\ t.status = tg.status /\ t.gen = tg.gen /\ t.bot = tg.bot
      OBVIOUS
    <3>4. TgSound'
      BY <3>1, <3>2, <3>3, TgStartedSound
    <3> QED
      BY <3>1, <3>4
  <2>2. CASE ~(t.desired /\ tg.timer = t.gen)
    <3>1. tg' = t /\ bots' = bots
      BY <1>1, <2>2 DEF TgTimer
    <3> QED
      BY <3>1, ProvidersAssumption
  <2> QED
    BY <2>1, <2>2
<1>2. CASE TgGuard
  <2>1. /\ DOMAIN tg' = DOMAIN tg /\ tg'.desired = tg.desired /\ tg'.gen = tg.gen /\ tg'.bot = tg.bot /\ tg'.status = tg.status
        /\ tg'.timer = tg.timer /\ bots' = bots
    BY <1>2 DEF TgGuard, TgSettled
  <2> QED
    BY <2>1
<1>3. ASSUME NEW g \in Gens, bots[g] \in {"authenticating", "seeding", "polling"}
      PROVE  TgCurrent(g) /\ g = tg.bot /\ g # 0 /\ tg.bot \in Gens
  BY <1>3, ProvidersAssumption DEF TgCurrent, Gens
<1>4. ASSUME NEW g \in Gens, TgAuthenticated(g)
      PROVE  TgSound' /\ (TgQuiet => TgQuiet')
  <2>1. tg' = tg /\ bots' = [bots EXCEPT ![g] = "seeding"] /\ g = tg.bot /\ g # 0 /\ bots[g] = "authenticating"
    BY <1>3, <1>4 DEF TgAuthenticated
  <2> QED
    BY <2>1
<1>5. ASSUME NEW g \in Gens, TgSeeded(g)
      PROVE  TgSound' /\ (TgQuiet => TgQuiet')
  <2>1. /\ DOMAIN tg' = DOMAIN tg /\ tg'.desired = tg.desired /\ tg'.gen = tg.gen /\ tg'.bot = tg.bot /\ tg'.status = "running"
        /\ tg'.timer = tg.timer
        /\ bots' = [bots EXCEPT ![g] = "polling"] /\ g = tg.bot /\ g # 0 /\ bots[g] = "seeding"
    BY <1>3, <1>5 DEF TgSeeded, TgSettled
  <2> QED
    BY <2>1
<1>6. ASSUME NEW g \in Gens, TgFails(g)
      PROVE  TgSound' /\ (TgQuiet => TgQuiet')
  <2>1. /\ DOMAIN tg' = DOMAIN tg /\ tg'.desired = tg.desired /\ tg'.gen = tg.gen /\ tg'.bot = tg.bot /\ tg'.status = "backoff"
        /\ tg'.timer \in {tg.timer, g}
        /\ bots' = [bots EXCEPT ![g] = "dead"] /\ g = tg.bot /\ g # 0 /\ g \in 0..MaxGen
    BY <1>3, <1>6, ProvidersAssumption DEF TgFails, TgSettled, TgLive
  <2> QED
    BY <2>1
<1> QED
  BY <1>1, <1>2, <1>4, <1>5, <1>6 DEF TgStep

-----------------------------------------------------------------------------
(***************************************************************************)
(* Discord *)
(***************************************************************************)
DcStep ==
  \E g \in Gens : DcLogin(g) \/ DcLoginFails(g) \/ DcReady(g) \/ DcReconnecting(g) \/ DcResumed(g) \/ DcDisconnect(g) \/ DcSeeded(g)

LEMMA DcStartSound ==
  ASSUME DcSound, DcQuiet, DcStart
  PROVE  DcSound'
<1>1. /\ DOMAIN dc' = DOMAIN dc /\ dc'.gen = dc.gen + 1 /\ dc'.client = dc.gen + 1 /\ dc'.status = "starting"
      /\ dc.gen + 1 \in Gens /\ clients' = [clients EXCEPT ![dc.gen + 1] = "login"]
  BY ProvidersAssumption DEF DcStart, DcSound, DcTyped, Gens
<1> QED
  BY <1>1, ProvidersAssumption DEF DcSound, DcTyped, DcQuiet, DcRunning, Gens

LEMMA DcStopSound ==
  ASSUME DcSound, DcStop
  PROVE  DcSound' /\ DcQuiet'
<1>1. /\ DOMAIN dc' = DOMAIN dc /\ dc'.gen = dc.gen + 1 /\ dc'.client = 0 /\ dc'.status = "stopped"
      /\ clients' = [g \in Gens |-> IF g = dc.client /\ clients[g] # "login" THEN "destroyed" ELSE clients[g]]
  BY DEF DcStop, DcSound, DcTyped
<1> QED
  BY <1>1, ProvidersAssumption DEF DcSound, DcTyped, DcQuiet, DcRunning

LEMMA DcStepSound ==
  ASSUME DcSound, DcStep
  PROVE  DcSound' /\ (DcQuiet => DcQuiet')
<1> USE DEF DcSound, DcTyped, DcQuiet, DcRunning
<1>1. PICK g \in Gens : DcLogin(g) \/ DcLoginFails(g) \/ DcReady(g) \/ DcReconnecting(g) \/ DcResumed(g) \/ DcDisconnect(g) \/ DcSeeded(g)
  BY DEF DcStep
<1>2. g # 0
  BY ProvidersAssumption DEF Gens
<1>3. CASE DcLogin(g)
  <2>1. /\ DOMAIN dc' = DOMAIN dc /\ dc'.gen = dc.gen /\ dc'.client = dc.client /\ dc'.status = dc.status
        /\ clients' = [clients EXCEPT ![g] = IF DcCurrent(g) THEN "up" ELSE "destroyed"] /\ clients[g] = "login"
    BY <1>3 DEF DcLogin, DcSettled, DcLoggedIn
  <2> QED
    BY <1>2, <2>1 DEF DcCurrent
<1>4. CASE DcLoginFails(g)
  <2>1. CASE dc.gen # g
    <3>1. /\ DOMAIN dc' = DOMAIN dc /\ dc'.gen = dc.gen /\ dc'.client = dc.client /\ dc'.status = dc.status
          /\ clients' = [clients EXCEPT ![g] = "destroyed"] /\ clients[g] = "login"
      BY <1>4, <2>1 DEF DcLoginFails, DcSettled
    <3> QED
      BY <1>2, <2>1, <3>1
  <2>2. CASE dc.gen = g
    <3>1. /\ DOMAIN dc' = DOMAIN dc /\ dc'.gen = dc.gen /\ dc'.client = 0 /\ dc'.status = "error"
          /\ clients' = [clients EXCEPT ![g] = "destroyed"] /\ clients[g] = "login"
      BY <1>4, <2>2 DEF DcLoginFails, DcSettled
    <3> QED
      BY <1>2, <2>2, <3>1, ProvidersAssumption
  <2> QED
    BY <2>1, <2>2
<1>5. CASE DcReady(g)
  <2>1. /\ DOMAIN dc' = DOMAIN dc /\ dc'.gen = dc.gen /\ dc'.client = dc.client /\ dc'.status = "running"
        /\ clients' = [clients EXCEPT ![g] = "ready"] /\ g = dc.client
    BY <1>2, <1>5 DEF DcReady, DcCurrent
  <2> QED
    BY <1>2, <2>1
<1>6. CASE DcReconnecting(g)
  <2>1. /\ DOMAIN dc' = DOMAIN dc /\ dc'.gen = dc.gen /\ dc'.client = dc.client /\ dc'.status # "running"
        /\ clients' = [clients EXCEPT ![g] = "reconnecting"] /\ g = dc.client
    BY <1>2, <1>6 DEF DcReconnecting
  <2> QED
    BY <1>2, <2>1
<1>7. CASE DcResumed(g)
  <2>1. dc' = dc /\ clients' = [clients EXCEPT ![g] = "resumed"] /\ g = dc.client /\ clients[g] = "reconnecting"
    BY <1>2, <1>7 DEF DcResumed
  <2> QED
    BY <1>2, <2>1
<1>8. CASE DcDisconnect(g)
  <2>1. /\ DOMAIN dc' = DOMAIN dc /\ dc'.gen = dc.gen /\ dc'.client = dc.client /\ dc'.status = "error"
        /\ clients' = [clients EXCEPT ![g] = "dead"] /\ g = dc.client
    BY <1>2, <1>8 DEF DcDisconnect, DcLive
  <2> QED
    BY <1>2, <2>1
<1>9. CASE DcSeeded(g)
  BY <1>9 DEF DcSeeded
<1> QED
  BY <1>1, <1>3, <1>4, <1>5, <1>6, <1>7, <1>8, <1>9

-----------------------------------------------------------------------------
(***************************************************************************)
(* Messages *)
(***************************************************************************)
Arrives(m) == \E g \in Gens : \E at, on_ : turn' = [turn EXCEPT ![m] = [at |-> at, on |-> on_, gen |-> g]]
Proceeds(m) == turn[m].at # "none" /\ \E at : Moves(m, at)

LEMMA TurnsKept ==
  ASSUME TurnsSound, NEW m \in Msgs, Arrives(m) \/ Proceeds(m) \/ turn' = turn, stale' = stale
  PROVE  TurnsSound'
<1>1. ASSUME NEW g \in Gens, NEW at, NEW on_, turn' = [turn EXCEPT ![m] = [at |-> at, on |-> on_, gen |-> g]]
      PROVE  TurnsSound'
  BY <1>1 DEF TurnsSound
<1>2. ASSUME NEW at, turn[m].at # "none", Moves(m, at)
      PROVE  TurnsSound'
  <2>1. DOMAIN turn' = Msgs /\ \A n \in Msgs : n # m => turn'[n] = turn[n]
    BY <1>2 DEF TurnsSound, Moves
  <2>2. DOMAIN turn'[m] = {"at", "on", "gen"} /\ turn'[m].gen = turn[m].gen
    BY <1>2 DEF TurnsSound, Moves
  <2> QED
    BY <1>2, <2>1, <2>2 DEF TurnsSound
<1>3. CASE turn' = turn
  BY <1>3 DEF TurnsSound
<1> QED
  BY <1>1, <1>2, <1>3 DEF Arrives, Proceeds

(* Whoever may answer a message finds the connection it came in on alive.  *)
LEMMA AnsweredAlive ==
  ASSUME IInv, NEW m \in Msgs, WaReply(m) \/ TgReply(m) \/ TgAct(m) \/ DcReply(m)
  PROVE  stale' = {} /\ turn' = turn
<1>1. turn[m].at = "queued" /\ turn[m].gen \in Gens /\ turn[m].gen # 0 /\ stale = {}
  BY ProvidersAssumption DEF IInv, TurnsSound, WaReply, TgReply, TgAct, DcReply, Gens
<1>2. CASE WaReply(m)
  <2>1. turn[m].gen \in WaLive
    BY <1>1, <1>2 DEF IInv, WaSound, WaReply, WaMayAct, WaCurrent, WaLive
  <2> QED
    BY <1>1, <1>2, <2>1 DEF WaReply
<1>3. CASE TgReply(m)
  BY <1>1, <1>3 DEF IInv, TgSound, TgReply
<1>4. CASE TgAct(m)
  BY <1>1, <1>4 DEF IInv, TgSound, TgAct, TgCurrent
<1>5. CASE DcReply(m)
  BY <1>1, <1>5 DEF IInv, DcSound, DcReply, DcMayAct, DcCurrent
<1> QED
  BY <1>2, <1>3, <1>4, <1>5

-----------------------------------------------------------------------------
(***************************************************************************)
(* Steps of the providers *)
(***************************************************************************)
LEMMA PhasedKept ==
  ASSUME Phased, UNCHANGED rtVars, scene' = scene, Quiet => Quiet'
  PROVE  Phased'
BY DEF Phased, Booting, Up, TearingDown, Stopped, rtVars

LEMMA AbsentKept ==
  ASSUME Absent, scene' = scene, WaQuiet => WaQuiet', TgQuiet => TgQuiet', DcQuiet => DcQuiet'
  PROVE  Absent'
BY DEF Absent

LEMMA WaUnchanged ==
  ASSUME WaSound, UNCHANGED waVars
  PROVE  WaSound' /\ (WaQuiet => WaQuiet')
BY DEF WaSound, WaTyped, WaQuiet, WaRunning, waVars

LEMMA TgUnchanged ==
  ASSUME TgSound, UNCHANGED tgVars
  PROVE  TgSound' /\ (TgQuiet => TgQuiet')
BY DEF TgSound, TgTyped, TgQuiet, TgRunning, tgVars

LEMMA DcUnchanged ==
  ASSUME DcSound, UNCHANGED dcVars
  PROVE  DcSound' /\ (DcQuiet => DcQuiet')
BY DEF DcSound, DcTyped, DcQuiet, DcRunning, dcVars

LEMMA ScenesMessages ==
  ASSUME IInv
  PROVE  scene \in Scenes /\ scene.msgs \subseteq Msgs
BY LifecycleAssumption DEF IInv, Phased

(* A step of one provider, or of a message, leaves the runtime as it is.   *)
LEMMA ProviderStepKeeps ==
  ASSUME IInv, UNCHANGED rtVars, scene' = scene, TurnsSound',
         WaStep \/ UNCHANGED waVars, TgStep \/ UNCHANGED tgVars, DcStep \/ UNCHANGED dcVars
  PROVE  IInv'
<1>1. WaSound' /\ (WaQuiet => WaQuiet')
  BY WaStepSound, WaUnchanged DEF IInv
<1>2. TgSound' /\ (TgQuiet => TgQuiet')
  BY TgStepSound, TgUnchanged DEF IInv
<1>3. DcSound' /\ (DcQuiet => DcQuiet')
  BY DcStepSound, DcUnchanged DEF IInv
<1>4. Absent' /\ Phased'
  BY <1>1, <1>2, <1>3, AbsentKept, PhasedKept DEF IInv, Quiet
<1> QED
  BY <1>1, <1>2, <1>3, <1>4 DEF IInv

LEMMA WhatsAppKeeps == IInv /\ WhatsAppStep => IInv'
<1> SUFFICES ASSUME IInv, WhatsAppStep PROVE IInv'
  OBVIOUS
<1>1. UNCHANGED rtVars /\ UNCHANGED tgVars /\ UNCHANGED dcVars
  BY DEF WhatsAppStep
<1>2. scene' = scene /\ (WaStep \/ UNCHANGED waVars) /\ TurnsSound'
  <2>1. CASE (WaTimer \/ WaCredentials \/ WaConnect) /\ UNCHANGED <<turnVars, outside>>
    BY <2>1 DEF WaStep, outside, turnVars, IInv, TurnsSound
  <2>2. CASE WaStartFails /\ Spend("fails") /\ UNCHANGED turnVars
    BY <2>2 DEF WaStep, Spend, turnVars, IInv, TurnsSound
  <2>3. CASE \E g \in Gens : (WaOpen(g) \/ WaSeed(g)) /\ UNCHANGED <<turnVars, outside>>
    BY <2>3 DEF WaStep, outside, turnVars, IInv, TurnsSound
  <2>4. CASE \E g \in Gens : (WaSeedFails(g) \/ \E out \in BOOLEAN : WaClose(g, out)) /\ Spend("closes") /\ UNCHANGED turnVars
    BY <2>4 DEF WaStep, Spend, turnVars, IInv, TurnsSound
  <2>5. ASSUME NEW m \in scene.msgs, NEW g \in Gens, NEW how \in {"whatsapp", "history"}, WaArrive(m, g, how), UNCHANGED outside
        PROVE  scene' = scene /\ (WaStep \/ UNCHANGED waVars) /\ TurnsSound'
    <3>1. m \in Msgs /\ Arrives(m) /\ stale' = stale /\ UNCHANGED waVars
      BY <2>5, ScenesMessages DEF WaArrive, Arrives
    <3> QED
      BY <2>5, <3>1, TurnsKept DEF outside, IInv
  <2>6. ASSUME NEW m \in scene.msgs, WaRead(m) \/ WaDeliver(m) \/ WaReply(m) \/ WaDownload(m) \/ WaSaved(m), UNCHANGED outside
        PROVE  scene' = scene /\ (WaStep \/ UNCHANGED waVars) /\ TurnsSound'
    <3>1. m \in Msgs /\ scene' = scene /\ TurnsSound
      BY <2>6, ScenesMessages DEF outside, IInv
    <3>2. CASE WaRead(m)
      <4>1. Proceeds(m) /\ stale' = stale
        BY <3>2 DEF WaRead, Proceeds
      <4> QED
        BY <3>1, <3>2, <4>1, TurnsKept DEF WaStep
    <3>3. CASE WaDeliver(m)
      <4>1. Proceeds(m) /\ stale' = stale /\ UNCHANGED waVars
        BY <3>3 DEF WaDeliver, Proceeds
      <4> QED
        BY <3>1, <4>1, TurnsKept
    <3>4. CASE WaReply(m)
      <4>1. stale' = stale /\ turn' = turn /\ UNCHANGED waVars
        BY <3>1, <3>4, AnsweredAlive DEF WaReply, TurnsSound
      <4> QED
        BY <3>1, <4>1, TurnsKept
    <3>5. CASE WaDownload(m) \/ WaSaved(m)
      <4>1. stale' = stale /\ turn' = turn /\ UNCHANGED waVars
        BY <3>5 DEF WaDownload, WaSaved
      <4> QED
        BY <3>1, <4>1, TurnsKept
    <3> QED
      BY <2>6, <3>2, <3>3, <3>4, <3>5
  <2> QED
    BY <2>1, <2>2, <2>3, <2>4, <2>5, <2>6 DEF WhatsAppStep
<1> QED
  BY <1>1, <1>2, ProviderStepKeeps

LEMMA TelegramKeeps == IInv /\ TelegramStep => IInv'
<1> SUFFICES ASSUME IInv, TelegramStep PROVE IInv'
  OBVIOUS
<1>1. UNCHANGED rtVars /\ UNCHANGED waVars /\ UNCHANGED dcVars
  BY DEF TelegramStep
<1>2. scene' = scene /\ (TgStep \/ UNCHANGED tgVars) /\ TurnsSound'
  <2>1. CASE TgTimer /\ UNCHANGED <<turnVars, outside>>
    BY <2>1 DEF TgStep, outside, turnVars, IInv, TurnsSound
  <2>2. CASE TgGuard /\ Spend("fails") /\ UNCHANGED turnVars
    BY <2>2 DEF TgStep, Spend, turnVars, IInv, TurnsSound
  <2>3. CASE \E g \in Gens : (TgAuthenticated(g) \/ TgSeeded(g)) /\ UNCHANGED <<turnVars, outside>>
    BY <2>3 DEF TgStep, outside, turnVars, IInv, TurnsSound
  <2>4. CASE \E g \in Gens : TgFails(g) /\ Spend("closes") /\ UNCHANGED turnVars
    BY <2>4 DEF TgStep, Spend, turnVars, IInv, TurnsSound
  <2>5. ASSUME NEW m \in scene.msgs, NEW g \in Gens, TgArrive(m, g), UNCHANGED outside
        PROVE  scene' = scene /\ (TgStep \/ UNCHANGED tgVars) /\ TurnsSound'
    <3>1. m \in Msgs /\ Arrives(m) /\ stale' = stale /\ UNCHANGED tgVars
      BY <2>5, ScenesMessages DEF TgArrive, Arrives
    <3> QED
      BY <2>5, <3>1, TurnsKept DEF outside, IInv
  <2>6. ASSUME NEW m \in scene.msgs, TgReply(m) \/ TgAct(m) \/ TgFile(m) \/ TgSaved(m), UNCHANGED outside
        PROVE  scene' = scene /\ (TgStep \/ UNCHANGED tgVars) /\ TurnsSound'
    <3>1. m \in Msgs /\ scene' = scene /\ TurnsSound
      BY <2>6, ScenesMessages DEF outside, IInv
    <3>2. stale' = stale /\ turn' = turn /\ UNCHANGED tgVars
      BY <2>6, <3>1, AnsweredAlive DEF TgReply, TgAct, TgFile, TgSaved, TurnsSound
    <3> QED
      BY <3>1, <3>2, TurnsKept
  <2> QED
    BY <2>1, <2>2, <2>3, <2>4, <2>5, <2>6 DEF TelegramStep
<1> QED
  BY <1>1, <1>2, ProviderStepKeeps

LEMMA DiscordKeeps == IInv /\ DiscordStep => IInv'
<1> SUFFICES ASSUME IInv, DiscordStep PROVE IInv'
  OBVIOUS
<1>1. UNCHANGED rtVars /\ UNCHANGED waVars /\ UNCHANGED tgVars
  BY DEF DiscordStep
<1>2. scene' = scene /\ (DcStep \/ UNCHANGED dcVars) /\ TurnsSound'
  <2>1. CASE \E g \in Gens : (DcLogin(g) \/ DcReady(g) \/ DcResumed(g) \/ DcSeeded(g)) /\ UNCHANGED <<turnVars, outside>>
    BY <2>1 DEF DcStep, outside, turnVars, IInv, TurnsSound
  <2>2. CASE \E g \in Gens : DcLoginFails(g) /\ Spend("fails") /\ UNCHANGED turnVars
    BY <2>2 DEF DcStep, Spend, turnVars, IInv, TurnsSound
  <2>3. CASE \E g \in Gens : (DcReconnecting(g) \/ DcDisconnect(g)) /\ Spend("closes") /\ UNCHANGED turnVars
    BY <2>3 DEF DcStep, Spend, turnVars, IInv, TurnsSound
  <2>4. ASSUME NEW m \in scene.msgs, NEW g \in Gens, DcArrive(m, g), UNCHANGED outside
        PROVE  scene' = scene /\ (DcStep \/ UNCHANGED dcVars) /\ TurnsSound'
    <3>1. m \in Msgs /\ Arrives(m) /\ stale' = stale /\ UNCHANGED dcVars
      BY <2>4, ScenesMessages DEF DcArrive, Arrives
    <3> QED
      BY <2>4, <3>1, TurnsKept DEF outside, IInv
  <2>5. ASSUME NEW m \in scene.msgs, DcRead(m) \/ DcReply(m) \/ DcDownload(m) \/ DcSaved(m), UNCHANGED outside
        PROVE  scene' = scene /\ (DcStep \/ UNCHANGED dcVars) /\ TurnsSound'
    <3>1. m \in Msgs /\ scene' = scene /\ TurnsSound
      BY <2>5, ScenesMessages DEF outside, IInv
    <3>2. CASE DcRead(m)
      <4>1. Proceeds(m) /\ stale' = stale /\ UNCHANGED dcVars
        BY <3>2 DEF DcRead, Proceeds
      <4> QED
        BY <3>1, <4>1, TurnsKept
    <3>3. CASE DcReply(m) \/ DcDownload(m) \/ DcSaved(m)
      <4>1. stale' = stale /\ turn' = turn /\ UNCHANGED dcVars
        BY <3>1, <3>3, AnsweredAlive DEF DcReply, DcDownload, DcSaved, TurnsSound
      <4> QED
        BY <3>1, <4>1, TurnsKept
    <3> QED
      BY <2>5, <3>2, <3>3
  <2> QED
    BY <2>1, <2>2, <2>3, <2>4, <2>5 DEF DiscordStep
<1> QED
  BY <1>1, <1>2, ProviderStepKeeps

-----------------------------------------------------------------------------
(***************************************************************************)
(* Steps of the runtime *)
(***************************************************************************)
Kinds == {"outbox", "retention", "cleanup", "flows"}

(* What the runtime does to its own state goes through the phases.         *)
LEMMA StartPhased ==
  ASSUME Phased, scene' = scene, Quiet => Quiet',
         Unwind \/ AdmitProviders \/ ServerFails \/ StartServices \/ Shutdown \/ \E w \in Kinds : Fires(w)
  PROVE  Phased'
<1> USE DEF Phased, Booting, Up, TearingDown, Stopped, InService, Services, Over
<1>1. CASE Unwind
  <2>1. rt' = [rt EXCEPT !.at = "unwinding", !.started = TRUE, !.down = "work"] /\ rt.at = "connecting" /\ rt.stopRequested
        /\ UNCHANGED <<on, active, wired, work, proc>>
    BY <1>1 DEF Unwind, AllSettled, Interrupted
  <2> QED
    BY <2>1
<1>2. CASE AdmitProviders
  <2>1. rt' = [rt EXCEPT !.at = "server", !.started = TRUE] /\ rt.at = "connecting" /\ ~rt.stopRequested /\ proc' = proc
    BY <1>2 DEF AdmitProviders, AllSettled, Interrupted
  <2> QED
    BY <2>1
<1>3. CASE ServerFails
  <2>1. rt' = [rt EXCEPT !.at = "failing", !.started = TRUE, !.stopRequested = TRUE, !.stopping = TRUE, !.down = "work"]
        /\ rt.at = "connecting" /\ UNCHANGED <<on, wired, work, proc>> /\ ~rt.stopRequested
    BY <1>3 DEF ServerFails, AllSettled, Interrupted
  <2> QED
    BY <2>1
<1>4. CASE StartServices
  <2>1. rt.at \in InService /\ UNCHANGED <<active, wired, proc>>
    BY <1>4 DEF StartServices
  <2>2. CASE rt.stopRequested
    <3>1. rt' = [rt EXCEPT !.at = "returned"] /\ UNCHANGED <<on, work>>
      BY <1>4, <2>2 DEF StartServices, Interrupted
    <3> QED
      BY <2>1, <2>2, <3>1
  <2>3. CASE ~rt.stopRequested
    <3>1. \E at \in InService : rt' = [rt EXCEPT !.at = at]
      BY <1>4, <2>3 DEF StartServices, Interrupted
    <3> QED
      BY <2>1, <2>3, <3>1
  <2> QED
    BY <2>2, <2>3
<1>5. CASE Shutdown
  <2>1. CASE Stops
    BY <1>5, <2>1 DEF Shutdown, Stop, Stops
  <2>2. CASE ~Stops
    BY <1>5, <2>2 DEF Shutdown, Stop, Stops
  <2> QED
    BY <2>1, <2>2
<1>6. ASSUME NEW w \in Kinds, Fires(w)
      PROVE  Phased'
  <2>1. work' = work \cup {w} /\ (w = "outbox" => "outboxTimer" \in on) /\ UNCHANGED <<rt, on, active, wired, proc>>
    BY <1>6 DEF Fires
  <2> QED
    BY <2>1
<1> QED
  BY <1>1, <1>2, <1>3, <1>4, <1>5, <1>6

LEMMA EndPhased ==
  ASSUME Phased, scene' = scene, Quiet => Quiet',
         TearDown \/ Drained \/ CloseDatabase \/ Exit \/ \E w \in Kinds : EndWork(w)
  PROVE  Phased'
<1> USE DEF Phased, Booting, Up, TearingDown, Stopped, InService, Services, Over
<1>1. CASE TearDown
  <2>1. rt.down \in {"work", "upkeep", "flush"} /\ UNCHANGED <<active, wired, work, proc>>
    BY <1>1 DEF TearDown
  <2>2. CASE rt.down = "work"
    BY <1>1, <2>1, <2>2 DEF TearDown
  <2>3. CASE rt.down = "upkeep"
    BY <1>1, <2>1, <2>3 DEF TearDown
  <2>4. CASE rt.down = "flush"
    BY <1>1, <2>1, <2>4 DEF TearDown, Awaited
  <2> QED
    BY <2>1, <2>2, <2>3, <2>4
<1>2. CASE Drained
  BY <1>2 DEF Drained
<1>3. CASE CloseDatabase
  BY <1>3 DEF CloseDatabase
<1>4. CASE Exit
  BY <1>4 DEF Exit
<1>5. ASSUME NEW w \in Kinds, EndWork(w)
      PROVE  Phased'
  BY <1>5 DEF EndWork
<1> QED
  BY <1>1, <1>2, <1>3, <1>4, <1>5

(* The providers start together, from rest, and stop together.             *)
LEMMA StartProvidersKeeps ==
  ASSUME IInv, StartProviders, UNCHANGED outside
  PROVE  IInv'
<1>1. rt.at = "registry" /\ Booting /\ Quiet /\ scene' = scene /\ turn' = turn /\ stale' = stale
      /\ UNCHANGED <<on, active, wired, work, proc>>
  BY DEF IInv, Phased, Booting, Up, TearingDown, Stopped, InService, StartProviders, outside, turnVars
<1>2. TurnsSound'
  BY <1>1 DEF IInv, TurnsSound
<1>3. CASE rt.stopRequested
  <2>1. rt' = [rt EXCEPT !.at = "returned"] /\ UNCHANGED waVars /\ UNCHANGED tgVars /\ UNCHANGED dcVars
    BY <1>3 DEF StartProviders
  <2>2. WaSound' /\ TgSound' /\ DcSound' /\ WaQuiet' /\ TgQuiet' /\ DcQuiet'
    BY <1>1, <2>1, WaUnchanged, TgUnchanged, DcUnchanged DEF IInv, Quiet
  <2>3. Absent'
    BY <2>2 DEF Absent
  <2>4. Phased'
    BY <1>1, <1>3, <2>1, <2>2 DEF IInv, Phased, Booting, Stopped, InService, Over, Quiet
  <2> QED
    BY <1>2, <2>2, <2>3, <2>4 DEF IInv
<1>4. CASE ~rt.stopRequested
  <2>1. rt' = [rt EXCEPT !.at = "connecting"]
        /\ (IF "whatsapp" \in scene.platforms THEN WaStart ELSE UNCHANGED waVars)
        /\ (IF "telegram" \in scene.platforms THEN TgStart ELSE UNCHANGED tgVars)
        /\ (IF "discord" \in scene.platforms THEN DcStart ELSE UNCHANGED dcVars)
    BY <1>4 DEF StartProviders
  <2>2. WaSound' /\ ("whatsapp" \notin scene.platforms => WaQuiet')
    BY <1>1, <2>1, WaStartSound, WaUnchanged DEF IInv, Quiet
  <2>3. TgSound' /\ ("telegram" \notin scene.platforms => TgQuiet')
    BY <1>1, <2>1, TgStartSound, TgUnchanged DEF IInv, Quiet
  <2>4. DcSound' /\ ("discord" \notin scene.platforms => DcQuiet')
    BY <1>1, <2>1, DcStartSound, DcUnchanged DEF IInv, Quiet
  <2>5. Absent'
    BY <1>1, <2>2, <2>3, <2>4 DEF Absent
  <2>6. Phased'
    BY <1>1, <2>1 DEF IInv, Phased, Booting
  <2> QED
    BY <1>2, <2>2, <2>3, <2>4, <2>5, <2>6 DEF IInv
<1> QED
  BY <1>3, <1>4

LEMMA StopProvidersKeeps ==
  ASSUME IInv, StopProviders, UNCHANGED outside
  PROVE  IInv'
<1>1. rt.down = "providers" /\ TearingDown /\ scene' = scene /\ turn' = turn /\ stale' = stale /\ UNCHANGED <<on, wired, work>>
  BY DEF IInv, Phased, Booting, Up, TearingDown, Stopped, StopProviders, outside
<1>2. TurnsSound'
  BY <1>1 DEF IInv, TurnsSound
<1>3. /\ (IF "whatsapp" \in scene.platforms THEN WaStop ELSE UNCHANGED waVars)
      /\ (IF "telegram" \in scene.platforms THEN TgStop ELSE UNCHANGED tgVars)
      /\ (IF "discord" \in scene.platforms THEN DcStop ELSE UNCHANGED dcVars)
  BY DEF StopProviders
<1>4. WaSound' /\ WaQuiet'
  BY <1>3, WaStopSound, WaUnchanged DEF IInv, Absent
<1>5. TgSound' /\ TgQuiet'
  BY <1>3, TgStopSound, TgUnchanged DEF IInv, Absent
<1>6. DcSound' /\ DcQuiet'
  BY <1>3, DcStopSound, DcUnchanged DEF IInv, Absent
<1>7. Absent'
  BY <1>4, <1>5, <1>6 DEF Absent
<1>8. Phased'
  <2>1. /\ DOMAIN rt' = DOMAIN rt /\ rt'.down = "none" /\ ~rt'.started /\ ~rt'.stopping /\ rt'.stopRequested = rt.stopRequested
        /\ rt'.at = IF rt.at \in {"unwinding", "failing"} THEN "returned" ELSE rt.at
        /\ rt' \in [at : InService \cup {"registry", "connecting", "unwinding", "failing"}, stopRequested : BOOLEAN, started : BOOLEAN,
                    stopping : BOOLEAN, down : {"none", "work", "upkeep", "drain", "flush", "providers"}]
    BY DEF StopProviders, IInv, Phased, InService
  <2>2. proc' = IF proc = "stopping" \/ (rt.at = "failing" /\ proc = "up") THEN "closing" ELSE proc
    BY DEF StopProviders
  <2>3. Stopped'
    BY <1>1, <1>4, <1>5, <1>6, <2>1, <2>2 DEF TearingDown, Stopped, Quiet, InService, Over
  <2> QED
    BY <1>1, <2>1, <2>3 DEF IInv, Phased
<1> QED
  BY <1>2, <1>4, <1>5, <1>6, <1>7, <1>8 DEF IInv

(* The other steps leave the providers as they are.                        *)
LEMMA ApartKeeps ==
  ASSUME IInv, ProvidersApart, scene' = scene, TurnsSound', (Quiet => Quiet') => Phased'
  PROVE  IInv'
<1>1. WaSound' /\ (WaQuiet => WaQuiet')
  BY WaUnchanged DEF IInv, ProvidersApart
<1>2. TgSound' /\ (TgQuiet => TgQuiet')
  BY TgUnchanged DEF IInv, ProvidersApart
<1>3. DcSound' /\ (DcQuiet => DcQuiet')
  BY DcUnchanged DEF IInv, ProvidersApart
<1> QED
  BY <1>1, <1>2, <1>3, AbsentKept DEF IInv, Quiet

LEMMA RuntimeKeeps == IInv /\ RuntimeStep => IInv'
<1> SUFFICES ASSUME IInv, RuntimeStep PROVE IInv'
  OBVIOUS
<1>1. CASE StartProviders /\ UNCHANGED outside
  BY <1>1, StartProvidersKeeps
<1>2. ASSUME ProvidersApart, UNCHANGED turnVars, scene' = scene,
             Unwind \/ AdmitProviders \/ ServerFails \/ StartServices \/ Shutdown \/ \E w \in Kinds : Fires(w)
      PROVE  IInv'
  <2>1. TurnsSound'
    BY <1>2 DEF IInv, TurnsSound, turnVars
  <2>2. (Quiet => Quiet') => Phased'
    BY <1>2, StartPhased DEF IInv
  <2> QED
    BY <1>2, <2>1, <2>2, ApartKeeps
<1>3. ASSUME NEW m \in scene.msgs, Offer(m) \/ Finish(m), ProvidersApart, UNCHANGED <<rtVars, outside>>
      PROVE  IInv'
  <2>1. m \in Msgs /\ Proceeds(m) /\ stale' = stale /\ scene' = scene
    BY <1>3, ScenesMessages DEF Offer, Finish, Proceeds, outside
  <2>2. TurnsSound'
    BY <2>1, TurnsKept DEF IInv
  <2>3. (Quiet => Quiet') => Phased'
    BY <1>3, <2>1, PhasedKept DEF IInv
  <2> QED
    BY <1>3, <2>1, <2>2, <2>3, ApartKeeps
<1> QED
  BY <1>1, <1>2, <1>3 DEF RuntimeStep, Spend, outside, Kinds

LEMMA TearDownKeeps ==
  ASSUME IInv, TearDownStep \/ \E w \in Kinds : WorkEnds(w)
  PROVE  IInv'
<1>1. CASE StopProviders /\ UNCHANGED outside
  BY <1>1, StopProvidersKeeps
<1>2. ASSUME ProvidersApart, UNCHANGED <<turnVars, outside>>,
             TearDown \/ Drained \/ CloseDatabase \/ Exit \/ \E w \in Kinds : EndWork(w)
      PROVE  IInv'
  <2>1. TurnsSound' /\ scene' = scene
    BY <1>2 DEF IInv, TurnsSound, turnVars, outside
  <2>2. (Quiet => Quiet') => Phased'
    BY <1>2, <2>1, EndPhased DEF IInv
  <2> QED
    BY <1>2, <2>1, <2>2, ApartKeeps
<1> QED
  BY <1>1, <1>2 DEF TearDownStep, WorkEnds

-----------------------------------------------------------------------------
(***************************************************************************)
(* The theorem *)
(***************************************************************************)
LEMMA InitIInv == Init => IInv
<1> SUFFICES ASSUME Init PROVE IInv
  OBVIOUS
<1>1. WaSound /\ WaQuiet
  BY ProvidersAssumption DEF Init, WaInit, WaSound, WaTyped, WaQuiet, WaRunning
<1>2. TgSound /\ TgQuiet
  BY ProvidersAssumption DEF Init, TgInit, TgSound, TgTyped, TgQuiet, TgRunning
<1>3. DcSound /\ DcQuiet
  BY ProvidersAssumption DEF Init, DcInit, DcSound, DcTyped, DcQuiet, DcRunning
<1>4. TurnsSound
  BY DEF Init, TurnsInit, TurnsSound, Fresh
<1>5. Phased
  BY <1>1, <1>2, <1>3 DEF Init, Phased, Booting, Quiet, Services
<1> QED
  BY <1>1, <1>2, <1>3, <1>4, <1>5 DEF IInv, Absent

LEMMA NextIInv == IInv /\ [Next]_vars => IInv'
<1> SUFFICES ASSUME IInv, [Next]_vars PROVE IInv'
  OBVIOUS
<1>1. CASE Next
  BY <1>1, WhatsAppKeeps, TelegramKeeps, DiscordKeeps, RuntimeKeeps, TearDownKeeps DEF Next, Kinds
<1>2. CASE UNCHANGED vars
  <2>1. ProvidersApart /\ UNCHANGED rtVars /\ scene' = scene /\ TurnsSound'
    BY <1>2 DEF vars, ProvidersApart, outside, IInv, TurnsSound, turnVars
  <2>2. (Quiet => Quiet') => Phased'
    BY <2>1, PhasedKept DEF IInv
  <2> QED
    BY <2>1, <2>2, ApartKeeps
<1> QED
  BY <1>1, <1>2

LEMMA Invariance == Spec => []IInv
BY InitIInv, NextIInv, PTL DEF Spec

LEMMA IInvOwned == IInv => ConnectionsOwned
BY ProvidersAssumption
   DEF IInv, WaSound, WaTyped, TgSound, TgTyped, DcSound, DcTyped, TurnsSound, ConnectionsOwned, WaLive, TgLive, DcLive

LEMMA IInvQuiesces == IInv => StopQuiesces
<1> SUFFICES ASSUME IInv, Ended PROVE StopQuiesces
  BY DEF StopQuiesces
<1>1. wired = {} /\ on \cap Services = {}
  BY DEF IInv, Phased, Booting, Up, TearingDown, Stopped, Ended, Over
<1>2. ASSUME rt.at = "returned", rt.down = "none"
      PROVE  WaLive \cup TgLive \cup DcLive = {} /\ wa.timer = 0 /\ tg.timer = 0 /\ "outbox" \notin work
  <2>1. Quiet /\ "outbox" \notin work
    BY <1>2 DEF IInv, Phased, Booting, Up, TearingDown, Stopped, Ended
  <2>2. \A g \in Gens : g # 0
    BY ProvidersAssumption DEF Gens
  <2>3. WaLive = {} /\ TgLive = {} /\ DcLive = {}
    BY <2>1, <2>2 DEF IInv, Quiet, WaQuiet, TgQuiet, DcQuiet, WaSound, TgSound, DcSound, WaLive, TgLive, DcLive
  <2> QED
    BY <2>1, <2>3 DEF Quiet, WaQuiet, TgQuiet
<1> QED
  BY <1>1, <1>2 DEF StopQuiesces, Services

(* Whatever a provider's late events, failures and timers, and however a   *)
(* stop and the start race: no connection but the provider's current one   *)
(* is alive, it says that it runs only while that one is up, no message is *)
(* answered on a connection that was closed, and once the process is to    *)
(* exit and start() and stop() have returned no connection is left, and no *)
(* timer to make one (whatsapp.ts:290-420, telegram.ts:194-259, discord.ts:*)
(* 159-255, AppRuntime.ts:262-398 and 448-512).                            *)
THEOREM ConnectionsHaveOwners == Spec => []ConnectionsKept
<1>1. IInv => ConnectionsKept
  BY IInvOwned, IInvQuiesces DEF ConnectionsKept
<1> QED
  BY <1>1, Invariance, PTL
-----------------------------------------------------------------------------
(***************************************************************************)
(* The scheduler *)
(***************************************************************************)
(* What was selected is a reminder somebody set, and was due then. *)
SelectedIsDue == \A s \in due \cup send : s.of \in DOMAIN first /\ s.at <= now

(* Ids are not used again, and a cancelled row does not come back. *)
CancelledIsGone ==
  /\ cancelled \cap DOMAIN rows = {}
  /\ cancelled \cup DOMAIN rows \subseteq DOMAIN first

(* A row that may be sent before its backoff is over is held back, by its  *)
(* time or by its claim.                                                   *)
HeldBack(r) ==
  \/ rows[r].sent
  \/ retryAt[r] <= now
  \/ retryAt[r] <= rows[r].at
  \/ retryAt[r] <= rows[r].claimedAt

Paced ==
  /\ \A r \in Reminders \ DOMAIN first : retryAt[r] <= now
  /\ \A r \in DOMAIN rows : HeldBack(r)
  /\ \A s \in send : retryAt[s.of] <= now

SchedulerInv == TypeOK /\ SelectedIsDue /\ CancelledIsGone /\ Paced

-----------------------------------------------------------------------------
LEMMA InitScheduler == SchedulerAssumption /\ SchedulerInit => SchedulerInv
<1> SUFFICES ASSUME SchedulerAssumption, SchedulerInit PROVE SchedulerInv
  OBVIOUS
<1>1. DOMAIN rows = {} /\ DOMAIN first = {}
  BY DEF SchedulerInit
<1>2. /\ MaxAttempts \in Nat \ {0} /\ MaxTime \in Nat /\ MaxCrashes \in Nat
      /\ 0 \in 0..(MaxAttempts - 1) /\ 0 \in 0..MaxTime /\ 0 \in 0..MaxCrashes
  BY DEF SchedulerAssumption
<1>3. /\ attempts \in [Reminders -> 0..(MaxAttempts - 1)]
      /\ retryAt \in [Reminders -> Nat]
      /\ served \in [Reminders -> Int]
  BY <1>2 DEF SchedulerInit
<1>4. TypeOK
  BY <1>1, <1>2, <1>3 DEF SchedulerInit, TypeOK
<1> QED
  BY <1>1, <1>4 DEF SchedulerInit, SchedulerInv, SelectedIsDue, CancelledIsGone, Paced

(* What becomes of a row that is retired, put off or released. *)
LEMMA Changed ==
  ASSUME SchedulerAssumption, TypeOK, NEW r \in DOMAIN rows
  PROVE  /\ Retired(r) \in Row /\ Retired(r).sent
         /\ Postponed(r) \in Row /\ Postponed(r).at = now + Backoff
         /\ Released(r) \in Row
         /\ \/ Released(r).at = now + Backoff
            \/ Released(r).claimedAt = now + Backoff
<1>1. rows[r] \in Row /\ now \in Nat /\ Backoff \in Nat /\ Stale \in Nat
  BY DEF TypeOK, SchedulerAssumption
<1>2. Unclaimed \in Int /\ now + Backoff \in Nat
  BY <1>1 DEF Unclaimed
<1>3. Retired(r) \in Row /\ Retired(r).sent
  BY <1>1, <1>2 DEF Retired, Row
<1>4. Postponed(r) \in Row /\ Postponed(r).at = now + Backoff
  BY <1>1, <1>2 DEF Postponed, Row
<1>5. r \in Recurring => /\ Released(r) \in Row
                         /\ Released(r).claimedAt = now + Backoff
  BY <1>1 DEF Released, Row
<1>6. r \notin Recurring => Released(r) = Postponed(r)
  BY DEF Released
<1> QED
  BY <1>3, <1>4, <1>5, <1>6

(* A row is changed if it is there and not sent; the others stay. *)
LEMMA Updated ==
  ASSUME TypeOK, NEW r \in Reminders, NEW row, Update(r, row),
         r \in DOMAIN rows => row \in Row
  PROVE  /\ DOMAIN rows' = DOMAIN rows
         /\ \A x \in DOMAIN rows :
              /\ rows'[x] \in Row
              /\ rows'[x] = rows[x] \/ (x = r /\ rows'[x] = row)
         /\ r \in DOMAIN rows => rows'[r] = row \/ rows'[r].sent
<1>1. \A x \in DOMAIN rows : rows[x] \in Row
  BY DEF TypeOK
<1>2. CASE r \in DOMAIN rows /\ ~rows[r].sent
  BY <1>1, <1>2 DEF Update
<1>3. CASE ~(r \in DOMAIN rows /\ ~rows[r].sent)
  BY <1>1, <1>3 DEF Update
<1> QED
  BY <1>2, <1>3

(* A step that changes no row but r, leaves time and the other reminders'  *)
(* backoff alone, and holds r back, keeps every row held back.             *)
LEMMA StillHeldBack ==
  ASSUME Paced, NEW r,
         DOMAIN rows' = DOMAIN rows, now' = now,
         \A x \in DOMAIN rows : x # r => rows'[x] = rows[x] /\ retryAt'[x] = retryAt[x],
         r \in DOMAIN rows => HeldBack(r)'
  PROVE  \A x \in DOMAIN rows' : HeldBack(x)'
  BY DEF Paced, HeldBack

(* The next occurrence of a due reminder is a time. *)
LEMMA NextOccurrenceIsTime ==
  ASSUME SchedulerAssumption, now \in Nat, NEW at \in Nat, at <= now
  PROVE  NextOccurrence(at) \in Nat
<1> DEFINE k == (now - at) \div Interval
<1>1. Interval \in Nat \ {0} /\ now - at \in Nat
  BY DEF SchedulerAssumption
<1>2. k \in Nat
  BY <1>1
<1> HIDE DEF k
<1>3. (k + 1) * Interval \in Nat
  BY <1>1, <1>2
<1> QED
  BY <1>3 DEF NextOccurrence, k

(* A reminder that may be claimed has served its backoff. *)
LEMMA SelectableIsPaced ==
  ASSUME SchedulerAssumption, TypeOK, Paced, NEW r \in DOMAIN rows, Selectable(r)
  PROVE  retryAt[r] <= now
<1>1. rows[r] \in Row /\ now \in Nat /\ Stale \in Nat /\ retryAt[r] \in Nat
  BY DEF TypeOK, SchedulerAssumption
<1>2. rows[r].at \in Nat /\ rows[r].claimedAt \in Int
  BY <1>1 DEF Row
<1>3. ~rows[r].sent /\ rows[r].at <= now /\ rows[r].claimedAt <= now - Stale
  BY DEF Selectable
<1>4. HeldBack(r)
  BY DEF Paced
<1> QED
  BY <1>1, <1>2, <1>3, <1>4 DEF HeldBack

-----------------------------------------------------------------------------
LEMMA SetReminderIInv ==
  ASSUME SchedulerAssumption, SchedulerInv, NEW r \in Reminders, SetReminder(r)
  PROVE  SchedulerInv'
<1>1. PICK d \in Delays :
        /\ rows' = [x \in DOMAIN rows \cup {r} |->
             IF x = r THEN [at |-> now + d, sent |-> FALSE, claimedAt |-> Unclaimed]
             ELSE rows[x]]
        /\ first' = [x \in DOMAIN first \cup {r} |-> IF x = r THEN now + d ELSE first[x]]
  BY DEF SetReminder
<1>2. /\ r \notin DOMAIN first
      /\ UNCHANGED <<due, working, send, attempts, senders, stopped, now, crashes,
                     cancelled, rebased, retryAt, served>>
  BY DEF SetReminder
<1>3. now \in Nat /\ now + d \in Nat /\ Unclaimed \in Int
  BY DEF SchedulerInv, TypeOK, SchedulerAssumption, Unclaimed
<1>4. TypeOK'
  <2>1. DOMAIN rows' \subseteq Reminders /\ \A x \in DOMAIN rows' : rows'[x] \in Row
    BY <1>1, <1>3 DEF SchedulerInv, TypeOK, Row
  <2>2. DOMAIN first' \subseteq Reminders /\ \A x \in DOMAIN first' : first'[x] \in Nat
    BY <1>1, <1>3 DEF SchedulerInv, TypeOK
  <2> QED
    BY <1>2, <2>1, <2>2 DEF SchedulerInv, TypeOK
<1>5. SelectedIsDue'
  BY <1>1, <1>2 DEF SchedulerInv, SelectedIsDue
<1>6. CancelledIsGone'
  BY <1>1, <1>2 DEF SchedulerInv, CancelledIsGone
<1>7. Paced'
  <2>1. ASSUME NEW x \in DOMAIN rows' PROVE HeldBack(x)'
    <3>1. CASE x = r
      <4> QED
        BY <1>2, <3>1 DEF SchedulerInv, Paced, HeldBack
    <3>2. CASE x # r
      BY <1>1, <1>2, <3>2 DEF SchedulerInv, Paced, HeldBack
    <3> QED
      BY <3>1, <3>2
  <2> QED
    BY <1>1, <1>2, <2>1 DEF SchedulerInv, Paced
<1> QED
  BY <1>4, <1>5, <1>6, <1>7 DEF SchedulerInv

LEMMA CancelIInv ==
  ASSUME SchedulerAssumption, SchedulerInv, NEW r \in Reminders, Cancel(r)
  PROVE  SchedulerInv'
<1>1. /\ r \in DOMAIN rows
      /\ rows' = [x \in DOMAIN rows \ {r} |-> rows[x]]
      /\ cancelled' = cancelled \cup {r}
      /\ UNCHANGED <<due, working, send, attempts, senders, stopped, now, crashes,
                     first, rebased, retryAt, served>>
  BY DEF Cancel
<1>2. TypeOK'
  BY <1>1 DEF SchedulerInv, TypeOK
<1>3. SelectedIsDue'
  BY <1>1 DEF SchedulerInv, SelectedIsDue
<1>4. CancelledIsGone'
  BY <1>1 DEF SchedulerInv, CancelledIsGone
<1>5. Paced'
  BY <1>1 DEF SchedulerInv, Paced, HeldBack
<1> QED
  BY <1>2, <1>3, <1>4, <1>5 DEF SchedulerInv

LEMMA ProcessRemindersIInv ==
  ASSUME SchedulerInv, ProcessReminders
  PROVE  SchedulerInv'
<1>1. PICK B \in Batches : due' = {[of |-> r, at |-> rows[r].at] : r \in B}
  BY DEF ProcessReminders
<1>2. /\ working' = TRUE
      /\ UNCHANGED <<rows, send, attempts, senders, stopped, now, crashes, first,
                     cancelled, rebased, retryAt, served>>
  BY DEF ProcessReminders
<1>3. \A r \in B : r \in DOMAIN rows /\ Selectable(r)
  BY DEF Batches
<1>4. \A r \in B : rows[r].at \in Nat /\ rows[r].at <= now
                   /\ r \in Reminders /\ r \in DOMAIN first
  BY <1>3 DEF Selectable, SchedulerInv, TypeOK, Row, CancelledIsGone
<1>5. \A s \in due' : s \in Selected /\ s.of \in DOMAIN first /\ s.at <= now
  BY <1>1, <1>4 DEF Selected
<1>6. TypeOK'
  BY <1>2, <1>5 DEF SchedulerInv, TypeOK
<1>7. SelectedIsDue'
  BY <1>2, <1>5 DEF SchedulerInv, SelectedIsDue
<1>8. CancelledIsGone' /\ Paced'
  BY <1>2 DEF SchedulerInv, CancelledIsGone, Paced, HeldBack
<1> QED
  BY <1>6, <1>7, <1>8 DEF SchedulerInv

(* A step that takes reminders off the batch or ends sends, and puts rows  *)
(* of the right kind in the place of those that were there.                *)
LEMMA RewriteIInv ==
  ASSUME SchedulerAssumption, SchedulerInv,
         due' \subseteq due, working' \in BOOLEAN, stopped' \in BOOLEAN,
         UNCHANGED <<senders, now, crashes, first, cancelled>>,
         DOMAIN rows' = DOMAIN rows,
         \A x \in DOMAIN rows : rows'[x] \in Row /\ HeldBack(x)',
         attempts' \in [Reminders -> 0..(MaxAttempts - 1)],
         rebased' \subseteq Reminders,
         served' \in [Reminders -> Int],
         retryAt' \in [Reminders -> Nat],
         \A x \in Reminders \ DOMAIN first : retryAt'[x] = retryAt[x],
         \A s \in send' : /\ s \in Send
                          /\ s.of \in DOMAIN first /\ s.at <= now
                          /\ retryAt'[s.of] <= now
  PROVE  SchedulerInv'
<1>1. TypeOK'
  BY DEF SchedulerInv, TypeOK
<1>2. SelectedIsDue'
  BY DEF SchedulerInv, SelectedIsDue
<1>3. CancelledIsGone'
  BY DEF SchedulerInv, CancelledIsGone
<1>4. Paced'
  BY DEF SchedulerInv, Paced
<1> QED
  BY <1>1, <1>2, <1>3, <1>4 DEF SchedulerInv

(* What claiming a reminder of the batch does, in each of its cases.       *)
LEMMA TakeNextIInv ==
  ASSUME SchedulerAssumption, SchedulerInv, NEW s \in due, TakeNext(s)
  PROVE  SchedulerInv'
<1> DEFINE r == s.of
<1>1. /\ send = {} /\ due' = due \ {s}
      /\ UNCHANGED <<working, senders, stopped, now, crashes, first, cancelled,
                     retryAt, served>>
      /\ \/ UNCHANGED <<rows, attempts, send, rebased>>
         \/ StillDue(r) /\ (DeferOrRetire(r) \/ Refuse(r) \/ StartSend(s))
  BY DEF TakeNext
<1>2. /\ s \in Selected /\ r \in Reminders /\ r \in DOMAIN first /\ s.at <= now
      /\ TypeOK /\ Paced
  BY DEF SchedulerInv, TypeOK, SelectedIsDue, Selected
<1>3. /\ MaxAttempts \in Nat \ {0} /\ SendTimeout \in Nat \ {0}
      /\ Backoff \in Nat \ {0} /\ now \in Nat
      /\ retryAt \in [Reminders -> Nat]
      /\ attempts \in [Reminders -> 0..(MaxAttempts - 1)]
      /\ rebased \subseteq Reminders /\ served \in [Reminders -> Int]
      /\ working \in BOOLEAN /\ stopped \in BOOLEAN
  BY <1>2 DEF SchedulerAssumption, TypeOK
<1> HIDE DEF r
<1>4. CASE UNCHANGED <<rows, attempts, send, rebased>>
  <2>1. \A x \in DOMAIN rows : rows'[x] \in Row /\ HeldBack(x)'
    BY <1>1, <1>2, <1>4 DEF TypeOK, Paced, HeldBack
  <2> QED
    BY <1>1, <1>3, <1>4, <2>1, RewriteIInv
<1>5. ASSUME StillDue(r) PROVE r \in DOMAIN rows /\ retryAt[r] <= now
  BY <1>2, <1>5, SelectableIsPaced DEF StillDue
<1>6. ASSUME StillDue(r), NEW row \in Row, Update(r, row)
      PROVE  /\ DOMAIN rows' = DOMAIN rows
             /\ \A x \in DOMAIN rows : rows'[x] \in Row /\ HeldBack(x)'
  <2>1. /\ DOMAIN rows' = DOMAIN rows
        /\ \A x \in DOMAIN rows :
             /\ rows'[x] \in Row
             /\ rows'[x] = rows[x] \/ x = r
    BY <1>2, <1>6, Updated
  <2>2. \A x \in DOMAIN rows : HeldBack(x)'
    BY <1>1, <1>2, <1>5, <1>6, <2>1 DEF Paced, HeldBack
  <2> QED
    BY <2>1, <2>2
<1>7. CASE StillDue(r) /\ DeferOrRetire(r)
  <2>1. r \in DOMAIN rows /\ Retired(r) \in Row /\ Postponed(r) \in Row
    BY <1>2, <1>5, <1>7, Changed
  <2>2. /\ DOMAIN rows' = DOMAIN rows
        /\ \A x \in DOMAIN rows : rows'[x] \in Row /\ HeldBack(x)'
    BY <1>6, <1>7, <2>1 DEF DeferOrRetire
  <2>3. attempts' \in [Reminders -> 0..(MaxAttempts - 1)]
    BY <1>2, <1>3, <1>7 DEF DeferOrRetire
  <2>4. send' = {} /\ rebased' \subseteq Reminders
    BY <1>1, <1>2, <1>3, <1>7 DEF DeferOrRetire
  <2> QED
    BY <1>1, <1>3, <2>2, <2>3, <2>4, RewriteIInv
<1>8. CASE StillDue(r) /\ Refuse(r)
  <2>1. r \in DOMAIN rows /\ Retired(r) \in Row
    BY <1>2, <1>5, <1>8, Changed
  <2>2. /\ DOMAIN rows' = DOMAIN rows
        /\ \A x \in DOMAIN rows : rows'[x] \in Row /\ HeldBack(x)'
    BY <1>6, <1>8, <2>1 DEF Refuse
  <2>3. attempts' \in [Reminders -> 0..(MaxAttempts - 1)]
    BY <1>2, <1>3, <1>8 DEF Refuse
  <2>4. send' = {} /\ rebased' \subseteq Reminders
    BY <1>1, <1>3, <1>8 DEF Refuse
  <2> QED
    BY <1>1, <1>3, <2>2, <2>3, <2>4, RewriteIInv
<1>9. CASE StillDue(r) /\ StartSend(s)
  <2>1. r \in DOMAIN rows /\ retryAt[r] <= now
    BY <1>5, <1>9
  <2>2. rows' = [rows EXCEPT ![r].claimedAt = now] /\ rebased' = rebased
        /\ attempts' = attempts
        /\ send' = {[of |-> r, at |-> s.at, timer |-> SendTimeout]}
    BY <1>9 DEF StartSend, r
  <2>3. \A x \in DOMAIN rows : rows'[x] \in Row
    BY <1>2, <1>3, <2>1, <2>2 DEF TypeOK, Row
  <2>4. \A x \in DOMAIN rows : HeldBack(x)'
    BY <1>1, <1>2, <2>1, <2>2 DEF Paced, HeldBack
  <2>5. \A y \in send' : /\ y \in Send /\ y.of = r /\ y.at = s.at
    BY <1>2, <1>3, <2>2 DEF Send, Selected
  <2>6. DOMAIN rows' = DOMAIN rows
    BY <2>2
  <2> QED
    BY <1>1, <1>2, <1>3, <2>1, <2>2, <2>3, <2>4, <2>5, <2>6, RewriteIInv
<1> QED
  BY <1>1, <1>4, <1>7, <1>8, <1>9

LEMMA AcknowledgeIInv ==
  ASSUME SchedulerAssumption, SchedulerInv, NEW s \in send, Acknowledge(s)
  PROVE  SchedulerInv'
<1> DEFINE r == s.of
           row == IF r \in Recurring
                  THEN [rows[r] EXCEPT !.at = NextOccurrence(s.at), !.claimedAt = Unclaimed]
                  ELSE [rows[r] EXCEPT !.sent = TRUE, !.claimedAt = Unclaimed]
<1>1. /\ rows' = IF r \in DOMAIN rows THEN [rows EXCEPT ![r] = row] ELSE rows
      /\ attempts' = [attempts EXCEPT ![r] = 0]
      /\ send' = {}
      /\ served' = [served EXCEPT ![r] = Period(r)]
      /\ UNCHANGED <<due, working, senders, stopped, now, crashes, first,
                     cancelled, rebased, retryAt>>
  BY DEF Acknowledge
<1>2. /\ s \in Send /\ r \in Reminders /\ r \in DOMAIN first /\ s.at <= now
      /\ s.at \in Nat /\ retryAt[r] <= now /\ TypeOK /\ Paced
  BY DEF SchedulerInv, TypeOK, SelectedIsDue, Paced, Send
<1>3. /\ MaxAttempts \in Nat \ {0} /\ now \in Nat /\ Stale \in Nat
      /\ Interval \in Nat \ {0}
      /\ retryAt \in [Reminders -> Nat]
      /\ attempts \in [Reminders -> 0..(MaxAttempts - 1)]
      /\ rebased \subseteq Reminders /\ served \in [Reminders -> Int]
      /\ working \in BOOLEAN /\ stopped \in BOOLEAN
      /\ first[r] \in Nat
  BY <1>2 DEF SchedulerAssumption, TypeOK
<1>4. r \in DOMAIN rows => row \in Row
  <2>1. NextOccurrence(s.at) \in Nat /\ Unclaimed \in Int
    BY <1>2, <1>3, NextOccurrenceIsTime DEF Unclaimed
  <2>2. r \in DOMAIN rows => rows[r] \in Row
    BY <1>2 DEF TypeOK
  <2> QED
    BY <2>1, <2>2 DEF Row
<1>5. Period(r) \in Int
  BY <1>3 DEF Period
<1> HIDE DEF r, row
<1>6. DOMAIN rows' = DOMAIN rows /\ \A x \in DOMAIN rows : rows'[x] \in Row
  BY <1>1, <1>2, <1>4 DEF TypeOK
<1>7. \A x \in DOMAIN rows : HeldBack(x)'
  BY <1>1, <1>2 DEF Paced, HeldBack
<1>8. attempts' \in [Reminders -> 0..(MaxAttempts - 1)]
  <2>1. 0 \in 0..(MaxAttempts - 1)
    BY <1>3
  <2> QED
    BY <1>1, <1>3, <2>1
<1>9. served' \in [Reminders -> Int]
  BY <1>1, <1>3, <1>5
<1> QED
  BY <1>1, <1>3, <1>6, <1>7, <1>8, <1>9, RewriteIInv

LEMMA FailIInv ==
  ASSUME SchedulerAssumption, SchedulerInv, NEW s \in send, Fail(s)
  PROVE  SchedulerInv'
<1> DEFINE r == s.of
           last == attempts[r] + 1 >= MaxAttempts
           row == IF last THEN Retired(r) ELSE Released(r)
<1>1. /\ Update(r, row)
      /\ attempts' = [attempts EXCEPT ![r] = IF last THEN 0 ELSE @ + 1]
      /\ send' = {}
      /\ retryAt' = [retryAt EXCEPT ![r] = now + Backoff]
      /\ UNCHANGED <<due, working, senders, stopped, now, crashes, first,
                     cancelled, rebased, served>>
  BY DEF Fail
<1>2. /\ s \in Send /\ r \in Reminders /\ r \in DOMAIN first /\ TypeOK /\ Paced
  BY DEF SchedulerInv, TypeOK, SelectedIsDue, Send
<1>3. /\ MaxAttempts \in Nat \ {0} /\ now \in Nat /\ Backoff \in Nat
      /\ retryAt \in [Reminders -> Nat]
      /\ attempts \in [Reminders -> 0..(MaxAttempts - 1)]
      /\ rebased \subseteq Reminders /\ served \in [Reminders -> Int]
      /\ working \in BOOLEAN /\ stopped \in BOOLEAN
  BY <1>2 DEF SchedulerAssumption, TypeOK
<1>4. r \in DOMAIN rows =>
        /\ row \in Row
        /\ row.sent \/ row.at = now + Backoff \/ row.claimedAt = now + Backoff
  BY <1>2, Changed
<1>5. attempts' \in [Reminders -> 0..(MaxAttempts - 1)]
  BY <1>1, <1>2, <1>3
<1>6. retryAt' \in [Reminders -> Nat] /\ \A x \in Reminders \ DOMAIN first : retryAt'[x] = retryAt[x]
  BY <1>1, <1>2, <1>3
<1> HIDE DEF r, row
<1>7. /\ DOMAIN rows' = DOMAIN rows
      /\ \A x \in DOMAIN rows :
           /\ rows'[x] \in Row
           /\ rows'[x] = rows[x] \/ (x = r /\ rows'[x] = row)
      /\ r \in DOMAIN rows => rows'[r] = row \/ rows'[r].sent
  BY <1>1, <1>2, <1>4, Updated
<1>8. ASSUME NEW x \in DOMAIN rows PROVE HeldBack(x)'
  <2>1. CASE x = r
    BY <1>1, <1>2, <1>3, <1>4, <1>7, <2>1 DEF HeldBack
  <2>2. CASE x # r
    BY <1>1, <1>2, <1>3, <1>7, <2>2 DEF HeldBack, Paced
  <2> QED
    BY <2>1, <2>2
<1> QED
  BY <1>1, <1>3, <1>5, <1>6, <1>7, <1>8, RewriteIInv

LEMMA EndBatchIInv == ASSUME SchedulerInv, EndBatch PROVE SchedulerInv'
  BY DEF EndBatch, SchedulerInv, TypeOK, SelectedIsDue, CancelledIsGone, Paced, HeldBack

LEMMA StopIInv == ASSUME SchedulerInv, StopScheduler PROVE SchedulerInv'
  BY DEF StopScheduler, SchedulerInv, TypeOK, SelectedIsDue, CancelledIsGone, Paced, HeldBack

LEMMA StartIInv == ASSUME SchedulerInv, StartScheduler PROVE SchedulerInv'
  BY DEF StartScheduler, SchedulerInv, TypeOK, SelectedIsDue, CancelledIsGone, Paced, HeldBack

LEMMA CrashIInv ==
  ASSUME SchedulerAssumption, SchedulerInv, Crash
  PROVE  SchedulerInv'
<1>1. /\ due' = {} /\ send' = {} /\ working' = FALSE /\ stopped' = FALSE
      /\ crashes < MaxCrashes /\ crashes' = crashes + 1
      /\ attempts' = [r \in Reminders |-> 0]
      /\ senders' \in SUBSET Platforms
      /\ UNCHANGED <<rows, now, first, cancelled, rebased, retryAt, served>>
  BY DEF Crash
<1>2. attempts' \in [Reminders -> 0..(MaxAttempts - 1)]
  <2>1. 0 \in 0..(MaxAttempts - 1)
    BY DEF SchedulerAssumption
  <2> QED
    BY <1>1, <2>1
<1>3. crashes' \in 0..MaxCrashes
  BY <1>1 DEF SchedulerAssumption, SchedulerInv, TypeOK
<1>4. TypeOK'
  BY <1>1, <1>2, <1>3 DEF SchedulerInv, TypeOK
<1>5. SelectedIsDue' /\ CancelledIsGone' /\ Paced'
  BY <1>1 DEF SchedulerInv, SelectedIsDue, CancelledIsGone, Paced, HeldBack
<1> QED
  BY <1>4, <1>5 DEF SchedulerInv

LEMMA TickIInv ==
  ASSUME SchedulerAssumption, SchedulerInv, Tick
  PROVE  SchedulerInv'
<1>1. /\ now < MaxTime /\ now' = now + 1
      /\ \A s \in send : s.timer > 0
      /\ send' = {[s EXCEPT !.timer = @ - 1] : s \in send}
      /\ UNCHANGED <<rows, due, working, attempts, senders, stopped, crashes, first,
                     cancelled, rebased, retryAt, served>>
  BY DEF Tick
<1>2. /\ now \in Nat /\ MaxTime \in Nat /\ SendTimeout \in Nat
      /\ retryAt \in [Reminders -> Nat]
      /\ due \subseteq Selected /\ send \subseteq Send
      /\ DOMAIN rows \subseteq Reminders /\ DOMAIN first \subseteq Reminders
  BY DEF SchedulerInv, TypeOK, SchedulerAssumption
<1>3. \A t \in send' : \E s \in send :
        t \in Send /\ t.of = s.of /\ t.at = s.at
  BY <1>1, <1>2 DEF Send
<1>4. now' \in 0..MaxTime
  BY <1>1, <1>2
<1>5. TypeOK'
  BY <1>1, <1>3, <1>4 DEF SchedulerInv, TypeOK
<1>6. SelectedIsDue'
  <2>1. \A s \in due \cup send : s.at \in Nat /\ s.of \in DOMAIN first /\ s.at <= now
    BY <1>2 DEF SchedulerInv, SelectedIsDue, Selected, Send
  <2> QED
    BY <1>1, <1>2, <1>3, <2>1 DEF SelectedIsDue
<1>7. CancelledIsGone'
  BY <1>1 DEF SchedulerInv, CancelledIsGone
<1>8. Paced'
  <2>1. \A r \in Reminders : retryAt[r] <= now => retryAt'[r] <= now'
    BY <1>1, <1>2
  <2>2. \A r \in Reminders \ DOMAIN first : retryAt'[r] <= now'
    BY <2>1 DEF SchedulerInv, Paced
  <2>3. \A r \in DOMAIN rows : HeldBack(r) => HeldBack(r)'
    BY <1>1, <1>2, <2>1 DEF HeldBack
  <2>4. \A s \in send : retryAt[s.of] <= now /\ s.of \in Reminders
    BY <1>2 DEF SchedulerInv, Paced, Send
  <2>5. \A s \in send' : retryAt'[s.of] <= now'
    BY <1>3, <2>1, <2>4
  <2> QED
    BY <1>1, <2>2, <2>3, <2>5 DEF SchedulerInv, Paced
<1> QED
  BY <1>5, <1>6, <1>7, <1>8 DEF SchedulerInv

LEMMA NextScheduler ==
  ASSUME SchedulerAssumption, SchedulerInv, [SchedulerNext]_schedulerVars
  PROVE  SchedulerInv'
<1>1. CASE \E r \in Reminders : SetReminder(r) \/ Cancel(r)
  BY <1>1, SetReminderIInv, CancelIInv
<1>2. CASE ProcessReminders
  BY <1>2, ProcessRemindersIInv
<1>3. CASE \E s \in due : TakeNext(s)
  BY <1>3, TakeNextIInv
<1>4. CASE EndBatch
  BY <1>4, EndBatchIInv
<1>5. CASE \E s \in send : Acknowledge(s) \/ Fail(s)
  BY <1>5, AcknowledgeIInv, FailIInv
<1>6. CASE StopScheduler \/ StartScheduler
  BY <1>6, StopIInv, StartIInv
<1>7. CASE Crash
  BY <1>7, CrashIInv
<1>8. CASE Tick
  BY <1>8, TickIInv
<1>9. CASE UNCHANGED schedulerVars
  BY <1>9 DEF schedulerVars, SchedulerInv, TypeOK, SelectedIsDue, CancelledIsGone, Paced, HeldBack
<1> QED
  BY <1>1, <1>2, <1>3, <1>4, <1>5, <1>6, <1>7, <1>8, <1>9 DEF SchedulerNext

(* A send begins only when the batch's next reminder is claimed, and the   *)
(* claim finds it where the selection did.                                 *)
LEMMA BegunByTakeNext ==
  ASSUME [SchedulerNext]_schedulerVars, NEW s \in Begun
  PROVE  \E t \in due : /\ TakeNext(t) /\ StillDue(t.of)
                        /\ s.of = t.of /\ now' = now /\ retryAt' = retryAt
<1>1. send = {} /\ s \in send'
  BY DEF Begun
<1>2. CASE \E t \in due : TakeNext(t)
  <2>1. PICK t \in due : TakeNext(t)
    BY <1>2
  <2>2. StillDue(t.of) /\ StartSend(t)
    BY <1>1, <2>1 DEF TakeNext, DeferOrRetire, Refuse
  <2>3. s.of = t.of
    BY <1>1, <2>2 DEF StartSend
  <2>4. now' = now /\ retryAt' = retryAt
    BY <2>1 DEF TakeNext
  <2> QED
    BY <2>1, <2>2, <2>3, <2>4
<1>3. CASE Tick
  BY <1>1, <1>3 DEF Tick
<1>4. CASE ~(Tick \/ \E t \in due : TakeNext(t))
  <2>1. send' \in {send, {}}
    BY <1>4 DEF SchedulerNext, SetReminder, Cancel, ProcessReminders, EndBatch, Acknowledge,
                Fail, StopScheduler, StartScheduler, Crash, schedulerVars
  <2> QED
    BY <1>1, <2>1
<1> QED
  BY <1>2, <1>3, <1>4

-----------------------------------------------------------------------------
(* What the first three theorems rest on holds. *)
THEOREM SchedulerInvariance == SchedulerSpec => []SchedulerInv
<1>1. SchedulerInit => SchedulerInv
  BY SchedulerAssumption, InitScheduler
<1>2. SchedulerInv /\ [SchedulerNext]_schedulerVars => SchedulerInv'
  BY SchedulerAssumption, NextScheduler
<1> QED
  BY <1>1, <1>2, PTL DEF SchedulerSpec

(* Every reachable state is well typed, whatever users, senders and        *)
(* crashes do (Scheduler.ts:289-506).                                      *)
THEOREM SchedulerTypeCorrect == SchedulerSpec => []TypeOK
<1>1. SchedulerInv => TypeOK
  BY DEF SchedulerInv
<1> QED
  BY <1>1, SchedulerInvariance, PTL

(* A reminder that a user cancelled is not sent, not even out of the batch *)
(* that was selected before (Scheduler.ts:326-335).                        *)
THEOREM CancelledStayUnsent == SchedulerSpec => CancelIsFinal
<1>1. ASSUME SchedulerInv, [SchedulerNext]_schedulerVars
      PROVE  \A s \in Begun : s.of \notin cancelled
  <2>1. \A t : StillDue(t) => t \notin cancelled
    BY <1>1 DEF SchedulerInv, CancelledIsGone, StillDue
  <2> QED
    BY <1>1, <2>1, BegunByTakeNext
<1>2. SchedulerInv /\ [SchedulerNext]_schedulerVars => [\A s \in Begun : s.of \notin cancelled]_schedulerVars
  BY <1>1
<1> QED
  BY <1>2, SchedulerInvariance, PTL DEF CancelIsFinal, SchedulerSpec

(* After a failed send no other one begins before the backoff is over,     *)
(* through any number of restarts (Scheduler.ts:427-456).                  *)
THEOREM BackoffIsServed == SchedulerSpec => FailuresArePaced
<1>1. ASSUME SchedulerInv, [SchedulerNext]_schedulerVars
      PROVE  \A s \in Begun : now >= retryAt[s.of]
  <2>1. ASSUME NEW t, StillDue(t) PROVE retryAt[t] <= now
    BY <1>1, <2>1, SelectableIsPaced, SchedulerAssumption DEF SchedulerInv, StillDue
  <2>2. \A s \in Begun : retryAt[s.of] <= now
    BY <1>1, <2>1, BegunByTakeNext
  <2> QED
    BY <2>2
<1>2. SchedulerInv /\ [SchedulerNext]_schedulerVars => [\A s \in Begun : now >= retryAt[s.of]]_schedulerVars
  BY <1>1
<1> QED
  BY <1>2, SchedulerInvariance, PTL DEF FailuresArePaced, SchedulerSpec

-----------------------------------------------------------------------------
(* The phase of a schedule.  A recurring reminder stands on an occurrence  *)
(* k of its schedule, and that occurrence is later than the period it was  *)
(* last served in: the loop computes the next occurrence from the time the *)
(* reminder was selected with, so what was selected must be in step too.   *)
OnTime(r) ==
  /\ r \in Recurring \ rebased =>
       \E k \in Nat : rows[r].at = first[r] + k * Interval /\ served[r] < k
  /\ r \notin Recurring => rows[r].sent \/ served[r] = 0 - 1

InPhase ==
  /\ \A s \in due \cup send : s.of \in Recurring \ rebased =>
       \E k \in Nat : s.at = first[s.of] + k * Interval
  /\ \A r \in DOMAIN rows : OnTime(r)
  /\ \A r \in Reminders \ DOMAIN first : served[r] = 0 - 1

(* The period of a time, counted from an occurrence before it. *)
LEMMA PeriodsFrom ==
  ASSUME NEW k \in Nat, NEW d \in Nat \ {0}, NEW x \in Nat
  PROVE  /\ (k * d + x) \div d = k + x \div d
         /\ x \div d \in Nat
         /\ (k * d) % d = 0
OBVIOUS

LEMMA Division ==
  ASSUME NEW x \in Nat, NEW d \in Nat \ {0}
  PROVE  x \div d \in Nat /\ x = (x \div d) * d + (x % d) /\ x % d \in 0..(d - 1)
OBVIOUS

LEMMA PeriodsOrdered ==
  ASSUME NEW k \in Int, NEW d \in Nat \ {0}, NEW x \in Nat, k * d <= x
  PROVE  k <= x \div d
<1> DEFINE p == x \div d
<1>1. p \in Nat /\ x = p * d + (x % d) /\ x % d \in 0..(d - 1)
  BY Division
<1> HIDE DEF p
<1>2. (p + 1) * d = p * d + d
  BY <1>1
<1>3. k * d < (p + 1) * d
  BY <1>1, <1>2
<1>4. k >= p + 1 => k * d >= (p + 1) * d
  BY <1>1
<1>5. k * d \in Int /\ (p + 1) * d \in Int
  BY <1>1
<1> QED
  BY <1>1, <1>3, <1>4, <1>5 DEF p

(* A step that ends sends, takes reminders off the batch or moves one to a *)
(* send, and leaves every row that is left on time, keeps the phase.       *)
LEMMA RewriteInPhase ==
  ASSUME InPhase, first' = first, due' \subseteq due, rebased \subseteq rebased',
         \A s \in send' : \E t \in due \cup send : s.of = t.of /\ s.at = t.at,
         \A x \in DOMAIN rows' : OnTime(x)',
         \A x \in Reminders \ DOMAIN first : served'[x] = served[x]
  PROVE  InPhase'
<1>1. \A s \in due' \cup send' : \E t \in due \cup send : s.of = t.of /\ s.at = t.at
  OBVIOUS
<1>2. ASSUME NEW s \in due' \cup send', s.of \in Recurring \ rebased'
      PROVE  \E k \in Nat : s.at = first'[s.of] + k * Interval
  <2>1. PICK t \in due \cup send : s.of = t.of /\ s.at = t.at
    BY <1>1
  <2>2. t.of \in Recurring \ rebased
    BY <1>2, <2>1
  <2>3. PICK k \in Nat : t.at = first[t.of] + k * Interval
    BY <2>2 DEF InPhase
  <2> QED
    BY <2>1, <2>3
<1>3. \A x \in Reminders \ DOMAIN first' : served'[x] = 0 - 1
  BY DEF InPhase
<1> QED
  BY <1>2, <1>3 DEF InPhase

(* Retiring a row, putting off a one-shot one, or putting off one whose    *)
(* schedule is given up, leaves every row on time.                         *)
LEMMA UpdateOnTime ==
  ASSUME InPhase, NEW r, NEW row, Update(r, row),
         UNCHANGED <<first, served>>, rebased \subseteq rebased',
         r \in DOMAIN rows => row.at = rows[r].at \/ r \in rebased' \/ r \notin Recurring
  PROVE  \A x \in DOMAIN rows' : OnTime(x)'
<1> SUFFICES ASSUME NEW x \in DOMAIN rows' PROVE OnTime(x)'
  OBVIOUS
<1>1. x \in DOMAIN rows /\ OnTime(x)
  BY DEF InPhase, Update
<1>2. CASE rows'[x] = rows[x]
  BY <1>1, <1>2 DEF OnTime
<1>3. CASE rows'[x] # rows[x]
  <2>1. x = r /\ ~rows[r].sent /\ rows'[r] = row
    BY <1>1, <1>3 DEF Update
  <2>2. r \notin Recurring => served'[r] = 0 - 1
    BY <1>1, <2>1 DEF OnTime
  <2>3. ASSUME r \in Recurring \ rebased'
        PROVE  \E k \in Nat : rows'[r].at = first'[r] + k * Interval /\ served'[r] < k
    <3>1. row.at = rows[r].at /\ r \in Recurring \ rebased
      BY <1>1, <2>1, <2>3
    <3>2. PICK k \in Nat : rows[r].at = first[r] + k * Interval /\ served[r] < k
      BY <1>1, <2>1, <3>1 DEF OnTime
    <3> QED
      BY <2>1, <3>1, <3>2
  <2> QED
    BY <2>1, <2>2, <2>3 DEF OnTime
<1> QED
  BY <1>2, <1>3

LEMMA SetReminderInPhase ==
  ASSUME SchedulerAssumption, SchedulerInv, InPhase, NEW r \in Reminders, SetReminder(r)
  PROVE  InPhase'
<1>1. PICK d \in Delays :
        /\ rows' = [x \in DOMAIN rows \cup {r} |->
             IF x = r THEN [at |-> now + d, sent |-> FALSE, claimedAt |-> Unclaimed]
             ELSE rows[x]]
        /\ first' = [x \in DOMAIN first \cup {r} |-> IF x = r THEN now + d ELSE first[x]]
  BY DEF SetReminder
<1>2. /\ r \notin DOMAIN first
      /\ UNCHANGED <<due, send, now, rebased, served>>
  BY DEF SetReminder
<1>3. now + d \in Nat /\ Interval \in Nat
  <2>1. Delays \subseteq Nat \ {0} /\ Interval \in Nat /\ MaxTime \in Nat
    BY DEF SchedulerAssumption
  <2>2. now \in 0..MaxTime
    BY DEF SchedulerInv, TypeOK
  <2> QED
    BY <2>1, <2>2
<1>4. ASSUME NEW x \in DOMAIN rows' PROVE OnTime(x)'
  <2>1. CASE x = r
    <3>1. rows'[r].at = now + d /\ first'[r] = now + d /\ served'[r] = 0 - 1
      BY <1>1, <1>2 DEF InPhase
    <3>2. rows'[r].at = first'[r] + 0 * Interval /\ served'[r] < 0
      BY <1>3, <3>1
    <3> QED
      BY <2>1, <3>1, <3>2 DEF OnTime
  <2>2. CASE x # r
    <3>1. x \in DOMAIN rows /\ x \in DOMAIN first /\ OnTime(x)
      BY <1>1, <2>2 DEF InPhase, SchedulerInv, CancelledIsGone
    <3>2. rows'[x] = rows[x] /\ first'[x] = first[x]
      BY <1>1, <2>2, <3>1
    <3> QED
      BY <1>2, <3>1, <3>2 DEF OnTime
  <2> QED
    BY <2>1, <2>2
<1>5. \A s \in due \cup send : first'[s.of] = first[s.of]
  BY <1>1, <1>2 DEF SchedulerInv, SelectedIsDue
<1>6. \A s \in due' \cup send' : s.of \in Recurring \ rebased' =>
        \E k \in Nat : s.at = first'[s.of] + k * Interval
  BY <1>2, <1>5 DEF InPhase
<1>7. \A x \in Reminders \ DOMAIN first' : served'[x] = 0 - 1
  BY <1>1, <1>2 DEF InPhase
<1> QED
  BY <1>4, <1>6, <1>7 DEF InPhase

LEMMA ProcessRemindersInPhase ==
  ASSUME SchedulerInv, InPhase, ProcessReminders
  PROVE  InPhase'
<1>1. PICK B \in Batches : due' = {[of |-> r, at |-> rows[r].at] : r \in B}
  BY DEF ProcessReminders
<1>2. UNCHANGED <<rows, send, first, rebased, served>>
  BY DEF ProcessReminders
<1>3. B \subseteq DOMAIN rows
  BY DEF Batches
<1>4. ASSUME NEW s \in due' \cup send', s.of \in Recurring \ rebased'
      PROVE  \E k \in Nat : s.at = first'[s.of] + k * Interval
  <2>1. CASE s \in send
    BY <1>2, <1>4, <2>1 DEF InPhase
  <2>2. CASE s \in due'
    <3>1. PICK r \in B : s = [of |-> r, at |-> rows[r].at]
      BY <1>1, <2>2
    <3>2. OnTime(r) /\ s.of = r /\ s.at = rows[r].at
      BY <1>3, <3>1 DEF InPhase
    <3>3. PICK k \in Nat : rows[r].at = first[r] + k * Interval
      BY <1>2, <1>4, <3>2 DEF OnTime
    <3> QED
      BY <1>2, <3>2, <3>3
  <2> QED
    BY <1>2, <2>1, <2>2
<1>5. \A x \in DOMAIN rows' : OnTime(x)'
  BY <1>2 DEF InPhase, OnTime
<1> QED
  BY <1>2, <1>4, <1>5 DEF InPhase

LEMMA TakeNextInPhase ==
  ASSUME SchedulerAssumption, SchedulerInv, InPhase, NEW s \in due, TakeNext(s)
  PROVE  InPhase'
<1> DEFINE r == s.of
<1>1. /\ send = {} /\ due' = due \ {s}
      /\ UNCHANGED <<now, first, served>>
      /\ \/ UNCHANGED <<rows, attempts, send, rebased>>
         \/ StillDue(r) /\ (DeferOrRetire(r) \/ Refuse(r) \/ StartSend(s))
  BY DEF TakeNext
<1> HIDE DEF r
<1>2. CASE UNCHANGED <<rows, send, rebased>>
  <2>1. \A x \in DOMAIN rows' : OnTime(x)'
    BY <1>1, <1>2 DEF InPhase, OnTime
  <2> QED
    BY <1>1, <1>2, <2>1, RewriteInPhase
<1>3. CASE DeferOrRetire(r)
  <2>1. /\ \/ Update(r, Retired(r)) \/ Update(r, Postponed(r))
        /\ rebased' = rebased \cup {r} /\ send' = send
    BY <1>3 DEF DeferOrRetire
  <2>2. \A x \in DOMAIN rows' : OnTime(x)'
    BY <1>1, <2>1, UpdateOnTime
  <2> QED
    BY <1>1, <2>1, <2>2, RewriteInPhase
<1>4. CASE Refuse(r)
  <2>1. Update(r, Retired(r)) /\ rebased' = rebased /\ send' = send
    BY <1>4 DEF Refuse
  <2>2. r \in DOMAIN rows => Retired(r).at = rows[r].at
    BY DEF SchedulerInv, TypeOK, Row, Retired
  <2>3. \A x \in DOMAIN rows' : OnTime(x)'
    BY <1>1, <2>1, <2>2, UpdateOnTime
  <2> QED
    BY <1>1, <2>1, <2>3, RewriteInPhase
<1>5. CASE StartSend(s)
  <2>1. /\ rows' = [rows EXCEPT ![r].claimedAt = now] /\ rebased' = rebased
        /\ send' = {[of |-> r, at |-> s.at, timer |-> SendTimeout]}
    BY <1>5 DEF StartSend, r
  <2>2. \A x \in DOMAIN rows' : /\ x \in DOMAIN rows /\ rows[x] \in Row
                                /\ rows'[x].at = rows[x].at /\ rows'[x].sent = rows[x].sent
    BY <2>1 DEF SchedulerInv, TypeOK, Row
  <2>3. \A x \in DOMAIN rows' : OnTime(x)'
    BY <1>1, <2>1, <2>2 DEF InPhase, OnTime
  <2>4. \A y \in send' : y.of = s.of /\ y.at = s.at
    BY <2>1 DEF r
  <2> QED
    BY <1>1, <2>1, <2>3, <2>4, RewriteInPhase
<1> QED
  BY <1>1, <1>2, <1>3, <1>4, <1>5

(* The send that resolved was of a reminder in step: its next occurrence   *)
(* is the one after the period the clock is in.                            *)
LEMMA AcknowledgeInPhase ==
  ASSUME SchedulerAssumption, SchedulerInv, InPhase, NEW s \in send, Acknowledge(s)
  PROVE  InPhase'
<1> DEFINE r == s.of
           row == IF r \in Recurring
                  THEN [rows[r] EXCEPT !.at = NextOccurrence(s.at), !.claimedAt = Unclaimed]
                  ELSE [rows[r] EXCEPT !.sent = TRUE, !.claimedAt = Unclaimed]
<1>1. /\ rows' = IF r \in DOMAIN rows THEN [rows EXCEPT ![r] = row] ELSE rows
      /\ send' = {}
      /\ served' = [served EXCEPT ![r] = Period(r)]
      /\ UNCHANGED <<due, now, first, rebased>>
  BY DEF Acknowledge
<1>2. /\ r \in Reminders /\ r \in DOMAIN first /\ s.at <= now
      /\ s.at \in Nat /\ now \in Nat /\ Interval \in Nat \ {0}
      /\ served \in [Reminders -> Int]
      /\ DOMAIN rows \subseteq Reminders
      /\ first[r] \in Nat
      /\ r \in DOMAIN rows => rows[r] \in Row
  BY DEF SchedulerInv, TypeOK, SelectedIsDue, Send, SchedulerAssumption
<1>3. r \in DOMAIN rows =>
        /\ r \in Recurring => row.at = NextOccurrence(s.at)
        /\ r \notin Recurring => row.sent
  BY <1>2 DEF Row
<1>4. ASSUME r \in Recurring \ rebased
      PROVE  \E k \in Nat : NextOccurrence(s.at) = first[r] + k * Interval /\ Period(r) < k
  <2>1. PICK j \in Nat : s.at = first[r] + j * Interval
    BY <1>4 DEF InPhase
  <2> DEFINE late == now - s.at
             p == late \div Interval
  <2>2. late \in Nat /\ now - first[r] = j * Interval + late
    BY <1>2, <2>1
  <2>3. p \in Nat /\ (j * Interval + late) \div Interval = j + p
    BY <1>2, <2>2, PeriodsFrom
  <2>4. Period(r) = j + p
    BY <1>4, <2>2, <2>3 DEF Period
  <2>5. NextOccurrence(s.at) = s.at + (p + 1) * Interval
    BY DEF NextOccurrence
  <2> HIDE DEF p, late
  <2>6. s.at + (p + 1) * Interval = first[r] + (j + p + 1) * Interval
    <3>1. (j + p + 1) * Interval = j * Interval + (p + 1) * Interval
      BY <1>2, <2>3
    <3>2. j * Interval \in Int /\ (p + 1) * Interval \in Int
      BY <1>2, <2>3
    <3> QED
      BY <1>2, <2>1, <3>1, <3>2
  <2>7. j + p + 1 \in Nat /\ j + p < j + p + 1
    BY <2>3
  <2> QED
    BY <2>4, <2>5, <2>6, <2>7
<1> HIDE DEF r, row
<1>5. ASSUME NEW x \in DOMAIN rows' PROVE OnTime(x)'
  <2>0. x \in DOMAIN rows /\ OnTime(x) /\ x \in Reminders
    BY <1>1, <1>2 DEF InPhase
  <2>1. CASE x = r
    <3>1. rows'[r] = row /\ served'[r] = Period(r)
      BY <1>1, <1>2, <2>0, <2>1
    <3>2. r \notin Recurring => rows'[r].sent
      BY <1>3, <2>0, <2>1, <3>1
    <3>3. ASSUME r \in Recurring \ rebased'
          PROVE  \E k \in Nat : rows'[r].at = first'[r] + k * Interval /\ served'[r] < k
      <4>1. rows'[r].at = NextOccurrence(s.at) /\ r \in Recurring \ rebased
        BY <1>1, <1>3, <2>0, <2>1, <3>1, <3>3
      <4>2. PICK k \in Nat : NextOccurrence(s.at) = first[r] + k * Interval /\ Period(r) < k
        BY <1>4, <4>1
      <4> QED
        BY <1>1, <3>1, <4>1, <4>2
    <3> QED
      BY <2>1, <3>2, <3>3 DEF OnTime
  <2>2. CASE x # r
    <3>1. rows'[x] = rows[x] /\ served'[x] = served[x]
      BY <1>1, <1>2, <2>0, <2>2
    <3> QED
      BY <1>1, <2>0, <3>1 DEF OnTime
  <2> QED
    BY <2>1, <2>2
<1>6. \A x \in Reminders \ DOMAIN first : served'[x] = served[x]
  BY <1>1, <1>2
<1> QED
  BY <1>1, <1>5, <1>6, RewriteInPhase

LEMMA FailInPhase ==
  ASSUME SchedulerAssumption, SchedulerInv, InPhase, NEW s \in send, Fail(s)
  PROVE  InPhase'
<1> DEFINE r == s.of
           row == IF attempts[r] + 1 >= MaxAttempts THEN Retired(r) ELSE Released(r)
<1>1. /\ Update(r, row) /\ send' = {}
      /\ UNCHANGED <<due, now, first, rebased, served>>
  BY DEF Fail
<1>2. r \in DOMAIN rows => row.at = rows[r].at \/ r \notin Recurring
  BY DEF SchedulerInv, TypeOK, Row, Retired, Released
<1> HIDE DEF r, row
<1>3. \A x \in DOMAIN rows' : OnTime(x)'
  BY <1>1, <1>2, UpdateOnTime
<1> QED
  BY <1>1, <1>3, RewriteInPhase

LEMMA NextInPhase ==
  ASSUME SchedulerAssumption, SchedulerInv, InPhase, [SchedulerNext]_schedulerVars
  PROVE  InPhase'
<1>1. ASSUME NEW r \in Reminders, SetReminder(r) PROVE InPhase'
  BY <1>1, SetReminderInPhase
<1>2. ASSUME NEW r \in Reminders, Cancel(r) PROVE InPhase'
  <2>1. /\ DOMAIN rows' = DOMAIN rows \ {r}
        /\ \A x \in DOMAIN rows' : rows'[x] = rows[x]
        /\ UNCHANGED <<due, send, first, rebased, served>>
    BY <1>2 DEF Cancel
  <2>2. \A x \in DOMAIN rows' : OnTime(x)'
    BY <2>1 DEF InPhase, OnTime
  <2> QED
    BY <2>1, <2>2, RewriteInPhase
<1>3. CASE ProcessReminders
  BY <1>3, ProcessRemindersInPhase
<1>4. ASSUME NEW s \in due, TakeNext(s) PROVE InPhase'
  BY <1>4, TakeNextInPhase
<1>5. ASSUME NEW s \in send, Acknowledge(s) \/ Fail(s) PROVE InPhase'
  BY <1>5, AcknowledgeInPhase, FailInPhase
<1>6. CASE EndBatch \/ StopScheduler \/ StartScheduler \/ Crash \/ Tick \/ UNCHANGED schedulerVars
  <2>1. /\ UNCHANGED <<rows, first, rebased, served>> /\ due' \subseteq due
        /\ \A s \in send' : \E t \in due \cup send : s.of = t.of /\ s.at = t.at
    <3>1. CASE EndBatch \/ StopScheduler \/ StartScheduler \/ Crash \/ UNCHANGED schedulerVars
      <4>1. UNCHANGED <<rows, first, rebased, served>> /\ due' \in {due, {}} /\ send' \in {send, {}}
        BY <3>1 DEF EndBatch, StopScheduler, StartScheduler, Crash, schedulerVars
      <4> QED
        BY <4>1
    <3>2. CASE Tick
      <4>1. /\ send' = {[s EXCEPT !.timer = @ - 1] : s \in send} /\ send \subseteq Send
            /\ UNCHANGED <<rows, first, rebased, served, due>>
        BY <3>2 DEF Tick, SchedulerInv, TypeOK
      <4> QED
        BY <4>1 DEF Send
    <3> QED
      BY <1>6, <3>1, <3>2
  <2>2. \A x \in DOMAIN rows' : OnTime(x)'
    BY <2>1 DEF InPhase, OnTime
  <2> QED
    BY <2>1, <2>2, RewriteInPhase
<1> QED
  BY <1>1, <1>2, <1>3, <1>4, <1>5, <1>6 DEF SchedulerNext

(* The invariant on schedules holds, together with the first one. *)
THEOREM PhaseInvariance == SchedulerSpec => [](SchedulerInv /\ InPhase)
<1>1. SchedulerInit => SchedulerInv /\ InPhase
  <2>1. SchedulerInit => SchedulerInv
    BY SchedulerAssumption, InitScheduler
  <2>2. SchedulerInit => InPhase
    BY DEF SchedulerInit, InPhase, OnTime
  <2> QED
    BY <2>1, <2>2
<1>2. SchedulerInv /\ InPhase /\ [SchedulerNext]_schedulerVars => (SchedulerInv /\ InPhase)'
  BY SchedulerAssumption, NextScheduler, NextInPhase
<1> QED
  BY <1>1, <1>2, PTL DEF SchedulerSpec

(* However late a reminder is served and however often its send fails, a   *)
(* recurring one stays in step with its schedule (Scheduler.ts:443-448)    *)
(* and is served once in a period of it at most, and a one-shot one is     *)
(* served once, unless it was deferred for want of a sender.               *)
THEOREM SchedulesFollowed == SchedulerSpec => ScheduleFollowed
<1>1. ASSUME SchedulerInv, InPhase
      PROVE  SchedulePhaseKept
  <2> SUFFICES ASSUME NEW r \in (DOMAIN rows \cap Recurring) \ rebased
               PROVE  InStep(r)
    BY DEF SchedulePhaseKept
  <2>1. PICK k \in Nat : rows[r].at = first[r] + k * Interval
    BY <1>1 DEF InPhase, OnTime
  <2>2. r \in DOMAIN first /\ first[r] \in Nat /\ Interval \in Nat \ {0}
    BY <1>1, SchedulerAssumption DEF SchedulerInv, TypeOK, CancelledIsGone, SchedulerAssumption
  <2>3. rows[r].at - first[r] = k * Interval
    BY <2>1, <2>2
  <2> QED
    BY <2>2, <2>3, PeriodsFrom DEF InStep
<1>2. ASSUME SchedulerInv, InPhase, [SchedulerNext]_schedulerVars
      PROVE  \A s \in Begun : s.of \in rebased \/ Period(s.of) > served[s.of]
  <2> SUFFICES ASSUME NEW s \in Begun, s.of \notin rebased
               PROVE  Period(s.of) > served[s.of]
    OBVIOUS
  <2>1. PICK t \in due : TakeNext(t) /\ StillDue(t.of) /\ s.of = t.of
    BY <1>2, BegunByTakeNext
  <2> DEFINE r == s.of
  <2>2. /\ r \in DOMAIN rows /\ OnTime(r) /\ ~rows[r].sent /\ rows[r].at <= now
        /\ r \in DOMAIN first
    BY <1>2, <2>1 DEF StillDue, Selectable, InPhase, SchedulerInv, CancelledIsGone
  <2>3. /\ first[r] \in Nat /\ Interval \in Nat \ {0} /\ now \in Nat
        /\ served[r] \in Int
    BY <1>2, <2>2, SchedulerAssumption DEF SchedulerInv, TypeOK, SchedulerAssumption
  <2> HIDE DEF r
  <2>4. CASE r \notin Recurring
    BY <2>2, <2>4 DEF OnTime, Period, r
  <2>5. CASE r \in Recurring
    <3>1. PICK k \in Nat : rows[r].at = first[r] + k * Interval /\ served[r] < k
      BY <2>2, <2>5 DEF OnTime, r
    <3>2. k * Interval \in Nat
      BY <2>3
    <3>3. now - first[r] \in Nat /\ k * Interval <= now - first[r]
      BY <2>2, <2>3, <3>1, <3>2
    <3>4. k <= (now - first[r]) \div Interval
      BY <2>3, <3>3, PeriodsOrdered
    <3>5. (now - first[r]) \div Interval \in Nat
      BY <2>3, <3>3, PeriodsFrom
    <3> DEFINE p == (now - first[r]) \div Interval
    <3>6. Period(r) = p
      BY <2>5 DEF Period
    <3>7. p \in Nat /\ k <= p
      BY <3>4, <3>5
    <3> HIDE DEF p
    <3>8. p > served[r]
      BY <2>3, <3>1, <3>7
    <3> QED
      BY <3>6, <3>8 DEF r
  <2> QED
    BY <2>4, <2>5
<1>3. SchedulerInv /\ InPhase /\ [SchedulerNext]_schedulerVars =>
        [\A s \in Begun : s.of \in rebased \/ Period(s.of) > served[s.of]]_schedulerVars
  BY <1>2
<1>4. SchedulerSpec => []SchedulePhaseKept
  BY <1>1, PhaseInvariance, PTL
<1>5. SchedulerSpec => ServedOncePerPeriod
  BY <1>3, PhaseInvariance, PTL DEF ServedOncePerPeriod, SchedulerSpec
<1> QED
  BY <1>4, <1>5 DEF ScheduleFollowed
=============================================================================
