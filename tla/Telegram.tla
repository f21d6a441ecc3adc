------------------------------ MODULE Telegram -------------------------------
(***************************************************************************)
(* src/src/providers/telegram.ts: one polling bot per generation.  start() *)
(* settles when the bot has authenticated and seeded its owner, when       *)
(* polling ends, or after 30 seconds.                                      *)
(*                                                                         *)
(* Abstracted: the delay of the timer, the texts, and which call of the    *)
(* API an action is.                                                       *)
(***************************************************************************)
EXTENDS Providers

VARIABLES
  tg,    \* [desired, gen, status, bot, timer, started, guard, outcome]
  bots   \* [Gens -> "none", "authenticating", "seeding", "polling", "dead", "stopped"]

tgVars == <<tg, bots>>

TgInit ==
  /\ tg = [desired |-> FALSE, gen |-> 0, status |-> "stopped", bot |-> 0, timer |-> 0, started |-> 0, guard |-> FALSE, outcome |-> "none"]
  /\ bots = [g \in Gens |-> "none"]

TgCurrent(g) == tg.bot = g /\ tg.gen = g /\ tg.desired
TgRunning == tg.status = "running"
TgLive == {g \in Gens : bots[g] \in {"authenticating", "seeding", "polling"}}

(* A start while running does nothing, and while starting it joins. *)
TgStarts(t) == ~(t.status = "running" \/ (t.started # 0 /\ t.status = "starting"))
TgStarted(t) ==
  IF TgStarts(t)
  THEN [t EXCEPT !.desired = TRUE, !.status = "starting", !.gen = @ + 1, !.bot = t.gen + 1, !.started = t.gen + 1, !.guard = TRUE]
  ELSE t
TgBots(t) == IF TgStarts(t) THEN [bots EXCEPT ![t.gen + 1] = "authenticating"] ELSE bots

TgStart == tg.gen < MaxGen /\ tg' = TgStarted(tg) /\ bots' = TgBots(tg)

TgStop ==
  /\ tg' = [tg EXCEPT !.desired = FALSE, !.gen = @ + 1, !.bot = 0, !.status = "stopped", !.timer = 0]
  /\ bots' = [g \in Gens |-> IF g = tg.bot /\ g \in TgLive THEN "stopped" ELSE bots[g]]

TgTimer ==
  /\ tg.timer # 0 /\ tg.gen < MaxGen
  /\ LET t == [tg EXCEPT !.timer = 0]
     IN  IF t.desired /\ tg.timer = t.gen THEN tg' = TgStarted(t) /\ bots' = TgBots(t) ELSE tg' = t /\ UNCHANGED bots

(* How the promise of start() ends; outcome is the first start's. *)
TgSettled(t, outcome) == IF t.started = 0 THEN t ELSE [t EXCEPT !.started = 0, !.outcome = IF @ = "none" THEN outcome ELSE @]

(* The guard rejects the start; the bot goes on trying. *)
TgGuard == tg.guard /\ tg' = [TgSettled(tg, "rejected") EXCEPT !.guard = FALSE] /\ UNCHANGED bots

TgAuthenticated(g) ==
  /\ bots[g] = "authenticating"
  /\ bots' = [bots EXCEPT ![g] = IF TgCurrent(g) THEN "seeding" ELSE "polling"] /\ UNCHANGED tg

TgSeeded(g) ==
  /\ bots[g] = "seeding"
  /\ bots' = [bots EXCEPT ![g] = "polling"]
  /\ tg' = IF TgCurrent(g) THEN [TgSettled(tg, "fulfilled") EXCEPT !.status = "running", !.guard = FALSE] ELSE tg

(* Polling ends: the guard is cleared, and a bot that is still the current *)
(* one is started again later.                                             *)
TgFails(g) ==
  /\ g \in TgLive
  /\ bots' = [bots EXCEPT ![g] = "dead"]
  /\ tg' = IF TgCurrent(g)
           THEN [TgSettled(tg, "rejected") EXCEPT !.guard = FALSE, !.status = "backoff", !.timer = IF tg.timer = 0 THEN g ELSE tg.timer]
           ELSE [tg EXCEPT !.guard = @ /\ tg.started # g]
-----------------------------------------------------------------------------
(* The context is built at once, and the load of its media begins with it. *)
TgArrive(m, g) ==
  /\ turn[m] = Fresh /\ bots[g] = "polling" /\ TgCurrent(g)
  /\ turn' = [turn EXCEPT ![m] = [at |-> "offered", on |-> "telegram", gen |-> g]]
  /\ media' \in {media, [media EXCEPT ![m] = "asked"]}
  /\ UNCHANGED <<rejected, stale, tgVars>>

(* Answers go through whatever bot there is; the other actions through the *)
(* one the message came from.                                              *)
TgReply(m) ==
  /\ turn[m].on = "telegram" /\ turn[m].at = "queued" /\ tg.bot # 0 /\ tg.desired
  /\ stale' = IF bots[tg.bot] # "stopped" THEN stale ELSE stale \cup {m}
  /\ UNCHANGED <<turn, media, rejected, tgVars>>

TgAct(m) ==
  /\ turn[m].on = "telegram" /\ turn[m].at = "queued" /\ TgCurrent(turn[m].gen)
  /\ stale' = IF bots[turn[m].gen] # "stopped" THEN stale ELSE stale \cup {m}
  /\ UNCHANGED <<turn, media, rejected, tgVars>>

(* The file's address has been asked for; only now can stop() abort.       *)
TgFile(m) ==
  /\ turn[m].on = "telegram" /\ media[m] = "asked"
  /\ media' = [media EXCEPT ![m] = "loading"] /\ UNCHANGED <<turn, rejected, stale, tgVars>>

TgSaved(m) ==
  /\ turn[m].on = "telegram" /\ media[m] = "loading"
  /\ media' \in {[media EXCEPT ![m] = at] : at \in {"kept", "lost"}} /\ UNCHANGED <<turn, rejected, stale, tgVars>>
=============================================================================
