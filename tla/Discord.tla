------------------------------- MODULE Discord -------------------------------
(***************************************************************************)
(* src/src/providers/discord.ts: one client per generation, that keeps its *)
(* gateway by itself.  login() returns before the gateway is ready, and    *)
(* only the client's ready event makes the provider run.                   *)
(*                                                                         *)
(* External: when the gateway is lost and taken up again.  The client says *)
(* that it is ready once; that a session was resumed has no listener.      *)
(***************************************************************************)
EXTENDS Providers

VARIABLES
  dc,       \* [gen, status, client, run, outcome]
  clients,  \* [Gens -> "none", "login", "up", "ready", "reconnecting", "resumed", "dead", "destroyed"]
  dcOwner   \* the generations whose owner is being seeded

dcVars == <<dc, clients, dcOwner>>

DcInit ==
  /\ dc = [gen |-> 0, status |-> "stopped", client |-> 0, run |-> 0, outcome |-> "none"]
  /\ clients = [g \in Gens |-> "none"] /\ dcOwner = {}

DcCurrent(g) == dc.client = g /\ dc.gen = g
DcRunning == dc.status = "running"
DcLive == {g \in Gens : clients[g] \in {"up", "ready", "reconnecting", "resumed"}}

DcStart ==
  /\ ~DcRunning /\ ~(dc.run # 0 /\ dc.status = "starting") /\ dc.gen < MaxGen
  /\ dc' = [dc EXCEPT !.gen = @ + 1, !.status = "starting", !.client = dc.gen + 1, !.run = dc.gen + 1]
  /\ clients' = [clients EXCEPT ![dc.gen + 1] = "login"] /\ UNCHANGED dcOwner

(* A client whose login is under way is destroyed when it returns. *)
DcStop ==
  /\ dc' = [dc EXCEPT !.gen = @ + 1, !.status = "stopped", !.client = 0]
  /\ clients' = [g \in Gens |-> IF g = dc.client /\ clients[g] # "login" THEN "destroyed" ELSE clients[g]]
  /\ UNCHANGED dcOwner

DcSettled(d, outcome) == [d EXCEPT !.run = 0, !.outcome = IF @ = "none" THEN outcome ELSE @]

DcLoggedIn(g) == clients' = [clients EXCEPT ![g] = IF DcCurrent(g) THEN "up" ELSE "destroyed"]

DcLogin(g) ==
  /\ clients[g] = "login" /\ dc' = DcSettled(dc, "fulfilled") /\ DcLoggedIn(g) /\ UNCHANGED dcOwner

DcLoginFails(g) ==
  /\ clients[g] = "login" /\ clients' = [clients EXCEPT ![g] = "destroyed"]
  /\ dc' = IF dc.gen # g THEN DcSettled(dc, "fulfilled")
           ELSE [DcSettled(dc, "rejected") EXCEPT !.client = IF @ = g THEN 0 ELSE @, !.status = "error"]
  /\ UNCHANGED dcOwner

DcReady(g) ==
  /\ clients[g] = "up" /\ clients' = [clients EXCEPT ![g] = "ready"]
  /\ IF DcCurrent(g) THEN dc' = [dc EXCEPT !.status = "running"] /\ dcOwner' = dcOwner \cup {g} ELSE UNCHANGED <<dc, dcOwner>>

DcReconnecting(g) ==
  /\ clients[g] \in {"ready", "resumed"} /\ clients' = [clients EXCEPT ![g] = "reconnecting"]
  /\ dc' = IF dc.client = g /\ DcRunning THEN [dc EXCEPT !.status = "backoff"] ELSE dc
  /\ UNCHANGED dcOwner

DcResumed(g) ==
  /\ clients[g] = "reconnecting" /\ clients' = [clients EXCEPT ![g] = "resumed"] /\ UNCHANGED <<dc, dcOwner>>

DcDisconnect(g) ==
  /\ g \in DcLive /\ clients' = [clients EXCEPT ![g] = "dead"]
  /\ dc' = IF dc.client = g THEN [dc EXCEPT !.status = "error"] ELSE dc
  /\ UNCHANGED dcOwner

DcSeeded(g) == g \in dcOwner /\ dcOwner' = dcOwner \ {g} /\ UNCHANGED <<dc, clients>>
-----------------------------------------------------------------------------
(* A message is read, with the one it quotes, and then handed over.        *)
DcArrive(m, g) ==
  /\ turn[m] = Fresh /\ clients[g] \in {"ready", "resumed"} /\ DcCurrent(g)
  /\ turn' = [turn EXCEPT ![m] = [at |-> "quoted", on |-> "discord", gen |-> g]]
  /\ UNCHANGED <<media, rejected, stale, dcVars>>

DcRead(m) ==
  /\ turn[m].on = "discord" /\ turn[m].at = "quoted"
  /\ Moves(m, "offered") /\ UNCHANGED <<media, rejected, stale, dcVars>>

DcMayAct(m) == DcCurrent(turn[m].gen)

DcReply(m) ==
  /\ turn[m].on = "discord" /\ turn[m].at = "queued" /\ DcMayAct(m)
  /\ stale' = IF clients[turn[m].gen] # "destroyed" THEN stale ELSE stale \cup {m}
  /\ UNCHANGED <<turn, media, rejected, dcVars>>

DcDownload(m) ==
  /\ turn[m].on = "discord" /\ turn[m].at = "queued" /\ media[m] = "none"
  /\ media' = [media EXCEPT ![m] = "loading"] /\ UNCHANGED <<turn, rejected, stale, dcVars>>

DcSaved(m) ==
  /\ turn[m].on = "discord" /\ media[m] = "loading"
  /\ media' \in {[media EXCEPT ![m] = at] : at \in {"kept", "lost"}} /\ UNCHANGED <<turn, rejected, stale, dcVars>>
=============================================================================
