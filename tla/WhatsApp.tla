------------------------------ MODULE WhatsApp -------------------------------
(***************************************************************************)
(* src/src/providers/whatsapp.ts: one socket per generation.  start() goes *)
(* through two awaits before it has a socket; the socket's events, and the *)
(* steps of every message read from it, ask whether they still belong to   *)
(* the current one.  A timer starts it again after a failure.              *)
(*                                                                         *)
(* Abstracted: the delay of the timer, QR codes, texts, and what a message *)
(* is made of.                                                             *)
(***************************************************************************)
EXTENDS Providers

VARIABLES
  wa,      \* [desired, gen, status, sock, timer, run, at, lid, outcome]
  waConn,  \* [Gens -> "none", "connecting", "open", "closed"]
  waOwner  \* [Gens -> how far the seeding of the owner is]

waVars == <<wa, waConn, waOwner>>

WaInit ==
  /\ wa = [desired |-> FALSE, gen |-> 0, status |-> "stopped", sock |-> 0, timer |-> 0,
           run |-> 0, at |-> "none", lid |-> FALSE, outcome |-> "none"]
  /\ waConn = [g \in Gens |-> "none"] /\ waOwner = [g \in Gens |-> "none"]

WaCurrent(g) == wa.desired /\ wa.gen = g /\ wa.sock = g
WaEnsured(g) == wa.desired /\ wa.gen = g
WaRunning == wa.status = "running"
WaLive == {g \in Gens : waConn[g] \in {"connecting", "open"}}

(* A start while one is in flight joins it. *)
WaStarted ==
  IF wa.run # 0 THEN wa
  ELSE [wa EXCEPT !.desired = TRUE, !.status = "starting", !.gen = @ + 1, !.run = wa.gen + 1, !.at = "auth"]

WaStart == wa.gen < MaxGen /\ wa' = WaStarted /\ UNCHANGED <<waConn, waOwner>>

WaStopped == [wa EXCEPT !.desired = FALSE, !.gen = @ + 1, !.status = "stopped", !.timer = 0, !.sock = 0, !.lid = FALSE]

WaStop ==
  /\ wa' = WaStopped
  /\ waConn' = [g \in Gens |-> IF g = wa.sock THEN "closed" ELSE waConn[g]]
  /\ UNCHANGED waOwner

(* Sets the timer unless one is set, and says so in the status. *)
Reconnecting(w, g) == IF w.timer # 0 THEN w ELSE [w EXCEPT !.timer = g, !.status = "backoff"]

WaTimer ==
  /\ wa.timer # 0 /\ wa.gen < MaxGen
  /\ wa' = LET w == [wa EXCEPT !.timer = 0]
           IN  IF w.desired /\ wa.timer = w.gen
               THEN IF w.run # 0 THEN w ELSE [WaStarted EXCEPT !.timer = 0]
               ELSE w
  /\ UNCHANGED <<waConn, waOwner>>

(* An await of start() returns: the credentials, then the version.  The    *)
(* outcome is the first start's.                                           *)
WaSettled(outcome) == [wa EXCEPT !.run = 0, !.at = "none", !.outcome = IF @ = "none" THEN outcome ELSE @]

WaCredentials ==
  /\ wa.at = "auth"
  /\ wa' = IF WaEnsured(wa.run) THEN [wa EXCEPT !.at = "version"] ELSE WaSettled("fulfilled")
  /\ UNCHANGED <<waConn, waOwner>>

(* The socket of before is ended, and the new one takes its place. *)
WaConnect ==
  /\ wa.at = "version"
  /\ IF WaEnsured(wa.run)
     THEN /\ wa' = [WaSettled("fulfilled") EXCEPT !.sock = wa.run]
          /\ waConn' = [g \in Gens |-> IF g = wa.run THEN "connecting" ELSE IF g = wa.sock THEN "closed" ELSE waConn[g]]
     ELSE wa' = WaSettled("fulfilled") /\ UNCHANGED waConn
  /\ UNCHANGED waOwner

WaStartFails ==
  /\ wa.run # 0
  /\ wa' = IF WaEnsured(wa.run)
           THEN Reconnecting([WaSettled("rejected") EXCEPT !.sock = 0, !.lid = FALSE, !.status = "backoff"], wa.run)
           ELSE WaSettled("fulfilled")
  /\ UNCHANGED <<waConn, waOwner>>

WaOpen(g) ==
  /\ waConn[g] = "connecting" /\ waConn' = [waConn EXCEPT ![g] = "open"]
  /\ IF WaCurrent(g)
     THEN wa' = [wa EXCEPT !.status = "running"] /\ waOwner' = [waOwner EXCEPT ![g] = "lid"]
     ELSE UNCHANGED <<wa, waOwner>>

WaClosed(g, loggedOut) ==
  IF loggedOut THEN [wa EXCEPT !.sock = 0, !.lid = FALSE, !.status = "error"]
  ELSE Reconnecting([wa EXCEPT !.sock = 0, !.lid = FALSE, !.status = "backoff"], g)

WaClose(g, loggedOut) ==
  /\ g \in WaLive /\ waConn' = [waConn EXCEPT ![g] = "closed"]
  /\ wa' = IF WaCurrent(g) THEN WaClosed(g, loggedOut) ELSE wa
  /\ UNCHANGED waOwner

(* After "open": the bot's own id, the owner's id, the identity, the role. *)
NextSeed == [lid |-> "owner", owner |-> "identity", identity |-> "role", role |-> "none"]

WaSeed(g) ==
  /\ waOwner[g] # "none"
  /\ waOwner' = [waOwner EXCEPT ![g] = IF waOwner[g] # "role" /\ ~WaCurrent(g) THEN "none" ELSE NextSeed[@]]
  /\ wa' = IF waOwner[g] = "lid" /\ WaCurrent(g) THEN [wa EXCEPT !.lid = TRUE] ELSE wa
  /\ UNCHANGED waConn

WaSeedFails(g) ==
  /\ waOwner[g] \in {"owner", "identity", "role"}
  /\ waOwner' = [waOwner EXCEPT ![g] = "none"] /\ UNCHANGED <<wa, waConn>>
-----------------------------------------------------------------------------
(* A message comes in live, or with the history, whose media are skipped.  *)
WaArrive(m, g, on) ==
  /\ turn[m] = Fresh /\ waConn[g] = "open" /\ WaCurrent(g)
  /\ turn' = [turn EXCEPT ![m] = [at |-> IF wa.lid THEN "parse" ELSE "lid", on |-> on, gen |-> g]]
  /\ UNCHANGED <<media, rejected, stale, waVars>>

WaTurn(m) == turn[m].on \in {"whatsapp", "history"}

(* Every await of createContext is followed by the question whether the    *)
(* socket is the same.  If it is not, the error leaves the listener of the *)
(* live messages, and nobody handles it.                                   *)
WaRead(m) ==
  /\ WaTurn(m) /\ turn[m].at \in {"lid", "parse", "sender"}
  /\ IF WaCurrent(turn[m].gen)
     THEN /\ Moves(m, [lid |-> "parse", parse |-> "sender", sender |-> "built"][turn[m].at])
          /\ wa' \in IF turn[m].at = "lid" THEN {wa, [wa EXCEPT !.lid = TRUE]} ELSE {wa}
          /\ UNCHANGED rejected
     ELSE /\ Moves(m, "dropped") /\ UNCHANGED wa
          /\ rejected' = (rejected \/ turn[m].on = "whatsapp")
  /\ UNCHANGED <<media, stale, waConn, waOwner>>

(* The read receipt is sent, and then the handler is called. *)
WaDeliver(m) ==
  /\ WaTurn(m)
  /\ \/ /\ turn[m].at = "built"
        /\ Moves(m, IF ~WaCurrent(turn[m].gen) THEN "dropped" ELSE IF turn[m].on = "history" THEN "done" ELSE "receipt")
     \/ turn[m].at = "receipt" /\ Moves(m, "offered")
  /\ UNCHANGED <<media, rejected, stale, waVars>>

(* Mutant of WaMayAct: only the provider's status is asked. *)
WaMayActRunning(m) == WaRunning

WaMayAct(m) == WaCurrent(turn[m].gen)

(* What a turn does with its message: answer, edit, react, delete ...      *)
WaReply(m) ==
  /\ turn[m].on = "whatsapp" /\ turn[m].at = "queued" /\ WaMayAct(m)
  /\ stale' = IF turn[m].gen \in WaLive THEN stale ELSE stale \cup {m}
  /\ UNCHANGED <<turn, media, rejected, waVars>>

WaDownload(m) ==
  /\ turn[m].on = "whatsapp" /\ turn[m].at = "queued" /\ media[m] = "none"
  /\ media' = [media EXCEPT ![m] = "loading"] /\ UNCHANGED <<turn, rejected, stale, waVars>>

(* What was saved for a socket that is gone is deleted again. *)
WaSaved(m) ==
  /\ turn[m].on = "whatsapp" /\ media[m] = "loading"
  /\ media' = [media EXCEPT ![m] = IF WaCurrent(turn[m].gen) THEN "kept" ELSE "lost"]
  /\ UNCHANGED <<turn, rejected, stale, waVars>>
=============================================================================
