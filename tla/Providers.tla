------------------------------ MODULE Providers ------------------------------
(***************************************************************************)
(* What the chat providers share: connections numbered by the generation   *)
(* that made them, messages on their way to the handler, and the media     *)
(* loaded for them.  A message is on the platform and the connection that  *)
(* turn[m] names.                                                          *)
(***************************************************************************)
EXTENDS Integers, FiniteSets

CONSTANTS
  MaxGen,   \* bound: generations of one provider
  Msgs,     \* the messages that may arrive
  None

ASSUME ProvidersAssumption == MaxGen \in Nat

VARIABLES
  turn,     \* [Msgs -> [at, on, gen]]: how far a message is, and where it came in
  media,    \* [Msgs -> "none", "asked", "loading", "kept", "lost"]
  rejected, \* a promise nobody handles was rejected
  stale     \* messages answered on a connection that was closed before

Gens == 1..MaxGen

turnVars == <<turn, media, rejected, stale>>

Fresh == [at |-> "none", on |-> None, gen |-> 0]

TurnsInit ==
  /\ turn = [m \in Msgs |-> Fresh] /\ media = [m \in Msgs |-> "none"]
  /\ rejected = FALSE /\ stale = {}

Moves(m, at) == turn' = [turn EXCEPT ![m].at = at]

(* stop() aborts the downloads it knows of. *)
Aborted(platform) ==
  media' = [m \in Msgs |-> IF turn[m].on = platform /\ media[m] = "loading" THEN "lost" ELSE media[m]]
=============================================================================
