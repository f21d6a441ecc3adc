---------------------------- MODULE ModelRouter ----------------------------
(***************************************************************************)
(* The model router, src/utils/ModelRouter.ts: the order in which the      *)
(* providers are tried, the circuit breaker of each of them, and what a    *)
(* request looks like for a provider that lacks a capability.              *)
(*                                                                         *)
(* A circuit opens for a while that nothing in the code depends on but its *)
(* end, so openUntil is kept as whether it still lies ahead.               *)
(***************************************************************************)
EXTENDS Integers, Sequences, FiniteSets, SequencesExt

CONSTANTS
  Providers,
  Order,          \* the providers in the order of AI_PROVIDERS
  Tier,           \* the tier of each
  ToolCapable,    \* those that support tools
  Threshold       \* CIRCUIT_BREAKER_THRESHOLD

ASSUME ModelRouterAssumption ==
  /\ Order \in Seq(Providers) /\ Range(Order) = Providers /\ IsInjective(Order)
  /\ DOMAIN Tier = Providers /\ ToolCapable \subseteq Providers
  /\ Threshold \in Nat \ {0}

NoTier == "none"

(* getProvidersByTier: those of the tier first, or all as they come.       *)
ByTier(tier) ==
  IF tier = NoTier THEN Order
  ELSE SelectSeq(Order, LAMBDA p : Tier[p] = tier) \o SelectSeq(Order, LAMBDA p : Tier[p] # tier)

(* Failures are counted as far as the threshold. *)
Circuit == [state : {"closed", "open", "halfOpen"}, failures : 0..Threshold, cooling : BOOLEAN, probe : BOOLEAN]

(* getCircuit, clearProviderCircuit *)
Fresh == [state |-> "closed", failures |-> 0, cooling |-> FALSE, probe |-> FALSE]

(* A circuit that just opened. *)
Opened == [state |-> "open", failures |-> Threshold, cooling |-> TRUE, probe |-> FALSE]

Skipped(c) == c.state = "open" /\ c.cooling

(* getCandidateProviders: whoever is not cooling down; an open circuit     *)
(* whose time is over is half open from now on.                            *)
Revived(c) == IF c.state = "open" /\ ~c.cooling THEN [c EXCEPT !.state = "halfOpen", !.probe = FALSE] ELSE c

Candidates(circuit, tier) == SelectSeq(ByTier(tier), LAMBDA p : ~Skipped(circuit[p]))

(* acquireProvider: a half-open circuit lets one request through.          *)
CanAcquire(c) == c.state = "halfOpen" => ~c.probe

Acquired(c) == IF c.state = "halfOpen" THEN [c EXCEPT !.probe = TRUE] ELSE c

(* Mutant of Failed: the count starts again when the circuit opens.        *)
FailedForgetting(c) ==
  IF c.state = "open" THEN c
  ELSE IF c.failures + 1 >= Threshold
       THEN [state |-> "open", failures |-> 0, cooling |-> TRUE, probe |-> FALSE]
       ELSE [c EXCEPT !.failures = @ + 1, !.probe = FALSE]

(* markProviderFailure *)
Failed(c) ==
  IF c.state = "open" THEN c
  ELSE IF c.failures + 1 >= Threshold
       THEN Opened
       ELSE [c EXCEPT !.failures = @ + 1, !.probe = FALSE]

(***************************************************************************)
(* A history is a sequence of messages: what the user said, what the       *)
(* assistant said with the number of tool calls it made, and the results   *)
(* of tools, each with the number of the call it answers.                  *)
(***************************************************************************)
UserMessage == [role |-> "user", n |-> 0]
AssistantMessage(calls) == [role |-> "assistant", n |-> calls]
ToolMessage(call) == [role |-> "tool", n |-> call]

(* removeToolProtocol: a result becomes a message of the user, and the     *)
(* calls become text.                                                      *)
RemoveToolProtocol(history) ==
  [i \in DOMAIN history |-> IF history[i].role = "tool" THEN UserMessage
                            ELSE [history[i] EXCEPT !.n = 0]]

(* adaptChatRequest *)
Adapted(history, p) == IF p \in ToolCapable THEN history ELSE RemoveToolProtocol(history)

(* The calls of every assistant message, and no others, are answered in    *)
(* their order right after it.                                             *)
Paired(history) ==
  /\ \A i \in DOMAIN history : history[i].role = "assistant" =>
       \A k \in 1..history[i].n : i + k \in DOMAIN history /\ history[i + k] = ToolMessage(k)
  /\ \A i \in DOMAIN history : history[i].role = "tool" =>
       LET j == i - history[i].n
       IN  j \in DOMAIN history /\ history[j].role = "assistant" /\ history[j].n >= history[i].n
=============================================================================
