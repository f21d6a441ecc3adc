-------------------------------- MODULE Turn --------------------------------
(***************************************************************************)
(* A turn of the agent, from its first request to a model to its reply:    *)
(* the loop of handleIncomingMessage in src/agent/index.ts over the model  *)
(* router, the client's streams, the budget of src/ai/turnBudget.ts and    *)
(* the admission and queues of mutating tools in src/tools/registry.ts.    *)
(*                                                                         *)
(* The turns here belong to one sender and run in different rooms at once, *)
(* so they share the circuits and wait for each other's mutating tools.    *)
(* A turn that is a slash command runs one tool and replies.               *)
(*                                                                         *)
(* Text is kept as whose useful text it holds: blank text and closed       *)
(* <think> blocks, which are stripped everywhere, are the empty set.       *)
(* A send or an edit that succeeds returns the handle of its message.      *)
(***************************************************************************)
EXTENDS ModelRouter

CONSTANTS
  Turns,
  Scenes,          \* bound: which turns are under way at once, and whose circuits are open then
  Streaming,       \* the turns whose platform can edit a message
  MaxIterations,   \* AI_MAX_TOOL_ITERATIONS
  MaxChunks,       \* bound: chunks of one stream
  Names,           \* [Turns -> SUBSET names a model may call]
  Allowed,         \* [Turns -> SUBSET names]: by roles and binding, less deniedToolNames
  Commands, CommandOf,  \* the turns that are a slash command, and its tool
  Known,           \* the registered tools
  Mutating,        \* those whose mutability is not read
  Finder,          \* find_tools
  Found,           \* what a search finds, whoever asks
  Powerful,        \* the tools whose modelTier asks for that tier
  CostLimit,       \* TOOL_MUTATION_COST_LIMIT over the cost of a tool
  MaxToolCalls, MaxResultSize, MaxTotalSize   \* limits of the turn's budget

ASSUME TurnAssumption ==
  /\ Streaming \subseteq Turns /\ Commands \subseteq Turns /\ Scenes \subseteq [turns : SUBSET Turns, failing : SUBSET Providers]
  /\ DOMAIN CommandOf = Commands
  /\ {MaxIterations, MaxChunks, CostLimit, MaxToolCalls, MaxResultSize, MaxTotalSize} \subseteq Nat \ {0}
  /\ DOMAIN Names = Turns /\ DOMAIN Allowed = Turns
  /\ \A t \in Turns : Allowed[t] \subseteq Known

VARIABLES
  circuit,    \* [Providers -> Circuit]
  at,         \* where each turn is
  iteration,
  todo,       \* the providers it has yet to try for this request
  stream,     \* the request under way: its provider, and what the router saw of it
  heard,      \* accumulated text and tool calls, as the agent keeps them
  live,       \* the live message of this iteration, and streamedResponseSent
  history,    \* messagesForAI
  calls,      \* tool calls not yet answered, the first being handled
  answers,    \* toolResults
  budget,     \* calls claimed, size of the results
  granted,    \* dynamicToolNames
  tier,       \* preferredTier
  final,      \* finalAiResponseText: none, the answer, or internal_error
  reply,      \* how the reply went: none, shown, sent, or left to the outbox
  queue,      \* mutationQueues: per tool, the turns that run it or wait
  cost,       \* rateWindows: what the current minute has cost
  through     \* requests let through since a circuit became half open

routing == <<circuit, through>>
talking == <<todo, stream, heard, live>>
working == <<calls, answers, budget, granted, tier>>
guarding == <<queue, cost>>
ending == <<final, reply>>
vars == <<at, iteration, history, routing, talking, working, guarding, ending>>

Request(p) == [from |-> p, chunks |-> 0, useful |-> FALSE]
Idle == Request(NoTier)
Nothing == [voices |-> {}, calls |-> <<>>]
Unsent == [shows |-> "none", failed |-> FALSE, sent |-> FALSE]

(* What an iteration leaves of its live message. *)
Past(l) == [Unsent EXCEPT !.sent = l.sent]

Init ==
  /\ through = [p \in Providers |-> 0]
  /\ \E scene \in Scenes :
       /\ at = [t \in Turns |-> IF t \notin scene.turns THEN "done" ELSE IF t \in Commands THEN "call" ELSE "ask"]
       /\ circuit = [p \in Providers |-> IF p \in scene.failing THEN Opened ELSE Fresh]
  /\ iteration = [t \in Turns |-> 0]
  /\ todo = [t \in Turns |-> <<>>]
  /\ stream = [t \in Turns |-> Idle]
  /\ heard = [t \in Turns |-> Nothing]
  /\ live = [t \in Turns |-> Unsent]
  /\ history = [t \in Turns |-> <<UserMessage>>]
  /\ calls = [t \in Turns |-> IF t \in Commands THEN <<CommandOf[t]>> ELSE <<>>]
  /\ answers = [t \in Turns |-> 0]
  /\ budget = [t \in Turns |-> [calls |-> 0, size |-> 0]]
  /\ granted = [t \in Turns |-> {}]
  /\ tier = [t \in Turns |-> NoTier]
  /\ final = [t \in Turns |-> "none"]
  /\ reply = [t \in Turns |-> "none"]
  /\ queue = [n \in Mutating |-> <<>>]
  /\ cost = [n \in Mutating |-> 0]

Goto(t, s) == at' = [at EXCEPT ![t] = s]

(* The catch around an iteration. *)
GiveUp(t) ==
  /\ final' = [final EXCEPT ![t] = "error"]
  /\ Goto(t, "save")

(***************************************************************************)
(* Requests *)
(***************************************************************************)

(* The next iteration asks the providers that are not cooling down; the    *)
(* circuits whose time is over become half open.  If all of them cool      *)
(* down, the turn ends with an error; so it does after the last iteration. *)
Ask(t) ==
  LET candidates == Candidates(circuit, tier[t])
  IN  /\ at[t] = "ask" /\ iteration[t] < MaxIterations
      /\ iteration' = [iteration EXCEPT ![t] = @ + 1]
      /\ circuit' = [p \in Providers |-> Revived(circuit[p])]
      /\ through' = through
      /\ todo' = [todo EXCEPT ![t] = candidates]
      /\ IF candidates = <<>> THEN GiveUp(t) ELSE Goto(t, "try") /\ final' = final
      /\ UNCHANGED <<stream, heard, live, history, working, guarding, reply>>

Exhausted(t) ==
  /\ at[t] = "ask" /\ iteration[t] = MaxIterations
  /\ GiveUp(t)
  /\ UNCHANGED <<iteration, history, routing, talking, working, guarding, reply>>

(* The next provider, unless its half-open circuit is being probed; when   *)
(* none is left the last error, or AllProvidersOpenError, is thrown.       *)
Try(t) ==
  /\ at[t] = "try"
  /\ \/ /\ todo[t] = <<>>
        /\ GiveUp(t)
        /\ UNCHANGED <<todo, stream, routing>>
     \/ /\ todo[t] # <<>> /\ ~CanAcquire(circuit[Head(todo[t])])
        /\ todo' = [todo EXCEPT ![t] = Tail(@)]
        /\ UNCHANGED <<at, final, stream, routing>>
     \/ /\ todo[t] # <<>> /\ CanAcquire(circuit[Head(todo[t])])
        /\ LET p == Head(todo[t]) IN
             /\ circuit' = [circuit EXCEPT ![p] = Acquired(@)]
             /\ through' = [through EXCEPT ![p] = IF circuit[p].state = "halfOpen" THEN @ + 1 ELSE @]
             /\ stream' = [stream EXCEPT ![t] = Request(p)]
        /\ todo' = [todo EXCEPT ![t] = Tail(@)]
        /\ Goto(t, IF t \in Streaming THEN "listen" ELSE "await")
        /\ final' = final
  /\ UNCHANGED <<iteration, heard, live, history, working, guarding, reply>>

(* A request, a stream or a response fails: HTTP error, timeout, what is   *)
(* not the protocol, nothing useful in it.                                 *)
Lost(t) ==
  LET p == stream[t].from
  IN  /\ circuit' = [circuit EXCEPT ![p] = Failed(@)]
      /\ through' = [through EXCEPT ![p] = IF Failed(circuit[p]).state = "halfOpen" THEN @ ELSE 0]

Won(t) ==
  /\ circuit' = [circuit EXCEPT ![stream[t].from] = Fresh]
  /\ through' = [through EXCEPT ![stream[t].from] = 0]

(***************************************************************************)
(* Streams *)
(***************************************************************************)

(* The live message: sent with the first text, edited when the interval    *)
(* is over, given up when either fails.                                    *)
Displayed(l, ok) ==
  IF l.failed THEN l
  ELSE IF ~ok THEN [l EXCEPT !.failed = TRUE]
  ELSE [l EXCEPT !.shows = "part", !.sent = IF l.shows = "none" THEN TRUE ELSE @]

(* An event of the stream is complete: its data lines, up to an empty one. *)
Event(t) == at[t] = "listen" /\ stream[t].chunks < MaxChunks

(* The client takes a stream for complete if it had a chunk and ended with *)
(* [DONE] or, after a finish reason, with its body.                        *)
Complete(t) == at[t] = "listen" /\ stream[t].chunks > 0

(* A chunk of text, useful or blank. *)
Text(t) ==
  /\ Event(t)
  /\ \E useful \in BOOLEAN, due \in BOOLEAN, ok \in BOOLEAN :
       /\ live[t].shows = "none" /\ ~live[t].failed => due
       /\ stream' = [stream EXCEPT ![t].chunks = @ + 1, ![t].useful = @ \/ useful]
       /\ heard' = [heard EXCEPT ![t].voices = IF useful THEN @ \cup {stream[t].from} ELSE @]
       /\ live' = [live EXCEPT ![t] = IF due THEN Displayed(@, ok) ELSE @]
  /\ UNCHANGED <<at, iteration, todo, history, routing, working, guarding, ending>>

(* A chunk that has both text and an empty list of tool calls: the router  *)
(* counts its text, the agent drops it.                                    *)
HollowText(t) ==
  /\ Event(t)
  /\ stream' = [stream EXCEPT ![t].chunks = @ + 1, ![t].useful = TRUE]
  /\ UNCHANGED <<at, iteration, todo, heard, live, history, routing, working, guarding, ending>>

(* A fragment of a tool call: a new call, more of the last one, or one     *)
(* that StreamingToolCallAccumulator refuses.  That throws in the agent's  *)
(* loop, which abandons the router's generator where it stands: neither a  *)
(* success nor a failure of the provider.                                  *)
Fragment(t) ==
  /\ Event(t)
  /\ \/ /\ \E n \in Names[t] : heard' = [heard EXCEPT ![t].calls = Append(@, n)]
        /\ stream' = [stream EXCEPT ![t].chunks = @ + 1, ![t].useful = TRUE]
        /\ UNCHANGED <<at, final>>
     \/ /\ heard[t].calls # <<>>
        /\ stream' = [stream EXCEPT ![t].chunks = @ + 1, ![t].useful = TRUE]
        /\ UNCHANGED <<at, final, heard>>
     \/ /\ heard[t].calls # <<>>
        /\ stream' = [stream EXCEPT ![t] = Idle]
        /\ GiveUp(t)
        /\ heard' = [heard EXCEPT ![t] = Nothing]
  /\ UNCHANGED <<iteration, todo, live, history, routing, working, guarding, reply>>

(* Mutant of FallbackSafe: only tool calls forbid another provider.        *)
FallbackAfterText(t) == ~stream[t].useful \/ heard[t].calls = <<>>

FallbackSafe(t) == ~stream[t].useful

(* The stream breaks, or it ends with neither [DONE] nor a finish reason,  *)
(* without a chunk, or without anything useful.  Another provider is tried *)
(* only if nothing useful was passed on.                                   *)
StreamFails(t) ==
  /\ at[t] = "listen"
  /\ Lost(t) /\ stream' = [stream EXCEPT ![t] = Idle]
  /\ IF FallbackSafe(t) THEN Goto(t, "try") /\ UNCHANGED <<final, heard>>
     ELSE GiveUp(t) /\ heard' = [heard EXCEPT ![t] = Nothing]
  /\ UNCHANGED <<iteration, todo, live, history, working, guarding, reply>>

(* Mutant of Degraded: a live message that broke still counts as the reply. *)
DegradedOnly(l) == l

(* streamingFailed takes streamedResponseSent back. *)
Degraded(l) == IF l.failed THEN [l EXCEPT !.sent = FALSE] ELSE l

(* The last edit, which takes the cursor away. *)
Finished(l, ok) == IF l.failed \/ l.shows = "none" THEN l
                   ELSE IF ok THEN [l EXCEPT !.shows = "final"] ELSE [l EXCEPT !.failed = TRUE]

(* A stream that had a chunk, something useful and an end.  With tool      *)
(* calls the live message is left as it is and the calls are handled;      *)
(* without, its text is the answer, or internal_error if none is left.     *)
StreamEnds(t) ==
  LET toolCalls == heard[t].calls
  IN  /\ Complete(t) /\ stream[t].useful
      /\ Won(t)
      /\ stream' = [stream EXCEPT ![t] = Idle]
      /\ \/ /\ toolCalls # <<>>
            /\ live' = [live EXCEPT ![t] = Past(Degraded(@))]
            /\ heard' = [heard EXCEPT ![t] = Nothing]
            /\ history' = [history EXCEPT ![t] = Append(@, AssistantMessage(Len(toolCalls)))]
            /\ calls' = [calls EXCEPT ![t] = toolCalls]
            /\ Goto(t, "claim")
            /\ final' = final
         \/ /\ toolCalls = <<>> /\ heard[t].voices # {}
            /\ \E ok \in BOOLEAN : live' = [live EXCEPT ![t] = Degraded(Finished(@, ok))]
            /\ final' = [final EXCEPT ![t] = "answer"]
            /\ Goto(t, "save")
            /\ UNCHANGED <<heard, history, calls>>
         \/ /\ toolCalls = <<>> /\ heard[t].voices = {}
            /\ live' = [live EXCEPT ![t] = Degraded(@)]
            /\ GiveUp(t)
            /\ UNCHANGED <<heard, history, calls>>
      /\ UNCHANGED <<iteration, todo, answers, budget, granted, tier, guarding, reply>>

(***************************************************************************)
(* Responses in one piece *)
(***************************************************************************)

(* chatCompletionEnvelope: something useful, or a failure of the provider  *)
(* and the next one.                                                       *)
Envelope(t) ==
  /\ at[t] = "await"
  /\ stream' = [stream EXCEPT ![t] = Idle]
  /\ \/ /\ Lost(t)
        /\ Goto(t, "try")
        /\ UNCHANGED <<history, calls, final, heard>>
     \/ /\ Won(t)
        /\ heard' = [heard EXCEPT ![t].voices = {stream[t].from}]
        /\ history' = [history EXCEPT ![t] = Append(@, AssistantMessage(0))]
        /\ final' = [final EXCEPT ![t] = "answer"]
        /\ Goto(t, "save")
        /\ calls' = calls
     \/ /\ Won(t)
        /\ \E n \in Names[t] : calls' = [calls EXCEPT ![t] = <<n>>]
        /\ history' = [history EXCEPT ![t] = Append(@, AssistantMessage(1))]
        /\ Goto(t, "claim")
        /\ UNCHANGED <<final, heard>>
  /\ UNCHANGED <<iteration, todo, live, answers, budget, granted, tier, guarding, reply>>

(***************************************************************************)
(* Tool calls: executeRequestedToolCalls *)
(***************************************************************************)
Results(n) == [k \in 1..n |-> ToolMessage(k)]

(* Mutant of Refusals: a message over the budget gets no results.          *)
RefusalsNone(t) == <<>>

(* Every call over the budget gets the error as its result. *)
Refusals(t) == Results(Len(calls[t]))

(* claimToolCalls takes all calls of a message or none. *)
Claim(t) ==
  /\ at[t] = "claim"
  /\ \/ /\ budget[t].calls + Len(calls[t]) > MaxToolCalls
        /\ history' = [history EXCEPT ![t] = @ \o Refusals(t)]
        /\ calls' = [calls EXCEPT ![t] = <<>>]
        /\ Goto(t, "ask")
        /\ budget' = budget
     \/ /\ budget[t].calls + Len(calls[t]) <= MaxToolCalls
        /\ budget' = [budget EXCEPT ![t].calls = @ + Len(calls[t])]
        /\ Goto(t, "call")
        /\ UNCHANGED <<history, calls>>
  /\ UNCHANGED <<iteration, routing, talking, answers, granted, tier, guarding, ending>>

Answer(t) ==
  /\ calls' = [calls EXCEPT ![t] = Tail(@)]
  /\ answers' = [answers EXCEPT ![t] = @ + 1]

MayRun(t, n) == n \in Allowed[t] \cup granted[t]

(* checkToolAdmission *)
Admitted(n) == cost[n] < CostLimit

(* The first call: refused if unknown, not permitted or malformed; a tool  *)
(* that only reads runs at once; a mutating one is admitted, at a cost,    *)
(* and queued behind the runs of its tool for this sender, or refused.     *)
Call(t) ==
  /\ at[t] = "call" /\ calls[t] # <<>>
  /\ LET n == Head(calls[t]) IN
     \/ /\ \/ n \notin Known \/ ~MayRun(t, n)
           \/ n \in Known \cap Mutating   \* malformed arguments
        /\ Answer(t)
        /\ UNCHANGED <<at, queue, cost>>
     \/ /\ n \in Known /\ MayRun(t, n) /\ n \notin Mutating
        /\ Goto(t, "run")
        /\ UNCHANGED <<calls, answers, queue, cost>>
     \/ /\ n \in Known /\ MayRun(t, n) /\ n \in Mutating /\ ~Admitted(n)
        /\ Answer(t)
        /\ UNCHANGED <<at, queue, cost>>
     \/ /\ n \in Known /\ MayRun(t, n) /\ n \in Mutating /\ Admitted(n)
        /\ cost' = [cost EXCEPT ![n] = @ + 1]
        /\ queue' = [queue EXCEPT ![n] = Append(@, t)]
        /\ Goto(t, "queued")
        /\ UNCHANGED <<calls, answers>>
  /\ UNCHANGED <<iteration, history, routing, talking, budget, granted, tier, ending>>

(* Mutant of MyTurn: nobody waits for the previous run.                    *)
MyTurnAtOnce(t, n) == \E i \in DOMAIN queue[n] : queue[n][i] = t

MyTurn(t, n) == Head(queue[n]) = t

Enter(t) ==
  /\ at[t] = "queued" /\ MyTurn(t, Head(calls[t]))
  /\ Goto(t, "run")
  /\ UNCHANGED <<iteration, history, routing, talking, working, guarding, ending>>

(* Mutant of Released: a failed run keeps its place.                       *)
ReleasedOnSuccess(t, ok) ==
  [n \in Mutating |-> IF n = Head(calls[t]) /\ ok THEN Tail(queue[n]) ELSE queue[n]]

(* The finally clause of runMutatingTool: the run at the head opens the    *)
(* gate of the one behind it.                                              *)
Released(t, ok) ==
  [n \in Mutating |-> IF n = Head(calls[t]) THEN Tail(queue[n]) ELSE queue[n]]

(* Mutant of Room: what earlier results took is not counted.               *)
RoomForAny(t) == IF MaxResultSize < MaxTotalSize THEN MaxResultSize ELSE MaxTotalSize

(* constrainTextResult: the size a result may still have. *)
Room(t) == LET left == MaxTotalSize - budget[t].size
           IN  IF MaxResultSize < left THEN MaxResultSize ELSE left

(* Mutant of Discovered: a search grants whatever it finds.                *)
DiscoveredAll(t) == Found

(* discoverMatchingTools *)
Discovered(t) == Found \cap Allowed[t]

(* A run ends: its result is cut to the room that is left, or is an error  *)
(* when there is none; or it fails or times out.  A run that timed out may *)
(* go on: it has left its queue, and nobody knows of it any more.          *)
(* find_tools grants what a search finds, whether it failed or not.        *)
ToolSettles(t) ==
  LET n == Head(calls[t])
  IN  /\ at[t] = "run"
      /\ Answer(t)
      /\ Goto(t, "call")
      /\ granted' = [granted EXCEPT ![t] = IF n = Finder THEN @ \cup Discovered(t) ELSE @]
      /\ \/ /\ Room(t) > 0
            /\ \E size \in 1..Room(t) : budget' = [budget EXCEPT ![t].size = @ + size]
            /\ tier' = [tier EXCEPT ![t] = IF @ = NoTier /\ n \in Powerful THEN "powerful" ELSE @]
            /\ queue' = Released(t, TRUE)
         \/ /\ queue' = Released(t, FALSE)
            /\ UNCHANGED <<budget, tier>>
      /\ UNCHANGED <<iteration, history, routing, talking, cost, ending>>

(* All calls are handled: their results follow the assistant's message.    *)
Conclude(t) ==
  /\ at[t] = "call" /\ calls[t] = <<>> /\ t \notin Commands
  /\ history' = [history EXCEPT ![t] = @ \o Results(answers[t])]
  /\ answers' = [answers EXCEPT ![t] = 0]
  /\ Goto(t, "ask")
  /\ UNCHANGED <<iteration, routing, talking, calls, budget, granted, tier, guarding, ending>>

(* A command replies with what its tool said, or why it did not run.       *)
CommandEnds(t) ==
  /\ at[t] = "call" /\ calls[t] = <<>> /\ t \in Commands
  /\ answers' = [answers EXCEPT ![t] = 0]
  /\ final' = [final EXCEPT ![t] = "answer"]
  /\ Goto(t, "deliver")
  /\ UNCHANGED <<iteration, history, routing, talking, calls, budget, granted, tier, guarding, reply>>

(***************************************************************************)
(* The reply *)
(***************************************************************************)

(* The answer is saved; if that fails the turn ends with the error.        *)
Save(t) ==
  /\ at[t] = "save"
  /\ Goto(t, "deliver")
  /\ \/ final' = final /\ live' = live
     \/ final' = [final EXCEPT ![t] = "error"] /\ live' = [live EXCEPT ![t].sent = FALSE]
  /\ UNCHANGED <<iteration, history, routing, todo, stream, heard, working, guarding, reply>>

(* An answer the live message shows is recorded as delivered; any other    *)
(* goes through the outbox's fast path, whose send may fail.  What the     *)
(* turn kept for itself is gone.                                           *)
Deliver(t) ==
  /\ at[t] = "deliver"
  /\ Goto(t, "done")
  /\ \/ live[t].sent /\ final[t] = "answer" /\ reply' = [reply EXCEPT ![t] = "shown"]
     \/ /\ ~live[t].sent \/ final[t] # "answer"
        /\ \E how \in {"sent", "owed"} : reply' = [reply EXCEPT ![t] = how]
  /\ iteration' = [iteration EXCEPT ![t] = 0]
  /\ history' = [history EXCEPT ![t] = <<>>]
  /\ todo' = [todo EXCEPT ![t] = <<>>]
  /\ heard' = [heard EXCEPT ![t] = Nothing]
  /\ budget' = [budget EXCEPT ![t] = [calls |-> 0, size |-> 0]]
  /\ granted' = [granted EXCEPT ![t] = {}]
  /\ tier' = [tier EXCEPT ![t] = NoTier]
  /\ UNCHANGED <<routing, stream, live, calls, answers, guarding, final>>

(***************************************************************************)
(* Time *)
(***************************************************************************)
CoolDown(p) ==
  /\ circuit[p].cooling
  /\ circuit' = [circuit EXCEPT ![p].cooling = FALSE]
  /\ UNCHANGED <<at, iteration, history, through, talking, working, guarding, ending>>

(* The minute of a tool's rate window is over. *)
Minute(n) ==
  /\ cost[n] > 0
  /\ cost' = [cost EXCEPT ![n] = 0]
  /\ UNCHANGED <<at, iteration, history, routing, talking, working, queue, ending>>

TurnStep(t) ==
  \/ Ask(t) \/ Exhausted(t) \/ Try(t)
  \/ Text(t) \/ HollowText(t) \/ Fragment(t) \/ StreamFails(t) \/ StreamEnds(t) \/ Envelope(t)
  \/ Claim(t) \/ Call(t) \/ Enter(t) \/ ToolSettles(t) \/ Conclude(t) \/ CommandEnds(t)
  \/ Save(t) \/ Deliver(t)

Next ==
  \/ \E t \in Turns : TurnStep(t)
  \/ \E p \in Providers : CoolDown(p)
  \/ \E n \in Mutating : Minute(n)

Spec == Init /\ [][Next]_vars

(* Requests and tools have timeouts, so every await of a turn settles.     *)
FairSpec == Spec /\ \A t \in Turns : WF_vars(TurnStep(t))

(***************************************************************************)
(* Properties *)
(***************************************************************************)
TypeOK ==
  /\ circuit \in [Providers -> Circuit]
  /\ DOMAIN through = Providers
  /\ at \in [Turns -> {"ask", "try", "listen", "await", "claim", "call", "queued", "run", "save", "deliver", "done"}]
  /\ iteration \in [Turns -> 0..MaxIterations]
  /\ \A t \in Turns : budget[t].calls \in 0..MaxToolCalls /\ budget[t].size \in 0..MaxTotalSize
  /\ \A t \in Turns : at[t] \in {"listen", "await"} <=> stream[t] # Idle
  /\ \A n \in Mutating : IsInjective(queue[n]) /\ cost[n] \in 0..CostLimit

(* A provider that failed too often is tried by one request at a time: a   *)
(* half-open circuit lets one through until that one succeeds, which       *)
(* closes it, or fails, which opens it again (acquireProvider,             *)
(* markProviderFailure of ModelRouter.ts).                                 *)
OneProbe == \A p \in Providers : circuit[p].state = "halfOpen" => through[p] <= 1

(* Two turns of one sender never run a mutating tool at the same time, but *)
(* for runs that timed out, which nobody can stop (runMutatingTool of      *)
(* registry.ts, executeToolWithTimeout of agent/index.ts).                 *)
MutationsSerialized ==
  \A t, u \in Turns : at[t] = "run" /\ at[u] = "run" /\ t # u
    => Head(calls[t]) # Head(calls[u]) \/ Head(calls[t]) \notin Mutating

(* A reply is recorded as delivered only if the live message shows the     *)
(* whole answer: every failed send or edit on the way leads to a reply of  *)
(* its own (agent/index.ts 1112-1132, 1183-1195, 1284).                    *)
AnswerShown == \A t \in Turns : reply[t] = "shown" => live[t].shows = "final" /\ final[t] = "answer"

(* What is answered or run is what one provider said from beginning to     *)
(* end: text of two providers is never mixed, no other provider is tried   *)
(* once something useful was passed on, a call is run only if the sender   *)
(* may use the tool, whatever a search found, and every request has the    *)
(* calls of each earlier message answered in order.                        *)
WholeExchange ==
  \A t \in Turns :
    /\ Cardinality(heard[t].voices) <= 1
    /\ at[t] = "listen" => heard[t].voices \subseteq {stream[t].from}
    /\ at[t] = "listen" /\ heard[t].calls # <<>> => stream[t].useful
    /\ at[t] = "run" => Head(calls[t]) \in Allowed[t]
    /\ at[t] \in {"listen", "await"} => Paired(Adapted(history[t], stream[t].from))

(* Every turn ends with a reply, shown, sent or left to the outbox, even   *)
(* if it waits for a tool that another turn runs and that fails or times   *)
(* out (registry.ts 230-240).                                              *)
TurnsEnd == \A t \in Turns : (at[t] # "done") ~> (reply[t] # "none")

(* What was shown, sent or run is the whole of one provider's answer       *)
(* (agent/index.ts:1112-1195 and 1284).                                    *)
AnswersWhole == AnswerShown /\ WholeExchange
=============================================================================
