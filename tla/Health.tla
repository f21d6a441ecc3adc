------------------------------- MODULE Health -------------------------------
(***************************************************************************)
(* What the operator is told of the program: the checks of the services    *)
(* (HealthMonitor.ts), the counters and windows of HealthMetrics.ts, the   *)
(* verdicts users give with reactions (feedback.ts).                       *)
(*                                                                         *)
(* A check has the number it has among those of its service.  A verdict is *)
(* one user's: a message and a sentiment.                                  *)
(***************************************************************************)
EXTENDS Stage, FiniteSetsExt

CONSTANTS
  Services,
  WindowSize,      \* maxSize
  Quantiles,       \* of a hundred
  SendsKept,       \* RECENT_SEND_CAPACITY
  DayLimit,        \* maxSentimentPerDay
  Latencies, Sends \* bound: what is measured, messages sent

VARIABLES
  monitoring, timers,
  inFlight,   \* services with a check under way, as the monitor believes
  pings,      \* checks under way: [svc, of, aborted]
  begun,      \* [Services -> how many checks]
  health,     \* [Services -> [of, status], or None]
  latency,    \* [values, cursor]
  requests,   \* [all, failed]
  samples,    \* (history) what was recorded
  recentSends, dayCount,
  feedback,   \* [positive, negative, retracted]
  evalLog,
  given,      \* verdicts that stand
  counted,    \* (history) those that were counted
  misled      \* (history) one not counted was taken back, or one counted was given again

healthVars == <<monitoring, timers, inFlight, pings, begun, health, latency, requests, samples, recentSends, dayCount, feedback, evalLog, given, counted, misled>>
monitorVars == <<monitoring, timers, inFlight, pings, begun, health>>
metricVars == <<latency, requests, samples>>
feedbackVars == <<recentSends, dayCount, feedback, evalLog, given, counted, misled>>

Empty == [values |-> <<>>, cursor |-> 0]
NoRequests == [all |-> 0, failed |-> 0]
NoFeedback == [positive |-> 0, negative |-> 0, retracted |-> 0]

HealthInit ==
  /\ monitoring = FALSE /\ timers = {} /\ inFlight = {} /\ pings = {}
  /\ begun = [s \in Services |-> 0] /\ health = [s \in Services |-> None]
  /\ latency = Empty /\ requests = NoRequests /\ samples = <<>>
  /\ recentSends = <<>> /\ dayCount = [day |-> 0, n |-> 0] /\ feedback = NoFeedback
  /\ evalLog = <<>> /\ given = {} /\ counted = {} /\ misled = FALSE
-----------------------------------------------------------------------------
(* A service is asked over HTTP or by running its program; one that is not *)
(* set up is not asked, one without its key is unhealthy at once.          *)
Asks(s) == scene.kinds[s] \in {"http", "process"}
Outcome(s, status) == [of |-> begun[s] + 1, status |-> status]

(* Mutant of Runs: a check is begun whether the last one has ended or not. *)
RunsAgain(due) ==
  /\ begun' = [s \in Services |-> IF s \in due THEN begun[s] + 1 ELSE begun[s]]
  /\ pings' = (pings \cup {[svc |-> s, of |-> begun[s] + 1, aborted |-> FALSE] : s \in {x \in due : Asks(x)}})
  /\ inFlight' = (inFlight \cup {s \in due : Asks(s)})
  /\ health' = [s \in Services |-> IF s \in due /\ scene.kinds[s] = "unkeyed" THEN Outcome(s, "unhealthy") ELSE health[s]]

(* schedule's run: not while the last check of the service is under way.   *)
Runs(services) ==
  LET due == services \ inFlight
  IN /\ begun' = [s \in Services |-> IF s \in due THEN begun[s] + 1 ELSE begun[s]]
     /\ pings' = (pings \cup {[svc |-> s, of |-> begun[s] + 1, aborted |-> FALSE] : s \in {x \in due : Asks(x)}})
     /\ inFlight' = (inFlight \cup {s \in due : Asks(s)})
     /\ health' = [s \in Services |-> IF s \in due /\ scene.kinds[s] = "unkeyed" THEN Outcome(s, "unhealthy") ELSE health[s]]

StartMonitor ==
  /\ ~monitoring /\ Spend("start") /\ monitoring' = TRUE /\ timers' = Services /\ Runs(Services)
  /\ UNCHANGED <<metricVars, feedbackVars>>

Interval(s) == s \in timers /\ Spend("interval") /\ Runs({s}) /\ UNCHANGED <<monitoring, timers, metricVars, feedbackVars>>

(* Requests are aborted, a program that runs is left to it. *)
StopMonitor ==
  /\ Spend("stop") /\ monitoring' = FALSE /\ timers' = {}
  /\ pings' = {IF scene.kinds[p.svc] = "http" THEN [p EXCEPT !.aborted = TRUE] ELSE p : p \in pings}
  /\ UNCHANGED <<inFlight, begun, health, metricVars, feedbackVars>>

(* A program that ended well makes its service healthy, any other end of   *)
(* it, and ten seconds without one, unhealthy; a request likewise.         *)
Verdict(p, ok) == [of |-> p.of, status |-> IF ok THEN "healthy" ELSE "unhealthy"]

(* An answer, an error, a time-out. *)
PingEnds(p, ok) ==
  /\ (ok => ~p.aborted) /\ pings' = pings \ {p} /\ inFlight' = inFlight \ {p.svc}
  /\ health' = [health EXCEPT ![p.svc] = Verdict(p, ok)]
  /\ UNCHANGED <<stage, monitoring, timers, begun, metricVars, feedbackVars>>
-----------------------------------------------------------------------------
(* A ring: the value at the cursor is the oldest once it is full. *)
Rung(w, v) ==
  IF Len(w.values) < WindowSize THEN [w EXCEPT !.values = Append(@, v)]
  ELSE [values |-> [w.values EXCEPT ![w.cursor + 1] = v], cursor |-> (w.cursor + 1) % WindowSize]

Sorted(values) == CHOOSE s \in [1 .. Len(values) -> {values[i] : i \in 1 .. Len(values)}] :
  /\ \A i \in 1 .. Len(s) - 1 : s[i] <= s[i + 1]
  /\ \A v \in {values[i] : i \in 1 .. Len(values)} : Cardinality({i \in 1 .. Len(s) : s[i] = v}) = Cardinality({i \in 1 .. Len(s) : values[i] = v})

(* Mutant of Percentile: the rank is rounded down. *)
PercentileBelow(values, p) ==
  IF values = <<>> THEN 0 ELSE LET idx == (p * Len(values)) \div 100 - 1 IN Sorted(values)[(IF idx < 0 THEN 0 ELSE idx) + 1]

Percentile(values, p) ==
  IF values = <<>> THEN 0 ELSE LET idx == (p * Len(values) + 99) \div 100 - 1 IN Sorted(values)[(IF idx < 0 THEN 0 ELSE idx) + 1]

RecordRequest(v, ok) ==
  /\ Spend("request") /\ requests' = [all |-> requests.all + 1, failed |-> requests.failed + IF ok THEN 0 ELSE 1]
  /\ IF ok THEN latency' = Rung(latency, v) /\ samples' = Append(samples, v) ELSE UNCHANGED <<latency, samples>>
  /\ UNCHANGED <<monitorVars, feedbackVars>>
-----------------------------------------------------------------------------
(* The oldest is forgotten; one sent again keeps its place. *)
NoteSent(id) ==
  /\ Spend("send") /\ UNCHANGED <<monitorVars, metricVars, dayCount, feedback, evalLog, given, counted, misled>>
  /\ recentSends' = IF \E i \in 1 .. Len(recentSends) : recentSends[i] = id THEN recentSends ELSE Newest(Append(recentSends, id), SendsKept)

IsRecent(id) == \E i \in 1 .. Len(recentSends) : recentSends[i] = id
Today == IF dayCount.day = now THEN dayCount.n ELSE 0

(* Mutant of Counted: what is taken back counts against the other. *)
CountedCrossed(sentiment, removed) ==
  IF ~removed THEN [feedback EXCEPT ![sentiment] = @ + 1]
  ELSE LET other == IF sentiment = "positive" THEN "negative" ELSE "positive"
       IN [feedback EXCEPT ![other] = IF @ > 0 THEN @ - 1 ELSE 0, !.retracted = @ + 1]

(* recordFeedback *)
Counted(sentiment, removed) ==
  IF removed THEN [feedback EXCEPT ![sentiment] = IF @ > 0 THEN @ - 1 ELSE 0, !.retracted = @ + 1]
  ELSE [feedback EXCEPT ![sentiment] = @ + 1]

(* A verdict is appended to the log, one taken back too. *)
Logged(id, sentiment, removed) == Append(evalLog, <<id, sentiment, removed>>)

(* The provider passes on the reactions that were given, and those that    *)
(* were taken back.                                                        *)
Given(id, sentiment, removed) == IF removed THEN given \ {<<id, sentiment>>} ELSE given \cup {<<id, sentiment>>}

(* A user reacts or takes the reaction back; one to a message that is not  *)
(* recent, or past the limit of the day, is not recorded.                  *)
React(id, sentiment, removed) ==
  /\ ((<<id, sentiment>> \in given) <=> removed) /\ Spend("react")
  /\ given' = Given(id, sentiment, removed)
  /\ IF ~IsRecent(id) THEN UNCHANGED <<dayCount, feedback, evalLog, counted, misled>>
     ELSE IF Today >= DayLimit
     THEN dayCount' = [day |-> now, n |-> Today] /\ UNCHANGED <<feedback, evalLog, counted, misled>>
     ELSE /\ dayCount' = [day |-> now, n |-> Today + 1]
          /\ feedback' = Counted(sentiment, removed) /\ evalLog' = Logged(id, sentiment, removed)
          /\ counted' = IF removed THEN counted \ {<<id, sentiment>>} ELSE counted \cup {<<id, sentiment>>}
          /\ misled' = (misled \/ (removed <=> <<id, sentiment>> \notin counted))
  /\ UNCHANGED <<monitorVars, metricVars, recentSends>>

HealthNext ==
  \/ StartMonitor \/ StopMonitor
  \/ \E s \in Services : Interval(s)
  \/ \E p \in pings, ok \in BOOLEAN : PingEnds(p, ok)
  \/ \E v \in Latencies, ok \in BOOLEAN : RecordRequest(v, ok)
  \/ \E id \in Sends : NoteSent(id) \/ \E sentiment \in {"positive", "negative"}, removed \in BOOLEAN : React(id, sentiment, removed)
  \/ Tick /\ UNCHANGED healthVars
-----------------------------------------------------------------------------
(* What is told of a service is the outcome of its latest check: one under *)
(* way began after it, through stops and starts too                        *)
(* (HealthMonitor.ts:108-131).                                             *)
HealthInOrder ==
  \A p \in pings : (health[p.svc] # None => health[p.svc].of < p.of) /\ \A q \in pings : q.svc = p.svc => q = p

(* The window holds the last values, the oldest at the cursor; a           *)
(* percentile is the least of them that so many are not above; the         *)
(* verdicts counted are those recorded and not recorded as taken back.     *)
(* Neither is recorded past the limit of the day, or once the message has  *)
(* left recentSends: a verdict taken back then stays counted, and one that *)
(* is taken back after it was refused makes the counts unfit for comparing *)
(* (misled) (HealthMetrics.ts:165-237, feedback.ts:148-198).               *)
MetricsTrue ==
  LET n == Len(latency.values)
      last == Newest(samples, WindowSize)
  IN /\ [i \in 1 .. n |-> latency.values[((latency.cursor + i - 1) % n) + 1]] = last
     /\ \A p \in Quantiles : n > 0 =>
          Percentile(latency.values, p) = Min({v \in {last[i] : i \in 1 .. n} : 100 * Cardinality({i \in 1 .. n : last[i] <= v}) >= p * n})
     /\ Len(samples) = requests.all - requests.failed
     /\ ~misled => \A s \in {"positive", "negative"} : feedback[s] = Cardinality({x \in counted : x[2] = s})

(* What the operator is shown is what was measured.                        *)
HealthTrue == HealthInOrder /\ MetricsTrue
=============================================================================
