----------------------------- MODULE TurnProofs -----------------------------
(***************************************************************************)
(* Theorems about Turn, for any number of turns, providers, tools and any  *)
(* limits: the probes of a provider and the runs of a mutating tool go one *)
(* at a time, and what is shown, sent or run is whole.                     *)
(*                                                                         *)
(* IInv is the invariant of all three.  Probing: requests are counted only *)
(* while a circuit's mark says that its probe is out.  Lines: the places   *)
(* of a tool's queue are those of the turns that run it or wait, once      *)
(* each, the run at the head; so who leaves is the one in front.  Own: for *)
(* each turn, what it hears, shows, may run and has asked, by where it is. *)
(*                                                                         *)
(* A step of a turn leaves the other turns' own state alone (OthersKept),  *)
(* so Own is proved of the turn that steps, one lemma for each action;     *)
(* circuits and queues are shared, and have lemmas about every turn.       *)
(***************************************************************************)
EXTENDS Turn, FiniteSetTheorems, SequenceTheorems, TLAPS

Places == {"ask", "try", "listen", "await", "claim", "call", "queued", "run", "save", "deliver", "done"}

Callable == (UNION {Names[t] : t \in Turns}) \cup {CommandOf[t] : t \in Commands}

Message == [role : {"user", "assistant", "tool"}, n : Nat]

Live == [shows : {"none", "part", "final"}, failed : BOOLEAN, sent : BOOLEAN]

(* What the variables are made of, as far as the argument needs it.        *)
Typed ==
  /\ circuit \in [Providers -> Circuit] /\ through \in [Providers -> 0..1]
  /\ at \in [Turns -> Places]
  /\ DOMAIN todo = Turns
  /\ DOMAIN stream = Turns /\ DOMAIN heard = Turns
  /\ live \in [Turns -> Live]
  /\ history \in [Turns -> Seq(Message)]
  /\ calls \in [Turns -> Seq(Callable)] /\ answers \in [Turns -> Nat]
  /\ granted \in [Turns -> SUBSET Known]
  /\ final \in [Turns -> {"none", "answer", "error"}]
  /\ reply \in [Turns -> {"none", "shown", "sent", "owed"}]
  /\ queue \in [Mutating -> Seq(Turns)]

(* Which provider a turn hears is not known to be one of Providers, so     *)
(* that the theorems do not depend on what SelectSeq computes.             *)
Shaped(t) ==
  /\ stream[t] = [from |-> stream[t].from, chunks |-> stream[t].chunks, useful |-> stream[t].useful]
  /\ heard[t] = [voices |-> heard[t].voices, calls |-> heard[t].calls]
  /\ heard[t].calls \in Seq(Callable)

(* A circuit that is not closed is full of failures, and requests are only *)
(* counted while it is half open and its probe is out.                     *)
Probed(e, n) ==
  /\ e.state # "closed" => e.failures = Threshold
  /\ e.state # "halfOpen" \/ ~e.probe => n = 0

Probing == \A p \in Providers : Probed(circuit[p], through[p])

(* The places of a tool's queue are held by the turns that run it or wait, *)
(* once each, and the one that runs it is at the head.                     *)
Waits(t, n) == at[t] \in {"queued", "run"} /\ Head(calls[t]) = n

Lined(n) ==
  /\ \A i, j \in 1..Len(queue[n]) : queue[n][i] = queue[n][j] => i = j
  /\ \A t \in Turns : Waits(t, n) <=> \E i \in 1..Len(queue[n]) : queue[n][i] = t
  /\ \A t \in Turns : Waits(t, n) /\ at[t] = "run" => queue[n][1] = t

Lines == \A n \in Mutating : Lined(n)

(* Only a turn whose platform edits messages has a live message; a command *)
(* asks no model.                                                          *)
Kind(t) ==
  /\ t \in Commands => at[t] \in {"call", "queued", "run", "deliver", "done"}
  /\ at[t] = "listen" => t \in Streaming
  /\ at[t] = "await" => t \notin Streaming
  /\ t \in Commands \/ t \notin Streaming => ~live[t].sent

(* Nothing is heard before something useful is, from one provider, and it  *)
(* is on display unless that failed.                                       *)
Hears(t) ==
  /\ at[t] \in {"ask", "try", "await", "claim", "call", "queued", "run"} => heard[t] = Nothing
  /\ at[t] = "listen" =>
       /\ heard[t].voices \subseteq {stream[t].from}
       /\ ~stream[t].useful => heard[t] = Nothing
       /\ heard[t].voices # {} => live[t].failed \/ live[t].shows # "none"
  /\ \A x, y \in heard[t].voices : x = y

(* An answer that counts as sent is on display to its end.                 *)
Displays(t) ==
  /\ at[t] \in {"save", "deliver"} /\ final[t] = "answer" /\ live[t].sent => live[t].shows = "final"
  /\ reply[t] = "shown" => at[t] = "done" /\ live[t].shows = "final" /\ final[t] = "answer"

(* A tool is run or waited for only if the sender may use it.              *)
Permits(t) ==
  /\ granted[t] \subseteq Allowed[t]
  /\ at[t] \in {"queued", "run"} => calls[t] # <<>> /\ Head(calls[t]) \in Allowed[t]
  /\ at[t] = "queued" => Head(calls[t]) \in Mutating

(* The last message asks for k calls, and the earlier ones are answered.   *)
AsksFor(h, k) ==
  /\ h # <<>> /\ h[Len(h)] = AssistantMessage(k)
  /\ Paired(SubSeq(h, 1, Len(h) - 1))

(* The calls of the last message are those answered and those still to be. *)
Exchanges(t) ==
  /\ at[t] \in {"ask", "try", "listen", "await"} => Paired(history[t]) /\ answers[t] = 0
  /\ at[t] = "claim" => AsksFor(history[t], Len(calls[t])) /\ answers[t] = 0
  /\ at[t] \in {"call", "queued", "run"} /\ t \notin Commands => AsksFor(history[t], answers[t] + Len(calls[t]))

Own(t) == Kind(t) /\ Hears(t) /\ Displays(t) /\ Permits(t) /\ Exchanges(t)

IInv == Typed /\ Probing /\ Lines /\ \A t \in Turns : Shaped(t) /\ Own(t)

-----------------------------------------------------------------------------
(***************************************************************************)
(* Histories *)
(***************************************************************************)
LEMMA AskedIsOpen ==
  ASSUME NEW g \in Seq(Message), NEW k \in Nat, Paired(g)
  PROVE  /\ Append(g, AssistantMessage(k)) \in Seq(Message)
         /\ AsksFor(Append(g, AssistantMessage(k)), k)
<1> DEFINE m == AssistantMessage(k)
           h == Append(g, m)
<1>1. m \in Message
  BY DEF AssistantMessage, Message
<1>2. h \in Seq(Message) /\ h # <<>> /\ Len(h) = Len(g) + 1 /\ h[Len(g) + 1] = m
  BY <1>1, AppendProperties
<1>3. SubSeq(h, 1, Len(h) - 1) = g
  BY <1>1, <1>2
<1> QED
  BY <1>2, <1>3 DEF AsksFor

LEMMA ResultsAreMessages ==
  ASSUME NEW k \in Nat
  PROVE  Results(k) \in Seq(Message) /\ Len(Results(k)) = k /\ \A j \in 1..k : Results(k)[j] = ToolMessage(j)
BY DEF Results, ToolMessage, Message

LEMMA AnsweredIsPaired ==
  ASSUME NEW h \in Seq(Message), NEW k \in Nat, AsksFor(h, k)
  PROVE  h \o Results(k) \in Seq(Message) /\ Paired(h \o Results(k))
<1> DEFINE g == SubSeq(h, 1, Len(h) - 1)
           r == h \o Results(k)
           n == Len(g)
<1>1. /\ n \in Nat /\ Len(h) = n + 1 /\ h[n + 1] = AssistantMessage(k)
      /\ \A i \in 1..n : g[i] = h[i]
      /\ Paired(g) /\ g \in Seq(Message)
  <2>1. h # <<>> /\ Len(h) \in Nat \ {0} /\ h[Len(h)] = AssistantMessage(k) /\ Paired(g)
    BY EmptySeq DEF AsksFor
  <2> HIDE DEF AsksFor
  <2>2. g \in Seq(Message) /\ Len(g) = Len(h) - 1
    <3> DEFINE l == Len(h) - 1
    <3>1. l \in Nat /\ \A i \in 1..l : h[i] \in Message
      BY <2>1
    <3> HIDE DEF l
    <3>2. /\ SubSeq(h, 1, l) \in Seq(Message)
          /\ Len(SubSeq(h, 1, l)) = IF 1 <= l THEN l - 1 + 1 ELSE 0
      BY <3>1, SubSeqProperties
    <3>3. Len(SubSeq(h, 1, l)) = l
      BY <3>1, <3>2
    <3> QED
      BY <3>2, <3>3 DEF l
  <2>3. \A i \in 1..n : g[i] = h[i]
    BY <2>1, <2>2
  <2> QED
    BY <2>1, <2>2, <2>3
<1>2. /\ r \in Seq(Message) /\ Len(r) = n + 1 + k
      /\ \A i \in 1..n : r[i] = g[i]
      /\ r[n + 1] = AssistantMessage(k)
      /\ \A j \in 1..k : r[n + 1 + j] = ToolMessage(j)
  <2>1. Results(k) \in Seq(Message) /\ Len(Results(k)) = k /\ \A j \in 1..k : Results(k)[j] = ToolMessage(j)
    BY ResultsAreMessages
  <2>2. /\ r \in Seq(Message) /\ Len(r) = Len(h) + k
        /\ \A i \in 1..Len(h) + k : r[i] = IF i <= Len(h) THEN h[i] ELSE Results(k)[i - Len(h)]
    BY <2>1, ConcatProperties
  <2> HIDE DEF g, r, n
  <2>3. \A j \in 1..k : r[n + 1 + j] = ToolMessage(j)
    <3> SUFFICES ASSUME NEW j \in 1..k PROVE r[n + 1 + j] = ToolMessage(j)
      OBVIOUS
    <3>1. n + 1 + j \in 1..Len(h) + k /\ ~(n + 1 + j <= Len(h)) /\ (n + 1 + j) - Len(h) = j
      BY <1>1
    <3> QED
      BY <2>1, <2>2, <3>1
  <2>4. \A i \in 1..(n + 1) : r[i] = h[i]
    <3> SUFFICES ASSUME NEW i \in 1..(n + 1) PROVE r[i] = h[i]
      OBVIOUS
    <3>1. i \in 1..Len(h) + k /\ i <= Len(h)
      BY <1>1
    <3> QED
      BY <2>2, <3>1
  <2>5. n + 1 \in 1..(n + 1) /\ \A i \in 1..n : i \in 1..(n + 1)
    BY <1>1
  <2>6. r[n + 1] = AssistantMessage(k) /\ \A i \in 1..n : r[i] = g[i]
    <3> HIDE DEF AsksFor
    <3> QED
      BY <1>1, <2>4, <2>5
  <2> QED
    BY <1>1, <2>2, <2>3, <2>6
<1>3. /\ DOMAIN g = 1..n /\ DOMAIN r = 1..(n + 1 + k)
      /\ \A i \in 1..n : r[i].n \in Nat
  BY <1>1, <1>2 DEF Message
<1> HIDE DEF g, r, n
<1>4. ASSUME NEW i \in DOMAIN r, r[i].role = "assistant", NEW j \in 1..r[i].n
      PROVE  i + j \in DOMAIN r /\ r[i + j] = ToolMessage(j)
  <2>1. CASE i \in 1..n
    <3>1. j \in 1..g[i].n /\ g[i].role = "assistant" /\ i \in DOMAIN g
      BY <1>2, <1>3, <1>4, <2>1
    <3>2. i + j \in DOMAIN g /\ g[i + j] = ToolMessage(j)
      BY <1>1, <3>1 DEF Paired
    <3> QED
      BY <1>1, <1>2, <1>3, <3>2
  <2>2. CASE i = n + 1
    BY <1>1, <1>2, <1>3, <1>4, <2>2 DEF AssistantMessage
  <2>3. CASE i > n + 1
    <3>1. r[i] = ToolMessage(i - (n + 1))
      <4>1. i \in 1..(n + 1 + k)
        BY <1>3
      <4>2. n \in Nat
        BY <1>1
      <4>3. i - (n + 1) \in 1..k /\ n + 1 + (i - (n + 1)) = i
        BY <2>3, <4>1, <4>2
      <4> QED
        BY <1>2, <4>3
    <3> QED
      BY <1>4, <3>1 DEF ToolMessage
  <2> QED
    BY <1>1, <1>3, <2>1, <2>2, <2>3
<1>5. ASSUME NEW i \in DOMAIN r, r[i].role = "tool"
      PROVE  LET j == i - r[i].n
             IN  j \in DOMAIN r /\ r[j].role = "assistant" /\ r[j].n >= r[i].n
  <2>1. CASE i \in 1..n
    <3>1. g[i].role = "tool" /\ i \in DOMAIN g
      BY <1>2, <1>3, <1>5, <2>1
    <3>2. LET j == i - g[i].n
          IN  j \in DOMAIN g /\ g[j].role = "assistant" /\ g[j].n >= g[i].n
      BY <1>1, <3>1 DEF Paired
    <3> QED
      BY <1>1, <1>2, <1>3, <2>1, <3>2, SMTT(30)
  <2>2. CASE i = n + 1
    BY <1>2, <1>5, <2>2 DEF AssistantMessage
  <2>3. CASE i > n + 1
    <3>1. i - (n + 1) \in 1..k /\ r[i] = ToolMessage(i - (n + 1))
      <4>1. i \in 1..(n + 1 + k)
        BY <1>3
      <4>2. n \in Nat
        BY <1>1
      <4>3. i - (n + 1) \in 1..k /\ n + 1 + (i - (n + 1)) = i
        BY <2>3, <4>1, <4>2
      <4> QED
        BY <1>2, <4>3
    <3>2. r[i].n = i - (n + 1)
      BY <3>1 DEF ToolMessage
    <3>4. i - r[i].n = n + 1
      BY <1>1, <1>3, <3>2
    <3>3. n + 1 \in DOMAIN r /\ r[n + 1].role = "assistant" /\ r[n + 1].n = k
      BY <1>1, <1>2, <1>3 DEF AssistantMessage
    <3> QED
      BY <3>1, <3>2, <3>3, <3>4
  <2> QED
    BY <1>1, <1>3, <2>1, <2>2, <2>3
<1> QED
  BY <1>2, <1>4, <1>5 DEF Paired, r

(* What a provider without tools is given names no tools.                  *)
LEMMA AdaptedIsPaired ==
  ASSUME NEW h \in Seq(Message), Paired(h), NEW p
  PROVE  Paired(Adapted(h, p))
<1>1. CASE p \in ToolCapable
  BY <1>1 DEF Adapted
<1>2. CASE p \notin ToolCapable
  <2> DEFINE r == RemoveToolProtocol(h)
  <2>1. DOMAIN r = DOMAIN h /\ \A i \in DOMAIN h : r[i].n = 0 /\ r[i].role # "tool"
    <3> SUFFICES ASSUME NEW i \in DOMAIN h PROVE r[i].n = 0 /\ r[i].role # "tool"
      BY DEF RemoveToolProtocol
    <3>1. h[i] \in Message
      OBVIOUS
    <3> QED
      BY <3>1 DEF RemoveToolProtocol, UserMessage, Message
  <2> HIDE DEF r
  <2>2. Paired(r)
    BY <2>1 DEF Paired
  <2> QED
    BY <1>2, <2>2 DEF Adapted, r
<1> QED
  BY <1>1, <1>2

-----------------------------------------------------------------------------
(***************************************************************************)
(* What a step of a turn makes of it *)
(***************************************************************************)
SameTalk(t) == stream'[t] = stream[t] /\ heard'[t] = heard[t] /\ live'[t] = live[t]
SameWork(t) == /\ history'[t] = history[t] /\ calls'[t] = calls[t] /\ answers'[t] = answers[t]
               /\ granted'[t] = granted[t]
SameEnd(t) == final'[t] = final[t] /\ reply'[t] = reply[t]

LEMMA AskOwn ==
  ASSUME IInv, NEW t \in Turns, Ask(t)
  PROVE  Own(t)'
<1>1. /\ at[t] = "ask" /\ at'[t] \in {"try", "save"}
      /\ reply'[t] = reply[t]
      /\ at'[t] = "save" => final'[t] = "error"
      /\ SameTalk(t)
      /\ SameWork(t)
  BY DEF IInv, Typed, Shaped, Ask, GiveUp, Goto, talking, working, SameTalk, SameWork
<1> QED
  BY <1>1 DEF IInv, Own, Kind, Hears, Displays, Permits, Exchanges, SameTalk, SameWork

LEMMA ExhaustedOwn ==
  ASSUME IInv, NEW t \in Turns, Exhausted(t)
  PROVE  Own(t)'
<1>1. /\ at[t] = "ask" /\ at'[t] = "save"
      /\ reply'[t] = reply[t]
      /\ final'[t] = "error"
      /\ SameTalk(t)
      /\ SameWork(t)
  BY DEF IInv, Typed, Shaped, Exhausted, GiveUp, Goto, talking, working, SameTalk, SameWork
<1> QED
  BY <1>1 DEF IInv, Own, Kind, Hears, Displays, Permits, Exchanges, SameTalk, SameWork

LEMMA TryOwn ==
  ASSUME IInv, NEW t \in Turns, Try(t)
  PROVE  Own(t)'
<1>1. /\ at[t] = "try"
      /\ \/ at'[t] = "save" /\ final'[t] = "error"
         \/ at'[t] = "try" /\ final'[t] = final[t]
         \/ at'[t] = (IF t \in Streaming THEN "listen" ELSE "await") /\ final'[t] = final[t]
      /\ heard'[t] = heard[t] /\ live'[t] = live[t]
      /\ reply'[t] = reply[t]
      /\ SameWork(t)
  BY DEF IInv, Typed, Shaped, Try, GiveUp, Goto, Idle, routing, working, SameWork
<1> QED
  BY <1>1 DEF IInv, Own, Kind, Hears, Displays, Permits, Exchanges, SameWork, Nothing

LEMMA TextOwn ==
  ASSUME IInv, NEW t \in Turns, Text(t)
  PROVE  Own(t)'
<1>0. PICK useful \in BOOLEAN, due \in BOOLEAN, ok \in BOOLEAN :
        /\ live[t].shows = "none" /\ ~live[t].failed => due
        /\ stream' = [stream EXCEPT ![t].chunks = @ + 1, ![t].useful = @ \/ useful]
        /\ heard' = [heard EXCEPT ![t].voices = IF useful THEN @ \cup {stream[t].from} ELSE @]
        /\ live' = [live EXCEPT ![t] = IF due THEN Displayed(@, ok) ELSE @]
  BY Zenon DEF Text
<1>1. /\ live[t].shows = "none" /\ ~live[t].failed => due
      /\ stream'[t].from = stream[t].from /\ stream'[t].useful = (stream[t].useful \/ useful)
      /\ useful => heard'[t].voices = heard[t].voices \cup {stream[t].from}
      /\ ~useful => heard'[t] = heard[t]
      /\ live'[t] = IF due THEN Displayed(live[t], ok) ELSE live[t]
  <2>1. stream'[t].from = stream[t].from /\ stream'[t].useful = (stream[t].useful \/ useful)
    BY <1>0 DEF IInv, Typed
  <2>2. /\ useful => heard'[t].voices = heard[t].voices \cup {stream[t].from}
        /\ ~useful => heard'[t] = heard[t]
    <3>1. DOMAIN heard = Turns /\ heard[t] = [voices |-> heard[t].voices, calls |-> heard[t].calls]
      BY DEF IInv, Typed, Shaped
    <3>2. heard'[t] = [heard[t] EXCEPT !.voices = IF useful THEN heard[t].voices \cup {stream[t].from} ELSE heard[t].voices]
      BY <1>0, <3>1
    <3> QED
      BY <3>1, <3>2
  <2>3. live'[t] = IF due THEN Displayed(live[t], ok) ELSE live[t]
    BY <1>0 DEF IInv, Typed
  <2> QED
    BY <1>0, <2>1, <2>2, <2>3
<1>2. at[t] = "listen" /\ at'[t] = "listen" /\ SameWork(t) /\ SameEnd(t)
  BY DEF Text, Event, working, ending, SameWork, SameEnd
<1>3. /\ t \in Streaming /\ t \notin Commands
      /\ heard[t].voices \subseteq {stream[t].from}
      /\ ~stream[t].useful => heard[t] = Nothing
      /\ heard[t].voices # {} => live[t].failed \/ live[t].shows # "none"
  BY <1>2 DEF IInv, Own, Kind, Hears
<1>4. live'[t].failed \/ live'[t].shows # "none" \/ (~due /\ live'[t] = live[t])
  BY <1>1 DEF IInv, Typed, Shaped, Live, Displayed
<1>5. Hears(t)'
  <2>1. /\ heard'[t].voices \subseteq {stream[t].from}
        /\ ~stream'[t].useful => heard'[t] = Nothing
    BY <1>1, <1>3
  <2>2. heard'[t].voices # {} => live'[t].failed \/ live'[t].shows # "none"
    BY <1>1, <1>3, <1>4
  <2> QED
    BY <1>1, <1>2, <2>1, <2>2 DEF Hears
<1> QED
  BY <1>2, <1>3, <1>5 DEF IInv, Own, Kind, Displays, Permits, Exchanges, SameWork, SameEnd

LEMMA HollowTextOwn ==
  ASSUME IInv, NEW t \in Turns, HollowText(t)
  PROVE  Own(t)'
<1>1. /\ at[t] = "listen" /\ at'[t] = "listen"
      /\ stream'[t].from = stream[t].from /\ stream'[t].useful = TRUE
      /\ heard'[t] = heard[t] /\ live'[t] = live[t]
      /\ SameWork(t) /\ SameEnd(t)
  BY DEF IInv, Typed, Shaped, HollowText, Event, working, ending, SameWork, SameEnd
<1> QED
  BY <1>1 DEF IInv, Own, Kind, Hears, Displays, Permits, Exchanges, SameWork, SameEnd

LEMMA FragmentOwn ==
  ASSUME IInv, NEW t \in Turns, Fragment(t)
  PROVE  Own(t)'
<1>1. /\ at[t] = "listen"
      /\ \/ /\ at'[t] = "listen" /\ final'[t] = final[t]
            /\ stream'[t].from = stream[t].from /\ stream'[t].useful = TRUE
            /\ heard'[t].voices = heard[t].voices
         \/ at'[t] = "save" /\ final'[t] = "error" /\ heard'[t] = Nothing
      /\ live'[t] = live[t] /\ reply'[t] = reply[t]
      /\ SameWork(t)
  <2>1. /\ at[t] = "listen"
        /\ live'[t] = live[t] /\ reply'[t] = reply[t]
        /\ SameWork(t)
    BY DEF IInv, Typed, Shaped, Fragment, Event, working, SameWork
  <2>2. CASE /\ \E n \in Names[t] : heard' = [heard EXCEPT ![t].calls = Append(@, n)]
             /\ stream' = [stream EXCEPT ![t].chunks = @ + 1, ![t].useful = TRUE]
             /\ UNCHANGED <<at, final>>
    BY <2>1, <2>2 DEF IInv, Typed
  <2>3. CASE /\ stream' = [stream EXCEPT ![t].chunks = @ + 1, ![t].useful = TRUE]
             /\ UNCHANGED <<at, final, heard>>
    BY <2>1, <2>3 DEF IInv, Typed
  <2>4. CASE /\ GiveUp(t)
             /\ heard' = [heard EXCEPT ![t] = Nothing]
    BY <2>1, <2>4 DEF IInv, Typed, Shaped, GiveUp, Goto
  <2> QED
    BY <2>2, <2>3, <2>4 DEF Fragment
<1> QED
  BY <1>1 DEF IInv, Own, Kind, Hears, Displays, Permits, Exchanges, SameWork, Nothing

LEMMA StreamFailsOwn ==
  ASSUME IInv, NEW t \in Turns, StreamFails(t)
  PROVE  Own(t)'
<1>1. /\ at[t] = "listen"
      /\ \/ at'[t] = "try" /\ final'[t] = final[t] /\ heard'[t] = heard[t] /\ ~stream[t].useful
         \/ at'[t] = "save" /\ final'[t] = "error" /\ heard'[t] = Nothing
      /\ live'[t] = live[t] /\ reply'[t] = reply[t]
      /\ SameWork(t)
  BY DEF IInv, Typed, Shaped, StreamFails, FallbackSafe, GiveUp, Goto, working, SameWork
<1> QED
  BY <1>1 DEF IInv, Own, Kind, Hears, Displays, Permits, Exchanges, SameWork, Nothing

(* An answer is taken for sent only if its live message was finished.      *)
LEMMA StreamEndsOwn ==
  ASSUME IInv, NEW t \in Turns, StreamEnds(t)
  PROVE  Own(t)'
<1>1. /\ at[t] = "listen" /\ reply'[t] = reply[t]
      /\ answers'[t] = answers[t] /\ granted'[t] = granted[t]
      /\ t \in Streaming /\ t \notin Commands
      /\ heard[t].voices # {} => live[t].failed \/ live[t].shows # "none"
      /\ \A x, y \in heard[t].voices : x = y
      /\ reply[t] # "shown"
      /\ granted[t] \subseteq Allowed[t]
      /\ Paired(history[t]) /\ answers[t] = 0
  BY DEF IInv, Typed, Own, Shaped, StreamEnds, Complete, Kind, Hears, Displays, Permits, Exchanges
<1>2. CASE /\ live' = [live EXCEPT ![t] = Past(Degraded(@))]
           /\ heard' = [heard EXCEPT ![t] = Nothing]
           /\ history' = [history EXCEPT ![t] = Append(@, AssistantMessage(Len(heard[t].calls)))]
           /\ calls' = [calls EXCEPT ![t] = heard[t].calls]
           /\ Goto(t, "claim")
  <2>1. /\ at'[t] = "claim" /\ heard'[t] = Nothing
        /\ history'[t] = Append(history[t], AssistantMessage(Len(heard[t].calls)))
        /\ calls'[t] = heard[t].calls
    BY <1>2 DEF IInv, Typed, Shaped, Goto
  <2>2. AsksFor(history'[t], Len(calls'[t]))
    BY <1>1, <2>1, AskedIsOpen, LenProperties DEF IInv, Typed
  <2> QED
    BY <1>1, <2>1, <2>2 DEF Own, Kind, Hears, Displays, Permits, Exchanges, Nothing
<1>3. CASE /\ heard[t].voices # {}
           /\ \E ok \in BOOLEAN : live' = [live EXCEPT ![t] = Degraded(Finished(@, ok))]
           /\ final' = [final EXCEPT ![t] = "answer"]
           /\ Goto(t, "save")
           /\ UNCHANGED <<heard, history, calls>>
  <2>1. at'[t] = "save" /\ heard'[t] = heard[t]
    BY <1>3 DEF IInv, Typed, Shaped, Goto
  <2>2. live'[t].sent => live'[t].shows = "final"
    BY <1>1, <1>3 DEF IInv, Typed, Shaped, Live, Degraded, Finished
  <2> QED
    BY <1>1, <2>1, <2>2 DEF Own, Kind, Hears, Displays, Permits, Exchanges
<1>4. CASE GiveUp(t) /\ UNCHANGED <<heard, history, calls>>
  <2>1. at'[t] = "save" /\ final'[t] = "error" /\ heard'[t] = heard[t]
    BY <1>4 DEF IInv, Typed, Shaped, GiveUp, Goto
  <2> QED
    BY <1>1, <2>1 DEF Own, Kind, Hears, Displays, Permits, Exchanges
<1> QED
  BY <1>2, <1>3, <1>4 DEF StreamEnds

LEMMA EnvelopeOwn ==
  ASSUME IInv, NEW t \in Turns, Envelope(t)
  PROVE  Own(t)'
<1>1. /\ at[t] = "await" /\ reply'[t] = reply[t] /\ live'[t] = live[t]
      /\ answers'[t] = answers[t] /\ granted'[t] = granted[t]
      /\ t \notin Streaming /\ t \notin Commands /\ ~live[t].sent
      /\ reply[t] # "shown" /\ heard[t] = Nothing
      /\ granted[t] \subseteq Allowed[t]
      /\ history[t] \in Seq(Message) /\ Paired(history[t]) /\ answers[t] = 0
  BY DEF IInv, Typed, Own, Shaped, Envelope, Kind, Hears, Displays, Permits, Exchanges
<1>2. CASE Goto(t, "try") /\ UNCHANGED <<history, calls, final, heard>>
  <2>1. at'[t] = "try" /\ heard'[t] = Nothing /\ history'[t] = history[t]
    BY <1>1, <1>2 DEF IInv, Typed, Shaped, Goto
  <2> QED
    BY <1>1, <2>1 DEF Own, Kind, Hears, Displays, Permits, Exchanges, Nothing
<1>3. CASE /\ heard' = [heard EXCEPT ![t].voices = {stream[t].from}]
           /\ Goto(t, "save")
  <2>1. at'[t] = "save" /\ heard'[t].voices = {stream[t].from}
    BY <1>3 DEF IInv, Typed, Shaped, Goto
  <2> QED
    BY <1>1, <2>1 DEF Own, Kind, Hears, Displays, Permits, Exchanges
<1>4. CASE /\ \E n \in Names[t] : calls' = [calls EXCEPT ![t] = <<n>>]
           /\ history' = [history EXCEPT ![t] = Append(@, AssistantMessage(1))]
           /\ Goto(t, "claim")
           /\ UNCHANGED <<final, heard>>
  <2>1. /\ at'[t] = "claim" /\ heard'[t] = Nothing /\ Len(calls'[t]) = 1
        /\ history'[t] = Append(history[t], AssistantMessage(1))
    BY <1>1, <1>4 DEF IInv, Typed, Shaped, Goto
  <2>2. AsksFor(history'[t], 1)
    <3>1. 1 \in Nat /\ AsksFor(Append(history[t], AssistantMessage(1)), 1)
      BY <1>1, AskedIsOpen
    <3> QED
      BY <2>1, <3>1
  <2> QED
    BY <1>1, <2>1, <2>2 DEF Own, Kind, Hears, Displays, Permits, Exchanges, Nothing
<1> QED
  BY <1>2, <1>3, <1>4 DEF Envelope

LEMMA ClaimOwn ==
  ASSUME IInv, NEW t \in Turns, Claim(t)
  PROVE  Own(t)'
<1>1. /\ at[t] = "claim" /\ SameTalk(t) /\ SameEnd(t)
      /\ answers'[t] = answers[t] /\ granted'[t] = granted[t]
      /\ t \notin Commands /\ heard[t] = Nothing /\ reply[t] # "shown"
      /\ granted[t] \subseteq Allowed[t]
      /\ AsksFor(history[t], Len(calls[t])) /\ answers[t] = 0
      /\ Len(calls[t]) \in Nat
  BY LenProperties DEF IInv, Typed, Own, Shaped, Claim, talking, ending, Kind, Hears, Displays, Permits, Exchanges,
                       SameTalk, SameEnd
<1>2. CASE /\ history' = [history EXCEPT ![t] = @ \o Refusals(t)]
           /\ calls' = [calls EXCEPT ![t] = <<>>]
           /\ Goto(t, "ask")
  <2>1. at'[t] = "ask" /\ history'[t] = history[t] \o Results(Len(calls[t]))
    BY <1>2 DEF IInv, Typed, Shaped, Goto, Refusals
  <2>2. Paired(history'[t])
    BY <1>1, <2>1, AnsweredIsPaired DEF IInv, Typed
  <2> QED
    BY <1>1, <2>1, <2>2 DEF IInv, Own, Kind, Hears, Displays, Permits, Exchanges, SameTalk, SameEnd, Nothing
<1>3. CASE Goto(t, "call") /\ UNCHANGED <<history, calls>>
  <2>1. at'[t] = "call" /\ history'[t] = history[t] /\ calls'[t] = calls[t]
    BY <1>3 DEF IInv, Typed, Shaped, Goto
  <2> QED
    BY <1>1, <2>1 DEF IInv, Own, Kind, Hears, Displays, Permits, Exchanges, SameTalk, SameEnd, Nothing
<1> QED
  BY <1>2, <1>3 DEF Claim

(* An answer is one call less and one result more. *)
LEMMA AnswerCounts ==
  ASSUME IInv, NEW t \in Turns, calls[t] # <<>>, Answer(t)
  PROVE  /\ answers'[t] = answers[t] + 1
         /\ calls'[t] \in Seq(Callable) /\ Len(calls'[t]) = Len(calls[t]) - 1
         /\ answers'[t] + Len(calls'[t]) = answers[t] + Len(calls[t])
<1>1. /\ answers'[t] = answers[t] + 1 /\ calls'[t] = Tail(calls[t])
      /\ answers[t] \in Nat /\ calls[t] \in Seq(Callable)
  BY DEF IInv, Typed, Shaped, Answer
<1>2. Len(calls[t]) \in Nat /\ calls'[t] \in Seq(Callable) /\ Len(calls'[t]) = Len(calls[t]) - 1
  BY <1>1, HeadTailProperties, LenProperties
<1> QED
  BY <1>1, <1>2

LEMMA CallOwn ==
  ASSUME IInv, NEW t \in Turns, Call(t)
  PROVE  Own(t)'
<1> DEFINE n == Head(calls[t])
<1>1. /\ at[t] = "call" /\ calls[t] # <<>> /\ SameTalk(t) /\ SameEnd(t)
      /\ history'[t] = history[t] /\ granted'[t] = granted[t]
      /\ granted[t] \subseteq Allowed[t]
  BY DEF IInv, Typed, Own, Shaped, Call, talking, ending, Permits, SameTalk, SameEnd
<1>2. CASE Answer(t) /\ UNCHANGED at
  <2>1. /\ at'[t] = "call" /\ answers'[t] + Len(calls'[t]) = answers[t] + Len(calls[t])
    BY <1>1, <1>2, AnswerCounts
  <2> QED
    BY <1>1, <2>1 DEF IInv, Own, Kind, Hears, Displays, Permits, Exchanges, SameTalk, SameEnd
<1>3. CASE MayRun(t, n) /\ Goto(t, "run") /\ UNCHANGED <<calls, answers>>
  <2>1. at'[t] = "run" /\ calls'[t] = calls[t] /\ answers'[t] = answers[t] /\ n \in Allowed[t]
    BY <1>1, <1>3 DEF IInv, Typed, Shaped, Goto, MayRun
  <2> QED
    BY <1>1, <2>1 DEF IInv, Own, Kind, Hears, Displays, Permits, Exchanges, SameTalk, SameEnd
<1>4. CASE MayRun(t, n) /\ n \in Mutating /\ Goto(t, "queued") /\ UNCHANGED <<calls, answers>>
  <2>1. at'[t] = "queued" /\ calls'[t] = calls[t] /\ answers'[t] = answers[t] /\ n \in Allowed[t]
    BY <1>1, <1>4 DEF IInv, Typed, Shaped, Goto, MayRun
  <2> QED
    BY <1>1, <1>4, <2>1 DEF IInv, Own, Kind, Hears, Displays, Permits, Exchanges, SameTalk, SameEnd
<1> QED
  BY <1>2, <1>3, <1>4 DEF Call

LEMMA EnterOwn ==
  ASSUME IInv, NEW t \in Turns, Enter(t)
  PROVE  Own(t)'
<1>1. at[t] = "queued" /\ at'[t] = "run" /\ SameTalk(t) /\ SameWork(t) /\ SameEnd(t)
  BY DEF IInv, Typed, Shaped, Enter, Goto, talking, working, ending, SameTalk, SameWork, SameEnd
<1> QED
  BY <1>1 DEF IInv, Own, Kind, Hears, Displays, Permits, Exchanges, SameTalk, SameWork, SameEnd

LEMMA ToolSettlesOwn ==
  ASSUME IInv, NEW t \in Turns, ToolSettles(t)
  PROVE  Own(t)'
<1>1. /\ at[t] = "run" /\ at'[t] = "call" /\ calls[t] # <<>> /\ SameTalk(t) /\ SameEnd(t)
      /\ history'[t] = history[t] /\ Answer(t)
      /\ granted'[t] \subseteq granted[t] \cup Allowed[t]
  BY DEF IInv, Typed, Own, Shaped, ToolSettles, Goto, Discovered, talking, ending, Permits, SameTalk, SameEnd
<1>2. answers'[t] + Len(calls'[t]) = answers[t] + Len(calls[t])
  BY <1>1, AnswerCounts
<1> QED
  BY <1>1, <1>2 DEF IInv, Own, Kind, Hears, Displays, Permits, Exchanges, SameTalk, SameEnd

LEMMA ConcludeOwn ==
  ASSUME IInv, NEW t \in Turns, Conclude(t)
  PROVE  Own(t)'
<1>1. /\ at[t] = "call" /\ at'[t] = "ask" /\ t \notin Commands /\ SameTalk(t) /\ SameEnd(t)
      /\ calls[t] = <<>> /\ answers'[t] = 0 /\ granted'[t] = granted[t]
      /\ history'[t] = history[t] \o Results(answers[t])
  BY DEF IInv, Typed, Shaped, Conclude, Goto, talking, ending, SameTalk, SameEnd
<1>2. AsksFor(history[t], answers[t])
  BY <1>1, EmptySeq DEF IInv, Typed, Own, Shaped, Exchanges
<1>3. Paired(history'[t])
  BY <1>1, <1>2, AnsweredIsPaired DEF IInv, Typed
<1> QED
  BY <1>1, <1>3 DEF IInv, Own, Kind, Hears, Displays, Permits, Exchanges, SameTalk, SameEnd

LEMMA CommandEndsOwn ==
  ASSUME IInv, NEW t \in Turns, CommandEnds(t)
  PROVE  Own(t)'
<1>1. /\ at[t] = "call" /\ at'[t] = "deliver" /\ t \in Commands /\ SameTalk(t)
      /\ reply'[t] = reply[t] /\ granted'[t] = granted[t]
  BY DEF IInv, Typed, Shaped, CommandEnds, Goto, talking, SameTalk
<1> QED
  BY <1>1 DEF IInv, Own, Kind, Hears, Displays, Permits, Exchanges, SameTalk

LEMMA SaveOwn ==
  ASSUME IInv, NEW t \in Turns, Save(t)
  PROVE  Own(t)'
<1>1. /\ at[t] = "save" /\ at'[t] = "deliver" /\ heard'[t] = heard[t] /\ SameWork(t)
      /\ reply'[t] = reply[t]
      /\ \/ final'[t] = final[t] /\ live'[t] = live[t]
         \/ final'[t] = "error" /\ live'[t] = [live[t] EXCEPT !.sent = FALSE]
  BY DEF IInv, Typed, Shaped, Save, Goto, working, SameWork
<1>2. t \in Commands \/ t \notin Streaming => ~live'[t].sent
  BY <1>1 DEF IInv, Typed, Own, Shaped, Live, Kind
<1> QED
  BY <1>1, <1>2 DEF IInv, Own, Kind, Hears, Displays, Permits, Exchanges, SameWork

LEMMA DeliverOwn ==
  ASSUME IInv, NEW t \in Turns, Deliver(t)
  PROVE  Own(t)'
<1>1. /\ at[t] = "deliver" /\ at'[t] = "done" /\ heard'[t] = Nothing /\ live'[t] = live[t]
      /\ final'[t] = final[t] /\ granted'[t] = {}
      /\ reply'[t] = "shown" => live[t].sent /\ final[t] = "answer"
  BY DEF IInv, Typed, Shaped, Deliver, Goto
<1> QED
  BY <1>1 DEF IInv, Own, Kind, Hears, Displays, Permits, Exchanges, Nothing

-----------------------------------------------------------------------------
(***************************************************************************)
(* The other turns *)
(***************************************************************************)
SameTurn(t) == at'[t] = at[t] /\ SameTalk(t) /\ SameWork(t) /\ SameEnd(t)

LEMMA SameOwn ==
  ASSUME IInv, NEW t \in Turns, SameTurn(t)
  PROVE  Own(t)'
BY DEF IInv, Own, Kind, Hears, Displays, Permits, Exchanges, SameTurn, SameTalk, SameWork, SameEnd

LEMMA OthersKept ==
  ASSUME IInv, NEW t \in Turns, NEW u \in Turns \ {t}, TurnStep(t)
  PROVE  SameTurn(u)
<1> USE DEF IInv, Typed, Shaped, SameTurn, SameTalk, SameWork, SameEnd, Goto, GiveUp, routing, talking, working, guarding, ending
<1>1. CASE Ask(t)
  BY <1>1 DEF Ask
<1>2. CASE Exhausted(t)
  BY <1>2 DEF Exhausted
<1>3. CASE Try(t)
  BY <1>3 DEF Try
<1>4. CASE Text(t)
  BY <1>4 DEF Text
<1>5. CASE HollowText(t)
  BY <1>5 DEF HollowText
<1>6. CASE Fragment(t)
  BY <1>6 DEF Fragment
<1>7. CASE StreamFails(t)
  BY <1>7 DEF StreamFails
<1>8. CASE StreamEnds(t)
  BY <1>8 DEF StreamEnds
<1>9. CASE Envelope(t)
  BY <1>9 DEF Envelope
<1>10. CASE Claim(t)
  BY <1>10 DEF Claim
<1>11. CASE Call(t)
  BY <1>11 DEF Call, Answer
<1>12. CASE Enter(t)
  BY <1>12 DEF Enter
<1>13. CASE ToolSettles(t)
  BY <1>13 DEF ToolSettles, Answer
<1>14. CASE Conclude(t)
  BY <1>14 DEF Conclude
<1>15. CASE CommandEnds(t)
  BY <1>15 DEF CommandEnds
<1>16. CASE Save(t)
  BY <1>16 DEF Save
<1>17. CASE Deliver(t)
  BY <1>17 DEF Deliver
<1> QED
  BY <1>1, <1>2, <1>3, <1>4, <1>5, <1>6, <1>7, <1>8, <1>9, <1>10, <1>11, <1>12, <1>13, <1>14,
     <1>15, <1>16, <1>17 DEF TurnStep

LEMMA StepOwn ==
  ASSUME IInv, NEW t \in Turns, TurnStep(t), NEW u \in Turns
  PROVE  Own(u)'
<1>1. CASE u = t
  BY <1>1, AskOwn, ExhaustedOwn, TryOwn, TextOwn, HollowTextOwn, FragmentOwn, StreamFailsOwn, StreamEndsOwn,
     EnvelopeOwn, ClaimOwn, CallOwn, EnterOwn, ToolSettlesOwn, ConcludeOwn, CommandEndsOwn, SaveOwn, DeliverOwn
     DEF TurnStep
<1>2. CASE u # t
  BY <1>2, OthersKept, SameOwn
<1> QED
  BY <1>1, <1>2

-----------------------------------------------------------------------------
(***************************************************************************)
(* Circuits *)
(***************************************************************************)
(* A request that ends, well or not, takes the probe's mark with it.       *)
LEMMA FailedProbed ==
  ASSUME NEW e \in Circuit, NEW n \in 0..1, Probed(e, n)
  PROVE  /\ Failed(e) \in Circuit
         /\ Probed(Failed(e), IF Failed(e).state = "halfOpen" THEN n ELSE 0)
<1>1. Threshold \in Nat \ {0}
  BY ModelRouterAssumption
<1>2. CASE e.state = "open"
  BY <1>1, <1>2 DEF Failed, Probed
<1>3. CASE e.state # "open" /\ e.failures + 1 >= Threshold
  BY <1>1, <1>3 DEF Failed, Probed, Opened, Circuit
<1>4. CASE e.state # "open" /\ ~(e.failures + 1 >= Threshold)
  <2>1. e.state = "closed" /\ e.failures \in 0..Threshold
    BY <1>1, <1>4 DEF Probed, Circuit
  <2>2. Failed(e) = [e EXCEPT !.failures = @ + 1, !.probe = FALSE]
    BY <1>4 DEF Failed
  <2>3. e.failures + 1 \in 0..Threshold
    BY <1>1, <1>4, <2>1
  <2>4. Failed(e) \in Circuit /\ Failed(e).state = "closed"
    BY <2>1, <2>2, <2>3 DEF Circuit
  <2> QED
    BY <2>4 DEF Probed
<1> QED
  BY <1>2, <1>3, <1>4

LEMMA RevivedProbed ==
  ASSUME NEW e \in Circuit, NEW n \in 0..1, Probed(e, n)
  PROVE  Revived(e) \in Circuit /\ Probed(Revived(e), n)
BY DEF Revived, Probed, Circuit

LEMMA AcquiredProbed ==
  ASSUME NEW e \in Circuit, NEW n \in 0..1, Probed(e, n), CanAcquire(e)
  PROVE  /\ Acquired(e) \in Circuit
         /\ (IF e.state = "halfOpen" THEN n + 1 ELSE n) \in 0..1
         /\ Probed(Acquired(e), IF e.state = "halfOpen" THEN n + 1 ELSE n)
<1>1. CASE e.state = "halfOpen"
  <2>1. Acquired(e) \in Circuit /\ Acquired(e).state = "halfOpen" /\ Acquired(e).failures = e.failures /\ Acquired(e).probe
    BY <1>1 DEF Acquired, Circuit
  <2>2. e.failures = Threshold /\ n = 0
    BY <1>1 DEF Probed, CanAcquire
  <2> QED
    BY <1>1, <2>1, <2>2 DEF Probed
<1>2. CASE e.state # "halfOpen"
  BY <1>2 DEF Acquired
<1> QED
  BY <1>1, <1>2

LEMMA FreshProbed == Fresh \in Circuit /\ Probed(Fresh, 0)
<1>1. Threshold \in Nat \ {0}
  BY ModelRouterAssumption
<1> QED
  BY <1>1 DEF Fresh, Circuit, Probed

Routed == circuit \in [Providers -> Circuit] /\ through \in [Providers -> 0..1] /\ Probing

LEMMA LostRouted ==
  ASSUME Routed, NEW t \in Turns, Lost(t)
  PROVE  Routed'
<1> DEFINE p == stream[t].from
<1>1. CASE p \in Providers
  <2>1. /\ circuit' = [circuit EXCEPT ![p] = Failed(circuit[p])]
        /\ through' = [through EXCEPT ![p] = IF Failed(circuit[p]).state = "halfOpen" THEN through[p] ELSE 0]
    BY <1>1 DEF Lost, Routed
  <2>2. Failed(circuit[p]) \in Circuit /\ Probed(circuit'[p], through'[p])
    BY <1>1, <2>1, FailedProbed DEF Routed, Probing
  <2> HIDE DEF p
  <2> QED
    BY <1>1, <2>1, <2>2 DEF Routed, Probing
<1>2. CASE p \notin Providers
  BY <1>2 DEF Routed, Probing, Lost
<1> QED
  BY <1>1, <1>2

LEMMA WonRouted ==
  ASSUME Routed, NEW t \in Turns, Won(t)
  PROVE  Routed'
<1> DEFINE p == stream[t].from
<1>1. CASE p \in Providers
  <2>1. circuit' = [circuit EXCEPT ![p] = Fresh] /\ through' = [through EXCEPT ![p] = 0]
    BY DEF Won
  <2> HIDE DEF p
  <2> QED
    BY <1>1, <2>1, FreshProbed DEF Routed, Probing
<1>2. CASE p \notin Providers
  BY <1>2 DEF Routed, Probing, Won
<1> QED
  BY <1>1, <1>2

LEMMA TryRouted ==
  ASSUME Routed, NEW t \in Turns, Try(t)
  PROVE  Routed'
<1> DEFINE p == Head(todo[t])
<1>1. CASE UNCHANGED routing
  BY <1>1 DEF routing, Routed, Probing
<1>2. CASE /\ CanAcquire(circuit[p])
           /\ circuit' = [circuit EXCEPT ![p] = Acquired(@)]
           /\ through' = [through EXCEPT ![p] = IF circuit[p].state = "halfOpen" THEN @ + 1 ELSE @]
  <2>1. CASE p \in Providers
    <3>1. Acquired(circuit[p]) \in Circuit /\ through'[p] \in 0..1 /\ Probed(circuit'[p], through'[p])
      BY <1>2, <2>1, AcquiredProbed DEF Routed, Probing
    <3> HIDE DEF p
    <3> QED
      BY <1>2, <2>1, <3>1 DEF Routed, Probing
  <2>2. CASE p \notin Providers
    BY <1>2, <2>2 DEF Routed, Probing
  <2> QED
    BY <2>1, <2>2
<1> QED
  BY <1>1, <1>2 DEF Try

LEMMA StepRouted ==
  ASSUME Routed, NEW t \in Turns, TurnStep(t)
  PROVE  Routed'
<1>1. CASE Ask(t)
  BY <1>1, RevivedProbed DEF Ask, Routed, Probing
<1>2. CASE Try(t)
  BY <1>2, TryRouted
<1>3. CASE StreamFails(t)
  BY <1>3, LostRouted DEF StreamFails
<1>4. CASE StreamEnds(t)
  BY <1>4, WonRouted DEF StreamEnds
<1>5. CASE Envelope(t)
  BY <1>5, LostRouted, WonRouted DEF Envelope
<1>6. CASE UNCHANGED <<circuit, through>>
  BY <1>6 DEF Routed, Probing
<1> QED
  BY <1>1, <1>2, <1>3, <1>4, <1>5, <1>6
     DEF TurnStep, Exhausted, Text, HollowText, Fragment, Claim, Call, Enter, ToolSettles, Conclude,
         CommandEnds, Save, Deliver, routing

-----------------------------------------------------------------------------
(***************************************************************************)
(* What the variables are made of *)
(***************************************************************************)
LEMMA StepShaped ==
  ASSUME IInv, NEW t \in Turns, TurnStep(t)
  PROVE  Shaped(t)'
<1> DEFINE OneStream(r) == r = [from |-> r.from, chunks |-> r.chunks, useful |-> r.useful]
           OneHeard(r) == r = [voices |-> r.voices, calls |-> r.calls] /\ r.calls \in Seq(Callable)
<1>0. /\ DOMAIN stream = Turns /\ DOMAIN heard = Turns
      /\ OneStream(stream[t]) /\ OneHeard(heard[t])
      /\ OneStream(Idle) /\ OneHeard(Nothing) /\ \A p : OneStream(Request(p))
  <2>1. /\ DOMAIN stream = Turns /\ DOMAIN heard = Turns
        /\ OneStream(stream[t]) /\ OneHeard(heard[t])
    BY DEF IInv, Typed, Shaped
  <2>2. OneStream(Idle) /\ \A p : OneStream(Request(p))
    BY DEF Idle, Request
  <2>3. OneHeard(Nothing)
    BY EmptySeq DEF Nothing
  <2> QED
    BY <2>1, <2>2, <2>3
<1>a. SUFFICES OneStream(stream'[t]) /\ OneHeard(heard'[t])
  BY DEF Shaped
<1>1. CASE Try(t)
  BY <1>0, <1>1 DEF Try, routing
<1>2. CASE Text(t)
  <2>1. PICK useful \in BOOLEAN, due \in BOOLEAN, ok \in BOOLEAN :
          /\ stream' = [stream EXCEPT ![t].chunks = @ + 1, ![t].useful = @ \/ useful]
          /\ heard' = [heard EXCEPT ![t].voices = IF useful THEN @ \cup {stream[t].from} ELSE @]
    BY <1>2, Zenon DEF Text
  <2>2. OneStream(stream'[t])
    BY <1>0, <2>1
  <2>3. OneHeard(heard'[t])
    BY <1>0, <2>1
  <2> QED
    BY <2>2, <2>3
<1>3. CASE HollowText(t)
  BY <1>0, <1>3 DEF HollowText
<1>4. CASE Fragment(t)
  <2>1. CASE /\ \E n \in Names[t] : heard' = [heard EXCEPT ![t].calls = Append(@, n)]
             /\ stream' = [stream EXCEPT ![t].chunks = @ + 1, ![t].useful = TRUE]
    <3>1. PICK n \in Names[t] : heard' = [heard EXCEPT ![t].calls = Append(@, n)]
      BY <2>1
    <3>2. Append(heard[t].calls, n) \in Seq(Callable)
      <4>1. n \in Callable
        BY <3>1 DEF Callable
      <4> QED
        BY <1>0, <4>1, AppendProperties
    <3>3. OneStream(stream'[t])
      BY <1>0, <2>1
    <3>4. heard'[t] = [heard[t] EXCEPT !.calls = Append(heard[t].calls, n)]
      BY <1>0, <3>1
    <3>5. OneHeard(heard'[t])
      BY <1>0, <3>2, <3>4
    <3> QED
      BY <3>3, <3>5
  <2>2. CASE stream' = [stream EXCEPT ![t].chunks = @ + 1, ![t].useful = TRUE] /\ UNCHANGED heard
    BY <1>0, <2>2
  <2>3. CASE /\ stream' = [stream EXCEPT ![t] = Idle]
             /\ heard' = [heard EXCEPT ![t] = Nothing]
    <3> HIDE DEF OneStream, OneHeard
    <3> QED
      BY <1>0, <2>3
  <2> QED
    BY <1>4, <2>1, <2>2, <2>3 DEF Fragment
<1>5. CASE /\ stream' = [stream EXCEPT ![t] = Idle]
           /\ UNCHANGED heard \/ heard' = [heard EXCEPT ![t] = Nothing]
  <2> HIDE DEF OneStream, OneHeard
  <2> QED
    BY <1>0, <1>5
<1>6. CASE Envelope(t)
  <2>1. /\ stream'[t] = Idle
        /\ heard'[t] = heard[t] \/ heard'[t] = [heard[t] EXCEPT !.voices = {stream[t].from}]
    BY <1>0, <1>6 DEF Envelope
  <2> QED
    BY <1>0, <2>1
<1>7. CASE UNCHANGED stream /\ (UNCHANGED heard \/ heard' = [heard EXCEPT ![t] = Nothing])
  <2> HIDE DEF OneStream, OneHeard
  <2> QED
    BY <1>0, <1>7
<1>8. StreamFails(t) \/ StreamEnds(t) => (stream' = [stream EXCEPT ![t] = Idle] /\ (UNCHANGED heard \/ heard' = [heard EXCEPT ![t] = Nothing]))
  BY DEF StreamFails, StreamEnds
<1>9. Ask(t) \/ Exhausted(t) \/ Claim(t) \/ Call(t) \/ Enter(t) \/ ToolSettles(t) \/ Conclude(t)
      \/ CommandEnds(t) \/ Save(t) \/ Deliver(t) => (UNCHANGED stream /\ (UNCHANGED heard \/ heard' = [heard EXCEPT ![t] = Nothing]))
  BY DEF Ask, Exhausted, Claim, Call, Enter, ToolSettles, Conclude, CommandEnds, Save, Deliver, talking
<1> QED
  BY <1>1, <1>2, <1>3, <1>4, <1>5, <1>6, <1>7, <1>8, <1>9 DEF TurnStep

-----------------------------------------------------------------------------
(***************************************************************************)
(* The queues of mutating tools *)
(***************************************************************************)
(* A turn that neither comes nor goes leaves every queue as it was.        *)
LEMMA SameLines ==
  ASSUME IInv, queue' = queue,
         \A t \in Turns : \/ at'[t] = at[t] /\ calls'[t] = calls[t]
                          \/ at[t] \notin {"queued", "run"} /\ at'[t] \notin {"queued", "run"}
                          \/ at[t] \notin {"queued", "run"} /\ at'[t] = "run" /\ Head(calls'[t]) \notin Mutating
  PROVE  Lines'
BY DEF IInv, Lines, Lined, Waits

LEMMA CallLines ==
  ASSUME IInv, NEW t \in Turns, Call(t)
  PROVE  Lines'
<1>0. PICK n : n = Head(calls[t])
  OBVIOUS
<1>1. /\ at[t] = "call" /\ \A u \in Turns \ {t} : at'[u] = at[u] /\ calls'[u] = calls[u]
  BY DEF IInv, Typed, Shaped, Call, Goto, Answer
<1>2. CASE UNCHANGED <<at, queue>>
  BY <1>1, <1>2, SameLines
<1>3. CASE n \notin Mutating /\ Goto(t, "run") /\ UNCHANGED <<calls, queue>>
  BY <1>0, <1>1, <1>3, SameLines DEF IInv, Typed, Shaped, Goto
<1>4. CASE /\ n \in Mutating
           /\ queue' = [queue EXCEPT ![n] = Append(@, t)]
           /\ Goto(t, "queued")
           /\ UNCHANGED calls
  <2>1. /\ at'[t] = "queued" /\ \A u \in Turns : calls'[u] = calls[u]
        /\ queue'[n] = Append(queue[n], t) /\ \A k \in Mutating \ {n} : queue'[k] = queue[k]
        /\ queue[n] \in Seq(Turns)
    BY <1>4 DEF IInv, Typed, Shaped, Goto
  <2>2. /\ \A u \in Turns \ {t}, k \in Mutating : Waits(u, k)' = Waits(u, k)
        /\ \A k \in Mutating : Waits(t, k)' = (k = n) /\ ~Waits(t, k)
    BY <1>0, <1>1, <2>1 DEF Waits
  <2>3. ASSUME NEW k \in Mutating, k # n
        PROVE  Lined(k)'
    <3>1. Lined(k) /\ queue'[k] = queue[k]
      BY <2>1, <2>3 DEF IInv, Lines
    <3>2. \A u \in Turns : /\ Waits(u, k)' <=> Waits(u, k)
                           /\ Waits(u, k)' /\ at'[u] = "run" => at[u] = "run"
      BY <1>1, <2>2, <2>3
    <3> QED
      BY <3>1, <3>2 DEF Lined
  <2>4. Lined(n)'
    <3> DEFINE q == queue[n]
               l == Len(queue[n])
    <3>1. /\ Len(queue'[n]) = l + 1 /\ queue'[n][l + 1] = t /\ l \in Nat
          /\ \A i \in 1..l : queue'[n][i] = q[i] /\ q[i] # t
      BY <1>4, <2>1, <2>2, AppendProperties, LenProperties DEF IInv, Lines, Lined
    <3>2. Lined(n)
      BY <1>4 DEF IInv, Lines
    <3>3. \A i, j \in 1..(l + 1) : queue'[n][i] = queue'[n][j] => i = j
      BY <3>1, <3>2, SMTT(30) DEF Lined
    <3>4. ASSUME NEW u \in Turns
          PROVE  Waits(u, n)' <=> \E i \in 1..(l + 1) : queue'[n][i] = u
      <4>1. (\E i \in 1..(l + 1) : queue'[n][i] = u) <=> (\E i \in 1..l : q[i] = u) \/ u = t
        <5>1. l + 1 \in 1..(l + 1) /\ \A i \in 1..(l + 1) : i \in 1..l \/ i = l + 1
          BY <3>1
        <5>2. \A i \in 1..l : i \in 1..(l + 1)
          BY <3>1
        <5> HIDE DEF l, q
        <5> QED
          BY <3>1, <5>1, <5>2
      <4>2. u # t => (Waits(u, n)' <=> \E i \in 1..l : q[i] = u)
        BY <1>4, <2>2, <3>2 DEF Lined
      <4>3. u = t => Waits(u, n)'
        BY <1>4, <2>2
      <4> QED
        BY <4>1, <4>2, <4>3, <3>1
    <3>5. ASSUME NEW u \in Turns, Waits(u, n)', at'[u] = "run"
          PROVE  queue'[n][1] = u
      <4>1. u # t /\ Waits(u, n) /\ at[u] = "run"
        BY <1>1, <1>4, <2>1, <2>2, <3>5
      <4>2. q[1] = u /\ 1 \in 1..l
        BY <3>1, <3>2, <4>1 DEF Lined
      <4> QED
        BY <3>1, <4>2
    <3> QED
      BY <3>1, <3>3, <3>4, <3>5 DEF Lined
  <2> QED
    BY <1>4, <2>3, <2>4 DEF Lines
<1> QED
  BY <1>0, <1>2, <1>3, <1>4 DEF Call

LEMMA EnterLines ==
  ASSUME IInv, NEW t \in Turns, Enter(t)
  PROVE  Lines'
<1>1. /\ at[t] = "queued" /\ at'[t] = "run" /\ \A u \in Turns \ {t} : at'[u] = at[u]
      /\ calls' = calls /\ queue' = queue /\ Head(queue[Head(calls[t])]) = t
  BY DEF IInv, Typed, Shaped, Enter, Goto, MyTurn, working, guarding
<1>2. \A u \in Turns, n \in Mutating : Waits(u, n)' = Waits(u, n)
  BY <1>1 DEF Waits
<1>3. ASSUME NEW n \in Mutating, Waits(t, n)
      PROVE  queue[n][1] = t
  <2>1. queue[n] \in Seq(Turns) /\ Head(queue[n]) = t
    BY <1>1, <1>3 DEF IInv, Waits, Typed
  <2> QED
    BY <2>1
<1> QED
  BY <1>1, <1>2, <1>3 DEF IInv, Lines, Lined

(* The run that ends was at the head, so the queue behind it moves up.     *)
LEMMA ToolSettlesLines ==
  ASSUME IInv, NEW t \in Turns, ToolSettles(t)
  PROVE  Lines'
<1>0. PICK n : n = Head(calls[t])
  OBVIOUS
<1>1. /\ at[t] = "run" /\ at'[t] = "call"
      /\ \A u \in Turns \ {t} : at'[u] = at[u] /\ calls'[u] = calls[u]
  BY DEF IInv, Typed, Shaped, ToolSettles, Goto, Answer
<1>2. \A k \in Mutating : queue'[k] = IF k = n THEN Tail(queue[k]) ELSE queue[k]
  BY <1>0 DEF ToolSettles, Released
<1>3. /\ \A u \in Turns \ {t}, k \in Mutating : Waits(u, k)' = Waits(u, k)
      /\ \A k \in Mutating : ~Waits(t, k)' /\ Waits(t, k) = (k = n)
  BY <1>0, <1>1 DEF Waits
<1>4. ASSUME NEW k \in Mutating, k # n
      PROVE  Lined(k)'
  <2>1. Lined(k) /\ queue'[k] = queue[k]
    BY <1>2, <1>4 DEF IInv, Lines
  <2>2. \A u \in Turns : /\ Waits(u, k)' <=> Waits(u, k)
                         /\ Waits(u, k)' /\ at'[u] = "run" => at[u] = "run"
    BY <1>1, <1>3, <1>4
  <2> QED
    BY <2>1, <2>2 DEF Lined
<1>5. ASSUME n \in Mutating
      PROVE  Lined(n)'
  <2> DEFINE q == queue[n]
             l == Len(queue[n])
  <2>1. Lined(n) /\ q \in Seq(Turns) /\ Waits(t, n)
    BY <1>3, <1>5 DEF IInv, Lines, Typed
  <2>2. q[1] = t /\ l \in Nat /\ 1 <= l /\ q # <<>>
    BY <1>1, <2>1, LenProperties DEF Lined
  <2>3. queue'[n] = Tail(q) /\ Len(queue'[n]) = l - 1 /\ \A i \in 1..(l - 1) : queue'[n][i] = q[i + 1]
    <3>1. queue'[n] = Tail(q)
      BY <1>2, <1>5
    <3>2. Len(Tail(q)) = l - 1 /\ \A i \in 1..Len(Tail(q)) : Tail(q)[i] = q[i + 1]
      BY <2>1, <2>2, HeadTailProperties
    <3> QED
      BY <3>1, <3>2
  <2> HIDE DEF q, l
  <2>4. \A i, j \in 1..(l - 1) : queue'[n][i] = queue'[n][j] => i = j
    BY <2>1, <2>2, <2>3 DEF Lined, q, l
  <2>5. ASSUME NEW u \in Turns
        PROVE  Waits(u, n)' <=> \E i \in 1..(l - 1) : queue'[n][i] = u
    <3>1. CASE u = t
      <4>1. ASSUME NEW i \in 1..(l - 1) PROVE queue'[n][i] # t
        BY <2>1, <2>2, <2>3 DEF Lined, q, l
      <4> QED
        BY <1>3, <1>5, <3>1, <4>1
    <3>2. CASE u # t
      <4>1. Waits(u, n)' <=> \E i \in 1..l : q[i] = u
        BY <1>3, <1>5, <2>1, <3>2 DEF Lined, q, l
      <4>2. ASSUME NEW i \in 1..l, q[i] = u
            PROVE  i - 1 \in 1..(l - 1) /\ queue'[n][i - 1] = u
        BY <2>2, <2>3, <3>2, <4>2
      <4>3. ASSUME NEW i \in 1..(l - 1), queue'[n][i] = u
            PROVE  i + 1 \in 1..l /\ q[i + 1] = u
        BY <2>2, <2>3, <4>3
      <4> QED
        BY <4>1, <4>2, <4>3
    <3> QED
      BY <3>1, <3>2
  <2>6. ASSUME NEW u \in Turns, Waits(u, n)', at'[u] = "run"
        PROVE  queue'[n][1] = u
    <3>1. u # t /\ Waits(u, n) /\ at[u] = "run"
      BY <1>1, <1>3, <1>5, <2>6
    <3> QED
      BY <2>1, <2>2, <3>1 DEF Lined, q
  <2> QED
    BY <2>3, <2>4, <2>5, <2>6 DEF Lined
<1> QED
  BY <1>4, <1>5 DEF Lines

LEMMA StepLines ==
  ASSUME IInv, NEW t \in Turns, TurnStep(t)
  PROVE  Lines'
<1>1. CASE Call(t)
  BY <1>1, CallLines
<1>2. CASE Enter(t)
  BY <1>2, EnterLines
<1>3. CASE ToolSettles(t)
  BY <1>3, ToolSettlesLines
<1>4. CASE ~Call(t) /\ ~Enter(t) /\ ~ToolSettles(t)
  <2>1. /\ queue' = queue
        /\ at[t] \notin {"queued", "run"} /\ at'[t] \notin {"queued", "run"}
    BY <1>4, SMTT(30) DEF IInv, Typed, Shaped, TurnStep, Goto, GiveUp, Ask, Exhausted, Try, Text, HollowText, Fragment, StreamFails, StreamEnds, Envelope, Claim, Conclude, CommandEnds, Save, Deliver, Event, Complete, routing, talking, working, guarding, ending
  <2> QED
    BY <2>1, OthersKept, SameLines DEF SameTurn, SameWork
<1> QED
  BY <1>1, <1>2, <1>3, <1>4

LEMMA StepPlaces ==
  ASSUME IInv, NEW t \in Turns, TurnStep(t)
  PROVE  /\ at' \in [Turns -> Places] /\ DOMAIN todo' = Turns
         /\ final' \in [Turns -> {"none", "answer", "error"}]
         /\ reply' \in [Turns -> {"none", "shown", "sent", "owed"}]
<1>1. /\ at \in [Turns -> Places] /\ DOMAIN todo = Turns
      /\ final \in [Turns -> {"none", "answer", "error"}]
      /\ reply \in [Turns -> {"none", "shown", "sent", "owed"}]
  BY DEF IInv, Typed
<1>2. \/ at' = at
      \/ \E s \in Places : at' = [at EXCEPT ![t] = s]
  BY DEF TurnStep, Goto, GiveUp, Ask, Exhausted, Try, Text, HollowText, Fragment, StreamFails, StreamEnds, Envelope,
         Claim, Call, Enter, ToolSettles, Conclude, CommandEnds, Save, Deliver, Places
<1>3. DOMAIN todo' = DOMAIN todo
  BY DEF TurnStep, Ask, Exhausted, Try, Text, HollowText, Fragment, StreamFails, StreamEnds, Envelope,
         Claim, Call, Enter, ToolSettles, Conclude, CommandEnds, Save, Deliver, talking
<1>4. \/ final' = final
      \/ final' = [final EXCEPT ![t] = "answer"] \/ final' = [final EXCEPT ![t] = "error"]
  <2>1. CASE Text(t) \/ HollowText(t) \/ Claim(t) \/ Call(t) \/ Enter(t) \/ ToolSettles(t) \/ Conclude(t)
    BY <2>1 DEF Text, HollowText, Claim, Call, Enter, ToolSettles, Conclude, ending
  <2>2. CASE Ask(t) \/ Exhausted(t) \/ Try(t) \/ Fragment(t) \/ StreamFails(t)
    BY <2>2 DEF Ask, Exhausted, Try, Fragment, StreamFails, GiveUp
  <2>3. CASE StreamEnds(t) \/ Envelope(t) \/ CommandEnds(t) \/ Save(t) \/ Deliver(t)
    BY <2>3 DEF StreamEnds, Envelope, CommandEnds, Save, Deliver, GiveUp
  <2> QED
    BY <2>1, <2>2, <2>3 DEF TurnStep
<1>5. \/ reply' = reply
      \/ \E r \in {"shown", "sent", "owed"} : reply' = [reply EXCEPT ![t] = r]
  <2>1. CASE Text(t) \/ HollowText(t) \/ Claim(t) \/ Call(t) \/ Enter(t) \/ ToolSettles(t) \/ Conclude(t)
    BY <2>1 DEF Text, HollowText, Claim, Call, Enter, ToolSettles, Conclude, ending
  <2>2. CASE Ask(t) \/ Exhausted(t) \/ Try(t) \/ Fragment(t) \/ StreamFails(t)
    BY <2>2 DEF Ask, Exhausted, Try, Fragment, StreamFails
  <2>3. CASE StreamEnds(t) \/ Envelope(t) \/ CommandEnds(t) \/ Save(t)
    BY <2>3 DEF StreamEnds, Envelope, CommandEnds, Save
  <2>4. CASE Deliver(t)
    BY <2>4 DEF Deliver
  <2> QED
    BY <2>1, <2>2, <2>3, <2>4 DEF TurnStep
<1> QED
  BY <1>1, <1>2, <1>3, <1>4, <1>5

LEMMA StepTalk ==
  ASSUME IInv, NEW t \in Turns, TurnStep(t)
  PROVE  /\ DOMAIN stream' = Turns /\ DOMAIN heard' = Turns
         /\ live' \in [Turns -> Live]
<1>1. DOMAIN stream = Turns /\ DOMAIN heard = Turns /\ live \in [Turns -> Live]
  BY DEF IInv, Typed
<1>2. DOMAIN stream' = DOMAIN stream
  <2>1. CASE Text(t) \/ HollowText(t) \/ Fragment(t)
    BY <2>1 DEF Text, HollowText, Fragment
  <2>2. CASE StreamFails(t) \/ StreamEnds(t) \/ Envelope(t) \/ Try(t)
    BY <2>2 DEF StreamFails, StreamEnds, Envelope, Try
  <2>3. CASE Ask(t) \/ Exhausted(t) \/ Save(t) \/ Deliver(t)
    BY <2>3 DEF Ask, Exhausted, Save, Deliver, talking
  <2>4. CASE Claim(t) \/ Call(t) \/ Enter(t) \/ ToolSettles(t) \/ Conclude(t) \/ CommandEnds(t)
    BY <2>4 DEF Claim, Call, Enter, ToolSettles, Conclude, CommandEnds, talking
  <2> QED
    BY <2>1, <2>2, <2>3, <2>4 DEF TurnStep
<1>3. DOMAIN heard' = DOMAIN heard
  BY DEF TurnStep, Ask, Exhausted, Try, Text, HollowText, Fragment, StreamFails, StreamEnds, Envelope,
         Claim, Call, Enter, ToolSettles, Conclude, CommandEnds, Save, Deliver, talking
<1>4. live' \in [Turns -> Live]
  <2>1. ASSUME NEW l \in Live, NEW ok \in BOOLEAN
        PROVE  Displayed(l, ok) \in Live /\ Finished(l, ok) \in Live /\ Degraded(l) \in Live /\ Past(l) \in Live
    BY DEF Displayed, Finished, Degraded, Past, Unsent, Live
  <2>2. CASE Text(t)
    <3>1. PICK due \in BOOLEAN, ok \in BOOLEAN : live' = [live EXCEPT ![t] = IF due THEN Displayed(@, ok) ELSE @]
      BY <2>2, Zenon DEF Text
    <3> QED
      BY <1>1, <2>1, <3>1
  <2>3. CASE StreamEnds(t)
    <3>1. \/ live' = [live EXCEPT ![t] = Past(Degraded(@))]
          \/ \E ok \in BOOLEAN : live' = [live EXCEPT ![t] = Degraded(Finished(@, ok))]
          \/ live' = [live EXCEPT ![t] = Degraded(@)]
      BY <2>3, Zenon DEF StreamEnds
    <3>2. CASE live' = [live EXCEPT ![t] = Past(Degraded(@))]
      BY <1>1, <2>1, <3>2
    <3>3. ASSUME NEW ok \in BOOLEAN, live' = [live EXCEPT ![t] = Degraded(Finished(@, ok))]
          PROVE  live' \in [Turns -> Live]
      BY <1>1, <2>1, <3>3
    <3>4. CASE live' = [live EXCEPT ![t] = Degraded(@)]
      BY <1>1, <2>1, <3>4
    <3> QED
      BY <3>1, <3>2, <3>3, <3>4
  <2>4. CASE Save(t)
    BY <1>1, <2>4 DEF Save, Live
  <2>5. CASE ~Text(t) /\ ~StreamEnds(t) /\ ~Save(t)
    BY <1>1, <2>5 DEF TurnStep, Ask, Exhausted, Try, HollowText, Fragment, StreamFails, Envelope,
       Claim, Call, Enter, ToolSettles, Conclude, CommandEnds, Deliver, talking
  <2> QED
    BY <2>2, <2>3, <2>4, <2>5
<1> QED
  BY <1>1, <1>2, <1>3, <1>4

LEMMA StepHistory ==
  ASSUME IInv, NEW t \in Turns, TurnStep(t)
  PROVE  history' \in [Turns -> Seq(Message)]
<1> DEFINE To(h) == history' = [history EXCEPT ![t] = h]
<1>1. history \in [Turns -> Seq(Message)] /\ calls[t] \in Seq(Callable) /\ heard[t].calls \in Seq(Callable)
      /\ answers[t] \in Nat
  BY DEF IInv, Typed, Shaped
<1>2. \A k \in Nat : Append(history[t], AssistantMessage(k)) \in Seq(Message) /\ history[t] \o Results(k) \in Seq(Message)
  BY <1>1, AppendProperties, ConcatProperties, ResultsAreMessages DEF AssistantMessage, Message
<1>3. CASE StreamEnds(t)
  <2>1. history' = history \/ To(Append(history[t], AssistantMessage(Len(heard[t].calls))))
    BY <1>3 DEF StreamEnds
  <2>2. Len(heard[t].calls) \in Nat
    BY <1>1, LenProperties
  <2> QED
    BY <1>1, <1>2, <2>1, <2>2
<1>4. CASE Envelope(t)
  <2>1. history' = history \/ To(Append(history[t], AssistantMessage(0))) \/ To(Append(history[t], AssistantMessage(1)))
    BY <1>4 DEF Envelope
  <2> QED
    BY <1>1, <1>2, <2>1
<1>5. CASE Claim(t)
  <2>1. history' = history \/ To(history[t] \o Results(Len(calls[t])))
    BY <1>5 DEF Claim, Refusals
  <2>2. Len(calls[t]) \in Nat
    BY <1>1, LenProperties
  <2> QED
    BY <1>1, <1>2, <2>1, <2>2
<1>6. CASE Conclude(t)
  BY <1>1, <1>2, <1>6 DEF Conclude
<1>7. CASE Deliver(t)
  BY <1>1, <1>7, EmptySeq DEF Deliver
<1>8. CASE UNCHANGED history
  BY <1>1, <1>8
<1> QED
  BY <1>3, <1>4, <1>5, <1>6, <1>7, <1>8
     DEF TurnStep, Ask, Exhausted, Try, Text, HollowText, Fragment, StreamFails, Call, Enter, ToolSettles, CommandEnds, Save

LEMMA StepCalls ==
  ASSUME IInv, NEW t \in Turns, TurnStep(t)
  PROVE  calls' \in [Turns -> Seq(Callable)] /\ answers' \in [Turns -> Nat] /\ granted' \in [Turns -> SUBSET Known]
<1>1. /\ calls \in [Turns -> Seq(Callable)] /\ answers \in [Turns -> Nat] /\ granted \in [Turns -> SUBSET Known]
      /\ heard[t].calls \in Seq(Callable)
  BY DEF IInv, Typed, Shaped
<1>2. CASE StreamEnds(t)
  BY <1>1, <1>2 DEF StreamEnds
<1>3. CASE Envelope(t)
  <2>1. \A n \in Names[t] : <<n>> \in Seq(Callable)
    BY DEF Callable
  <2> QED
    BY <1>1, <1>3, <2>1 DEF Envelope
<1>4. CASE Claim(t)
  BY <1>1, <1>4, EmptySeq DEF Claim
<1>5. ASSUME Answer(t), calls[t] # <<>>
      PROVE  calls' \in [Turns -> Seq(Callable)] /\ answers' \in [Turns -> Nat]
  BY <1>1, <1>5, HeadTailProperties DEF Answer
<1>6. CASE Call(t)
  BY <1>1, <1>5, <1>6 DEF Call, working
<1>7. CASE ToolSettles(t)
  <2>1. calls[t] # <<>> /\ Answer(t) /\ Discovered(t) \subseteq Known
    BY <1>7, TurnAssumption DEF ToolSettles, IInv, Own, Permits, Discovered
  <2>2. granted' \in [Turns -> SUBSET Known]
    BY <1>1, <1>7, <2>1 DEF ToolSettles
  <2> QED
    BY <1>5, <2>1, <2>2
<1>8. CASE Conclude(t) \/ CommandEnds(t)
  <2>1. calls' = calls /\ granted' = granted /\ answers' = [answers EXCEPT ![t] = 0]
    BY <1>8 DEF Conclude, CommandEnds
  <2> QED
    BY <1>1, <2>1
<1>9. CASE Deliver(t)
  BY <1>1, <1>9 DEF Deliver
<1>10. CASE UNCHANGED <<calls, answers, granted>>
  BY <1>1, <1>10
<1> QED
  BY <1>2, <1>3, <1>4, <1>6, <1>7, <1>8, <1>9, <1>10
     DEF TurnStep, Ask, Exhausted, Try, Text, HollowText, Fragment, StreamFails, Enter, Save, working

LEMMA StepQueue ==
  ASSUME IInv, NEW t \in Turns, TurnStep(t)
  PROVE  queue' \in [Mutating -> Seq(Turns)]
<1>1. queue \in [Mutating -> Seq(Turns)]
  BY DEF IInv, Typed
<1>2. CASE Call(t)
  <2>1. queue' = queue \/ \E n \in Mutating : queue' = [queue EXCEPT ![n] = Append(@, t)]
    BY <1>2 DEF Call
  <2> QED
    BY <1>1, <2>1, AppendProperties, SMTT(30)
<1>3. CASE ToolSettles(t)
  <2>1. queue' = [n \in Mutating |-> IF n = Head(calls[t]) THEN Tail(queue[n]) ELSE queue[n]]
    BY <1>3 DEF ToolSettles, Released
  <2>2. ASSUME NEW n \in Mutating, n = Head(calls[t])
        PROVE  Tail(queue[n]) \in Seq(Turns)
    <3>1. \E i \in 1..Len(queue[n]) : queue[n][i] = t
      BY <1>3, <2>2 DEF IInv, Lines, Lined, Waits, ToolSettles
    <3>2. queue[n] # <<>>
      BY <3>1, EmptySeq
    <3> QED
      BY <1>1, <3>2, HeadTailProperties
  <2> QED
    BY <1>1, <2>1, <2>2
<1>4. CASE UNCHANGED queue
  BY <1>1, <1>4
<1> QED
  BY <1>2, <1>3, <1>4
     DEF TurnStep, Ask, Exhausted, Try, Text, HollowText, Fragment, StreamFails, StreamEnds, Envelope,
         Claim, Enter, Conclude, CommandEnds, Save, Deliver, guarding

LEMMA StepIInv ==
  ASSUME IInv, NEW t \in Turns, TurnStep(t)
  PROVE  IInv'
<1>1. Routed'
  BY StepRouted DEF IInv, Typed, Routed
<1>2. Typed'
  BY <1>1, StepPlaces, StepTalk, StepHistory, StepCalls, StepQueue DEF Typed, Routed
<1>3. \A u \in Turns : Shaped(u)'
  <2> SUFFICES ASSUME NEW u \in Turns PROVE Shaped(u)'
    OBVIOUS
  <2>1. CASE u = t
    BY <2>1, StepShaped
  <2>2. CASE u # t
    BY <2>2, OthersKept DEF IInv, Shaped, SameTurn, SameTalk
  <2> QED
    BY <2>1, <2>2
<1>4. \A u \in Turns : Own(u)'
  BY StepOwn
<1> QED
  BY <1>1, <1>2, <1>3, <1>4, StepLines DEF IInv, Routed

-----------------------------------------------------------------------------
(***************************************************************************)
(* The theorems *)
(***************************************************************************)
LEMMA InitIInv == Init => IInv
<1> SUFFICES ASSUME Init PROVE IInv
  OBVIOUS
<1>1. PICK scene \in Scenes :
        /\ at = [t \in Turns |-> IF t \notin scene.turns THEN "done" ELSE IF t \in Commands THEN "call" ELSE "ask"]
        /\ circuit = [p \in Providers |-> IF p \in scene.failing THEN Opened ELSE Fresh]
  BY DEF Init
<1>2. Opened \in Circuit /\ Probed(Opened, 0) /\ Fresh \in Circuit /\ Probed(Fresh, 0)
  <2>1. Threshold \in Nat \ {0}
    BY ModelRouterAssumption
  <2> QED
    BY <2>1, FreshProbed DEF Opened, Circuit, Probed
<1>3. circuit \in [Providers -> Circuit] /\ through \in [Providers -> 0..1] /\ Probing
  BY <1>1, <1>2 DEF Init, Probing
<1>4. \A t \in Turns : at[t] \in {"ask", "call", "done"} /\ (at[t] = "call" <=> t \in scene.turns \cap Commands)
                       /\ (at[t] = "ask" => t \notin Commands)
  BY <1>1
<1>5. calls \in [Turns -> Seq(Callable)]
  <2>1. \A t \in Commands : <<CommandOf[t]>> \in Seq(Callable)
    <3>1. \A t \in Commands : CommandOf[t] \in Callable
      BY DEF Callable
    <3> HIDE DEF Callable
    <3> QED
      BY <3>1
  <2> QED
    BY <2>1, EmptySeq DEF Init
<1>6. <<UserMessage>> \in Seq(Message) /\ Paired(<<UserMessage>>)
  <2>1. UserMessage \in Message /\ UserMessage.role = "user"
    BY DEF UserMessage, Message
  <2>2. DOMAIN <<UserMessage>> = {1} /\ <<UserMessage>>[1] = UserMessage
    OBVIOUS
  <2> HIDE DEF UserMessage
  <2> QED
    BY <2>1, <2>2 DEF Paired
<1>7. Typed
  <2>1. at \in [Turns -> Places]
    BY <1>1 DEF Places
  <2>2. live \in [Turns -> Live]
    BY DEF Init, Unsent, Live
  <2>3. queue \in [Mutating -> Seq(Turns)]
    BY EmptySeq DEF Init
  <2>4. DOMAIN todo = Turns /\ DOMAIN stream = Turns /\ DOMAIN heard = Turns
    BY DEF Init
  <2>5. /\ history \in [Turns -> Seq(Message)] /\ answers \in [Turns -> Nat] /\ granted \in [Turns -> SUBSET Known]
        /\ final \in [Turns -> {"none", "answer", "error"}]
        /\ reply \in [Turns -> {"none", "shown", "sent", "owed"}]
    BY <1>6 DEF Init
  <2> QED
    BY <1>3, <1>5, <2>1, <2>2, <2>3, <2>4, <2>5 DEF Typed
<1>8. Lines
  <2>1. \A n \in Mutating : Len(queue[n]) = 0
    BY EmptySeq DEF Init
  <2> QED
    BY <1>4, <2>1 DEF Lines, Lined, Waits
<1>9. ASSUME NEW t \in Turns
      PROVE  Shaped(t) /\ Own(t)
  <2>1. /\ stream[t] = Idle /\ heard[t] = Nothing /\ live[t] = Unsent /\ history[t] = <<UserMessage>> /\ answers[t] = 0
        /\ granted[t] = {} /\ reply[t] = "none"
    BY DEF Init
  <2>2. Shaped(t)
    BY <2>1, EmptySeq DEF Shaped, Idle, Request, Nothing
  <2>3. Kind(t) /\ Hears(t) /\ Displays(t) /\ Permits(t)
    BY <1>4, <2>1 DEF Kind, Hears, Displays, Permits, Unsent, Nothing
  <2>4. Exchanges(t)
    BY <1>4, <1>6, <2>1 DEF Exchanges
  <2> QED
    BY <2>2, <2>3, <2>4 DEF Own
<1> QED
  BY <1>3, <1>7, <1>8, <1>9 DEF IInv

LEMMA NextIInv == IInv /\ [Next]_vars => IInv'
<1> SUFFICES ASSUME IInv, [Next]_vars PROVE IInv'
  OBVIOUS
<1>1. ASSUME NEW t \in Turns, TurnStep(t) PROVE IInv'
  BY <1>1, StepIInv
<1>2. ASSUME UNCHANGED <<at, history, through, todo, stream, heard, live, calls, answers, granted, queue, final, reply>>,
             circuit' \in [Providers -> Circuit],
             \A p \in Providers : Probed(circuit'[p], through[p])
      PROVE  IInv'
  <2>1. \A t \in Turns : Shaped(t)' /\ Own(t)'
    <3> SUFFICES ASSUME NEW t \in Turns PROVE Shaped(t)' /\ Own(t)'
      OBVIOUS
    <3>1. SameTurn(t)
      BY <1>2 DEF SameTurn, SameTalk, SameWork, SameEnd
    <3> QED
      BY <3>1, SameOwn DEF IInv, Shaped, SameTurn, SameTalk
  <2>2. Lines'
    BY <1>2, SameLines
  <2>3. Typed' /\ Probing'
    BY <1>2 DEF IInv, Typed, Probing
  <2> QED
    BY <2>1, <2>2, <2>3 DEF IInv
<1>3. circuit \in [Providers -> Circuit] /\ \A p \in Providers : Probed(circuit[p], through[p])
  BY DEF IInv, Typed, Probing
<1>4. ASSUME NEW p \in Providers, CoolDown(p) PROVE IInv'
  <2>1. /\ [circuit[p] EXCEPT !.cooling = FALSE] \in Circuit
        /\ Probed([circuit[p] EXCEPT !.cooling = FALSE], through[p])
    BY <1>3 DEF Circuit, Probed
  <2>2. circuit' \in [Providers -> Circuit] /\ \A r \in Providers : Probed(circuit'[r], through[r])
    BY <1>3, <1>4, <2>1 DEF CoolDown
  <2> QED
    BY <1>2, <1>4, <2>2 DEF CoolDown, talking, working, guarding, ending
<1>5. ASSUME NEW n \in Mutating, Minute(n) PROVE IInv'
  BY <1>2, <1>3, <1>5 DEF Minute, routing, talking, working, ending
<1>6. CASE UNCHANGED vars
  BY <1>2, <1>3, <1>6 DEF vars, routing, talking, working, guarding, ending
<1> QED
  BY <1>1, <1>4, <1>5, <1>6 DEF Next

(* What the theorems below rest on holds of every reachable state.         *)
THEOREM Invariance == Spec => []IInv
<1> QED
  BY InitIInv, NextIInv, PTL DEF Spec

(* However many turns ask at once, and whichever of them fail late, a      *)
(* half-open circuit lets one request through (acquireProvider,            *)
(* markProviderFailure of ModelRouter.ts).                                 *)
THEOREM ProbesAreSingle == Spec => []OneProbe
<1>1. ASSUME IInv, NEW p \in Providers
      PROVE  through[p] <= 1
  <2>1. through[p] \in 0..1
    BY <1>1 DEF IInv, Typed
  <2> QED
    BY <2>1
<1>2. IInv => OneProbe
  BY <1>1 DEF OneProbe
<1> QED
  BY <1>2, Invariance, PTL

(* However many turns of a sender call the same mutating tool, one runs it *)
(* at a time, whether runs end, fail or time out (runMutatingTool of       *)
(* registry.ts).                                                           *)
THEOREM MutationsOneByOne == Spec => []MutationsSerialized
<1>1. ASSUME IInv, NEW t \in Turns, NEW u \in Turns, at[t] = "run", at[u] = "run",
             Head(calls[t]) = Head(calls[u]), Head(calls[t]) \in Mutating
      PROVE  t = u
  <2> DEFINE n == Head(calls[t])
  <2>1. Lined(n) /\ Waits(t, n) /\ Waits(u, n)
    BY <1>1 DEF IInv, Lines, Waits
  <2> QED
    BY <1>1, <2>1 DEF Lined
<1>2. IInv => MutationsSerialized
  BY <1>1 DEF MutationsSerialized
<1> QED
  BY <1>2, Invariance, PTL

(* What a turn shows, sends or runs is one provider's whole answer, to a   *)
(* history whose calls are all answered, and within the sender's           *)
(* permissions, for any mix of streams, failures, fragments, budgets and   *)
(* tools (agent/index.ts:1112-1195 and 1284).                              *)
THEOREM AnswersAreWhole == Spec => []AnswersWhole
<1>1. IInv => AnswerShown
  BY DEF IInv, Own, Displays, AnswerShown
<1>2. ASSUME IInv, NEW t \in Turns
      PROVE  /\ Cardinality(heard[t].voices) <= 1
             /\ at[t] = "listen" => heard[t].voices \subseteq {stream[t].from}
             /\ at[t] = "listen" /\ heard[t].calls # <<>> => stream[t].useful
             /\ at[t] = "run" => Head(calls[t]) \in Allowed[t]
             /\ at[t] \in {"listen", "await"} => Paired(Adapted(history[t], stream[t].from))
  <2>1. Own(t) /\ Shaped(t) /\ history[t] \in Seq(Message)
    BY <1>2 DEF IInv, Typed
  <2>2. Cardinality(heard[t].voices) <= 1
    <3>1. \A x, y \in heard[t].voices : x = y
      BY <2>1 DEF Own, Hears
    <3>2. CASE heard[t].voices = {}
      BY <3>2, FS_EmptySet
    <3>3. CASE heard[t].voices # {}
      <4>1. PICK p : p \in heard[t].voices
        BY <3>3
      <4>2. heard[t].voices = {p}
        BY <3>1, <4>1
      <4> QED
        BY <4>2, FS_Singleton
    <3> QED
      BY <3>2, <3>3
  <2>3. at[t] = "listen" => heard[t].voices \subseteq {stream[t].from}
    BY <2>1 DEF Own, Hears
  <2>4. at[t] = "listen" /\ heard[t].calls # <<>> => stream[t].useful
    BY <2>1 DEF Own, Hears, Nothing
  <2>5. at[t] = "run" => Head(calls[t]) \in Allowed[t]
    BY <2>1 DEF Own, Permits
  <2>6. at[t] \in {"listen", "await"} => Paired(Adapted(history[t], stream[t].from))
    BY <2>1, AdaptedIsPaired DEF Own, Exchanges
  <2> QED
    BY <2>2, <2>3, <2>4, <2>5, <2>6
<1>3. IInv => WholeExchange
  BY <1>2 DEF WholeExchange
<1> QED
  BY <1>1, <1>3, Invariance, PTL DEF AnswersWhole
=============================================================================
