------------------------------ MODULE Summaries ------------------------------
(***************************************************************************)
(* The rolling summary of a room: src/src/agent/index.ts from the fetch of *)
(* the history to the model's context, and                                 *)
(* src/src/utils/ConversationSummarizer.ts.  A room's messages are ordered *)
(* by the time they were sent; their ids by when they were stored, which   *)
(* differs for those that a history brings.                                *)
(*                                                                         *)
(* Turns of one room overlap: a scheduled task is run beside the queue     *)
(* (AppRuntime.ts:660-680).                                                *)
(***************************************************************************)
EXTENDS Stage, SequencesExt

CONSTANTS
  Askers,     \* the turns of a room that may overlap
  Keep,       \* messages the model is given as they are
  Lookahead,  \* further ones that are fetched to be summarised
  MinBatch    \* fewer than these are not worth a summary

ASSUME SummariesAssumption == Keep \in Nat /\ Lookahead \in Nat /\ MinBatch \in Nat

VARIABLES
  messages,   \* ids in the order they were sent
  nextId,
  summary,    \* the stored one: [through, covers]; covers: what it was made of
  asker       \* [Askers -> [at, window, previous, batch, active]]

summaryVars == <<messages, nextId, summary, asker>>

NoSummary == [through |-> 0, covers |-> <<>>]
Rest == [at |-> "off", window |-> <<>>, previous |-> NoSummary, batch |-> <<>>, active |-> <<>>]

SummariesInit == messages = <<>> /\ nextId = 1 /\ summary = NoSummary /\ asker = [t \in Askers |-> Rest]
-----------------------------------------------------------------------------
(* A message is stored, its turn asks the model or not. *)
Said(t, asks) ==
  /\ asker[t].at = "off" /\ Spend(IF asks THEN "ask" ELSE "chat")
  /\ messages' = Append(messages, nextId) /\ nextId' = nextId + 1
  /\ asker' = IF asks THEN [asker EXCEPT ![t] = [Rest EXCEPT !.at = "said"]] ELSE asker
  /\ UNCHANGED summary

(* A history brings a message that was sent earlier. *)
Late ==
  /\ Spend("late") /\ messages # <<>>
  /\ \E k \in 1 .. Len(messages) : messages' = InsertAt(messages, k, nextId)
  /\ nextId' = nextId + 1 /\ UNCHANGED <<summary, asker>>

(* The retention removes the oldest. *)
Retain ==
  /\ Spend("retain") /\ \E k \in 1 .. Len(messages) : messages' = SubSeq(messages, k + 1, Len(messages))
  /\ UNCHANGED <<nextId, summary, asker>>

Fetch(t) ==
  /\ asker[t].at = "said" /\ UNCHANGED <<messages, nextId, summary, stage>>
  /\ asker' = [asker EXCEPT ![t].at = "fetched", ![t].window = Newest(messages, Keep + Lookahead)]

(* Of a window, what has a higher id. *)
StoredAfter(window, id) ==
  LET kept[k \in 0 .. Len(window)] == IF k = 0 THEN <<>> ELSE IF window[k] > id THEN Append(kept[k - 1], window[k]) ELSE kept[k - 1]
  IN  kept[Len(window)]

(* Mutant of After: the last summarised message is taken again.            *)
AfterInclusive(window, previous) ==
  IF previous = NoSummary THEN window
  ELSE IF Contains(window, previous.through)
       THEN SubSeq(window, CHOOSE k \in 1 .. Len(window) : window[k] = previous.through, Len(window))
       ELSE StoredAfter(window, previous.through)

(* What follows the watermark: by its place, or by its id if it is not     *)
(* there any more.                                                         *)
After(window, previous) ==
  IF previous = NoSummary THEN window
  ELSE IF Contains(window, previous.through)
       THEN SubSeq(window, 1 + CHOOSE k \in 1 .. Len(window) : window[k] = previous.through, Len(window))
       ELSE StoredAfter(window, previous.through)

Overflow(entries) == SubSeq(entries, 1, Len(entries) - Keep)

(* The summary is loaded; what is too much for the window is summarised,   *)
(* once there is enough of it.                                             *)
Load(t) ==
  LET entries == After(asker[t].window, summary)
      batch == IF Len(Overflow(entries)) < MinBatch THEN <<>> ELSE Overflow(entries)
  IN /\ asker[t].at = "fetched"
     /\ UNCHANGED <<messages, nextId, summary, stage>>
     /\ asker' = [asker EXCEPT ![t] = [at |-> IF batch = <<>> THEN "asked" ELSE "summarising", window |-> <<>>,
                                       previous |-> summary, batch |-> batch, active |-> Newest(entries, Keep)]]

(* The model summarises, and the result is stored: whoever stores last     *)
(* wins.  If it fails, the one before stays.                               *)
Generated(t) == [through |-> Last(asker[t].batch), covers |-> asker[t].previous.covers \o asker[t].batch]

Summarise(t) ==
  /\ asker[t].at = "summarising" /\ UNCHANGED <<messages, nextId, stage>>
  /\ summary' = Generated(t)
  /\ asker' = [asker EXCEPT ![t].at = "asked", ![t].previous = Generated(t), ![t].batch = <<>>]

SummariseFails(t) ==
  /\ asker[t].at = "summarising" /\ Spend("fail") /\ UNCHANGED <<messages, nextId, summary>>
  /\ asker' = [asker EXCEPT ![t].at = "asked", ![t].batch = <<>>]

(* What the model is given: the summary, then the messages it does not     *)
(* cover.                                                                  *)
Prompt(t) == asker[t].previous.covers \o asker[t].active

(* The model answers, and the answer is stored. *)
Answer(t) ==
  /\ asker[t].at = "asked" /\ UNCHANGED <<summary, stage>>
  /\ messages' = Append(messages, nextId) /\ nextId' = nextId + 1 /\ asker' = [asker EXCEPT ![t] = Rest]

SummariesNext ==
  \/ Late \/ Retain
  \/ \E t \in Askers :
       \/ \E asks \in BOOLEAN : Said(t, asks)
       \/ Fetch(t) \/ Load(t) \/ Summarise(t) \/ SummariseFails(t) \/ Answer(t)
-----------------------------------------------------------------------------
(* However the turns of a room overlap, whichever summary is stored last   *)
(* and whichever fails: no message went into a summary twice, and none is  *)
(* given to the model both as it is and in the summary                     *)
(* (ConversationSummarizer.ts:95-111 and 121-195).                         *)
SummarisedOnce ==
  /\ IsInjective(summary.covers)
  /\ \A t \in Askers : asker[t].at = "asked" => IsInjective(Prompt(t))
=============================================================================
