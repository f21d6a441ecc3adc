------------------------------- MODULE Outbox -------------------------------
(***************************************************************************)
(* Durable delivery of outgoing text: src/messaging/OutboxService.ts, the  *)
(* worker of src/runtime/AppRuntime.ts that delivers its rows, and the     *)
(* agent's fast path (src/agent/index.ts), which enqueues a row and then   *)
(* sends the same text itself.                                             *)
(*                                                                         *)
(* Actors: callers that enqueue; the one-second worker; the providers,     *)
(* which may show a message long before or after the send settles; the     *)
(* hourly prune; crashes and restarts of the process, which lose every     *)
(* pending send but no row.  Each SQL statement or transaction is atomic.  *)
(*                                                                         *)
(* Time is kept as what is left of each delay: available_at <= now is      *)
(* wait = 0, lease_expires_at <= now is lease = 0, and the age of a row is *)
(* the time since updated_at.  A row is the partial function rows at the   *)
(* idempotency key under which it was inserted; its msg, the message whose *)
(* caller inserted it, stands for its id as well.                          *)
(*                                                                         *)
(* Nothing makes keys unique: a reply's key is its message id and source,  *)
(* without the chat (agent/index.ts:169-174), and ids are per chat         *)
(* (telegram.ts:523).  A message whose key has a row gets none of its own: *)
(* its caller reports to the row it found.                                 *)
(***************************************************************************)
EXTENDS Integers, FiniteSets

CONSTANTS
  Messages,     \* texts that callers ask to have delivered
  Keys,         \* idempotency keys
  KeyOf,        \* the key a caller derives for its message, maybe another's too
  Platforms,
  PlatformOf,
  Direct,       \* replies that may take the agent's fast path
  Streamed,     \* replies that may be recorded once their streamed copy is complete
  Blank,        \* messages whose stored payload holds no text
  Cancellable,  \* TRUE: a timed-out send is off the wire
  Batch,        \* rows one claim may lease
  Grace,        \* DIRECT_SEND_GRACE_MS
  SendTimeout,  \* the bound on one send
  Lease,        \* LEASE_MS
  Backoff,      \* delay before a failed row is available again
  MaxAttempts,  \* MAX_ATTEMPTS
  PruneAge,     \* age beyond which prune deletes a row
  MaxFaults     \* bound: crashes of the process and outages of providers

ASSUME OutboxAssumption ==
  /\ KeyOf \in [Messages -> Keys]
  /\ PlatformOf \in [Messages -> Platforms]
  /\ Direct \subseteq Messages /\ Streamed \subseteq Messages
  /\ Blank \subseteq Messages
  /\ Cancellable \in BOOLEAN
  /\ {Batch, Grace, SendTimeout, Lease, Backoff, MaxAttempts} \subseteq Nat \ {0}
  /\ {PruneAge, MaxFaults} \subseteq Nat
  /\ SendTimeout < Grace /\ SendTimeout < Lease

VARIABLES
  rows,       \* table message_outbox
  sends,      \* calls of a provider's send that may still have an effect
  up,         \* operational providers
  alive,      \* the process runs
  epoch,      \* its incarnation; outboxOwner is drawn anew by each one
  outages,    \* history: provider outages so far
  requested,  \* history: messages handed to the outbox
  shown,      \* history: how often the provider showed each message
  gaveUp,     \* history: sends given up that had reached the provider, or may
  expired     \* history: messages whose row was pruned

vars == <<rows, sends, up, alive, epoch, outages, requested, shown, gaveUp,
          expired>>

State == {"pending", "leased", "sent", "failed", "dead_letter"}

Row == [msg : Messages, state : State, wait : 0..(Grace + Backoff),
        attempts : Nat, owner : Nat, lease : 0..Lease,
        age : 0..(PruneAge + 1)]

(* A send is awaited by its caller; or its caller timed out and went on    *)
(* (abandoned); or its caller died with the process (orphaned).            *)
Send == [msg : Messages, row : Messages, by : {"direct", "worker"}, n : Nat,
         phase : {"awaited", "abandoned", "orphaned"},
         timer : 0..SendTimeout, reached : BOOLEAN]

Queued == Messages \ (Direct \cup Streamed)

Awaited(by) == {s \in sends : s.by = by /\ s.phase = "awaited"}

-----------------------------------------------------------------------------
Init ==
  /\ rows = [k \in {} |-> {}]
  /\ sends = {}
  /\ up = Platforms
  /\ alive = TRUE
  /\ epoch = 0
  /\ outages = 0
  /\ requested = {}
  /\ shown = [m \in Messages |-> 0]
  /\ gaveUp = [m \in Messages |-> 0]
  /\ expired = {}

(* Mutant of Insert: the grace period is dropped. *)
InsertAtOnce(m, st, delay) ==
  rows' = IF KeyOf[m] \in DOMAIN rows THEN rows
          ELSE [k \in DOMAIN rows \cup {KeyOf[m]} |->
                  IF k = KeyOf[m]
                  THEN [msg |-> m, state |-> st, wait |-> 0, attempts |-> 0,
                        owner |-> 0, lease |-> 0, age |-> 0]
                  ELSE rows[k]]

(* INSERT ... ON CONFLICT(platform, idempotency_key) DO NOTHING *)
Insert(m, st, delay) ==
  rows' = IF KeyOf[m] \in DOMAIN rows THEN rows
          ELSE [k \in DOMAIN rows \cup {KeyOf[m]} |->
                  IF k = KeyOf[m]
                  THEN [msg |-> m, state |-> st, wait |-> delay, attempts |-> 0,
                        owner |-> 0, lease |-> 0, age |-> 0]
                  ELSE rows[k]]

(* The message under whose row an insert of m is found afterwards. *)
Holder(m) == IF KeyOf[m] \in DOMAIN rows THEN rows[KeyOf[m]].msg ELSE m

NewSend(m, holder, who, i) ==
  [msg |-> m, row |-> holder, by |-> who, n |-> i, phase |-> "awaited",
   timer |-> SendTimeout, reached |-> FALSE]

(* enqueueText, as AppRuntime.enqueueWebhook calls it: refused unless the  *)
(* destination's provider is operational.                                  *)
EnqueueText(m) ==
  /\ alive
  /\ m \in Queued \ requested
  /\ PlatformOf[m] \in up
  /\ Insert(m, "pending", 0)
  /\ requested' = requested \cup {m}
  /\ UNCHANGED <<sends, up, alive, epoch, outages, shown, gaveUp, expired>>

(* The fast path: enqueueDirectText, then ctx.reply, which throws at once  *)
(* when the provider is not operational.                                   *)
EnqueueDirectText(m) ==
  /\ alive
  /\ m \in Direct \ requested
  /\ Insert(m, "pending", Grace)
  /\ requested' = requested \cup {m}
  /\ sends' = IF PlatformOf[m] \in up
              THEN sends \cup {NewSend(m, Holder(m), "direct", 0)} ELSE sends
  /\ UNCHANGED <<up, alive, epoch, outages, shown, gaveUp, expired>>

(* recordTextDelivered: the streamed copy of the text is already shown.    *)
RecordTextDelivered(m) ==
  /\ alive
  /\ m \in Streamed \ requested
  /\ Insert(m, "sent", 0)
  /\ requested' = requested \cup {m}
  /\ shown' = [shown EXCEPT ![m] = @ + 1]
  /\ UNCHANGED <<sends, up, alive, epoch, outages, gaveUp, expired>>

-----------------------------------------------------------------------------
(* Mutant of Claimable: retired rows are claimed again. *)
ClaimableRetired(k) ==
  LET r == rows[k]
  IN  /\ PlatformOf[r.msg] \in up
      /\ r.wait = 0
      /\ \/ r.state \in {"pending", "failed", "dead_letter"}
         \/ r.state = "leased" /\ r.lease = 0

(* Mutant of Claimable: an expired lease is never taken over. *)
ClaimableUnleased(k) ==
  LET r == rows[k]
  IN  PlatformOf[r.msg] \in up /\ r.wait = 0 /\ r.state \in {"pending", "failed"}

Claimable(k) ==
  LET r == rows[k]
  IN  /\ PlatformOf[r.msg] \in up
      /\ r.wait = 0
      /\ \/ r.state \in {"pending", "failed"}
         \/ r.state = "leased" /\ r.lease = 0

(* Mutant of Leased: the lease is shorter than the send it protects. *)
LeasedBriefly(r) ==
  [r EXCEPT !.state = "leased", !.owner = epoch, !.lease = SendTimeout - 1,
            !.attempts = @ + 1, !.age = 0]

Leased(r) ==
  [r EXCEPT !.state = "leased", !.owner = epoch, !.lease = Lease,
            !.attempts = @ + 1, !.age = 0]

(* A claimed row without text is retired in the claiming transaction.      *)
Undeliverable(r) ==
  [r EXCEPT !.state = "dead_letter", !.wait = 0, !.owner = 0, !.lease = 0,
            !.attempts = @ + 1, !.age = 0]

(* processOutbox: one batch at a time; the rows it claims are sent at once *)
(* and concurrently.  Which of the due rows fit in the batch is left open. *)
ProcessOutbox ==
  /\ alive
  /\ Awaited("worker") = {}
  /\ LET due == {k \in DOMAIN rows : Claimable(k)}
     IN  \E C \in SUBSET due :
           /\ C # {}
           /\ Cardinality(C) = Batch \/ (C = due /\ Cardinality(C) < Batch)
           /\ rows' = [k \in DOMAIN rows |->
                         CASE k \notin C -> rows[k]
                           [] k \in C /\ rows[k].msg \in Blank -> Undeliverable(rows[k])
                           [] OTHER -> Leased(rows[k])]
           /\ sends' = sends \cup
                {NewSend(rows[k].msg, rows[k].msg, "worker", rows[k].attempts + 1) :
                   k \in {c \in C : rows[c].msg \notin Blank}}
  /\ UNCHANGED <<up, alive, epoch, outages, requested, shown, gaveUp, expired>>

(* The row a send reports to, if it is still there. *)
RowOf(s) == {k \in DOMAIN rows : rows[k].msg = s.row}

Update(K, New(_)) ==
  rows' = [k \in DOMAIN rows |-> IF k \in K THEN New(rows[k]) ELSE rows[k]]

Sent(r) == [r EXCEPT !.state = "sent", !.owner = 0, !.lease = 0, !.age = 0]

MarkEnqueuedSent(s) ==
  Update({k \in RowOf(s) : rows[k].state \in {"pending", "failed"}}, Sent)

Held(s) == {k \in RowOf(s) : rows[k].state = "leased" /\ rows[k].owner = epoch}

MarkSent(s) == Update(Held(s), Sent)

Failed(r) ==
  [r EXCEPT !.state = IF r.attempts >= MaxAttempts THEN "dead_letter" ELSE "failed",
            !.wait = Backoff, !.owner = 0, !.lease = 0, !.age = 0]

(* Mutant of Fail: a send that failed is recorded as sent. *)
FailAsSent(s) == MarkSent(s)

Fail(s) == Update(Held(s), Failed)

(* The provider shows the message.  The sender learns of it later, if ever.*)
Show(s) ==
  /\ ~s.reached
  /\ shown' = [shown EXCEPT ![s.msg] = @ + 1]
  /\ sends' = (sends \ {s}) \cup
       {t \in {[s EXCEPT !.reached = TRUE]} : s.phase = "awaited"}
  /\ UNCHANGED <<rows, up, alive, epoch, outages, requested, gaveUp, expired>>

(* The awaited send resolved. *)
Acknowledge(s) ==
  /\ s.phase = "awaited" /\ s.reached
  /\ IF s.by = "direct" THEN MarkEnqueuedSent(s) ELSE MarkSent(s)
  /\ sends' = sends \ {s}
  /\ UNCHANGED <<up, alive, epoch, outages, requested, shown, gaveUp, expired>>

(* What the caller does when the awaited send is given up: the fast path   *)
(* leaves the row to the worker, the worker records a failure.             *)
GiveUp(s) == IF s.by = "direct" THEN rows' = rows ELSE Fail(s)

(* The awaited send rejected; the message may have been shown all the same.*)
Reject(s) ==
  /\ s.phase = "awaited"
  /\ GiveUp(s)
  /\ sends' = sends \ {s}
  /\ gaveUp' = IF s.reached THEN [gaveUp EXCEPT ![s.msg] = @ + 1] ELSE gaveUp
  /\ UNCHANGED <<up, alive, epoch, outages, requested, shown, expired>>

(* withCancellableTimeout fires.  Providers look at the signal between     *)
(* chunks only, so what is on the wire stays there unless Cancellable.     *)
TimeOut(s) ==
  LET stray == ~s.reached /\ ~Cancellable
  IN  /\ s.phase = "awaited" /\ s.timer = 0
      /\ GiveUp(s)
      /\ sends' = (sends \ {s}) \cup
           {t \in {[s EXCEPT !.phase = "abandoned"]} : stray}
      /\ gaveUp' = IF s.reached \/ stray THEN [gaveUp EXCEPT ![s.msg] = @ + 1]
                   ELSE gaveUp
      /\ UNCHANGED <<up, alive, epoch, outages, requested, shown, expired>>

-----------------------------------------------------------------------------
(* The age of a row is only kept up in the states prune looks at. *)
Prunable(k) ==
  rows[k].state \in {"failed", "dead_letter"} /\ rows[k].age > PruneAge

Prune ==
  /\ alive
  /\ \E k \in DOMAIN rows : Prunable(k)
  /\ rows' = [k \in {j \in DOMAIN rows : ~Prunable(j)} |-> rows[k]]
  /\ expired' = expired \cup
       {rows[k].msg : k \in {j \in DOMAIN rows : Prunable(j)}}
  /\ UNCHANGED <<sends, up, alive, epoch, outages, requested, shown, gaveUp>>

(* The process dies: awaited sends may still reach the provider.           *)
Crash ==
  /\ alive /\ epoch + outages < MaxFaults
  /\ alive' = FALSE
  /\ LET lost == {s \in sends : s.phase = "awaited"}
     IN  /\ sends' = (sends \ lost) \cup
              {[s EXCEPT !.phase = "orphaned", !.timer = 0] :
                 s \in {t \in lost : ~t.reached}}
         /\ gaveUp' = [m \in Messages |->
              gaveUp[m] + Cardinality({s \in lost : s.msg = m})]
  /\ UNCHANGED <<rows, up, epoch, outages, requested, shown, expired>>

Restart ==
  /\ ~alive
  /\ alive' = TRUE
  /\ epoch' = epoch + 1
  /\ UNCHANGED <<rows, sends, up, outages, requested, shown, gaveUp, expired>>

ProviderDown(p) ==
  /\ p \in up /\ epoch + outages < MaxFaults
  /\ up' = up \ {p}
  /\ outages' = outages + 1
  /\ UNCHANGED <<rows, sends, alive, epoch, requested, shown, gaveUp, expired>>

ProviderUp(p) ==
  /\ p \in Platforms \ up
  /\ up' = up \cup {p}
  /\ UNCHANGED <<rows, sends, alive, epoch, outages, requested, shown, gaveUp, expired>>

(* Mutant of Less: a delay runs below zero. *)
LessUnclamped(i) == i - 1

Less(i) == IF i = 0 THEN 0 ELSE i - 1

Aged(r) ==
  [r EXCEPT !.wait = Less(@), !.lease = Less(@),
            !.age = IF r.state \in {"failed", "dead_letter"} /\ r.age <= PruneAge
                    THEN @ + 1 ELSE @]

(* Timers of one event loop fire in the order they are due, so time does   *)
(* not pass a timeout that is due.                                         *)
Tick ==
  /\ \A s \in sends : s.phase = "awaited" => s.timer > 0
  /\ rows' = [k \in DOMAIN rows |-> Aged(rows[k])]
  /\ sends' = {[s EXCEPT !.timer = IF s.phase = "awaited" THEN Less(@) ELSE @] : s \in sends}
  /\ UNCHANGED <<up, alive, epoch, outages, requested, shown, gaveUp, expired>>

Settle == \E s \in sends : Acknowledge(s) \/ Reject(s) \/ TimeOut(s)

Next ==
  \/ \E m \in Messages :
       EnqueueText(m) \/ EnqueueDirectText(m) \/ RecordTextDelivered(m)
  \/ ProcessOutbox
  \/ \E s \in sends : Show(s)
  \/ Settle
  \/ Prune
  \/ Crash
  \/ Restart
  \/ \E p \in Platforms : ProviderDown(p) \/ ProviderUp(p)
  \/ Tick

Spec == Init /\ [][Next]_vars

(* The interval timer keeps calling processOutbox; every send is bounded by*)
(* its timeout; a crashed process is restarted by its supervisor; and a    *)
(* provider that lost its connection reconnects.                           *)
FairSpec ==
  /\ Spec
  /\ WF_vars(ProcessOutbox)
  /\ WF_vars(Settle)
  /\ WF_vars(Tick)
  /\ WF_vars(Restart)
  /\ \A p \in Platforms : WF_vars(ProviderUp(p))

-----------------------------------------------------------------------------
(* Every variable holds a value of its kind. *)
TypeOK ==
  /\ DOMAIN rows \subseteq Keys
  /\ \A k \in DOMAIN rows : rows[k] \in Row
  /\ sends \subseteq Send
  /\ up \subseteq Platforms
  /\ alive \in BOOLEAN
  /\ epoch \in Nat /\ outages \in Nat
  /\ requested \subseteq Messages /\ expired \subseteq Messages
  /\ shown \in [Messages -> Nat]
  /\ gaveUp \in [Messages -> Nat]

SharingKey(m) == {n \in requested : KeyOf[n] = KeyOf[m]}

(* At-least-once (docs/architecture.md, section 9), which the outbox gives *)
(* to keys: of the messages handed to it under one key at least one has    *)
(* been shown, or a row is still there and not marked sent, or theirs was  *)
(* pruned; through crashes, lost answers and timeouts, and whoever marks   *)
(* the row, the fast path or the worker.  Which one is left open: another  *)
(* message of the key may be lost.                                         *)
AcceptedIsKept ==
  \A m \in requested :
    \/ \E n \in SharingKey(m) : shown[n] > 0
    \/ KeyOf[m] \in DOMAIN rows /\ rows[KeyOf[m]].state # "sent"
    \/ KeyOf[m] \notin DOMAIN rows /\ SharingKey(m) \cap expired # {}

(* The lease outlives the send it protects: while the worker awaits a      *)
(* send, its row is leased to this process and nobody may take it over, so *)
(* markSent and fail (285-326) always find the row they report on.         *)
DeliveryHoldsLease ==
  \A s \in Awaited("worker") :
    \E k \in RowOf(s) : /\ rows[k].state = "leased"
                        /\ rows[k].owner = epoch
                        /\ rows[k].lease > 0
                        /\ rows[k].attempts = s.n

(* Nothing is shown twice without a cause: every extra copy is paid for by *)
(* a send that was given up although its message had arrived or still      *)
(* could (a lost answer, a timeout, a crash).                              *)
NoUncausedDuplicate ==
  \A m \in Messages : shown[m] <= 1 + gaveUp[m]

(* A row that is sent or dead-lettered never becomes deliverable again,    *)
(* however late an answer, a timeout or a second claim comes.              *)
SettledIsFinal ==
  [][\A k \in DOMAIN rows :
       rows[k].state \in {"sent", "dead_letter"} =>
         k \notin DOMAIN rows' \/ rows'[k].state = rows[k].state]_vars

(* A row never stays where it is: pending, leased by a dead process or     *)
(* failed, it ends up sent, retired or pruned.                             *)
RowsSettle ==
  \A k \in Keys :
    (k \in DOMAIN rows /\ rows[k].state \in {"pending", "leased", "failed"})
      ~> (k \in DOMAIN rows => rows[k].state \in {"sent", "dead_letter"})

(* How a row, or its absence, stands for a phase of its key. *)
Phase(k) ==
  CASE \A m \in requested : KeyOf[m] # k -> "new"
    [] (\E m \in requested : KeyOf[m] = k) /\ k \notin DOMAIN rows -> "dropped"
    [] k \in DOMAIN rows /\ rows[k].state = "sent" -> "sent"
    [] k \in DOMAIN rows /\ rows[k].state = "dead_letter" -> "dropped"
    [] OTHER -> "kept"

ShownKeys == {k \in Keys : \E m \in Messages : KeyOf[m] = k /\ shown[m] > 0}

Promise == INSTANCE Delivery
  WITH phase <- [k \in Keys |-> Phase(k)], shown <- ShownKeys

(* The outbox implements durable delivery of whatever shares a key. *)
ImplementsDelivery == Promise!Spec

(* The values KeyOf and PlatformOf have in the runs: the replies, of chats *)
(* that number their messages alike, share a key, and there is one         *)
(* platform.                                                               *)
RepliesShareKey ==
  [m \in Messages |-> IF m \in Queued THEN m ELSE CHOOSE k \in Keys \ Queued : TRUE]
OnePlatform == [m \in Messages |-> CHOOSE p \in Platforms : TRUE]
=============================================================================
