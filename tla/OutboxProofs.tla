---------------------------- MODULE OutboxProofs ----------------------------
(***************************************************************************)
(* Theorems about Outbox, for any number of messages, platforms, crashes,  *)
(* outages and any delays, whether or not a timed-out send is off the      *)
(* wire: types, what was accepted is kept, the lease outlives the send,    *)
(* duplicates have a cause, settled rows stay settled, and the outbox      *)
(* implements Delivery.                                                    *)
(*                                                                         *)
(* Nothing is assumed of the keys: messages may share them.                *)
(*                                                                         *)
(* AcceptedIsKept is not inductive.  A row is only marked sent when a send *)
(* that reports to it is acknowledged, so the invariant must say that a    *)
(* send reports to a row of its message's key, that one the provider       *)
(* acknowledged has been shown, and that a row is filed under its key.     *)
(*                                                                         *)
(* What is about the sends themselves rests on SendInv: of the sends of a  *)
(* message one is awaited at most, and meanwhile nobody else may deliver   *)
(* the message from a row of its own.  Paid weighs what was shown, and     *)
(* what still may be, against the sends that were given up.                *)
(***************************************************************************)
EXTENDS Outbox, FiniteSetTheorems, TLAPS

LEMMA ImageFinite ==
  ASSUME NEW S, IsFiniteSet(S), NEW f, DOMAIN f = S, f = [x \in S |-> f[x]]
  PROVE  IsFiniteSet({f[x] : x \in S})
<1> DEFINE T == {f[x] : x \in S}
<1>1. f \in Surjection(S, T)
  BY DEF Surjection
<1> QED
  BY <1>1, FS_Surjection

LEMMA NewSendType ==
  ASSUME NEW m \in Messages, NEW h \in Messages, NEW who \in {"direct", "worker"},
         NEW i \in Nat
  PROVE  NewSend(m, h, who, i) \in Send
BY OutboxAssumption DEF NewSend, Send

LEMMA LessType ==
  ASSUME NEW b \in Nat, NEW i \in 0..b
  PROVE  Less(i) \in 0..b
BY DEF Less

(* Each of the functions that rewrite a row yields a row of the same       *)
(* message, and only Sent marks it sent.                                   *)
LEMMA RowUpdates ==
  ASSUME NEW r \in Row, epoch \in Nat
  PROVE  /\ Leased(r) \in Row /\ Leased(r).msg = r.msg /\ Leased(r).state = "leased"
         /\ Undeliverable(r) \in Row /\ Undeliverable(r).msg = r.msg
         /\ Undeliverable(r).state = "dead_letter"
         /\ Sent(r) \in Row /\ Sent(r).msg = r.msg /\ Sent(r).state = "sent"
         /\ Failed(r) \in Row /\ Failed(r).msg = r.msg
         /\ Failed(r).state \in {"failed", "dead_letter"}
         /\ Aged(r) \in Row /\ Aged(r).msg = r.msg /\ Aged(r).state = r.state
<1>1. /\ Lease \in Nat /\ Grace \in Nat /\ Backoff \in Nat /\ PruneAge \in Nat
      /\ Grace + Backoff \in Nat
      /\ Backoff \in 0..(Grace + Backoff)
      /\ 0 \in 0..(Grace + Backoff)
      /\ 0 \in 0..Lease /\ Lease \in 0..Lease
      /\ 0 \in 0..(PruneAge + 1)
  BY OutboxAssumption
<1>2. /\ r.msg \in Messages /\ r.state \in State /\ r.wait \in 0..(Grace + Backoff)
      /\ r.attempts \in Nat /\ r.owner \in Nat /\ r.lease \in 0..Lease
      /\ r.age \in 0..(PruneAge + 1)
      /\ r.attempts + 1 \in Nat
  BY DEF Row
<1> DEFINE n == r.attempts + 1
<1>n. n \in Nat
  BY <1>2
<1>3. Leased(r) \in Row /\ Leased(r).msg = r.msg /\ Leased(r).state = "leased"
  <2>1. Leased(r) = [r EXCEPT !.state = "leased", !.owner = epoch, !.lease = Lease,
                              !.attempts = n, !.age = 0]
    BY DEF Leased
  <2> HIDE DEF n
  <2> QED
    BY <1>1, <1>2, <1>n, <2>1 DEF Row, State
<1>4. /\ Undeliverable(r) \in Row /\ Undeliverable(r).msg = r.msg
      /\ Undeliverable(r).state = "dead_letter"
  <2> DEFINE u == [r EXCEPT !.state = "dead_letter", !.wait = 0, !.owner = 0]
  <2>1. u \in Row /\ u.msg = r.msg /\ u.state = "dead_letter"
    BY <1>1, <1>2 DEF Row, State
  <2>2. Undeliverable(r) = [u EXCEPT !.lease = 0, !.attempts = n, !.age = 0]
    BY DEF Undeliverable
  <2> HIDE DEF n, u
  <2> QED
    BY <1>1, <1>n, <2>1, <2>2 DEF Row
<1>5. Sent(r) \in Row /\ Sent(r).msg = r.msg /\ Sent(r).state = "sent"
  BY <1>1, <1>2 DEF Sent, Row, State
<1>6. /\ Failed(r) \in Row /\ Failed(r).msg = r.msg
      /\ Failed(r).state \in {"failed", "dead_letter"}
  BY <1>1, <1>2 DEF Failed, Row, State
<1>7. Aged(r) \in Row /\ Aged(r).msg = r.msg /\ Aged(r).state = r.state
  <2>1. Less(r.wait) \in 0..(Grace + Backoff) /\ Less(r.lease) \in 0..Lease
    BY <1>1, <1>2, LessType
  <2>2. r.age <= PruneAge => r.age + 1 \in 0..(PruneAge + 1)
    BY <1>1, <1>2
  <2> DEFINE a == IF r.state \in {"failed", "dead_letter"} /\ r.age <= PruneAge
                  THEN r.age + 1 ELSE r.age
  <2>3. a \in 0..(PruneAge + 1)
    BY <1>2, <2>2
  <2>4. Aged(r) = [r EXCEPT !.wait = Less(r.wait), !.lease = Less(r.lease), !.age = a]
    BY DEF Aged, Row
  <2> HIDE DEF a
  <2> QED
    BY <1>2, <2>1, <2>3, <2>4 DEF Row
<1> QED
  BY <1>3, <1>4, <1>5, <1>6, <1>7

-----------------------------------------------------------------------------
(* A row is filed under the key of its message, whose caller asked for it; *)
(* a key asked for has a row until that is pruned.                         *)
Filed ==
  /\ \A k \in DOMAIN rows : KeyOf[rows[k].msg] = k /\ rows[k].msg \in requested
  /\ \A m \in requested : KeyOf[m] \in DOMAIN rows \/ SharingKey(m) \cap expired # {}

(* The sets that a crash counts, and that counting rests on, are finite.   *)
Finite == IsFiniteSet(DOMAIN rows) /\ IsFiniteSet(sends)

(* What a send carries was asked for, it reports to a row of the same key, *)
(* and if it reached the provider it has been shown.                       *)
SendsFiled ==
  \A s \in sends : /\ s.msg \in requested
                   /\ KeyOf[s.row] = KeyOf[s.msg]
                   /\ s.reached => shown[s.msg] > 0

KeyShown(k) == \E m \in requested : KeyOf[m] = k /\ shown[m] > 0

SentIsShown == \A k \in DOMAIN rows : rows[k].state = "sent" => KeyShown(k)

Core == TypeOK /\ Filed /\ SendsFiled /\ SentIsShown

IInv == Core /\ Finite

LEMMA InitIInv == Init => IInv
<1> SUFFICES ASSUME Init PROVE IInv
  OBVIOUS
<1>1. DOMAIN rows = {}
  BY DEF Init
<1>2. TypeOK
  BY <1>1 DEF Init, TypeOK
<1> QED
  BY <1>1, <1>2, FS_EmptySet DEF Init, IInv, Core, Finite, Filed, SendsFiled, SentIsShown

(* Inserting a row, or finding one under the key, keeps rows in order; for *)
(* a row already marked sent the message must have been shown.             *)
LEMMA InsertIInv ==
  ASSUME IInv, NEW m \in Messages \ requested,
         NEW st \in {"pending", "sent"}, NEW delay \in {0, Grace},
         Insert(m, st, delay),
         requested' = requested \cup {m}, expired' = expired,
         shown' \in [Messages -> Nat],
         \A n \in Messages : shown'[n] >= shown[n],
         st = "sent" => shown'[m] > 0
  PROVE  /\ DOMAIN rows' \subseteq Keys
         /\ \A k \in DOMAIN rows' : rows'[k] \in Row
         /\ Filed' /\ SentIsShown'
<1> DEFINE new == [msg |-> m, state |-> st, wait |-> delay, attempts |-> 0,
                   owner |-> 0, lease |-> 0, age |-> 0]
<1>1. /\ DOMAIN rows \subseteq Keys
      /\ \A k \in DOMAIN rows : rows[k] \in Row /\ rows[k].msg \in Messages
      /\ shown \in [Messages -> Nat]
      /\ requested \subseteq Messages
      /\ KeyOf[m] \in Keys
  BY OutboxAssumption DEF IInv, Core, TypeOK, Row
<1>2. new \in Row /\ new.msg = m /\ new.state = st
  BY OutboxAssumption DEF Row, State
<1>3. \/ KeyOf[m] \in DOMAIN rows /\ rows' = rows
      \/ /\ KeyOf[m] \notin DOMAIN rows
         /\ rows' = [k \in DOMAIN rows \cup {KeyOf[m]} |->
                       IF k = KeyOf[m] THEN new ELSE rows[k]]
  BY DEF Insert
<1> HIDE DEF new
<1>4. /\ DOMAIN rows' = DOMAIN rows \cup {KeyOf[m]}
      /\ \A k \in DOMAIN rows' : \/ k \in DOMAIN rows /\ rows'[k] = rows[k]
                                 \/ k = KeyOf[m] /\ rows'[k] = new
  BY <1>3
<1>5. DOMAIN rows' \subseteq Keys /\ \A k \in DOMAIN rows' : rows'[k] \in Row
  BY <1>1, <1>2, <1>4
<1>6. Filed'
  <2>1. \A k \in DOMAIN rows' : KeyOf[rows'[k].msg] = k /\ rows'[k].msg \in requested'
    BY <1>1, <1>2, <1>4 DEF IInv, Core, Filed
  <2>2. ASSUME NEW n \in requested'
        PROVE  KeyOf[n] \in DOMAIN rows' \/ SharingKey(n)' \cap expired' # {}
    BY <1>4, <2>2 DEF IInv, Core, Filed, SharingKey
  <2> QED
    BY <2>1, <2>2 DEF Filed
<1>7. SentIsShown'
  <2> SUFFICES ASSUME NEW k \in DOMAIN rows', rows'[k].state = "sent"
               PROVE  KeyShown(k)'
    BY DEF SentIsShown
  <2>1. CASE k \in DOMAIN rows /\ rows'[k] = rows[k]
    <3>1. PICK n \in requested : KeyOf[n] = k /\ shown[n] > 0
      BY <2>1 DEF IInv, Core, SentIsShown, KeyShown
    <3>2. n \in requested' /\ shown'[n] >= shown[n] /\ shown[n] \in Nat /\ shown'[n] \in Nat
      BY <1>1, <3>1
    <3> QED
      BY <3>1, <3>2 DEF KeyShown
  <2>2. CASE k = KeyOf[m] /\ rows'[k] = new
    BY <1>2, <2>2 DEF KeyShown
  <2> QED
    BY <1>4, <2>1, <2>2
<1> QED
  BY <1>5, <1>6, <1>7

(* Rewriting rows in place keeps the rows in order if each keeps its       *)
(* message and is marked sent only when one of its key was shown.          *)
LEMMA RewriteIInv ==
  ASSUME IInv,
         DOMAIN rows' = DOMAIN rows,
         requested' = requested, expired' = expired, shown' = shown,
         \A k \in DOMAIN rows : /\ rows'[k] \in Row
                                /\ rows'[k].msg = rows[k].msg
                                /\ rows'[k].state = "sent" =>
                                     \/ rows[k].state = "sent"
                                     \/ KeyShown(k)
  PROVE  /\ DOMAIN rows' \subseteq Keys
         /\ \A k \in DOMAIN rows' : rows'[k] \in Row
         /\ Filed' /\ SentIsShown'
BY DEF IInv, Core, TypeOK, Filed, SharingKey, SentIsShown, KeyShown

(* A send ends: its row is rewritten if it is still held or due.           *)
LEMMA EndSendIInv ==
  ASSUME IInv, NEW s \in sends,
         UNCHANGED <<requested, shown, expired>>,
         \/ rows' = rows
         \/ Fail(s)
         \/ s.reached /\ (MarkSent(s) \/ MarkEnqueuedSent(s))
  PROVE  /\ DOMAIN rows' \subseteq Keys
         /\ \A k \in DOMAIN rows' : rows'[k] \in Row
         /\ Filed' /\ SentIsShown'
<1>1. /\ \A k \in DOMAIN rows : rows[k] \in Row /\ rows[k].msg \in Messages
      /\ epoch \in Nat
      /\ s.msg \in Messages
  BY DEF IInv, Core, TypeOK, Send, Row
<1>2. CASE rows' = rows
  BY <1>1, <1>2, RewriteIInv
<1>3. CASE Fail(s)
  <2>1. rows' = [k \in DOMAIN rows |-> IF k \in Held(s) THEN Failed(rows[k]) ELSE rows[k]]
    BY <1>3 DEF Fail, Update
  <2>2. \A k \in DOMAIN rows :
          /\ Failed(rows[k]) \in Row /\ Failed(rows[k]).msg = rows[k].msg
          /\ Failed(rows[k]).state # "sent"
    BY <1>1, RowUpdates
  <2>3. DOMAIN rows' = DOMAIN rows
    BY <2>1
  <2>4. \A k \in DOMAIN rows : rows'[k] = Failed(rows[k]) \/ rows'[k] = rows[k]
    BY <2>1
  <2> QED
    BY <1>1, <2>2, <2>3, <2>4, RewriteIInv
<1>4. CASE s.reached /\ (MarkSent(s) \/ MarkEnqueuedSent(s))
  <2>1. PICK K \in SUBSET RowOf(s) :
          rows' = [k \in DOMAIN rows |-> IF k \in K THEN Sent(rows[k]) ELSE rows[k]]
    <3>1. Held(s) \in SUBSET RowOf(s)
      BY DEF Held
    <3>2. {k \in RowOf(s) : rows[k].state \in {"pending", "failed"}} \in SUBSET RowOf(s)
      OBVIOUS
    <3> QED
      BY <1>4, <3>1, <3>2 DEF MarkSent, MarkEnqueuedSent, Update
  <2>2. shown[s.msg] > 0 /\ s.msg \in requested /\ KeyOf[s.row] = KeyOf[s.msg]
    BY <1>4 DEF IInv, Core, SendsFiled
  <2>3. \A k \in RowOf(s) : k \in DOMAIN rows /\ k = KeyOf[s.row]
    BY DEF RowOf, IInv, Core, Filed
  <2>4. \A k \in DOMAIN rows :
          Sent(rows[k]) \in Row /\ Sent(rows[k]).msg = rows[k].msg
    BY <1>1, RowUpdates
  <2>5. DOMAIN rows' = DOMAIN rows
    BY <2>1
  <2>6. \A k \in DOMAIN rows :
          (k \in K /\ rows'[k] = Sent(rows[k])) \/ rows'[k] = rows[k]
    BY <2>1
  <2>7. \A k \in K : KeyShown(k)
    BY <2>1, <2>2, <2>3 DEF KeyShown
  <2> QED
    BY <1>1, <2>4, <2>5, <2>6, <2>7, RewriteIInv
<1> QED
  BY <1>2, <1>3, <1>4

-----------------------------------------------------------------------------
LEMMA EnqueueIInv ==
  ASSUME IInv, NEW m \in Messages,
         EnqueueText(m) \/ EnqueueDirectText(m) \/ RecordTextDelivered(m)
  PROVE  Core'
<1>1. /\ shown \in [Messages -> Nat]
      /\ sends \subseteq Send
      /\ requested \subseteq Messages
  BY DEF IInv, Core, TypeOK
<1>2. CASE EnqueueText(m)
  <2>1. /\ m \in Messages \ requested
        /\ Insert(m, "pending", 0)
        /\ requested' = requested \cup {m}
        /\ UNCHANGED <<sends, up, alive, epoch, outages, shown, gaveUp, expired>>
    BY <1>2 DEF EnqueueText, Queued
  <2>2. \A n \in Messages : shown'[n] >= shown[n]
    BY <1>1, <2>1
  <2>3. /\ DOMAIN rows' \subseteq Keys
        /\ \A k \in DOMAIN rows' : rows'[k] \in Row
        /\ Filed' /\ SentIsShown'
    BY <1>1, <2>1, <2>2, InsertIInv
  <2>4. TypeOK'
    BY <2>1, <2>3 DEF IInv, Core, TypeOK
  <2> QED
    BY <1>1, <2>1, <2>3, <2>4 DEF IInv, Core, SendsFiled
<1>3. CASE EnqueueDirectText(m)
  <2>1. /\ m \in Messages \ requested
        /\ Insert(m, "pending", Grace)
        /\ requested' = requested \cup {m}
        /\ sends' = sends \/ sends' = sends \cup {NewSend(m, Holder(m), "direct", 0)}
        /\ UNCHANGED <<up, alive, epoch, outages, shown, gaveUp, expired>>
    BY <1>3, OutboxAssumption DEF EnqueueDirectText
  <2>2. \A n \in Messages : shown'[n] >= shown[n]
    BY <1>1, <2>1
  <2>3. /\ DOMAIN rows' \subseteq Keys
        /\ \A k \in DOMAIN rows' : rows'[k] \in Row
        /\ Filed' /\ SentIsShown'
    BY <1>1, <2>1, <2>2, InsertIInv
  <2> DEFINE new == NewSend(m, Holder(m), "direct", 0)
  <2>4. Holder(m) \in Messages /\ KeyOf[Holder(m)] = KeyOf[m]
    BY DEF Holder, IInv, Core, TypeOK, Filed, Row
  <2>5. new \in Send /\ new.msg = m /\ new.row = Holder(m) /\ ~new.reached
    BY <2>4, NewSendType DEF NewSend
  <2>6. sends' = sends \/ sends' = sends \cup {new}
    BY <2>1
  <2> HIDE DEF new
  <2>7. TypeOK'
    BY <2>1, <2>3, <2>5, <2>6 DEF IInv, Core, TypeOK
  <2>8. SendsFiled'
    BY <2>1, <2>4, <2>5, <2>6 DEF IInv, Core, SendsFiled
  <2> QED
    BY <2>3, <2>7, <2>8 DEF IInv, Core
<1>4. CASE RecordTextDelivered(m)
  <2>1. /\ m \in Messages \ requested
        /\ Insert(m, "sent", 0)
        /\ requested' = requested \cup {m}
        /\ shown' = [shown EXCEPT ![m] = @ + 1]
        /\ UNCHANGED <<sends, up, alive, epoch, outages, gaveUp, expired>>
    BY <1>4, OutboxAssumption DEF RecordTextDelivered
  <2>2. /\ shown' \in [Messages -> Nat]
        /\ shown'[m] > 0
        /\ \A n \in Messages : shown'[n] >= shown[n]
    BY <1>1, <2>1
  <2>3. /\ DOMAIN rows' \subseteq Keys
        /\ \A k \in DOMAIN rows' : rows'[k] \in Row
        /\ Filed' /\ SentIsShown'
    BY <1>1, <2>1, <2>2, InsertIInv
  <2>4. TypeOK'
    BY <2>1, <2>2, <2>3 DEF IInv, Core, TypeOK
  <2>5. SendsFiled'
    BY <1>1, <2>1, <2>2 DEF IInv, Core, SendsFiled, Send
  <2> QED
    BY <2>3, <2>4, <2>5 DEF IInv, Core
<1> QED
  BY <1>2, <1>3, <1>4

LEMMA ProcessOutboxIInv ==
  ASSUME IInv, ProcessOutbox
  PROVE  Core'
<1>1. PICK C \in SUBSET DOMAIN rows :
        /\ rows' = [k \in DOMAIN rows |->
                      CASE k \notin C -> rows[k]
                        [] k \in C /\ rows[k].msg \in Blank -> Undeliverable(rows[k])
                        [] OTHER -> Leased(rows[k])]
        /\ sends' = sends \cup
             {NewSend(rows[k].msg, rows[k].msg, "worker", rows[k].attempts + 1) :
                k \in {c \in C : rows[c].msg \notin Blank}}
  BY DEF ProcessOutbox
<1>2. UNCHANGED <<up, alive, epoch, outages, requested, shown, gaveUp, expired>>
  BY DEF ProcessOutbox
<1>3. /\ \A k \in DOMAIN rows : /\ rows[k] \in Row
                                /\ rows[k].msg \in Messages
                                /\ rows[k].attempts + 1 \in Nat
      /\ epoch \in Nat
  BY DEF IInv, Core, TypeOK, Row
<1>4. DOMAIN rows' = DOMAIN rows
  BY <1>1
<1>5. \A k \in DOMAIN rows : \/ rows'[k] = rows[k]
                             \/ rows'[k] = Undeliverable(rows[k])
                             \/ rows'[k] = Leased(rows[k])
  BY <1>1
<1>6. \A k \in DOMAIN rows :
        /\ Undeliverable(rows[k]) \in Row /\ Undeliverable(rows[k]).msg = rows[k].msg
        /\ Undeliverable(rows[k]).state # "sent"
        /\ Leased(rows[k]) \in Row /\ Leased(rows[k]).msg = rows[k].msg
        /\ Leased(rows[k]).state # "sent"
  BY <1>3, RowUpdates
<1>7. \A k \in DOMAIN rows : /\ rows'[k] \in Row
                             /\ rows'[k].msg = rows[k].msg
                             /\ rows'[k].state = "sent" => rows[k].state = "sent"
  BY <1>3, <1>5, <1>6
<1>8. /\ DOMAIN rows' \subseteq Keys
      /\ \A k \in DOMAIN rows' : rows'[k] \in Row
      /\ Filed' /\ SentIsShown'
  BY <1>2, <1>4, <1>7, RewriteIInv
<1>9. \A s \in sends' : \/ s \in sends
                        \/ s \in Send /\ ~s.reached /\ s.row = s.msg /\ s.msg \in requested
  <2> DEFINE New(k) == NewSend(rows[k].msg, rows[k].msg, "worker", rows[k].attempts + 1)
  <2>1. \A k \in DOMAIN rows :
          /\ New(k) \in Send /\ ~New(k).reached
          /\ New(k).row = New(k).msg /\ New(k).msg \in requested
    BY <1>3, NewSendType DEF NewSend, IInv, Core, Filed
  <2>2. \A s \in sends' : s \in sends \/ \E k \in DOMAIN rows : s = New(k)
    BY <1>1
  <2> HIDE DEF New
  <2> QED
    BY <2>1, <2>2
<1>10. TypeOK'
  BY <1>2, <1>8, <1>9 DEF IInv, Core, TypeOK
<1>11. SendsFiled'
  BY <1>2, <1>9 DEF IInv, Core, SendsFiled
<1> QED
  BY <1>8, <1>10, <1>11 DEF IInv, Core

(* Showing a message, and ending a send, touch one send.                   *)
LEMMA SendStepIInv ==
  ASSUME IInv, NEW s \in sends,
         Show(s) \/ Acknowledge(s) \/ Reject(s) \/ TimeOut(s)
  PROVE  Core'
<1>1. /\ s \in Send /\ s.msg \in Messages
      /\ sends \subseteq Send
      /\ shown \in [Messages -> Nat]
      /\ gaveUp \in [Messages -> Nat]
  BY DEF IInv, Core, TypeOK, Send
<1>2. /\ [s EXCEPT !.reached = TRUE] \in Send
      /\ [s EXCEPT !.reached = TRUE].msg = s.msg
      /\ [s EXCEPT !.reached = TRUE].row = s.row
      /\ [s EXCEPT !.phase = "abandoned"] \in Send
      /\ [s EXCEPT !.phase = "abandoned"].msg = s.msg
      /\ [s EXCEPT !.phase = "abandoned"].row = s.row
      /\ [s EXCEPT !.phase = "abandoned"].reached = s.reached
  BY <1>1 DEF Send
<1>3. CASE Show(s)
  <2>1. /\ shown' = [shown EXCEPT ![s.msg] = @ + 1]
        /\ sends' \subseteq sends \cup {[s EXCEPT !.reached = TRUE]}
        /\ UNCHANGED <<rows, up, alive, epoch, outages, requested, gaveUp, expired>>
    BY <1>3 DEF Show
  <2>2. /\ shown' \in [Messages -> Nat]
        /\ shown'[s.msg] > 0
        /\ \A n \in Messages : shown[n] > 0 => shown'[n] > 0
    BY <1>1, <2>1
  <2>3. TypeOK'
    BY <1>1, <1>2, <2>1, <2>2 DEF IInv, Core, TypeOK
  <2>4. SendsFiled'
    BY <1>1, <1>2, <2>1, <2>2 DEF IInv, Core, SendsFiled, Send
  <2>5. SentIsShown'
    BY <2>1, <2>2 DEF IInv, Core, TypeOK, SentIsShown, KeyShown
  <2>6. Filed'
    BY <2>1 DEF IInv, Core, Filed, SharingKey
  <2> QED
    BY <2>3, <2>4, <2>5, <2>6 DEF IInv, Core
<1>4. CASE Acknowledge(s) \/ Reject(s) \/ TimeOut(s)
  <2>1. UNCHANGED <<up, alive, epoch, outages, requested, shown, expired>>
    BY <1>4 DEF Acknowledge, Reject, TimeOut
  <2>2. \/ rows' = rows
        \/ Fail(s)
        \/ s.reached /\ (MarkSent(s) \/ MarkEnqueuedSent(s))
    BY <1>4 DEF Acknowledge, Reject, TimeOut, GiveUp
  <2>3. sends' \subseteq sends
          \cup {t \in {[s EXCEPT !.phase = "abandoned"]} : ~t.reached}
    BY <1>2, <1>4 DEF Acknowledge, Reject, TimeOut
  <2>4. gaveUp' \in [Messages -> Nat]
    <3>1. [gaveUp EXCEPT ![s.msg] = @ + 1] \in [Messages -> Nat]
      BY <1>1
    <3>2. gaveUp' = gaveUp \/ gaveUp' = [gaveUp EXCEPT ![s.msg] = @ + 1]
      BY <1>4 DEF Acknowledge, Reject, TimeOut
    <3> QED
      BY <1>1, <3>1, <3>2
  <2>5. /\ DOMAIN rows' \subseteq Keys
        /\ \A k \in DOMAIN rows' : rows'[k] \in Row
        /\ Filed' /\ SentIsShown'
    BY <2>1, <2>2, EndSendIInv
  <2>6. TypeOK'
    BY <1>1, <1>2, <2>1, <2>3, <2>4, <2>5 DEF IInv, Core, TypeOK
  <2>7. SendsFiled'
    BY <1>2, <2>1, <2>3 DEF IInv, Core, SendsFiled
  <2> QED
    BY <2>5, <2>6, <2>7 DEF IInv, Core
<1> QED
  BY <1>3, <1>4

-----------------------------------------------------------------------------
LEMMA PruneIInv ==
  ASSUME IInv, Prune
  PROVE  Core'
<1>1. /\ rows' = [k \in {j \in DOMAIN rows : ~Prunable(j)} |-> rows[k]]
      /\ expired' = expired \cup
           {rows[k].msg : k \in {j \in DOMAIN rows : Prunable(j)}}
      /\ UNCHANGED <<sends, up, alive, epoch, outages, requested, shown, gaveUp>>
  BY DEF Prune
<1>2. \A k \in DOMAIN rows : rows[k] \in Row /\ rows[k].msg \in Messages
  BY DEF IInv, Core, TypeOK, Row
<1>3. /\ DOMAIN rows' = {j \in DOMAIN rows : ~Prunable(j)}
      /\ \A k \in DOMAIN rows' : k \in DOMAIN rows /\ rows'[k] = rows[k]
  BY <1>1
<1>4. TypeOK'
  BY <1>1, <1>2, <1>3 DEF IInv, Core, TypeOK
<1>5. Filed'
  <2>1. \A k \in DOMAIN rows' : KeyOf[rows'[k].msg] = k /\ rows'[k].msg \in requested'
    BY <1>1, <1>3 DEF IInv, Core, Filed
  <2>2. ASSUME NEW m \in requested'
        PROVE  KeyOf[m] \in DOMAIN rows' \/ SharingKey(m)' \cap expired' # {}
    <3>1. m \in requested /\ expired \subseteq expired' /\ SharingKey(m)' = SharingKey(m)
      BY <1>1, <2>2 DEF SharingKey
    <3>2. CASE KeyOf[m] \in DOMAIN rows /\ Prunable(KeyOf[m])
      <4>1. /\ rows[KeyOf[m]].msg \in expired'
            /\ rows[KeyOf[m]].msg \in SharingKey(m)
        BY <1>1, <3>2 DEF IInv, Core, Filed, SharingKey
      <4> QED
        BY <3>1, <4>1
    <3>3. CASE KeyOf[m] \in DOMAIN rows /\ ~Prunable(KeyOf[m])
      BY <1>3, <3>3
    <3>4. CASE KeyOf[m] \notin DOMAIN rows
      BY <3>1, <3>4 DEF IInv, Core, Filed
    <3> QED
      BY <3>2, <3>3, <3>4
  <2> QED
    BY <2>1, <2>2 DEF Filed
<1>6. SendsFiled' /\ SentIsShown'
  BY <1>1, <1>3 DEF IInv, Core, SendsFiled, SentIsShown, KeyShown
<1> QED
  BY <1>4, <1>5, <1>6 DEF Core

LEMMA CrashIInv ==
  ASSUME IInv, Crash
  PROVE  Core'
<1> DEFINE lost == {s \in sends : s.phase = "awaited"}
           Orphan(s) == [s EXCEPT !.phase = "orphaned", !.timer = 0]
<1>1. /\ alive' = FALSE
      /\ sends' = (sends \ lost) \cup {Orphan(s) : s \in {t \in lost : ~t.reached}}
      /\ gaveUp' = [m \in Messages |->
                      gaveUp[m] + Cardinality({s \in lost : s.msg = m})]
      /\ UNCHANGED <<rows, up, epoch, outages, requested, shown, expired>>
  BY DEF Crash
<1>2. \A s \in sends : /\ Orphan(s) \in Send
                        /\ Orphan(s).msg = s.msg /\ Orphan(s).row = s.row
                        /\ Orphan(s).reached = s.reached
  <2> SUFFICES ASSUME NEW s \in sends
               PROVE  /\ Orphan(s) \in Send
                      /\ Orphan(s).msg = s.msg /\ Orphan(s).row = s.row
                      /\ Orphan(s).reached = s.reached
    OBVIOUS
  <2>1. s \in Send
    BY DEF IInv, Core, TypeOK
  <2>2. 0 \in 0..SendTimeout
    BY OutboxAssumption
  <2> QED
    BY <2>1, <2>2 DEF Send
<1>3. gaveUp' \in [Messages -> Nat]
  <2>1. ASSUME NEW m \in Messages
        PROVE  gaveUp[m] + Cardinality({s \in lost : s.msg = m}) \in Nat
    <3>1. {s \in lost : s.msg = m} \in SUBSET sends
      OBVIOUS
    <3>2. Cardinality({s \in lost : s.msg = m}) \in Nat
      BY <3>1, FS_Subset, FS_CardinalityType DEF IInv, Finite
    <3> QED
      BY <3>2 DEF IInv, Core, TypeOK
  <2> QED
    BY <1>1, <2>1
<1>4. lost \subseteq sends
  OBVIOUS
<1> HIDE DEF lost, Orphan
<1>5. \A t \in sends' : \/ t \in sends
                       \/ /\ t \in Send /\ ~t.reached
                          /\ \E s \in sends : t.msg = s.msg /\ t.row = s.row
  BY <1>1, <1>2, <1>4
<1>6. TypeOK'
  BY <1>1, <1>3, <1>5 DEF IInv, Core, TypeOK
<1>7. SendsFiled' /\ SentIsShown' /\ Filed'
  BY <1>1, <1>5 DEF IInv, Core, SendsFiled, SentIsShown, KeyShown, Filed, SharingKey
<1> QED
  BY <1>6, <1>7 DEF Core

(* A restart, and the comings and goings of providers, touch no row.       *)
LEMMA EnvironmentIInv ==
  ASSUME IInv, NEW p \in Platforms,
         Restart \/ ProviderDown(p) \/ ProviderUp(p)
  PROVE  Core'
<1>1. UNCHANGED <<rows, sends, requested, shown, gaveUp, expired>>
  BY DEF Restart, ProviderDown, ProviderUp
<1>2. up' \subseteq Platforms /\ alive' \in BOOLEAN /\ epoch' \in Nat /\ outages' \in Nat
  <2>1. up \subseteq Platforms /\ alive \in BOOLEAN /\ epoch \in Nat /\ outages \in Nat
    BY DEF IInv, Core, TypeOK
  <2>2. CASE Restart
    BY <2>1, <2>2 DEF Restart
  <2>3. CASE ProviderDown(p)
    BY <2>1, <2>3 DEF ProviderDown
  <2>4. CASE ProviderUp(p)
    BY <2>1, <2>4 DEF ProviderUp
  <2> QED
    BY <2>2, <2>3, <2>4
<1>3. TypeOK'
  BY <1>1, <1>2 DEF IInv, Core, TypeOK
<1>4. SendsFiled' /\ SentIsShown' /\ Filed'
  BY <1>1 DEF IInv, Core, SendsFiled, SentIsShown, KeyShown, Filed, SharingKey
<1> QED
  BY <1>3, <1>4 DEF Core

LEMMA TickIInv ==
  ASSUME IInv, Tick
  PROVE  Core'
<1> DEFINE Later(s) == [s EXCEPT !.timer = IF s.phase = "awaited" THEN Less(@) ELSE @]
<1>1. /\ rows' = [k \in DOMAIN rows |-> Aged(rows[k])]
      /\ sends' = {Later(s) : s \in sends}
      /\ UNCHANGED <<up, alive, epoch, outages, requested, shown, gaveUp, expired>>
  BY DEF Tick
<1>2. \A s \in sends : /\ Later(s) \in Send
                        /\ Later(s).msg = s.msg /\ Later(s).row = s.row
                        /\ Later(s).reached = s.reached
  <2> SUFFICES ASSUME NEW s \in sends
               PROVE  /\ Later(s) \in Send
                      /\ Later(s).msg = s.msg /\ Later(s).row = s.row
                      /\ Later(s).reached = s.reached
    OBVIOUS
  <2>1. s \in Send
    BY DEF IInv, Core, TypeOK
  <2>2. SendTimeout \in Nat /\ s.timer \in 0..SendTimeout
    BY <2>1, OutboxAssumption DEF Send
  <2>3. Less(s.timer) \in 0..SendTimeout
    BY <2>2, LessType
  <2> DEFINE i == IF s.phase = "awaited" THEN Less(s.timer) ELSE s.timer
  <2>4. i \in 0..SendTimeout
    BY <2>2, <2>3
  <2>5. Later(s) = [s EXCEPT !.timer = i]
    BY <2>1 DEF Send
  <2> HIDE DEF i, Later
  <2> QED
    BY <2>1, <2>4, <2>5 DEF Send
<1> HIDE DEF Later
<1>3. /\ DOMAIN rows' = DOMAIN rows
      /\ \A k \in DOMAIN rows : rows'[k] = Aged(rows[k])
  BY <1>1
<1>4. \A k \in DOMAIN rows : /\ rows'[k] \in Row
                             /\ rows'[k].msg = rows[k].msg
                             /\ rows'[k].state = rows[k].state
  BY <1>3, RowUpdates DEF IInv, Core, TypeOK
<1>5. /\ DOMAIN rows' \subseteq Keys
      /\ \A k \in DOMAIN rows' : rows'[k] \in Row
      /\ Filed' /\ SentIsShown'
  BY <1>1, <1>3, <1>4, RewriteIInv
<1>6. TypeOK'
  BY <1>1, <1>2, <1>5 DEF IInv, Core, TypeOK
<1>7. SendsFiled'
  BY <1>1, <1>2 DEF IInv, Core, SendsFiled
<1> QED
  BY <1>5, <1>6, <1>7 DEF Core

-----------------------------------------------------------------------------
(* Every step adds, drops or rewrites finitely many rows and sends.        *)
LEMMA FiniteStep ==
  ASSUME IInv, Next
  PROVE  Finite'
<1>1. IsFiniteSet(DOMAIN rows) /\ IsFiniteSet(sends)
  BY DEF IInv, Finite
<1>2. ASSUME NEW s
      PROVE  /\ IsFiniteSet(sends \cup {s})
             /\ \A T \in SUBSET sends : IsFiniteSet(T) /\ IsFiniteSet(T \cup {s})
  BY <1>1, FS_AddElement, FS_Subset
<1>3. ASSUME NEW m \in Messages,
             EnqueueText(m) \/ EnqueueDirectText(m) \/ RecordTextDelivered(m)
      PROVE  Finite'
  <2>1. DOMAIN rows' = DOMAIN rows \/ DOMAIN rows' = DOMAIN rows \cup {KeyOf[m]}
    BY <1>3 DEF EnqueueText, EnqueueDirectText, RecordTextDelivered, Insert
  <2>2. sends' = sends \/ sends' = sends \cup {NewSend(m, Holder(m), "direct", 0)}
    BY <1>3 DEF EnqueueText, EnqueueDirectText, RecordTextDelivered
  <2> QED
    BY <1>1, <1>2, <2>1, <2>2, FS_AddElement DEF Finite
<1>4. ASSUME ProcessOutbox
      PROVE  Finite'
  <2>1. PICK C \in SUBSET DOMAIN rows :
          /\ DOMAIN rows' = DOMAIN rows
          /\ sends' = sends \cup
               {NewSend(rows[k].msg, rows[k].msg, "worker", rows[k].attempts + 1) :
                  k \in {c \in C : rows[c].msg \notin Blank}}
    BY <1>4 DEF ProcessOutbox
  <2> DEFINE D == {c \in C : rows[c].msg \notin Blank}
             f == [k \in D |-> NewSend(rows[k].msg, rows[k].msg, "worker", rows[k].attempts + 1)]
  <2>2. D \in SUBSET DOMAIN rows
    OBVIOUS
  <2>3. IsFiniteSet(D)
    BY <1>1, <2>2, FS_Subset
  <2>4. f = [k \in D |-> f[k]]
    OBVIOUS
  <2>5. sends' = sends \cup {f[k] : k \in D}
    BY <2>1
  <2> HIDE DEF D, f
  <2>6. IsFiniteSet({f[k] : k \in D})
    BY <2>3, <2>4, ImageFinite
  <2>7. IsFiniteSet(sends')
    BY <1>1, <2>5, <2>6, FS_Union
  <2> QED
    BY <1>1, <2>1, <2>7 DEF Finite
<1>5. ASSUME NEW s \in sends, Show(s) \/ Acknowledge(s) \/ Reject(s) \/ TimeOut(s)
      PROVE  Finite'
  <2>1. DOMAIN rows' = DOMAIN rows
    BY <1>5 DEF Show, Acknowledge, Reject, TimeOut, GiveUp, Fail, MarkSent,
                MarkEnqueuedSent, Update
  <2>2. PICK t : sends' \subseteq sends \cup {t}
    BY <1>5 DEF Show, Acknowledge, Reject, TimeOut
  <2> QED
    BY <1>1, <1>2, <2>1, <2>2, FS_Subset DEF Finite
<1>6. ASSUME Prune
      PROVE  Finite'
  <2>1. DOMAIN rows' \in SUBSET DOMAIN rows /\ sends' = sends
    BY <1>6 DEF Prune
  <2> QED
    BY <1>1, <2>1, FS_Subset DEF Finite
<1>7. ASSUME Crash
      PROVE  Finite'
  <2> DEFINE D == {t \in sends : t.phase = "awaited" /\ ~t.reached}
             f == [s \in D |-> [s EXCEPT !.phase = "orphaned", !.timer = 0]]
  <2>1. sends' \subseteq sends \cup {f[s] : s \in D}
    BY <1>7 DEF Crash
  <2>2. D \in SUBSET sends
    OBVIOUS
  <2>3. f = [s \in D |-> f[s]]
    OBVIOUS
  <2>4. rows' = rows
    BY <1>7 DEF Crash
  <2> HIDE DEF D, f
  <2>5. IsFiniteSet(D)
    BY <1>1, <2>2, FS_Subset
  <2>6. IsFiniteSet({f[s] : s \in D})
    BY <2>3, <2>5, ImageFinite
  <2>7. IsFiniteSet(sends \cup {f[s] : s \in D})
    BY <1>1, <2>6, FS_Union
  <2> QED
    BY <1>1, <2>1, <2>4, <2>7, FS_Subset DEF Finite
<1>8. ASSUME NEW p \in Platforms, ProviderDown(p) \/ ProviderUp(p)
      PROVE  Finite'
  BY <1>1, <1>8 DEF ProviderDown, ProviderUp, Finite
<1>9. ASSUME Restart
      PROVE  Finite'
  BY <1>1, <1>9 DEF Restart, Finite
<1>10. ASSUME Tick
       PROVE  Finite'
  <2> DEFINE f == [s \in sends |->
                    [s EXCEPT !.timer = IF s.phase = "awaited" THEN Less(@) ELSE @]]
  <2>1. f = [s \in sends |-> f[s]]
    OBVIOUS
  <2>2. DOMAIN rows' = DOMAIN rows /\ sends' = {f[s] : s \in sends}
    BY <1>10 DEF Tick
  <2> HIDE DEF f
  <2>3. IsFiniteSet({f[s] : s \in sends})
    BY <1>1, <2>1, ImageFinite
  <2> QED
    BY <1>1, <2>2, <2>3 DEF Finite
<1> QED
  BY <1>3, <1>4, <1>5, <1>6, <1>7, <1>8, <1>9, <1>10 DEF Next, Settle

LEMMA NextIInv ==
  ASSUME IInv, [Next]_vars
  PROVE  IInv'
<1>1. ASSUME Next
      PROVE  Core'
  <2>1. CASE \E m \in Messages :
               EnqueueText(m) \/ EnqueueDirectText(m) \/ RecordTextDelivered(m)
    BY <2>1, EnqueueIInv
  <2>2. CASE ProcessOutbox
    BY <2>2, ProcessOutboxIInv
  <2>3. CASE (\E s \in sends : Show(s)) \/ Settle
    BY <2>3, SendStepIInv DEF Settle
  <2>4. CASE Prune
    BY <2>4, PruneIInv
  <2>5. CASE Crash
    BY <2>5, CrashIInv
  <2>6. CASE Restart
    <3>1. TypeOK' /\ Filed' /\ SendsFiled' /\ SentIsShown'
      BY <2>6 DEF Restart, IInv, Core, TypeOK, Filed, SharingKey, SendsFiled, SentIsShown, KeyShown
    <3> QED
      BY <3>1 DEF Core
  <2>7. CASE \E p \in Platforms : ProviderDown(p) \/ ProviderUp(p)
    BY <2>7, EnvironmentIInv
  <2>8. CASE Tick
    BY <2>8, TickIInv
  <2> QED
    BY <1>1, <2>1, <2>2, <2>3, <2>4, <2>5, <2>6, <2>7, <2>8 DEF Next
<1>2. CASE Next
  BY <1>1, <1>2, FiniteStep DEF IInv
<1>3. CASE UNCHANGED vars
  BY <1>3 DEF vars, IInv, Core, TypeOK, Finite, Filed, SharingKey, SendsFiled, SentIsShown, KeyShown
<1> QED
  BY <1>2, <1>3

(* The invariant that types and at-least-once delivery rest on holds.      *)
THEOREM Invariance ==
  Spec => []IInv
<1>1. Init => IInv
  BY InitIInv
<1>2. IInv /\ [Next]_vars => IInv'
  BY NextIInv
<1> QED
  BY <1>1, <1>2, PTL DEF Spec

(* Every variable of the outbox keeps its type.                            *)
THEOREM TypeCorrect ==
  Spec => []TypeOK
<1>1. IInv => TypeOK
  BY DEF IInv, Core
<1> QED
  BY <1>1, Invariance, PTL

(* At-least-once delivery: whatever crashes, lost answers, timeouts,       *)
(* outages and concurrent claims occur, of the messages the outbox         *)
(* accepted under a key one has been shown, or a row of theirs is there    *)
(* and unsent, or it was pruned.  It is about one message where the key is *)
(* that message's alone.                                                   *)
THEOREM AtLeastOnce == Spec => []AcceptedIsKept
<1>1. IInv => AcceptedIsKept
  <2> SUFFICES ASSUME IInv, NEW m \in requested
               PROVE  \/ \E n \in SharingKey(m) : shown[n] > 0
                      \/ KeyOf[m] \in DOMAIN rows /\ rows[KeyOf[m]].state # "sent"
                      \/ KeyOf[m] \notin DOMAIN rows /\ SharingKey(m) \cap expired # {}
    BY DEF AcceptedIsKept
  <2>1. CASE KeyOf[m] \notin DOMAIN rows
    BY <2>1 DEF IInv, Core, Filed
  <2>2. CASE KeyOf[m] \in DOMAIN rows /\ rows[KeyOf[m]].state = "sent"
    BY <2>2 DEF IInv, Core, SentIsShown, KeyShown, SharingKey
  <2> QED
    BY <2>1, <2>2
<1> QED
  BY <1>1, Invariance, PTL

-----------------------------------------------------------------------------
(* What the worker and the fast path rely on while they await a send.      *)
Live(s) == s.phase = "awaited"

(* No two awaited sends carry the same message. *)
OneAwaited == \A s, t \in sends : Live(s) /\ Live(t) /\ s.msg = t.msg => s = t

(* A dead process awaits nothing. *)
DeadIsSilent == ~alive => \A s \in sends : ~Live(s)

(* The row filed under the key of m is its own. *)
Owns(m) == KeyOf[m] \in DOMAIN rows /\ rows[KeyOf[m]].msg = m

(* Nobody else may deliver the message of an awaited send from a row of    *)
(* its own before that send is over: the worker's row is leased to it for  *)
(* longer than the send may take, and the fast path's row, if it got one,  *)
(* is held back for longer or was marked sent through another of its key.  *)
Secured(s) ==
  LET r == rows[KeyOf[s.msg]]
  IN  \/ /\ s.by = "worker"
         /\ Owns(s.msg) /\ s.row = s.msg
         /\ r.state = "leased" /\ r.owner = epoch /\ r.attempts = s.n
         /\ r.lease > s.timer
      \/ /\ s.by = "direct"
         /\ Owns(s.msg) =>
              s.row = s.msg /\ (r.state = "sent" \/ (r.state = "pending" /\ r.wait > s.timer))

AwaitedSecured == \A s \in sends : Live(s) => Secured(s)

(* Only what was asked for is sent or shown. *)
Asked ==
  /\ \A s \in sends : s.msg \in requested
  /\ \A m \in Messages \ requested : shown[m] = 0

SendInv == OneAwaited /\ DeadIsSilent /\ AwaitedSecured /\ Asked

LEMMA TypeFacts ==
  ASSUME IInv
  PROVE  /\ \A s \in sends : /\ s \in Send /\ s.msg \in Messages
                             /\ s.by \in {"direct", "worker"} /\ s.timer \in Nat
         /\ \A s \in sends : s.row \in Messages /\ KeyOf[s.row] = KeyOf[s.msg]
         /\ \A k \in DOMAIN rows : /\ rows[k] \in Row /\ rows[k].msg \in Messages
                                   /\ rows[k].wait \in Nat /\ rows[k].lease \in Nat
                                   /\ rows[k].attempts \in Nat
                                   /\ rows[k].state \in State
                                   /\ rows[k].msg \in requested
                                   /\ KeyOf[rows[k].msg] = k
         /\ epoch \in Nat
         /\ requested \subseteq Messages
         /\ shown \in [Messages -> Nat] /\ gaveUp \in [Messages -> Nat]
         /\ SendTimeout \in Nat /\ Grace \in Nat /\ Lease \in Nat
         /\ SendTimeout < Grace /\ SendTimeout < Lease
BY OutboxAssumption DEF IInv, Core, TypeOK, Filed, SendsFiled, Send, Row

LEMMA SecuredKept ==
  ASSUME NEW s, Secured(s), epoch' = epoch,
         Owns(s.msg)' <=> Owns(s.msg),
         Owns(s.msg) => rows'[KeyOf[s.msg]] = rows[KeyOf[s.msg]]
  PROVE  Secured(s)'
BY DEF Secured

(* A step that starts no awaited send and leaves those there are secured.  *)
LEMMA UndisturbedSendInv ==
  ASSUME SendInv, alive' = alive,
         requested \subseteq requested',
         \A s \in sends' : Live(s) => s \in sends /\ Secured(s)',
         \A s \in sends' : \E t \in sends : t.msg = s.msg,
         \A m \in Messages \ requested' : shown'[m] = shown[m]
  PROVE  SendInv'
<1>1. OneAwaited' /\ DeadIsSilent'
  BY DEF SendInv, OneAwaited, DeadIsSilent, Live
<1>2. AwaitedSecured'
  BY DEF AwaitedSecured, Live
<1>3. Asked'
  BY DEF SendInv, Asked
<1> QED
  BY <1>1, <1>2, <1>3 DEF SendInv

(* What an insert does to the rows that messages own. *)
LEMMA InsertFacts ==
  ASSUME IInv, NEW m \in Messages \ requested, NEW st, NEW delay, Insert(m, st, delay)
  PROVE  /\ \A k \in DOMAIN rows : k \in DOMAIN rows' /\ rows'[k] = rows[k]
         /\ \A n \in Messages : n # m =>
              /\ Owns(n)' <=> Owns(n)
              /\ Owns(n) => rows'[KeyOf[n]] = rows[KeyOf[n]]
         /\ DOMAIN rows' = DOMAIN rows \cup {KeyOf[m]}
         /\ KeyOf[m] \in DOMAIN rows => rows' = rows /\ ~Owns(m)'
         /\ KeyOf[m] \notin DOMAIN rows =>
              /\ Holder(m) = m
              /\ rows'[KeyOf[m]].state = st /\ rows'[KeyOf[m]].wait = delay
<1>1. CASE KeyOf[m] \in DOMAIN rows
  <2>1. rows' = rows /\ rows[KeyOf[m]].msg # m
    BY <1>1, TypeFacts DEF Insert
  <2> QED
    BY <1>1, <2>1 DEF Owns
<1>2. CASE KeyOf[m] \notin DOMAIN rows
  <2> DEFINE new == [msg |-> m, state |-> st, wait |-> delay, attempts |-> 0,
                     owner |-> 0, lease |-> 0, age |-> 0]
  <2>1. rows' = [k \in DOMAIN rows \cup {KeyOf[m]} |-> IF k = KeyOf[m] THEN new ELSE rows[k]]
    BY <1>2 DEF Insert
  <2>2. new.msg = m /\ new.state = st /\ new.wait = delay
    OBVIOUS
  <2> HIDE DEF new
  <2> QED
    BY <1>2, <2>1, <2>2 DEF Owns, Holder
<1> QED
  BY <1>1, <1>2

LEMMA EnqueueSendInv ==
  ASSUME IInv, SendInv, NEW m \in Messages,
         EnqueueText(m) \/ EnqueueDirectText(m) \/ RecordTextDelivered(m)
  PROVE  SendInv'
<1>1. m \in Messages \ requested
  BY DEF EnqueueText, EnqueueDirectText, RecordTextDelivered, Queued
<1>2. \A s \in sends : /\ s.msg \in requested /\ s.msg \in Messages /\ s.msg # m
                       /\ Live(s) => Secured(s)
  BY <1>1, TypeFacts DEF SendInv, Asked, AwaitedSecured
<1>3. ASSUME NEW st, NEW delay, Insert(m, st, delay), epoch' = epoch,
             NEW s \in sends, Live(s)
      PROVE  Secured(s)'
  <2>1. s.msg \in Messages /\ s.msg # m /\ Secured(s)
    BY <1>2, <1>3
  <2>2. Owns(s.msg)' <=> Owns(s.msg)
    BY <1>1, <1>3, <2>1, InsertFacts
  <2>3. Owns(s.msg) => rows'[KeyOf[s.msg]] = rows[KeyOf[s.msg]]
    BY <1>1, <1>3, <2>1, InsertFacts
  <2> QED
    BY <1>3, <2>1, <2>2, <2>3, SecuredKept
<1>4. CASE EnqueueText(m) \/ RecordTextDelivered(m)
  <2>1. /\ \E st, delay : Insert(m, st, delay)
        /\ requested' = requested \cup {m}
        /\ \A n \in Messages \ {m} : shown'[n] = shown[n]
        /\ UNCHANGED <<sends, alive, epoch>>
    BY <1>4, TypeFacts DEF EnqueueText, RecordTextDelivered
  <2>2. \A s \in sends : Live(s) => Secured(s)'
    <3> SUFFICES ASSUME NEW s \in sends, Live(s) PROVE Secured(s)'
      OBVIOUS
    <3> QED
      BY <1>3, <2>1
  <2> QED
    BY <2>1, <2>2, UndisturbedSendInv
<1>5. CASE EnqueueDirectText(m)
  <2> PICK new : new = NewSend(m, Holder(m), "direct", 0)
    OBVIOUS
  <2>1. /\ Insert(m, "pending", Grace)
        /\ requested' = requested \cup {m}
        /\ sends' \subseteq sends \cup {new}
        /\ alive /\ UNCHANGED <<alive, epoch, shown>>
    BY <1>5 DEF EnqueueDirectText
  <2>2. new.msg = m /\ new.row = Holder(m) /\ new.by = "direct" /\ new.timer = SendTimeout
    BY DEF NewSend
  <2>3. AwaitedSecured'
    <3>1. Secured(new)'
      <4>1. Owns(m)' => /\ Holder(m) = m
                        /\ rows'[KeyOf[m]].state = "pending" /\ rows'[KeyOf[m]].wait = Grace
        BY <1>1, <2>1, InsertFacts
      <4>2. Grace > SendTimeout
        BY TypeFacts
      <4> QED
        BY <2>2, <4>1, <4>2 DEF Secured, Owns
    <3>2. ASSUME NEW s \in sends, Live(s) PROVE Secured(s)'
      BY <1>3, <2>1, <3>2
    <3>3. ASSUME NEW s \in sends', Live(s) PROVE Secured(s)'
      <4>1. s = new \/ s \in sends
        BY <2>1
      <4> QED
        BY <3>1, <3>2, <3>3, <4>1
    <3> QED
      BY <3>3 DEF AwaitedSecured, Live
  <2>4. OneAwaited'
    BY <1>2, <2>1, <2>2 DEF SendInv, OneAwaited, Live
  <2>5. DeadIsSilent' /\ Asked'
    BY <1>2, <2>1, <2>2 DEF SendInv, DeadIsSilent, Asked
  <2> QED
    BY <2>3, <2>4, <2>5 DEF SendInv
<1> QED
  BY <1>4, <1>5

(* What a claim does: it passes over the rows of awaited sends, and leases *)
(* each row it sends for longer than the send may take.                    *)
LEMMA ClaimFacts ==
  ASSUME IInv, SendInv, ProcessOutbox
  PROVE  \E C \in SUBSET DOMAIN rows :
           /\ DOMAIN rows' = DOMAIN rows
           /\ \A k \in DOMAIN rows \ C : rows'[k] = rows[k]
           /\ \A k \in C : /\ Claimable(k)
                           /\ rows[k].msg \in Blank => rows'[k] = Undeliverable(rows[k])
                           /\ rows[k].msg \notin Blank => rows'[k] = Leased(rows[k])
           /\ \A k \in DOMAIN rows : rows'[k].msg = rows[k].msg
           /\ sends \subseteq sends'
           /\ \A t \in sends' \ sends : \E k \in C :
                /\ rows[k].msg \notin Blank
                /\ t = NewSend(rows[k].msg, rows[k].msg, "worker", rows[k].attempts + 1)
           /\ \A s \in sends : Live(s) => /\ s.by = "direct"
                                          /\ Owns(s.msg) => KeyOf[s.msg] \notin C
           /\ alive
           /\ UNCHANGED <<up, alive, epoch, outages, requested, shown, gaveUp, expired>>
<1>1. PICK C \in SUBSET {k \in DOMAIN rows : Claimable(k)} :
        /\ rows' = [k \in DOMAIN rows |->
                      CASE k \notin C -> rows[k]
                        [] k \in C /\ rows[k].msg \in Blank -> Undeliverable(rows[k])
                        [] OTHER -> Leased(rows[k])]
        /\ sends' = sends \cup
             {NewSend(rows[k].msg, rows[k].msg, "worker", rows[k].attempts + 1) :
                k \in {c \in C : rows[c].msg \notin Blank}}
  BY DEF ProcessOutbox
<1>2. /\ alive
      /\ Awaited("worker") = {}
      /\ UNCHANGED <<up, alive, epoch, outages, requested, shown, gaveUp, expired>>
  BY DEF ProcessOutbox
<1>3. ASSUME NEW s \in sends, Live(s)
      PROVE  s.by = "direct" /\ (Owns(s.msg) => KeyOf[s.msg] \notin C)
  <2>1. s.by = "direct"
    BY <1>2, <1>3, TypeFacts DEF Awaited, Live
  <2>2. ASSUME Owns(s.msg), KeyOf[s.msg] \in C PROVE FALSE
    <3>1. \/ rows[KeyOf[s.msg]].state = "sent"
          \/ rows[KeyOf[s.msg]].wait > s.timer
      BY <1>3, <2>1, <2>2 DEF SendInv, AwaitedSecured, Secured
    <3>2. rows[KeyOf[s.msg]].wait = 0 /\ rows[KeyOf[s.msg]].state # "sent"
      BY <1>1, <2>2 DEF Claimable
    <3> QED
      BY <3>1, <3>2, TypeFacts
  <2> QED
    BY <2>1, <2>2
<1>4. /\ DOMAIN rows' = DOMAIN rows
      /\ \A k \in DOMAIN rows \ C : rows'[k] = rows[k]
      /\ \A k \in C : /\ rows[k].msg \in Blank => rows'[k] = Undeliverable(rows[k])
                      /\ rows[k].msg \notin Blank => rows'[k] = Leased(rows[k])
  BY <1>1
<1>5. \A k \in DOMAIN rows : rows'[k].msg = rows[k].msg
  BY <1>1, <1>4, RowUpdates, TypeFacts
<1> QED
  BY <1>1, <1>2, <1>3, <1>4, <1>5

LEMMA ProcessOutboxSendInv ==
  ASSUME IInv, SendInv, ProcessOutbox
  PROVE  SendInv'
<1>1. PICK C \in SUBSET DOMAIN rows :
        /\ DOMAIN rows' = DOMAIN rows
        /\ \A k \in DOMAIN rows \ C : rows'[k] = rows[k]
        /\ \A k \in C : rows[k].msg \notin Blank => rows'[k] = Leased(rows[k])
        /\ \A k \in DOMAIN rows : rows'[k].msg = rows[k].msg
        /\ \A t \in sends' \ sends : \E k \in C :
             /\ rows[k].msg \notin Blank
             /\ t = NewSend(rows[k].msg, rows[k].msg, "worker", rows[k].attempts + 1)
        /\ \A s \in sends : Live(s) => (Owns(s.msg) => KeyOf[s.msg] \notin C)
        /\ alive
        /\ UNCHANGED <<alive, epoch, requested, shown>>
  BY ClaimFacts
<1>2. ASSUME NEW t \in sends' \ sends
      PROVE  /\ t.msg \in requested /\ Owns(t.msg) /\ KeyOf[t.msg] \in C
             /\ t = NewSend(t.msg, t.msg, "worker", rows[KeyOf[t.msg]].attempts + 1)
             /\ Secured(t)'
  <2>1. PICK k \in C : /\ rows[k].msg \notin Blank
                       /\ t = NewSend(rows[k].msg, rows[k].msg, "worker", rows[k].attempts + 1)
    BY <1>1
  <2>2. t.msg = rows[k].msg /\ KeyOf[t.msg] = k /\ t.msg \in requested /\ t.row = t.msg
    BY <2>1, TypeFacts DEF NewSend
  <2>3. t.by = "worker" /\ t.n = rows[k].attempts + 1 /\ t.timer = SendTimeout
    BY <2>1 DEF NewSend
  <2>4. rows[k] \in Row /\ rows'[k] = Leased(rows[k]) /\ rows'[k].msg = t.msg
    BY <1>1, <2>1, <2>2, TypeFacts
  <2>5. /\ rows'[k].state = "leased" /\ rows'[k].owner = epoch
        /\ rows'[k].lease = Lease /\ rows'[k].attempts = rows[k].attempts + 1
    BY <2>4, TypeFacts DEF Leased, Row
  <2>6. Secured(t)'
    BY <1>1, <2>2, <2>3, <2>4, <2>5, TypeFacts DEF Secured, Owns
  <2>7. Owns(t.msg)
    BY <2>2 DEF Owns
  <2> QED
    BY <2>1, <2>2, <2>6, <2>7
<1>3. AwaitedSecured'
  <2>1. ASSUME NEW s \in sends, Live(s) PROVE Secured(s)'
    <3>1. Secured(s)
      BY <2>1 DEF SendInv, AwaitedSecured
    <3>2. Owns(s.msg)' <=> Owns(s.msg)
      BY <1>1 DEF Owns
    <3>3. Owns(s.msg) => rows'[KeyOf[s.msg]] = rows[KeyOf[s.msg]]
      BY <1>1, <2>1 DEF Owns
    <3> QED
      BY <1>1, <3>1, <3>2, <3>3, SecuredKept
  <2> QED
    BY <1>2, <2>1 DEF AwaitedSecured, Live
<1>4. OneAwaited'
  <2> SUFFICES ASSUME NEW s \in sends', NEW t \in sends', Live(s), Live(t), s.msg = t.msg
               PROVE  s = t
    BY DEF OneAwaited, Live
  <2>1. CASE s \in sends /\ t \in sends
    BY <2>1 DEF SendInv, OneAwaited
  <2>2. CASE s \notin sends /\ t \notin sends
    BY <1>2, <2>2
  <2>3. CASE s \in sends /\ t \notin sends
    BY <1>1, <1>2, <2>3
  <2>4. CASE s \notin sends /\ t \in sends
    BY <1>1, <1>2, <2>4
  <2> QED
    BY <2>1, <2>2, <2>3, <2>4
<1>5. DeadIsSilent' /\ Asked'
  BY <1>1, <1>2 DEF SendInv, DeadIsSilent, Asked
<1> QED
  BY <1>3, <1>4, <1>5 DEF SendInv

(* A send that ends rewrites at most the row it reports to: the worker's  *)
(* from leased, the fast path's, which it can only mark sent, from pending *)
(* or failed.                                                              *)
LEMMA EndSendRows ==
  ASSUME IInv, SendInv, NEW s \in sends,
         Acknowledge(s) \/ Reject(s) \/ TimeOut(s)
  PROVE  /\ DOMAIN rows' = DOMAIN rows
         /\ \A k \in DOMAIN rows :
              \/ rows'[k] = rows[k]
              \/ /\ rows[k].msg = s.row /\ k = KeyOf[s.msg] /\ rows'[k].msg = rows[k].msg
                 /\ \/ /\ s.by = "worker" /\ rows[k].state = "leased"
                       /\ rows'[k].state \in {"sent", "failed", "dead_letter"}
                    \/ /\ s.by = "direct" /\ rows[k].state \in {"pending", "failed"}
                       /\ rows'[k].state = "sent"
                 /\ rows'[k].state = "sent" => s.reached
<1>1. \A k \in RowOf(s) : /\ k \in DOMAIN rows /\ rows[k].msg = s.row /\ k = KeyOf[s.msg]
                          /\ rows[k] \in Row
  BY TypeFacts DEF RowOf
<1>2. \A k \in RowOf(s) :
        /\ Sent(rows[k]).msg = rows[k].msg /\ Sent(rows[k]).state = "sent"
        /\ Failed(rows[k]).msg = rows[k].msg
        /\ Failed(rows[k]).state \in {"failed", "dead_letter"}
  BY <1>1, RowUpdates, TypeFacts
<1>3. \/ rows' = rows
      \/ s.by = "worker" /\ Fail(s)
      \/ s.by = "worker" /\ s.reached /\ MarkSent(s)
      \/ s.by = "direct" /\ s.reached /\ MarkEnqueuedSent(s)
  BY TypeFacts DEF Acknowledge, Reject, TimeOut, GiveUp
<1>4. CASE rows' = rows
  BY <1>4
<1>5. CASE s.by = "worker" /\ Fail(s)
  <2>1. rows' = [k \in DOMAIN rows |-> IF k \in Held(s) THEN Failed(rows[k]) ELSE rows[k]]
    BY <1>5 DEF Fail, Update
  <2>2. \A k \in Held(s) : k \in RowOf(s) /\ rows[k].state = "leased"
    BY DEF Held
  <2> QED
    BY <1>1, <1>2, <1>5, <2>1, <2>2
<1>6. CASE s.by = "worker" /\ s.reached /\ MarkSent(s)
  <2>1. rows' = [k \in DOMAIN rows |-> IF k \in Held(s) THEN Sent(rows[k]) ELSE rows[k]]
    BY <1>6 DEF MarkSent, Update
  <2>2. \A k \in Held(s) : k \in RowOf(s) /\ rows[k].state = "leased"
    BY DEF Held
  <2> QED
    BY <1>1, <1>2, <1>6, <2>1, <2>2
<1>7. CASE s.by = "direct" /\ s.reached /\ MarkEnqueuedSent(s)
  <2> DEFINE K == {k \in RowOf(s) : rows[k].state \in {"pending", "failed"}}
  <2>1. rows' = [k \in DOMAIN rows |-> IF k \in K THEN Sent(rows[k]) ELSE rows[k]]
    BY <1>7 DEF MarkEnqueuedSent, Update
  <2> QED
    BY <1>1, <1>2, <1>7, <2>1
<1> QED
  BY <1>3, <1>4, <1>5, <1>6, <1>7

LEMMA SettleSendInv ==
  ASSUME IInv, SendInv, NEW s \in sends,
         Acknowledge(s) \/ Reject(s) \/ TimeOut(s)
  PROVE  SendInv'
<1>1. /\ Live(s)
      /\ UNCHANGED <<alive, epoch, requested, shown>>
      /\ sends' \subseteq (sends \ {s}) \cup {[s EXCEPT !.phase = "abandoned"]}
  BY DEF Acknowledge, Reject, TimeOut, GiveUp, Live
<1> DEFINE old == [s EXCEPT !.phase = "abandoned"]
<1>2. old.msg = s.msg /\ ~Live(old)
  BY TypeFacts DEF Send, Live
<1> HIDE DEF old
<1>3. sends' \subseteq (sends \ {s}) \cup {old}
  BY <1>1 DEF old
<1>4. ASSUME NEW t \in sends', Live(t)
      PROVE  t \in sends /\ Secured(t)'
  <2>1. t \in sends /\ t # s
    BY <1>2, <1>3, <1>4
  <2>2. t.msg # s.msg /\ Secured(t)
    BY <1>1, <1>4, <2>1 DEF SendInv, OneAwaited, AwaitedSecured
  <2>3. Owns(t.msg)' <=> Owns(t.msg)
    BY EndSendRows DEF Owns
  <2>4. CASE Owns(t.msg) => rows'[KeyOf[t.msg]] = rows[KeyOf[t.msg]]
    <3>1. epoch' = epoch
      BY <1>1
    <3> QED
      BY <2>1, <2>2, <2>3, <2>4, <3>1, SecuredKept
  <2>5. CASE Owns(t.msg) /\ rows'[KeyOf[t.msg]] # rows[KeyOf[t.msg]]
    <3>1. /\ t.msg = s.row
          /\ \/ s.by = "worker"
             \/ /\ rows[KeyOf[t.msg]].state # "leased"
                /\ rows'[KeyOf[t.msg]].state = "sent"
      BY <2>5, EndSendRows DEF Owns
    <3>2. s.by # "worker"
      BY <1>1, <2>2, <3>1 DEF SendInv, AwaitedSecured, Secured
    <3>3. t.by = "direct" /\ t.row = t.msg
      BY <2>2, <2>5, <3>1, <3>2 DEF Secured
    <3>4. rows'[KeyOf[t.msg]].state = "sent"
      BY <3>1, <3>2
    <3> QED
      BY <2>1, <3>3, <3>4 DEF Secured
  <2> QED
    BY <2>1, <2>4, <2>5
<1> QED
  BY <1>1, <1>2, <1>3, <1>4, UndisturbedSendInv

LEMMA ShowSendInv ==
  ASSUME IInv, SendInv, NEW s \in sends, Show(s)
  PROVE  SendInv'
<1> DEFINE new == [s EXCEPT !.reached = TRUE]
<1>1. /\ UNCHANGED <<rows, alive, epoch, requested>>
      /\ shown' = [shown EXCEPT ![s.msg] = @ + 1]
      /\ \A t \in sends' : (t \in sends /\ t # s) \/ (t = new /\ Live(s))
  BY DEF Show, Live
<1>2. /\ new.msg = s.msg /\ new.row = s.row /\ new.by = s.by /\ new.n = s.n
      /\ new.timer = s.timer /\ new.phase = s.phase
  BY TypeFacts DEF Send
<1> HIDE DEF new
<1>3. OneAwaited'
  BY <1>1, <1>2 DEF SendInv, OneAwaited, Live
<1>4. DeadIsSilent'
  BY <1>1, <1>2 DEF SendInv, DeadIsSilent, Live
<1>5. AwaitedSecured'
  BY <1>1, <1>2 DEF SendInv, AwaitedSecured, Secured, Owns, Live
<1>6. Asked'
  BY <1>1, <1>2, TypeFacts DEF SendInv, Asked
<1> QED
  BY <1>3, <1>4, <1>5, <1>6 DEF SendInv

LEMMA PruneSendInv ==
  ASSUME SendInv, Prune
  PROVE  SendInv'
<1>1. /\ DOMAIN rows' = {k \in DOMAIN rows : ~Prunable(k)}
      /\ \A k \in DOMAIN rows' : rows'[k] = rows[k]
      /\ UNCHANGED <<sends, alive, epoch, requested, shown>>
  BY DEF Prune
<1>2. ASSUME NEW s \in sends, Live(s)
      PROVE  Secured(s)'
  <2>1. Secured(s)
    BY <1>2 DEF SendInv, AwaitedSecured
  <2>2. Owns(s.msg) => ~Prunable(KeyOf[s.msg])
    BY <2>1 DEF Secured, Prunable
  <2>3. Owns(s.msg)' <=> Owns(s.msg)
    BY <1>1, <2>2 DEF Owns
  <2>4. Owns(s.msg) => rows'[KeyOf[s.msg]] = rows[KeyOf[s.msg]]
    BY <1>1, <2>2 DEF Owns
  <2> QED
    BY <1>1, <2>1, <2>3, <2>4, SecuredKept
<1> QED
  BY <1>1, <1>2, UndisturbedSendInv

LEMMA CrashSendInv ==
  ASSUME IInv, SendInv, Crash
  PROVE  SendInv'
<1> DEFINE Orphan(s) == [s EXCEPT !.phase = "orphaned", !.timer = 0]
           lost == {s \in sends : s.phase = "awaited"}
<1>1. /\ alive' = FALSE
      /\ sends' = (sends \ lost) \cup {Orphan(s) : s \in {t \in lost : ~t.reached}}
      /\ gaveUp' = [m \in Messages |->
                      gaveUp[m] + Cardinality({s \in lost : s.msg = m})]
      /\ UNCHANGED <<rows, up, epoch, outages, requested, shown, expired>>
  BY ZenonT(30) DEF Crash
<1>2. \A s \in sends : Orphan(s).msg = s.msg /\ ~Live(Orphan(s))
  <2> SUFFICES ASSUME NEW s \in sends
               PROVE  Orphan(s).msg = s.msg /\ ~Live(Orphan(s))
    OBVIOUS
  <2>1. s \in Send
    BY TypeFacts
  <2> QED
    BY <2>1 DEF Send, Live
<1>3. \A s \in sends : s \in lost <=> Live(s)
  BY DEF Live
<1> HIDE DEF Orphan, lost
<1>4. lost \subseteq sends
  BY DEF lost
<1>5. \A t \in sends' : ~Live(t) /\ \E s \in sends : t.msg = s.msg
  BY <1>1, <1>2, <1>3, <1>4
<1>6. OneAwaited' /\ DeadIsSilent' /\ AwaitedSecured'
  BY <1>5 DEF OneAwaited, DeadIsSilent, AwaitedSecured, Live
<1>7. Asked'
  BY <1>1, <1>5 DEF SendInv, Asked
<1> QED
  BY <1>6, <1>7 DEF SendInv

LEMMA TickSendInv ==
  ASSUME IInv, SendInv, Tick
  PROVE  SendInv'
<1> DEFINE Later(s) == [s EXCEPT !.timer = IF s.phase = "awaited" THEN Less(@) ELSE @]
<1>1. /\ DOMAIN rows' = DOMAIN rows
      /\ \A k \in DOMAIN rows : rows'[k] = Aged(rows[k])
      /\ \A t \in sends' : \E s \in sends : t = Later(s)
      /\ \A s \in sends : Live(s) => s.timer > 0
      /\ UNCHANGED <<alive, epoch, requested, shown>>
  BY DEF Tick, Live
<1>2. \A s \in sends : /\ Later(s).msg = s.msg /\ Later(s).row = s.row /\ Later(s).by = s.by
                       /\ Later(s).phase = s.phase /\ Later(s).n = s.n
                       /\ Live(s) => Later(s).timer = s.timer - 1
  <2> SUFFICES ASSUME NEW s \in sends
               PROVE  /\ Later(s).msg = s.msg /\ Later(s).row = s.row /\ Later(s).by = s.by
                      /\ Later(s).phase = s.phase /\ Later(s).n = s.n
                      /\ Live(s) => Later(s).timer = s.timer - 1
    OBVIOUS
  <2>1. s \in Send
    BY TypeFacts
  <2>2. Live(s) => Less(s.timer) = s.timer - 1
    BY <1>1, TypeFacts DEF Less
  <2> QED
    BY <2>1, <2>2 DEF Send, Live
<1> HIDE DEF Later
<1>3. ASSUME NEW k \in DOMAIN rows
      PROVE  /\ rows'[k].msg = rows[k].msg
             /\ rows'[k].state = rows[k].state /\ rows'[k].owner = rows[k].owner
             /\ rows'[k].attempts = rows[k].attempts
             /\ rows'[k].lease >= rows[k].lease - 1
             /\ rows'[k].wait >= rows[k].wait - 1
             /\ rows'[k].lease \in Nat /\ rows'[k].wait \in Nat
  <2>1. /\ rows[k] \in Row /\ rows'[k] = Aged(rows[k])
        /\ rows[k].wait \in Nat /\ rows[k].lease \in Nat
    BY <1>1, TypeFacts
  <2>2. /\ Less(rows[k].wait) >= rows[k].wait - 1 /\ Less(rows[k].lease) >= rows[k].lease - 1
        /\ Less(rows[k].wait) \in Nat /\ Less(rows[k].lease) \in Nat
    BY <2>1 DEF Less
  <2>3. /\ rows'[k].wait = Less(rows[k].wait) /\ rows'[k].lease = Less(rows[k].lease)
        /\ rows'[k].state = rows[k].state /\ rows'[k].owner = rows[k].owner
        /\ rows'[k].attempts = rows[k].attempts /\ rows'[k].msg = rows[k].msg
    BY <2>1 DEF Aged, Row
  <2> QED
    BY <2>2, <2>3
<1>4. AwaitedSecured'
  <2> SUFFICES ASSUME NEW t \in sends', Live(t)
               PROVE  Secured(t)'
    BY DEF AwaitedSecured, Live
  <2>1. PICK s \in sends : t = Later(s)
    BY <1>1
  <2>2. Live(s) /\ Secured(s) /\ t.timer = s.timer - 1 /\ s.timer \in Nat
    BY <1>2, <2>1, TypeFacts DEF SendInv, AwaitedSecured, Live
  <2> DEFINE k == KeyOf[s.msg]
  <2>3. t.msg = s.msg /\ t.row = s.row /\ t.by = s.by /\ t.n = s.n
    BY <1>2, <2>1
  <2>4. Owns(s.msg)' <=> Owns(s.msg)
    BY <1>1, <1>3 DEF Owns
  <2>5. Owns(s.msg) => k \in DOMAIN rows /\ rows[k].lease \in Nat /\ rows[k].wait \in Nat
    BY TypeFacts DEF Owns
  <2>6. CASE s.by = "worker"
    <3>1. rows[k].lease > s.timer /\ Owns(s.msg)
      BY <2>2, <2>6 DEF Secured
    <3>2. rows'[k].lease > t.timer
      BY <1>3, <2>2, <2>5, <3>1
    <3> QED
      BY <1>1, <1>3, <2>2, <2>3, <2>4, <2>5, <2>6, <3>1, <3>2 DEF Secured
  <2>7. CASE s.by = "direct" /\ Owns(s.msg)
    <3>1. rows[k].wait > s.timer => rows'[k].wait > t.timer
      BY <1>3, <2>2, <2>5, <2>7
    <3> QED
      BY <1>3, <2>2, <2>3, <2>4, <2>5, <2>7, <3>1 DEF Secured
  <2>8. CASE s.by = "direct" /\ ~Owns(s.msg)
    BY <2>3, <2>4, <2>8 DEF Secured
  <2> QED
    BY <2>2, <2>6, <2>7, <2>8 DEF Secured
<1>5. OneAwaited'
  BY <1>1, <1>2 DEF SendInv, OneAwaited, Live
<1>6. DeadIsSilent' /\ Asked'
  BY <1>1, <1>2 DEF SendInv, DeadIsSilent, Asked, Live
<1> QED
  BY <1>4, <1>5, <1>6 DEF SendInv

LEMMA NextSendInv ==
  ASSUME IInv, SendInv, [Next]_vars
  PROVE  SendInv'
<1>1. CASE \E m \in Messages :
             EnqueueText(m) \/ EnqueueDirectText(m) \/ RecordTextDelivered(m)
  BY <1>1, EnqueueSendInv
<1>2. CASE ProcessOutbox
  BY <1>2, ProcessOutboxSendInv
<1>3. CASE \E s \in sends : Show(s)
  BY <1>3, ShowSendInv
<1>4. CASE Settle
  BY <1>4, SettleSendInv DEF Settle
<1>5. CASE Prune
  BY <1>5, PruneSendInv
<1>6. CASE Crash
  BY <1>6, CrashSendInv
<1>7. CASE Restart
  BY <1>7 DEF Restart, SendInv, OneAwaited, DeadIsSilent, AwaitedSecured, Asked
<1>8. CASE (\E p \in Platforms : ProviderDown(p) \/ ProviderUp(p)) \/ UNCHANGED vars
  <2>1. UNCHANGED <<rows, sends, alive, epoch, requested, shown>>
    BY <1>8 DEF ProviderDown, ProviderUp, vars
  <2> QED
    BY <2>1 DEF SendInv, OneAwaited, DeadIsSilent, AwaitedSecured, Secured, Owns, Asked, Live
<1>9. CASE Tick
  BY <1>9, TickSendInv
<1> QED
  BY <1>1, <1>2, <1>3, <1>4, <1>5, <1>6, <1>7, <1>8, <1>9 DEF Next

-----------------------------------------------------------------------------
(* Sends nobody awaits any more that may still show their message.         *)
Strays(m) == {s \in sends : s.msg = m /\ ~Live(s)}

Deliverable == {"pending", "leased", "failed"}

(* An awaited send of m has not shown it yet; or m has a row of its own    *)
(* that is still to be delivered, and what the process awaits has not      *)
(* shown it.                                                               *)
Unsettled(m) ==
  \/ \E s \in sends : s.msg = m /\ Live(s) /\ ~s.reached
  \/ /\ Owns(m) /\ rows[KeyOf[m]].state \in Deliverable
     /\ \A s \in sends : s.msg = m /\ Live(s) => ~s.reached

Due(m) == IF Unsettled(m) THEN 1 ELSE 0

(* The copies that were shown, those that still may be, and the one a row  *)
(* stands for, are the first copy and those paid for by a send given up.   *)
WithinAllowance(m) ==
  shown[m] + Cardinality(Strays(m)) + Due(m) <= 1 + gaveUp[m]

Paid == \A m \in Messages : WithinAllowance(m)

LEMMA Counts ==
  ASSUME IInv
  PROVE  \A m : /\ IsFiniteSet(Strays(m)) /\ Cardinality(Strays(m)) \in Nat
                /\ Due(m) \in {0, 1} /\ Due(m)' \in {0, 1}
<1> SUFFICES ASSUME NEW m
             PROVE  /\ IsFiniteSet(Strays(m)) /\ Cardinality(Strays(m)) \in Nat
                    /\ Due(m) \in {0, 1} /\ Due(m)' \in {0, 1}
  OBVIOUS
<1>1. Strays(m) \in SUBSET sends /\ IsFiniteSet(sends)
  BY DEF Strays, IInv, Finite
<1> QED
  BY <1>1, FS_Subset, FS_CardinalityType DEF Due

LEMMA StraysBound ==
  ASSUME IInv, NEW m
  PROVE  /\ Strays(m)' \subseteq Strays(m) =>
              /\ Cardinality(Strays(m)') \in Nat
              /\ Cardinality(Strays(m)') <= Cardinality(Strays(m))
         /\ \A x : Strays(m)' \subseteq Strays(m) \cup {x} =>
              /\ Cardinality(Strays(m)') \in Nat
              /\ Cardinality(Strays(m)') <= Cardinality(Strays(m)) + 1
<1>1. IsFiniteSet(Strays(m)) /\ Cardinality(Strays(m)) \in Nat
  BY Counts
<1>2. ASSUME NEW S, IsFiniteSet(S), Strays(m)' \subseteq S
      PROVE  /\ Cardinality(Strays(m)') \in Nat
             /\ Cardinality(Strays(m)') <= Cardinality(S)
  <2> DEFINE T == Strays(m)'
  <2>1. T \in SUBSET S
    BY <1>2
  <2> HIDE DEF T
  <2>2. IsFiniteSet(T) /\ Cardinality(T) <= Cardinality(S) /\ Cardinality(T) \in Nat
    BY <1>2, <2>1, FS_Subset, FS_CardinalityType
  <2> QED
    BY <2>2 DEF T
<1>3. \A x : /\ IsFiniteSet(Strays(m) \cup {x})
             /\ Cardinality(Strays(m) \cup {x}) \in Nat
             /\ Cardinality(Strays(m) \cup {x}) <= Cardinality(Strays(m)) + 1
  BY <1>1, FS_AddElement
<1>4. Strays(m)' \subseteq Strays(m) =>
        /\ Cardinality(Strays(m)') \in Nat
        /\ Cardinality(Strays(m)') <= Cardinality(Strays(m))
  BY <1>1, <1>2
<1>5. ASSUME NEW x, Strays(m)' \subseteq Strays(m) \cup {x}
      PROVE  /\ Cardinality(Strays(m)') \in Nat
             /\ Cardinality(Strays(m)') <= Cardinality(Strays(m)) + 1
  <2> DEFINE S == Strays(m) \cup {x}
  <2>1. /\ IsFiniteSet(S) /\ Strays(m)' \subseteq S
        /\ Cardinality(S) \in Nat /\ Cardinality(S) <= Cardinality(Strays(m)) + 1
    BY <1>3, <1>5
  <2> HIDE DEF S
  <2>2. /\ Cardinality(Strays(m)') \in Nat
        /\ Cardinality(Strays(m)') <= Cardinality(S)
    BY <1>2, <2>1
  <2> QED
    BY <1>1, <2>1, <2>2
<1> QED
  BY <1>4, <1>5

(* A step that shows nothing and adds neither a stray nor a delivery due.  *)
LEMMA NoMorePaid ==
  ASSUME IInv, NEW m \in Messages, WithinAllowance(m),
         shown'[m] = shown[m],
         gaveUp'[m] \in Nat, gaveUp'[m] >= gaveUp[m],
         Strays(m)' \subseteq Strays(m),
         Unsettled(m)' => Unsettled(m)
  PROVE  WithinAllowance(m)'
<1>1. /\ Cardinality(Strays(m)') \in Nat
      /\ Cardinality(Strays(m)') <= Cardinality(Strays(m))
  BY StraysBound
<1>2. /\ Cardinality(Strays(m)) \in Nat /\ Due(m) \in {0, 1} /\ Due(m)' \in {0, 1}
      /\ Due(m)' <= Due(m)
      /\ shown[m] \in Nat /\ gaveUp[m] \in Nat
  BY Counts, TypeFacts DEF Due
<1> QED
  BY <1>1, <1>2 DEF WithinAllowance

(* A message being sent is unsettled until the send shows it.             *)
LEMMA AwaitedDue ==
  ASSUME SendInv, NEW s \in sends, Live(s)
  PROVE  Due(s.msg) = IF s.reached THEN 0 ELSE 1
<1>1. s.reached => ~Unsettled(s.msg)
  BY DEF Unsettled, SendInv, OneAwaited
<1>2. ~s.reached => Unsettled(s.msg)
  BY DEF Unsettled
<1> QED
  BY <1>1, <1>2 DEF Due

(* An awaited send is given up: it is paid for unless it had shown nothing *)
(* and is off the wire.                                                    *)
LEMMA GivenUpPaid ==
  ASSUME IInv, SendInv, NEW s \in sends, Live(s), WithinAllowance(s.msg),
         shown' = shown, NEW x,
         \/ /\ s.reached
            /\ Strays(s.msg)' \subseteq Strays(s.msg)
            /\ gaveUp'[s.msg] = gaveUp[s.msg] + 1
         \/ /\ ~s.reached
            /\ Strays(s.msg)' \subseteq Strays(s.msg) \cup {x}
            /\ gaveUp'[s.msg] = gaveUp[s.msg] + 1
         \/ /\ ~s.reached
            /\ Strays(s.msg)' \subseteq Strays(s.msg)
            /\ gaveUp'[s.msg] = gaveUp[s.msg]
  PROVE  WithinAllowance(s.msg)'
<1> DEFINE m == s.msg
<1>1. /\ m \in Messages /\ shown[m] \in Nat /\ gaveUp[m] \in Nat
      /\ Cardinality(Strays(m)) \in Nat /\ Due(m) \in {0, 1} /\ Due(m)' \in {0, 1}
  BY Counts, TypeFacts
<1>2. Due(m) = IF s.reached THEN 0 ELSE 1
  BY AwaitedDue
<1>3. shown[m] + Cardinality(Strays(m)) + Due(m) <= 1 + gaveUp[m]
  BY DEF WithinAllowance
<1> HIDE DEF m
<1>4. /\ Strays(m)' \subseteq Strays(m) =>
           /\ Cardinality(Strays(m)') \in Nat
           /\ Cardinality(Strays(m)') <= Cardinality(Strays(m))
      /\ Strays(m)' \subseteq Strays(m) \cup {x} =>
           /\ Cardinality(Strays(m)') \in Nat
           /\ Cardinality(Strays(m)') <= Cardinality(Strays(m)) + 1
  BY StraysBound
<1>5. shown'[m] + Cardinality(Strays(m)') + Due(m)' <= 1 + gaveUp'[m]
  BY <1>1, <1>2, <1>3, <1>4 DEF m
<1> QED
  BY <1>5 DEF WithinAllowance, m

LEMMA EnqueuePaid ==
  ASSUME IInv, SendInv, Paid, NEW m \in Messages,
         EnqueueText(m) \/ EnqueueDirectText(m) \/ RecordTextDelivered(m)
  PROVE  Paid'
<1>1. m \in Messages \ requested /\ shown[m] = 0 /\ gaveUp[m] \in Nat
  BY TypeFacts DEF EnqueueText, EnqueueDirectText, RecordTextDelivered, Queued,
                   SendInv, Asked
<1>2. \A s \in sends : s.msg # m
  BY <1>1 DEF SendInv, Asked
<1>3. /\ gaveUp' = gaveUp
      /\ \A n \in Messages \ {m} : shown'[n] = shown[n]
      /\ sends \subseteq sends'
      /\ \A s \in sends' \ sends : s.msg = m /\ Live(s)
  BY TypeFacts DEF EnqueueText, EnqueueDirectText, RecordTextDelivered, NewSend, Live
<1>4. \E st, delay : Insert(m, st, delay)
  BY DEF EnqueueText, EnqueueDirectText, RecordTextDelivered
<1>5. ASSUME NEW n \in Messages, n # m
      PROVE  WithinAllowance(n)'
  <2>1. Strays(n)' \subseteq Strays(n)
    BY <1>3, <1>5 DEF Strays, Live
  <2>2. /\ Owns(n)' <=> Owns(n)
        /\ Owns(n) => rows'[KeyOf[n]] = rows[KeyOf[n]]
    BY <1>1, <1>4, <1>5, InsertFacts
  <2>3. Unsettled(n)' => Unsettled(n)
    BY <1>3, <1>5, <2>2 DEF Unsettled, Live
  <2> QED
    BY <1>3, <1>5, <2>1, <2>3, NoMorePaid, TypeFacts DEF Paid
<1>6. WithinAllowance(m)'
  <2>1. Strays(m)' = {}
    BY <1>2, <1>3 DEF Strays, Live
  <2>2. Cardinality(Strays(m)') = 0
    BY <2>1, FS_EmptySet
  <2>3. /\ Due(m)' \in {0, 1}
        /\ shown'[m] \in {0, 1}
        /\ shown'[m] = 1 => Due(m)' = 0
    <3>1. CASE EnqueueText(m) \/ EnqueueDirectText(m)
      <4>1. shown' = shown
        BY <3>1 DEF EnqueueText, EnqueueDirectText
      <4> QED
        BY <1>1, <4>1, Counts
    <3>2. CASE RecordTextDelivered(m)
      <4>1. Insert(m, "sent", 0) /\ sends' = sends
        BY <3>2 DEF RecordTextDelivered
      <4>2. Owns(m)' => rows'[KeyOf[m]].state = "sent"
        BY <1>1, <4>1, InsertFacts
      <4>3. ~Unsettled(m)'
        BY <1>2, <4>1, <4>2 DEF Unsettled, Deliverable
      <4>4. shown'[m] = 1
        BY <1>1, <3>2, TypeFacts DEF RecordTextDelivered
      <4> QED
        BY <4>3, <4>4 DEF Due
    <3> QED
      BY <3>1, <3>2
  <2>4. gaveUp'[m] = gaveUp[m] /\ shown'[m] + Due(m)' <= 1
    BY <1>3, <2>3
  <2>5. shown'[m] + Cardinality(Strays(m)') + Due(m)' <= 1 + gaveUp'[m]
    BY <1>1, <2>2, <2>3, <2>4
  <2> QED
    BY <2>5 DEF WithinAllowance
<1> QED
  BY <1>5, <1>6 DEF Paid

LEMMA ProcessOutboxPaid ==
  ASSUME IInv, SendInv, Paid, ProcessOutbox
  PROVE  Paid'
<1>1. PICK C \in SUBSET DOMAIN rows :
        /\ DOMAIN rows' = DOMAIN rows
        /\ \A k \in DOMAIN rows \ C : rows'[k] = rows[k]
        /\ \A k \in C : Claimable(k)
        /\ \A k \in DOMAIN rows : rows'[k].msg = rows[k].msg
        /\ sends \subseteq sends'
        /\ \A t \in sends' \ sends : \E k \in C :
             t = NewSend(rows[k].msg, rows[k].msg, "worker", rows[k].attempts + 1)
        /\ \A s \in sends : Live(s) => (Owns(s.msg) => KeyOf[s.msg] \notin C)
        /\ shown' = shown /\ gaveUp' = gaveUp
  BY ClaimFacts
<1>2. \A t \in sends' \ sends : /\ Live(t) /\ Owns(t.msg) /\ KeyOf[t.msg] \in C
  BY <1>1, TypeFacts DEF NewSend, Live, Owns
<1>3. \A k \in C : rows[k].state \in Deliverable
  BY <1>1 DEF Claimable, Deliverable
<1>4. ASSUME NEW m \in Messages
      PROVE  WithinAllowance(m)'
  <2>1. Strays(m)' \subseteq Strays(m)
    BY <1>1, <1>2 DEF Strays, Live
  <2>2. Unsettled(m)' => Unsettled(m)
    <3>1. CASE \E t \in sends' \ sends : t.msg = m
      <4>1. Owns(m) /\ KeyOf[m] \in C
        BY <1>2, <3>1
      <4>2. \A s \in sends : s.msg = m => ~Live(s)
        BY <1>1, <4>1
      <4> QED
        BY <1>3, <4>1, <4>2 DEF Unsettled
    <3>2. CASE \A t \in sends' \ sends : t.msg # m
      <4>1. Owns(m)' <=> Owns(m)
        BY <1>1 DEF Owns
      <4>2. Owns(m) /\ rows'[KeyOf[m]].state \in Deliverable =>
              rows[KeyOf[m]].state \in Deliverable
        BY <1>1, <1>3 DEF Owns
      <4> QED
        BY <1>1, <3>2, <4>1, <4>2 DEF Unsettled, Live
    <3> QED
      BY <3>1, <3>2
  <2> QED
    BY <1>1, <2>1, <2>2, NoMorePaid, TypeFacts DEF Paid
<1> QED
  BY <1>4 DEF Paid

LEMMA ShowPaid ==
  ASSUME IInv, SendInv, Paid, NEW s \in sends, Show(s)
  PROVE  Paid'
<1> DEFINE new == [s EXCEPT !.reached = TRUE]
           m == s.msg
<1>1. /\ rows' = rows /\ gaveUp' = gaveUp /\ ~s.reached
      /\ shown' = [shown EXCEPT ![m] = @ + 1]
      /\ sends' = (sends \ {s}) \cup {t \in {new} : s.phase = "awaited"}
  BY DEF Show
<1>2. /\ new.msg = m /\ new.phase = s.phase /\ new.reached
      /\ m \in Messages /\ shown[m] \in Nat /\ gaveUp[m] \in Nat
  BY TypeFacts DEF Send
<1> HIDE DEF new
<1>3. ASSUME NEW n \in Messages, n # m
      PROVE  WithinAllowance(n)'
  <2>1. shown'[n] = shown[n]
    BY <1>1, <1>2, <1>3, TypeFacts
  <2>2. Strays(n)' \subseteq Strays(n)
    BY <1>1, <1>2, <1>3 DEF Strays, Live
  <2>3. Unsettled(n)' => Unsettled(n)
    BY <1>1, <1>2, <1>3 DEF Unsettled, Owns, Live
  <2> QED
    BY <1>1, <2>1, <2>2, <2>3, NoMorePaid, TypeFacts DEF Paid
<1>4. WithinAllowance(m) /\ shown'[m] = shown[m] + 1
  BY <1>1, <1>2, TypeFacts DEF Paid
<1>5. CASE Live(s)
  <2>1. new \in sends' /\ Live(new)
    BY <1>1, <1>2, <1>5 DEF Live
  <2>2. Due(m) = 1
    BY <1>1, <1>5, AwaitedDue
  <2>3. ~Unsettled(m)'
    <3>1. \A t \in sends' : t.msg = m /\ Live(t) => t = new
      BY <1>1, <1>2, <1>5 DEF SendInv, OneAwaited, Live
    <3> QED
      BY <1>2, <2>1, <3>1 DEF Unsettled, Live
  <2>4. Due(m)' = 0
    BY <2>3 DEF Due
  <2>5. Strays(m)' \subseteq Strays(m)
    BY <1>1, <1>2, <1>5 DEF Strays, Live
  <2>6. /\ Cardinality(Strays(m)') \in Nat
        /\ Cardinality(Strays(m)') <= Cardinality(Strays(m))
    BY <2>5, StraysBound
  <2> HIDE DEF m
  <2>7. WithinAllowance(m)'
    BY <1>1, <1>2, <1>4, <2>2, <2>4, <2>6, Counts DEF WithinAllowance
  <2> QED
    BY <1>3, <2>7 DEF Paid
<1>6. CASE ~Live(s)
  <2>1. sends' = sends \ {s}
    BY <1>1, <1>6 DEF Live
  <2>2. s \in Strays(m) /\ Strays(m)' = Strays(m) \ {s}
    BY <1>6, <2>1 DEF Strays, Live
  <2>3. Cardinality(Strays(m)') = Cardinality(Strays(m)) - 1
    BY <2>2, Counts, FS_RemoveElement
  <2>4. Unsettled(m)' => Unsettled(m)
    BY <1>1, <1>6, <2>1 DEF Unsettled, Owns, Live
  <2>5. Due(m)' <= Due(m) /\ Due(m) \in {0, 1} /\ Due(m)' \in {0, 1}
    BY <2>4, Counts DEF Due
  <2> HIDE DEF m
  <2>6. WithinAllowance(m)'
    BY <1>1, <1>2, <1>4, <2>3, <2>5, Counts DEF WithinAllowance
  <2> QED
    BY <1>3, <2>6 DEF Paid
<1> QED
  BY <1>5, <1>6

LEMMA SettlePaid ==
  ASSUME IInv, SendInv, Paid, NEW s \in sends,
         Acknowledge(s) \/ Reject(s) \/ TimeOut(s)
  PROVE  Paid'
<1> DEFINE old == [s EXCEPT !.phase = "abandoned"]
           m == s.msg
<1>1. /\ Live(s) /\ shown' = shown
      /\ sends \ {s} \subseteq sends'
      /\ sends' \subseteq (sends \ {s}) \cup {old}
      /\ gaveUp' = gaveUp \/ gaveUp' = [gaveUp EXCEPT ![m] = @ + 1]
  BY DEF Acknowledge, Reject, TimeOut, GiveUp, Live
<1>2. /\ old.msg = m /\ ~Live(old)
      /\ m \in Messages /\ gaveUp \in [Messages -> Nat]
      /\ Secured(s)
  BY <1>1, TypeFacts DEF Send, Live, SendInv, AwaitedSecured, Secured
<1> HIDE DEF old
<1>3. ASSUME NEW n \in Messages, n # m
      PROVE  WithinAllowance(n)'
  <2>1. Strays(n)' \subseteq Strays(n)
    BY <1>1, <1>2, <1>3 DEF Strays, Live
  <2>2. Owns(n)' <=> Owns(n)
    BY EndSendRows DEF Owns
  <2>3. Owns(n) /\ rows'[KeyOf[n]].state \in Deliverable =>
          rows[KeyOf[n]].state \in Deliverable
    BY EndSendRows DEF Owns, Deliverable
  <2>4. \A t : t.msg = n => (t \in sends <=> t \in sends')
    BY <1>1, <1>2, <1>3
  <2>5. Unsettled(n)' => Unsettled(n)
    BY <2>2, <2>3, <2>4 DEF Unsettled, Live
  <2>6. gaveUp'[n] = gaveUp[n] /\ gaveUp[n] \in Nat
    BY <1>1, <1>2, <1>3
  <2> QED
    BY <1>1, <2>1, <2>5, <2>6, NoMorePaid DEF Paid
<1>4. WithinAllowance(m)
  BY <1>2 DEF Paid
<1>5. CASE Acknowledge(s)
  <2>1. Strays(m)' \subseteq Strays(m) /\ gaveUp' = gaveUp
    BY <1>1, <1>5 DEF Acknowledge, Strays, Live
  <2>2. Owns(m) => rows'[KeyOf[m]].state = "sent"
    <3> SUFFICES ASSUME Owns(m)
                 PROVE  rows'[KeyOf[m]].state = "sent"
      OBVIOUS
    <3>1. KeyOf[m] \in RowOf(s) /\ rows[KeyOf[m]] \in Row /\ s.row = m
      BY <1>2, TypeFacts DEF RowOf, Owns, Secured
    <3>2. Sent(rows[KeyOf[m]]).state = "sent"
      BY <3>1, TypeFacts, RowUpdates
    <3>3. CASE s.by = "worker"
      <4>1. KeyOf[m] \in Held(s) /\ MarkSent(s)
        BY <1>2, <1>5, <3>1, <3>3 DEF Held, Secured, Acknowledge
      <4> QED
        BY <3>1, <3>2, <4>1 DEF MarkSent, Update, RowOf
    <3>4. CASE s.by = "direct"
      <4>1. /\ rows[KeyOf[m]].state \in {"pending", "sent"}
            /\ MarkEnqueuedSent(s)
        BY <1>2, <1>5, <3>4 DEF Secured, Acknowledge
      <4> QED
        BY <3>1, <3>2, <4>1 DEF MarkEnqueuedSent, Update, RowOf
    <3> QED
      BY <3>3, <3>4, TypeFacts
  <2>3. ~Unsettled(m)'
    <3>1. Owns(m)' <=> Owns(m)
      BY EndSendRows DEF Owns
    <3>2. \A t \in sends' : t.msg = m => ~Live(t)
      BY <1>1, <1>2, <1>5 DEF SendInv, OneAwaited, Acknowledge
    <3> QED
      BY <2>2, <3>1, <3>2 DEF Unsettled, Deliverable, Live
  <2>4. WithinAllowance(m)'
    BY <1>1, <1>2, <1>4, <2>1, <2>3, NoMorePaid
  <2> QED
    BY <1>3, <2>4 DEF Paid
<1>6. CASE Reject(s) \/ TimeOut(s)
  <2>1. Strays(m)' \subseteq Strays(m) \cup {old}
    BY <1>1 DEF Strays, Live
  <2>2. \/ s.reached /\ sends' = sends \ {s} /\ gaveUp' = [gaveUp EXCEPT ![m] = @ + 1]
        \/ ~s.reached /\ gaveUp' = [gaveUp EXCEPT ![m] = @ + 1]
        \/ ~s.reached /\ sends' = sends \ {s} /\ gaveUp' = gaveUp
    BY <1>6 DEF Reject, TimeOut
  <2>3. sends' = sends \ {s} => Strays(m)' \subseteq Strays(m)
    BY DEF Strays, Live
  <2>4. gaveUp' = [gaveUp EXCEPT ![m] = @ + 1] => gaveUp'[m] = gaveUp[m] + 1
    BY <1>2
  <2>5. \/ s.reached /\ Strays(m)' \subseteq Strays(m) /\ gaveUp'[m] = gaveUp[m] + 1
        \/ ~s.reached /\ Strays(m)' \subseteq Strays(m) \cup {old} /\ gaveUp'[m] = gaveUp[m] + 1
        \/ ~s.reached /\ Strays(m)' \subseteq Strays(m) /\ gaveUp'[m] = gaveUp[m]
    BY <2>1, <2>2, <2>3, <2>4
  <2>6. WithinAllowance(m)'
    BY <1>1, <1>4, <2>5, GivenUpPaid
  <2> QED
    BY <1>3, <2>6 DEF Paid
<1> QED
  BY <1>5, <1>6

LEMMA CrashPaid ==
  ASSUME IInv, SendInv, Paid, Crash
  PROVE  Paid'
<1> DEFINE Orphan(s) == [s EXCEPT !.phase = "orphaned", !.timer = 0]
           lost == {s \in sends : s.phase = "awaited"}
           LostOf(m) == {s \in lost : s.msg = m}
<1>1. /\ alive' = FALSE
      /\ sends' = (sends \ lost) \cup {Orphan(s) : s \in {t \in lost : ~t.reached}}
      /\ gaveUp' = [m \in Messages |-> gaveUp[m] + Cardinality(LostOf(m))]
      /\ UNCHANGED <<rows, up, epoch, outages, requested, shown, expired>>
  BY ZenonT(30) DEF Crash
<1>2. \A s \in sends : Orphan(s).msg = s.msg /\ ~Live(Orphan(s))
  <2> SUFFICES ASSUME NEW s \in sends
               PROVE  Orphan(s).msg = s.msg /\ ~Live(Orphan(s))
    OBVIOUS
  <2>1. s \in Send
    BY TypeFacts
  <2> QED
    BY <2>1 DEF Send, Live
<1>3. \A s : s \in lost <=> s \in sends /\ Live(s)
  BY DEF Live
<1>4. \A m, s : s \in LostOf(m) <=> s \in sends /\ Live(s) /\ s.msg = m
  BY <1>3
<1> HIDE DEF Orphan, lost, LostOf
<1>5. ASSUME NEW m \in Messages
      PROVE  WithinAllowance(m)'
  <2>1. gaveUp'[m] = gaveUp[m] + Cardinality(LostOf(m)) /\ gaveUp[m] \in Nat
    BY <1>1, TypeFacts
  <2>2. ASSUME LostOf(m) = {}
        PROVE  WithinAllowance(m)'
    <3>1. gaveUp'[m] = gaveUp[m]
      BY <2>1, <2>2, FS_EmptySet
    <3>2. Strays(m)' \subseteq Strays(m)
      BY <1>1, <1>2, <1>3, <1>4, <2>2 DEF Strays, Live
    <3>3. \A s \in sends : s.msg = m => ~Live(s)
      BY <1>4, <2>2
    <3>4. \A t \in sends' : ~Live(t)
      BY <1>1, <1>2, <1>3
    <3>5. Unsettled(m)' => Unsettled(m)
      BY <1>1, <3>3, <3>4 DEF Unsettled, Owns, Live
    <3> QED
      BY <1>1, <2>1, <3>1, <3>2, <3>5, NoMorePaid DEF Paid
  <2>3. ASSUME NEW s \in LostOf(m)
        PROVE  WithinAllowance(m)'
    <3>1. s \in sends /\ Live(s) /\ s.msg = m
      BY <1>4
    <3>2. LostOf(m) = {s}
      BY <1>4, <3>1 DEF SendInv, OneAwaited
    <3>3. gaveUp'[m] = gaveUp[m] + 1
      BY <2>1, <3>2, FS_Singleton
    <3>4. Strays(m)' \subseteq Strays(m) \cup {Orphan(s)}
      BY <1>1, <1>2, <1>3, <1>4, <3>2 DEF Strays, Live
    <3>5. s.reached => Strays(m)' \subseteq Strays(m)
      BY <1>1, <1>2, <1>3, <1>4, <3>2 DEF Strays, Live
    <3>6. WithinAllowance(s.msg)'
      BY <1>1, <3>1, <3>3, <3>4, <3>5, GivenUpPaid DEF Paid
    <3> QED
      BY <3>1, <3>6
  <2> QED
    BY <2>2, <2>3
<1> QED
  BY <1>5 DEF Paid

LEMMA PrunePaid ==
  ASSUME IInv, Paid, Prune
  PROVE  Paid'
<1>1. /\ \A k \in DOMAIN rows' : k \in DOMAIN rows /\ rows'[k] = rows[k]
      /\ UNCHANGED <<sends, shown, gaveUp>>
  BY DEF Prune
<1>2. ASSUME NEW m \in Messages
      PROVE  WithinAllowance(m)'
  <2>1. Strays(m)' \subseteq Strays(m)
    BY <1>1 DEF Strays, Live
  <2>2. Unsettled(m)' => Unsettled(m)
    BY <1>1 DEF Unsettled, Owns, Live
  <2> QED
    BY <1>1, <2>1, <2>2, NoMorePaid, TypeFacts DEF Paid
<1> QED
  BY <1>2 DEF Paid

LEMMA TickPaid ==
  ASSUME IInv, Paid, Tick
  PROVE  Paid'
<1> DEFINE Later(s) == [s EXCEPT !.timer = IF s.phase = "awaited" THEN Less(@) ELSE @]
<1>1. /\ DOMAIN rows' = DOMAIN rows
      /\ \A k \in DOMAIN rows : rows'[k] = Aged(rows[k])
      /\ sends' = {Later(s) : s \in sends}
      /\ UNCHANGED <<shown, gaveUp>>
  BY DEF Tick
<1>2. \A s \in sends : /\ Later(s).msg = s.msg /\ Later(s).phase = s.phase
                       /\ Later(s).reached = s.reached
                       /\ ~Live(s) => Later(s) = s
  <2> SUFFICES ASSUME NEW s \in sends
               PROVE  /\ Later(s).msg = s.msg /\ Later(s).phase = s.phase
                      /\ Later(s).reached = s.reached
                      /\ ~Live(s) => Later(s) = s
    OBVIOUS
  <2>1. s \in Send
    BY TypeFacts
  <2> QED
    BY <2>1 DEF Send, Live
<1> HIDE DEF Later
<1>3. \A k \in DOMAIN rows : rows'[k].state = rows[k].state /\ rows'[k].msg = rows[k].msg
  BY <1>1, TypeFacts, RowUpdates
<1>4. ASSUME NEW m \in Messages
      PROVE  WithinAllowance(m)'
  <2>1. Strays(m)' \subseteq Strays(m)
    BY <1>1, <1>2 DEF Strays, Live
  <2>2. Unsettled(m)' => Unsettled(m)
    <3>1. Owns(m)' <=> Owns(m)
      BY <1>1, <1>3 DEF Owns
    <3>2. Owns(m) => rows'[KeyOf[m]].state = rows[KeyOf[m]].state
      BY <1>3 DEF Owns
    <3>3. (\E t \in sends' : t.msg = m /\ Live(t) /\ ~t.reached) =>
            \E s \in sends : s.msg = m /\ Live(s) /\ ~s.reached
      BY <1>1, <1>2 DEF Live
    <3>4. (\A t \in sends' : t.msg = m /\ Live(t) => ~t.reached) =>
            \A s \in sends : s.msg = m /\ Live(s) => ~s.reached
      BY <1>1, <1>2 DEF Live
    <3> QED
      BY <3>1, <3>2, <3>3, <3>4 DEF Unsettled, Live
  <2> QED
    BY <1>1, <2>1, <2>2, NoMorePaid, TypeFacts DEF Paid
<1> QED
  BY <1>4 DEF Paid

LEMMA NextPaid ==
  ASSUME IInv, SendInv, Paid, [Next]_vars
  PROVE  Paid'
<1>1. CASE \E m \in Messages :
             EnqueueText(m) \/ EnqueueDirectText(m) \/ RecordTextDelivered(m)
  BY <1>1, EnqueuePaid
<1>2. CASE ProcessOutbox
  BY <1>2, ProcessOutboxPaid
<1>3. CASE \E s \in sends : Show(s)
  BY <1>3, ShowPaid
<1>4. CASE Settle
  BY <1>4, SettlePaid DEF Settle
<1>5. CASE Prune
  BY <1>5, PrunePaid
<1>6. CASE Crash
  BY <1>6, CrashPaid
<1>7. CASE \/ Restart
           \/ \E p \in Platforms : ProviderDown(p) \/ ProviderUp(p)
           \/ UNCHANGED vars
  <2>1. UNCHANGED <<rows, sends, shown, gaveUp>>
    BY <1>7 DEF Restart, ProviderDown, ProviderUp, vars
  <2>2. \A m : /\ Strays(m)' = Strays(m) /\ (Unsettled(m)' <=> Unsettled(m))
    BY <2>1 DEF Strays, Unsettled, Owns, Live
  <2>3. ASSUME NEW m \in Messages
        PROVE  WithinAllowance(m)'
    BY <2>1, <2>2, NoMorePaid, TypeFacts DEF Paid
  <2> QED
    BY <2>3 DEF Paid
<1>8. CASE Tick
  BY <1>8, TickPaid
<1> QED
  BY <1>1, <1>2, <1>3, <1>4, <1>5, <1>6, <1>7, <1>8 DEF Next

LEMMA SendsInvariance ==
  Spec => [](IInv /\ SendInv /\ Paid)
<1>1. Init => IInv /\ SendInv /\ Paid
  <2> SUFFICES ASSUME Init PROVE IInv /\ SendInv /\ Paid
    OBVIOUS
  <2>1. sends = {} /\ DOMAIN rows = {} /\ \A m \in Messages : shown[m] = 0 /\ gaveUp[m] = 0
    BY DEF Init
  <2>2. IInv
    BY InitIInv
  <2>3. SendInv
    BY <2>1 DEF SendInv, OneAwaited, DeadIsSilent, AwaitedSecured, Asked
  <2>4. ASSUME NEW m \in Messages
        PROVE  WithinAllowance(m)
    <3>1. Strays(m) = {} /\ Due(m) = 0
      BY <2>1 DEF Strays, Due, Unsettled, Owns
    <3> QED
      BY <2>1, <3>1, FS_EmptySet DEF WithinAllowance
  <2> QED
    BY <2>2, <2>3, <2>4 DEF Paid
<1>2. IInv /\ SendInv /\ Paid /\ [Next]_vars => (IInv /\ SendInv /\ Paid)'
  BY NextIInv, NextSendInv, NextPaid
<1> QED
  BY <1>1, <1>2, PTL DEF Spec

(* While the worker awaits a send, the row is leased to it and the lease   *)
(* has not expired: no crash, restart, second claim or late answer lets    *)
(* another delivery of the same row start.                                 *)
THEOREM LeaseOutlivesSend ==
  Spec => []DeliveryHoldsLease
<1>1. IInv /\ SendInv => DeliveryHoldsLease
  <2> SUFFICES ASSUME IInv, SendInv, NEW s \in Awaited("worker")
               PROVE  \E k \in RowOf(s) : /\ rows[k].state = "leased"
                                          /\ rows[k].owner = epoch
                                          /\ rows[k].lease > 0
                                          /\ rows[k].attempts = s.n
    BY DEF DeliveryHoldsLease
  <2>1. s \in sends /\ Live(s) /\ s.by = "worker"
    BY DEF Awaited, Live
  <2>2. Secured(s) /\ s.timer \in Nat
    BY <2>1, TypeFacts DEF SendInv, AwaitedSecured
  <2>3. /\ KeyOf[s.msg] \in RowOf(s)
        /\ rows[KeyOf[s.msg]].lease \in Nat /\ rows[KeyOf[s.msg]].lease > s.timer
    BY <2>1, <2>2, TypeFacts DEF Secured, Owns, RowOf
  <2>4. rows[KeyOf[s.msg]].lease > 0
    BY <2>2, <2>3
  <2> QED
    BY <2>1, <2>2, <2>3, <2>4 DEF Secured
<1> QED
  BY <1>1, SendsInvariance, PTL

(* A message is shown at most once, plus once for every send of it that    *)
(* was given up although it had arrived or still could.                    *)
THEOREM DuplicatesAreCaused ==
  Spec => []NoUncausedDuplicate
<1>1. IInv /\ Paid => NoUncausedDuplicate
  <2> SUFFICES ASSUME IInv, Paid, NEW m \in Messages
               PROVE  shown[m] <= 1 + gaveUp[m]
    BY DEF NoUncausedDuplicate
  <2>1. /\ shown[m] \in Nat /\ gaveUp[m] \in Nat
        /\ Cardinality(Strays(m)) \in Nat /\ Due(m) \in {0, 1}
    BY Counts, TypeFacts
  <2>2. shown[m] + Cardinality(Strays(m)) + Due(m) <= 1 + gaveUp[m]
    BY DEF Paid, WithinAllowance
  <2> QED
    BY <2>1, <2>2
<1> QED
  BY <1>1, SendsInvariance, PTL

(* A row that was sent or retired is never delivered again.                *)
THEOREM SettledStaysSettled ==
  Spec => SettledIsFinal
<1> DEFINE Final == \A k \in DOMAIN rows :
                      rows[k].state \in {"sent", "dead_letter"} =>
                        k \notin DOMAIN rows' \/ rows'[k].state = rows[k].state
<1>1. IInv /\ [Next]_vars => [Final]_vars
  <2> SUFFICES ASSUME IInv, Next, NEW k \in DOMAIN rows,
                      rows[k].state \in {"sent", "dead_letter"}, k \in DOMAIN rows'
               PROVE  rows'[k].state = rows[k].state
    OBVIOUS
  <2>1. CASE \E m \in Messages :
               EnqueueText(m) \/ EnqueueDirectText(m) \/ RecordTextDelivered(m)
    BY <2>1 DEF EnqueueText, EnqueueDirectText, RecordTextDelivered, Insert
  <2>2. CASE ProcessOutbox
    BY <2>2 DEF ProcessOutbox, Claimable
  <2>3. CASE \E s \in sends : Show(s)
    BY <2>3 DEF Show
  <2>4. CASE Settle
    <3>1. PICK s \in sends : rows' = rows \/ Fail(s) \/ MarkSent(s) \/ MarkEnqueuedSent(s)
      BY <2>4 DEF Settle, Acknowledge, Reject, TimeOut, GiveUp
    <3>2. CASE rows' = rows
      BY <3>2
    <3>3. CASE Fail(s)
      BY <3>3 DEF Fail, Update, Held
    <3>4. CASE MarkSent(s)
      BY <3>4 DEF MarkSent, Update, Held
    <3>5. CASE MarkEnqueuedSent(s)
      BY <3>5 DEF MarkEnqueuedSent, Update
    <3> QED
      BY <3>1, <3>2, <3>3, <3>4, <3>5
  <2>5. CASE Prune
    BY <2>5 DEF Prune
  <2>6. CASE Crash \/ Restart \/ \E p \in Platforms : ProviderDown(p) \/ ProviderUp(p)
    <3>1. Crash => rows' = rows
      BY Zenon DEF Crash
    <3>2. ~Crash => rows' = rows
      BY <2>6 DEF Restart, ProviderDown, ProviderUp
    <3> QED
      BY <3>1, <3>2
  <2>7. CASE Tick
    <3>1. rows'[k] = Aged(rows[k]) /\ rows[k] \in Row
      BY <2>7, TypeFacts DEF Tick
    <3> QED
      BY <3>1, TypeFacts, RowUpdates
  <2> QED
    BY <2>1, <2>2, <2>3, <2>4, <2>5, <2>6, <2>7 DEF Next
<1>2. Spec => []IInv
  BY Invariance
<1> QED
  BY <1>1, <1>2, PTL DEF Spec, SettledIsFinal

-----------------------------------------------------------------------------
(* Where a key stands, read off the row under it. *)
Standing(k) ==
  IF k \in DOMAIN rows
  THEN CASE rows[k].state = "sent" -> "sent"
         [] rows[k].state = "dead_letter" -> "dropped"
         [] OTHER -> "kept"
  ELSE IF k \in {KeyOf[m] : m \in requested} THEN "dropped" ELSE "new"

Standings == \A k \in Keys : Phase(k) = Standing(k)

LEMMA PhaseIsStanding ==
  IInv => Standings
<1> SUFFICES ASSUME IInv, NEW k \in Keys
             PROVE  Phase(k) = Standing(k)
  BY DEF Standings
<1>1. CASE k \in DOMAIN rows
  <2>1. \E m \in requested : KeyOf[m] = k
    BY <1>1, TypeFacts
  <2> QED
    BY <1>1, <2>1 DEF Phase, Standing
<1>2. CASE k \notin DOMAIN rows
  BY <1>2 DEF Phase, Standing
<1> QED
  BY <1>1, <1>2

LEMMA StandingNext ==
  IInv' => Standings'
<1>1. IInv => Standings
  BY PhaseIsStanding
<1> QED
  BY <1>1, PTL

LEMMA KeysShown ==
  ASSUME IInv
  PROVE  /\ shown' = shown => ShownKeys' = ShownKeys
         /\ \A m \in Messages :
              shown' = [shown EXCEPT ![m] = @ + 1] =>
                ShownKeys' = ShownKeys \cup {KeyOf[m]}
<1>1. shown' = shown => ShownKeys' = ShownKeys
  BY DEF ShownKeys
<1>2. ASSUME NEW m \in Messages, shown' = [shown EXCEPT ![m] = @ + 1]
      PROVE  ShownKeys' = ShownKeys \cup {KeyOf[m]}
  <2>1. /\ shown'[m] > 0 /\ KeyOf[m] \in Keys
        /\ \A n \in Messages \ {m} : shown'[n] = shown[n]
    BY <1>2, TypeFacts, OutboxAssumption
  <2> QED
    BY <2>1 DEF ShownKeys
<1> QED
  BY <1>1, <1>2

(* A step that drops the keys K, or that changes no standing.              *)
LEMMA DropStep ==
  ASSUME IInv, Standings, Standings', shown' = shown, NEW K \in SUBSET Keys,
         \A k \in K : Standing(k) = "kept" /\ Standing(k)' = "dropped",
         \A k \in Keys \ K : Standing(k)' = Standing(k)
  PROVE  Promise!Next
<1>1. /\ \A k \in Keys : Phase(k) = Standing(k) /\ Phase(k)' = Standing(k)'
  BY DEF Standings
<1> DEFINE p == [k \in Keys |-> Phase(k)]
           q == [k \in Keys |-> Phase(k)']
<1>2. /\ \A k \in K : p[k] = "kept"
      /\ q = [k \in Keys |-> IF k \in K THEN "dropped" ELSE p[k]]
  BY <1>1
<1>3. Promise!Drop(K)
  BY <1>2, KeysShown DEF Promise!Drop
<1> QED
  BY <1>3 DEF Promise!Next

LEMMA StutterStep ==
  ASSUME IInv, Standings, Standings', shown' = shown,
         \A k \in Keys : Standing(k)' = Standing(k)
  PROVE  UNCHANGED Promise!vars
<1>1. /\ \A k \in Keys : Phase(k) = Phase(k)'
  BY DEF Standings
<1> QED
  BY <1>1, KeysShown DEF Promise!vars

(* A step that shows a message of a key that is not new. *)
LEMMA ShowStep ==
  ASSUME IInv, Standings, Standings', NEW m \in Messages,
         shown' = [shown EXCEPT ![m] = @ + 1],
         Standing(KeyOf[m]) # "new",
         \A k \in Keys : Standing(k)' = Standing(k)
  PROVE  Promise!Next
<1>1. KeyOf[m] \in Keys
  BY OutboxAssumption
<1>2. /\ \A k \in Keys : Phase(k)' = Phase(k)
      /\ Phase(KeyOf[m]) # "new"
  BY <1>1 DEF Standings
<1>3. ShownKeys' = ShownKeys \cup {KeyOf[m]}
  BY KeysShown
<1>4. Promise!Show(KeyOf[m])
  BY <1>1, <1>2, <1>3 DEF Promise!Show
<1> QED
  BY <1>1, <1>4 DEF Promise!Next

(* A message whose key has a row is none of the promise's concern, unless  *)
(* it was shown before; any other is accepted under its key.               *)
LEMMA EnqueueRefines ==
  ASSUME IInv, SendInv, Standings, Standings', NEW m \in Messages,
         EnqueueText(m) \/ EnqueueDirectText(m) \/ RecordTextDelivered(m)
  PROVE  Promise!Next \/ UNCHANGED Promise!vars
<1> DEFINE k == KeyOf[m]
<1>1. /\ m \in Messages \ requested /\ k \in Keys
      /\ requested' = requested \cup {m}
  BY OutboxAssumption
  DEF EnqueueText, EnqueueDirectText, RecordTextDelivered, Queued
<1>2. PICK st \in {"pending", "sent"} :
        /\ \E delay : Insert(m, st, delay)
        /\ st = "pending" => shown' = shown
        /\ st = "sent" => shown' = [shown EXCEPT ![m] = @ + 1]
  BY DEF EnqueueText, EnqueueDirectText, RecordTextDelivered
<1>3. /\ DOMAIN rows' = DOMAIN rows \cup {k}
      /\ k \notin DOMAIN rows => rows'[k].state = st
      /\ \A j \in DOMAIN rows : rows'[j] = rows[j]
  BY <1>1, <1>2, InsertFacts
<1>4. \A j \in Keys \ {k} : Standing(j)' = Standing(j)
  BY <1>1, <1>3 DEF Standing
<1>5. CASE k \in DOMAIN rows
  <2>1. Standing(k)' = Standing(k) /\ Standing(k) # "new"
    BY <1>3, <1>5 DEF Standing
  <2>2. \A j \in Keys : Standing(j)' = Standing(j)
    BY <1>4, <2>1
  <2>3. CASE st = "pending"
    BY <1>2, <2>2, <2>3, StutterStep
  <2>4. CASE st = "sent"
    BY <1>2, <2>1, <2>2, <2>4, ShowStep
  <2> QED
    BY <2>3, <2>4
<1>6. CASE k \notin DOMAIN rows
  <2>1. /\ Standing(k) \in {"new", "dropped"}
        /\ Standing(k)' = IF st = "sent" THEN "sent" ELSE "kept"
    BY <1>3, <1>6 DEF Standing
  <2> DEFINE p == [j \in Keys |-> Phase(j)]
             q == [j \in Keys |-> Phase(j)']
  <2>2. \A j \in Keys : p[j] = Standing(j) /\ q[j] = Standing(j)'
    BY DEF Standings
  <2>3. CASE st = "pending"
    <3>1. p[k] \in {"new", "dropped"} /\ q = [p EXCEPT ![k] = "kept"]
      BY <1>1, <1>4, <2>1, <2>2, <2>3
    <3>2. ShownKeys' = ShownKeys
      BY <1>2, <2>3, KeysShown
    <3>3. Promise!Accept(k)
      BY <3>1, <3>2 DEF Promise!Accept
    <3> QED
      BY <1>1, <3>3 DEF Promise!Next
  <2>4. CASE st = "sent"
    <3>1. p[k] \in {"new", "dropped"} /\ q = [p EXCEPT ![k] = "sent"]
      BY <1>1, <1>4, <2>1, <2>2, <2>4
    <3>2. ShownKeys' = ShownKeys \cup {k}
      BY <1>2, <2>4, KeysShown
    <3>3. Promise!AcceptShown(k)
      BY <3>1, <3>2 DEF Promise!AcceptShown
    <3> QED
      BY <1>1, <3>3 DEF Promise!Next
  <2> QED
    BY <2>3, <2>4
<1> QED
  BY <1>5, <1>6

(* A claim drops the keys whose row has no text. *)
LEMMA ProcessOutboxRefines ==
  ASSUME IInv, SendInv, Standings, Standings', ProcessOutbox
  PROVE  Promise!Next
<1>1. PICK C \in SUBSET DOMAIN rows :
        /\ DOMAIN rows' = DOMAIN rows
        /\ \A k \in DOMAIN rows \ C : rows'[k] = rows[k]
        /\ \A k \in C : /\ Claimable(k)
                        /\ rows[k].msg \in Blank => rows'[k] = Undeliverable(rows[k])
                        /\ rows[k].msg \notin Blank => rows'[k] = Leased(rows[k])
        /\ requested' = requested /\ shown' = shown
  BY ClaimFacts
<1>2. \A k \in C : /\ rows[k].state \in {"pending", "leased", "failed"}
                   /\ rows[k].msg \in Blank => rows'[k].state = "dead_letter"
                   /\ rows[k].msg \notin Blank => rows'[k].state = "leased"
  BY <1>1, RowUpdates, TypeFacts DEF Claimable
<1> DEFINE K == {k \in C : rows[k].msg \in Blank}
<1>3. K \in SUBSET Keys
  BY <1>1 DEF IInv, Core, TypeOK
<1>4. \A k \in K : Standing(k) = "kept" /\ Standing(k)' = "dropped"
  BY <1>1, <1>2 DEF Standing
<1>5. \A k \in Keys \ K : Standing(k)' = Standing(k)
  BY <1>1, <1>2 DEF Standing
<1> HIDE DEF K
<1> QED
  BY <1>1, <1>3, <1>4, <1>5, DropStep

LEMMA ShowRefines ==
  ASSUME IInv, SendInv, Standings, Standings', NEW s \in sends, Show(s)
  PROVE  Promise!Next
<1>1. /\ UNCHANGED <<rows, requested>>
      /\ shown' = [shown EXCEPT ![s.msg] = @ + 1]
  BY DEF Show
<1>2. s.msg \in Messages /\ s.msg \in requested
  BY TypeFacts DEF SendInv, Asked
<1>3. \A k \in Keys : Standing(k)' = Standing(k)
  BY <1>1 DEF Standing
<1>4. Standing(KeyOf[s.msg]) # "new"
  BY <1>2 DEF Standing
<1> QED
  BY <1>1, <1>2, <1>3, <1>4, ShowStep

LEMMA SettleRefines ==
  ASSUME IInv, SendInv, Standings, Standings', NEW s \in sends,
         Acknowledge(s) \/ Reject(s) \/ TimeOut(s)
  PROVE  Promise!Next \/ UNCHANGED Promise!vars
<1> DEFINE k == KeyOf[s.msg]
<1>1. /\ requested' = requested /\ shown' = shown
      /\ s.msg \in Messages /\ k \in Keys
  BY TypeFacts, OutboxAssumption DEF Acknowledge, Reject, TimeOut
<1>2. /\ DOMAIN rows' = DOMAIN rows
      /\ \A j \in DOMAIN rows : j # k => rows'[j] = rows[j]
      /\ k \in DOMAIN rows =>
           \/ rows'[k] = rows[k]
           \/ /\ rows[k].state \in Deliverable
              /\ \/ rows'[k].state \in {"failed", "dead_letter"}
                 \/ rows'[k].state = "sent" /\ s.reached
  BY EndSendRows DEF Deliverable
<1>3. \A j \in Keys \ {k} : Standing(j)' = Standing(j)
  BY <1>1, <1>2 DEF Standing
<1>4. CASE Standing(k)' = Standing(k)
  <2>1. \A j \in Keys : Standing(j)' = Standing(j)
    BY <1>3, <1>4
  <2> QED
    BY <1>1, <2>1, StutterStep
<1>5. CASE Standing(k)' # Standing(k)
  <2>1. /\ k \in DOMAIN rows /\ rows[k].state \in Deliverable
        /\ \/ rows'[k].state = "dead_letter"
           \/ rows'[k].state = "sent" /\ s.reached
    BY <1>1, <1>2, <1>5 DEF Standing, Deliverable
  <2>2. Standing(k) = "kept"
    BY <2>1 DEF Standing, Deliverable
  <2>3. CASE rows'[k].state = "dead_letter"
    <3>1. Standing(k)' = "dropped"
      BY <1>2, <2>1, <2>3 DEF Standing
    <3>2. {k} \in SUBSET Keys
      BY <1>1
    <3> QED
      BY <1>1, <1>3, <2>2, <3>1, <3>2, DropStep
  <2>4. CASE rows'[k].state = "sent" /\ s.reached
    <3>1. Standing(k)' = "sent"
      BY <1>2, <2>1, <2>4 DEF Standing
    <3>2. k \in ShownKeys
      BY <1>1, <2>4 DEF IInv, Core, SendsFiled, ShownKeys
    <3> DEFINE p == [j \in Keys |-> Phase(j)]
               q == [j \in Keys |-> Phase(j)']
    <3>3. \A j \in Keys : p[j] = Standing(j) /\ q[j] = Standing(j)'
      BY DEF Standings
    <3>4. p[k] = "kept" /\ q = [p EXCEPT ![k] = "sent"]
      BY <1>1, <1>3, <2>2, <3>1, <3>3
    <3>5. ShownKeys' = ShownKeys
      BY <1>1, KeysShown
    <3>6. Promise!Confirm(k)
      BY <3>2, <3>4, <3>5 DEF Promise!Confirm
    <3> QED
      BY <1>1, <3>6 DEF Promise!Next
  <2> QED
    BY <2>1, <2>3, <2>4
<1> QED
  BY <1>4, <1>5

(* Prune drops the keys whose last delivery attempt failed too long ago;   *)
(* those it finds retired are dropped already.                             *)
LEMMA PruneRefines ==
  ASSUME IInv, Standings, Standings', Prune
  PROVE  Promise!Next
<1>1. /\ DOMAIN rows' = {k \in DOMAIN rows : ~Prunable(k)}
      /\ \A k \in DOMAIN rows' : rows'[k] = rows[k]
      /\ requested' = requested /\ shown' = shown
  BY DEF Prune
<1>2. \A k \in DOMAIN rows : k \in {KeyOf[m] : m \in requested}
  BY TypeFacts
<1> DEFINE K == {k \in DOMAIN rows : Prunable(k) /\ rows[k].state = "failed"}
<1>3. K \in SUBSET Keys
  BY DEF IInv, Core, TypeOK
<1>4. \A k \in K : Standing(k) = "kept" /\ Standing(k)' = "dropped"
  BY <1>1, <1>2 DEF Standing
<1>5. \A k \in Keys \ K : Standing(k)' = Standing(k)
  BY <1>1, <1>2 DEF Standing, Prunable
<1> HIDE DEF K
<1> QED
  BY <1>1, <1>3, <1>4, <1>5, DropStep

LEMMA NextRefines ==
  ASSUME IInv, SendInv, Standings, Standings', [Next]_vars
  PROVE  Promise!Next \/ UNCHANGED Promise!vars
<1>1. CASE \E m \in Messages :
             EnqueueText(m) \/ EnqueueDirectText(m) \/ RecordTextDelivered(m)
  BY <1>1, EnqueueRefines
<1>2. CASE ProcessOutbox
  BY <1>2, ProcessOutboxRefines
<1>3. CASE \E s \in sends : Show(s)
  BY <1>3, ShowRefines
<1>4. CASE Settle
  BY <1>4, SettleRefines DEF Settle
<1>5. CASE Prune
  BY <1>5, PruneRefines
<1>6. CASE Crash \/ Restart \/ \E p \in Platforms : ProviderDown(p) \/ ProviderUp(p)
  <2>1. Crash => UNCHANGED <<rows, requested, shown>>
    BY Zenon DEF Crash
  <2>2. ~Crash => UNCHANGED <<rows, requested, shown>>
    BY <1>6 DEF Restart, ProviderDown, ProviderUp
  <2>3. \A k \in Keys : Standing(k)' = Standing(k)
    BY <2>1, <2>2 DEF Standing
  <2> QED
    BY <2>1, <2>2, <2>3, StutterStep
<1>7. CASE Tick
  <2>1. /\ DOMAIN rows' = DOMAIN rows
        /\ \A k \in DOMAIN rows : rows'[k] = Aged(rows[k])
        /\ requested' = requested /\ shown' = shown
    BY <1>7 DEF Tick
  <2>2. \A k \in DOMAIN rows : rows'[k].state = rows[k].state
    BY <2>1, TypeFacts, RowUpdates
  <2>3. \A k \in Keys : Standing(k)' = Standing(k)
    BY <2>1, <2>2 DEF Standing
  <2> QED
    BY <2>1, <2>3, StutterStep
<1>8. CASE UNCHANGED vars
  <2>1. UNCHANGED <<rows, requested, shown>>
    BY <1>8 DEF vars
  <2>2. \A k \in Keys : Standing(k)' = Standing(k)
    BY <2>1 DEF Standing
  <2> QED
    BY <2>1, <2>2, StutterStep
<1> QED
  BY <1>1, <1>2, <1>3, <1>4, <1>5, <1>6, <1>7, <1>8 DEF Next

(* The outbox implements durable delivery as Delivery states it, key by    *)
(* key: each statement, claim, send and prune is a step of the promise, or *)
(* none.                                                                   *)
THEOREM OutboxImplementsDelivery ==
  Spec => ImplementsDelivery
<1>1. Init => Promise!Init
  <2> SUFFICES ASSUME Init PROVE Promise!Init
    OBVIOUS
  <2>1. requested = {} /\ DOMAIN rows = {} /\ shown = [m \in Messages |-> 0]
    BY DEF Init
  <2>2. \A k \in Keys : Phase(k) = "new"
    BY <2>1, InitIInv, PhaseIsStanding DEF Standings, Standing
  <2> QED
    BY <2>1, <2>2 DEF Promise!Init, ShownKeys
<1>2. IInv => Standings
  BY PhaseIsStanding
<1>3. IInv' => Standings'
  BY StandingNext
<1>4. /\ IInv /\ SendInv /\ IInv' /\ [Next]_vars
      => [Promise!Next]_(Promise!vars)
  BY <1>2, <1>3, NextRefines
<1>5. Spec => [](IInv /\ SendInv /\ Paid)
  BY SendsInvariance
<1> QED
  BY <1>1, <1>4, <1>5, PTL DEF Spec, ImplementsDelivery, Promise!Spec
=============================================================================
