------------------------- MODULE MessageQueueProofs -------------------------
(***************************************************************************)
(* Theorems about MessageQueue, for every set of rooms and every limit.    *)
(*                                                                         *)
(* The argument is about the record q alone.  Coherent(s, n) collects what *)
(* the caps rest on: the running total is read off the Map, so every room  *)
(* that runs a task must have an entry; a task is filed under its own      *)
(* room; and the Map's insertion order is total, so the rooms pumpAll      *)
(* starts are ranked 0, 1, 2... and the free slots bound their number.     *)
(*                                                                         *)
(* The books rest on Books.  Every helper of the class Advances the        *)
(* record: it moves tasks on from waiting to running or dropped, takes     *)
(* them off the heads of their rooms, and loses none; and one is through   *)
(* only when the room, or after pumpAll every room, is Served: out of      *)
(* work or of slots.                                                       *)
(***************************************************************************)
EXTENDS MessageQueue, FiniteSetTheorems, SequenceTheorems, TLAPS

Filed(s) ==
  \A r \in Rooms : \A i \in DOMAIN s.tasks[r] : s.tasks[r][i].room = r

Tracked(s) ==
  /\ \A t \in s.running : t.room \in s.rooms
  /\ \A r \in Rooms : s.tasks[r] # << >> => r \in s.rooms

Ordered(s, n) ==
  /\ \A r \in s.rooms : s.since[r] <= n
  /\ \A r, p \in s.rooms : s.since[r] = s.since[p] => r = p

Capped(s) ==
  /\ Cardinality(s.running) <= MaxRunning
  /\ \A r \in Rooms : RunningIn(s, r) <= Concurrency

Coherent(s, n) ==
  /\ s \in Queue
  /\ IsFiniteSet(s.running)
  /\ IsFiniteSet(s.rooms)
  /\ Filed(s)
  /\ Tracked(s)
  /\ Ordered(s, n)
  /\ Capped(s)

-----------------------------------------------------------------------------
(* dropStale takes at most the whole FIFO. *)
LEMMA StaleCountType ==
  ASSUME NEW S, NEW seq \in Seq(S)
  PROVE  StaleCount(seq) \in 0..Len(seq)
<1> DEFINE P == {i \in 1..Len(seq) : \A j \in 1..i : Stale(seq[j])}
<1>1. Len(seq) \in Nat
  BY LenProperties
<1>2. /\ IsFiniteSet(1..Len(seq))
      /\ Cardinality(1..Len(seq)) = Len(seq)
  BY <1>1, FS_Interval, SMTT(30)
<1>3. /\ IsFiniteSet(P)
      /\ Cardinality(P) <= Len(seq)
  BY <1>2, FS_Subset
<1>4. Cardinality(P) \in Nat
  BY <1>3, FS_CardinalityType
<1> QED
  BY <1>1, <1>3, <1>4 DEF StaleCount

(* What dropStale leaves and what it takes are tasks of the FIFO. *)
LEMMA LiveType ==
  ASSUME NEW seq \in Seq(Task)
  PROVE  /\ Live(seq) \in Seq(Task)
         /\ StaleHead(seq) \subseteq Task
         /\ \A i \in DOMAIN Live(seq) :
              \E j \in DOMAIN seq : Live(seq)[i] = seq[j]
         /\ Live(seq) # << >> => seq # << >>
<1> DEFINE k == StaleCount(seq)
<1>1. k \in 0..Len(seq) /\ Len(seq) \in Nat
  BY StaleCountType, LenProperties
<1>2. \A i \in (k+1)..Len(seq) : seq[i] \in Task
  BY <1>1, ElementOfSeq
<1> HIDE DEF k
<1>3. /\ SubSeq(seq, k+1, Len(seq)) \in Seq(Task)
      /\ Len(SubSeq(seq, k+1, Len(seq))) =
           IF k+1 <= Len(seq) THEN Len(seq) - (k+1) + 1 ELSE 0
      /\ \A i \in 1..(Len(seq)-(k+1)+1) :
           SubSeq(seq, k+1, Len(seq))[i] = seq[(k+1)+i-1]
  BY <1>1, <1>2, SubSeqProperties
<1>4. Live(seq) = SubSeq(seq, k+1, Len(seq))
  BY DEF Live, k
<1>5. DOMAIN Live(seq) = 1..Len(Live(seq)) /\ DOMAIN seq = 1..Len(seq)
  BY <1>3, <1>4, LenProperties
<1>6. ASSUME NEW i \in DOMAIN Live(seq)
      PROVE  \E j \in DOMAIN seq : Live(seq)[i] = seq[j]
  <2>0. i \in 1..Len(Live(seq))
    BY <1>5, <1>6
  <2> HIDE <1>6
  <2>1. i \in 1..(Len(seq) - k) /\ k + i \in 1..Len(seq)
    BY <2>0, <1>1, <1>3, <1>4
  <2>2. Live(seq)[i] = seq[k+i]
    BY <1>1, <1>3, <1>4, <2>1
  <2> QED
    BY <1>5, <2>1, <2>2
<1>7. StaleHead(seq) \subseteq Task
  BY <1>1, ElementOfSeq DEF StaleHead, k
<1>8. Live(seq) # << >> => seq # << >>
  BY <1>3, <1>4, <1>5, <1>6, EmptySeq
<1> QED
  BY <1>3, <1>4, <1>6, <1>7, <1>8

(* dropStale changes FIFOs only, and keeps the queue coherent. *)
LEMMA DropStaleCoherent ==
  ASSUME NEW n, NEW s, Coherent(s, n), NEW R \in SUBSET Rooms
  PROVE  /\ Coherent(DropStale(s, R), n)
         /\ DropStale(s, R).running = s.running
         /\ DropStale(s, R).rooms = s.rooms
         /\ \A r \in R : DropStale(s, R).tasks[r] = Live(s.tasks[r])
<1> DEFINE d == DropStale(s, R)
<1>1. /\ s \in Queue
      /\ s.tasks \in [Rooms -> Seq(Task)]
      /\ s.discarded \subseteq Task
  BY DEF Coherent, Queue
<1>2. \A r \in Rooms : Live(s.tasks[r]) \in Seq(Task)
                       /\ StaleHead(s.tasks[r]) \subseteq Task
  BY <1>1, LiveType
<1>3. /\ d.tasks = [r \in Rooms |-> IF r \in R THEN Live(s.tasks[r])
                                               ELSE s.tasks[r]]
      /\ d.running = s.running
      /\ d.rooms = s.rooms
      /\ d.since = s.since
      /\ d.lastActivity = s.lastActivity
      /\ d.discarded = s.discarded \cup UNION {StaleHead(s.tasks[r]) : r \in R}
  BY <1>1 DEF DropStale, Queue
<1>4. d.tasks \in [Rooms -> Seq(Task)] /\ d.discarded \subseteq Task
  BY <1>1, <1>2, <1>3
<1>5. d \in Queue
  BY <1>1, <1>3, <1>4 DEF DropStale, Queue
<1>6. Filed(d)
  <2> SUFFICES ASSUME NEW r \in Rooms, NEW i \in DOMAIN d.tasks[r]
               PROVE  d.tasks[r][i].room = r
    BY DEF Filed
  <2>1. CASE r \in R
    <3>1. d.tasks[r] = Live(s.tasks[r]) /\ s.tasks[r] \in Seq(Task)
      BY <1>1, <1>3, <2>1
    <3>2. PICK j \in DOMAIN s.tasks[r] : d.tasks[r][i] = s.tasks[r][j]
      BY <3>1, LiveType
    <3> QED
      BY <3>2 DEF Coherent, Filed
  <2>2. CASE r \notin R
    BY <1>3, <2>2 DEF Coherent, Filed
  <2> QED
    BY <2>1, <2>2
<1>7. Tracked(d)
  <2>1. \A r \in Rooms : d.tasks[r] # << >> => s.tasks[r] # << >>
    BY <1>1, <1>3, LiveType
  <2> QED
    BY <1>3, <2>1 DEF Coherent, Tracked
<1>8. Ordered(d, n) /\ Capped(d)
  BY <1>3 DEF Coherent, Ordered, Capped, RunningIn
<1> QED
  BY <1>3, <1>5, <1>6, <1>7, <1>8 DEF Coherent

(* Every known room counts: getRunningCount is the number of running tasks. *)
LEMMA RunningCountExact ==
  ASSUME NEW s, Tracked(s)
  PROVE  RunningCount(s) = Cardinality(s.running)
<1>1. {t \in s.running : t.room \in s.rooms} = s.running
  BY DEF Tracked
<1> QED
  BY <1>1 DEF RunningCount

LEMMA OneMore ==
  ASSUME NEW S, IsFiniteSet(S), NEW x
  PROVE  /\ Cardinality(S \cup {x}) \in Nat
         /\ Cardinality(S \cup {x}) <= Cardinality(S) + 1
<1>1. Cardinality(S) \in Nat
  BY FS_CardinalityType
<1>2. Cardinality(S \cup {x}) = IF x \in S THEN Cardinality(S)
                                           ELSE Cardinality(S) + 1
  BY FS_AddElement
<1> QED
  BY <1>1, <1>2

(* Starting the head task of open rooms with work, no more of them than    *)
(* there are free slots, keeps the queue coherent.                         *)
LEMMA StartHeadCoherent ==
  ASSUME NEW n, NEW s, Coherent(s, n), now \in 0..MaxTime,
         NEW R \in SUBSET s.rooms, IsFiniteSet(R),
         \A r \in R : s.tasks[r] # << >> /\ RunningIn(s, r) < Concurrency,
         Cardinality(s.running) + Cardinality(R) <= MaxRunning
  PROVE  Coherent(StartHead(s, R), n)
<1> DEFINE d == StartHead(s, R)
           heads == {Head(s.tasks[r]) : r \in R}
<1>1. /\ s \in Queue
      /\ s.tasks \in [Rooms -> Seq(Task)]
      /\ s.lastActivity \in [Rooms -> 0..MaxTime]
      /\ s.running \subseteq Task
      /\ s.rooms \subseteq Rooms
  BY DEF Coherent, Queue
<1>2. \A r \in R : /\ Head(s.tasks[r]) \in Task
                   /\ Tail(s.tasks[r]) \in Seq(Task)
                   /\ Head(s.tasks[r]) = s.tasks[r][1]
                   /\ 1 \in DOMAIN s.tasks[r]
                   /\ \A i \in DOMAIN Tail(s.tasks[r]) :
                        /\ i+1 \in DOMAIN s.tasks[r]
                        /\ Tail(s.tasks[r])[i] = s.tasks[r][i+1]
  BY <1>1, HeadTailProperties, LenProperties, EmptySeq
<1>3. /\ d.tasks = [r \in Rooms |-> IF r \in R THEN Tail(s.tasks[r])
                                               ELSE s.tasks[r]]
      /\ d.lastActivity = [r \in Rooms |-> IF r \in R THEN now
                                                      ELSE s.lastActivity[r]]
      /\ d.running = s.running \cup heads
      /\ d.rooms = s.rooms
      /\ d.since = s.since
      /\ d.discarded = s.discarded
  BY <1>1 DEF StartHead, Queue
<1>4. /\ d.tasks \in [Rooms -> Seq(Task)]
      /\ d.lastActivity \in [Rooms -> 0..MaxTime]
      /\ d.running \subseteq Task
  BY <1>1, <1>2, <1>3
<1>5. d \in Queue
  BY <1>1, <1>3, <1>4 DEF StartHead, Queue
<1>6. \A r \in R : Head(s.tasks[r]).room = r
  BY <1>1, <1>2 DEF Coherent, Filed
<1>7. IsFiniteSet(heads) /\ Cardinality(heads) <= Cardinality(R)
  <2> DEFINE f == [r \in R |-> Head(s.tasks[r])]
  <2>1. f \in Surjection(R, heads)
    BY DEF Surjection
  <2> QED
    BY <2>1, FS_Surjection
<1>8. /\ IsFiniteSet(d.running)
      /\ Cardinality(d.running) <= MaxRunning
  <2>1. IsFiniteSet(s.running)
    BY DEF Coherent
  <2>2. /\ IsFiniteSet(s.running \cup heads)
        /\ Cardinality(s.running \cup heads)
             = Cardinality(s.running) + Cardinality(heads)
               - Cardinality(s.running \cap heads)
    BY <2>1, <1>7, FS_Union
  <2>3. IsFiniteSet(s.running \cap heads)
    BY <2>1, FS_Subset
  <2>4. /\ Cardinality(s.running) \in Nat
        /\ Cardinality(heads) \in Nat
        /\ Cardinality(R) \in Nat
        /\ Cardinality(s.running \cap heads) \in Nat
    BY <2>1, <2>3, <1>7, FS_CardinalityType
  <2>5. MaxRunning \in Nat
    BY QueueAssumption
  <2> HIDE DEF heads
  <2> QED
    BY <1>3, <1>7, <2>2, <2>4, <2>5
<1>9. \A r \in Rooms : RunningIn(d, r) <= Concurrency
  <2> SUFFICES ASSUME NEW r \in Rooms
               PROVE  RunningIn(d, r) <= Concurrency
    OBVIOUS
  <2> DEFINE old == {t \in s.running : t.room = r}
  <2>1. IsFiniteSet(old)
    BY FS_Subset DEF Coherent
  <2>2. RunningIn(s, r) = Cardinality(old) /\ Cardinality(old) \in Nat
    BY <2>1, FS_CardinalityType DEF RunningIn
  <2>3. RunningIn(s, r) <= Concurrency
    BY DEF Coherent, Capped
  <2>4. CASE r \in R
    <3>1. {t \in d.running : t.room = r} = old \cup {Head(s.tasks[r])}
      BY <1>3, <1>6, <2>4
    <3>2. /\ Cardinality(old \cup {Head(s.tasks[r])}) \in Nat
          /\ Cardinality(old \cup {Head(s.tasks[r])}) <= Cardinality(old) + 1
      BY <2>1, OneMore
    <3>3. RunningIn(d, r) <= Cardinality(old) + 1 /\ RunningIn(d, r) \in Nat
      BY <3>1, <3>2 DEF RunningIn
    <3>4. Cardinality(old) < Concurrency
      BY <2>2, <2>4
    <3>5. Concurrency \in Nat
      BY QueueAssumption
    <3> HIDE DEF old, d
    <3> QED
      BY <2>2, <3>3, <3>4, <3>5
  <2>5. CASE r \notin R
    <3>1. {t \in d.running : t.room = r} = old
      BY <1>3, <1>6, <2>5
    <3> QED
      BY <2>2, <2>3, <3>1 DEF RunningIn
  <2> QED
    BY <2>4, <2>5
<1>10. Filed(d)
  <2> SUFFICES ASSUME NEW r \in Rooms, NEW i \in DOMAIN d.tasks[r]
               PROVE  d.tasks[r][i].room = r
    BY DEF Filed
  <2>1. CASE r \in R
    <3>1. d.tasks[r] = Tail(s.tasks[r])
      BY <1>3, <2>1
    <3>2. i+1 \in DOMAIN s.tasks[r] /\ d.tasks[r][i] = s.tasks[r][i+1]
      BY <1>2, <2>1, <3>1
    <3> QED
      BY <3>2 DEF Coherent, Filed
  <2>2. CASE r \notin R
    BY <1>3, <2>2 DEF Coherent, Filed
  <2> QED
    BY <2>1, <2>2
<1>11. Tracked(d)
  <2>1. \A t \in d.running : t.room \in d.rooms
    BY <1>3, <1>6 DEF Coherent, Tracked
  <2>2. \A r \in Rooms : d.tasks[r] # << >> => r \in d.rooms
    BY <1>3 DEF Coherent, Tracked
  <2> QED
    BY <2>1, <2>2 DEF Tracked
<1>12. Ordered(d, n) /\ IsFiniteSet(d.rooms)
  BY <1>3 DEF Coherent, Ordered
<1> QED
  BY <1>5, <1>8, <1>9, <1>10, <1>11, <1>12 DEF Coherent, Capped

(* processNext keeps the queue coherent: it starts at most one task.       *)
LEMMA ProcessNextCoherent ==
  ASSUME NEW n, NEW s, Coherent(s, n), now \in 0..MaxTime,
         NEW room \in Rooms
  PROVE  Coherent(ProcessNext(s, room), n)
<1> DEFINE R == {r \in {room} : Open(s, r)}
           S == {r \in R : Startable(s, r) /\ RunningCount(s) < MaxRunning}
           d == DropStale(s, R)
<1>1. /\ Coherent(d, n)
      /\ d.running = s.running
      /\ d.rooms = s.rooms
      /\ \A r \in R : d.tasks[r] = Live(s.tasks[r])
  BY DropStaleCoherent
<1>2. S \in SUBSET d.rooms
  BY <1>1 DEF Open
<1>3. S \subseteq {room} /\ IsFiniteSet({room}) /\ Cardinality({room}) = 1
  BY FS_Singleton
<1>4. IsFiniteSet(S) /\ Cardinality(S) <= 1
  BY <1>3, FS_Subset
<1>5. \A r \in S : d.tasks[r] # << >> /\ RunningIn(d, r) < Concurrency
  BY <1>1 DEF Startable, Open, RunningIn
<1>6. Cardinality(d.running) + Cardinality(S) <= MaxRunning
  <2>1. /\ Cardinality(d.running) \in Nat
        /\ Cardinality(S) \in Nat
        /\ MaxRunning \in Nat
    BY <1>1, <1>4, FS_CardinalityType, QueueAssumption DEF Coherent
  <2>2. CASE S = {}
    <3>1. Cardinality(S) = 0
      BY <2>2, FS_EmptySet
    <3>2. Cardinality(d.running) <= MaxRunning
      BY <1>1 DEF Coherent, Capped
    <3> QED
      BY <2>1, <3>1, <3>2
  <2>3. CASE S # {}
    <3>1. RunningCount(s) < MaxRunning
      BY <2>3
    <3>2. Cardinality(d.running) < MaxRunning
      BY <1>1, <3>1, RunningCountExact DEF Coherent
    <3> HIDE DEF S
    <3> QED
      BY <1>4, <2>1, <3>2
  <2> QED
    BY <2>2, <2>3
<1>7. Coherent(StartHead(d, S), n)
  BY <1>1, <1>2, <1>4, <1>5, <1>6, StartHeadCoherent
<1> QED
  BY <1>7 DEF ProcessNext

(* The rooms pumpAll starts have different ranks below the free slots, so  *)
(* they are no more than the free slots.                                   *)
LEMMA PumpFits ==
  ASSUME NEW n, NEW s, Coherent(s, n),
         \A r \in s.rooms : s.since[r] \in Nat,
         NEW S, S = {r \in Reached(s) : Startable(s, r)}
  PROVE  /\ IsFiniteSet(S)
         /\ Cardinality(s.running) + Cardinality(S) <= MaxRunning
<1> DEFINE free == MaxRunning - Cardinality(s.running)
           f == [r \in S |-> Cardinality(Ahead(s, r))]
<1>1. IsFiniteSet(s.rooms) /\ IsFiniteSet(s.running)
  BY DEF Coherent
<1>2. S \subseteq s.rooms /\ IsFiniteSet(S)
  BY <1>1, FS_Subset DEF Reached
<1>3. /\ MaxRunning \in Nat
      /\ Cardinality(s.running) \in Nat
      /\ Cardinality(s.running) <= MaxRunning
      /\ Cardinality(S) \in Nat
  BY <1>1, <1>2, FS_CardinalityType, QueueAssumption DEF Coherent, Capped
<1>4. \A r \in s.rooms : /\ IsFiniteSet(Ahead(s, r))
                         /\ Cardinality(Ahead(s, r)) \in Nat
  BY <1>1, FS_Subset, FS_CardinalityType DEF Ahead
<1>5. RunningCount(s) = Cardinality(s.running)
  BY RunningCountExact DEF Coherent
<1>6. f \in [S -> 0..(free-1)]
  <2> SUFFICES ASSUME NEW r \in S
               PROVE  Cardinality(Ahead(s, r)) \in 0..(free-1)
    OBVIOUS
  <2>1. Cardinality(s.running) + Cardinality(Ahead(s, r)) < MaxRunning
    BY <1>5 DEF Reached
  <2> QED
    BY <1>2, <1>3, <1>4, <2>1
<1>7. \A r, p \in S : s.since[p] < s.since[r] => f[p] < f[r]
  <2> SUFFICES ASSUME NEW r \in S, NEW p \in S, s.since[p] < s.since[r]
               PROVE  Cardinality(Ahead(s, p)) < Cardinality(Ahead(s, r))
    OBVIOUS
  <2>1. /\ p \in Ahead(s, r)
        /\ p \notin Ahead(s, p)
        /\ Ahead(s, p) \subseteq Ahead(s, r)
    BY <1>2 DEF Ahead
  <2>2. /\ Cardinality(Ahead(s, p)) <= Cardinality(Ahead(s, r))
        /\ Cardinality(Ahead(s, p)) # Cardinality(Ahead(s, r))
    BY <1>2, <1>4, <2>1, FS_Subset
  <2> QED
    BY <1>2, <1>4, <2>2
<1>8. \A r, p \in S : f[r] = f[p] => r = p
  <2> SUFFICES ASSUME NEW r \in S, NEW p \in S, r # p
               PROVE  f[r] # f[p]
    OBVIOUS
  <2>1. s.since[r] # s.since[p] /\ s.since[r] \in Nat /\ s.since[p] \in Nat
    BY <1>2 DEF Coherent, Ordered
  <2>2. s.since[r] < s.since[p] \/ s.since[p] < s.since[r]
    BY <2>1
  <2>3. f[r] \in Int /\ f[p] \in Int
    BY <1>6
  <2> HIDE DEF f
  <2> QED
    BY <1>7, <2>2, <2>3
<1>9. f \in Injection(S, 0..(free-1))
  BY <1>6, <1>8 DEF Injection, IsInjective
<1>10. free \in Nat
  BY <1>3
<1>11. IsFiniteSet(0..(free-1)) /\ Cardinality(0..(free-1)) = free
  BY <1>10, FS_Interval, SMTT(30)
<1>12. Cardinality(S) <= free
  BY <1>9, <1>11, FS_Injection
<1> QED
  BY <1>2, <1>3, <1>12

(* pumpAll keeps the queue coherent. *)
LEMMA PumpAllCoherent ==
  ASSUME NEW n, NEW s, Coherent(s, n), now \in 0..MaxTime
  PROVE  Coherent(PumpAll(s), n)
<1> DEFINE R == {r \in Reached(s) : Open(s, r)}
           S == {r \in Reached(s) : Startable(s, r)}
           d == DropStale(s, R)
<1>1. s.rooms \subseteq Rooms /\ s.since \in [Rooms -> 0..MaxCalls]
  BY DEF Coherent, Queue
<1>2. R \in SUBSET Rooms
  BY <1>1 DEF Reached
<1>3. /\ Coherent(d, n)
      /\ d.running = s.running
      /\ d.rooms = s.rooms
      /\ \A r \in R : d.tasks[r] = Live(s.tasks[r])
  BY <1>2, DropStaleCoherent
<1>4. \A r \in s.rooms : s.since[r] \in Nat
  BY <1>1, QueueAssumption
<1>5. /\ IsFiniteSet(S)
      /\ Cardinality(s.running) + Cardinality(S) <= MaxRunning
  BY <1>4, PumpFits
<1>6. S \in SUBSET d.rooms
  BY <1>3 DEF Reached
<1>7. \A r \in S : d.tasks[r] # << >> /\ RunningIn(d, r) < Concurrency
  BY <1>3 DEF Startable, Open, RunningIn
<1>8. Coherent(StartHead(d, S), n)
  BY <1>3, <1>5, <1>6, <1>7, StartHeadCoherent
<1>9. {r \in R : Startable(s, r)} = S
  BY DEF Startable
<1> QED
  BY <1>8, <1>9 DEF PumpAll
(* The callback of a settled task frees its slot and nothing else.         *)
LEMMA SettleCoherent ==
  ASSUME NEW n, NEW s, Coherent(s, n), now \in 0..MaxTime,
         NEW t \in s.running
  PROVE  Coherent(Settle(s, t), n) /\ t.room \in Rooms
<1> DEFINE d == Settle(s, t)
<1>1. /\ s \in Queue
      /\ s.lastActivity \in [Rooms -> 0..MaxTime]
      /\ s.running \subseteq Task
      /\ t.room \in Rooms
  BY DEF Coherent, Queue, Task
<1>2. /\ d.running = s.running \ {t}
      /\ d.rooms = s.rooms
      /\ d.since = s.since
      /\ d.tasks = s.tasks
      /\ d.discarded = s.discarded
      /\ d.lastActivity = [s.lastActivity EXCEPT ![t.room] = now]
  BY <1>1 DEF Settle, Queue
<1>3. d \in Queue
  <2>1. d.lastActivity \in [Rooms -> 0..MaxTime] /\ d.running \subseteq Task
    BY <1>1, <1>2
  <2> QED
    BY <1>1, <1>2, <2>1 DEF Settle, Queue
<1>4. d.running \in SUBSET s.running
  BY <1>2
<1>5. IsFiniteSet(s.running)
  BY DEF Coherent
<1>6. IsFiniteSet(d.running) /\ Cardinality(d.running) <= Cardinality(s.running)
  BY <1>4, <1>5, FS_Subset
<1>7. Cardinality(d.running) <= MaxRunning
  <2>1. Cardinality(d.running) \in Nat /\ Cardinality(s.running) \in Nat
    BY <1>5, <1>6, FS_CardinalityType
  <2>2. Cardinality(s.running) <= MaxRunning /\ MaxRunning \in Nat
    BY QueueAssumption DEF Coherent, Capped
  <2> HIDE DEF d
  <2> QED
    BY <1>6, <2>1, <2>2
<1>8. \A r \in Rooms : RunningIn(d, r) <= Concurrency
  <2> SUFFICES ASSUME NEW r \in Rooms
               PROVE  RunningIn(d, r) <= Concurrency
    OBVIOUS
  <2> DEFINE old == {u \in s.running : u.room = r}
             new == {u \in d.running : u.room = r}
  <2>1. new \in SUBSET old /\ IsFiniteSet(old)
    BY <1>4, <1>5, FS_Subset
  <2>2. IsFiniteSet(new) /\ Cardinality(new) <= Cardinality(old)
    BY <2>1, FS_Subset
  <2>3. Cardinality(new) \in Nat /\ Cardinality(old) \in Nat
    BY <2>1, <2>2, FS_CardinalityType
  <2>4. RunningIn(d, r) = Cardinality(new) /\ RunningIn(s, r) = Cardinality(old)
    BY DEF RunningIn
  <2>5. RunningIn(s, r) <= Concurrency /\ Concurrency \in Nat
    BY QueueAssumption DEF Coherent, Capped
  <2> HIDE DEF old, new, d
  <2> QED
    BY <2>2, <2>3, <2>4, <2>5
<1>9. Filed(d) /\ Tracked(d) /\ Ordered(d, n)
  BY <1>2 DEF Coherent, Filed, Tracked, Ordered
<1>10. IsFiniteSet(d.rooms)
  BY <1>2 DEF Coherent
<1> QED
  BY <1>1, <1>3, <1>6, <1>7, <1>8, <1>9, <1>10 DEF Coherent, Capped

(* A room gets its Map entry, stamped with a call no other entry has.      *)
LEMMA EnsureCoherent ==
  ASSUME NEW s, NEW n \in Nat, Coherent(s, n),
         calls' = n + 1, calls' \in 0..MaxCalls, now \in 0..MaxTime,
         NEW room \in Rooms
  PROVE  /\ Coherent(Ensure(s, room), calls')
         /\ room \in Ensure(s, room).rooms
<1> DEFINE d == Ensure(s, room)
<1>1. /\ s \in Queue
      /\ s.rooms \subseteq Rooms
      /\ s.since \in [Rooms -> 0..MaxCalls]
      /\ s.lastActivity \in [Rooms -> 0..MaxTime]
      /\ s.running \subseteq Task
  BY DEF Coherent, Queue
<1>2. \A r \in s.rooms : s.since[r] \in Nat /\ s.since[r] <= n
  BY <1>1, QueueAssumption DEF Coherent, Ordered
<1>3. CASE room \in s.rooms
  <2>1. d = s
    BY <1>3 DEF Ensure
  <2>2. Ordered(s, calls')
    BY <1>2 DEF Coherent, Ordered
  <2> QED
    BY <1>3, <2>1, <2>2 DEF Coherent
<1>4. CASE room \notin s.rooms
  <2>1. /\ d.rooms = s.rooms \cup {room}
        /\ d.since = [s.since EXCEPT ![room] = calls']
        /\ d.lastActivity = [s.lastActivity EXCEPT ![room] = now]
        /\ d.running = s.running
        /\ d.tasks = s.tasks
        /\ d.discarded = s.discarded
    BY <1>1, <1>4 DEF Ensure, Queue
  <2>2. /\ d.rooms \subseteq Rooms
        /\ d.since \in [Rooms -> 0..MaxCalls]
        /\ d.lastActivity \in [Rooms -> 0..MaxTime]
    BY <1>1, <2>1
  <2>3. d \in Queue
    BY <1>1, <1>4, <2>1, <2>2 DEF Ensure, Queue
  <2>4. IsFiniteSet(d.rooms)
    BY <2>1, FS_AddElement DEF Coherent
  <2>5. Ordered(d, calls')
    <3>1. \A r \in s.rooms : d.since[r] = s.since[r]
      BY <1>1, <1>4, <2>1
    <3>2. d.since[room] = n + 1
      BY <1>1, <2>1
    <3>3. \A r \in s.rooms : d.since[r] < n + 1
      BY <1>2, <3>1
    <3> QED
      BY <1>2, <2>1, <3>1, <3>2, <3>3 DEF Coherent, Ordered
  <2>6. Filed(d) /\ Tracked(d) /\ Capped(d) /\ IsFiniteSet(d.running)
    BY <2>1 DEF Coherent, Filed, Tracked, Capped, RunningIn
  <2> QED
    BY <2>1, <2>3, <2>4, <2>5, <2>6 DEF Coherent
<1> QED
  BY <1>3, <1>4

(* The new task is filed under its room, which has an entry.               *)
LEMMA PushCoherent ==
  ASSUME NEW n, NEW s, Coherent(s, n), now \in 0..MaxTime,
         NEW t \in Task, t.room \in s.rooms
  PROVE  Coherent(Push(s, t), n)
<1> DEFINE d == Push(s, t)
           r0 == t.room
<1>1. /\ s \in Queue
      /\ s.tasks \in [Rooms -> Seq(Task)]
      /\ s.lastActivity \in [Rooms -> 0..MaxTime]
      /\ s.running \subseteq Task
      /\ r0 \in Rooms
  BY DEF Coherent, Queue, Task
<1>2. /\ d.tasks = [s.tasks EXCEPT ![r0] = Append(s.tasks[r0], t)]
      /\ d.lastActivity = [s.lastActivity EXCEPT ![r0] = now]
      /\ d.rooms = s.rooms
      /\ d.since = s.since
      /\ d.running = s.running
      /\ d.discarded = s.discarded
  BY <1>1 DEF Push, Queue
<1>3. /\ Append(s.tasks[r0], t) \in Seq(Task)
      /\ Len(Append(s.tasks[r0], t)) = Len(s.tasks[r0]) + 1
      /\ \A i \in 1..Len(s.tasks[r0]) :
           Append(s.tasks[r0], t)[i] = s.tasks[r0][i]
      /\ Append(s.tasks[r0], t)[Len(s.tasks[r0]) + 1] = t
  BY <1>1, AppendProperties
<1>4. /\ d.tasks \in [Rooms -> Seq(Task)]
      /\ d.lastActivity \in [Rooms -> 0..MaxTime]
  BY <1>1, <1>2, <1>3
<1>5. d \in Queue
  BY <1>1, <1>2, <1>4 DEF Push, Queue
<1>6. Filed(d)
  <2> SUFFICES ASSUME NEW r \in Rooms, NEW i \in DOMAIN d.tasks[r]
               PROVE  d.tasks[r][i].room = r
    BY DEF Filed
  <2>1. CASE r = r0
    <3>1. d.tasks[r] = Append(s.tasks[r0], t)
      BY <1>1, <1>2, <2>1
    <3>2. Len(s.tasks[r0]) \in Nat /\ DOMAIN s.tasks[r0] = 1..Len(s.tasks[r0])
      BY <1>1, LenProperties
    <3>3. i \in 1..(Len(s.tasks[r0]) + 1)
      BY <1>3, <3>1, LenProperties
    <3>4. CASE i = Len(s.tasks[r0]) + 1
      BY <1>3, <2>1, <3>1, <3>4
    <3>5. CASE i \in 1..Len(s.tasks[r0])
      BY <1>1, <1>3, <2>1, <3>1, <3>2, <3>5 DEF Coherent, Filed
    <3> QED
      BY <3>2, <3>3, <3>4, <3>5
  <2>2. CASE r # r0
    BY <1>1, <1>2, <2>2 DEF Coherent, Filed
  <2> QED
    BY <2>1, <2>2
<1>7. Tracked(d)
  BY <1>1, <1>2 DEF Coherent, Tracked
<1>8. Ordered(d, n) /\ Capped(d) /\ IsFiniteSet(d.running) /\ IsFiniteSet(d.rooms)
  BY <1>2 DEF Coherent, Ordered, Capped, RunningIn
<1> QED
  BY <1>5, <1>6, <1>7, <1>8 DEF Coherent

(* Only rooms that run and queue nothing are forgotten.                    *)
LEMMA ForgetCoherent ==
  ASSUME NEW n, NEW s, Coherent(s, n)
  PROVE  Coherent(Forget(s), n)
<1> DEFINE d == Forget(s)
<1>1. /\ s \in Queue
      /\ s.rooms \subseteq Rooms
      /\ s.running \subseteq Task
  BY DEF Coherent, Queue
<1>2. /\ d.rooms = {r \in s.rooms : ~Idle(s, r)}
      /\ d.since = s.since
      /\ d.tasks = s.tasks
      /\ d.running = s.running
      /\ d.lastActivity = s.lastActivity
      /\ d.discarded = s.discarded
  BY <1>1 DEF Forget, Queue
<1>3. d \in Queue
  BY <1>1, <1>2 DEF Forget, Queue
<1>4. \A t \in s.running : t.room \in d.rooms
  <2> SUFFICES ASSUME NEW t \in s.running
               PROVE  ~Idle(s, t.room)
    BY <1>2 DEF Coherent, Tracked
  <2> DEFINE here == {u \in s.running : u.room = t.room}
  <2>1. IsFiniteSet(here) /\ here # {}
    BY FS_Subset DEF Coherent
  <2>2. Cardinality(here) # 0
    BY <2>1, FS_EmptySet
  <2> QED
    BY <2>2 DEF Idle, RunningIn
<1>5. \A r \in Rooms : s.tasks[r] # << >> => r \in d.rooms
  BY <1>2 DEF Coherent, Tracked, Idle
<1>6. IsFiniteSet(d.rooms)
  BY <1>2, FS_Subset DEF Coherent
<1>7. Tracked(d) /\ Filed(d)
  BY <1>2, <1>4, <1>5 DEF Coherent, Tracked, Filed
<1>8. Ordered(d, n) /\ Capped(d)
  BY <1>2 DEF Coherent, Ordered, Capped, RunningIn
<1> QED
  BY <1>2, <1>3, <1>6, <1>7, <1>8 DEF Coherent
(* beginStop empties every FIFO. *)
LEMMA BeginStopCoherent ==
  ASSUME NEW n, Coherent(q, n), BeginStop, ~stopped, IsFiniteSet(q.running)
  PROVE  Coherent(q', n)
<1>1. /\ q \in Queue
      /\ q.tasks \in [Rooms -> Seq(Task)]
      /\ q.rooms \subseteq Rooms
  BY DEF Coherent, Queue
<1>2. q' = [q EXCEPT !.tasks = [r \in Rooms |-> << >>],
                     !.discarded = @ \cup Pending(q)]
  BY DEF BeginStop
<1>3. /\ q'.tasks = [r \in Rooms |-> << >>]
      /\ q'.discarded = q.discarded \cup Pending(q)
      /\ q'.rooms = q.rooms
      /\ q'.since = q.since
      /\ q'.running = q.running
      /\ q'.lastActivity = q.lastActivity
  BY <1>1, <1>2 DEF Queue
<1>4. Pending(q) \subseteq Task
  <2>1. \A r \in Rooms : Elements(q.tasks[r]) \subseteq Task
    BY <1>1, ElementOfSeq, LenProperties DEF Elements
  <2> QED
    BY <1>1, <2>1 DEF Pending
<1>5. [r \in Rooms |-> << >>] \in [Rooms -> Seq(Task)]
  BY EmptySeq
<1>6. q' \in Queue
  BY <1>1, <1>2, <1>3, <1>4, <1>5 DEF Queue
<1>7. Filed(q') /\ Tracked(q')
  BY <1>3 DEF Coherent, Filed, Tracked
<1>8. Ordered(q', n) /\ Capped(q')
  BY <1>3 DEF Coherent, Ordered, Capped, RunningIn
<1> QED
  BY <1>3, <1>6, <1>7, <1>8 DEF Coherent

-----------------------------------------------------------------------------
(* The inductive invariant: TypeOK and RunningCaps do not carry themselves *)
(* over a completion without the coherence of the Map.                     *)
IInv == TypeOK /\ Coherent(q, calls)

LEMMA InitIInv == Init => IInv
<1> SUFFICES ASSUME Init PROVE IInv
  OBVIOUS
<1>1. /\ MaxTime \in Nat /\ MaxCalls \in Nat
      /\ MaxRunning \in Nat /\ Concurrency \in Nat
  BY QueueAssumption
<1>2. /\ q.rooms = {}
      /\ q.running = {}
      /\ q.tasks = [r \in Rooms |-> << >>]
  BY DEF Init
<1>3. << >> \in Seq(Task)
  BY EmptySeq
<1>4. q \in Queue
  BY <1>1, <1>3 DEF Init, Queue
<1>5. IsFiniteSet({}) /\ Cardinality({}) = 0
  BY FS_EmptySet
<1>6. \A r \in Rooms : {t \in q.running : t.room = r} = {}
  BY <1>2
<1>7. Capped(q)
  BY <1>1, <1>2, <1>5, <1>6 DEF Capped, RunningIn
<1>8. Coherent(q, calls)
  BY <1>2, <1>4, <1>5, <1>7 DEF Coherent, Filed, Tracked, Ordered
<1>9. TypeOK
  <2>1. drain \in Drain
    BY DEF Init, Drain
  <2>2. now \in 0..MaxTime /\ calls \in 0..MaxCalls
    BY <1>1 DEF Init
  <2> QED
    BY <1>4, <2>1, <2>2 DEF Init, TypeOK
<1> QED
  BY <1>8, <1>9 DEF IInv

LEMMA EnqueueIInv ==
  ASSUME IInv, NEW room \in Rooms, Enqueue(room)
  PROVE  IInv'
<1>1. /\ calls \in Nat /\ calls' = calls + 1
      /\ calls' \in 1..MaxCalls /\ calls' \in 0..MaxCalls
      /\ now \in 0..MaxTime
      /\ Coherent(q, calls)
  BY QueueAssumption DEF Enqueue, IInv, TypeOK
<1>2. /\ UNCHANGED <<now, stopped, aborted, drain, finished>>
      /\ refused' = refused \/ refused' = refused \cup {calls'}
  BY DEF Enqueue, EnqueueStopped, EnqueueOpen
<1>3. Coherent(q', calls')
  <2>1. CASE EnqueueStopped(room)
    <3>1. q' = q /\ q.since \in [Rooms -> 0..MaxCalls] /\ q.rooms \subseteq Rooms
      BY <1>1, <2>1 DEF EnqueueStopped, Coherent, Queue
    <3>2. Ordered(q, calls')
      BY <1>1, <3>1, QueueAssumption DEF Coherent, Ordered
    <3> QED
      BY <1>1, <3>1, <3>2 DEF Coherent
  <2>2. CASE EnqueueOpen(room)
    <3> DEFINE e == Ensure(q, room)
               s == DropStale(e, {room})
               t == [id |-> calls', room |-> room, at |-> now]
    <3>1. Coherent(e, calls') /\ room \in e.rooms
      BY <1>1, EnsureCoherent
    <3>2. Coherent(s, calls') /\ s.rooms = e.rooms
      BY <3>1, DropStaleCoherent
    <3>3. t \in Task /\ t.room \in s.rooms
      BY <1>1, <3>1, <3>2 DEF Task
    <3>4. Coherent(Push(s, t), calls')
      BY <1>1, <3>2, <3>3, PushCoherent
    <3>5. Coherent(ProcessNext(Push(s, t), room), calls')
      BY <1>1, <3>4, ProcessNextCoherent
    <3>6. Coherent(PumpAll(ProcessNext(Push(s, t), room)), calls')
      BY <1>1, <3>5, PumpAllCoherent
    <3>7. q' = s \/ q' = PumpAll(ProcessNext(Push(s, t), room))
      BY <2>2 DEF EnqueueOpen
    <3> QED
      BY <3>2, <3>6, <3>7
  <2> QED
    BY <2>1, <2>2 DEF Enqueue
<1>4. TypeOK'
  <2>1. q' \in Queue
    BY <1>3 DEF Coherent
  <2>2. refused' \in SUBSET (1..MaxCalls)
    BY <1>1, <1>2 DEF IInv, TypeOK
  <2> QED
    BY <1>1, <1>2, <2>1, <2>2 DEF IInv, TypeOK, Drain, Task
<1> QED
  BY <1>3, <1>4 DEF IInv

LEMMA FinishIInv ==
  ASSUME IInv, NEW t \in q.running, Finish(t)
  PROVE  IInv'
<1>1. now \in 0..MaxTime /\ Coherent(q, calls) /\ q.running \subseteq Task
  BY DEF IInv, TypeOK, Queue
<1>2. /\ UNCHANGED <<now, calls, stopped, drain, refused>>
      /\ finished' = finished \cup {t}
      /\ aborted' = aborted \ {t}
  BY DEF Finish
<1>3. Coherent(Settle(q, t), calls) /\ t.room \in Rooms
  BY <1>1, SettleCoherent
<1>4. Coherent(ProcessNext(Settle(q, t), t.room), calls)
  BY <1>1, <1>3, ProcessNextCoherent
<1>5. Coherent(PumpAll(ProcessNext(Settle(q, t), t.room)), calls)
  BY <1>1, <1>4, PumpAllCoherent
<1>6. Coherent(q', calls')
  BY <1>2, <1>3, <1>5 DEF Finish
<1>7. TypeOK'
  BY <1>1, <1>2, <1>6 DEF IInv, TypeOK, Coherent, Drain
<1> QED
  BY <1>6, <1>7 DEF IInv

LEMMA StopIInv ==
  ASSUME IInv, Stop \/ CloseAndDrain
  PROVE  IInv'
<1>1. Coherent(q, calls) /\ q.running \subseteq Task /\ IsFiniteSet(q.running)
  BY DEF IInv, TypeOK, Queue, Coherent
<1>2. BeginStop /\ UNCHANGED <<now, calls, refused, finished>>
  BY DEF Stop, CloseAndDrain
<1>3. Coherent(q', calls)
  <2>1. CASE stopped
    BY <1>1, <1>2, <2>1 DEF BeginStop
  <2>2. CASE ~stopped
    BY <1>1, <1>2, <2>2, BeginStopCoherent
  <2> QED
    BY <2>1, <2>2
<1>4. stopped' \in BOOLEAN /\ aborted' \subseteq Task
  BY <1>1, <1>2 DEF BeginStop, IInv, TypeOK
<1>5. drain' \in Drain
  <2>1. CASE Stop
    BY <2>1 DEF Stop, IInv, TypeOK
  <2>2. CASE CloseAndDrain
    <3>1. now + Grace \in Nat
      BY QueueAssumption DEF IInv, TypeOK
    <3> QED
      BY <1>1, <2>2, <3>1 DEF CloseAndDrain, Drain
  <2> QED
    BY <2>1, <2>2
<1>6. TypeOK'
  BY <1>2, <1>3, <1>4, <1>5 DEF IInv, TypeOK, Coherent
<1> QED
  BY <1>2, <1>3, <1>6 DEF IInv

LEMMA NextIInv == IInv /\ [Next]_vars => IInv'
<1> SUFFICES ASSUME IInv, [Next]_vars PROVE IInv'
  OBVIOUS
<1>1. ASSUME NEW room \in Rooms, Enqueue(room) PROVE IInv'
  BY <1>1, EnqueueIInv
<1>2. CASE FinishAny
  BY <1>2, FinishIInv DEF FinishAny
<1>3. CASE Prune
  <2> DEFINE d == DropStale(q, q.rooms)
  <2>1. Coherent(q, calls) /\ q.rooms \subseteq Rooms
    BY DEF IInv, TypeOK, Queue
  <2>2. Coherent(d, calls)
    BY <2>1, DropStaleCoherent
  <2>3. Coherent(Forget(d), calls)
    BY <2>2, ForgetCoherent
  <2>4. q' = Forget(d) /\ UNCHANGED <<now, calls, stopped, aborted, drain, refused, finished>>
    BY <1>3 DEF Prune
  <2>5. TypeOK'
    BY <2>3, <2>4 DEF IInv, TypeOK, Coherent
  <2> QED
    BY <2>3, <2>4, <2>5 DEF IInv
<1>4. CASE Stop \/ CloseAndDrain
  BY <1>4, StopIInv
<1>5. CASE DrainSettled \/ DrainExpired
  BY <1>5 DEF DrainSettled, DrainExpired, IInv, TypeOK, Drain
<1>6. CASE Tick
  <2>1. now' \in 0..MaxTime /\ UNCHANGED <<q, calls, stopped, aborted, drain, refused, finished>>
    BY <1>6, QueueAssumption DEF Tick, IInv, TypeOK
  <2> QED
    BY <2>1 DEF IInv, TypeOK
<1>7. CASE UNCHANGED vars
  BY <1>7 DEF vars, IInv, TypeOK
<1> QED
  BY <1>1, <1>2, <1>3, <1>4, <1>5, <1>6, <1>7 DEF Next

(* The caps hold together with what they rest on. *)
THEOREM Invariance == Spec => []IInv
<1> QED
  BY InitIInv, NextIInv, PTL DEF Spec

(* Every variable of the queue keeps its type. *)
THEOREM TypeCorrect == Spec => []TypeOK
<1>1. IInv => TypeOK
  BY DEF IInv
<1> QED
  BY <1>1, Invariance, PTL

(* The process-wide and the per-room running caps (MessageQueue.ts:42-50,  *)
(* 108, 120) hold whatever the number of rooms, the limits and the order   *)
(* of enqueues, completions, prunes and shutdown calls.                    *)
THEOREM CapsHold == Spec => []RunningCaps
<1>1. IInv => RunningCaps
  BY DEF IInv, Coherent, Capped, RunningCaps
<1> QED
  BY <1>1, Invariance, PTL

(* No room that runs or queues a task is ever missing from the Map, so the *)
(* running total getRunningCount sums over the Map is the real one.        *)
THEOREM RoomsStayTracked == Spec => []RoomsTracked
<1>1. ASSUME IInv, NEW r \in Rooms, RunningIn(q, r) > 0 \/ q.tasks[r] # << >>
      PROVE  r \in q.rooms
  <2> DEFINE here == {t \in q.running : t.room = r}
  <2>1. CASE RunningIn(q, r) > 0
    <3>1. Cardinality(here) > 0
      BY <2>1 DEF RunningIn
    <3>2. here # {}
      BY <3>1, FS_EmptySet
    <3> QED
      BY <1>1, <3>2 DEF IInv, Coherent, Tracked
  <2>2. CASE q.tasks[r] # << >>
    BY <1>1, <2>2 DEF IInv, Coherent, Tracked
  <2> QED
    BY <1>1, <2>1, <2>2
<1>2. IInv => RoomsTracked
  BY <1>1 DEF RoomsTracked
<1> QED
  BY <1>2, Invariance, PTL

-----------------------------------------------------------------------------
(* The books of the queue.  The helpers of the model only ever move tasks  *)
(* from the FIFOs to the running set or to the dropped ones, so the sum of *)
(* the three is kept, and each FIFO loses a prefix.                        *)

(* A FIFO is in the order of the enqueue calls. *)
Increasing(s) ==
  \A r \in Rooms : \A i, j \in DOMAIN s.tasks[r] :
    i < j => s.tasks[r][i].id < s.tasks[r][j].id

Separate(s) ==
  /\ Pending(s) \cap s.running = {}
  /\ Pending(s) \cap s.discarded = {}
  /\ s.running \cap s.discarded = {}

Sound(s) == Increasing(s) /\ Separate(s)

Total(s) == Pending(s) \cup s.running \cup s.discarded

(* What a step of the queue may do to its tasks: keep them all, shorten    *)
(* FIFOs, and start tasks that are fresh and the oldest left of their room.*)
Advances(s, d) ==
  /\ Total(d) = Total(s)
  /\ Pending(d) \subseteq Pending(s)
  /\ \A r \in Rooms : Len(d.tasks[r]) <= Len(s.tasks[r])
  /\ s.running \subseteq d.running
  /\ \A t \in d.running \ s.running :
       /\ ~Stale(t)
       /\ \A u \in Pending(d) : u.room = t.room => u.id > t.id

LEMMA TasksType ==
  ASSUME NEW n, NEW s, Coherent(s, n)
  PROVE  /\ s.tasks \in [Rooms -> Seq(Task)]
         /\ \A r \in Rooms : /\ s.tasks[r] \in Seq(Task)
                             /\ Len(s.tasks[r]) \in Nat
                             /\ DOMAIN s.tasks[r] = 1..Len(s.tasks[r])
                             /\ \A i \in 1..Len(s.tasks[r]) :
                                  /\ s.tasks[r][i] \in Task
                                  /\ s.tasks[r][i].room = r
                                  /\ s.tasks[r][i].id \in Nat
         /\ s.rooms \subseteq Rooms
         /\ s.running \subseteq Task /\ s.discarded \subseteq Task
<1>1. /\ s.tasks \in [Rooms -> Seq(Task)]
      /\ s.rooms \subseteq Rooms
      /\ s.running \subseteq Task /\ s.discarded \subseteq Task
  BY DEF Coherent, Queue
<1>2. ASSUME NEW r \in Rooms
      PROVE  /\ s.tasks[r] \in Seq(Task)
             /\ Len(s.tasks[r]) \in Nat
             /\ DOMAIN s.tasks[r] = 1..Len(s.tasks[r])
  BY <1>1, LenProperties
<1>3. ASSUME NEW r \in Rooms, NEW i \in 1..Len(s.tasks[r])
      PROVE  /\ s.tasks[r][i] \in Task
             /\ s.tasks[r][i].room = r
             /\ s.tasks[r][i].id \in Nat
  <2>1. s.tasks[r][i] \in Task
    BY <1>2, ElementOfSeq
  <2>2. i \in DOMAIN s.tasks[r]
    BY <1>2
  <2> QED
    BY <2>1, <2>2, QueueAssumption DEF Coherent, Filed, Task
<1> QED
  BY <1>1, <1>2, <1>3

(* A waiting task is an element of some FIFO. *)
LEMMA PendingElements ==
  ASSUME NEW n, NEW s, Coherent(s, n)
  PROVE  /\ \A t \in Pending(s) : /\ t \in Task /\ t.room \in Rooms
                                  /\ \E i \in 1..Len(s.tasks[t.room]) :
                                       t = s.tasks[t.room][i]
         /\ \A r \in Rooms : \A i \in 1..Len(s.tasks[r]) : s.tasks[r][i] \in Pending(s)
<1>1. ASSUME NEW t \in Pending(s)
      PROVE  /\ t \in Task /\ t.room \in Rooms
             /\ \E i \in 1..Len(s.tasks[t.room]) : t = s.tasks[t.room][i]
  <2>1. PICK r \in s.rooms : t \in Elements(s.tasks[r])
    BY DEF Pending
  <2>2. r \in Rooms
    BY TasksType
  <2>3. PICK i \in 1..Len(s.tasks[r]) : t = s.tasks[r][i]
    BY <2>1, <2>2, TasksType DEF Elements
  <2> QED
    BY <2>2, <2>3, TasksType
<1>2. ASSUME NEW r \in Rooms, NEW i \in 1..Len(s.tasks[r])
      PROVE  s.tasks[r][i] \in Pending(s)
  <2>1. i \in DOMAIN s.tasks[r] /\ Len(s.tasks[r]) # 0
    BY TasksType
  <2>2. s.tasks[r] # << >>
    BY <2>1, EmptySeq
  <2>3. r \in s.rooms
    BY <2>2 DEF Coherent, Tracked
  <2> QED
    BY <2>1, <2>3 DEF Pending, Elements
<1> QED
  BY <1>1, <1>2

LEMMA SamePending ==
  ASSUME NEW n, NEW s, Coherent(s, n), NEW m, NEW d, Coherent(d, m), d.tasks = s.tasks
  PROVE  Pending(d) = Pending(s)
<1>1. \A t \in Pending(s) : t \in Pending(d)
  BY PendingElements
<1>2. \A t \in Pending(d) : t \in Pending(s)
  BY PendingElements
<1> QED
  BY <1>1, <1>2

(* FIFO r loses its first k[r] tasks; taken are the tasks lost. *)
Cut(s, d, k) ==
  \A r \in Rooms : /\ k[r] <= Len(s.tasks[r])
                   /\ Len(d.tasks[r]) = Len(s.tasks[r]) - k[r]
                   /\ \A i \in 1..(Len(s.tasks[r]) - k[r]) :
                        d.tasks[r][i] = s.tasks[r][k[r] + i]

TakenBy(s, k, taken) ==
  \A t : t \in taken <=> \E r \in Rooms : \E i \in 1..k[r] : t = s.tasks[r][i]

(* Each FIFO loses a prefix: what is taken is older than what is left.     *)
LEMMA PrefixTaken ==
  ASSUME NEW n, NEW s, Coherent(s, n), Increasing(s),
         NEW m, NEW d, Coherent(d, m),
         NEW k \in [Rooms -> Nat],
         Cut(s, d, k), NEW taken, TakenBy(s, k, taken)
  PROVE  /\ Increasing(d)
         /\ Pending(s) = Pending(d) \cup taken
         /\ Pending(d) \cap taken = {}
         /\ \A t \in taken, u \in Pending(d) : u.room = t.room => u.id > t.id
         /\ \A r \in Rooms : Len(d.tasks[r]) <= Len(s.tasks[r])
<1>a. \A r \in Rooms : /\ k[r] <= Len(s.tasks[r])
                       /\ Len(d.tasks[r]) = Len(s.tasks[r]) - k[r]
                       /\ \A i \in 1..(Len(s.tasks[r]) - k[r]) :
                            d.tasks[r][i] = s.tasks[r][k[r] + i]
  BY DEF Cut
<1>b. \A t : t \in taken <=> \E r \in Rooms : \E i \in 1..k[r] : t = s.tasks[r][i]
  BY DEF TakenBy
<1>1. ASSUME NEW r \in Rooms
      PROVE  /\ Len(s.tasks[r]) \in Nat /\ Len(d.tasks[r]) \in Nat /\ k[r] \in Nat
             /\ DOMAIN s.tasks[r] = 1..Len(s.tasks[r])
             /\ DOMAIN d.tasks[r] = 1..Len(d.tasks[r])
             /\ \A i, j \in 1..Len(s.tasks[r]) :
                  i < j => s.tasks[r][i].id < s.tasks[r][j].id
  <2>1. /\ Len(s.tasks[r]) \in Nat /\ DOMAIN s.tasks[r] = 1..Len(s.tasks[r])
    BY TasksType
  <2>2. Len(d.tasks[r]) \in Nat /\ DOMAIN d.tasks[r] = 1..Len(d.tasks[r])
    BY TasksType
  <2>3. k[r] \in Nat
    OBVIOUS
  <2>4. \A i, j \in DOMAIN s.tasks[r] : i < j => s.tasks[r][i].id < s.tasks[r][j].id
    BY DEF Increasing
  <2> QED
    BY <2>1, <2>2, <2>3, <2>4
<1>2. Increasing(d)
  <2> SUFFICES ASSUME NEW r \in Rooms, NEW i \in DOMAIN d.tasks[r],
                      NEW j \in DOMAIN d.tasks[r], i < j
               PROVE  d.tasks[r][i].id < d.tasks[r][j].id
    BY DEF Increasing
  <2>a. i \in 1..Len(d.tasks[r]) /\ j \in 1..Len(d.tasks[r]) /\ i < j
    BY <1>a, <1>1
  <2>1. /\ i \in 1..(Len(s.tasks[r]) - k[r]) /\ j \in 1..(Len(s.tasks[r]) - k[r])
        /\ k[r] + i \in 1..Len(s.tasks[r]) /\ k[r] + j \in 1..Len(s.tasks[r])
        /\ k[r] + i < k[r] + j
    <3> DEFINE a == Len(s.tasks[r])
               b == Len(d.tasks[r])
               c == k[r]
    <3>1. a \in Nat /\ b \in Nat /\ c \in Nat /\ c <= a /\ b = a - c
      BY <1>a, <1>1
    <3>2. i \in 1..b /\ j \in 1..b /\ i < j
      BY <2>a
    <3> HIDE DEF a, b, c
    <3>3. /\ i \in 1..(a - c) /\ j \in 1..(a - c)
          /\ c + i \in 1..a /\ c + j \in 1..a /\ c + i < c + j
      BY <3>1, <3>2
    <3> QED
      BY <3>3 DEF a, b, c
  <2>2. d.tasks[r][i] = s.tasks[r][k[r] + i] /\ d.tasks[r][j] = s.tasks[r][k[r] + j]
    BY <1>a, <2>1
  <2> QED
    BY <1>a, <1>1, <2>1, <2>2
<1>3. ASSUME NEW t \in Pending(s)
      PROVE  t \in Pending(d) \/ t \in taken
  <2> DEFINE r == t.room
  <2>1. PICK i \in 1..Len(s.tasks[r]) : t = s.tasks[r][i]
    BY PendingElements
  <2>2. r \in Rooms
    BY PendingElements
  <2> HIDE DEF r
  <2>3. CASE i <= k[r]
    <3>1. i \in 1..k[r]
      BY <1>1, <2>2, <2>3
    <3> QED
      BY <1>a, <1>b, <2>1, <2>2, <3>1
  <2>4. CASE i > k[r]
    <3>1. i - k[r] \in 1..(Len(s.tasks[r]) - k[r]) /\ k[r] + (i - k[r]) = i
      BY <1>1, <2>2, <2>4
    <3>2. d.tasks[r][i - k[r]] = t /\ i - k[r] \in 1..Len(d.tasks[r])
      BY <1>a, <1>b, <2>1, <2>2, <3>1
    <3> QED
      BY <2>2, <3>2, PendingElements
  <2> QED
    BY <1>1, <2>2, <2>3, <2>4
<1>4. ASSUME NEW t \in taken
      PROVE  /\ t \in Pending(s)
             /\ t.room \in Rooms
             /\ \E i \in 1..k[t.room] : i \in 1..Len(s.tasks[t.room]) /\ t = s.tasks[t.room][i]
  <2>0. PICK r \in Rooms : \E i \in 1..k[r] : t = s.tasks[r][i]
    BY <1>b
  <2>1. PICK i \in 1..k[r] : t = s.tasks[r][i]
    BY <2>0
  <2>2. i \in 1..Len(s.tasks[r])
    BY <1>a, <1>1
  <2>3. t \in Pending(s) /\ t.room = r
    BY <2>1, <2>2, PendingElements, TasksType
  <2> QED
    BY <1>a, <2>1, <2>2, <2>3
<1>5. ASSUME NEW u \in Pending(d)
      PROVE  /\ u \in Pending(s)
             /\ \E j \in 1..Len(s.tasks[u.room]) : j > k[u.room] /\ u = s.tasks[u.room][j]
  <2> DEFINE r == u.room
  <2>1. PICK i \in 1..Len(d.tasks[r]) : u = d.tasks[r][i]
    BY PendingElements
  <2>2. r \in Rooms /\ u.room = r
    BY PendingElements
  <2> HIDE DEF r
  <2>3. /\ k[r] + i \in 1..Len(s.tasks[r]) /\ i \in 1..(Len(s.tasks[r]) - k[r])
        /\ k[r] + i > k[r]
    BY <1>a, <1>1, <2>1, <2>2
  <2>4. u = s.tasks[r][k[r] + i]
    BY <1>a, <2>1, <2>2, <2>3
  <2> QED
    BY <2>2, <2>3, <2>4, PendingElements
<1>6. ASSUME NEW t \in taken, NEW u \in Pending(d), u.room = t.room
      PROVE  u.id > t.id
  <2> DEFINE r == t.room
  <2>1. PICK i \in 1..k[r] : i \in 1..Len(s.tasks[r]) /\ t = s.tasks[r][i]
    BY <1>4
  <2>2. PICK j \in 1..Len(s.tasks[r]) : j > k[r] /\ u = s.tasks[r][j]
    BY <1>5, <1>6
  <2>3. r \in Rooms
    BY <1>4
  <2> HIDE DEF r
  <2>4. i < j /\ s.tasks[r][i].id \in Nat /\ s.tasks[r][j].id \in Nat
    BY <1>1, <2>1, <2>2, <2>3, TasksType
  <2> QED
    BY <1>1, <2>1, <2>2, <2>3, <2>4
<1>7. Pending(d) \cap taken = {}
  <2> SUFFICES ASSUME NEW t \in taken, t \in Pending(d) PROVE FALSE
    OBVIOUS
  <2>1. t.id > t.id /\ t.id \in Nat
    BY <1>6, PendingElements, QueueAssumption DEF Task
  <2> QED
    BY <1>a, <2>1
<1>8. \A r \in Rooms : Len(d.tasks[r]) <= Len(s.tasks[r])
  BY <1>a, <1>1
<1> QED
  BY <1>2, <1>3, <1>4, <1>5, <1>6, <1>7, <1>8

(* dropStale cuts a FIFO at its first fresh task. *)
LEMMA LiveSplit ==
  ASSUME NEW seq \in Seq(Task), now \in Nat
  PROVE  LET k == StaleCount(seq)
         IN  /\ k \in 0..Len(seq)
             /\ Len(Live(seq)) = Len(seq) - k
             /\ \A i \in 1..(Len(seq) - k) : Live(seq)[i] = seq[k + i]
             /\ k < Len(seq) => ~Stale(seq[k + 1])
<1> DEFINE k == StaleCount(seq)
           n == Len(seq)
           P == {i \in 1..n : \A j \in 1..i : Stale(seq[j])}
<1>1. k \in 0..n /\ n \in Nat
  BY StaleCountType, LenProperties
<1>2. \A i \in (k+1)..n : seq[i] \in Task
  BY <1>1, ElementOfSeq
<1>3. k = Cardinality(P)
  BY DEF StaleCount
<1> HIDE DEF k
<1>4. /\ Len(Live(seq)) = n - k
      /\ \A i \in 1..(n - k) : Live(seq)[i] = seq[k + i]
  <2>1. /\ Len(SubSeq(seq, k+1, n)) = IF k+1 <= n THEN n - (k+1) + 1 ELSE 0
        /\ \A i \in 1..(n-(k+1)+1) : SubSeq(seq, k+1, n)[i] = seq[(k+1)+i-1]
    BY <1>1, <1>2, SubSeqProperties
  <2>2. Live(seq) = SubSeq(seq, k+1, n)
    BY DEF Live, k
  <2>3. \A i \in 1..(n - k) : i \in 1..(n-(k+1)+1) /\ (k+1)+i-1 = k + i
    BY <1>1
  <2>4. Len(Live(seq)) = n - k
    BY <1>1, <2>1, <2>2
  <2> HIDE DEF n
  <2> QED
    BY <2>1, <2>2, <2>3, <2>4
<1>5. ASSUME k < n, Stale(seq[k + 1])
      PROVE  FALSE
  <2>1. IsFiniteSet(1..n)
    BY <1>1, FS_Interval
  <2>2. P \in SUBSET (1..n) /\ IsFiniteSet(P)
    BY <2>1, FS_Subset
  <2>3. CASE k + 1 \in P
    <3>1. 1..(k+1) \in SUBSET P
      BY <1>1, <2>3
    <3>2. Cardinality(1..(k+1)) = k + 1
      BY <1>1, FS_Interval
    <3>3. Cardinality(1..(k+1)) <= Cardinality(P)
      BY <2>2, <3>1, FS_Subset
    <3> QED
      BY <1>1, <1>3, <3>2, <3>3
  <2>4. CASE k + 1 \notin P
    <3>1. PICK j \in 1..(k+1) : ~Stale(seq[j])
      BY <1>1, <1>5, <2>4
    <3>2. j \in 1..k
      BY <1>1, <1>5, <3>1
    <3>3. P \in SUBSET (1..(j-1))
      BY <1>1, <3>1, <3>2
    <3>a. j \in Int /\ j >= 1 /\ j - 1 \in Int /\ 1 \in Int
      BY <1>1, <3>2
    <3>4. IsFiniteSet(1..(j-1)) /\ Cardinality(1..(j-1)) = j - 1
      <4>1. /\ IsFiniteSet(1..(j-1))
            /\ Cardinality(1..(j-1)) = IF 1 > j-1 THEN 0 ELSE (j-1)-1+1
        BY <3>a, FS_Interval
      <4> QED
        BY <3>a, <4>1
    <3>5. Cardinality(P) <= j - 1
      BY <3>3, <3>4, FS_Subset
    <3> QED
      BY <1>1, <1>3, <3>2, <3>5
  <2> QED
    BY <2>3, <2>4
<1> QED
  BY <1>1, <1>4, <1>5 DEF k

(* Tasks taken off the FIFOs that are all started, or all dropped.         *)
LEMMA MovedSound ==
  ASSUME NEW s, NEW d, NEW taken, Separate(s),
         Pending(s) = Pending(d) \cup taken,
         Pending(d) \cap taken = {},
         \/ d.running = s.running /\ d.discarded = s.discarded \cup taken
         \/ d.running = s.running \cup taken /\ d.discarded = s.discarded
  PROVE  Separate(d) /\ Total(d) = Total(s) /\ Pending(d) \subseteq Pending(s)
BY DEF Separate, Total

LEMMA DropStaleSound ==
  ASSUME NEW n, NEW s, Coherent(s, n), Sound(s), now \in Nat, NEW R \in SUBSET Rooms
  PROVE  Sound(DropStale(s, R)) /\ Advances(s, DropStale(s, R))
<1> DEFINE d == DropStale(s, R)
           k == [r \in Rooms |-> IF r \in R THEN StaleCount(s.tasks[r]) ELSE 0]
           taken == UNION {StaleHead(s.tasks[r]) : r \in R}
<1>1. /\ Coherent(d, n) /\ d.running = s.running
      /\ \A r \in R : d.tasks[r] = Live(s.tasks[r])
  BY DropStaleCoherent
<1>2. /\ \A r \in Rooms \ R : d.tasks[r] = s.tasks[r]
      /\ d.discarded = s.discarded \cup taken
  BY DEF Coherent, Queue, DropStale
<1>3. ASSUME NEW r \in Rooms
      PROVE  /\ k[r] \in Nat
             /\ k[r] <= Len(s.tasks[r])
             /\ Len(d.tasks[r]) = Len(s.tasks[r]) - k[r]
             /\ \A i \in 1..(Len(s.tasks[r]) - k[r]) :
                  d.tasks[r][i] = s.tasks[r][k[r] + i]
  <2>1. s.tasks[r] \in Seq(Task) /\ Len(s.tasks[r]) \in Nat
    BY TasksType
  <2>2. CASE r \in R
    <3>1. k[r] = StaleCount(s.tasks[r]) /\ d.tasks[r] = Live(s.tasks[r])
      BY <1>1, <2>2
    <3>2. k[r] \in 0..Len(s.tasks[r])
      BY <2>1, <3>1, LiveSplit
    <3> HIDE DEF k, d
    <3> QED
      BY <2>1, <3>1, <3>2, LiveSplit
  <2>3. CASE r \notin R
    <3>1. k[r] = 0 /\ d.tasks[r] = s.tasks[r]
      BY <1>2, <2>3
    <3> HIDE DEF k, d
    <3> QED
      BY <2>1, <3>1
  <2> QED
    BY <2>2, <2>3
<1>4. TakenBy(s, k, taken)
  <2>1. ASSUME NEW t \in taken
        PROVE  \E r \in Rooms : \E i \in 1..k[r] : t = s.tasks[r][i]
    <3>1. PICK r \in R : t \in StaleHead(s.tasks[r])
      OBVIOUS
    <3>2. k[r] = StaleCount(s.tasks[r]) /\ r \in Rooms
      OBVIOUS
    <3> QED
      BY <3>1, <3>2 DEF StaleHead
  <2>2. ASSUME NEW r \in Rooms, NEW i \in 1..k[r]
        PROVE  s.tasks[r][i] \in taken
    <3>1. r \in R /\ i \in 1..StaleCount(s.tasks[r])
      OBVIOUS
    <3> QED
      BY <3>1 DEF StaleHead
  <2> HIDE DEF taken, k
  <2> QED
    BY <2>1, <2>2 DEF TakenBy
<1>5. k \in [Rooms -> Nat]
  BY <1>3
<1> HIDE DEF d, k, taken
<1>c. Cut(s, d, k)
  BY <1>3 DEF Cut
<1>6. /\ Increasing(d)
      /\ Pending(s) = Pending(d) \cup taken
      /\ Pending(d) \cap taken = {}
      /\ \A r \in Rooms : Len(d.tasks[r]) <= Len(s.tasks[r])
  BY <1>1, <1>c, <1>4, <1>5, PrefixTaken DEF Sound
<1>7. Separate(d) /\ Total(d) = Total(s) /\ Pending(d) \subseteq Pending(s)
  BY <1>1, <1>2, <1>6, MovedSound DEF Sound
<1>8. Sound(d) /\ Advances(s, d)
  BY <1>1, <1>6, <1>7 DEF Sound, Advances
<1> QED
  BY <1>8 DEF d

LEMMA StartHeadSound ==
  ASSUME NEW n, NEW s, Coherent(s, n), Sound(s), NEW R \in SUBSET s.rooms,
         Coherent(StartHead(s, R), n),
         \A r \in R : s.tasks[r] # << >> /\ ~Stale(s.tasks[r][1])
  PROVE  Sound(StartHead(s, R)) /\ Advances(s, StartHead(s, R))
<1> DEFINE d == StartHead(s, R)
           k == [r \in Rooms |-> IF r \in R THEN 1 ELSE 0]
           heads == {Head(s.tasks[r]) : r \in R}
<1>1. R \subseteq Rooms
  BY TasksType
<1>2. ASSUME NEW r \in R
      PROVE  /\ Head(s.tasks[r]) = s.tasks[r][1]
             /\ Len(s.tasks[r]) \in Nat \ {0}
             /\ Len(Tail(s.tasks[r])) = Len(s.tasks[r]) - 1
             /\ \A i \in 1..(Len(s.tasks[r]) - 1) : Tail(s.tasks[r])[i] = s.tasks[r][1 + i]
  <2>1. s.tasks[r] \in Seq(Task) /\ s.tasks[r] # << >>
    BY <1>1, TasksType
  <2>2. Len(s.tasks[r]) \in Nat \ {0}
    BY <2>1, EmptySeq
  <2>3. \A i \in 1..(Len(s.tasks[r]) - 1) : i + 1 = 1 + i
    OBVIOUS
  <2> QED
    BY <2>1, <2>2, <2>3, HeadTailProperties
<1>3. /\ d.tasks = [r \in Rooms |-> IF r \in R THEN Tail(s.tasks[r]) ELSE s.tasks[r]]
      /\ d.running = s.running \cup heads
      /\ d.discarded = s.discarded
  <2>1. s \in Queue
    BY DEF Coherent
  <2> QED
    BY <2>1 DEF Queue, StartHead
<1>4. ASSUME NEW r \in Rooms
      PROVE  /\ k[r] \in Nat
             /\ k[r] <= Len(s.tasks[r])
             /\ Len(d.tasks[r]) = Len(s.tasks[r]) - k[r]
             /\ \A i \in 1..(Len(s.tasks[r]) - k[r]) :
                  d.tasks[r][i] = s.tasks[r][k[r] + i]
  <2>1. CASE r \in R
    <3>1. k[r] = 1 /\ d.tasks[r] = Tail(s.tasks[r])
      BY <1>3, <2>1
    <3> HIDE DEF k, d
    <3> QED
      BY <1>2, <2>1, <3>1
  <2>2. CASE r \notin R
    <3>1. k[r] = 0 /\ d.tasks[r] = s.tasks[r] /\ Len(s.tasks[r]) \in Nat
      BY <1>3, <2>2, TasksType
    <3> HIDE DEF k, d
    <3> QED
      BY <3>1
  <2> QED
    BY <2>1, <2>2
<1>5. TakenBy(s, k, heads)
  <2>1. ASSUME NEW t \in heads
        PROVE  \E r \in Rooms : \E i \in 1..k[r] : t = s.tasks[r][i]
    <3>1. PICK r \in R : t = s.tasks[r][1]
      BY <1>2
    <3>2. k[r] = 1 /\ r \in Rooms /\ 1 \in 1..1
      BY <1>1
    <3> QED
      BY <3>1, <3>2
  <2>2. ASSUME NEW r \in Rooms, NEW i \in 1..k[r]
        PROVE  s.tasks[r][i] \in heads
    <3>1. r \in R /\ i = 1
      OBVIOUS
    <3> QED
      BY <1>2, <3>1
  <2> HIDE DEF heads, k
  <2> QED
    BY <2>1, <2>2 DEF TakenBy
<1>6. k \in [Rooms -> Nat]
  BY <1>4
<1>7. Coherent(d, n)
  OBVIOUS
<1>8. \A t \in heads : ~Stale(t)
  BY <1>2
<1> HIDE DEF d, k, heads
<1>c. Cut(s, d, k)
  BY <1>4 DEF Cut
<1>9. /\ Increasing(d)
      /\ Pending(s) = Pending(d) \cup heads
      /\ Pending(d) \cap heads = {}
      /\ \A t \in heads, u \in Pending(d) : u.room = t.room => u.id > t.id
      /\ \A r \in Rooms : Len(d.tasks[r]) <= Len(s.tasks[r])
  BY <1>c, <1>5, <1>6, <1>7, PrefixTaken DEF Sound
<1>10. Separate(d) /\ Total(d) = Total(s) /\ Pending(d) \subseteq Pending(s)
  BY <1>3, <1>9, MovedSound DEF Sound
<1>11. Sound(d) /\ Advances(s, d)
  BY <1>3, <1>8, <1>9, <1>10 DEF Sound, Advances
<1> QED
  BY <1>11 DEF d

LEMMA AdvancesTransitive ==
  ASSUME NEW n, NEW s, NEW d, NEW e,
         Coherent(s, n), Coherent(d, n), Coherent(e, n),
         Advances(s, d), Advances(d, e)
  PROVE  Advances(s, e)
<1>1. \A r \in Rooms : /\ Len(s.tasks[r]) \in Nat /\ Len(d.tasks[r]) \in Nat
                       /\ Len(e.tasks[r]) \in Nat
  BY TasksType
<1>2. ASSUME NEW r \in Rooms
      PROVE  Len(e.tasks[r]) <= Len(s.tasks[r])
  <2> DEFINE a == Len(s.tasks[r])
             b == Len(d.tasks[r])
             c == Len(e.tasks[r])
  <2>1. a \in Nat /\ b \in Nat /\ c \in Nat
    BY <1>1
  <2>2. b <= a /\ c <= b
    BY DEF Advances
  <2> HIDE DEF a, b, c
  <2>3. c <= a
    BY <2>1, <2>2
  <2> QED
    BY <2>3 DEF a, c
<1> QED
  BY <1>2 DEF Advances

(* A room whose FIFO is not empty once dropStale is done starts with a     *)
(* task that is fresh.                                                     *)
LEMMA LiveHeadFresh ==
  ASSUME NEW seq \in Seq(Task), now \in Nat, Live(seq) # << >>
  PROVE  ~Stale(Live(seq)[1])
<1> DEFINE k == StaleCount(seq)
<1>1. /\ k \in 0..Len(seq) /\ Len(seq) \in Nat
      /\ Len(Live(seq)) = Len(seq) - k
      /\ \A i \in 1..(Len(seq) - k) : Live(seq)[i] = seq[k + i]
      /\ k < Len(seq) => ~Stale(seq[k + 1])
  BY LiveSplit, LenProperties
<1>2. Len(Live(seq)) \in Nat \ {0}
  BY LiveType, EmptySeq
<1> HIDE DEF k
<1>3. k < Len(seq) /\ 1 \in 1..(Len(seq) - k)
  BY <1>1, <1>2
<1> QED
  BY <1>1, <1>3

LEMMA ServeSound ==
  ASSUME NEW n, NEW s, Coherent(s, n), Sound(s), now \in Nat,
         NEW R \in SUBSET s.rooms, NEW S \in SUBSET R,
         \A r \in S : Live(s.tasks[r]) # << >>,
         Coherent(StartHead(DropStale(s, R), S), n)
  PROVE  /\ Sound(StartHead(DropStale(s, R), S))
         /\ Advances(s, StartHead(DropStale(s, R), S))
<1> DEFINE d == DropStale(s, R)
<1>1. R \in SUBSET Rooms
  BY TasksType
<1>2. /\ Coherent(d, n) /\ d.rooms = s.rooms
      /\ \A r \in R : d.tasks[r] = Live(s.tasks[r])
  BY <1>1, DropStaleCoherent
<1>3. Sound(d) /\ Advances(s, d)
  BY <1>1, DropStaleSound
<1>4. \A r \in S : d.tasks[r] # << >> /\ ~Stale(d.tasks[r][1])
  BY <1>1, <1>2, TasksType, LiveHeadFresh
<1> HIDE DEF d
<1>5. Coherent(StartHead(d, S), n) /\ S \in SUBSET d.rooms
  BY <1>2 DEF d
<1>6. Sound(StartHead(d, S)) /\ Advances(d, StartHead(d, S))
  BY <1>2, <1>3, <1>4, <1>5, StartHeadSound
<1>7. Sound(StartHead(d, S)) /\ Advances(s, StartHead(d, S))
  BY <1>2, <1>3, <1>5, <1>6, AdvancesTransitive
<1> QED
  BY <1>7 DEF d

LEMMA ProcessNextSound ==
  ASSUME NEW n, NEW s, Coherent(s, n), Sound(s), now \in 0..MaxTime, NEW room \in Rooms
  PROVE  Sound(ProcessNext(s, room)) /\ Advances(s, ProcessNext(s, room))
<1> DEFINE R == {r \in {room} : Open(s, r)}
           S == {r \in R : Startable(s, r) /\ RunningCount(s) < MaxRunning}
<1>1. Coherent(StartHead(DropStale(s, R), S), n)
  BY ProcessNextCoherent DEF ProcessNext
<1>2. /\ R \in SUBSET s.rooms /\ S \in SUBSET R
      /\ \A r \in S : Live(s.tasks[r]) # << >>
      /\ now \in Nat
  BY QueueAssumption DEF Open, Startable
<1>3. ProcessNext(s, room) = StartHead(DropStale(s, R), S)
  BY DEF ProcessNext
<1> HIDE DEF R, S
<1> QED
  BY <1>1, <1>2, <1>3, ServeSound

LEMMA PumpAllSound ==
  ASSUME NEW n, NEW s, Coherent(s, n), Sound(s), now \in 0..MaxTime
  PROVE  Sound(PumpAll(s)) /\ Advances(s, PumpAll(s))
<1> DEFINE R == {r \in Reached(s) : Open(s, r)}
           S == {r \in R : Startable(s, r)}
<1>1. PumpAll(s) = StartHead(DropStale(s, R), S)
  BY DEF PumpAll
<1>2. /\ R \in SUBSET s.rooms /\ S \in SUBSET R
      /\ \A r \in S : Live(s.tasks[r]) # << >>
      /\ now \in Nat
  BY QueueAssumption DEF Open, Startable
<1>3. Coherent(PumpAll(s), n)
  BY PumpAllCoherent
<1> HIDE DEF R, S
<1> QED
  BY <1>1, <1>2, <1>3, ServeSound

-----------------------------------------------------------------------------
(* The ledger: a task is known by its identity, every admitted identity is *)
(* in one place, and every FIFO is in the order of the calls.              *)
Ledger ==
  /\ Sound(q)
  /\ IsFiniteSet(Total(q))
  /\ Total(q) \cap finished = {}
  /\ \A t, u \in Total(q) \cup finished : t.id = u.id => t = u
  /\ Ids(Total(q) \cup finished) = Admitted
  /\ refused \subseteq 1..calls

Fits(s) ==
  /\ \A r \in Rooms : Len(s.tasks[r]) <= PerRoomLimit
  /\ PendingCount(s) <= GlobalLimit

LEMMA AdvancesReflexive ==
  ASSUME NEW n, NEW s, Coherent(s, n)
  PROVE  Advances(s, s)
<1>1. ASSUME NEW r \in Rooms
      PROVE  Len(s.tasks[r]) <= Len(s.tasks[r])
  <2> DEFINE a == Len(s.tasks[r])
  <2>1. a \in Nat
    BY TasksType
  <2> HIDE DEF a
  <2>2. a <= a
    BY <2>1
  <2> QED
    BY <2>2 DEF a
<1> QED
  BY <1>1 DEF Advances

(* Moving tasks out of the FIFOs keeps the backlog within its limits.      *)
LEMMA AdvancesFits ==
  ASSUME NEW n, NEW s, NEW d, Coherent(s, n), Coherent(d, n),
         Advances(s, d), IsFiniteSet(Total(s)), Fits(s)
  PROVE  Fits(d) /\ IsFiniteSet(Total(d))
<1>1. /\ IsFiniteSet(Pending(s)) /\ IsFiniteSet(Pending(d))
      /\ Cardinality(Pending(d)) <= Cardinality(Pending(s))
  <2>1. Pending(s) \in SUBSET Total(s) /\ Pending(d) \in SUBSET Pending(s)
    BY DEF Total, Advances
  <2>2. IsFiniteSet(Pending(s))
    BY <2>1, FS_Subset
  <2> QED
    BY <2>1, <2>2, FS_Subset
<1>2. Cardinality(Pending(s)) \in Nat /\ Cardinality(Pending(d)) \in Nat
  BY <1>1, FS_CardinalityType
<1>3. PendingCount(d) <= GlobalLimit
  BY <1>1, <1>2, QueueAssumption DEF PendingCount, Fits
<1>4. ASSUME NEW r \in Rooms
      PROVE  Len(d.tasks[r]) <= PerRoomLimit
  <2> DEFINE a == Len(s.tasks[r])
             b == Len(d.tasks[r])
  <2>1. a \in Nat /\ b \in Nat
    BY TasksType
  <2>2. b <= a /\ a <= PerRoomLimit
    BY DEF Advances, Fits
  <2>3. PerRoomLimit \in Nat
    BY QueueAssumption
  <2> HIDE DEF a, b
  <2>4. b <= PerRoomLimit
    BY <2>1, <2>2, <2>3
  <2> QED
    BY <2>4 DEF b
<1> QED
  BY <1>3, <1>4 DEF Fits, Advances

LEMMA EnsureKeeps ==
  ASSUME NEW n, NEW s, Coherent(s, n), NEW room \in Rooms
  PROVE  /\ Ensure(s, room).tasks = s.tasks
         /\ Ensure(s, room).running = s.running
         /\ Ensure(s, room).discarded = s.discarded
BY DEF Coherent, Queue, Ensure

(* A record with the same tasks in the same places tells the same.         *)
LEMMA SameBooks ==
  ASSUME NEW n, NEW s, Coherent(s, n), NEW m, NEW d, Coherent(d, m),
         d.tasks = s.tasks, d.running = s.running, d.discarded = s.discarded
  PROVE  /\ Sound(s) => Sound(d)
         /\ Advances(s, d)
         /\ Total(d) = Total(s)
<1>1. Pending(d) = Pending(s)
  BY SamePending
<1>2. Total(d) = Total(s) /\ (Separate(s) => Separate(d))
  BY <1>1 DEF Total, Separate
<1>3. Increasing(s) => Increasing(d)
  BY DEF Increasing
<1>4. Advances(s, s)
  BY AdvancesReflexive
<1>5. \A r \in Rooms : Len(d.tasks[r]) <= Len(s.tasks[r])
  BY <1>4 DEF Advances
<1> QED
  BY <1>1, <1>2, <1>3, <1>5 DEF Sound, Advances

(* The pushed task is the youngest: it takes its place at the tail.        *)
LEMMA PushSound ==
  ASSUME NEW n, NEW s, Coherent(s, n), Sound(s),
         NEW t \in Task, t.room \in s.rooms, Coherent(Push(s, t), n),
         \A u \in Total(s) : u.id < t.id
  PROVE  /\ Sound(Push(s, t))
         /\ Push(s, t).running = s.running
         /\ Pending(Push(s, t)) = Pending(s) \cup {t}
         /\ Total(Push(s, t)) = Total(s) \cup {t}
         /\ Len(Push(s, t).tasks[t.room]) = Len(s.tasks[t.room]) + 1
         /\ \A r \in Rooms : r # t.room => Push(s, t).tasks[r] = s.tasks[r]
<1> DEFINE d == Push(s, t)
           room == t.room
           len == Len(s.tasks[room])
<1>1. /\ room \in Rooms
      /\ s.tasks \in [Rooms -> Seq(Task)]
      /\ s.tasks[room] \in Seq(Task)
      /\ len \in Nat
  BY TasksType DEF Task
<1>2. /\ d.tasks = [s.tasks EXCEPT ![room] = Append(s.tasks[room], t)]
      /\ d.running = s.running
      /\ d.discarded = s.discarded
  BY DEF Coherent, Queue, Push
<1>3. /\ d.tasks[room] = Append(s.tasks[room], t)
      /\ \A r \in Rooms : r # room => d.tasks[r] = s.tasks[r]
  BY <1>1, <1>2
<1>4. /\ Len(d.tasks[room]) = len + 1
      /\ \A i \in 1..len : d.tasks[room][i] = s.tasks[room][i]
      /\ d.tasks[room][len + 1] = t
  BY <1>1, <1>3, AppendProperties
<1> HIDE DEF len
<1>5. DOMAIN d.tasks[room] = 1..(len + 1)
  BY <1>1, <1>4, TasksType
<1>6. \A i \in 1..len : s.tasks[room][i] \in Pending(s)
  BY <1>1, PendingElements DEF len
<1>7. Increasing(d)
  <2> SUFFICES ASSUME NEW r \in Rooms, NEW i \in DOMAIN d.tasks[r],
                      NEW j \in DOMAIN d.tasks[r], i < j
               PROVE  d.tasks[r][i].id < d.tasks[r][j].id
    BY DEF Increasing
  <2>1. CASE r # room
    BY <1>3, <2>1 DEF Sound, Increasing
  <2>2. CASE r = room
    <3>0. i \in 1..(len + 1) /\ j \in 1..(len + 1) /\ i < j
      BY <1>5, <2>2
    <3>1. i \in 1..len
      BY <1>1, <3>0
    <3>2. CASE j \in 1..len
      <4>1. i \in DOMAIN s.tasks[room] /\ j \in DOMAIN s.tasks[room]
        BY <1>1, <3>1, <3>2, TasksType DEF len
      <4> QED
        BY <1>1, <1>4, <2>2, <3>0, <3>1, <3>2, <4>1 DEF Sound, Increasing
    <3>3. CASE j = len + 1
      BY <1>4, <1>6, <2>2, <3>1, <3>3 DEF Total
    <3> QED
      BY <1>1, <3>0, <3>2, <3>3
  <2> QED
    BY <2>1, <2>2
<1>8. Pending(d) = Pending(s) \cup {t}
  <2>1. ASSUME NEW u \in Pending(d)
        PROVE  u \in Pending(s) \cup {t}
    <3>1. PICK i \in 1..Len(d.tasks[u.room]) : u = d.tasks[u.room][i]
      BY PendingElements
    <3>2. u.room \in Rooms
      BY PendingElements
    <3>3. CASE u.room # room
      <4>1. d.tasks[u.room] = s.tasks[u.room]
        BY <1>3, <3>2, <3>3
      <4> QED
        BY <3>1, <3>2, <4>1, PendingElements
    <3>4. CASE u.room = room
      <4>1. i \in 1..(len + 1) /\ u = d.tasks[room][i]
        BY <1>4, <3>1, <3>4
      <4>2. CASE i \in 1..len
        BY <1>4, <1>6, <4>1, <4>2
      <4>3. CASE i = len + 1
        BY <1>4, <4>1, <4>3
      <4> QED
        BY <1>1, <4>1, <4>2, <4>3
    <3> QED
      BY <3>3, <3>4
  <2>2. ASSUME NEW u \in Pending(s)
        PROVE  u \in Pending(d)
    <3>1. PICK i \in 1..Len(s.tasks[u.room]) : u = s.tasks[u.room][i]
      BY PendingElements
    <3>2. u.room \in Rooms
      BY PendingElements
    <3>3. CASE u.room # room
      <4>1. d.tasks[u.room] = s.tasks[u.room]
        BY <1>3, <3>2, <3>3
      <4> QED
        BY <3>1, <3>2, <4>1, PendingElements
    <3>4. CASE u.room = room
      <4>1. i \in 1..len /\ u = s.tasks[room][i]
        BY <3>1, <3>4 DEF len
      <4>2. u = d.tasks[room][i] /\ i \in 1..Len(d.tasks[room])
        BY <1>1, <1>4, <4>1
      <4> QED
        BY <1>1, <4>2, PendingElements
    <3> QED
      BY <3>3, <3>4
  <2>3. t \in Pending(d)
    <3>1. len + 1 \in 1..Len(d.tasks[room])
      BY <1>1, <1>4
    <3> QED
      BY <1>1, <1>4, <3>1, PendingElements
  <2> QED
    BY <2>1, <2>2, <2>3
<1>9. t \notin Total(s)
  BY QueueAssumption DEF Task
<1> HIDE DEF d
<1>10. Separate(d) /\ Total(d) = Total(s) \cup {t}
  BY <1>2, <1>8, <1>9 DEF Sound, Separate, Total
<1>11. Sound(d)
  BY <1>7, <1>10 DEF Sound
<1> QED
  BY <1>2, <1>3, <1>4, <1>8, <1>10, <1>11 DEF d, len

-----------------------------------------------------------------------------
(* No slot stays free beside work that may use it.  One completion frees   *)
(* one slot, so what it leaves pumpAll is at most one start away: either   *)
(* the oldest startable room takes the slot, or no room can.               *)
Served(s) ==
  Cardinality(s.running) < MaxRunning =>
    \A r \in Rooms : RunningIn(s, r) < Concurrency => s.tasks[r] = << >>

LEMMA EmptyLive == Live(<< >>) = << >>
<1>1. << >> \in Seq(Task) /\ Len(<< >>) = 0
  BY EmptySeq
<1>2. Live(<< >>) # << >> => << >> # << >>
  BY <1>1, LiveType
<1> QED
  BY <1>2

(* The numbers the caps are stated with are natural numbers. *)
LEMMA Counts ==
  ASSUME NEW n, NEW s, Coherent(s, n)
  PROVE  /\ Cardinality(s.running) \in Nat
         /\ Cardinality(s.running) <= MaxRunning
         /\ RunningCount(s) = Cardinality(s.running)
         /\ \A r \in Rooms : RunningIn(s, r) \in Nat /\ RunningIn(s, r) <= Concurrency
         /\ MaxRunning \in Nat \ {0} /\ Concurrency \in Nat \ {0}
<1>1. IsFiniteSet(s.running)
  BY DEF Coherent
<1>2. \A r \in Rooms : RunningIn(s, r) \in Nat
  <2> SUFFICES ASSUME NEW r \in Rooms PROVE RunningIn(s, r) \in Nat
    OBVIOUS
  <2>1. {t \in s.running : t.room = r} \in SUBSET s.running
    OBVIOUS
  <2> QED
    BY <1>1, <2>1, FS_Subset, FS_CardinalityType DEF RunningIn
<1>3. RunningCount(s) = Cardinality(s.running)
  BY RunningCountExact DEF Coherent
<1> QED
  BY <1>1, <1>2, <1>3, FS_CardinalityType, QueueAssumption DEF Coherent, Capped

(* What starting the head tasks of R does, room by room. *)
LEMMA StartHeadEffect ==
  ASSUME NEW n, NEW s, Coherent(s, n), Separate(s), NEW R \in SUBSET s.rooms,
         \A r \in R : s.tasks[r] # << >>
  PROVE  /\ \A r \in Rooms : r \notin R =>
              /\ StartHead(s, R).tasks[r] = s.tasks[r]
              /\ RunningIn(StartHead(s, R), r) = RunningIn(s, r)
         /\ \A r \in R : /\ StartHead(s, R).tasks[r] = Tail(s.tasks[r])
                         /\ RunningIn(StartHead(s, R), r) = RunningIn(s, r) + 1
         /\ R = {} => StartHead(s, R).running = s.running
         /\ \A r \in R : R = {r} =>
              Cardinality(StartHead(s, R).running) = Cardinality(s.running) + 1
<1> DEFINE d == StartHead(s, R)
           heads == {Head(s.tasks[r]) : r \in R}
<1>1. R \subseteq Rooms /\ IsFiniteSet(s.running)
  BY TasksType DEF Coherent
<1>2. ASSUME NEW r \in R
      PROVE  /\ Head(s.tasks[r]) = s.tasks[r][1]
             /\ 1 \in 1..Len(s.tasks[r])
             /\ Head(s.tasks[r]) \in Pending(s)
             /\ Head(s.tasks[r]).room = r
             /\ Head(s.tasks[r]) \notin s.running
  <2>1. s.tasks[r] \in Seq(Task) /\ s.tasks[r] # << >> /\ r \in Rooms
    BY <1>1, TasksType
  <2>2. Len(s.tasks[r]) \in Nat \ {0}
    BY <2>1, EmptySeq
  <2>3. 1 \in 1..Len(s.tasks[r])
    BY <2>2
  <2>4. Head(s.tasks[r]) = s.tasks[r][1]
    BY <2>1, HeadTailProperties
  <2>5. s.tasks[r][1] \in Pending(s) /\ s.tasks[r][1].room = r
    BY <2>1, <2>3, PendingElements, TasksType
  <2> QED
    BY <2>3, <2>4, <2>5 DEF Separate
<1>3. /\ d.tasks = [r \in Rooms |-> IF r \in R THEN Tail(s.tasks[r]) ELSE s.tasks[r]]
      /\ d.running = s.running \cup heads
  BY DEF Coherent, Queue, StartHead
<1>4. \A r \in Rooms : d.tasks[r] = IF r \in R THEN Tail(s.tasks[r]) ELSE s.tasks[r]
  BY <1>3
<1>5. ASSUME NEW r \in Rooms, r \notin R
      PROVE  RunningIn(d, r) = RunningIn(s, r)
  <2>1. {t \in d.running : t.room = r} = {t \in s.running : t.room = r}
    BY <1>2, <1>3, <1>5
  <2> HIDE DEF d
  <2> QED
    BY <2>1 DEF RunningIn
<1>6. ASSUME NEW r \in R
      PROVE  RunningIn(d, r) = RunningIn(s, r) + 1
  <2> DEFINE old == {t \in s.running : t.room = r}
             h == Head(s.tasks[r])
  <2>1. {t \in d.running : t.room = r} = old \cup {h}
    BY <1>2, <1>3
  <2>2. h \notin old /\ IsFiniteSet(old)
    BY <1>1, <1>2, FS_Subset
  <2>3. Cardinality(old \cup {h}) = Cardinality(old) + 1
    BY <2>2, FS_AddElement
  <2> HIDE DEF d
  <2> QED
    BY <2>1, <2>3 DEF RunningIn
<1>7. R = {} => d.running = s.running
  BY <1>3
<1>8. ASSUME NEW r \in R, R = {r}
      PROVE  Cardinality(d.running) = Cardinality(s.running) + 1
  <2>1. d.running = s.running \cup {Head(s.tasks[r])}
    BY <1>3, <1>8
  <2>2. Cardinality(s.running \cup {Head(s.tasks[r])}) = Cardinality(s.running) + 1
    BY <1>1, <1>2, FS_AddElement
  <2> HIDE DEF d
  <2> QED
    BY <2>1, <2>2
<1> HIDE DEF d
<1>9. \A r \in R : r \in Rooms /\ d.tasks[r] = Tail(s.tasks[r])
  BY <1>1, <1>4
<1>10. \A r \in Rooms : r \notin R => d.tasks[r] = s.tasks[r]
  BY <1>4
<1> QED
  BY <1>5, <1>6, <1>7, <1>8, <1>9, <1>10 DEF d

(* processNext for one room, the process below its cap: if the room has a  *)
(* fresh task and may run one, it starts it.                               *)
LEMMA ProcessNextEffect ==
  ASSUME NEW n, NEW s, Coherent(s, n), Sound(s), now \in 0..MaxTime, NEW room \in s.rooms
  PROVE  LET d == ProcessNext(s, room)
         IN  /\ \A r \in Rooms : r # room => /\ d.tasks[r] = s.tasks[r]
                                             /\ RunningIn(d, r) = RunningIn(s, r)
             /\ \/ /\ d.running = s.running
                   /\ RunningIn(s, room) < Concurrency
                   /\ Live(s.tasks[room]) = << >>
                   /\ d.tasks[room] = << >>
                \/ /\ d.running = s.running
                   /\ \/ RunningIn(s, room) >= Concurrency
                      \/ Cardinality(s.running) = MaxRunning
                \/ /\ Cardinality(d.running) = Cardinality(s.running) + 1
                   /\ RunningIn(d, room) = RunningIn(s, room) + 1
                   /\ Live(s.tasks[room]) # << >>
                   /\ d.tasks[room] = Tail(Live(s.tasks[room]))
<1> DEFINE R == {r \in {room} : Open(s, r)}
           S == {r \in R : Startable(s, r) /\ RunningCount(s) < MaxRunning}
           e == DropStale(s, R)
           d == ProcessNext(s, room)
<1>1. room \in Rooms /\ R \in SUBSET Rooms /\ s.rooms \subseteq Rooms /\ now \in Nat
  BY TasksType, QueueAssumption
<1>2. /\ Coherent(e, n) /\ e.running = s.running /\ e.rooms = s.rooms
      /\ \A r \in R : e.tasks[r] = Live(s.tasks[r])
  BY <1>1, DropStaleCoherent
<1>3. \A r \in Rooms : r \notin R => e.tasks[r] = s.tasks[r]
  BY DEF Coherent, Queue, DropStale
<1>4. Separate(e)
  BY <1>1, DropStaleSound DEF Sound
<1>5. S \in SUBSET e.rooms /\ \A r \in S : e.tasks[r] # << >>
  BY <1>2 DEF Startable
<1>6. d = StartHead(e, S)
  BY DEF ProcessNext
<1>7. R \subseteq {room} /\ S \subseteq R
  OBVIOUS
<1>8. RunningCount(s) = Cardinality(s.running) /\ Cardinality(s.running) \in Nat
      /\ Cardinality(s.running) <= MaxRunning /\ MaxRunning \in Nat /\ Concurrency \in Nat
      /\ RunningIn(s, room) \in Nat
  BY <1>1, Counts
<1>9. room \in R <=> RunningIn(s, room) < Concurrency
  BY DEF Open
<1>10. room \in S <=> /\ room \in R
                      /\ Live(s.tasks[room]) # << >>
                      /\ Cardinality(s.running) < MaxRunning
  BY <1>8 DEF Startable
<1> HIDE DEF R, S, e, d
<1>11. /\ \A r \in Rooms : r \notin S =>
            d.tasks[r] = e.tasks[r] /\ RunningIn(d, r) = RunningIn(e, r)
       /\ \A r \in S : d.tasks[r] = Tail(e.tasks[r]) /\ RunningIn(d, r) = RunningIn(e, r) + 1
       /\ S = {} => d.running = e.running
       /\ \A r \in S : S = {r} => Cardinality(d.running) = Cardinality(e.running) + 1
  BY <1>2, <1>4, <1>5, <1>6, StartHeadEffect
<1>12. \A r \in Rooms : RunningIn(e, r) = RunningIn(s, r)
  BY <1>2 DEF RunningIn
<1>13. \A r \in Rooms : r # room => d.tasks[r] = s.tasks[r] /\ RunningIn(d, r) = RunningIn(s, r)
  BY <1>3, <1>7, <1>11, <1>12
<1>14. CASE room \in S
  <2>1. S = {room}
    BY <1>7, <1>14
  <2> QED
    BY <1>1, <1>2, <1>7, <1>10, <1>11, <1>12, <1>13, <1>14, <2>1 DEF d
<1>15. CASE room \notin S
  <2>1. S = {} /\ d.running = s.running
    BY <1>2, <1>7, <1>11, <1>15
  <2>2. CASE room \notin R
    <3>1. RunningIn(s, room) >= Concurrency
      BY <1>8, <1>9, <2>2
    <3> QED
      BY <1>13, <2>1, <3>1 DEF d
  <2>3. CASE room \in R /\ Cardinality(s.running) < MaxRunning
    <3>1. Live(s.tasks[room]) = << >>
      BY <1>10, <1>15, <2>3
    <3>2. d.tasks[room] = << >>
      BY <1>1, <1>2, <1>11, <1>15, <2>3, <3>1
    <3> QED
      BY <1>9, <1>13, <2>1, <2>3, <3>1, <3>2 DEF d
  <2>4. CASE ~(Cardinality(s.running) < MaxRunning)
    <3>1. Cardinality(s.running) = MaxRunning
      BY <1>8, <2>4
    <3> QED
      BY <1>13, <2>1, <3>1 DEF d
  <2> QED
    BY <2>2, <2>3, <2>4
<1> QED
  BY <1>14, <1>15

LEMMA DropStaleServed ==
  ASSUME NEW n, NEW s, Coherent(s, n), Served(s), NEW R \in SUBSET Rooms
  PROVE  Served(DropStale(s, R))
<1> DEFINE d == DropStale(s, R)
<1>1. d.running = s.running /\ \A r \in R : d.tasks[r] = Live(s.tasks[r])
  BY DropStaleCoherent
<1>2. \A r \in Rooms : r \notin R => d.tasks[r] = s.tasks[r]
  BY DEF Coherent, Queue, DropStale
<1> HIDE DEF d
<1>3. Served(d)
  BY <1>1, <1>2, EmptyLive DEF Served, RunningIn
<1> QED
  BY <1>3 DEF d

(* pumpAll leaves the queue served, when it found it so or when at most    *)
(* one slot was free.                                                      *)
LEMMA PumpServes ==
  ASSUME NEW n, NEW s, Coherent(s, n), Sound(s), now \in 0..MaxTime,
         Served(s) \/ Cardinality(s.running) >= MaxRunning - 1
  PROVE  Served(PumpAll(s))
<1> DEFINE R == {r \in Reached(s) : Open(s, r)}
           S == {r \in R : Startable(s, r)}
           e == DropStale(s, R)
           d == PumpAll(s)
           c == Cardinality(s.running)
<1>1. s.rooms \subseteq Rooms /\ R \in SUBSET Rooms /\ now \in Nat /\ R \subseteq s.rooms
  BY TasksType, QueueAssumption DEF Reached
<1>2. /\ Coherent(e, n) /\ e.running = s.running /\ e.rooms = s.rooms
      /\ \A r \in R : e.tasks[r] = Live(s.tasks[r])
  BY <1>1, DropStaleCoherent
<1>3. \A r \in Rooms : r \notin R => e.tasks[r] = s.tasks[r]
  BY DEF Coherent, Queue, DropStale
<1>4. Separate(e)
  BY <1>1, DropStaleSound DEF Sound
<1>5. S \in SUBSET e.rooms /\ \A r \in S : e.tasks[r] # << >>
  BY <1>1, <1>2 DEF Startable
<1>6. d = StartHead(e, S)
  BY DEF PumpAll
<1>7. /\ c \in Nat /\ c <= MaxRunning /\ RunningCount(s) = c
      /\ MaxRunning \in Nat \ {0}
  BY Counts
<1>8. ASSUME NEW r \in s.rooms
      PROVE  /\ IsFiniteSet(Ahead(s, r))
             /\ Cardinality(Ahead(s, r)) \in Nat
             /\ r \in Reached(s) <=> c + Cardinality(Ahead(s, r)) < MaxRunning
  <2>1. IsFiniteSet(s.rooms) /\ Ahead(s, r) \in SUBSET s.rooms
    BY DEF Coherent, Ahead
  <2>2. IsFiniteSet(Ahead(s, r))
    BY <2>1, FS_Subset
  <2> QED
    BY <1>7, <2>2, FS_CardinalityType DEF Reached
<1>9. \A r \in s.rooms : r \in R <=> r \in Reached(s) /\ RunningIn(s, r) < Concurrency
  BY DEF Open
<1>10. \A r \in s.rooms : /\ r \in S <=> r \in Reached(s) /\ Startable(s, r)
                          /\ Startable(s, r) <=> RunningIn(s, r) < Concurrency
                                                   /\ Live(s.tasks[r]) # << >>
  BY DEF Startable, Open
<1>11. S \subseteq R
  OBVIOUS
<1> HIDE DEF R, S, e, d, c
<1>12. /\ \A r \in Rooms : r \notin S =>
            d.tasks[r] = e.tasks[r] /\ RunningIn(d, r) = RunningIn(e, r)
       /\ S = {} => d.running = e.running
       /\ \A r \in S : S = {r} => Cardinality(d.running) = Cardinality(e.running) + 1
  BY <1>2, <1>4, <1>5, <1>6, StartHeadEffect
<1>13. \A r \in Rooms : RunningIn(e, r) = RunningIn(s, r)
  BY <1>2 DEF RunningIn
<1>14. CASE c = MaxRunning
  <2>1. ASSUME NEW r \in s.rooms PROVE r \notin Reached(s)
    <3>1. ~(c + Cardinality(Ahead(s, r)) < MaxRunning)
      BY <1>7, <1>8, <1>14
    <3> QED
      BY <1>8, <3>1
  <2>2. S = {}
    BY <1>1, <1>9, <1>11, <2>1
  <2>3. Cardinality(d.running) = MaxRunning
    BY <1>2, <1>12, <1>14, <2>2 DEF c
  <2>4. Served(d)
    BY <1>7, <2>3 DEF Served
  <2> QED
    BY <2>4 DEF d
<1>15. CASE c # MaxRunning /\ Served(s)
  <2>1. \A r \in Rooms : RunningIn(s, r) < Concurrency => s.tasks[r] = << >>
    BY <1>7, <1>15 DEF Served, c
  <2>2. S = {}
    BY <1>1, <1>10, <1>11, <2>1, EmptyLive
  <2>3. \A r \in Rooms : RunningIn(s, r) < Concurrency => e.tasks[r] = << >>
    BY <1>2, <1>3, <2>1, EmptyLive
  <2>4. Served(d)
    BY <1>12, <1>13, <2>2, <2>3 DEF Served
  <2> QED
    BY <2>4 DEF d
<1>16. CASE c = MaxRunning - 1
  <2>1. CASE \A r \in s.rooms : ~Startable(s, r)
    <3>1. S = {}
      BY <1>1, <1>10, <1>11, <2>1
    <3>2. ASSUME NEW r \in Rooms, RunningIn(d, r) < Concurrency
          PROVE  d.tasks[r] = << >>
      <4>1. d.tasks[r] = e.tasks[r] /\ RunningIn(s, r) < Concurrency
        BY <1>12, <1>13, <3>1, <3>2
      <4>2. CASE r \in s.rooms
        <5>1. Ahead(s, r) = {}
          BY <2>1 DEF Ahead
        <5>2. c + Cardinality(Ahead(s, r)) < MaxRunning
          BY <1>7, <1>16, <5>1, FS_EmptySet
        <5>3. r \in R
          BY <1>8, <1>9, <4>1, <4>2, <5>2
        <5> QED
          BY <1>2, <1>10, <2>1, <4>1, <4>2, <5>3
      <4>3. CASE r \notin s.rooms
        BY <1>1, <1>3, <4>1, <4>3 DEF Coherent, Tracked
      <4> QED
        BY <4>2, <4>3
    <3>3. Served(d)
      BY <3>2 DEF Served
    <3> QED
      BY <3>3 DEF d
  <2>2. CASE \E r \in s.rooms : Startable(s, r)
    <3> DEFINE T == {Ahead(s, r) : r \in {p \in s.rooms : Startable(s, p)}}
    <3>1. T \subseteq FiniteSubsetsOf(s.rooms) /\ T # {}
      BY <1>8, <2>2 DEF FiniteSubsetsOf, Ahead
    <3>2. IsWellFoundedOn(StrictSubsetOrdering(s.rooms), FiniteSubsetsOf(s.rooms))
      BY FS_StrictSubsetOrderingWellFounded
    <3>3. \E x \in T : \A y \in T : ~(<<y, x>> \in StrictSubsetOrdering(s.rooms))
      BY <3>1, <3>2, WFMin
    <3>4. PICK r \in s.rooms :
             /\ Startable(s, r)
             /\ \A p \in s.rooms : Startable(s, p) =>
                  ~(<<Ahead(s, p), Ahead(s, r)>> \in StrictSubsetOrdering(s.rooms))
      BY <3>3
    <3>5. \A p, u \in s.rooms : s.since[p] \in Nat /\ (s.since[p] = s.since[u] => p = u)
      BY <1>1, QueueAssumption DEF Coherent, Queue, Ordered
    <3>6. Ahead(s, r) = {}
      <4> SUFFICES ASSUME NEW p \in Ahead(s, r) PROVE FALSE
        OBVIOUS
      <4>1. p \in s.rooms /\ Startable(s, p) /\ s.since[p] < s.since[r]
        BY DEF Ahead
      <4>2. p \notin Ahead(s, p) /\ Ahead(s, p) \subseteq Ahead(s, r)
        BY <3>5, <4>1 DEF Ahead
      <4>3. <<Ahead(s, p), Ahead(s, r)>> \in StrictSubsetOrdering(s.rooms)
        <5>1. Ahead(s, p) \in SUBSET s.rooms /\ Ahead(s, r) \in SUBSET s.rooms
          BY DEF Ahead
        <5>2. Ahead(s, p) # Ahead(s, r)
          BY <4>2
        <5> QED
          BY <4>2, <5>1, <5>2 DEF StrictSubsetOrdering
      <4> QED
        BY <3>4, <4>1, <4>3
    <3>7. c + Cardinality(Ahead(s, r)) < MaxRunning
      BY <1>7, <1>16, <3>6, FS_EmptySet
    <3>8. r \in S
      BY <1>8, <1>10, <3>4, <3>7
    <3>9. ASSUME NEW p \in S PROVE p = r
      <4>1. p \in s.rooms /\ p \in Reached(s)
        BY <1>1, <1>9, <1>11
      <4>a. Startable(s, p)
        BY <1>10, <4>1
      <4>2. CASE s.since[r] < s.since[p]
        <5>1. r \in Ahead(s, p)
          BY <3>4, <4>2 DEF Ahead
        <5>2. Cardinality(Ahead(s, p)) # 0
          BY <1>8, <4>1, <5>1, FS_EmptySet
        <5>3. ~(c + Cardinality(Ahead(s, p)) < MaxRunning)
          BY <1>7, <1>8, <1>16, <4>1, <5>2
        <5> QED
          BY <1>8, <4>1, <5>3
      <4>3. CASE s.since[p] < s.since[r]
        BY <3>6, <4>1, <4>a, <4>3 DEF Ahead
      <4> QED
        BY <3>5, <4>1, <4>2, <4>3
    <3>10. S = {r}
      BY <3>8, <3>9
    <3>11. Cardinality(d.running) = c + 1
      BY <1>2, <1>12, <3>8, <3>10 DEF c
    <3>12. Served(d)
      BY <1>7, <1>16, <3>11 DEF Served
    <3> QED
      BY <3>12 DEF d
  <2> QED
    BY <2>1, <2>2
<1> QED
  BY <1>7, <1>14, <1>15, <1>16 DEF c

(* A room is served, then the others: either the process was within one    *)
(* task of its cap, or all other rooms were served and this one is one     *)
(* start away from being so.                                               *)
LEMMA ServeRoom ==
  ASSUME NEW n, NEW s, Coherent(s, n), Sound(s), now \in 0..MaxTime, NEW room \in s.rooms,
         \/ Cardinality(s.running) >= MaxRunning - 1
         \/ /\ \A r \in Rooms : r # room /\ RunningIn(s, r) < Concurrency => s.tasks[r] = << >>
            /\ Len(s.tasks[room]) <= 1 \/ RunningIn(s, room) >= Concurrency - 1
  PROVE  Served(PumpAll(ProcessNext(s, room)))
<1> DEFINE d == ProcessNext(s, room)
           c == Cardinality(s.running)
<1>1. room \in Rooms /\ Coherent(d, n) /\ Sound(d)
  BY TasksType, ProcessNextCoherent, ProcessNextSound
<1>2. /\ \A r \in Rooms : r # room => /\ d.tasks[r] = s.tasks[r]
                                      /\ RunningIn(d, r) = RunningIn(s, r)
      /\ \/ /\ d.running = s.running
            /\ RunningIn(s, room) < Concurrency
            /\ Live(s.tasks[room]) = << >>
            /\ d.tasks[room] = << >>
         \/ /\ d.running = s.running
            /\ \/ RunningIn(s, room) >= Concurrency
               \/ Cardinality(s.running) = MaxRunning
         \/ /\ Cardinality(d.running) = Cardinality(s.running) + 1
            /\ RunningIn(d, room) = RunningIn(s, room) + 1
            /\ Live(s.tasks[room]) # << >>
            /\ d.tasks[room] = Tail(Live(s.tasks[room]))
  BY ProcessNextEffect
<1>3. /\ c \in Nat /\ c <= MaxRunning /\ MaxRunning \in Nat /\ Concurrency \in Nat
      /\ Cardinality(d.running) \in Nat /\ Cardinality(d.running) <= MaxRunning
      /\ RunningIn(s, room) \in Nat /\ RunningIn(d, room) \in Nat
  BY <1>1, Counts
<1> HIDE DEF d, c
<1>4. CASE c >= MaxRunning - 1
  <2>1. Cardinality(d.running) >= c
    BY <1>2, <1>3 DEF c
  <2>2. Cardinality(d.running) >= MaxRunning - 1
    BY <1>3, <1>4, <2>1
  <2>3. Served(PumpAll(d))
    BY <1>1, <2>2, PumpServes
  <2> QED
    BY <2>3 DEF d
<1>5. CASE /\ \A r \in Rooms : r # room /\ RunningIn(s, r) < Concurrency => s.tasks[r] = << >>
           /\ Len(s.tasks[room]) <= 1 \/ RunningIn(s, room) >= Concurrency - 1
           /\ c < MaxRunning - 1
  <2>1. RunningIn(d, room) < Concurrency => d.tasks[room] = << >>
    <3>1. CASE d.running = s.running
      <4>1. RunningIn(d, room) = RunningIn(s, room)
        BY <3>1 DEF RunningIn
      <4> QED
        BY <1>2, <1>3, <1>5, <3>1, <4>1 DEF c
    <3>2. CASE /\ RunningIn(d, room) = RunningIn(s, room) + 1
               /\ Live(s.tasks[room]) # << >>
               /\ d.tasks[room] = Tail(Live(s.tasks[room]))
      <4>1. CASE RunningIn(s, room) >= Concurrency - 1
        BY <1>3, <3>2, <4>1
      <4>2. CASE Len(s.tasks[room]) <= 1
        <5> DEFINE live == Live(s.tasks[room])
        <5>1. s.tasks[room] \in Seq(Task) /\ live \in Seq(Task) /\ live # << >> /\ now \in Nat
          BY <1>1, <3>2, TasksType, LiveType, QueueAssumption
        <5>2. Len(s.tasks[room]) \in Nat /\ StaleCount(s.tasks[room]) \in Nat
              /\ Len(live) = Len(s.tasks[room]) - StaleCount(s.tasks[room])
          BY <5>1, LiveSplit, LenProperties
        <5>3. Len(live) \in Nat \ {0}
          BY <5>1, EmptySeq
        <5> HIDE DEF live
        <5>4. Len(live) = 1
          BY <4>2, <5>2, <5>3
        <5>5. Tail(live) \in Seq(Task) /\ Len(Tail(live)) = 0
          BY <5>1, <5>4, HeadTailProperties
        <5>6. Tail(live) = << >>
          BY <5>5, EmptySeq
        <5> QED
          BY <3>2, <5>6 DEF live
      <4> QED
        BY <1>5, <4>1, <4>2
    <3> QED
      BY <1>2, <3>1, <3>2
  <2>2. Served(d)
    BY <1>2, <1>5, <2>1 DEF Served
  <2>3. Served(PumpAll(d))
    BY <1>1, <2>2, PumpServes
  <2> QED
    BY <2>3 DEF d
<1> QED
  BY <1>3, <1>4, <1>5 DEF c

-----------------------------------------------------------------------------
(* enqueue as the queue sees it: from p on, where the call has been        *)
(* refused or its task pushed, tasks only move out of the FIFOs.           *)
EnqueueVia(p) ==
  /\ Coherent(p, calls') /\ Sound(p) /\ Fits(p) /\ IsFiniteSet(Total(p))
  /\ p.running = q.running
  /\ \/ refused' = refused \cup {calls'} /\ Total(p) = Total(q)
     \/ /\ refused' = refused
        /\ \E t \in Task : t.id = calls' /\ Total(p) = Total(q) \cup {t}
  /\ Sound(q') /\ Advances(p, q')
  /\ Served(q) => Served(q')

LEMMA EnqueueEffect ==
  ASSUME IInv, Ledger, Fits(q), NEW room \in Rooms, Enqueue(room), ~stopped
  PROVE  \E p : EnqueueVia(p)
<1> DEFINE e == Ensure(q, room)
           s == DropStale(e, {room})
           t == [id |-> calls', room |-> room, at |-> now]
           p == Push(s, t)
<1>1. /\ calls \in Nat /\ calls' = calls + 1
      /\ calls' \in 1..MaxCalls /\ calls' \in 0..MaxCalls
      /\ now \in 0..MaxTime /\ now \in Nat
      /\ Coherent(q, calls)
      /\ q.running \subseteq Task
  BY QueueAssumption DEF Enqueue, IInv, TypeOK, Queue
<1>2. EnqueueOpen(room)
  BY DEF Enqueue, EnqueueStopped
<1>3. Coherent(e, calls') /\ room \in e.rooms
  BY <1>1, EnsureCoherent
<1>4. e.tasks = q.tasks /\ e.running = q.running /\ e.discarded = q.discarded
  BY <1>1, EnsureKeeps
<1>5. Sound(e) /\ Total(e) = Total(q) /\ Advances(q, e)
  BY <1>1, <1>3, <1>4, SameBooks DEF Ledger
<1>6. /\ Coherent(s, calls') /\ s.rooms = e.rooms /\ s.running = e.running
  BY <1>3, DropStaleCoherent
<1>7. Sound(s) /\ Advances(e, s)
  BY <1>1, <1>3, <1>5, DropStaleSound
<1>8. /\ Total(s) = Total(q)
      /\ Pending(s) \subseteq Pending(q)
      /\ IsFiniteSet(Total(s))
  BY <1>5, <1>7 DEF Advances, Ledger
<1>9. Fits(s)
  <2>1. /\ Fits(e) /\ IsFiniteSet(Total(e))
    <3> HIDE DEF e, s
    <3>1. Pending(e) = Pending(q)
      BY <1>1, <1>3, <1>4, SamePending
    <3> QED
      BY <1>4, <1>5, <3>1 DEF Fits, PendingCount, Ledger
  <2> HIDE DEF e, s
  <2> QED
    BY <1>3, <1>6, <1>7, <2>1, AdvancesFits
<1>s. Served(q) => Served(s)
  <2>1. Served(q) => Served(e)
    BY <1>4 DEF Served, RunningIn
  <2> QED
    BY <1>3, <2>1, DropStaleServed
<1>10. CASE ~Admissible(s, room)
  <2>1. q' = s /\ refused' = refused \cup {calls'}
    BY <1>2, <1>10 DEF EnqueueOpen
  <2>2. Advances(s, s)
    BY <1>6, AdvancesReflexive
  <2> HIDE DEF s, e
  <2>3. EnqueueVia(s)
    BY <1>4, <1>6, <1>7, <1>8, <1>9, <1>s, <2>1, <2>2 DEF EnqueueVia
  <2> QED
    BY <2>3
<1>11. CASE Admissible(s, room)
  <2>1. q' = PumpAll(ProcessNext(p, room)) /\ refused' = refused
    BY <1>2, <1>11 DEF EnqueueOpen
  <2>2. t \in Task /\ t.room = room /\ t.id = calls'
    BY <1>1 DEF Task
  <2>3. \A u \in Total(q) : u.id < calls'
    <3>1. \A u \in Total(q) : u.id \in Ids(Total(q) \cup finished)
      BY DEF Ids
    <3>2. \A u \in Total(q) : u.id \in 1..calls
      BY <3>1 DEF Ledger, Admitted
    <3> QED
      BY <1>1, <3>2
  <2> HIDE DEF t
  <2>4. Coherent(p, calls')
    BY <1>1, <1>3, <1>6, <2>2, PushCoherent
  <2>5. /\ Sound(p) /\ p.running = s.running
        /\ Pending(p) = Pending(s) \cup {t}
        /\ Total(p) = Total(s) \cup {t}
        /\ Len(p.tasks[room]) = Len(s.tasks[room]) + 1
        /\ \A r \in Rooms : r # room => p.tasks[r] = s.tasks[r]
    <3> HIDE DEF e, s
    <3>1. t.room \in s.rooms /\ \A u \in Total(s) : u.id < t.id
      BY <1>3, <1>6, <1>8, <2>2, <2>3
    <3> QED
      BY <1>6, <1>7, <2>2, <2>4, <3>1, PushSound
  <2>6. Coherent(ProcessNext(p, room), calls')
    BY <1>1, <2>4, ProcessNextCoherent
  <2>7. Sound(ProcessNext(p, room)) /\ Advances(p, ProcessNext(p, room))
    BY <1>1, <2>4, <2>5, ProcessNextSound
  <2>8. Coherent(PumpAll(ProcessNext(p, room)), calls')
    BY <1>1, <2>6, PumpAllCoherent
  <2>9. /\ Sound(PumpAll(ProcessNext(p, room)))
        /\ Advances(ProcessNext(p, room), PumpAll(ProcessNext(p, room)))
    BY <1>1, <2>6, <2>7, PumpAllSound
  <2>10. Advances(p, PumpAll(ProcessNext(p, room)))
    BY <2>4, <2>6, <2>7, <2>8, <2>9, AdvancesTransitive
  <2>11. IsFiniteSet(Total(p))
    <3>1. IsFiniteSet(Total(s) \cup {t})
      BY <1>8, FS_AddElement
    <3> HIDE DEF p, s
    <3> QED
      BY <2>5, <3>1
  <2>12. Fits(p)
    <3>1. PendingCount(p) <= GlobalLimit
      <4>1. IsFiniteSet(Pending(s)) /\ Cardinality(Pending(s)) \in Nat
        BY <1>8, FS_Subset, FS_CardinalityType DEF Total
      <4>2. /\ Cardinality(Pending(s) \cup {t}) <= Cardinality(Pending(s)) + 1
            /\ Cardinality(Pending(s) \cup {t}) \in Nat
        BY <4>1, OneMore
      <4>3. Cardinality(Pending(s)) < GlobalLimit
        BY <1>11 DEF Admissible, PendingCount
      <4>4. Cardinality(Pending(s) \cup {t}) <= GlobalLimit
        BY <4>1, <4>2, <4>3, QueueAssumption
      <4> HIDE DEF p, s
      <4> QED
        BY <2>5, <4>4 DEF PendingCount
    <3>2. ASSUME NEW r \in Rooms
          PROVE  Len(p.tasks[r]) <= PerRoomLimit
      <4>1. CASE r # room
        BY <1>9, <2>5, <4>1 DEF Fits
      <4>2. CASE r = room
        <5> DEFINE a == Len(s.tasks[room])
        <5>1. a \in Nat
          BY <1>6, TasksType
        <5>2. a < PerRoomLimit
          BY <1>11 DEF Admissible
        <5> HIDE DEF a
        <5>3. a + 1 <= PerRoomLimit
          BY <5>1, <5>2, QueueAssumption
        <5> QED
          BY <2>5, <4>2, <5>3 DEF a
      <4> QED
        BY <4>1, <4>2
    <3> QED
      BY <3>1, <3>2 DEF Fits
  <2>13. Served(q) => Served(q')
    <3> SUFFICES ASSUME Served(q) PROVE Served(q')
      OBVIOUS
    <3> HIDE DEF p
    <3>1. /\ Cardinality(s.running) \in Nat /\ MaxRunning \in Nat
          /\ \A r \in Rooms : RunningIn(s, r) \in Nat /\ Concurrency \in Nat
      BY <1>6, Counts
    <3>2. \A r \in Rooms : RunningIn(p, r) = RunningIn(s, r)
      BY <2>5 DEF RunningIn
    <3>3. room \in p.rooms
      BY <1>3, <1>6, <2>2 DEF p, Push, Coherent, Queue
    <3>4. CASE Cardinality(s.running) >= MaxRunning - 1
      <4>1. Cardinality(p.running) >= MaxRunning - 1
        BY <2>5, <3>4
      <4> QED
        BY <1>1, <2>1, <2>4, <2>5, <3>3, <4>1, ServeRoom
    <3>5. CASE Cardinality(s.running) < MaxRunning
      <4>1. \A r \in Rooms : RunningIn(s, r) < Concurrency => s.tasks[r] = << >>
        BY <1>s, <3>5 DEF Served
      <4>2. \A r \in Rooms : r # room /\ RunningIn(p, r) < Concurrency => p.tasks[r] = << >>
        BY <2>5, <3>2, <4>1
      <4>3. Len(p.tasks[room]) <= 1 \/ RunningIn(p, room) >= Concurrency - 1
        <5>1. CASE RunningIn(s, room) < Concurrency
          <6>1. s.tasks[room] = << >>
            BY <4>1, <5>1
          <6>2. Len(p.tasks[room]) = 1
            BY <2>5, <6>1, EmptySeq
          <6> QED
            BY <6>2
        <5>2. CASE ~(RunningIn(s, room) < Concurrency)
          <6>1. RunningIn(s, room) >= Concurrency - 1
            BY <3>1, <5>2
          <6> QED
            BY <3>2, <6>1
        <5> QED
          BY <5>1, <5>2
      <4> QED
        BY <1>1, <2>1, <2>4, <2>5, <3>3, <4>2, <4>3, ServeRoom
    <3> QED
      BY <3>1, <3>4, <3>5
  <2> HIDE DEF p, s, e
  <2>14. EnqueueVia(p)
    BY <1>4, <1>6, <1>8, <2>1, <2>2, <2>4, <2>5, <2>9, <2>10, <2>11, <2>12, <2>13
       DEF EnqueueVia
  <2> QED
    BY <2>14
<1> QED
  BY <1>10, <1>11

(* A completion: the task leaves the running set for the finished ones,    *)
(* and from there on tasks only move out of the FIFOs.                     *)
FinishVia(p, t) ==
  /\ Coherent(p, calls) /\ Sound(p) /\ Fits(p) /\ IsFiniteSet(Total(p))
  /\ p.running = q.running \ {t}
  /\ Total(p) = Total(q) \ {t}
  /\ Sound(q') /\ Advances(p, q')
  /\ stopped => q' = p
  /\ ~stopped /\ Served(q) => Served(q')

LEMMA FinishEffect ==
  ASSUME IInv, Ledger, Fits(q), NEW t \in q.running, Finish(t)
  PROVE  \E p : FinishVia(p, t)
<1> DEFINE p == Settle(q, t)
           room == t.room
<1>1. /\ Coherent(q, calls)
      /\ now \in 0..MaxTime
      /\ Sound(q)
      /\ q \in Queue
  BY DEF IInv, TypeOK, Ledger
<1>2. Coherent(p, calls) /\ room \in Rooms
  BY <1>1, SettleCoherent
<1>3. p.tasks = q.tasks /\ p.rooms = q.rooms
      /\ p.running = q.running \ {t} /\ p.discarded = q.discarded
  BY <1>1 DEF Queue, Settle
<1> HIDE DEF p
<1>4. Pending(p) = Pending(q)
  BY <1>1, <1>2, <1>3, SamePending
<1>5. Sound(p) /\ Total(p) = Total(q) \ {t}
  BY <1>1, <1>3, <1>4 DEF Sound, Separate, Increasing, Total
<1>6. IsFiniteSet(Total(p))
  BY <1>5, FS_Subset DEF Ledger
<1>7. Fits(p)
  BY <1>3, <1>4 DEF Fits, PendingCount
<1>8. CASE stopped
  <2>1. q' = p
    BY <1>8 DEF Finish, p
  <2>2. Advances(p, p)
    BY <1>2, AdvancesReflexive
  <2>3. FinishVia(p, t)
    BY <1>2, <1>3, <1>5, <1>6, <1>7, <1>8, <2>1, <2>2 DEF FinishVia
  <2> QED
    BY <2>3
<1>9. CASE ~stopped
  <2>1. q' = PumpAll(ProcessNext(p, room))
    BY <1>9 DEF Finish, p
  <2>2. Coherent(ProcessNext(p, room), calls)
    BY <1>1, <1>2, ProcessNextCoherent
  <2>3. Sound(ProcessNext(p, room)) /\ Advances(p, ProcessNext(p, room))
    BY <1>1, <1>2, <1>5, ProcessNextSound
  <2>4. Coherent(PumpAll(ProcessNext(p, room)), calls)
    BY <1>1, <2>2, PumpAllCoherent
  <2>5. /\ Sound(PumpAll(ProcessNext(p, room)))
        /\ Advances(ProcessNext(p, room), PumpAll(ProcessNext(p, room)))
    BY <1>1, <2>2, <2>3, PumpAllSound
  <2>6. Advances(p, PumpAll(ProcessNext(p, room)))
    BY <1>2, <2>2, <2>3, <2>4, <2>5, AdvancesTransitive
  <2>7. Served(q) => Served(q')
    <3> SUFFICES ASSUME Served(q) PROVE Served(q')
      OBVIOUS
    <3>1. /\ Cardinality(q.running) \in Nat /\ Cardinality(q.running) <= MaxRunning
          /\ MaxRunning \in Nat /\ Concurrency \in Nat
          /\ \A r \in Rooms : RunningIn(q, r) \in Nat
      BY <1>1, Counts
    <3>2. Cardinality(p.running) = Cardinality(q.running) - 1
      <4>1. IsFiniteSet(q.running)
        BY <1>1 DEF Coherent
      <4>2. Cardinality(q.running \ {t}) = Cardinality(q.running) - 1
        BY <4>1, FS_RemoveElement
      <4> QED
        BY <1>3, <4>2
    <3>3. \A r \in Rooms : r # room => RunningIn(p, r) = RunningIn(q, r)
      <4>1. ASSUME NEW r \in Rooms, r # room
            PROVE  {u \in p.running : u.room = r} = {u \in q.running : u.room = r}
        BY <1>3, <4>1
      <4> QED
        BY <4>1 DEF RunningIn
    <3>4. RunningIn(p, room) = RunningIn(q, room) - 1
      <4> DEFINE here == {u \in q.running : u.room = room}
      <4>1. IsFiniteSet(here) /\ t \in here
        BY <1>1, FS_Subset DEF Coherent
      <4>2. {u \in p.running : u.room = room} = here \ {t}
        BY <1>3
      <4>3. Cardinality(here \ {t}) = Cardinality(here) - 1
        BY <4>1, FS_RemoveElement
      <4> QED
        BY <4>2, <4>3 DEF RunningIn
    <3>5. room \in p.rooms
      BY <1>1, <1>3 DEF Coherent, Tracked
    <3>6. CASE Cardinality(q.running) = MaxRunning
      <4>1. Cardinality(p.running) >= MaxRunning - 1
        BY <3>1, <3>2, <3>6
      <4> QED
        BY <1>1, <1>2, <1>5, <2>1, <3>5, <4>1, ServeRoom
    <3>7. CASE Cardinality(q.running) < MaxRunning
      <4>1. \A r \in Rooms : RunningIn(q, r) < Concurrency => q.tasks[r] = << >>
        BY <3>7 DEF Served
      <4>2. \A r \in Rooms : r # room /\ RunningIn(p, r) < Concurrency => p.tasks[r] = << >>
        BY <1>3, <3>3, <4>1
      <4>3. Len(p.tasks[room]) <= 1 \/ RunningIn(p, room) >= Concurrency - 1
        <5>1. CASE RunningIn(q, room) < Concurrency
          <6>1. p.tasks[room] = << >>
            BY <1>2, <1>3, <4>1, <5>1
          <6>2. Len(p.tasks[room]) = 0
            BY <6>1, EmptySeq
          <6> QED
            BY <6>2
        <5>2. CASE ~(RunningIn(q, room) < Concurrency)
          <6>1. RunningIn(q, room) - 1 >= Concurrency - 1
            BY <1>2, <3>1, <5>2
          <6> QED
            BY <3>4, <6>1
        <5> QED
          BY <5>1, <5>2
      <4> QED
        BY <1>1, <1>2, <1>5, <2>1, <3>5, <4>2, <4>3, ServeRoom
    <3> QED
      BY <3>1, <3>6, <3>7
  <2>8. FinishVia(p, t)
    BY <1>2, <1>3, <1>5, <1>6, <1>7, <1>9, <2>1, <2>5, <2>6, <2>7 DEF FinishVia
  <2> QED
    BY <2>8
<1> QED
  BY <1>8, <1>9

(* Prune and the shutdown calls start nothing. *)
LEMMA PruneEffect ==
  ASSUME IInv, Ledger, Prune
  PROVE  /\ Sound(q') /\ Advances(q, q') /\ q'.running = q.running
         /\ Served(q) => Served(q')
<1> DEFINE d == DropStale(q, q.rooms)
<1>1. /\ Coherent(q, calls) /\ q.rooms \subseteq Rooms
      /\ now \in Nat /\ Sound(q)
  BY QueueAssumption DEF IInv, TypeOK, Queue, Ledger
<1>2. Coherent(d, calls) /\ d.running = q.running
  BY <1>1, DropStaleCoherent
<1>3. Sound(d) /\ Advances(q, d)
  BY <1>1, DropStaleSound
<1>4. q' = Forget(d)
  BY DEF Prune
<1> HIDE DEF d
<1>5. Coherent(Forget(d), calls)
  BY <1>2, ForgetCoherent
<1>6. /\ Forget(d).tasks = d.tasks
      /\ Forget(d).running = d.running /\ Forget(d).discarded = d.discarded
  BY <1>2 DEF Coherent, Queue, Forget
<1>7. Sound(Forget(d)) /\ Advances(d, Forget(d))
  BY <1>2, <1>3, <1>5, <1>6, SameBooks
<1>8. Advances(q, Forget(d))
  BY <1>1, <1>2, <1>3, <1>5, <1>7, AdvancesTransitive
<1>9. Served(q) => Served(d)
  BY <1>1, DropStaleServed DEF d
<1>10. Served(q) => Served(Forget(d))
  BY <1>6, <1>9 DEF Served, RunningIn
<1> QED
  BY <1>2, <1>4, <1>6, <1>7, <1>8, <1>10

LEMMA BeginStopEffect ==
  ASSUME IInv, Ledger, BeginStop
  PROVE  /\ Sound(q') /\ Advances(q, q')
         /\ q'.running = q.running
         /\ stopped'
         /\ ~stopped => Pending(q') = {} /\ aborted' = q.running
         /\ stopped => q' = q /\ aborted' = aborted
<1>1. Coherent(q, calls) /\ Sound(q) /\ IsFiniteSet(q.running)
  BY DEF IInv, Ledger, Coherent
<1>2. CASE stopped
  <2>1. Advances(q, q)
    BY <1>1, AdvancesReflexive
  <2> QED
    BY <1>1, <1>2, <2>1 DEF BeginStop
<1>3. CASE ~stopped
  <2>1. Coherent(q', calls)
    BY <1>1, <1>3, BeginStopCoherent
  <2>2. /\ q'.tasks = [r \in Rooms |-> << >>]
        /\ q'.running = q.running
        /\ q'.discarded = q.discarded \cup Pending(q)
        /\ aborted' = q.running /\ stopped'
    BY <1>1, <1>3 DEF BeginStop, Coherent, Queue
  <2>3. \A r \in Rooms : q'.tasks[r] = << >>
    BY <2>2
  <2>4. \A r \in Rooms : Len(q'.tasks[r]) = 0 /\ DOMAIN q'.tasks[r] = {}
    BY <2>3
  <2>5. Pending(q') = {}
    BY <2>1, <2>4, PendingElements
  <2>6. Increasing(q')
    BY <2>4 DEF Increasing
  <2>7. Separate(q') /\ Total(q') = Total(q)
    BY <1>1, <2>2, <2>5 DEF Sound, Separate, Total
  <2>8. ASSUME NEW r \in Rooms
        PROVE  Len(q'.tasks[r]) <= Len(q.tasks[r])
    <3> DEFINE a == Len(q.tasks[r])
    <3>1. a \in Nat
      BY <1>1, TasksType
    <3> HIDE DEF a
    <3>2. 0 <= a
      BY <3>1
    <3> QED
      BY <2>4, <3>2 DEF a
  <2>9. Advances(q, q')
    BY <2>2, <2>5, <2>7, <2>8 DEF Advances
  <2> QED
    BY <1>3, <2>2, <2>5, <2>6, <2>7, <2>9 DEF Sound
<1> QED
  BY <1>2, <1>3

-----------------------------------------------------------------------------
(* Where a shutdown stands: a drain waits for every task that still runs.  *)
Shut ==
  /\ stopped => Pending(q) = {} /\ q.running \subseteq aborted
  /\ drain.phase # "none" => stopped
  /\ drain.phase = "waiting" => q.running \subseteq drain.tasks
  /\ drain.phase = "settled" => q.running = {}

Books == IInv /\ Ledger /\ BacklogBounded /\ WorkConserving /\ Shut

LEMMA InitBooks == Init => Ledger /\ BacklogBounded /\ WorkConserving /\ Shut
<1> SUFFICES ASSUME Init PROVE Ledger /\ BacklogBounded /\ WorkConserving /\ Shut
  OBVIOUS
<1>1. IInv
  BY InitIInv
<1>2. /\ q.tasks = [r \in Rooms |-> << >>] /\ q.running = {} /\ q.discarded = {}
      /\ q.rooms = {}
      /\ calls = 0 /\ refused = {} /\ finished = {}
      /\ ~stopped /\ drain.phase = "none"
  BY DEF Init
<1>3. Pending(q) = {} /\ Total(q) = {}
  BY <1>2 DEF Pending, Total
<1>4. \A r \in Rooms : Len(q.tasks[r]) = 0 /\ DOMAIN q.tasks[r] = {}
  BY <1>2
<1>5. Cardinality({}) = 0 /\ IsFiniteSet({})
  BY FS_EmptySet
<1>6. Sound(q)
  BY <1>2, <1>3, <1>4 DEF Sound, Increasing, Separate
<1>7. Admitted = {} /\ Ids({}) = {}
  BY <1>2 DEF Admitted, Ids
<1>8. Ledger
  BY <1>2, <1>3, <1>5, <1>6, <1>7 DEF Ledger
<1>9. BacklogBounded
  BY <1>3, <1>4, <1>5, QueueAssumption DEF BacklogBounded, PendingCount
<1>10. Shut
  BY <1>2 DEF Shut
<1>11. WorkConserving
  BY <1>2 DEF WorkConserving
<1> QED
  BY <1>8, <1>9, <1>10, <1>11

(* Nothing is booked: the tasks stay what they are, wherever they wait.    *)
LEMMA LedgerKept ==
  ASSUME Ledger, Sound(q'), Total(q') = Total(q), UNCHANGED <<calls, refused, finished>>
  PROVE  Ledger'
BY DEF Ledger, Admitted

LEMMA EnqueueBooks ==
  ASSUME Books, NEW room \in Rooms, Enqueue(room)
  PROVE  Ledger' /\ BacklogBounded' /\ WorkConserving' /\ Shut'
<1>0. /\ IInv /\ Ledger /\ Fits(q) /\ Shut /\ IInv'
      /\ Sound(q) /\ IsFiniteSet(Total(q))
      /\ stopped \/ Served(q)
  BY EnqueueIInv DEF Books, BacklogBounded, Fits, Ledger, WorkConserving, Served
<1>1. /\ calls \in Nat /\ calls' = calls + 1
      /\ UNCHANGED <<now, stopped, aborted, drain, finished>>
  BY <1>0, QueueAssumption DEF Enqueue, IInv, TypeOK
<1>2. /\ Coherent(q', calls') /\ Coherent(q, calls)
  BY <1>0 DEF IInv
<1>3. refused \subseteq 1..calls /\ calls' \notin 1..calls /\ 1..calls' = (1..calls) \cup {calls'}
  BY <1>0, <1>1 DEF Ledger
<1>4. ASSUME refused' = refused \cup {calls'}, Total(q') = Total(q), Sound(q')
      PROVE  Ledger'
  <2>1. Admitted' = Admitted /\ refused' \subseteq 1..calls'
    BY <1>3, <1>4 DEF Admitted
  <2> QED
    BY <1>0, <1>1, <1>4, <2>1 DEF Ledger
<1>5. ASSUME NEW t \in Task, refused' = refused, t.id = calls',
             Total(q') = Total(q) \cup {t}, Sound(q')
      PROVE  Ledger'
  <2>1. Admitted' = Admitted \cup {calls'} /\ refused' \subseteq 1..calls'
    BY <1>3, <1>5 DEF Admitted
  <2>2. IsFiniteSet(Total(q) \cup {t})
    BY <1>0, FS_AddElement
  <2>3. \A u \in Total(q) \cup finished : u.id \in 1..calls
    <3>1. \A u \in Total(q) \cup finished : u.id \in Ids(Total(q) \cup finished)
      BY DEF Ids
    <3> QED
      BY <1>0, <3>1 DEF Ledger, Admitted
  <2>4. \A u \in Total(q) \cup finished : u.id # t.id
    BY <1>3, <1>5, <2>3
  <2>5. t \notin finished
    BY <2>4
  <2>6. Total(q') \cup finished' = (Total(q) \cup finished) \cup {t}
    BY <1>1, <1>5
  <2>7. Ids(Total(q') \cup finished') = Ids(Total(q) \cup finished) \cup {calls'}
    BY <1>5, <2>6 DEF Ids
  <2>8. \A u, v \in (Total(q) \cup finished) \cup {t} : u.id = v.id => u = v
    BY <1>0, <2>4 DEF Ledger
  <2>9. Ids(Total(q') \cup finished') = Admitted'
    BY <1>0, <2>1, <2>7 DEF Ledger
  <2>10. Total(q') \cap finished' = {}
    BY <1>0, <1>1, <1>5, <2>5 DEF Ledger
  <2>11. IsFiniteSet(Total(q'))
    BY <1>5, <2>2
  <2> QED
    BY <1>5, <2>1, <2>6, <2>8, <2>9, <2>10, <2>11 DEF Ledger
<1>6. CASE stopped
  <2>1. q' = q /\ refused' = refused \cup {calls'}
    BY <1>6 DEF Enqueue, EnqueueStopped, EnqueueOpen
  <2>2. Ledger'
    BY <1>0, <1>4, <2>1
  <2>3. BacklogBounded' /\ Shut'
    BY <1>0, <1>1, <2>1 DEF Books, BacklogBounded, Shut, Pending, PendingCount, Fits
  <2>4. WorkConserving'
    BY <1>1, <1>6 DEF WorkConserving
  <2> QED
    BY <2>2, <2>3, <2>4
<1>7. CASE ~stopped
  <2>1. PICK p : EnqueueVia(p)
    BY <1>0, <1>7, EnqueueEffect
  <2>2. /\ Coherent(p, calls') /\ Fits(p) /\ IsFiniteSet(Total(p))
        /\ Advances(p, q') /\ Sound(q') /\ Total(q') = Total(p)
    BY <2>1 DEF EnqueueVia, Advances
  <2>3. Fits(q')
    BY <1>2, <2>2, AdvancesFits
  <2>4. BacklogBounded'
    BY <2>3 DEF BacklogBounded, Fits
  <2>5. Shut'
    BY <1>0, <1>1, <1>7 DEF Shut
  <2>6. Ledger'
    BY <1>4, <1>5, <2>1, <2>2 DEF EnqueueVia
  <2>7. Served(q')
    BY <1>0, <1>7, <2>1 DEF EnqueueVia
  <2>8. WorkConserving'
    BY <2>7 DEF WorkConserving, Served
  <2> QED
    BY <2>4, <2>5, <2>6, <2>8
<1> QED
  BY <1>6, <1>7

LEMMA FinishBooks ==
  ASSUME Books, NEW t \in q.running, Finish(t)
  PROVE  Ledger' /\ BacklogBounded' /\ WorkConserving' /\ Shut'
<1>0. /\ IInv /\ Ledger /\ Fits(q) /\ Shut /\ IInv'
      /\ stopped \/ Served(q)
  BY FinishIInv DEF Books, BacklogBounded, Fits, WorkConserving, Served
<1>1. /\ UNCHANGED <<now, calls, stopped, drain, refused>>
      /\ finished' = finished \cup {t}
      /\ aborted' = aborted \ {t}
  BY DEF Finish
<1>2. Coherent(q', calls)
  BY <1>0, <1>1 DEF IInv
<1>3. PICK p : FinishVia(p, t)
  BY <1>0, FinishEffect
<1>4. /\ Coherent(p, calls) /\ Fits(p) /\ IsFiniteSet(Total(p))
      /\ Advances(p, q') /\ Sound(q')
      /\ Total(q') = Total(q) \ {t}
      /\ p.running = q.running \ {t}
      /\ stopped => q' = p
  BY <1>3 DEF FinishVia, Advances
<1>5. Fits(q') /\ IsFiniteSet(Total(q'))
  BY <1>2, <1>4, AdvancesFits
<1>6. BacklogBounded'
  BY <1>5 DEF BacklogBounded, Fits
<1>7. t \in Total(q)
  BY DEF Total
<1>8. Total(q') \cup finished' = Total(q) \cup finished /\ Total(q') \cap finished' = {}
  BY <1>0, <1>1, <1>4, <1>7 DEF Ledger
<1>9. Ledger'
  BY <1>0, <1>1, <1>4, <1>5, <1>8 DEF Ledger, Admitted
<1>10. Shut'
  <2>1. CASE stopped
    <3>1. q'.running = q.running \ {t}
      BY <1>4, <2>1
    <3>2. Pending(q') = {}
      <4>1. CASE Pending(q) = {}
        <5>1. q'.tasks = q.tasks /\ Coherent(q, calls)
          BY <1>0, <2>1 DEF Finish, Settle, IInv, Coherent, Queue
        <5> QED
          BY <1>2, <4>1, <5>1, SamePending
      <4> QED
        BY <1>0, <2>1, <4>1 DEF Shut
    <3> QED
      BY <1>0, <1>1, <2>1, <3>1, <3>2 DEF Shut
  <2>2. CASE ~stopped
    BY <1>0, <1>1, <2>2 DEF Shut
  <2> QED
    BY <2>1, <2>2
<1>11. ~stopped => Served(q')
  BY <1>0, <1>3 DEF FinishVia
<1>12. WorkConserving'
  BY <1>1, <1>11 DEF WorkConserving, Served
<1> QED
  BY <1>6, <1>9, <1>10, <1>12

LEMMA NextBooks == Books /\ [Next]_vars => Books'
<1> SUFFICES ASSUME Books, [Next]_vars PROVE Books'
  OBVIOUS
<1>0. /\ IInv /\ Ledger /\ Fits(q) /\ BacklogBounded /\ Shut /\ IInv'
      /\ Coherent(q, calls) /\ Coherent(q', calls') /\ IsFiniteSet(Total(q))
      /\ WorkConserving /\ (stopped \/ Served(q))
  BY NextIInv DEF Books, BacklogBounded, Fits, IInv, Ledger, WorkConserving, Served
<1>1. ASSUME Sound(q'), Advances(q, q'), UNCHANGED <<calls, refused, finished>>
      PROVE  Ledger' /\ BacklogBounded'
  <2>1. Total(q') = Total(q)
    BY <1>1 DEF Advances
  <2>2. Ledger'
    BY <1>0, <1>1, <2>1, LedgerKept
  <2>3. Coherent(q', calls)
    BY <1>0, <1>1
  <2>4. Fits(q')
    BY <1>0, <1>1, <2>3, AdvancesFits
  <2> QED
    BY <2>2, <2>4 DEF BacklogBounded, Fits
<1>2. ASSUME NEW room \in Rooms, Enqueue(room) PROVE Books'
  BY <1>0, <1>2, EnqueueBooks DEF Books
<1>3. ASSUME NEW t \in q.running, Finish(t) PROVE Books'
  BY <1>0, <1>3, FinishBooks DEF Books
<1>4. CASE Prune
  <2>1. /\ Sound(q') /\ Advances(q, q') /\ q'.running = q.running
        /\ Served(q) => Served(q')
    BY <1>0, <1>4, PruneEffect
  <2>2. UNCHANGED <<calls, stopped, aborted, drain, refused, finished>> /\ ~stopped
    BY <1>4 DEF Prune
  <2>3. Shut'
    BY <1>0, <2>2 DEF Shut
  <2>4. WorkConserving'
    BY <1>0, <2>1, <2>2 DEF WorkConserving, Served
  <2> QED
    BY <1>0, <1>1, <2>1, <2>2, <2>3, <2>4 DEF Books
<1>5. CASE Stop \/ CloseAndDrain
  <2>1. BeginStop /\ UNCHANGED <<calls, refused, finished>>
    BY <1>5 DEF Stop, CloseAndDrain
  <2>2. /\ Sound(q') /\ Advances(q, q')
        /\ q'.running = q.running
        /\ stopped'
        /\ ~stopped => Pending(q') = {} /\ aborted' = q.running
        /\ stopped => q' = q /\ aborted' = aborted
    BY <1>0, <2>1, BeginStopEffect
  <2>3. Pending(q') = {} /\ q'.running \subseteq aborted'
    BY <1>0, <2>2 DEF Shut
  <2>4. Shut' => Books'
    <3>1. WorkConserving'
      BY <2>2 DEF WorkConserving
    <3> QED
      BY <1>0, <1>1, <2>1, <2>2, <3>1 DEF Books
  <2>5. Stop => Shut'
    BY <1>0, <2>2, <2>3 DEF Stop, Shut
  <2>6. CloseAndDrain => Shut'
    BY <1>0, <2>2, <2>3 DEF CloseAndDrain, Shut
  <2> QED
    BY <1>5, <2>4, <2>5, <2>6
<1>6. CASE \/ DrainSettled \/ DrainExpired \/ Tick \/ UNCHANGED vars
  <2>1. UNCHANGED <<q, calls, stopped, aborted, refused, finished>>
    BY <1>6 DEF DrainSettled, DrainExpired, Tick, vars
  <2>2. Ledger' /\ BacklogBounded' /\ WorkConserving'
    <3>1. Ledger'
      BY <1>0, <2>1 DEF Ledger, Admitted
    <3>2. BacklogBounded'
      BY <1>0, <2>1 DEF BacklogBounded
    <3>3. WorkConserving'
      BY <1>0, <2>1 DEF WorkConserving
    <3> QED
      BY <3>1, <3>2, <3>3
  <2>3. Pending(q') = Pending(q)
    BY <2>1
  <2>4. DrainSettled => Shut'
    BY <1>0, <2>1, <2>3 DEF DrainSettled, Shut, IInv, TypeOK, Drain
  <2>5. DrainExpired => Shut'
    BY <1>0, <2>1, <2>3 DEF DrainExpired, Shut, IInv, TypeOK, Drain
  <2>6. Tick \/ UNCHANGED vars => Shut'
    BY <1>0, <2>1, <2>3 DEF Tick, vars, Shut
  <2> QED
    BY <1>0, <1>6, <2>2, <2>4, <2>5, <2>6 DEF Books
<1> QED
  BY <1>2, <1>3, <1>4, <1>5, <1>6 DEF Next, FinishAny

(* The books agree, together with what they rest on. *)
THEOREM BooksKept == Spec => []Books
<1>1. Init => Books
  BY InitIInv, InitBooks DEF Books
<1> QED
  BY <1>1, NextBooks, PTL DEF Spec

(* No accepted message is lost or handled twice, in whatever order         *)
(* enqueues, completions, prunes and the shutdown calls come: each is      *)
(* waiting, running, settled or counted as dropped, in one place only.     *)
THEOREM NoTaskLost == Spec => []Conservation
<1>1. ASSUME Books
      PROVE  Conservation
  <2> DEFINE places == <<Ids(Pending(q)), Ids(q.running), Ids(finished), Ids(q.discarded)>>
  <2>1. /\ Separate(q) /\ Total(q) \cap finished = {}
        /\ \A t, u \in Total(q) \cup finished : t.id = u.id => t = u
        /\ Ids(Total(q) \cup finished) = Admitted
        /\ IsFiniteSet(Total(q))
    BY <1>1 DEF Books, Ledger, Sound
  <2>2. DOMAIN places = 1..4
    OBVIOUS
  <2>3. UNION Elements(places) =
          Ids(Pending(q)) \cup Ids(q.running) \cup Ids(finished) \cup Ids(q.discarded)
    <3>1. Elements(places) = {places[1], places[2], places[3], places[4]}
      BY <2>2 DEF Elements
    <3> QED
      BY <3>1
  <2>4. Admitted = UNION Elements(places)
    BY <2>1, <2>3 DEF Ids, Total
  <2>5. ASSUME NEW A, NEW B, A \subseteq Total(q) \cup finished,
               B \subseteq Total(q) \cup finished, A \cap B = {}
        PROVE  Ids(A) \cap Ids(B) = {}
    BY <2>1, <2>5 DEF Ids
  <2>6. /\ Ids(Pending(q)) \cap Ids(q.running) = {}
        /\ Ids(Pending(q)) \cap Ids(finished) = {}
        /\ Ids(Pending(q)) \cap Ids(q.discarded) = {}
        /\ Ids(q.running) \cap Ids(finished) = {}
        /\ Ids(q.running) \cap Ids(q.discarded) = {}
        /\ Ids(finished) \cap Ids(q.discarded) = {}
    BY <2>1, <2>5 DEF Separate, Total
  <2>7. \A i, j \in DOMAIN places : i # j => places[i] \cap places[j] = {}
    <3> SUFFICES ASSUME NEW i \in 1..4, NEW j \in 1..4, i # j
                 PROVE  places[i] \cap places[j] = {}
      BY <2>2
    <3>1. \/ i = 1 \/ i = 2 \/ i = 3 \/ i = 4
      OBVIOUS
    <3>2. \/ j = 1 \/ j = 2 \/ j = 3 \/ j = 4
      OBVIOUS
    <3> QED
      BY <2>6, <3>1, <3>2
  <2>8. PendingCount(q) = Cardinality(Ids(Pending(q)))
    <3> DEFINE f == [t \in Pending(q) |-> t.id]
    <3>1. IsFiniteSet(Pending(q))
      BY <2>1, FS_Subset DEF Total
    <3>2. f \in Bijection(Pending(q), Ids(Pending(q)))
      <4>1. f \in Surjection(Pending(q), Ids(Pending(q)))
        BY DEF Surjection, Ids
      <4>2. \A t, u \in Pending(q) : f[t] = f[u] => t = u
        BY <2>1 DEF Total
      <4> QED
        BY <4>1, <4>2 DEF Bijection, Injection, IsInjective, Surjection
    <3>3. Cardinality(Ids(Pending(q))) = Cardinality(Pending(q))
      BY <3>1, <3>2, FS_Bijection DEF ExistsBijection
    <3> QED
      BY <3>3 DEF PendingCount
  <2> QED
    BY <2>4, <2>7, <2>8 DEF Conservation
<1> QED
  BY <1>1, BooksKept, PTL

(* The backlog stays within PerRoomLimit and GlobalLimit (line 86),        *)
(* although they are only looked at before the push.                       *)
THEOREM BacklogStaysBounded == Spec => []BacklogBounded
<1>1. Books => BacklogBounded
  BY DEF Books
<1> QED
  BY <1>1, BooksKept, PTL

(* No lost wake-up (the pumpAll calls at 101 and 143): a slot is never     *)
(* left free while a room that may use it has work, whatever the per-room  *)
(* concurrency and the number of rooms.                                    *)
THEOREM SlotsNeverWasted == Spec => []WorkConserving
<1>1. Books => WorkConserving
  BY DEF Books
<1> QED
  BY <1>1, BooksKept, PTL

(* After beginStop nothing waits and what runs has been told to abort; a   *)
(* drain that reports success has left nothing running (231-267).          *)
THEOREM ShutdownLeavesNothing == Spec => []ShutdownQuiesces
<1>1. Books => ShutdownQuiesces
  BY DEF Books, Shut, ShutdownQuiesces
<1> QED
  BY <1>1, BooksKept, PTL

(* The books of the queue agree in every reachable state. *)
THEOREM BooksBalance == Spec => []Accounted
<1> QED
  BY NoTaskLost, BacklogStaysBounded, SlotsNeverWasted, ShutdownLeavesNothing, PTL
     DEF Accounted

(* A task only starts while the queue is open, fresh, and as the oldest    *)
(* waiting task of its room, also after it was put back at the cap.        *)
THEOREM StartsDisciplined == Spec => StartDiscipline
<1> DEFINE Starts == \A t \in q'.running \ q.running :
                       /\ ~stopped
                       /\ ~Stale(t)
                       /\ \A u \in Pending(q') : u.room = t.room => u.id > t.id
<1>1. ASSUME Books, [Next]_vars
      PROVE  [Starts]_vars
  <2>0. IInv /\ Ledger /\ Fits(q)
    BY <1>1 DEF Books, BacklogBounded, Fits
  <2>1. ASSUME NEW room \in Rooms, Enqueue(room) PROVE Starts
    <3>1. CASE stopped
      BY <2>1, <3>1 DEF Enqueue, EnqueueStopped, EnqueueOpen
    <3>2. CASE ~stopped
      <4>1. PICK p : EnqueueVia(p)
        BY <2>0, <2>1, <3>2, EnqueueEffect
      <4>2. p.running = q.running /\ Advances(p, q')
        BY <4>1 DEF EnqueueVia
      <4> QED
        BY <3>2, <4>2 DEF Advances
    <3> QED
      BY <3>1, <3>2
  <2>2. ASSUME NEW t \in q.running, Finish(t) PROVE Starts
    <3>1. PICK p : FinishVia(p, t)
      BY <2>0, <2>2, FinishEffect
    <3>2. /\ p.running \subseteq q.running /\ Advances(p, q')
          /\ stopped => q' = p
          /\ p.running = q.running \ {t}
      BY <3>1 DEF FinishVia
    <3>3. CASE stopped
      BY <3>2, <3>3
    <3>4. CASE ~stopped
      <4>1. \A u \in q'.running \ q.running : u \in q'.running \ p.running
        BY <3>2
      <4> QED
        BY <3>2, <3>4, <4>1 DEF Advances
    <3> QED
      BY <3>3, <3>4
  <2>3. CASE Prune
    BY <2>0, <2>3, PruneEffect
  <2>4. CASE Stop \/ CloseAndDrain
    BY <2>0, <2>4, BeginStopEffect DEF Stop, CloseAndDrain
  <2>5. CASE DrainSettled \/ DrainExpired \/ Tick \/ UNCHANGED vars
    BY <2>5 DEF DrainSettled, DrainExpired, Tick, vars
  <2> HIDE DEF Starts
  <2> QED
    BY <1>1, <2>1, <2>2, <2>3, <2>4, <2>5 DEF Next, FinishAny
<1> QED
  BY <1>1, BooksKept, PTL DEF Spec, StartDiscipline
=============================================================================
