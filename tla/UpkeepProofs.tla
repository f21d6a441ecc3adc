----------------------------- MODULE UpkeepProofs ----------------------------
(***************************************************************************)
(* Theorems about Upkeep, for any scenes: the programs that are run, what  *)
(* roles allow, the summaries of a room, and, from StorageProofs, the      *)
(* database file with its leases, backups and retention, what is           *)
(* remembered with whose consent, the histories that are filed with their  *)
(* media, and the console.                                                 *)
(*                                                                         *)
(* Each part has an invariant of its own that its steps keep, and that the *)
(* steps of the others leave alone (the QED of the theorem of the part).   *)
(***************************************************************************)
EXTENDS Upkeep, StorageProofs, FiniteSetTheorems, WellFoundedInduction, TLAPS
-----------------------------------------------------------------------------
LEMMA UnitsWanted ==
  ASSUME NEW s, NEW W, \A x \in W : x.permits = 1, NEW q \in Seq(W), s.queue = q, NEW k \in 0 .. Len(q)
  PROVE  Sem!Wanted(s, k) = k
<1> DEFINE Sums(g) == g = [i \in 0 .. Len(q) |-> IF i = 0 THEN 0 ELSE g[i - 1] + q[i].permits]
           id == [i \in 0 .. Len(q) |-> i]
<1>1. Len(q) \in Nat /\ \A i \in 1 .. Len(q) : q[i].permits = 1
  OBVIOUS
<1>2. Sums(id)
  <2>1. \A i \in 0 .. Len(q) : id[i] = IF i = 0 THEN 0 ELSE id[i - 1] + q[i].permits  BY <1>1
  <2> QED  BY <2>1
<1>3. \A g : Sums(g) => g[k] = k
  <2> SUFFICES ASSUME NEW g, Sums(g) PROVE g[k] = k  OBVIOUS
  <2>1. \A i \in 0 .. Len(q) : g[i] = IF i = 0 THEN 0 ELSE g[i - 1] + q[i].permits  OBVIOUS
  <2> HIDE DEF Sums
  <2> DEFINE S == {n \in Nat : n <= Len(q) => g[n] = n}
  <2>2. 0 \in S  BY <2>1, <1>1
  <2>3. \A n \in Nat : n \in S => n + 1 \in S  BY <2>1, <1>1
  <2>4. \A n \in Nat : n \in S  
    <3> HIDE DEF S
    <3> QED  BY <2>2, <2>3, NumbersReached
  <2> QED  BY <2>4
<1>4. Sem!Wanted(s, k) = (CHOOSE g : Sums(g))[k]  BY DEF Sem!Wanted
<1> HIDE DEF Sums, id
<1> QED  BY <1>2, <1>3, <1>4

-----------------------------------------------------------------------------
(* How many waiters a release serves, and what it leaves.                  *)
Serves(s, q, n) ==
  /\ Sem!Release(s, 1) = [free |-> s.free + 1 - n, queue |-> SubSeq(q, n + 1, Len(q))] /\ n <= s.free + 1
  /\ Sem!Woken(s, 1) = {q[i].who : i \in 1 .. n}

LEMMA Releases ==
  ASSUME NEW s, NEW W, \A x \in W : x.permits = 1, NEW q \in Seq(W), s.queue = q, s.free \in Nat
  PROVE  \E n \in 0 .. Len(q) : Serves(s, q, n)
<1> DEFINE K == {k \in 0 .. Len(q) : Sem!Wanted(s, k) <= s.free + 1}
           n == Sem!Satisfied(s, 1)
<1>1. K = {k \in 0 .. Len(q) : k <= s.free + 1}  BY UnitsWanted, Zenon
<1>2. n = CHOOSE x \in K : \A y \in K : x >= y  BY DEF Sem!Satisfied, Sem!Max
<1>3. \E x \in K : \A y \in K : x >= y
  <2>1. CASE Len(q) <= s.free + 1  BY <1>1, <2>1
  <2>2. CASE Len(q) > s.free + 1
    <3>1. s.free + 1 \in 0 .. Len(q)  BY <2>2
    <3>2. s.free + 1 \in K  BY <1>1, <3>1
    <3>3. \A y \in K : s.free + 1 >= y  BY <1>1
    <3> QED  BY <3>2, <3>3, Zenon
  <2> QED  BY <2>1, <2>2
<1> HIDE DEF K
<1>4. n \in K  BY <1>2, <1>3
<1> HIDE DEF n
<1>5. n \in 0 .. Len(q) /\ n <= s.free + 1  BY <1>1, <1>4
<1>6. Sem!Wanted(s, n) = n  BY <1>5, UnitsWanted
<1>7. Sem!Release(s, 1) = [free |-> s.free + 1 - n, queue |-> SubSeq(q, n + 1, Len(q))]
  <2>1. n = Sem!Satisfied(s, 1)  BY DEF n
  <2>2. Sem!Release(s, 1) = [free |-> s.free + 1 - Sem!Wanted(s, Sem!Satisfied(s, 1)), queue |-> SubSeq(s.queue, Sem!Satisfied(s, 1) + 1, Len(s.queue))]
    <3>1. 1 # 0  OBVIOUS
    <3> QED  BY <3>1, Zenon DEF Sem!Release
  <2> QED  BY <1>6, <2>1, <2>2, Zenon
<1>8. Sem!Woken(s, 1) = {q[i].who : i \in 1 .. n}  BY DEF Sem!Woken, n
<1> QED  BY <1>5, <1>7, <1>8 DEF Serves

-----------------------------------------------------------------------------
(* Programs.  A semaphore's permits are free or held, and its queue holds  *)
(* those that wait, once; a program that is alive is still awaited, and    *)
(* has been told to end or is tracked.                                     *)
WaitsFor(k) == {w \in DOMAIN work : Kind(w) = k /\ work[w].at = "waiting"}
Ticket == [who : DOMAIN scene.works, permits : {1}]
WorkFields == {"at", "child", "size", "why", "told", "signalled", "dir", "late", "result"}

ProgramsShape ==
  /\ DOMAIN work = DOMAIN scene.works /\ IsFiniteSet(DOMAIN work)
  /\ \A w \in DOMAIN work : Kind(w) \in DOMAIN Capacity /\ DOMAIN work[w] = WorkFields /\ work[w].size \in Nat
  /\ DOMAIN permits = DOMAIN Capacity

SemaphoreSound(k) ==
  /\ DOMAIN permits[k] = {"free", "queue"} /\ permits[k].free \in Nat /\ permits[k].queue \in Seq(Ticket)
  /\ Distinct(permits[k].queue) /\ Waiting(permits[k].queue) = WaitsFor(k)
  /\ permits[k].free + Cardinality(Holding(k)) = Capacity[k]

WorkSound(w) ==
  /\ work[w].child = "alive" => work[w].at = "running" /\ (w \in tracked \/ work[w].told) /\ (quitting # "no" => work[w].told \/ work[w].late)
  /\ work[w].why # None => work[w].told
  /\ work[w].at = "reading" => work[w].why = None
  /\ work[w].result = "done" => work[w].at \in {"cleaning", "settled"} /\ work[w].why = None /\ work[w].size <= MaxSize

ProgramsInv ==
  /\ scene \in Scenes /\ ProgramsShape
  /\ \A k \in DOMAIN Capacity : SemaphoreSound(k)
  /\ \A w \in DOMAIN work : WorkSound(w)

LEMMA FreshPrograms == ASSUME Init PROVE ProgramsInv
<1> USE DEF Init, StageInit, ProgramsInit
<1>1. scene \in Scenes /\ DOMAIN work = DOMAIN scene.works /\ \A w \in DOMAIN work : work[w] = Unstarted  OBVIOUS
<1>2. ProgramsShape  BY <1>1, ProgramsAssumption DEF ProgramsShape, Kind, Unstarted, WorkFields
<1>3. ASSUME NEW k \in DOMAIN Capacity PROVE SemaphoreSound(k)
  <2>1. permits[k] = [free |-> Capacity[k], queue |-> <<>>] /\ Capacity[k] \in Nat  BY ProgramsAssumption DEF Sem!NewSemaphore
  <2>2. Holding(k) = {} /\ WaitsFor(k) = {}  BY <1>1 DEF Holding, WaitsFor, Unstarted
  <2>3. Cardinality({}) = 0  BY FS_EmptySet
  <2>4. permits[k].free + Cardinality(Holding(k)) = Capacity[k]  BY <2>1, <2>2, <2>3
  <2>5. permits[k].queue = <<>> /\ Len(<<>>) = 0 /\ <<>> \in Seq(Ticket)  BY <2>1
  <2>6. Distinct(permits[k].queue) /\ Waiting(permits[k].queue) = {}  BY <2>5 DEF Distinct, Waiting
  <2>7. DOMAIN permits[k] = {"free", "queue"} /\ permits[k].free \in Nat  BY <2>1
  <2> QED  BY <2>2, <2>4, <2>5, <2>6, <2>7, Zenon DEF SemaphoreSound
<1>4. ASSUME NEW w \in DOMAIN work PROVE WorkSound(w)
  <2>1. work[w].child = "none" /\ work[w].at = "new" /\ work[w].why = None /\ work[w].result = None  BY <1>1 DEF Unstarted
  <2> QED  BY <2>1, ProgramsAssumption DEF WorkSound
<1> QED  BY <1>1, <1>2, <1>3, <1>4 DEF ProgramsInv

LEMMA HoldingFinite ==
  ASSUME ProgramsInv, NEW k
  PROVE  IsFiniteSet(Holding(k)) /\ Cardinality(Holding(k)) \in Nat
<1>1. Holding(k) \subseteq DOMAIN work  BY DEF Holding
<1>2. IsFiniteSet(Holding(k))  BY <1>1, FS_Subset DEF ProgramsInv, ProgramsShape
<1> QED  BY <1>2, FS_CardinalityType

(* A step after which the same hold, the same wait and the permits are as  *)
(* they were.                                                              *)
LEMMA Undisturbed ==
  ASSUME ProgramsInv, scene' = scene, DOMAIN work' = DOMAIN work, NEW k \in DOMAIN Capacity, permits'[k] = permits[k],
         \A w \in DOMAIN work : Kind(w) = k => ((work'[w].at = "waiting") <=> (work[w].at = "waiting"))
                               /\ ((work'[w].at \in {"granted", "running"}) <=> (work[w].at \in {"granted", "running"}))
  PROVE  SemaphoreSound(k)'
<1>1. Holding(k)' = Holding(k) /\ WaitsFor(k)' = WaitsFor(k)  BY DEF Holding, WaitsFor, Kind
<1>2. Ticket' = Ticket  BY DEF Ticket
<1>3. SemaphoreSound(k)  BY DEF ProgramsInv
<1> QED  BY <1>1, <1>2, <1>3 DEF SemaphoreSound

LEMMA Untouched ==
  ASSUME ProgramsInv, scene' = scene, DOMAIN work' = DOMAIN work, permits' = permits,
         \A w \in DOMAIN work : /\ (work'[w].at = "waiting") <=> (work[w].at = "waiting")
                                /\ (work'[w].at \in {"granted", "running"}) <=> (work[w].at \in {"granted", "running"})
  PROVE  \A k \in DOMAIN Capacity : SemaphoreSound(k)'
BY Undisturbed

(* One more holds, or one more waits. *)
LEMMA Asked ==
  ASSUME ProgramsInv, scene' = scene, NEW w \in DOMAIN work, work[w].at = "new", NEW record, DOMAIN record = WorkFields, record.at = "new", AskPermit(w, record)
  PROVE  \A k \in DOMAIN Capacity : SemaphoreSound(k)'
<1>0. PICK c : c = Kind(w)  OBVIOUS
<1> DEFINE s == permits[c]
<1>1. c \in DOMAIN Capacity /\ DOMAIN permits = DOMAIN Capacity /\ SemaphoreSound(c)  BY <1>0 DEF ProgramsInv, ProgramsShape
<1>2. CASE record.signalled
  <2>1. work' = [work EXCEPT ![w] = Failed(record)] /\ permits' = permits  BY <1>2 DEF AskPermit
  <2>2. Failed(record).at = "cleaning"  BY DEF Failed, WorkFields
  <2> QED  BY <2>1, <2>2, Untouched
<1>3. CASE ~record.signalled /\ Sem!CanTake(s, 1)
  <2>1. work' = [work EXCEPT ![w] = [record EXCEPT !.at = "granted"]] /\ permits' = [permits EXCEPT ![c] = Sem!Take(@, 1)]  BY <1>0, <1>3 DEF AskPermit
  <2>2. work'[w].at = "granted" /\ DOMAIN work' = DOMAIN work /\ \A x \in DOMAIN work : x # w => work'[x] = work[x]  BY <2>1 DEF WorkFields
  <2>3. \A k \in DOMAIN Capacity : k # c => permits'[k] = permits[k]  BY <1>1, <2>1
  <2>4. DOMAIN permits'[c] = {"free", "queue"} /\ permits'[c].free = s.free - 1 /\ permits'[c].queue = s.queue /\ s.free >= 1
    BY <1>1, <1>3, <2>1 DEF Sem!Take, Sem!CanTake, SemaphoreSound
  <2>5. Holding(c)' = Holding(c) \cup {w} /\ w \notin Holding(c) /\ WaitsFor(c)' = WaitsFor(c)  BY <1>0, <2>2 DEF Holding, WaitsFor, Kind
  <2>6. Cardinality(Holding(c)') = Cardinality(Holding(c)) + 1  BY <2>5, HoldingFinite, FS_AddElement
  <2>7. permits'[c].free \in Nat /\ permits'[c].free + Cardinality(Holding(c)') = Capacity[c]
    <3>1. s.free \in Nat /\ s.free + Cardinality(Holding(c)) = Capacity[c] /\ Cardinality(Holding(c)) \in Nat  BY <1>1, HoldingFinite DEF SemaphoreSound
    <3> QED  BY <2>4, <2>6, <3>1
  <2>8. SemaphoreSound(c)'
    <3>1. Ticket' = Ticket  BY DEF Ticket
    <3> QED  BY <1>1, <2>4, <2>5, <2>7, <3>1 DEF SemaphoreSound
  <2>9. ASSUME NEW k \in DOMAIN Capacity, k # c PROVE SemaphoreSound(k)'  BY <1>0, <2>2, <2>3, <2>9, Undisturbed
  <2> QED  BY <2>8, <2>9
<1>4. CASE ~record.signalled /\ ~Sem!CanTake(s, 1)
  <2> DEFINE q == s.queue
             r == Append(q, [who |-> w, permits |-> 1])
  <2>1. work' = [work EXCEPT ![w] = [record EXCEPT !.at = "waiting"]] /\ permits' = [permits EXCEPT ![c] = Sem!Wait(@, w, 1)]  BY <1>0, <1>4 DEF AskPermit
  <2>2. work'[w].at = "waiting" /\ DOMAIN work' = DOMAIN work /\ \A x \in DOMAIN work : x # w => work'[x] = work[x]  BY <2>1 DEF WorkFields
  <2>3. \A k \in DOMAIN Capacity : k # c => permits'[k] = permits[k]  BY <1>1, <2>1
  <2>4. DOMAIN permits'[c] = {"free", "queue"} /\ permits'[c].free = s.free /\ permits'[c].queue = r
    BY <1>1, <2>1 DEF Sem!Wait, SemaphoreSound
  <2>5. Holding(c)' = Holding(c) /\ WaitsFor(c)' = WaitsFor(c) \cup {w} /\ w \notin WaitsFor(c)  BY <1>0, <2>2 DEF Holding, WaitsFor, Kind
  <2>6. q \in Seq(Ticket) /\ Distinct(q) /\ Waiting(q) = WaitsFor(c)  BY <1>1 DEF SemaphoreSound
  <2>7. [who |-> w, permits |-> 1] \in Ticket  BY DEF Ticket, ProgramsInv, ProgramsShape
  <2>8. r \in Seq(Ticket) /\ Len(r) = Len(q) + 1 /\ Len(q) \in Nat /\ r[Len(q) + 1].who = w /\ \A i \in 1 .. Len(q) : r[i] = q[i]  BY <2>6, <2>7
  <2>9. Distinct(r) /\ Waiting(r) = Waiting(q) \cup {w}
    <3> HIDE DEF r, q
    <3>1. \A i \in 1 .. Len(q) : q[i].who # w  BY <2>5, <2>6 DEF Waiting
    <3>2. \A i : i \in 1 .. Len(r) <=> i \in 1 .. Len(q) \/ i = Len(q) + 1  BY <2>8
    <3>3. Distinct(r)  BY <2>6, <2>8, <3>1, <3>2 DEF Distinct
    <3>4. Waiting(r) = Waiting(q) \cup {w}  BY <2>8, <3>2 DEF Waiting
    <3> QED  BY <3>3, <3>4
  <2>10. SemaphoreSound(c)'
    <3>1. Ticket' = Ticket  BY DEF Ticket
    <3> HIDE DEF r
    <3> QED  BY <1>1, <2>4, <2>5, <2>6, <2>8, <2>9, <3>1 DEF SemaphoreSound
  <2>11. ASSUME NEW k \in DOMAIN Capacity, k # c PROVE SemaphoreSound(k)'  BY <1>0, <2>2, <2>3, <2>11, Undisturbed
  <2> QED  BY <2>10, <2>11
<1> QED  BY <1>2, <1>3, <1>4

(* The permit goes on to as many as it serves.                             *)
LEMMA Handed ==
  ASSUME ProgramsInv, scene' = scene, NEW w \in DOMAIN work, work[w].at \in {"granted", "running"},
         NEW record, record.at \notin {"waiting", "granted", "running"}, Ended(w, record)
  PROVE  /\ \A k \in DOMAIN Capacity : SemaphoreSound(k)'
         /\ DOMAIN work' = DOMAIN work /\ work'[w] = record /\ DOMAIN permits' = DOMAIN permits
         /\ \A x \in DOMAIN work \ {w} : work'[x] = work[x] \/ (work[x].at = "waiting" /\ work'[x] = [work[x] EXCEPT !.at = "granted"])
<1>0. PICK c : c = Kind(w)  OBVIOUS
<1> DEFINE s == permits[c]
           q == s.queue
           H == Holding(c)
<1>1. c \in DOMAIN Capacity /\ DOMAIN permits = DOMAIN Capacity /\ SemaphoreSound(c)  BY <1>0 DEF ProgramsInv, ProgramsShape
<1>2. q \in Seq(Ticket) /\ Distinct(q) /\ Waiting(q) = WaitsFor(c) /\ s.free \in Nat  BY <1>1 DEF SemaphoreSound
<1>3. \A x \in Ticket : x.permits = 1  BY DEF Ticket
<1>4a. PICK n \in 0 .. Len(q) : Serves(s, q, n)
  <2>1. s.queue = q  OBVIOUS
  <2> HIDE DEF s, q
  <2> QED  BY <1>2, <1>3, <2>1, Releases
<1>4. /\ Sem!Release(s, 1) = [free |-> s.free + 1 - n, queue |-> SubSeq(q, n + 1, Len(q))] /\ n <= s.free + 1
      /\ Sem!Woken(s, 1) = {q[i].who : i \in 1 .. n}
  BY <1>4a DEF Serves
<1> DEFINE U == {q[i].who : i \in 1 .. n}
           r == SubSeq(q, n + 1, Len(q))
<1>5. IsFiniteSet(U) /\ Cardinality(U) = n
  <2>1. Len(q) \in Nat  BY <1>2
  <2>2. \A i, j \in 1 .. Len(q) : q[i].who = q[j].who => i = j  BY <1>2, Zenon DEF Distinct
  <2>3. n \in 0 .. Len(q)  OBVIOUS
  <2>4. PICK z : z = q  OBVIOUS
  <2>5. Len(z) \in Nat /\ (\A i, j \in 1 .. Len(z) : z[i].who = z[j].who => i = j) /\ n \in 0 .. Len(z)
    <3> HIDE DEF q, s
    <3> QED  BY <2>1, <2>2, <2>3, <2>4, Zenon
  <2>6. IsFiniteSet({z[i].who : i \in 1 .. n}) /\ Cardinality({z[i].who : i \in 1 .. n}) = n  BY <2>5, WokenCounted, ZenonT(60)
  <2> HIDE DEF q, s
  <2> QED  BY <2>4, <2>6, Zenon
<1>6. r \in Seq(Ticket) /\ Distinct(r) /\ Waiting(r) = WaitsFor(c) \ U  BY <1>2, Behind
<1>7. U \subseteq WaitsFor(c)  BY <1>2 DEF Waiting
<1>8. permits' = [permits EXCEPT ![c] = Sem!Release(s, 1)]
  /\ work' = [x \in DOMAIN work |-> IF x = w THEN record ELSE IF x \in Sem!Woken(s, 1) THEN [work[x] EXCEPT !.at = "granted"] ELSE work[x]]
  BY <1>0 DEF Ended
<1>9. permits'[c] = [free |-> s.free + 1 - n, queue |-> r] /\ DOMAIN permits' = DOMAIN permits /\ \A k \in DOMAIN Capacity : k # c => permits'[k] = permits[k]
  BY <1>1, <1>4, <1>8
<1> HIDE DEF s, U, r
<1>10. Sem!Woken(s, 1) = U  BY <1>4 DEF U
<1>11. DOMAIN work' = DOMAIN work /\ work'[w] = record /\ w \notin U
  /\ \A x \in DOMAIN work \ {w} : work'[x] = IF x \in U THEN [work[x] EXCEPT !.at = "granted"] ELSE work[x]
  BY <1>7, <1>8, <1>10 DEF WaitsFor
<1>12. \A x \in U : x \in DOMAIN work /\ x # w /\ work[x].at = "waiting" /\ Kind(x) = c /\ work'[x].at = "granted"
  BY <1>7, <1>11 DEF WaitsFor, ProgramsInv, ProgramsShape, WorkFields
<1>13. Holding(c)' = (H \ {w}) \cup U /\ w \in H /\ U \cap H = {}  BY <1>0, <1>11, <1>12 DEF Holding, Kind
<1>14. WaitsFor(c)' = WaitsFor(c) \ U  BY <1>0, <1>11, <1>12 DEF WaitsFor, Kind
<1>15. IsFiniteSet(H) /\ Cardinality(H) \in Nat  BY HoldingFinite
<1>16. Cardinality(Holding(c)') = Cardinality(H) - 1 + n
  <2> HIDE DEF H
  <2> QED  BY <1>5, <1>13, <1>15, Exchanged DEF U
<1>17. SemaphoreSound(c)'
  <2>1. Ticket' = Ticket  BY DEF Ticket
  <2>2. s.free + Cardinality(H) = Capacity[c]  BY <1>1 DEF SemaphoreSound, s
  <2>3. DOMAIN permits'[c] = {"free", "queue"} /\ permits'[c].free = s.free + 1 - n /\ permits'[c].queue = r  BY <1>9
  <2>4. permits'[c].free \in Nat /\ permits'[c].free + Cardinality(Holding(c)') = Capacity[c]
    <3> HIDE DEF q
    <3> QED  BY <1>2, <1>4, <1>15, <1>16, <2>2, <2>3
  <2> QED  BY <1>6, <1>14, <2>1, <2>3, <2>4 DEF SemaphoreSound
<1>18. ASSUME NEW k \in DOMAIN Capacity, k # c PROVE SemaphoreSound(k)'
  BY <1>0, <1>9, <1>11, <1>12, <1>18, Undisturbed
<1> QED  BY <1>9, <1>11, <1>12, <1>17, <1>18

LEMMA GivenUp ==
  ASSUME ProgramsInv, scene' = scene, NEW w \in DOMAIN work, work[w].at = "waiting", NEW record, record.at = "cleaning",
         work' = [work EXCEPT ![w] = record], permits' = [permits EXCEPT ![Kind(w)] = Sem!GiveUp(@, w)]
  PROVE  \A k \in DOMAIN Capacity : SemaphoreSound(k)'
<1>0. PICK c : c = Kind(w)  OBVIOUS
<1> DEFINE s == permits[c]
           q == s.queue
           p == Sem!PlaceInQueue(s, w)
           r == Sem!RemoveAt(q, p)
<1>1. c \in DOMAIN Capacity /\ DOMAIN permits = DOMAIN Capacity /\ SemaphoreSound(c)  BY <1>0 DEF ProgramsInv, ProgramsShape
<1>2. q \in Seq(Ticket) /\ Distinct(q) /\ Waiting(q) = WaitsFor(c)  BY <1>1 DEF SemaphoreSound
<1>3. w \in WaitsFor(c)  BY <1>0 DEF WaitsFor
<1>4. \E i \in 1 .. Len(q) : q[i].who = w  BY <1>2, <1>3 DEF Waiting
<1>5. p \in 1 .. Len(q) /\ q[p].who = w  BY <1>4 DEF Sem!PlaceInQueue
<1>6. r \in Seq(Ticket) /\ Distinct(r) /\ Waiting(r) = WaitsFor(c) \ {w}
  <2>1. r = RemoveAt(q, p)
    <3> HIDE DEF p, q
    <3> QED  BY DEF Sem!RemoveAt, RemoveAt
  <2> HIDE DEF p, q, r
  <2> QED  BY <1>2, <1>5, <2>1, Without
<1>7. DOMAIN permits'[c] = {"free", "queue"} /\ permits'[c].free = s.free /\ permits'[c].queue = r
  <2> HIDE DEF p
  <2>1. permits'[c] = Sem!GiveUp(s, w)  BY <1>0, <1>1
  <2>2. DOMAIN s = {"free", "queue"}  BY <1>1 DEF SemaphoreSound
  <2> QED  BY <2>1, <2>2 DEF Sem!GiveUp, p
<1>8. \A k \in DOMAIN Capacity : k # c => permits'[k] = permits[k]  BY <1>0, <1>1
<1>9. Holding(c)' = Holding(c) /\ WaitsFor(c)' = WaitsFor(c) \ {w}  BY <1>0 DEF Holding, WaitsFor, Kind
<1>10. SemaphoreSound(c)'
  <2>1. Ticket' = Ticket  BY DEF Ticket
  <2> HIDE DEF r
  <2> QED  BY <1>1, <1>6, <1>7, <1>9, <2>1 DEF SemaphoreSound
<1>11. ASSUME NEW k \in DOMAIN Capacity, k # c PROVE SemaphoreSound(k)'
  BY <1>0, <1>8, <1>11, Undisturbed
<1> QED  BY <1>10, <1>11

(* A step of one work, of which the others see nothing.                    *)
LEMMA OneWorks ==
  ASSUME ProgramsInv, scene' = scene, NEW w \in DOMAIN work, NEW record, DOMAIN record = WorkFields, record.size \in Nat,
         DOMAIN work' = DOMAIN work, work'[w] = record, DOMAIN permits' = DOMAIN permits, \A k \in DOMAIN Capacity : SemaphoreSound(k)',
         \A x \in DOMAIN work \ {w} : work'[x] = work[x] \/ (work[x].at = "waiting" /\ work'[x] = [work[x] EXCEPT !.at = "granted"]),
         quitting' = quitting, tracked' \ {w} = tracked \ {w}, WorkSound(w)'
  PROVE  ProgramsInv'
<1>1. \A x \in DOMAIN work : DOMAIN work[x] = WorkFields /\ work[x].size \in Nat /\ Kind(x) \in DOMAIN Capacity /\ WorkSound(x)  BY DEF ProgramsInv, ProgramsShape
<1>2. ASSUME NEW x \in DOMAIN work, x # w
      PROVE  DOMAIN work'[x] = WorkFields /\ work'[x].size \in Nat /\ WorkSound(x)'
  <2>1. CASE work'[x] = work[x]  BY <1>1, <1>2, <2>1 DEF WorkSound
  <2>2. CASE work[x].at = "waiting" /\ work'[x] = [work[x] EXCEPT !.at = "granted"]
    <3>1. /\ DOMAIN work'[x] = WorkFields /\ work'[x].size = work[x].size /\ work'[x].child = work[x].child /\ work'[x].at = "granted"
          /\ work'[x].why = work[x].why /\ work'[x].told = work[x].told /\ work'[x].result = work[x].result
      BY <1>1, <2>2 DEF WorkFields
    <3>2. work[x].child # "alive" /\ work[x].result # "done" /\ (work[x].why # None => work[x].told)  BY <1>1, <2>2 DEF WorkSound
    <3> QED  BY <1>1, <3>1, <3>2 DEF WorkSound
  <2> QED  BY <1>2, <2>1, <2>2
<1>3. ProgramsShape'
  <2>1. \A x \in DOMAIN work : Kind(x)' = Kind(x)  BY DEF Kind
  <2>2. DOMAIN work = DOMAIN scene.works /\ IsFiniteSet(DOMAIN work) /\ DOMAIN permits = DOMAIN Capacity  BY DEF ProgramsInv, ProgramsShape
  <2>3. \A x \in DOMAIN work' : Kind(x)' \in DOMAIN Capacity /\ DOMAIN work'[x] = WorkFields /\ work'[x].size \in Nat  BY <1>1, <1>2, <2>1
  <2> QED  BY <2>2, <2>3 DEF ProgramsShape
<1>4. scene' \in Scenes  BY DEF ProgramsInv
<1>5. \A x \in DOMAIN work' : WorkSound(x)'  BY <1>2
<1> QED  BY <1>3, <1>4, <1>5 DEF ProgramsInv

(* One whose claim on the permits is as it was.                            *)
LEMMA OneMoves ==
  ASSUME ProgramsInv, scene' = scene, NEW w \in DOMAIN work, NEW record, DOMAIN record = WorkFields, record.size \in Nat,
         work' = [work EXCEPT ![w] = record], permits' = permits, quitting' = quitting, tracked' \ {w} = tracked \ {w}, WorkSound(w)',
         (record.at = "waiting") <=> (work[w].at = "waiting"), (record.at \in {"granted", "running"}) <=> (work[w].at \in {"granted", "running"})
  PROVE  ProgramsInv'
<1>1. DOMAIN work' = DOMAIN work /\ work'[w] = record /\ \A x \in DOMAIN work \ {w} : work'[x] = work[x]  OBVIOUS
<1>2. \A k \in DOMAIN Capacity : SemaphoreSound(k)'  BY <1>1, Untouched
<1> QED  BY <1>1, <1>2, OneWorks

LEMMA WorkFacts ==
  ASSUME ProgramsInv, NEW w \in DOMAIN work
  PROVE  DOMAIN work[w] = WorkFields /\ work[w].size \in Nat /\ WorkSound(w) /\ MaxSize \in Nat
BY ProgramsAssumption DEF ProgramsInv, ProgramsShape

LEMMA StartWorkKept == ASSUME ProgramsInv, scene' = scene, NEW w \in DOMAIN work, StartWork(w) PROVE ProgramsInv'
<1> DEFINE r == Workspace(w)
<1>1. DOMAIN r = WorkFields /\ r.at = "new" /\ r.size = work[w].size /\ r.child = work[w].child /\ r.why = work[w].why /\ r.told = work[w].told /\ r.result = work[w].result
  BY WorkFacts DEF Workspace, WorkFields, StartWork, IsAt
<1>2. AskPermit(w, r) /\ work[w].at = "new" /\ tracked' = tracked /\ quitting' = quitting  BY DEF StartWork, IsAt
<1> HIDE DEF r
<1>3. \A k \in DOMAIN Capacity : SemaphoreSound(k)'  BY <1>1, <1>2, Asked
<1>4. PICK record : /\ work' = [work EXCEPT ![w] = record] /\ DOMAIN permits' = DOMAIN permits
                    /\ record = Failed(r) \/ record = [r EXCEPT !.at = "granted"] \/ record = [r EXCEPT !.at = "waiting"]
  BY <1>2 DEF AskPermit
<1>5. DOMAIN record = WorkFields /\ record.size = r.size /\ record.child = r.child /\ record.why = r.why /\ record.told = r.told
      /\ record.at \in {"cleaning", "granted", "waiting"} /\ record.result \in {"failed", r.result}
  BY <1>1, <1>4 DEF Failed, WorkFields
<1>6. work[w].child # "alive" /\ work[w].result # "done" /\ (work[w].why # None => work[w].told)  BY <1>2, WorkFacts DEF WorkSound
<1>7. work'[w] = record  BY <1>4
<1>8. WorkSound(w)'  BY <1>1, <1>5, <1>6, <1>7 DEF WorkSound
<1>9. record.size \in Nat  BY <1>1, <1>5, WorkFacts
<1>10. DOMAIN work' = DOMAIN work /\ \A x \in DOMAIN work \ {w} : work'[x] = work[x]  BY <1>4
<1> QED  BY <1>2, <1>3, <1>4, <1>5, <1>7, <1>8, <1>9, <1>10, OneWorks

LEMMA LaunchKept == ASSUME ProgramsInv, scene' = scene, NEW w \in DOMAIN work, NEW starts, Launch(w, starts) PROVE ProgramsInv'
<1>1. DOMAIN work[w] = WorkFields /\ work[w].size \in Nat /\ WorkSound(w) /\ work[w].at = "granted" /\ quitting' = quitting  BY WorkFacts DEF Launch, IsAt
<1>2. work[w].child # "alive" /\ work[w].result # "done" /\ (work[w].why # None => work[w].told)  BY <1>1 DEF WorkSound
<1>3. CASE work[w].signalled \/ ~starts
  <2> DEFINE r == Failed(work[w])
  <2>1. Ended(w, r) /\ tracked' = tracked  BY <1>3, Zenon DEF Launch
  <2>2. DOMAIN r = WorkFields /\ r.size = work[w].size /\ r.at = "cleaning" /\ r.child = work[w].child /\ r.why = work[w].why /\ r.told = work[w].told /\ r.result = "failed"
    BY <1>1 DEF Failed, WorkFields
  <2> HIDE DEF r
  <2>3. /\ \A k \in DOMAIN Capacity : SemaphoreSound(k)'
        /\ DOMAIN work' = DOMAIN work /\ work'[w] = r /\ DOMAIN permits' = DOMAIN permits
        /\ \A x \in DOMAIN work \ {w} : work'[x] = work[x] \/ (work[x].at = "waiting" /\ work'[x] = [work[x] EXCEPT !.at = "granted"])
    BY <1>1, <2>1, <2>2, Handed
  <2>4. WorkSound(w)'  BY <1>2, <2>2, <2>3 DEF WorkSound
  <2> QED  BY <1>1, <2>1, <2>2, <2>3, <2>4, OneWorks
<1>4. CASE ~(work[w].signalled \/ ~starts)
  <2> DEFINE r == [work[w] EXCEPT !.at = "running", !.child = "alive", !.late = (quitting # "no")]
  <2>1. work' = [work EXCEPT ![w] = r] /\ tracked' = tracked \cup {w} /\ permits' = permits  BY <1>4 DEF Launch
  <2>2. DOMAIN r = WorkFields /\ r.size = work[w].size /\ r.at = "running" /\ r.child = "alive" /\ r.late = (quitting # "no") /\ r.why = work[w].why /\ r.told = work[w].told /\ r.result = work[w].result
    BY <1>1 DEF WorkFields
  <2> HIDE DEF r
  <2>3. work'[w] = r  BY <2>1
  <2>4. WorkSound(w)'  BY <1>1, <1>2, <2>1, <2>2, <2>3 DEF WorkSound
  <2> QED  BY <1>1, <2>1, <2>2, <2>4, OneMoves
<1> QED  BY <1>3, <1>4

LEMMA TerminateKept == ASSUME ProgramsInv, scene' = scene, NEW w \in DOMAIN work, NEW why, Terminate(w, why) PROVE ProgramsInv'
<1> DEFINE r == Terminated(w, why)
<1>1. DOMAIN work[w] = WorkFields /\ work[w].size \in Nat /\ WorkSound(w) /\ work[w].at = "running" /\ quitting' = quitting
      /\ work' = [work EXCEPT ![w] = r] /\ tracked' = tracked \ {w} /\ permits' = permits
  BY WorkFacts DEF Terminate, IsAt
<1>2. DOMAIN r = WorkFields /\ r.size = work[w].size /\ r.at = "running" /\ r.told /\ r.result = work[w].result
  BY <1>1 DEF Terminated, WorkSound, WorkFields
<1> HIDE DEF r
<1>3. work'[w] = r  BY <1>1
<1>4. WorkSound(w)'  BY <1>1, <1>2, <1>3 DEF WorkSound
<1> QED  BY <1>1, <1>2, <1>4, OneMoves

LEMMA SignalKept == ASSUME ProgramsInv, scene' = scene, NEW w \in DOMAIN work, Signal(w) PROVE ProgramsInv'
<1> DEFINE heard == [work[w] EXCEPT !.signalled = TRUE]
<1>1. DOMAIN work[w] = WorkFields /\ work[w].size \in Nat /\ WorkSound(w) /\ quitting' = quitting  BY WorkFacts DEF Signal
<1>2. CASE work[w].at = "waiting"
  <2> DEFINE r == Failed(heard)
  <2>1. permits' = [permits EXCEPT ![Kind(w)] = Sem!GiveUp(@, w)] /\ work' = [work EXCEPT ![w] = r] /\ tracked' = tracked  BY <1>2 DEF Signal
  <2>2. DOMAIN r = WorkFields /\ r.size = work[w].size /\ r.at = "cleaning" /\ r.child = work[w].child /\ r.why = work[w].why /\ r.told = work[w].told /\ r.result = "failed"
    BY <1>1 DEF Failed, WorkFields
  <2>3. work[w].child # "alive" /\ (work[w].why # None => work[w].told)  BY <1>1, <1>2 DEF WorkSound
  <2> HIDE DEF r
  <2>4. \A k \in DOMAIN Capacity : SemaphoreSound(k)'  BY <1>2, <2>1, <2>2, GivenUp
  <2>5. DOMAIN work' = DOMAIN work /\ work'[w] = r /\ DOMAIN permits' = DOMAIN permits /\ \A x \in DOMAIN work \ {w} : work'[x] = work[x]  BY <2>1
  <2>6. WorkSound(w)'  BY <2>2, <2>3, <2>5 DEF WorkSound
  <2> QED  BY <1>1, <2>1, <2>2, <2>4, <2>5, <2>6, OneWorks
<1>3. CASE work[w].at = "running"
  <2> DEFINE r == [Terminated(w, "aborted") EXCEPT !.signalled = TRUE]
  <2>1. work' = [work EXCEPT ![w] = r] /\ tracked' = tracked \ {w} /\ permits' = permits  BY <1>3 DEF Signal
  <2>2. DOMAIN r = WorkFields /\ r.size = work[w].size /\ r.at = "running" /\ r.told /\ r.result = work[w].result
    BY <1>1, <1>3 DEF Terminated, WorkSound, WorkFields
  <2> HIDE DEF r
  <2>3. work'[w] = r  BY <2>1
  <2>4. WorkSound(w)'  BY <1>1, <1>3, <2>2, <2>3 DEF WorkSound
  <2> QED  BY <1>1, <1>3, <2>1, <2>2, <2>4, OneMoves
<1>4. CASE work[w].at # "waiting" /\ work[w].at # "running"
  <2>1. work' = [work EXCEPT ![w] = heard] /\ tracked' = tracked /\ permits' = permits  BY <1>4 DEF Signal
  <2>2. /\ DOMAIN heard = WorkFields /\ heard.size = work[w].size /\ heard.at = work[w].at /\ heard.child = work[w].child
        /\ heard.why = work[w].why /\ heard.told = work[w].told /\ heard.result = work[w].result
    BY <1>1 DEF WorkFields
  <2> HIDE DEF heard
  <2>3. work'[w] = heard  BY <2>1
  <2>4. WorkSound(w)'  BY <1>1, <1>4, <2>1, <2>2, <2>3 DEF WorkSound
  <2> QED  BY <1>1, <2>1, <2>2, <2>4, OneMoves
<1> QED  BY <1>2, <1>3, <1>4

LEMMA ClosedKept == ASSUME ProgramsInv, scene' = scene, NEW w \in DOMAIN work, NEW ok, Closed(w, ok) PROVE ProgramsInv'
<1> DEFINE gone == [work[w] EXCEPT !.child = "gone"]
           r == IF gone.why # None \/ ~ok THEN Failed(gone) ELSE [gone EXCEPT !.at = "reading"]
<1>1. DOMAIN work[w] = WorkFields /\ work[w].size \in Nat /\ WorkSound(w) /\ work[w].at = "running" /\ quitting' = quitting /\ tracked' = tracked \ {w}
  BY WorkFacts DEF Closed, IsAt
<1>2. Ended(w, r)  BY Zenon DEF Closed
<1>3. DOMAIN gone = WorkFields /\ gone.size = work[w].size /\ gone.why = work[w].why /\ gone.told = work[w].told /\ gone.child = "gone" /\ gone.result = work[w].result
  BY <1>1 DEF WorkFields
<1> HIDE DEF gone
<1>4. /\ DOMAIN r = WorkFields /\ r.size = gone.size /\ r.why = gone.why /\ r.told = gone.told /\ r.child = "gone"
      /\ r.result \in {"failed", gone.result} /\ r.at \in {"cleaning", "reading"} /\ (r.at = "reading" => r.why = None)
  BY <1>3 DEF Failed, WorkFields
<1> HIDE DEF r
<1>5. /\ \A k \in DOMAIN Capacity : SemaphoreSound(k)'
      /\ DOMAIN work' = DOMAIN work /\ work'[w] = r /\ DOMAIN permits' = DOMAIN permits
      /\ \A x \in DOMAIN work \ {w} : work'[x] = work[x] \/ (work[x].at = "waiting" /\ work'[x] = [work[x] EXCEPT !.at = "granted"])
  BY <1>1, <1>2, <1>4, Handed
<1>6. work[w].result # "done" /\ (work[w].why # None => work[w].told)  BY <1>1 DEF WorkSound
<1>7. WorkSound(w)'  BY <1>3, <1>4, <1>5, <1>6 DEF WorkSound
<1>8. r.size \in Nat  BY <1>1, <1>3, <1>4
<1> QED  BY <1>1, <1>4, <1>5, <1>7, <1>8, OneWorks

LEMMA GrowKept == ASSUME ProgramsInv, scene' = scene, NEW w \in DOMAIN work, Grow(w) PROVE ProgramsInv'
<1> DEFINE r == [work[w] EXCEPT !.size = @ + 1]
<1>1. DOMAIN work[w] = WorkFields /\ work[w].size \in Nat /\ WorkSound(w) /\ quitting' = quitting /\ tracked' = tracked /\ permits' = permits
      /\ work' = [work EXCEPT ![w] = r] /\ work[w].child = "alive"
  BY WorkFacts DEF Grow
<1>2. DOMAIN r = WorkFields /\ r.size \in Nat /\ r.at = work[w].at /\ r.child = "alive" /\ r.why = work[w].why /\ r.told = work[w].told /\ r.late = work[w].late /\ r.result = work[w].result
  BY <1>1 DEF WorkFields
<1> HIDE DEF r
<1>3. work'[w] = r  BY <1>1
<1>4. WorkSound(w)'  BY <1>1, <1>2, <1>3 DEF WorkSound
<1> QED  BY <1>1, <1>2, <1>4, OneMoves

LEMMA ReadOutputKept == ASSUME ProgramsInv, scene' = scene, NEW w \in DOMAIN work, NEW found, ReadOutput(w, found) PROVE ProgramsInv'
<1> DEFINE r == IF found /\ work[w].size <= MaxSize THEN [work[w] EXCEPT !.at = "cleaning", !.result = "done"] ELSE Failed(work[w])
<1>1. DOMAIN work[w] = WorkFields /\ work[w].size \in Nat /\ WorkSound(w) /\ work[w].at = "reading" /\ quitting' = quitting /\ tracked' = tracked /\ permits' = permits
      /\ work' = [work EXCEPT ![w] = r]
  BY WorkFacts DEF ReadOutput, IsAt
<1>2. /\ DOMAIN r = WorkFields /\ r.size = work[w].size /\ r.at = "cleaning" /\ r.child = work[w].child /\ r.why = work[w].why /\ r.told = work[w].told
      /\ (r.result = "done" => work[w].size <= MaxSize)
  BY <1>1 DEF WorkFields, Failed
<1> HIDE DEF r
<1>3. work'[w] = r  BY <1>1
<1>4. WorkSound(w)'  BY <1>1, <1>2, <1>3 DEF WorkSound
<1> QED  BY <1>1, <1>2, <1>4, OneMoves

LEMMA CleanUpKept == ASSUME ProgramsInv, scene' = scene, NEW w \in DOMAIN work, CleanUp(w) PROVE ProgramsInv'
<1> DEFINE r == [work[w] EXCEPT !.at = "settled", !.dir = FALSE]
<1>1. DOMAIN work[w] = WorkFields /\ work[w].size \in Nat /\ WorkSound(w) /\ work[w].at = "cleaning" /\ quitting' = quitting /\ tracked' = tracked /\ permits' = permits
      /\ work' = [work EXCEPT ![w] = r]
  BY WorkFacts DEF CleanUp, IsAt
<1>2. DOMAIN r = WorkFields /\ r.size = work[w].size /\ r.at = "settled" /\ r.child = work[w].child /\ r.why = work[w].why /\ r.told = work[w].told /\ r.result = work[w].result
  BY <1>1 DEF WorkFields
<1> HIDE DEF r
<1>3. work'[w] = r  BY <1>1
<1>4. WorkSound(w)'  BY <1>1, <1>2, <1>3 DEF WorkSound
<1> QED  BY <1>1, <1>2, <1>4, OneMoves

LEMMA ExitKept == ASSUME ProgramsInv, scene' = scene, ForceExit \/ Exit PROVE ProgramsInv'
<1>1. permits' = permits /\ tracked' = tracked /\ quitting' # "no" /\ DOMAIN work' = DOMAIN work  BY Zenon DEF ForceExit, Exit
<1>2. ASSUME NEW w \in DOMAIN work
      PROVE  /\ DOMAIN work'[w] = WorkFields /\ work'[w].size = work[w].size /\ work'[w].at = work[w].at /\ work'[w].child = work[w].child /\ work'[w].why = work[w].why
             /\ work'[w].late = work[w].late /\ work'[w].result = work[w].result
             /\ (work[w].told => work'[w].told) /\ (quitting = "no" /\ w \in tracked => work'[w].told)
  BY WorkFacts DEF ForceExit, Exit, WorkFields
<1>3. \A k \in DOMAIN Capacity : SemaphoreSound(k)'  BY <1>1, <1>2, Untouched
<1>4. ASSUME NEW w \in DOMAIN work PROVE WorkSound(w)'
  <2>1. WorkSound(w)  BY WorkFacts
  <2> QED  BY <1>1, <1>2, <2>1 DEF WorkSound
<1>5. ProgramsShape'
  <2>1. \A x \in DOMAIN work : Kind(x)' = Kind(x)  BY DEF Kind
  <2>2. ProgramsShape  BY DEF ProgramsInv
  <2> QED  BY <1>1, <1>2, <2>1, <2>2 DEF ProgramsShape
<1> QED  BY <1>1, <1>3, <1>4, <1>5 DEF ProgramsInv

LEMMA ProgramsStep == ASSUME ProgramsInv, scene' = scene, ProgramsNext \/ UNCHANGED programsVars PROVE ProgramsInv'
<1>1. CASE ForceExit \/ Exit  BY <1>1, ExitKept
<1>2. ASSUME NEW w \in DOMAIN work, NEW ok, Launch(w, ok) \/ Closed(w, ok) \/ ReadOutput(w, ok) PROVE ProgramsInv'
  BY <1>2, LaunchKept, ClosedKept, ReadOutputKept
<1>3. ASSUME NEW w \in DOMAIN work, StartWork(w) \/ TimeOut(w) \/ TalkTooMuch(w) \/ CheckDirectory(w) \/ Grow(w) \/ Signal(w) \/ CleanUp(w) PROVE ProgramsInv'
  BY <1>3, StartWorkKept, TerminateKept, GrowKept, SignalKept, CleanUpKept DEF TimeOut, TalkTooMuch, CheckDirectory
<1>4. CASE UNCHANGED programsVars
  <2>1. work' = work /\ permits' = permits /\ tracked' = tracked /\ quitting' = quitting  BY <1>4 DEF programsVars
  <2>2. \A k \in DOMAIN Capacity : SemaphoreSound(k)'  BY <2>1, Untouched
  <2>3. ProgramsShape' /\ \A w \in DOMAIN work : WorkSound(w)'  BY <2>1 DEF ProgramsInv, ProgramsShape, WorkSound, Kind
  <2> QED  BY <2>1, <2>2, <2>3 DEF ProgramsInv
<1> QED  BY <1>1, <1>2, <1>3, <1>4, Zenon DEF ProgramsNext

LEMMA ProgramsFollows == ASSUME ProgramsInv PROVE ProgramsContained
<1>1. ASSUME NEW k \in DOMAIN Capacity
      PROVE  /\ Cardinality({w \in DOMAIN work : Kind(w) = k /\ work[w].child = "alive"}) <= Capacity[k]
             /\ permits[k].free + Cardinality(Holding(k)) = Capacity[k]
  <2> DEFINE A == {w \in DOMAIN work : Kind(w) = k /\ work[w].child = "alive"}
  <2>1. A \subseteq Holding(k)  BY DEF ProgramsInv, WorkSound, Holding
  <2> HIDE DEF A
  <2>2. Cardinality(A) <= Cardinality(Holding(k)) /\ Cardinality(A) \in Nat /\ Cardinality(Holding(k)) \in Nat
    BY <2>1, HoldingFinite, FS_Subset, FS_CardinalityType
  <2>3. permits[k].free + Cardinality(Holding(k)) = Capacity[k] /\ permits[k].free \in Nat  BY DEF ProgramsInv, SemaphoreSound
  <2>4. Cardinality(A) <= Capacity[k]  BY <2>2, <2>3
  <2> QED  BY <2>3, <2>4 DEF A
<1>2. \A w \in DOMAIN work : WorkSound(w)  BY DEF ProgramsInv
<1> QED  BY <1>1, <1>2 DEF ProgramsContained, WorkSound

(* ProgramsContained, for every scene, capacity and limit: a permit is     *)
(* free or held by a work that may have a program, so no more programs of  *)
(* a kind are alive than it has permits, whatever was terminated and       *)
(* lingers; no work ends before its program (process.ts:88-300).           *)
THEOREM ProgramsStayContained == Spec => []ProgramsContained
<1>1. Init => ProgramsInv  BY FreshPrograms
<1>2. ProgramsInv /\ [Next]_vars => ProgramsInv'
  <2> SUFFICES ASSUME ProgramsInv, [Next]_vars PROVE ProgramsInv'  OBVIOUS
  <2>1. scene' = scene /\ (ProgramsNext \/ UNCHANGED programsVars)
    <3>1. CASE Next  BY <3>1, Zenon DEF Next
    <3>2. CASE UNCHANGED vars  BY <3>2 DEF vars, stage
    <3> QED  BY <3>1, <3>2
  <2> QED  BY <2>1, ProgramsStep
<1>3. ProgramsInv => ProgramsContained  BY ProgramsFollows
<1> QED  BY <1>1, <1>2, <1>3, PTL DEF Spec
-----------------------------------------------------------------------------
(* Privileges.  What is cached of a role, what is read of it and what is   *)
(* answered is one of the values it had: of those since the settings that  *)
(* are still about to drop it from the cache, or since the lookup began.   *)
Had(q, f, v) == \E i \in f .. Len(q) : v = q[i]
IsSeq(q) == \E S : q \in Seq(S)
Floor(r) == Len(written[r]) - Cardinality(Dropping(r))
Floors == [r \in PrivRoles |-> Floor(r)]

SettingsSound ==
  /\ DOMAIN setting = Settings
  /\ \A s \in Settings : DOMAIN setting[s] = DOMAIN NoSetting /\ (setting[s].at # "idle" => setting[s].role \in PrivRoles)

WrittenSound ==
  /\ DOMAIN written = PrivRoles
  /\ \A r \in PrivRoles : IsSeq(written[r]) /\ Floor(r) >= 1 /\ written[r][Len(written[r])] = Stored(r)

(* Of what is held of the roles, with those overtaken.                     *)
HeldTrue(held, over, w, floor) == DOMAIN held \subseteq PrivRoles /\ \A r \in DOMAIN held : r \in over \/ Had(w[r], floor[r], held[r])

LookupShape(l, floor) ==
  /\ DOMAIN l = DOMAIN NoLookup /\ l.roles \subseteq PrivRoles /\ l.missing \subseteq l.roles
  /\ \A r \in l.roles : l.from[r] \in Int /\ 1 <= l.from[r] /\ l.from[r] <= floor[r]

LookupTrue(l, w, floor) ==
  /\ LookupShape(l, floor)
  /\ l.at = "read" => DOMAIN l.rows \subseteq l.missing /\ \A r \in l.missing : Had(w[r], l.from[r], IF r \in DOMAIN l.rows THEN l.rows[r] ELSE NoOverrides)
  /\ l.at # "singles" => DOMAIN l.single = {}
  /\ l.at \in {"singles", "done"} =>
       /\ l.roles = DOMAIN l.got \cup DOMAIN l.single
       /\ \A r \in DOMAIN l.got \ l.excused : Had(w[r], l.from[r], l.got[r])
       /\ \A r \in DOMAIN l.single : DOMAIN l.single[r] = {"at", "row", "since"} /\ (l.single[r].at = "read" => Had(w[r], l.from[r], l.single[r].row))

PrivilegesInv ==
  /\ SettingsSound /\ WrittenSound /\ HeldTrue(dbCache, overtaken, written, Floors) /\ DOMAIN lookup = Lookups
  /\ \A c \in Lookups : LookupTrue(lookup[c], written, Floors)

LEMMA DroppingFinite == ASSUME NEW r PROVE IsFiniteSet(Dropping(r)) /\ Cardinality(Dropping(r)) \in Nat
<1>1. Dropping(r) \subseteq Settings  BY DEF Dropping
<1>2. IsFiniteSet(Dropping(r))  BY <1>1, PrivilegesAssumption, FS_Subset
<1> QED  BY <1>2, FS_CardinalityType

LEMMA Appended ==
  ASSUME NEW q, IsSeq(q), NEW v
  PROVE  IsSeq(Append(q, v)) /\ Len(q) \in Nat /\ Len(Append(q, v)) = Len(q) + 1 /\ Append(q, v)[Len(q) + 1] = v /\ \A i \in 1 .. Len(q) : Append(q, v)[i] = q[i]
<1>1. PICK S : q \in Seq(S)  BY DEF IsSeq
<1> DEFINE T == S \cup {v}
<1>2. S \subseteq T /\ v \in T  OBVIOUS
<1> HIDE DEF T
<1>3. q \in Seq(T)  BY <1>1, <1>2
<1>4. Append(q, v) \in Seq(T) /\ Len(q) \in Nat /\ Len(Append(q, v)) = Len(q) + 1 /\ Append(q, v)[Len(q) + 1] = v /\ \A i \in 1 .. Len(q) : Append(q, v)[i] = q[i]
  BY <1>2, <1>3
<1> QED  BY <1>4 DEF IsSeq

LEMMA HadSooner ==
  ASSUME NEW q, Len(q) \in Nat, NEW f \in Int, NEW g \in Int, f <= g, NEW v, Had(q, g, v)
  PROVE  Had(q, f, v)
<1>1. PICK i \in g .. Len(q) : v = q[i]  BY DEF Had
<1>2. i \in f .. Len(q)  BY <1>1
<1> QED  BY <1>1, <1>2 DEF Had

LEMMA HadLast == ASSUME NEW q, Len(q) \in Nat, NEW f \in Int, f <= Len(q) PROVE Had(q, f, q[Len(q)])
<1>1. Len(q) \in f .. Len(q)  OBVIOUS
<1> QED  BY <1>1 DEF Had

LEMMA FloorsType ==
  ASSUME PrivilegesInv
  PROVE  \A r \in PrivRoles : Floors[r] = Floor(r) /\ Floors[r] \in Int /\ Floors[r] >= 1 /\ Floors[r] <= Len(written[r]) /\ Len(written[r]) \in Nat /\ written[r][Len(written[r])] = Stored(r)
<1> SUFFICES ASSUME NEW r \in PrivRoles
             PROVE  Floors[r] = Floor(r) /\ Floors[r] \in Int /\ Floors[r] >= 1 /\ Floors[r] <= Len(written[r]) /\ Len(written[r]) \in Nat /\ written[r][Len(written[r])] = Stored(r)
  OBVIOUS
<1>1. Len(written[r]) \in Nat  BY Appended DEF PrivilegesInv, WrittenSound
<1>2. Cardinality(Dropping(r)) \in Nat  BY DroppingFinite
<1>3. Floors[r] = Floor(r)  BY DEF Floors
<1>4. Floor(r) >= 1 /\ written[r][Len(written[r])] = Stored(r)  BY DEF PrivilegesInv, WrittenSound
<1> QED  BY <1>1, <1>2, <1>3, <1>4 DEF Floor

LEMMA FreshPrivileges == ASSUME Init PROVE PrivilegesInv
<1> USE DEF Init, StageInit, PrivilegesInit
<1>1. SettingsSound  BY DEF SettingsSound, NoSetting
<1>2. ASSUME NEW r \in PrivRoles PROVE IsSeq(written[r]) /\ Floor(r) >= 1 /\ written[r][Len(written[r])] = Stored(r)
  <2>1. written[r] = <<Stored(r)>>  OBVIOUS
  <2>2. Dropping(r) = {}  BY DEF Dropping, NoSetting
  <2>3. Floor(r) = 1  BY <2>1, <2>2, FS_EmptySet DEF Floor
  <2>4. written[r] \in Seq({Stored(r)}) /\ Len(written[r]) = 1 /\ written[r][1] = Stored(r)  BY <2>1
  <2>5. IsSeq(written[r])  BY <2>4 DEF IsSeq
  <2> QED  BY <2>3, <2>4, <2>5
<1>3. WrittenSound  BY <1>2 DEF WrittenSound
<1>4. HeldTrue(dbCache, overtaken, written, Floors)  BY DEF HeldTrue
<1>5. ASSUME NEW c \in Lookups PROVE LookupTrue(lookup[c], written, Floors)
  <2>1. lookup[c] = NoLookup  OBVIOUS
  <2>2. NoLookup.at = "idle" /\ DOMAIN NoLookup.single = {} /\ NoLookup.roles = {} /\ NoLookup.missing = {}  BY DEF NoLookup
  <2>3. LookupShape(NoLookup, Floors)  BY <2>2 DEF LookupShape
  <2> QED  BY <2>1, <2>2, <2>3 DEF LookupTrue
<1> QED  BY <1>1, <1>3, <1>4, <1>5 DEF PrivilegesInv

(* A lookup that takes from the cache what is held.                        *)
LEMMA Gathered ==
  ASSUME PrivilegesInv, NEW l, LookupShape(l, Floors), NEW held,
         \A r \in l.roles \cap DOMAIN held : r \in overtaken \/ Had(written[r], l.from[r], held[r])
  PROVE  LookupTrue(Gather(l, held), written, Floors)
<1> DEFINE g == Gather(l, held)
           lacking == l.roles \ DOMAIN held
<1>1. /\ DOMAIN g = DOMAIN NoLookup /\ g.roles = l.roles /\ g.missing = l.missing /\ g.from = l.from
      /\ g.at = (IF lacking = {} THEN "done" ELSE "singles") /\ g.got = [r \in l.roles \ lacking |-> held[r]] /\ g.excused = l.excused \cup overtaken
      /\ g.single = [r \in lacking |-> [at |-> "asked", row |-> NoOverrides, since |-> now]]
  BY DEF Gather, Restrict, LookupShape, NoLookup
<1> HIDE DEF g
<1>2. LookupShape(g, Floors)  BY <1>1 DEF LookupShape
<1>3. DOMAIN g.single = lacking /\ DOMAIN g.got = l.roles \ lacking  BY <1>1
<1>4. ASSUME NEW r \in DOMAIN g.got \ g.excused PROVE Had(written[r], g.from[r], g.got[r])  BY <1>1, <1>3, <1>4
<1>5. ASSUME NEW r \in DOMAIN g.single PROVE DOMAIN g.single[r] = {"at", "row", "since"} /\ g.single[r].at # "read"
  BY <1>1, <1>3, <1>5
<1>6. g.at \in {"done", "singles"} /\ (g.at = "done" => lacking = {})  BY <1>1
<1> QED  BY <1>1, <1>2, <1>3, <1>4, <1>5, <1>6 DEF LookupTrue, g

LEMMA HeldFor ==
  ASSUME PrivilegesInv, NEW l, LookupShape(l, Floors), NEW held, HeldTrue(held, overtaken, written, Floors)
  PROVE  \A r \in l.roles \cap DOMAIN held : r \in overtaken \/ Had(written[r], l.from[r], held[r])
<1> SUFFICES ASSUME NEW r \in l.roles, r \in DOMAIN held, r \notin overtaken PROVE Had(written[r], l.from[r], held[r])  OBVIOUS
<1>1. r \in PrivRoles /\ l.from[r] \in Int /\ l.from[r] <= Floors[r]  BY DEF LookupShape
<1>2. Had(written[r], Floors[r], held[r])  BY DEF HeldTrue
<1> QED  BY <1>1, <1>2, HadSooner, FloorsType

LEMMA UnagedHeld ==
  ASSUME NEW over, NEW w, NEW floor, NEW held, HeldTrue(held, over, w, floor), NEW at
  PROVE  HeldTrue(Unaged(held, at), over, w, floor)
BY DEF Unaged, HeldTrue

LEMMA CacheHeld ==
  ASSUME NEW held, HeldTrue(held, overtaken, written, Floors), Hold(held)
  PROVE  HeldTrue(dbCache', overtaken', written, Floors)
BY DEF HeldTrue, Hold

LEMMA CacheStored ==
  ASSUME PrivilegesInv, NEW rows, DOMAIN rows \subseteq PrivRoles, Store(dbCache, rows)
  PROVE  HeldTrue(dbCache', overtaken', written, Floors)
<1>1. DOMAIN dbCache' = DOMAIN rows \cup DOMAIN dbCache /\ \A r \in DOMAIN dbCache' : dbCache'[r] = IF r \in DOMAIN rows THEN rows[r] ELSE dbCache[r]
  BY DEF Store, Overlaid
<1>2. HeldTrue(dbCache, overtaken, written, Floors)  BY DEF PrivilegesInv
<1>3. ASSUME NEW r \in DOMAIN dbCache', r \notin overtaken' PROVE Had(written[r], Floors[r], dbCache'[r])
  <2>1. CASE r \in DOMAIN rows
    <3>1. dbCache'[r] = Stored(r)  BY <1>1, <1>3, <2>1 DEF Store
    <3> QED  BY <2>1, <3>1, FloorsType, HadLast
  <2>2. CASE r \notin DOMAIN rows  BY <1>1, <1>2, <1>3, <2>2 DEF Store, HeldTrue
  <2> QED  BY <2>1, <2>2
<1> QED  BY <1>1, <1>2, <1>3 DEF HeldTrue

LEMMA LookedUp ==
  ASSUME PrivilegesInv, overrides' = overrides, setting' = setting, written' = written, HeldTrue(dbCache', overtaken', written, Floors),
         NEW c \in Lookups, NEW l, lookup' = [lookup EXCEPT ![c] = l], LookupTrue(l, written, Floors)
  PROVE  PrivilegesInv'
<1>1. Floors' = Floors  BY DEF Floors, Floor, Dropping
<1>2. SettingsSound' /\ WrittenSound'
  BY DEF PrivilegesInv, SettingsSound, WrittenSound, Floor, Dropping, Stored
<1>3. DOMAIN lookup' = Lookups /\ \A x \in Lookups : lookup'[x] = IF x = c THEN l ELSE lookup[x]  BY DEF PrivilegesInv
<1>4. ASSUME NEW x \in Lookups PROVE LookupTrue(lookup'[x], written, Floors)
  <2>1. CASE x = c  BY <1>3, <2>1
  <2>2. CASE x # c  BY <1>3, <2>2 DEF PrivilegesInv
  <2> QED  BY <2>1, <2>2
<1> QED  BY <1>1, <1>2, <1>3, <1>4 DEF PrivilegesInv

LEMMA BegunShape ==
  ASSUME PrivilegesInv, NEW roles \in SUBSET PrivRoles
  PROVE  /\ DOMAIN Begun(roles) = DOMAIN NoLookup /\ Begun(roles).roles = roles /\ Begun(roles).missing = {} /\ Begun(roles).at = "idle" /\ DOMAIN Begun(roles).single = {}
         /\ \A r \in roles : Begun(roles).from[r] = Floors[r]
BY FloorsType DEF Begun, NoLookup, Floor

LEMMA AskProfileKept == ASSUME PrivilegesInv, NEW c \in Lookups, NEW roles \in SUBSET PrivRoles, AskProfile(c, roles) PROVE PrivilegesInv'
<1> DEFINE held == Unaged(dbCache, loadedAt)
           l == [Begun(roles) EXCEPT !.missing = roles \ DOMAIN held, !.since = now]
<1>1. HeldTrue(held, overtaken, written, Floors)  BY UnagedHeld DEF PrivilegesInv
<1>2. PICK m : m = IF l.missing = {} THEN Gather(l, held) ELSE [l EXCEPT !.at = "asked"]  OBVIOUS
<1>3. Hold(held) /\ lookup' = [lookup EXCEPT ![c] = m] /\ overrides' = overrides /\ setting' = setting /\ written' = written  BY <1>2 DEF AskProfile
<1>4. /\ DOMAIN l = DOMAIN NoLookup /\ l.roles = roles /\ l.missing = roles \ DOMAIN held /\ DOMAIN l.single = {}
      /\ \A r \in roles : l.from[r] = Floors[r]
  BY BegunShape DEF NoLookup
<1> HIDE DEF held, l
<1>5. HeldTrue(dbCache', overtaken', written, Floors)  BY <1>1, <1>3, CacheHeld
<1>6. LookupShape(l, Floors)  BY <1>4, FloorsType DEF LookupShape
<1>7. CASE l.missing = {}
  <2>1. \A r \in l.roles \cap DOMAIN held : r \in overtaken \/ Had(written[r], l.from[r], held[r])  BY <1>1, <1>6, HeldFor
  <2>2. LookupTrue(m, written, Floors)  BY <1>2, <1>6, <1>7, <2>1, Gathered
  <2> QED  BY <1>3, <1>5, <2>2, LookedUp
<1>8. CASE l.missing # {}
  <2>1. m = [l EXCEPT !.at = "asked"]  BY <1>2, <1>8
  <2>2. DOMAIN m = DOMAIN NoLookup /\ m.roles = l.roles /\ m.missing = l.missing /\ m.single = l.single /\ m.at = "asked" /\ m.from = l.from
    BY <1>4, <2>1 DEF NoLookup
  <2>3. LookupTrue(m, written, Floors)  BY <1>4, <1>6, <2>2 DEF LookupTrue, LookupShape
  <2> QED  BY <1>3, <1>5, <2>3, LookedUp
<1> QED  BY <1>7, <1>8

LEMMA AskRoleKept == ASSUME PrivilegesInv, NEW c \in Lookups, NEW r \in PrivRoles, AskRole(c, r) PROVE PrivilegesInv'
<1> DEFINE held == Unaged(dbCache, loadedAt)
           l == Begun({r})
<1>1. HeldTrue(held, overtaken, written, Floors)  BY UnagedHeld DEF PrivilegesInv
<1>2. Hold(held) /\ lookup' = [lookup EXCEPT ![c] = Gather(l, held)] /\ overrides' = overrides /\ setting' = setting /\ written' = written  BY DEF AskRole
<1>3. LookupShape(l, Floors)
  <2>1. {r} \in SUBSET PrivRoles  OBVIOUS
  <2> QED  BY <2>1, BegunShape, FloorsType DEF LookupShape
<1> HIDE DEF held, l
<1>4. HeldTrue(dbCache', overtaken', written, Floors)  BY <1>1, <1>2, CacheHeld
<1>5. LookupTrue(Gather(l, held), written, Floors)
  <2>1. \A x \in l.roles \cap DOMAIN held : x \in overtaken \/ Had(written[x], l.from[x], held[x])  BY <1>1, <1>3, HeldFor
  <2> QED  BY <1>3, <2>1, Gathered
<1> QED  BY <1>2, <1>4, <1>5, LookedUp

LEMMA LookupFacts == ASSUME PrivilegesInv, NEW c \in Lookups PROVE LookupTrue(lookup[c], written, Floors) /\ LookupShape(lookup[c], Floors)
BY DEF PrivilegesInv, LookupTrue

LEMMA BatchReadKept == ASSUME PrivilegesInv, NEW c \in Lookups, BatchRead(c) PROVE PrivilegesInv'
<1> DEFINE l == lookup[c]
           rows == Restrict(overrides, DOMAIN overrides \cap l.missing)
           m == [l EXCEPT !.at = "read", !.rows = rows]
<1>1. lookup' = [lookup EXCEPT ![c] = m] /\ UNCHANGED <<overrides, dbCache, setting, overtaken, written>> /\ l.at = "asked"  BY DEF BatchRead
<1>2. LookupTrue(l, written, Floors) /\ LookupShape(l, Floors)  BY LookupFacts
<1>3. DOMAIN rows \subseteq l.missing /\ \A r \in l.missing : (IF r \in DOMAIN rows THEN rows[r] ELSE NoOverrides) = Stored(r)  BY DEF Restrict, Stored
<1> HIDE DEF l, rows
<1>4. DOMAIN m = DOMAIN NoLookup /\ m.roles = l.roles /\ m.missing = l.missing /\ m.single = l.single /\ m.at = "read" /\ m.from = l.from /\ m.rows = rows
  BY <1>2 DEF LookupShape, NoLookup
<1> HIDE DEF m
<1>5. LookupShape(m, Floors)  BY <1>2, <1>4 DEF LookupShape
<1>6. ASSUME NEW r \in m.missing PROVE Had(written[r], m.from[r], IF r \in DOMAIN m.rows THEN m.rows[r] ELSE NoOverrides)
  <2>1. r \in PrivRoles /\ m.from[r] \in Int /\ m.from[r] <= Floors[r]  BY <1>5, <1>6 DEF LookupShape
  <2>2. (IF r \in DOMAIN m.rows THEN m.rows[r] ELSE NoOverrides) = written[r][Len(written[r])]  BY <1>3, <1>4, <1>6, <2>1, FloorsType
  <2>3. m.from[r] <= Len(written[r])  BY <2>1, FloorsType
  <2> QED  BY <2>1, <2>2, <2>3, FloorsType, HadLast
<1>7. LookupTrue(m, written, Floors)  BY <1>1, <1>2, <1>3, <1>4, <1>5, <1>6 DEF LookupTrue
<1>8. HeldTrue(dbCache', overtaken', written, Floors)  BY <1>1 DEF PrivilegesInv
<1> QED  BY <1>1, <1>7, <1>8, LookedUp

LEMMA BatchStoreKept == ASSUME PrivilegesInv, NEW c \in Lookups, BatchStore(c) PROVE PrivilegesInv'
<1> DEFINE l == lookup[c]
           none == [r \in l.missing \ (DOMAIN l.rows \cup DOMAIN dbCache) |-> NoOverrides]
           rows == Overlaid(l.rows, none)
           held == Overlaid(rows, dbCache)
<1>1. /\ l.at = "read" /\ UNCHANGED <<overrides, setting, written>> /\ lookup' = [lookup EXCEPT ![c] = Gather(l, Unaged(held, l.since))]
      /\ Hold(<<>>) \/ Store(dbCache, rows)
  BY DEF BatchStore
<1>2. LookupTrue(l, written, Floors) /\ LookupShape(l, Floors)  BY LookupFacts
<1>3. DOMAIN l.rows \subseteq l.missing /\ \A r \in l.missing : Had(written[r], l.from[r], IF r \in DOMAIN l.rows THEN l.rows[r] ELSE NoOverrides)
  BY <1>1, <1>2 DEF LookupTrue
<1> HIDE DEF l
<1>4. DOMAIN rows \subseteq l.missing /\ \A r \in DOMAIN rows : rows[r] = IF r \in DOMAIN l.rows THEN l.rows[r] ELSE NoOverrides
  BY <1>3 DEF Overlaid
<1> HIDE DEF rows
<1>5. DOMAIN held = DOMAIN rows \cup DOMAIN dbCache /\ \A r \in DOMAIN held : held[r] = IF r \in DOMAIN rows THEN rows[r] ELSE dbCache[r]
  BY DEF Overlaid
<1> HIDE DEF held
<1>6. HeldTrue(dbCache, overtaken, written, Floors)  BY DEF PrivilegesInv
<1>7. HeldTrue(dbCache', overtaken', written, Floors)
  <2>1. CASE Hold(<<>>)
    <3>1. HeldTrue(<<>>, overtaken, written, Floors)  BY DEF HeldTrue
    <3> QED  BY <2>1, <3>1, CacheHeld
  <2>2. CASE Store(dbCache, rows)
    <3>1. DOMAIN rows \subseteq PrivRoles  BY <1>2, <1>4 DEF LookupShape
    <3> QED  BY <2>2, <3>1, CacheStored
  <2> QED  BY <1>1, <2>1, <2>2
<1>8. \A r \in l.roles \cap DOMAIN held : r \in overtaken \/ Had(written[r], l.from[r], held[r])
  <2> SUFFICES ASSUME NEW r \in l.roles, r \in DOMAIN held, r \notin overtaken PROVE Had(written[r], l.from[r], held[r])  OBVIOUS
  <2>1. CASE r \in DOMAIN rows  BY <1>3, <1>4, <1>5, <2>1
  <2>2. CASE r \notin DOMAIN rows
    <3>1. r \in DOMAIN dbCache /\ held[r] = dbCache[r]  BY <1>5, <2>2
    <3>2. Had(written[r], l.from[r], dbCache[r])  BY <1>2, <1>6, <3>1, HeldFor
    <3> QED  BY <3>1, <3>2
  <2> QED  BY <2>1, <2>2
<1>9. \A r \in l.roles \cap DOMAIN Unaged(held, l.since) : r \in overtaken \/ Had(written[r], l.from[r], Unaged(held, l.since)[r])  BY <1>8 DEF Unaged
<1>10. LookupTrue(Gather(l, Unaged(held, l.since)), written, Floors)  BY <1>2, <1>9, Gathered
<1> QED  BY <1>1, <1>7, <1>10, LookedUp

LEMMA BatchFailsKept == ASSUME PrivilegesInv, NEW c \in Lookups, BatchFails(c) PROVE PrivilegesInv'
<1> DEFINE held == Unaged(dbCache, loadedAt)
           l == lookup[c]
<1>1. HeldTrue(held, overtaken, written, Floors)  BY UnagedHeld DEF PrivilegesInv
<1>2. Hold(held) /\ lookup' = [lookup EXCEPT ![c] = Gather(l, held)] /\ overrides' = overrides /\ setting' = setting /\ written' = written  BY DEF BatchFails
<1>3. LookupShape(l, Floors)  BY LookupFacts
<1> HIDE DEF held, l
<1>4. HeldTrue(dbCache', overtaken', written, Floors)  BY <1>1, <1>2, CacheHeld
<1>5. LookupTrue(Gather(l, held), written, Floors)
  <2>1. \A x \in l.roles \cap DOMAIN held : x \in overtaken \/ Had(written[x], l.from[x], held[x])  BY <1>1, <1>3, HeldFor
  <2> QED  BY <1>3, <2>1, Gathered
<1> QED  BY <1>2, <1>4, <1>5, LookedUp

(* An entry of a map of maps, changed field by field, and whole.           *)
ByFields(F, c, r, a, b) == [F EXCEPT ![c].single[r].at = a, ![c].single[r].row = b]
Whole(F, c, r, a, b) == [F EXCEPT ![c] = [F[c] EXCEPT !.single = [F[c].single EXCEPT ![r] = [F[c].single[r] EXCEPT !.at = a, !.row = b]]]]

LEMMA Twice ==
  ASSUME NEW F, NEW c \in DOMAIN F, NEW r \in DOMAIN F[c].single, DOMAIN F[c].single[r] = {"at", "row", "since"}, "single" \in DOMAIN F[c], NEW a, NEW b
  PROVE  ByFields(F, c, r, a, b) = Whole(F, c, r, a, b)
BY DEF ByFields, Whole

LEMMA SingleReadKept == ASSUME PrivilegesInv, NEW c \in Lookups, NEW r \in PrivRoles, SingleRead(c, r) PROVE PrivilegesInv'
<1> DEFINE l == lookup[c]
           one == [l.single[r] EXCEPT !.at = "read", !.row = Stored(r)]
           m == [l EXCEPT !.single = [l.single EXCEPT ![r] = one]]
<1>1. r \in DOMAIN l.single /\ UNCHANGED <<overrides, dbCache, setting, overtaken, written>>  BY DEF SingleRead
<1>2. LookupTrue(l, written, Floors) /\ LookupShape(l, Floors)  BY LookupFacts
<1>3. l.at = "singles" /\ DOMAIN l = DOMAIN NoLookup /\ DOMAIN l.single[r] = {"at", "row", "since"}  BY <1>1, <1>2 DEF LookupTrue, LookupShape
<1>4. lookup' = [lookup EXCEPT ![c] = m]
  <2>1. c \in DOMAIN lookup  BY DEF PrivilegesInv
  <2>2. "single" \in DOMAIN lookup[c]  BY <1>3 DEF NoLookup
  <2>3. r \in DOMAIN lookup[c].single /\ DOMAIN lookup[c].single[r] = {"at", "row", "since"}  BY <1>1, <1>3
  <2>4. lookup' = [lookup EXCEPT ![c].single[r].at = "read", ![c].single[r].row = Stored(r)]  BY DEF SingleRead
  <2>5. ByFields(lookup, c, r, "read", Stored(r)) = Whole(lookup, c, r, "read", Stored(r))  BY <2>1, <2>2, <2>3, Twice, Zenon
  <2>6. lookup' = ByFields(lookup, c, r, "read", Stored(r))  BY <2>4 DEF ByFields
  <2>7. lookup' = Whole(lookup, c, r, "read", Stored(r))  BY <2>5, <2>6, Zenon
  <2> QED  BY <2>7, Zenon DEF Whole
<1>5. DOMAIN one = {"at", "row", "since"} /\ one.row = Stored(r)  BY <1>3
<1> HIDE DEF l, one
<1>6. /\ DOMAIN m = DOMAIN NoLookup /\ m.roles = l.roles /\ m.missing = l.missing /\ m.at = "singles" /\ m.from = l.from /\ m.got = l.got /\ m.excused = l.excused
      /\ DOMAIN m.single = DOMAIN l.single /\ \A x \in DOMAIN m.single : m.single[x] = IF x = r THEN one ELSE l.single[x]
  BY <1>1, <1>3 DEF NoLookup
<1> HIDE DEF m
<1>7. LookupShape(m, Floors)  BY <1>2, <1>6 DEF LookupShape
<1>8. r \in l.roles  BY <1>1, <1>2, <1>3 DEF LookupTrue
<1>9. Had(written[r], m.from[r], one.row)
  <2>1. m.from[r] \in Int /\ m.from[r] <= Floors[r]  BY <1>6, <1>7, <1>8 DEF LookupShape
  <2>2. one.row = written[r][Len(written[r])] /\ m.from[r] <= Len(written[r])  BY <1>5, <2>1, FloorsType
  <2> QED  BY <2>1, <2>2, FloorsType, HadLast
<1>10. LookupTrue(m, written, Floors)  BY <1>2, <1>3, <1>5, <1>6, <1>7, <1>9 DEF LookupTrue
<1>11. HeldTrue(dbCache', overtaken', written, Floors)  BY <1>1 DEF PrivilegesInv
<1> QED  BY <1>1, <1>4, <1>10, <1>11, LookedUp

(* One more of its roles has its answer. *)
LEMMA AnsweredTrue ==
  ASSUME PrivilegesInv, NEW l, LookupTrue(l, written, Floors), NEW r \in DOMAIN l.single, NEW row, NEW m, DOMAIN m = DOMAIN NoLookup,
         m.roles = l.roles, m.missing = l.missing, m.from = l.from, m.at = Answered(l, r, row).at, m.got = Answered(l, r, row).got, m.single = Answered(l, r, row).single,
         l.excused \subseteq m.excused, r \in m.excused \/ Had(written[r], l.from[r], row)
  PROVE  LookupTrue(m, written, Floors)
<1> DEFINE still == DOMAIN l.single \ {r}
<1>1. l.at = "singles" /\ DOMAIN l = DOMAIN NoLookup /\ LookupShape(l, Floors)  BY DEF LookupTrue, LookupShape
<1>2. /\ m.at = IF still = {} THEN "done" ELSE "singles"
      /\ DOMAIN m.single = still /\ \A x \in still : m.single[x] = l.single[x]
      /\ DOMAIN m.got = DOMAIN l.got \cup {r} /\ \A x \in DOMAIN m.got : m.got[x] = IF x = r THEN row ELSE l.got[x]
  BY <1>1 DEF Answered, NoLookup, Restrict, Overlaid, Single
<1>3. LookupShape(m, Floors)  BY <1>1 DEF LookupShape
<1>4. m.roles = DOMAIN m.got \cup DOMAIN m.single  BY <1>1, <1>2 DEF LookupTrue
<1>5. ASSUME NEW x \in DOMAIN m.got \ m.excused PROVE Had(written[x], m.from[x], m.got[x])
  <2>1. CASE x = r  BY <1>2, <1>5, <2>1
  <2>2. CASE x # r  BY <1>1, <1>2, <1>5, <2>2 DEF LookupTrue
  <2> QED  BY <2>1, <2>2
<1>6. ASSUME NEW x \in DOMAIN m.single
      PROVE  DOMAIN m.single[x] = {"at", "row", "since"} /\ (m.single[x].at = "read" => Had(written[x], m.from[x], m.single[x].row))
  BY <1>1, <1>2, <1>6 DEF LookupTrue
<1> QED  BY <1>2, <1>3, <1>4, <1>5, <1>6 DEF LookupTrue

LEMMA SingleStoreKept == ASSUME PrivilegesInv, NEW c \in Lookups, NEW r \in PrivRoles, SingleStore(c, r) PROVE PrivilegesInv'
<1> DEFINE l == lookup[c]
           row == l.single[r].row
           m == Answered(l, r, row)
<1>1. r \in DOMAIN l.single /\ UNCHANGED <<overrides, setting, written>> /\ l.single[r].at = "read" /\ Store(dbCache, Single(r, row)) /\ lookup' = [lookup EXCEPT ![c] = m]
  BY DEF SingleStore
<1>2. LookupTrue(l, written, Floors) /\ LookupShape(l, Floors)  BY LookupFacts
<1> HIDE DEF l
<1>3. Had(written[r], l.from[r], row) /\ DOMAIN l = DOMAIN NoLookup  BY <1>1, <1>2 DEF LookupTrue, LookupShape
<1> HIDE DEF row
<1>4. DOMAIN m = DOMAIN NoLookup /\ m.roles = l.roles /\ m.missing = l.missing /\ m.from = l.from /\ m.excused = l.excused  BY <1>3 DEF Answered, NoLookup
<1> HIDE DEF m
<1>5. LookupTrue(m, written, Floors)
  <2>1. m = Answered(l, r, row)  BY DEF m
  <2>2. m.at = Answered(l, r, row).at /\ m.got = Answered(l, r, row).got /\ m.single = Answered(l, r, row).single  BY <2>1
  <2>3. l.excused \subseteq m.excused  BY <1>4
  <2> QED  BY <1>1, <1>2, <1>3, <1>4, <2>2, <2>3, AnsweredTrue
<1>6. DOMAIN Single(r, row) \subseteq PrivRoles  BY DEF Single
<1>7. HeldTrue(dbCache', overtaken', written, Floors)  BY <1>1, <1>6, CacheStored
<1> QED  BY <1>1, <1>5, <1>7, LookedUp

LEMMA SingleFailsKept == ASSUME PrivilegesInv, NEW c \in Lookups, NEW r \in PrivRoles, SingleFails(c, r) PROVE PrivilegesInv'
<1> DEFINE l == lookup[c]
           a == Answered(l, r, NoOverrides)
           m == [a EXCEPT !.excused = @ \cup {r}]
<1>1. r \in DOMAIN l.single /\ UNCHANGED <<overrides, dbCache, setting, overtaken, written>> /\ lookup' = [lookup EXCEPT ![c] = m]
  BY Zenon DEF SingleFails
<1>2. LookupTrue(l, written, Floors) /\ LookupShape(l, Floors)  BY LookupFacts
<1> HIDE DEF l
<1>3. DOMAIN a = DOMAIN NoLookup /\ a.roles = l.roles /\ a.missing = l.missing /\ a.from = l.from /\ a.excused = l.excused
  BY <1>2 DEF Answered, NoLookup, LookupShape
<1> HIDE DEF a
<1>4. /\ DOMAIN m = DOMAIN NoLookup /\ m.roles = l.roles /\ m.missing = l.missing /\ m.from = l.from /\ m.excused = l.excused \cup {r}
      /\ m.at = a.at /\ m.got = a.got /\ m.single = a.single
  BY <1>3 DEF NoLookup
<1> HIDE DEF m
<1>5. LookupTrue(m, written, Floors)
  <2>1. a = Answered(l, r, NoOverrides)  BY DEF a
  <2>2. m.at = Answered(l, r, NoOverrides).at /\ m.got = Answered(l, r, NoOverrides).got /\ m.single = Answered(l, r, NoOverrides).single  BY <1>4, <2>1
  <2>3. l.excused \subseteq m.excused /\ r \in m.excused  BY <1>4
  <2> QED  BY <1>1, <1>2, <1>4, <2>2, <2>3, AnsweredTrue
<1>6. HeldTrue(dbCache', overtaken', written, Floors)  BY <1>1 DEF PrivilegesInv
<1> QED  BY <1>1, <1>5, <1>6, LookedUp

LEMMA ToldKept == ASSUME PrivilegesInv, NEW c \in Lookups, Told(c) PROVE PrivilegesInv'
<1>1. UNCHANGED <<overrides, dbCache, setting, overtaken, written>> /\ lookup' = [lookup EXCEPT ![c] = NoLookup]  BY DEF Told
<1>2. LookupTrue(NoLookup, written, Floors)
  <2>1. NoLookup.at = "idle" /\ DOMAIN NoLookup.single = {} /\ NoLookup.roles = {} /\ NoLookup.missing = {}  BY DEF NoLookup
  <2>2. LookupShape(NoLookup, Floors)  BY <2>1 DEF LookupShape
  <2> QED  BY <2>1, <2>2 DEF LookupTrue
<1>3. HeldTrue(dbCache', overtaken', written, Floors)  BY <1>1 DEF PrivilegesInv
<1> QED  BY <1>1, <1>2, <1>3, LookedUp

(* Settings: what was had stays so, and the oldest of what may still be    *)
(* cached is never an older one.                                           *)
LEMMA LookupLasts ==
  ASSUME NEW w, NEW x, NEW floor, NEW upper, \A r \in PrivRoles : floor[r] \in Int /\ upper[r] \in Int /\ floor[r] <= upper[r],
         \A r \in PrivRoles : \A f \in Nat \ {0} : \A v : Had(w[r], f, v) => Had(x[r], f, v),
         NEW l, LookupTrue(l, w, floor)
  PROVE  LookupTrue(l, x, upper)
<1>1. LookupShape(l, floor)  BY DEF LookupTrue
<1>2. LookupShape(l, upper)
  <2>1. \A r \in l.roles : r \in PrivRoles /\ l.from[r] \in Int /\ 1 <= l.from[r] /\ l.from[r] <= upper[r]
    <3> SUFFICES ASSUME NEW r \in l.roles PROVE r \in PrivRoles /\ l.from[r] \in Int /\ 1 <= l.from[r] /\ l.from[r] <= upper[r]  OBVIOUS
    <3>1. r \in PrivRoles /\ l.from[r] \in Int /\ 1 <= l.from[r] /\ l.from[r] <= floor[r]  BY <1>1 DEF LookupShape
    <3> QED  BY <3>1
  <2> QED  BY <1>1, <2>1 DEF LookupShape
<1>3. \A r \in l.roles : \A v : Had(w[r], l.from[r], v) => Had(x[r], l.from[r], v)  BY <1>1 DEF LookupShape
<1>4. l.missing \subseteq l.roles  BY <1>1 DEF LookupShape
<1> QED  BY <1>2, <1>3, <1>4 DEF LookupTrue

LEMMA Set ==
  ASSUME PrivilegesInv, lookup' = lookup, SettingsSound', WrittenSound', HeldTrue(dbCache, overtaken, written, Floors)', \A r \in PrivRoles : Floor(r)' >= Floor(r),
         \A r \in PrivRoles : \A f \in Nat \ {0} : \A v : Had(written[r], f, v) => Had(written'[r], f, v)
  PROVE  PrivilegesInv'
<1>1. \A r \in PrivRoles : Floors[r] \in Int /\ Floors'[r] \in Int /\ Floors[r] <= Floors'[r]
  <2> SUFFICES ASSUME NEW r \in PrivRoles PROVE Floors[r] \in Int /\ Floors'[r] \in Int /\ Floors[r] <= Floors'[r]  OBVIOUS
  <2>1. Floors[r] = Floor(r) /\ Floors[r] \in Int  BY FloorsType
  <2>2. Floors'[r] = Floor(r)'  BY DEF Floors
  <2>3. Len(written'[r]) \in Nat  BY Appended DEF WrittenSound
  <2>4. Cardinality(Dropping(r)') \in Nat
    <3>1. Dropping(r)' \subseteq Settings  BY DEF Dropping
    <3>2. IsFiniteSet(Dropping(r)')  BY <3>1, PrivilegesAssumption, FS_Subset
    <3> QED  BY <3>2, FS_CardinalityType
  <2>5. Floor(r)' \in Int  BY <2>3, <2>4 DEF Floor
  <2> QED  BY <2>1, <2>2, <2>5
<1>2. ASSUME NEW c \in Lookups PROVE LookupTrue(lookup[c], written', Floors')
  <2>1. LookupTrue(lookup[c], written, Floors)  BY DEF PrivilegesInv
  <2> QED  BY <1>1, <2>1, LookupLasts
<1>3. DOMAIN lookup' = Lookups  BY DEF PrivilegesInv
<1> QED  BY <1>2, <1>3 DEF PrivilegesInv

LEMMA SetOverrideKept ==
  ASSUME PrivilegesInv, NEW s \in Settings, NEW r \in PrivRoles, NEW field, NEW value, SetOverride(s, r, field, value)
  PROVE  PrivilegesInv'
<1> DEFINE x == [at |-> "set", role |-> r, field |-> field, value |-> value, exists |-> r \in DOMAIN overrides]
<1>1. setting[s].at = "idle" /\ setting' = [setting EXCEPT ![s] = x] /\ UNCHANGED <<overrides, dbCache, lookup, overtaken, written>>  BY DEF SetOverride
<1>2. DOMAIN x = DOMAIN NoSetting /\ x.role = r /\ x.at = "set"  BY DEF NoSetting
<1> HIDE DEF x
<1>3. SettingsSound  BY DEF PrivilegesInv
<1>4. SettingsSound'  BY <1>1, <1>2, <1>3 DEF SettingsSound
<1>5. \A k : Dropping(k)' = Dropping(k)  BY <1>1, <1>2, <1>3 DEF Dropping, SettingsSound
<1>6. Floors' = Floors /\ \A k \in PrivRoles : Floor(k)' = Floor(k)  BY <1>1, <1>5 DEF Floors, Floor
<1>7. WrittenSound'  BY <1>1, <1>6 DEF PrivilegesInv, WrittenSound, Stored
<1>8. HeldTrue(dbCache, overtaken, written, Floors)'  BY <1>1, <1>6 DEF PrivilegesInv
<1>9. \A k \in PrivRoles : Floor(k)' >= Floor(k)  BY <1>6, FloorsType
<1> QED  BY <1>1, <1>4, <1>7, <1>8, <1>9, Set

(* A row is written, and its role is to be dropped from the cache.         *)
LEMMA WrittenKept ==
  ASSUME PrivilegesInv, NEW s \in Settings, setting[s].at # "drop", NEW r \in PrivRoles, NEW after, Writes(r, after),
         \A k \in PrivRoles \ {r} : (k \in DOMAIN after <=> k \in DOMAIN overrides) /\ (k \in DOMAIN overrides => after[k] = overrides[k]),
         NEW x, DOMAIN x = DOMAIN NoSetting, x.at = "drop", x.role = r, setting' = [setting EXCEPT ![s] = x], UNCHANGED <<dbCache, lookup, overtaken>>
  PROVE  PrivilegesInv'
<1> DEFINE v == IF r \in DOMAIN after THEN after[r] ELSE NoOverrides
<1>1. overrides' = after /\ written' = [written EXCEPT ![r] = Append(@, v)]  BY DEF Writes
<1>2. SettingsSound /\ DOMAIN written = PrivRoles /\ \A k \in PrivRoles : IsSeq(written[k])  BY DEF PrivilegesInv, WrittenSound
<1>3. SettingsSound'  BY <1>2 DEF SettingsSound
<1>4. Stored(r)' = v /\ \A k \in PrivRoles \ {r} : Stored(k)' = Stored(k)  BY <1>1 DEF Stored
<1> HIDE DEF v
<1>5. written'[r] = Append(written[r], v) /\ DOMAIN written' = PrivRoles /\ \A k \in PrivRoles \ {r} : written'[k] = written[k]  BY <1>1, <1>2
<1>6. Dropping(r)' = Dropping(r) \cup {s} /\ s \notin Dropping(r) /\ \A k \in PrivRoles \ {r} : Dropping(k)' = Dropping(k)
  BY <1>2 DEF Dropping, SettingsSound
<1>7. Cardinality(Dropping(r)') = Cardinality(Dropping(r)) + 1  
  <2>1. IsFiniteSet(Dropping(r))  BY DroppingFinite
  <2>2. PICK D : D = Dropping(r)  OBVIOUS
  <2>3. Cardinality(D \cup {s}) = Cardinality(D) + 1  BY <1>6, <2>1, <2>2, FS_AddElement
  <2> QED  BY <1>6, <2>2, <2>3, Zenon
<1>8. /\ IsSeq(written'[r]) /\ Len(written[r]) \in Nat /\ Len(written'[r]) = Len(written[r]) + 1 /\ written'[r][Len(written[r]) + 1] = v
      /\ \A i \in 1 .. Len(written[r]) : written'[r][i] = written[r][i]
  BY <1>2, <1>5, Appended
<1>9. \A k \in PrivRoles : Floor(k)' = Floor(k)
  <2>0. Cardinality(Dropping(r)) \in Nat  BY DroppingFinite
  <2>1. Floor(r)' = Floor(r)  BY <1>7, <1>8, <2>0 DEF Floor
  <2>2. \A k \in PrivRoles \ {r} : Floor(k)' = Floor(k)  BY <1>5, <1>6 DEF Floor
  <2> QED  BY <2>1, <2>2
<1>10. Floors' = Floors  BY <1>9 DEF Floors
<1>11. WrittenSound'
  <2>1. \A k \in PrivRoles : Floor(k) >= 1 /\ written[k][Len(written[k])] = Stored(k)  BY DEF PrivilegesInv, WrittenSound
  <2>2. ASSUME NEW k \in PrivRoles PROVE IsSeq(written'[k]) /\ Floor(k)' >= 1 /\ written'[k][Len(written'[k])] = Stored(k)'
    <3>1. CASE k = r  BY <1>4, <1>8, <1>9, <2>1, <3>1
    <3>2. CASE k # r  BY <1>2, <1>4, <1>5, <1>9, <2>1, <3>2
    <3> QED  BY <3>1, <3>2
  <2> QED  BY <1>5, <2>2 DEF WrittenSound
<1>12. ASSUME NEW k \in PrivRoles, NEW f \in Nat \ {0}, NEW u, Had(written[k], f, u) PROVE Had(written'[k], f, u)
  <2>1. CASE k = r
    <3>1. PICK i \in f .. Len(written[r]) : u = written[r][i]  BY <1>12, <2>1 DEF Had
    <3>2. i \in f .. Len(written'[r]) /\ u = written'[r][i]  BY <1>8, <1>12, <3>1
    <3> QED  BY <2>1, <3>2 DEF Had
  <2>2. CASE k # r  BY <1>5, <1>12, <2>2
  <2> QED  BY <2>1, <2>2
<1>13. HeldTrue(dbCache, overtaken, written, Floors)'
  <2>1. HeldTrue(dbCache, overtaken, written, Floors)  BY DEF PrivilegesInv
  <2>2. ASSUME NEW k \in DOMAIN dbCache, k \notin overtaken PROVE Had(written'[k], Floors[k], dbCache[k])
    <3>1. k \in PrivRoles /\ Had(written[k], Floors[k], dbCache[k])  BY <2>1, <2>2 DEF HeldTrue
    <3>2. Floors[k] \in Nat \ {0}  BY <3>1, FloorsType
    <3> QED  BY <1>12, <3>1, <3>2
  <2> QED  BY <1>10, <2>1, <2>2 DEF HeldTrue
<1>14. \A k \in PrivRoles : Floor(k)' >= Floor(k)  BY <1>9, FloorsType
<1> QED  BY <1>3, <1>11, <1>12, <1>13, <1>14, Set

LEMMA SetWriteKept == ASSUME PrivilegesInv, NEW s \in Settings, SetWrite(s) PROVE PrivilegesInv'
<1> DEFINE x == setting[s]
           there == x.role \in DOMAIN overrides
           after == IF there THEN [overrides EXCEPT ![x.role][x.field] = x.value]
                    ELSE IF x.exists THEN overrides
                    ELSE Overlaid(Single(x.role, [NoOverrides EXCEPT ![x.field] = x.value]), overrides)
<1>1. x.at = "set" /\ UNCHANGED <<dbCache, lookup, overtaken>>  BY DEF SetWrite
<1>2. DOMAIN x = DOMAIN NoSetting /\ x.role \in PrivRoles /\ DOMAIN setting = Settings  BY <1>1 DEF PrivilegesInv, SettingsSound
<1>3. CASE there /\ ~x.exists
  <2>1. setting' = [setting EXCEPT ![s] = NoSetting] /\ overrides' = overrides /\ written' = written  BY <1>3 DEF SetWrite
  <2>2. SettingsSound'  BY <2>1 DEF PrivilegesInv, SettingsSound, NoSetting
  <2>3. \A k : Dropping(k)' = Dropping(k)  BY <1>1, <1>2, <2>1 DEF Dropping, NoSetting
  <2>4. Floors' = Floors /\ \A k \in PrivRoles : Floor(k)' = Floor(k)  BY <2>1, <2>3 DEF Floors, Floor
  <2>5. WrittenSound'  BY <2>1, <2>4 DEF PrivilegesInv, WrittenSound, Stored
  <2>6. HeldTrue(dbCache, overtaken, written, Floors)'  BY <1>1, <2>1, <2>4 DEF PrivilegesInv
  <2>7. \A k \in PrivRoles : Floor(k)' >= Floor(k)  BY <2>4, FloorsType
  <2> QED  BY <1>1, <2>1, <2>2, <2>5, <2>6, <2>7, Set
<1>4. CASE ~(there /\ ~x.exists)
  <2> DEFINE y == [x EXCEPT !.at = "drop"]
  <2>1. Writes(x.role, after)  BY <1>4, Zenon DEF SetWrite
  <2>2. setting' = [setting EXCEPT ![s] = y]  BY <1>4 DEF SetWrite
  <2>3. DOMAIN y = DOMAIN NoSetting /\ y.at = "drop" /\ y.role = x.role  BY <1>2 DEF NoSetting
  <2>4. \A k \in PrivRoles \ {x.role} : (k \in DOMAIN after <=> k \in DOMAIN overrides) /\ (k \in DOMAIN overrides => after[k] = overrides[k])
    <3> HIDE DEF x
    <3>1. CASE there
      <4>1. DOMAIN after = DOMAIN overrides /\ \A k \in DOMAIN overrides : k # x.role => after[k] = overrides[k]  BY <3>1
      <4> QED  BY <4>1
    <3>2. CASE ~there /\ x.exists  BY <3>2
    <3>3. CASE ~there /\ ~x.exists
      <4>1. after = Overlaid(Single(x.role, [NoOverrides EXCEPT ![x.field] = x.value]), overrides)  BY <3>3
      <4> HIDE DEF after
      <4> QED  BY <4>1 DEF Overlaid, Single
    <3> QED  BY <3>1, <3>2, <3>3
  <2> HIDE DEF x, y, after
  <2>5. setting[s].at # "drop"  BY <1>1 DEF x
  <2> QED  BY <1>1, <1>2, <2>1, <2>2, <2>3, <2>4, <2>5, WrittenKept
<1> QED  BY <1>3, <1>4

LEMMA ResetKept == ASSUME PrivilegesInv, NEW s \in Settings, NEW r \in PrivRoles, Reset(s, r) PROVE PrivilegesInv'
<1> DEFINE x == [NoSetting EXCEPT !.at = "drop", !.role = r]
           after == Restrict(overrides, DOMAIN overrides \ {r})
<1>1. setting[s].at = "idle" /\ Writes(r, after) /\ setting' = [setting EXCEPT ![s] = x] /\ UNCHANGED <<dbCache, lookup, overtaken>>  BY DEF Reset
<1>2. DOMAIN x = DOMAIN NoSetting /\ x.at = "drop" /\ x.role = r  BY DEF NoSetting
<1>3. \A k \in PrivRoles \ {r} : (k \in DOMAIN after <=> k \in DOMAIN overrides) /\ (k \in DOMAIN overrides => after[k] = overrides[k])  BY DEF Restrict
<1>4. setting[s].at # "drop"  BY <1>1
<1> HIDE DEF x, after
<1> QED  BY <1>1, <1>2, <1>3, <1>4, WrittenKept

LEMMA SetDoneKept == ASSUME PrivilegesInv, NEW s \in Settings, SetDone(s) PROVE PrivilegesInv'
<1>0. PICK r : r = setting[s].role  OBVIOUS
<1> DEFINE held == Restrict(dbCache, DOMAIN dbCache \ {r})
<1>1. setting[s].at = "drop" /\ Hold(held) /\ setting' = [setting EXCEPT ![s] = NoSetting] /\ UNCHANGED <<overrides, lookup, written>>
  BY <1>0 DEF SetDone, Drop
<1>2. r \in PrivRoles /\ DOMAIN setting = Settings  BY <1>0, <1>1 DEF PrivilegesInv, SettingsSound
<1>3. SettingsSound'  BY <1>1 DEF PrivilegesInv, SettingsSound, NoSetting
<1>4. Dropping(r)' = Dropping(r) \ {s} /\ s \in Dropping(r) /\ \A k \in PrivRoles \ {r} : Dropping(k)' = Dropping(k)
  BY <1>0, <1>1, <1>2 DEF Dropping, NoSetting
<1>5. Cardinality(Dropping(r)') = Cardinality(Dropping(r)) - 1  BY <1>4, DroppingFinite, FS_RemoveElement
<1>6. Floor(r)' = Floor(r) + 1 /\ \A k \in PrivRoles \ {r} : Floor(k)' = Floor(k)
  <2>1. Cardinality(Dropping(r)) \in Nat /\ Len(written[r]) \in Nat  BY <1>2, DroppingFinite, FloorsType
  <2> QED  BY <1>1, <1>4, <1>5, <2>1 DEF Floor
<1>7. \A k \in PrivRoles : Floor(k)' >= Floor(k) /\ Floor(k)' >= 1
  <2>1. \A k \in PrivRoles : Floor(k) \in Int /\ Floor(k) >= 1  BY FloorsType
  <2> QED  BY <1>2, <1>6, <2>1
<1>8. WrittenSound'  BY <1>1, <1>7 DEF PrivilegesInv, WrittenSound, Stored
<1>9. HeldTrue(dbCache, overtaken, written, Floors)'
  <2>1. HeldTrue(dbCache, overtaken, written, Floors)  BY DEF PrivilegesInv
  <2>2. DOMAIN dbCache' = DOMAIN dbCache \ {r} /\ \A k \in DOMAIN dbCache' : dbCache'[k] = dbCache[k] /\ (k \in overtaken => k \in overtaken')
    BY <1>1 DEF Hold, Restrict
  <2>3. \A k \in PrivRoles \ {r} : Floors'[k] = Floors[k]  BY <1>6 DEF Floors
  <2> QED  BY <1>1, <2>1, <2>2, <2>3 DEF HeldTrue
<1> QED  BY <1>1, <1>3, <1>7, <1>8, <1>9, Set

LEMMA PrivilegesStep == ASSUME PrivilegesInv, PrivilegesNext \/ UNCHANGED privilegeVars PROVE PrivilegesInv'
<1>1. ASSUME NEW c \in Lookups, NEW roles \in SUBSET PrivRoles, AskProfile(c, roles) PROVE PrivilegesInv'  BY <1>1, AskProfileKept
<1>2. ASSUME NEW c \in Lookups, BatchRead(c) \/ BatchStore(c) \/ BatchFails(c) \/ Told(c) PROVE PrivilegesInv'
  BY <1>2, BatchReadKept, BatchStoreKept, BatchFailsKept, ToldKept
<1>3. ASSUME NEW c \in Lookups, NEW r \in PrivRoles, AskRole(c, r) \/ SingleRead(c, r) \/ SingleStore(c, r) \/ SingleFails(c, r) PROVE PrivilegesInv'
  BY <1>3, AskRoleKept, SingleReadKept, SingleStoreKept, SingleFailsKept
<1>4. ASSUME NEW s \in Settings, NEW r \in PrivRoles, NEW field, NEW value, SetOverride(s, r, field, value) PROVE PrivilegesInv'  BY <1>4, SetOverrideKept
<1>5. ASSUME NEW s \in Settings, SetWrite(s) \/ SetDone(s) \/ \E r \in PrivRoles : Reset(s, r) PROVE PrivilegesInv'  BY <1>5, SetWriteKept, SetDoneKept, ResetKept
<1>6. CASE UNCHANGED privilegeVars
  <2>1. UNCHANGED <<overrides, dbCache, lookup, setting, overtaken, written>>  BY <1>6 DEF privilegeVars
  <2>2. Floors' = Floors /\ SettingsSound' /\ WrittenSound'  BY <2>1 DEF Floors, Floor, Dropping, PrivilegesInv, SettingsSound, WrittenSound, Stored
  <2> QED  BY <2>1, <2>2 DEF PrivilegesInv
<1> QED  BY <1>1, <1>2, <1>3, <1>4, <1>5, <1>6, Zenon DEF PrivilegesNext

LEMMA PrivilegesFollow == ASSUME PrivilegesInv PROVE PrivilegesTrue
<1>1. ASSUME NEW r \in DOMAIN dbCache PROVE dbCache[r] = Stored(r) \/ r \in overtaken \/ Dropping(r) # {}
  <2> SUFFICES ASSUME r \notin overtaken, Dropping(r) = {} PROVE dbCache[r] = Stored(r)  OBVIOUS
  <2>1. r \in PrivRoles /\ Had(written[r], Floors[r], dbCache[r])  BY DEF PrivilegesInv, HeldTrue
  <2>2. Floors[r] = Len(written[r])
    <3>1. Cardinality(Dropping(r)) = 0  BY FS_EmptySet
    <3>2. Floors[r] = Floor(r) /\ Len(written[r]) \in Nat  BY <2>1, FloorsType
    <3>3. Floor(r) = Len(written[r]) - 0  BY <3>1, Zenon DEF Floor
    <3> QED  BY <3>2, <3>3
  <2>3. PICK i \in Floors[r] .. Len(written[r]) : dbCache[r] = written[r][i]  BY <2>1 DEF Had
  <2>4. i = Len(written[r])  BY <2>1, <2>2, <2>3, FloorsType
  <2> QED  BY <2>1, <2>3, <2>4, FloorsType
<1>2. ASSUME NEW c \in Lookups, lookup[c].at = "done", NEW r \in lookup[c].roles \ lookup[c].excused
      PROVE  \E i \in lookup[c].from[r] .. Len(written[r]) : lookup[c].got[r] = written[r][i]
  <2>1. LookupTrue(lookup[c], written, Floors)  BY LookupFacts
  <2>2. r \in DOMAIN lookup[c].got  BY <1>2, <2>1 DEF LookupTrue
  <2>3. Had(written[r], lookup[c].from[r], lookup[c].got[r])  BY <1>2, <2>1, <2>2 DEF LookupTrue
  <2> QED  BY <2>3 DEF Had
<1> QED  BY <1>1, <1>2 DEF PrivilegesTrue

(* PrivilegesTrue, for any roles, lookups, settings and age of the cache:  *)
(* what is cached of a role, what is read of it and what is answered is a  *)
(* value that it had no earlier than the settings that are still to drop   *)
(* it (AuthService.ts:402-571).                                            *)
THEOREM PrivilegesStayTrue == Spec => []PrivilegesTrue
<1>1. Init => PrivilegesInv  BY FreshPrivileges
<1>2. PrivilegesInv /\ [Next]_vars => PrivilegesInv'
  <2> SUFFICES ASSUME PrivilegesInv, [Next]_vars PROVE PrivilegesInv'  OBVIOUS
  <2>1. PrivilegesNext \/ UNCHANGED privilegeVars
    <3>1. CASE Next  BY <3>1, Zenon DEF Next
    <3>2. CASE UNCHANGED vars  BY <3>2 DEF vars
    <3> QED  BY <3>1, <3>2
  <2> QED  BY <2>1, PrivilegesStep
<1>3. PrivilegesInv => PrivilegesTrue  BY PrivilegesFollow
<1> QED  BY <1>1, <1>2, <1>3, PTL DEF Spec
-----------------------------------------------------------------------------
(* Summaries.  What a sequence of ids says of the order they were sent in. *)
In(q, x) == \E i \in 1 .. Len(q) : q[i] = x
Before(q, x, y) == \E i, j \in 1 .. Len(q) : i <= j /\ q[i] = x /\ q[j] = y
Once(q) == q \in Seq(Nat) /\ IsInjective(q)

LEMMA Ordered ==
  ASSUME NEW q, Once(q)
  PROVE  /\ \A x, y : Before(q, x, y) => In(q, x) /\ In(q, y)
         /\ \A x : In(q, x) => Before(q, x, x) /\ x \in Nat
         /\ \A x, y : In(q, x) /\ In(q, y) => Before(q, x, y) \/ Before(q, y, x)
         /\ \A x, y : Before(q, x, y) /\ Before(q, y, x) => x = y
         /\ \A x, y, z : Before(q, x, y) /\ Before(q, y, z) => Before(q, x, z)
<1>1. Len(q) \in Nat /\ DOMAIN q = 1 .. Len(q) /\ \A i \in 1 .. Len(q) : q[i] \in Nat  BY DEF Once
<1>2. \A i, j \in 1 .. Len(q) : q[i] = q[j] => i = j  BY <1>1 DEF Once, IsInjective
<1>3. \A x, y : Before(q, x, y) => In(q, x) /\ In(q, y)  BY DEF Before, In
<1>4. \A x : In(q, x) => Before(q, x, x) /\ x \in Nat  BY <1>1 DEF Before, In
<1>5. \A x, y : In(q, x) /\ In(q, y) => Before(q, x, y) \/ Before(q, y, x)  BY <1>1 DEF Before, In
<1>6. \A x, y : Before(q, x, y) /\ Before(q, y, x) => x = y
  <2> SUFFICES ASSUME NEW x, NEW y, Before(q, x, y), Before(q, y, x) PROVE x = y  OBVIOUS
  <2>1. PICK i \in 1 .. Len(q), j \in 1 .. Len(q) : i <= j /\ q[i] = x /\ q[j] = y  BY DEF Before
  <2>2. PICK k \in 1 .. Len(q), l \in 1 .. Len(q) : k <= l /\ q[k] = y /\ q[l] = x  BY DEF Before
  <2>3. i = l /\ j = k  BY <1>2, <2>1, <2>2
  <2> QED  BY <2>1, <2>2, <2>3
<1>7. \A x, y, z : Before(q, x, y) /\ Before(q, y, z) => Before(q, x, z)
  <2> SUFFICES ASSUME NEW x, NEW y, NEW z, Before(q, x, y), Before(q, y, z) PROVE Before(q, x, z)  OBVIOUS
  <2>1. PICK i \in 1 .. Len(q), j \in 1 .. Len(q) : i <= j /\ q[i] = x /\ q[j] = y  BY DEF Before
  <2>2. PICK k \in 1 .. Len(q), l \in 1 .. Len(q) : k <= l /\ q[k] = y /\ q[l] = z  BY DEF Before
  <2>3. j = k  BY <1>2, <2>1, <2>2
  <2>4. i <= l  BY <2>1, <2>2, <2>3
  <2> QED  BY <2>1, <2>2, <2>4 DEF Before
<1> QED  BY <1>3, <1>4, <1>5, <1>6, <1>7

(* One more message, wherever it was put.                                  *)
Joins(q, r, e) ==
  /\ \A x : In(r, x) <=> In(q, x) \/ x = e
  /\ \A x, y : Before(q, x, y) => Before(r, x, y)

LEMMA Joining ==
  ASSUME NEW q, Once(q), NEW k \in 0 .. Len(q), NEW e \in Nat, ~In(q, e), NEW r \in Seq(Nat), Len(r) = Len(q) + 1,
         \A i \in 1 .. Len(q) + 1 : r[i] = IF i <= k THEN q[i] ELSE IF i = k + 1 THEN e ELSE q[i - 1]
  PROVE  Once(r) /\ Joins(q, r, e)
<1>1. Len(q) \in Nat /\ DOMAIN q = 1 .. Len(q) /\ DOMAIN r = 1 .. Len(r)  BY DEF Once
<1> DEFINE old(i) == IF i <= k THEN i ELSE i + 1
<1>2. \A i \in 1 .. Len(q) : old(i) \in 1 .. Len(r) /\ r[old(i)] = q[i]  BY <1>1
<1>3. \A i \in 1 .. Len(r) : i = k + 1 \/ \E j \in 1 .. Len(q) : i = old(j)
  <2> SUFFICES ASSUME NEW i \in 1 .. Len(r), i # k + 1 PROVE \E j \in 1 .. Len(q) : i = old(j)  OBVIOUS
  <2>1. CASE i <= k  BY <1>1, <2>1
  <2>2. CASE i > k
    <3>1. i - 1 \in 1 .. Len(q) /\ i = old(i - 1)  BY <1>1, <2>2
    <3> QED  BY <3>1
  <2> QED  BY <2>1, <2>2
<1>4. \A i, j \in 1 .. Len(q) : i <= j => old(i) <= old(j)  BY <1>1
<1>5. r[k + 1] = e /\ k + 1 \in 1 .. Len(r)  BY <1>1
<1> HIDE DEF old
<1>6. \A x : In(r, x) <=> In(q, x) \/ x = e
  <2>1. ASSUME NEW x, In(r, x) PROVE In(q, x) \/ x = e
    <3>1. PICK i \in 1 .. Len(r) : r[i] = x  BY <2>1 DEF In
    <3> QED  BY <1>2, <1>3, <1>5, <3>1 DEF In
  <2>2. ASSUME NEW x, In(q, x) PROVE In(r, x)  BY <1>2, <2>2 DEF In
  <2>3. In(r, e)  BY <1>5 DEF In
  <2> QED  BY <2>1, <2>2, <2>3
<1>7. \A x, y : Before(q, x, y) => Before(r, x, y)
  <2> SUFFICES ASSUME NEW x, NEW y, Before(q, x, y) PROVE Before(r, x, y)  OBVIOUS
  <2>1. PICK i \in 1 .. Len(q), j \in 1 .. Len(q) : i <= j /\ q[i] = x /\ q[j] = y  BY DEF Before
  <2>2. old(i) <= old(j) /\ r[old(i)] = x /\ r[old(j)] = y /\ old(i) \in 1 .. Len(r) /\ old(j) \in 1 .. Len(r)  BY <1>2, <1>4, <2>1
  <2> QED  BY <2>2 DEF Before
<1>8. IsInjective(r)
  <2> SUFFICES ASSUME NEW a \in 1 .. Len(r), NEW b \in 1 .. Len(r), r[a] = r[b] PROVE a = b  BY <1>1 DEF IsInjective
  <2>1. \A i, j \in 1 .. Len(q) : q[i] = q[j] => i = j  BY <1>1 DEF Once, IsInjective
  <2>2. \A i \in 1 .. Len(q) : q[i] # e  BY DEF In
  <2>5. \A i \in 1 .. Len(r) : i # k + 1 => r[i] # e
    <3> SUFFICES ASSUME NEW i \in 1 .. Len(r), i # k + 1 PROVE r[i] # e  OBVIOUS
    <3>1. PICK j \in 1 .. Len(q) : i = old(j)  BY <1>3
    <3> QED  BY <1>2, <2>2, <3>1
  <2>3. CASE a = k + 1 \/ b = k + 1  BY <1>5, <2>3, <2>5
  <2>4. CASE a # k + 1 /\ b # k + 1
    <3>1. PICK i \in 1 .. Len(q) : a = old(i)  BY <1>3, <2>4
    <3>2. PICK j \in 1 .. Len(q) : b = old(j)  BY <1>3, <2>4
    <3>3. q[i] = q[j]  BY <1>2, <3>1, <3>2
    <3> QED  BY <2>1, <3>1, <3>2, <3>3
  <2> QED  BY <2>3, <2>4
<1> QED  BY <1>6, <1>7, <1>8 DEF Once, Joins

LEMMA Appends ==
  ASSUME NEW q, Once(q), NEW e \in Nat, ~In(q, e)
  PROVE  Once(Append(q, e)) /\ Joins(q, Append(q, e), e)
<1> DEFINE r == Append(q, e)
<1>1. q \in Seq(Nat) /\ Len(q) \in Nat  BY DEF Once
<1>2. r \in Seq(Nat) /\ Len(r) = Len(q) + 1 /\ \A i \in 1 .. Len(q) + 1 : r[i] = IF i <= Len(q) THEN q[i] ELSE IF i = Len(q) + 1 THEN e ELSE q[i - 1]  BY <1>1
<1>3. Len(q) \in 0 .. Len(q)  BY <1>1
<1> HIDE DEF r
<1>4. Once(r) /\ Joins(q, r, e)  BY <1>2, <1>3, Joining
<1> QED  BY <1>4 DEF r

HasInserted(W, r, q, p, e) ==
  /\ r \in Seq(W) /\ Len(r) = Len(q) + 1
  /\ \A i \in 1 .. Len(q) + 1 : r[i] = IF i <= p - 1 THEN q[i] ELSE IF i = (p - 1) + 1 THEN e ELSE q[i - 1]

LEMMA Inserted ==
  ASSUME NEW W, NEW q \in Seq(W), NEW e \in W, NEW p \in 1 .. Len(q)
  PROVE  HasInserted(W, InsertAt(q, p, e), q, p, e)
<1> DEFINE r == InsertAt(q, p, e)
           a == SubSeq(q, 1, p - 1)
           b == SubSeq(q, p, Len(q))
           c == <<e>>
           d == a \o c
<1>1. Len(q) \in Nat /\ a \in Seq(W) /\ Len(a) = p - 1 /\ \A i \in 1 .. p - 1 : a[i] = q[i]  OBVIOUS
<1>2. b \in Seq(W) /\ Len(b) = Len(q) - p + 1 /\ \A i \in 1 .. Len(q) - p + 1 : b[i] = q[p + i - 1]  OBVIOUS
<1>3. c \in Seq(W)  OBVIOUS
<1>3a. Len(c) = 1 /\ c[1] = e  OBVIOUS
<1>4. r = d \o b  BY DEF InsertAt
<1>4a. d = a \o c  OBVIOUS
<1> HIDE DEF r, a, b, c, d
<1>5. d \in Seq(W) /\ Len(d) = p /\ \A i \in 1 .. p : d[i] = IF i < p THEN q[i] ELSE e
  <2>0. a \in Seq(W)  BY <1>1
  <2>1. d \in Seq(W) /\ Len(d) = Len(a) + Len(c)  BY <2>0, <1>3, <1>4a
  <2>2. \A i \in 1 .. Len(a) : d[i] = a[i]  BY <2>0, <1>3, <1>4a
  <2>2a. \A i \in 1 .. Len(c) : d[Len(a) + i] = c[i]  BY <2>0, <1>3, <1>4a
  <2>3. d[Len(a) + 1] = c[1]  BY <1>3a, <2>2a
  <2>4. Len(a) + 1 = p /\ Len(d) = p  BY <1>1, <1>3a, <2>1
  <2> QED  BY <1>1, <1>3a, <2>1, <2>2, <2>3, <2>4
<1>6. r \in Seq(W) /\ Len(r) = Len(q) + 1  BY <1>1, <1>2, <1>4, <1>5
<1>7. ASSUME NEW i \in 1 .. Len(q) + 1 PROVE r[i] = IF i <= p - 1 THEN q[i] ELSE IF i = (p - 1) + 1 THEN e ELSE q[i - 1]
  <2>1. CASE i <= p  BY <1>1, <1>2, <1>4, <1>5, <2>1
  <2>2. CASE i > p
    <3>1. Len(d) = p /\ i \in 1 .. Len(d) + Len(b) /\ i > Len(d)  BY <1>1, <1>2, <1>5, <2>2
    <3>2. r[i] = b[i - p]  BY <1>2, <1>4, <1>5, <3>1
    <3>3. i - p \in 1 .. Len(q) - p + 1 /\ p + (i - p) - 1 = i - 1  BY <1>1, <2>2
    <3> QED  BY <1>2, <2>2, <3>2, <3>3
  <2> QED  BY <2>1, <2>2
<1>8. HasInserted(W, r, q, p, e)  BY <1>6, <1>7 DEF HasInserted
<1> QED  BY <1>8 DEF r

LEMMA Inserts ==
  ASSUME NEW q, Once(q), NEW e \in Nat, ~In(q, e), NEW p \in 1 .. Len(q)
  PROVE  Once(InsertAt(q, p, e)) /\ Joins(q, InsertAt(q, p, e), e)
<1> DEFINE r == InsertAt(q, p, e)
<1>1. q \in Seq(Nat) /\ Len(q) \in Nat  BY DEF Once
<1>2. r \in Seq(Nat) /\ Len(r) = Len(q) + 1 /\ \A i \in 1 .. Len(q) + 1 : r[i] = IF i <= p - 1 THEN q[i] ELSE IF i = (p - 1) + 1 THEN e ELSE q[i - 1]
  <2>1. HasInserted(Nat, r, q, p, e)  BY <1>1, Inserted, Zenon
  <2> HIDE DEF r
  <2> QED  BY <2>1 DEF HasInserted
<1> HIDE DEF r
<1>3. PICK k \in 0 .. Len(q) : k = p - 1  BY <1>1
<1>4. Once(r) /\ Joins(q, r, e)  BY <1>2, <1>3, Joining
<1> QED  BY <1>4 DEF r

(* What a sequence has from some place on.                                 *)
Tailing(q, r) ==
  /\ \A x : In(r, x) => In(q, x)
  /\ \A x, y : Before(r, x, y) => Before(q, x, y)
  /\ \A x, y : In(r, x) /\ Before(q, x, y) => Before(r, x, y)
  /\ \A x, y : In(q, x) /\ ~In(r, x) /\ In(r, y) => Before(q, x, y)

LEMMA Tails ==
  ASSUME NEW q, Once(q), NEW k \in 1 .. Len(q) + 1
  PROVE  Once(SubSeq(q, k, Len(q))) /\ Tailing(q, SubSeq(q, k, Len(q)))
<1> DEFINE r == SubSeq(q, k, Len(q))
<1>1. q \in Seq(Nat) /\ Len(q) \in Nat /\ DOMAIN q = 1 .. Len(q)  BY DEF Once
<1>2. r \in Seq(Nat) /\ Len(r) = Len(q) - k + 1 /\ DOMAIN r = 1 .. Len(r) /\ \A i \in 1 .. Len(q) - k + 1 : r[i] = q[k + i - 1]
  <2>1. PICK n \in Nat : n = Len(q)  BY <1>1
  <2>2. r = SubSeq(q, k, n) /\ k \in 1 .. n + 1  BY <2>1
  <2>3. r \in Seq(Nat)  BY <1>1, <2>1, <2>2
  <2>4. Len(r) = n - k + 1  BY <1>1, <2>1, <2>2
  <2>5. \A i \in 1 .. n - k + 1 : r[i] = q[k + i - 1]  BY <1>1, <2>1, <2>2
  <2>6. DOMAIN r = 1 .. Len(r)  BY <2>3
  <2> QED  BY <2>1, <2>3, <2>4, <2>5, <2>6
<1> HIDE DEF r
<1>3. \A i \in 1 .. Len(r) : k + i - 1 \in 1 .. Len(q) /\ r[i] = q[k + i - 1]  BY <1>1, <1>2
<1>4. \A j \in 1 .. Len(q) : j >= k => j - k + 1 \in 1 .. Len(r) /\ q[j] = r[j - k + 1]
  <2> SUFFICES ASSUME NEW j \in 1 .. Len(q), j >= k PROVE j - k + 1 \in 1 .. Len(r) /\ q[j] = r[j - k + 1]  OBVIOUS
  <2>1. j - k + 1 \in 1 .. Len(r) /\ k + (j - k + 1) - 1 = j  BY <1>1, <1>2
  <2> QED  BY <1>3, <2>1
<1>5. \A i, j \in 1 .. Len(q) : q[i] = q[j] => i = j  BY <1>1 DEF Once, IsInjective
<1>6. \A x : In(r, x) => In(q, x)  BY <1>3 DEF In
<1>7. \A x, y : Before(r, x, y) => Before(q, x, y)
  <2> SUFFICES ASSUME NEW x, NEW y, Before(r, x, y) PROVE Before(q, x, y)  OBVIOUS
  <2>1. PICK i \in 1 .. Len(r), j \in 1 .. Len(r) : i <= j /\ r[i] = x /\ r[j] = y  BY DEF Before
  <2>2. k + i - 1 <= k + j - 1  BY <2>1
  <2> QED  BY <1>3, <2>1, <2>2 DEF Before
<1>8. \A x, y : In(r, x) /\ Before(q, x, y) => Before(r, x, y)
  <2> SUFFICES ASSUME NEW x, NEW y, In(r, x), Before(q, x, y) PROVE Before(r, x, y)  OBVIOUS
  <2>1. PICK i \in 1 .. Len(q), j \in 1 .. Len(q) : i <= j /\ q[i] = x /\ q[j] = y  BY DEF Before
  <2>2. PICK m \in 1 .. Len(r) : r[m] = x  BY DEF In
  <2>3. i = k + m - 1  BY <1>3, <1>5, <2>1, <2>2
  <2>4. i >= k /\ j >= k /\ i - k + 1 <= j - k + 1  BY <2>1, <2>3
  <2> QED  BY <1>4, <2>1, <2>4 DEF Before
<1>9. \A x, y : In(q, x) /\ ~In(r, x) /\ In(r, y) => Before(q, x, y)
  <2> SUFFICES ASSUME NEW x, NEW y, In(q, x), ~In(r, x), In(r, y) PROVE Before(q, x, y)  OBVIOUS
  <2>1. PICK i \in 1 .. Len(q) : q[i] = x  BY DEF In
  <2>2. PICK m \in 1 .. Len(r) : r[m] = y  BY DEF In
  <2>3. i < k
    <3> SUFFICES ASSUME i >= k PROVE FALSE  OBVIOUS
    <3>1. i - k + 1 \in 1 .. Len(r) /\ x = r[i - k + 1]  BY <1>4, <2>1
    <3> QED  BY <3>1 DEF In
  <2>4. k + m - 1 \in 1 .. Len(q) /\ q[k + m - 1] = y /\ i <= k + m - 1  BY <1>3, <2>2, <2>3
  <2> QED  BY <2>1, <2>4 DEF Before
<1>10. IsInjective(r)
  <2> SUFFICES ASSUME NEW a \in 1 .. Len(r), NEW b \in 1 .. Len(r), r[a] = r[b] PROVE a = b  BY <1>2 DEF IsInjective
  <2>1. k + a - 1 = k + b - 1  BY <1>3, <1>5
  <2> QED  BY <2>1
<1>11. Once(r) /\ Tailing(q, r)  BY <1>2, <1>6, <1>7, <1>8, <1>9, <1>10 DEF Once, Tailing
<1> QED  BY <1>11 DEF r

LEMMA TheNewest ==
  ASSUME NEW q, Once(q), NEW n \in Nat
  PROVE  Once(Newest(q, n)) /\ Tailing(q, Newest(q, n))
<1>1. Len(q) \in Nat  BY DEF Once
<1> DEFINE k == IF Len(q) > n THEN Len(q) - n + 1 ELSE 1
<1>2. k \in 1 .. Len(q) + 1  BY <1>1
<1>3. Newest(q, n) = SubSeq(q, k, Len(q))  BY DEF Newest
<1> HIDE DEF k
<1> QED  BY <1>2, <1>3, Tails

(* One view of a room, and another that was taken no earlier: what both    *)
(* have is in the same order, the later has all that the earlier has       *)
(* behind something that both have, and what was there already and is in   *)
(* the later one only is before all that the earlier one has.              *)
Grown(A, a, B) ==
  /\ \A x, y : In(B, x) /\ Before(A, x, y) => Before(B, x, y)
  /\ \A x, y : In(B, y) /\ y < a /\ ~In(A, y) /\ In(A, x) => Before(B, y, x)

View(q, n) == Once(q) /\ n \in Nat /\ \A x : In(q, x) => x < n

(* What a summary covers is before its last message, or that message came  *)
(* after the view.                                                         *)
Covered(C, T, b, B) == \A x : In(C, x) /\ In(B, x) => Before(B, x, T) \/ T >= b

LEMMA GrownJoins ==
  ASSUME NEW A, NEW a \in Nat, View(A, a), NEW q, NEW r, NEW e \in Nat, a <= e, Joins(q, r, e), Grown(A, a, q)
  PROVE  Grown(A, a, r)
<1>1. \A x, y : Before(A, x, y) => In(A, x)  BY Ordered DEF View
<1>2. \A x : In(A, x) => x \in Nat /\ x < a  BY Ordered DEF View
<1>3. ASSUME NEW x, NEW y, In(r, x), Before(A, x, y) PROVE Before(r, x, y)
  <2>1. x # e  BY <1>1, <1>2, <1>3
  <2> QED  BY <1>3, <2>1 DEF Joins, Grown
<1>4. ASSUME NEW x, NEW y, In(r, y), y < a, ~In(A, y), In(A, x) PROVE Before(r, y, x)
  <2>1. y # e  BY <1>4
  <2> QED  BY <1>4, <2>1 DEF Joins, Grown
<1> QED  BY <1>3, <1>4 DEF Grown

LEMMA GrownTail ==
  ASSUME NEW A, NEW a, NEW q, NEW r, Tailing(q, r), Grown(A, a, q)
  PROVE  Grown(A, a, r)
BY DEF Tailing, Grown

LEMMA GrownFresh ==
  ASSUME NEW q, NEW n, View(q, n), NEW r, Tailing(q, r), Once(r)
  PROVE  View(r, n) /\ Grown(r, n, q)
BY Ordered DEF Tailing, Grown, View

LEMMA CoveredTail ==
  ASSUME NEW C, NEW T, NEW b, NEW q, NEW r, Tailing(q, r), Covered(C, T, b, q)
  PROVE  Covered(C, T, b, r)
BY DEF Tailing, Covered

LEMMA CoveredJoins ==
  ASSUME NEW C, NEW T \in Nat, NEW e \in Nat, T < e, \A x : In(C, x) => x \in Nat /\ x < e, NEW q, NEW r, Joins(q, r, e), Covered(C, T, e, q)
  PROVE  Covered(C, T, e + 1, r)
<1> SUFFICES ASSUME NEW x, In(C, x), In(r, x) PROVE Before(r, x, T)  BY DEF Covered
<1>1. x # e  OBVIOUS
<1>2. In(q, x)  BY <1>1 DEF Joins
<1>3. Before(q, x, T)  BY <1>2 DEF Covered
<1> QED  BY <1>3 DEF Joins

(* What is summarised further: the view W has all that is added, in order  *)
(* up to the last one, which follows the watermark.                        *)
CoveredOn(B, b, W, w, C, S, E, T, D) == Covered(D, T, b, B)

LEMMA CoveredFurther ==
  ASSUME NEW B, NEW b, View(B, b), NEW W, NEW w, View(W, w), (w <= b /\ Grown(W, w, B)) \/ (b <= w /\ Grown(B, b, W)),
         NEW C, NEW S \in Nat, Covered(C, S, b, B), Covered(C, S, w, W), NEW E, NEW T, \A x : In(E, x) => Before(W, x, T), In(W, T),
         \/ \A x : ~In(C, x)
         \/ Before(W, S, T) /\ S # T
         \/ ~In(W, S) /\ S < T,
         NEW D, \A x : In(D, x) => In(C, x) \/ In(E, x)
  PROVE  CoveredOn(B, b, W, w, C, S, E, T, D)
<1> SUFFICES ASSUME NEW x, In(D, x), In(B, x), ~(T >= b) PROVE Before(B, x, T)  BY DEF Covered, CoveredOn
<1>0. Once(B) /\ Once(W) /\ b \in Nat /\ w \in Nat /\ T \in Nat /\ T < w /\ T < b /\ \A y : In(B, y) => y \in Nat /\ y < b
  BY Ordered DEF View
<1>1. ASSUME NEW y, In(B, y), Before(W, y, T) PROVE Before(B, y, T)
  <2>1. CASE Grown(W, w, B)  BY <1>1, <2>1 DEF Grown
  <2>2. CASE Grown(B, b, W)
    <3>1. In(W, y)  BY <1>0, <1>1, Ordered
    <3>2. In(B, T)
      <4> SUFFICES ASSUME ~In(B, T) PROVE FALSE  OBVIOUS
      <4>1. Before(W, T, y)  BY <1>0, <1>1, <2>2 DEF Grown
      <4> QED  BY <1>0, <1>1, <4>1, Ordered
    <3>3. Before(B, y, T) \/ Before(B, T, y)  BY <1>0, <1>1, <3>2, Ordered
    <3>4. Before(B, T, y) => Before(W, T, y)  BY <2>2 DEF Grown
    <3>5. Before(W, T, y) => y = T  BY <1>0, <1>1, Ordered
    <3> QED  BY <3>3, <3>4, <3>5
  <2> QED  BY <2>1, <2>2
<1>2. CASE In(E, x)  BY <1>1, <1>2
<1>3. CASE In(C, x)
  <2>1. Before(B, x, S) \/ S >= b  BY <1>3 DEF Covered
  <2>2. CASE Before(W, S, T) /\ S # T
    <3>1. CASE Before(B, x, S)
      <4>1. Before(B, S, T)  BY <1>0, <1>1, <2>2, <3>1, Ordered
      <4> QED  BY <1>0, <3>1, <4>1, Ordered
    <3>2. CASE S >= b
      <4>1. In(W, S) /\ S < w  BY <1>0, <2>2, Ordered DEF View
      <4>2. Grown(B, b, W)  BY <1>0, <3>2, <4>1
      <4>3. In(W, x) => Before(W, x, S)  BY <1>0, <1>3, <4>1 DEF Covered
      <4>4. In(W, x) => Before(W, x, T)  BY <1>0, <2>2, <4>3, Ordered
      <4>5. CASE In(W, x)  BY <1>1, <4>4, <4>5
      <4>6. CASE ~In(W, x)
        <5>1. In(B, T)
          <6> SUFFICES ASSUME ~In(B, T) PROVE FALSE  OBVIOUS
          <6>1. Before(W, T, x)  BY <1>0, <4>2 DEF Grown
          <6> QED  BY <1>0, <4>6, <6>1, Ordered
        <5>2. Before(B, x, T) \/ Before(B, T, x)  BY <1>0, <5>1, Ordered
        <5>3. Before(B, T, x) => Before(W, T, x)  BY <4>2 DEF Grown
        <5>4. Before(W, T, x) => In(W, x)  BY <1>0, Ordered
        <5> QED  BY <4>6, <5>2, <5>3, <5>4
      <4> QED  BY <4>5, <4>6
    <3> QED  BY <2>1, <3>1, <3>2
  <2>3. CASE ~In(W, S) /\ S < T
    <3>1. Before(B, x, S) /\ In(B, S) /\ S < w  BY <1>0, <2>1, <2>3, Ordered
    <3>2. Before(B, S, T)
      <4>1. CASE Grown(W, w, B)  BY <2>3, <3>1, <4>1 DEF Grown
      <4>2. CASE Grown(B, b, W)
        <5>1. In(B, T)
          <6> SUFFICES ASSUME ~In(B, T) PROVE FALSE  OBVIOUS
          <6>1. Before(W, T, S)  BY <1>0, <3>1, <4>2 DEF Grown
          <6> QED  BY <1>0, <2>3, <6>1, Ordered
        <5>2. Before(B, S, T) \/ Before(B, T, S)  BY <1>0, <3>1, <5>1, Ordered
        <5>3. Before(B, T, S) => Before(W, T, S)  BY <4>2 DEF Grown
        <5>4. Before(W, T, S) => In(W, S)  BY <1>0, Ordered
        <5> QED  BY <2>3, <5>2, <5>3, <5>4
      <4> QED  BY <4>1, <4>2
    <3> QED  BY <1>0, <3>1, <3>2, Ordered
  <2> QED  BY <1>3, <2>2, <2>3
<1> QED  BY <1>2, <1>3

(* Some of a view, in its order. *)
Taken(E, W) == Once(E) /\ \A i, j \in 1 .. Len(E) : i <= j => Before(W, E[i], E[j])
Picked(W, k, s, E) == Once(E) /\ \A j \in 1 .. Len(E) : E[j] > s /\ (\E m \in 1 .. k : W[m] = E[j]) /\ \A i \in 1 .. j : Before(W, E[i], E[j])

LEMMA PickedOne ==
  ASSUME NEW W, Once(W), NEW s \in Nat, NEW k \in Nat, k + 1 <= Len(W), NEW E, Picked(W, k, s, E), W[k + 1] > s
  PROVE  Picked(W, k + 1, s, Append(E, W[k + 1]))
<1> DEFINE e == W[k + 1]
           F == Append(E, e)
<1>1. Len(W) \in Nat /\ \A i, j \in 1 .. Len(W) : W[i] = W[j] => i = j
  <2>1. W \in Seq(Nat) /\ DOMAIN W = 1 .. Len(W)  BY DEF Once
  <2> QED  BY <2>1 DEF Once, IsInjective
<1>2. k + 1 \in 1 .. Len(W) /\ e \in Nat  BY <1>1 DEF Once
<1>3. ~In(E, e)
  <2> SUFFICES ASSUME NEW j \in 1 .. Len(E), E[j] = e PROVE FALSE  BY DEF In
  <2>1. PICK m \in 1 .. k : W[m] = e  BY DEF Picked
  <2> QED  BY <1>1, <1>2, <2>1
<1>4. Once(E) /\ E \in Seq(Nat) /\ Len(E) \in Nat  BY DEF Picked, Once
<1>5. Once(F)  BY <1>2, <1>3, <1>4, Appends
<1>6. Len(F) = Len(E) + 1 /\ F[Len(E) + 1] = e /\ \A i \in 1 .. Len(E) : F[i] = E[i]  BY <1>2, <1>4
<1> HIDE DEF F, e
<1>7. ASSUME NEW j \in 1 .. Len(F) PROVE F[j] > s /\ (\E m \in 1 .. k + 1 : W[m] = F[j]) /\ \A i \in 1 .. j : Before(W, F[i], F[j])
  <2>1. CASE j <= Len(E)
    <3>1. j \in 1 .. Len(E) /\ F[j] = E[j] /\ \A i \in 1 .. j : F[i] = E[i]  BY <1>4, <1>6, <2>1
    <3>2. \A m \in 1 .. k : m \in 1 .. k + 1  OBVIOUS
    <3> QED  BY <3>1, <3>2 DEF Picked
  <2>2. CASE j = Len(E) + 1
    <3>1. F[j] = W[k + 1] /\ F[j] > s  BY <1>6, <2>2 DEF e
    <3>2. ASSUME NEW i \in 1 .. j PROVE Before(W, F[i], F[j])
      <4>1. CASE i = j  BY <1>2, <3>1, <4>1 DEF Before
      <4>2. CASE i # j
        <5>1. i \in 1 .. Len(E) /\ F[i] = E[i]  BY <1>4, <1>6, <2>2, <4>2
        <5>2. PICK m \in 1 .. k : W[m] = F[i]  BY <5>1 DEF Picked
        <5>3. m \in 1 .. Len(W) /\ m <= k + 1  BY <1>1, <5>2
        <5> QED  BY <1>2, <3>1, <5>2, <5>3 DEF Before
      <4> QED  BY <4>1, <4>2
    <3> QED  BY <3>1, <3>2
  <2> QED  BY <1>4, <1>6, <2>1, <2>2
<1>8. Picked(W, k + 1, s, F)  BY <1>5, <1>7 DEF Picked
<1> QED  BY <1>8 DEF F, e

LEMMA PickedAfter ==
  ASSUME NEW W, Once(W), NEW s \in Nat
  PROVE  Picked(W, Len(W), s, StoredAfter(W, s))
<1> DEFINE Next1(g, k) == IF k = 0 THEN <<>> ELSE IF W[k] > s THEN Append(g[k - 1], W[k]) ELSE g[k - 1]
           Keeps(g) == g = [k \in 0 .. Len(W) |-> Next1(g, k)]
<1>0. Len(W) \in Nat  BY DEF Once
<1>1. \A g : Keeps(g) => Picked(W, Len(W), s, g[Len(W)])
  <2> SUFFICES ASSUME NEW g, Keeps(g) PROVE Picked(W, Len(W), s, g[Len(W)])  OBVIOUS
  <2>0. \A k \in 0 .. Len(W) : g[k] = Next1(g, k)
    <3>1. g = [k \in 0 .. Len(W) |-> Next1(g, k)]  OBVIOUS
    <3> HIDE DEF Next1, Keeps
    <3> QED  BY <3>1
  <2> HIDE DEF Keeps
  <2>1. g[0] = <<>> /\ \A k \in 0 .. Len(W) : k # 0 => g[k] = IF W[k] > s THEN Append(g[k - 1], W[k]) ELSE g[k - 1]
    <3>1. 0 \in 0 .. Len(W)  BY <1>0
    <3>2. g[0] = Next1(g, 0)  BY <2>0, <3>1
    <3> QED  BY <2>0, <3>2
  <2> DEFINE S == {n \in Nat : n <= Len(W) => Picked(W, n, s, g[n])}
  <2>2. 0 \in S
    <3>1. <<>> \in Seq(Nat) /\ Len(<<>>) = 0 /\ IsInjective(<<>>)  BY DEF IsInjective
    <3>2. Picked(W, 0, s, <<>>)  BY <3>1 DEF Picked, Once
    <3> QED  BY <2>1, <3>2
  <2>3. \A n \in Nat : n \in S => n + 1 \in S
    <3> SUFFICES ASSUME NEW n \in Nat, n \in S, n + 1 <= Len(W) PROVE Picked(W, n + 1, s, g[n + 1])  OBVIOUS
    <3>1. Picked(W, n, s, g[n])  BY <1>0
    <3>2. g[n + 1] = IF W[n + 1] > s THEN Append(g[n], W[n + 1]) ELSE g[n]
      <4>1. n + 1 \in 0 .. Len(W) /\ n + 1 # 0 /\ (n + 1) - 1 = n  BY <1>0
      <4> QED  BY <2>1, <4>1
    <3> HIDE DEF S
    <3>3. CASE W[n + 1] > s  BY <3>1, <3>2, <3>3, PickedOne
    <3>4. CASE ~(W[n + 1] > s)
      <4>1. \A m \in 1 .. n : m \in 1 .. n + 1  OBVIOUS
      <4>2. g[n + 1] = g[n]  BY <3>2, <3>4
      <4> QED  BY <3>1, <4>1, <4>2 DEF Picked
    <3> QED  BY <3>3, <3>4
  <2>4. Len(W) \in S
    <3> HIDE DEF S
    <3> QED  BY <1>0, <2>2, <2>3, NumbersReached
  <2> QED  BY <1>0, <2>4
<1>2. \E g : Keeps(g)
  <2> DEFINE Upto(n, g) == g = [k \in 0 .. n |-> Next1(g, k)]
             S == {n \in Nat : \E g : Upto(n, g)}
  <2>1. 0 \in S
    <3> DEFINE g == [k \in 0 .. 0 |-> <<>>]
    <3>1. g = [k \in 0 .. 0 |-> Next1(g, k)]  OBVIOUS
    <3> HIDE DEF Next1, g
    <3> QED  BY <3>1
  <2>2. ASSUME NEW n \in Nat, n \in S PROVE n + 1 \in S
    <3>1. PICK g : Upto(n, g)  BY <2>2
    <3> DEFINE h == [k \in 0 .. n + 1 |-> IF k <= n THEN g[k] ELSE Next1(g, n + 1)]
    <3>2. \A k \in 0 .. n : h[k] = g[k]  OBVIOUS
    <3>3. h[n + 1] = Next1(g, n + 1) /\ h = [k \in 0 .. n + 1 |-> h[k]]
      <4>1. n + 1 \in 0 .. n + 1 /\ ~(n + 1 <= n)  OBVIOUS
      <4> HIDE DEF Next1
      <4> QED  BY <4>1
    <3>4. \A k \in 0 .. n : g[k] = Next1(g, k)
      <4> HIDE DEF Next1
      <4> QED  BY <3>1
    <3> HIDE DEF h
    <3>5. \A k \in 0 .. n + 1 : Next1(h, k) = Next1(g, k)
      <4> SUFFICES ASSUME NEW k \in 0 .. n + 1 PROVE Next1(h, k) = Next1(g, k)  OBVIOUS
      <4>1. CASE k = 0  BY <4>1
      <4>2. CASE k # 0
        <5>1. k - 1 \in 0 .. n  BY <4>2
        <5>2. h[k - 1] = g[k - 1]  BY <3>2, <5>1
        <5> QED  BY <5>2
      <4> QED  BY <4>1, <4>2
    <3> HIDE DEF Next1
    <3>6. \A k \in 0 .. n + 1 : h[k] = Next1(h, k)
      <4> SUFFICES ASSUME NEW k \in 0 .. n + 1 PROVE h[k] = Next1(h, k)  OBVIOUS
      <4>1. CASE k = n + 1  BY <3>3, <3>5, <4>1
      <4>2. CASE k # n + 1
        <5>1. k \in 0 .. n  BY <4>2
        <5> QED  BY <3>2, <3>4, <3>5, <5>1
      <4> QED  BY <4>1, <4>2
    <3>7. Upto(n + 1, h)  BY <3>3, <3>6
    <3> QED  BY <3>7
  <2>3. Len(W) \in S
    <3> HIDE DEF S
    <3> QED  BY <1>0, <2>1, <2>2, NumbersReached
  <2> QED  BY <2>3
<1>3. StoredAfter(W, s) = (CHOOSE g : Keeps(g))[Len(W)]  BY DEF StoredAfter
<1> HIDE DEF Keeps
<1> QED  BY <1>1, <1>2, <1>3

LEMMA AfterTaken ==
  ASSUME NEW W, Once(W), NEW s, s.through \in Nat
  PROVE  /\ Taken(After(W, s), W)
         /\ \A x : In(After(W, s), x) => s = NoSummary \/ (Before(W, s.through, x) /\ s.through # x) \/ (~In(W, s.through) /\ s.through < x)
<1> DEFINE E == After(W, s)
           T == s.through
<1>0. Len(W) \in Nat /\ W \in Seq(Nat)  BY DEF Once
<1>1. CASE s = NoSummary
  <2>1. E = W  BY <1>1 DEF After
  <2>2. Taken(W, W)  BY DEF Taken, Before
  <2> QED  BY <1>1, <2>1, <2>2
<1>2. CASE s # NoSummary /\ In(W, T)
  <2>1. PICK p \in 1 .. Len(W) : W[p] = T /\ E = SubSeq(W, 1 + p, Len(W))
    <3>1. Contains(W, T)  BY <1>2 DEF Contains, In
    <3>2. PICK p : p = CHOOSE k \in 1 .. Len(W) : W[k] = T  OBVIOUS
    <3>3. p \in 1 .. Len(W) /\ W[p] = T  BY <1>2, <3>2 DEF In
    <3>4. E = SubSeq(W, 1 + p, Len(W))  BY <1>2, <3>1, <3>2 DEF After
    <3> QED  BY <3>3, <3>4
  <2> HIDE DEF E
  <2>2. PICK k \in 1 .. Len(W) + 1 : k = 1 + p  BY <1>0, <2>1
  <2>3. Once(E) /\ Tailing(W, E)  BY <2>1, <2>2, Tails
  <2>4. Taken(E, W)
    <3>1. ASSUME NEW i \in 1 .. Len(E), NEW j \in 1 .. Len(E), i <= j PROVE Before(W, E[i], E[j])
      <4>1. Before(E, E[i], E[j])  BY <3>1 DEF Before
      <4> QED  BY <2>3, <4>1 DEF Tailing
    <3> QED  BY <2>3, <3>1 DEF Taken
  <2>5. ~In(E, T)
    <3> SUFFICES ASSUME NEW i \in 1 .. Len(E), E[i] = T PROVE FALSE  BY DEF In
    <3>1. E[i] = W[p + i] /\ p + i \in 1 .. Len(W)  BY <1>0, <2>1
    <3>2. \A a, b \in 1 .. Len(W) : W[a] = W[b] => a = b
      <4>1. DOMAIN W = 1 .. Len(W)  BY <1>0
      <4> QED  BY <4>1 DEF Once, IsInjective
    <3> QED  BY <2>1, <3>1, <3>2
  <2>6. \A x : In(E, x) => Before(W, T, x) /\ T # x  BY <1>2, <2>3, <2>5 DEF Tailing
  <2> QED  BY <2>4, <2>6 DEF E
<1>3. CASE s # NoSummary /\ ~In(W, T)
  <2>1. E = StoredAfter(W, T)  BY <1>3 DEF After, Contains, In
  <2> HIDE DEF E
  <2>2. Picked(W, Len(W), T, E)  BY <2>1, PickedAfter
  <2>3. Len(E) \in Nat  BY <2>2 DEF Picked, Once
  <2>4. Taken(E, W)  BY <2>2, <2>3 DEF Taken, Picked
  <2>5. \A x : In(E, x) => T < x
    <3> SUFFICES ASSUME NEW j \in 1 .. Len(E) PROVE T < E[j]  BY DEF In
    <3>1. E[j] > T /\ E[j] \in Nat  BY <2>2 DEF Picked, Once
    <3> QED  BY <3>1
  <2> QED  BY <1>3, <2>4, <2>5 DEF E
<1> QED  BY <1>1, <1>2, <1>3

LEMMA Chained ==
  ASSUME NEW C, Once(C), NEW E, Once(E), \A x : ~(In(C, x) /\ In(E, x))
  PROVE  Once(C \o E) /\ \A x : In(C \o E, x) <=> In(C, x) \/ In(E, x)
<1> DEFINE D == C \o E
<1>1. C \in Seq(Nat) /\ E \in Seq(Nat) /\ Len(C) \in Nat /\ Len(E) \in Nat /\ DOMAIN C = 1 .. Len(C) /\ DOMAIN E = 1 .. Len(E)  BY DEF Once
<1>2. D \in Seq(Nat) /\ Len(D) = Len(C) + Len(E) /\ DOMAIN D = 1 .. Len(D)  BY <1>1
<1>3. \A i \in 1 .. Len(C) : D[i] = C[i]  BY <1>1
<1>4. \A i \in 1 .. Len(E) : D[Len(C) + i] = E[i]  BY <1>1
<1> HIDE DEF D
<1>5. \A i \in 1 .. Len(D) : i \in 1 .. Len(C) \/ \E j \in 1 .. Len(E) : i = Len(C) + j
  <2> SUFFICES ASSUME NEW i \in 1 .. Len(D), i > Len(C) PROVE \E j \in 1 .. Len(E) : i = Len(C) + j  BY <1>1
  <2>1. i - Len(C) \in 1 .. Len(E) /\ i = Len(C) + (i - Len(C))  BY <1>1, <1>2
  <2> QED  BY <2>1
<1>6. \A i \in 1 .. Len(C) : i \in 1 .. Len(D)  BY <1>1, <1>2
<1>7. \A j \in 1 .. Len(E) : Len(C) + j \in 1 .. Len(D)  BY <1>1, <1>2
<1>8. \A x : In(D, x) <=> In(C, x) \/ In(E, x)
  <2>1. ASSUME NEW x, In(D, x) PROVE In(C, x) \/ In(E, x)
    <3>1. PICK i \in 1 .. Len(D) : D[i] = x  BY <2>1 DEF In
    <3> QED  BY <1>3, <1>4, <1>5, <3>1 DEF In
  <2>2. ASSUME NEW x, In(C, x) PROVE In(D, x)  BY <1>3, <1>6, <2>2 DEF In
  <2>3. ASSUME NEW x, In(E, x) PROVE In(D, x)  BY <1>4, <1>7, <2>3 DEF In
  <2> QED  BY <2>1, <2>2, <2>3
<1>9. IsInjective(D)
  <2> SUFFICES ASSUME NEW a \in 1 .. Len(D), NEW b \in 1 .. Len(D), D[a] = D[b] PROVE a = b  BY <1>2 DEF IsInjective
  <2>1. \A i, j \in 1 .. Len(C) : C[i] = C[j] => i = j  BY <1>1 DEF Once, IsInjective
  <2>2. \A i, j \in 1 .. Len(E) : E[i] = E[j] => i = j  BY <1>1 DEF Once, IsInjective
  <2>3. \A i \in 1 .. Len(C), j \in 1 .. Len(E) : C[i] # E[j]  BY DEF In
  <2>4. CASE a \in 1 .. Len(C) /\ b \in 1 .. Len(C)  BY <1>3, <2>1, <2>4
  <2>5. CASE a \in 1 .. Len(C) /\ b \notin 1 .. Len(C)
    <3>1. PICK j \in 1 .. Len(E) : b = Len(C) + j  BY <1>5, <2>5
    <3> QED  BY <1>3, <1>4, <2>3, <2>5, <3>1
  <2>6. CASE a \notin 1 .. Len(C) /\ b \in 1 .. Len(C)
    <3>1. PICK j \in 1 .. Len(E) : a = Len(C) + j  BY <1>5, <2>6
    <3> QED  BY <1>3, <1>4, <2>3, <2>6, <3>1
  <2>7. CASE a \notin 1 .. Len(C) /\ b \notin 1 .. Len(C)
    <3>1. PICK i \in 1 .. Len(E) : a = Len(C) + i  BY <1>5, <2>7
    <3>2. PICK j \in 1 .. Len(E) : b = Len(C) + j  BY <1>5, <2>7
    <3>3. E[i] = E[j]  BY <1>4, <3>1, <3>2
    <3> QED  BY <2>2, <3>1, <3>2, <3>3
  <2> QED  BY <2>4, <2>5, <2>6, <2>7
<1> QED  BY <1>2, <1>8, <1>9 DEF Once, D

(* What is summarised of it, and what is given as it is.                   *)
LEMMA Parted ==
  ASSUME NEW E, NEW W, Taken(E, W)
  PROVE  LET O == Overflow(E)  N == Newest(E, Keep) IN
         /\ Once(O) /\ Once(N) /\ \A x : (In(O, x) => In(E, x)) /\ (In(N, x) => In(E, x)) /\ ~(In(O, x) /\ In(N, x))
         /\ O # <<>> => In(O, Last(O)) /\ \A x : In(O, x) => Before(W, x, Last(O))
<1> DEFINE O == Overflow(E)
           N == Newest(E, Keep)
           k == IF Len(E) > Keep THEN Len(E) - Keep ELSE 0
<1>1. E \in Seq(Nat) /\ Once(E) /\ Len(E) \in Nat /\ Keep \in Nat /\ DOMAIN E = 1 .. Len(E)  BY SummariesAssumption DEF Taken, Once
<1>2. k \in 0 .. Len(E)  BY <1>1
<1>3. O \in Seq(Nat) /\ Len(O) = k /\ DOMAIN O = 1 .. Len(O) /\ \A i \in 1 .. k : O[i] = E[i]
  <2>1. PICK n : n = Len(E) - Keep  BY Zenon
  <2>2. n \in Int /\ n <= Len(E) /\ k = IF n > 0 THEN n ELSE 0  BY <1>1, <2>1
  <2>3. O = SubSeq(E, 1, n)  BY <2>1, Zenon DEF Overflow
  <2> HIDE DEF O, k
  <2>4. O \in Seq(Nat)
    <3>1. CASE n > 0  BY <1>1, <2>2, <2>3, <3>1
    <3>2. CASE ~(n > 0)
      <4>1. O = <<>>  BY <1>1, <2>2, <2>3, <3>2
      <4> QED  BY <4>1
    <3> QED  BY <3>1, <3>2
  <2>5. Len(O) = k  BY <1>1, <2>2, <2>3
  <2>6. \A i \in 1 .. k : O[i] = E[i]
    <3> SUFFICES ASSUME NEW i \in 1 .. k PROVE O[i] = E[i]  OBVIOUS
    <3>1. n > 0 /\ k = n /\ 1 + i - 1 = i  BY <2>2
    <3>2. \A j \in 1 .. n : O[j] = E[1 + j - 1]  BY <1>1, <2>2, <2>3, <3>1
    <3> QED  BY <3>1, <3>2
  <2> QED  BY <2>4, <2>5, <2>6
<1>4. N = SubSeq(E, k + 1, Len(E))  BY <1>1 DEF Newest
<1> HIDE DEF O, N, k
<1>5. N \in Seq(Nat) /\ Len(N) = Len(E) - k /\ \A i \in 1 .. Len(E) - k : N[i] = E[k + i]
  <2>1. k \in Nat /\ k <= Len(E)  BY <1>1, <1>2
  <2>0. E \in Seq(Nat) /\ Len(E) \in Nat  BY <1>1
  <2>0a. PICK m \in 1 .. Len(E) + 1 : m = k + 1  BY <2>0, <1>2
  <2>0b. N \in Seq(Nat) /\ Len(N) = Len(E) - m + 1 /\ \A i \in 1 .. Len(E) - m + 1 : N[i] = E[m + i - 1]
    <3>1. N = SubSeq(E, m, Len(E))  BY <1>4, <2>0a, Zenon
    <3> HIDE DEF N
    <3> QED  BY <2>0, <3>1
  <2>2. N \in Seq(Nat) /\ Len(N) = Len(E) - k  BY <2>0, <2>0a, <2>0b, <2>1
  <2>3. \A i \in 1 .. Len(E) - k : N[i] = E[(k + 1) + i - 1]  BY <2>0, <2>0a, <2>0b, <2>1
  <2>4. \A i \in 1 .. Len(E) - k : (k + 1) + i - 1 = k + i  BY <1>1, <2>1
  <2> QED  BY <2>2, <2>3, <2>4
<1>6. \A i, j \in 1 .. Len(E) : E[i] = E[j] => i = j  BY <1>1 DEF Once, IsInjective
<1>7. Once(N) /\ \A x : In(N, x) => In(E, x)
  <2>1. PICK m \in 1 .. Len(E) + 1 : m = k + 1  BY <1>1, <1>2
  <2> QED  BY <1>1, <1>4, <2>1, Tails DEF Tailing
<1>8. \A i \in 1 .. Len(O) : i \in 1 .. Len(E) /\ O[i] = E[i]  BY <1>1, <1>2, <1>3
<1>9. Once(O)  BY <1>3, <1>6, <1>8 DEF Once, IsInjective
<1>10. \A x : In(O, x) => In(E, x)  BY <1>8 DEF In
<1>11. ASSUME NEW x, In(O, x), In(N, x) PROVE FALSE
  <2>1. PICK i \in 1 .. Len(O) : O[i] = x  BY <1>11 DEF In
  <2>2. PICK j \in 1 .. Len(N) : N[j] = x  BY <1>11 DEF In
  <2>3. k + j \in 1 .. Len(E) /\ E[k + j] = x
    <3>1. N[j] = E[k + j] /\ j \in 1 .. Len(E) - k  BY <1>5, <2>2, Zenon
    <3>2. k + j \in 1 .. Len(E)  BY <1>1, <1>2, <3>1
    <3> QED  BY <2>2, <3>1, <3>2, Zenon
  <2>4. i = k + j  BY <1>6, <1>8, <2>1, <2>3
  <2> QED  BY <1>1, <1>2, <1>3, <1>5, <2>1, <2>2, <2>4
<1>12. ASSUME O # <<>> PROVE In(O, Last(O)) /\ \A x : In(O, x) => Before(W, x, Last(O))
  <2>1. Len(O) \in Nat /\ Len(O) # 0  BY <1>3, <1>12
  <2>2. Last(O) = O[Len(O)] /\ Len(O) \in 1 .. Len(O)  BY <2>1 DEF Last
  <2>3. ASSUME NEW x, In(O, x) PROVE Before(W, x, Last(O))
    <3>1. PICK i \in 1 .. Len(O) : O[i] = x  BY <2>3 DEF In
    <3>2. i <= Len(O)  BY <2>1, <3>1
    <3> QED  BY <1>8, <2>2, <3>1, <3>2 DEF Taken
  <2> QED  BY <2>2, <2>3 DEF In
<1> QED  BY <1>7, <1>9, <1>10, <1>11, <1>12 DEF O, N

(* A room that is looked at: its messages q, of ids below n; the stories   *)
(* told of it, stored or still to be stored; who views it, what each has   *)
(* of it, and when (by the next id) it was taken.                          *)
Sound(s, n) == s.through \in Nat /\ s.through < n /\ Once(s.covers) /\ \A x : In(s.covers, x) => x < n
Alike(A, a, B, b) == (a <= b /\ Grown(A, a, B)) \/ (b <= a /\ Grown(B, b, A))

Room(q, n, stories, viewing, windows, at) ==
  /\ View(q, n)
  /\ \A s \in stories : Sound(s, n) /\ Covered(s.covers, s.through, n, q)
  /\ \A t \in viewing : at[t] \in Nat /\ at[t] <= n /\ View(windows[t], at[t]) /\ Grown(windows[t], at[t], q)
  /\ \A t, u \in viewing : Alike(windows[t], at[t], windows[u], at[u])
  /\ \A s \in stories, t \in viewing : Covered(s.covers, s.through, at[t], windows[t])

LEMMA RoomLess ==
  ASSUME NEW q, NEW n, NEW S, NEW V, NEW W, NEW at, Room(q, n, S, V, W, at), NEW S2, NEW V2, NEW W2, S2 \subseteq S, V2 \subseteq V, \A t \in V2 : W2[t] = W[t]
  PROVE  Room(q, n, S2, V2, W2, at)
<1>1. View(q, n) /\ \A s \in S2 : Sound(s, n) /\ Covered(s.covers, s.through, n, q)  BY DEF Room
<1>2. \A t \in V2 : at[t] \in Nat /\ at[t] <= n /\ View(W2[t], at[t]) /\ Grown(W2[t], at[t], q)  BY DEF Room
<1>3. \A t, u \in V2 : Alike(W2[t], at[t], W2[u], at[u])  BY DEF Room
<1>4. \A s \in S2, t \in V2 : Covered(s.covers, s.through, at[t], W2[t])  BY DEF Room
<1> QED  BY <1>1, <1>2, <1>3, <1>4 DEF Room

LEMMA RoomJoins ==
  ASSUME NEW q, NEW n, NEW S, NEW V, NEW W, NEW at, Room(q, n, S, V, W, at), NEW r, Once(r), Joins(q, r, n)
  PROVE  Room(r, n + 1, S, V, W, at)
<1>1. View(q, n) /\ n \in Nat  BY DEF Room, View
<1>2. View(r, n + 1)
  <2>1. \A x : In(r, x) => x = n \/ (In(q, x) /\ x < n /\ x \in Nat)  BY <1>1, Ordered DEF Joins, View
  <2> QED  BY <1>1, <2>1 DEF View
<1>3. ASSUME NEW s \in S PROVE Sound(s, n + 1) /\ Covered(s.covers, s.through, n + 1, r)
  <2>1. Sound(s, n) /\ Covered(s.covers, s.through, n, q)  BY DEF Room
  <2>2. \A x : In(s.covers, x) => x \in Nat /\ x < n  BY <2>1, Ordered DEF Sound
  <2>3. s.through \in Nat /\ s.through < n /\ Once(s.covers)  BY <2>1 DEF Sound
  <2>4. Covered(s.covers, s.through, n + 1, r)  BY <1>1, <2>1, <2>2, <2>3, CoveredJoins
  <2>5. Sound(s, n + 1)  BY <1>1, <2>2, <2>3 DEF Sound
  <2> QED  BY <2>4, <2>5
<1>4. ASSUME NEW t \in V PROVE at[t] \in Nat /\ at[t] <= n + 1 /\ View(W[t], at[t]) /\ Grown(W[t], at[t], r)
  <2>1. at[t] \in Nat /\ at[t] <= n /\ View(W[t], at[t]) /\ Grown(W[t], at[t], q)  BY DEF Room
  <2>2. Grown(W[t], at[t], r)  BY <1>1, <2>1, GrownJoins
  <2> QED  BY <1>1, <2>1, <2>2
<1> QED  BY <1>2, <1>3, <1>4 DEF Room

LEMMA RoomTails ==
  ASSUME NEW q, NEW n, NEW S, NEW V, NEW W, NEW at, Room(q, n, S, V, W, at), NEW r, Once(r), Tailing(q, r)
  PROVE  Room(r, n, S, V, W, at)
<1>1. View(r, n)  BY DEF Room, View, Tailing
<1>2. \A s \in S : Sound(s, n) /\ Covered(s.covers, s.through, n, r)
  BY CoveredTail DEF Room
<1>3. ASSUME NEW t \in V PROVE at[t] \in Nat /\ at[t] <= n /\ View(W[t], at[t]) /\ Grown(W[t], at[t], r)
  <2>1. Grown(W[t], at[t], q)  BY DEF Room
  <2>2. Grown(W[t], at[t], r)  BY <2>1, GrownTail
  <2> QED  BY <2>2 DEF Room
<1> QED  BY <1>1, <1>2, <1>3 DEF Room

LEMMA RoomViewed ==
  ASSUME NEW q, NEW n, NEW S, NEW V, NEW W, NEW at, Room(q, n, S, V, W, at), NEW r, Once(r), Tailing(q, r),
         NEW t, t \notin V, NEW W2, W2[t] = r, \A u \in V : W2[u] = W[u]
  PROVE  \E at2 : Room(q, n, S, V \cup {t}, W2, at2)
<1> DEFINE at2 == [u \in V \cup {t} |-> IF u = t THEN n ELSE at[u]]
<1>1. at2[t] = n /\ \A u \in V : at2[u] = at[u]  OBVIOUS
<1> HIDE DEF at2
<1>2. View(q, n) /\ n \in Nat  BY DEF Room, View
<1>3. View(r, n) /\ Grown(r, n, q)  BY <1>2, GrownFresh
<1>4. ASSUME NEW u \in V \cup {t} PROVE at2[u] \in Nat /\ at2[u] <= n /\ View(W2[u], at2[u]) /\ Grown(W2[u], at2[u], q)
  <2>1. CASE u = t  BY <1>1, <1>2, <1>3, <2>1
  <2>2. CASE u # t
    <3>1. at[u] \in Nat /\ at[u] <= n /\ View(W[u], at[u]) /\ Grown(W[u], at[u], q)  BY <2>2 DEF Room
    <3> QED  BY <1>1, <2>2, <3>1
  <2> QED  BY <2>1, <2>2
<1>5. \A u \in V : Grown(W[u], at[u], r)
  <2> SUFFICES ASSUME NEW u \in V PROVE Grown(W[u], at[u], r)  OBVIOUS
  <2>1. Grown(W[u], at[u], q)  BY DEF Room
  <2> QED  BY <2>1, GrownTail
<1>6. ASSUME NEW u \in V \cup {t}, NEW v \in V \cup {t} PROVE Alike(W2[u], at2[u], W2[v], at2[v])
  <2>1. CASE u = t /\ v = t
    <3>1. Grown(r, n, r)  BY DEF Grown
    <3> QED  BY <1>1, <1>2, <2>1, <3>1 DEF Alike
  <2>2. CASE u # t /\ v = t
    <3>1. at[u] <= n /\ at2[u] = at[u] /\ at2[v] = n /\ W2[u] = W[u] /\ W2[v] = r  BY <1>1, <2>2 DEF Room
    <3>2. Grown(W[u], at[u], r)  BY <1>5, <2>2
    <3> QED  BY <3>1, <3>2 DEF Alike
  <2>3. CASE u = t /\ v # t
    <3>1. at[v] <= n /\ at2[v] = at[v] /\ at2[u] = n /\ W2[v] = W[v] /\ W2[u] = r  BY <1>1, <2>3 DEF Room
    <3>2. Grown(W[v], at[v], r)  BY <1>5, <2>3
    <3> QED  BY <3>1, <3>2 DEF Alike
  <2>4. CASE u # t /\ v # t
    <3>1. at2[u] = at[u] /\ at2[v] = at[v] /\ W2[u] = W[u] /\ W2[v] = W[v] /\ u \in V /\ v \in V  BY <1>1, <2>4
    <3>2. Alike(W[u], at[u], W[v], at[v])  BY <3>1 DEF Room
    <3> QED  BY <3>1, <3>2
  <2> QED  BY <2>1, <2>2, <2>3, <2>4
<1>7. ASSUME NEW s \in S, NEW u \in V \cup {t} PROVE Covered(s.covers, s.through, at2[u], W2[u])
  <2>1. CASE u = t
    <3>1. Covered(s.covers, s.through, n, q)  BY DEF Room
    <3>2. Covered(s.covers, s.through, n, r)  BY <3>1, CoveredTail
    <3> QED  BY <1>1, <2>1, <3>2
  <2>2. CASE u # t  BY <1>1, <2>2 DEF Room
  <2> QED  BY <2>1, <2>2
<1>8. Room(q, n, S, V \cup {t}, W2, at2)  BY <1>2, <1>4, <1>6, <1>7 DEF Room
<1> QED  BY <1>8

(* A story is told further, of what one view has of it. *)
LEMMA RoomTold ==
  ASSUME NEW q, NEW n, NEW S, NEW V, NEW W, NEW at, Room(q, n, S, V, W, at), NEW t \in V, NEW s \in S, NEW E, NEW d, Sound(d, n),
         \A x : In(E, x) => Before(W[t], x, d.through), In(W[t], d.through), \A x : In(d.covers, x) => In(s.covers, x) \/ In(E, x),
         \/ \A x : ~In(s.covers, x)
         \/ Before(W[t], s.through, d.through) /\ s.through # d.through
         \/ ~In(W[t], s.through) /\ s.through < d.through
  PROVE  Room(q, n, S \cup {d}, V, W, at)
<1>1. View(q, n) /\ View(W[t], at[t]) /\ at[t] <= n /\ Grown(W[t], at[t], q)  BY DEF Room
<1>2. s.through \in Nat /\ Covered(s.covers, s.through, n, q) /\ Covered(s.covers, s.through, at[t], W[t])  BY DEF Room, Sound
<1>0. \/ \A x : ~In(s.covers, x)
      \/ Before(W[t], s.through, d.through) /\ s.through # d.through
      \/ ~In(W[t], s.through) /\ s.through < d.through
  OBVIOUS
<1>3. Covered(d.covers, d.through, n, q)
  <2>1. (at[t] <= n /\ Grown(W[t], at[t], q)) \/ (n <= at[t] /\ Grown(q, n, W[t]))  BY <1>1
  <2>2. CoveredOn(q, n, W[t], at[t], s.covers, s.through, E, d.through, d.covers)  BY <1>0, <1>1, <1>2, <2>1, CoveredFurther, Zenon
  <2> QED  BY <2>2 DEF CoveredOn
<1>4. ASSUME NEW u \in V PROVE Covered(d.covers, d.through, at[u], W[u])
  <2>1. View(W[u], at[u]) /\ Covered(s.covers, s.through, at[u], W[u]) /\ Alike(W[t], at[t], W[u], at[u])  BY DEF Room
  <2>2. (at[t] <= at[u] /\ Grown(W[t], at[t], W[u])) \/ (at[u] <= at[t] /\ Grown(W[u], at[u], W[t]))  BY <2>1 DEF Alike
  <2>3. CoveredOn(W[u], at[u], W[t], at[t], s.covers, s.through, E, d.through, d.covers)  BY <1>0, <1>1, <1>2, <2>1, <2>2, CoveredFurther, Zenon
  <2> QED  BY <2>3 DEF CoveredOn
<1> QED  BY <1>3, <1>4 DEF Room

(* What is loaded: the entries behind the watermark, and what becomes of   *)
(* them.                                                                   *)
LEMMA EntriesTaken ==
  ASSUME NEW W, NEW w, View(W, w), NEW s, NEW n \in Nat, w <= n, Sound(s, n), Covered(s.covers, s.through, w, W)
  PROVE  LET E == After(W, s) IN
         /\ Taken(E, W)
         /\ \A x : In(E, x) => In(W, x) /\ x < n /\ ~In(s.covers, x)
         /\ \A x : In(E, x) => (\A y : ~In(s.covers, y)) \/ (Before(W, s.through, x) /\ s.through # x) \/ (~In(W, s.through) /\ s.through < x)
<1> DEFINE E == After(W, s)
<1>1. Once(W) /\ w \in Nat /\ s.through \in Nat  BY DEF View, Sound
<1>2. /\ Taken(E, W)
      /\ \A x : In(E, x) => s = NoSummary \/ (Before(W, s.through, x) /\ s.through # x) \/ (~In(W, s.through) /\ s.through < x)
  BY <1>1, AfterTaken
<1> HIDE DEF E
<1>3. s = NoSummary => \A y : ~In(s.covers, y)
  <2>1. Len(<<>>) = 0  OBVIOUS
  <2> QED  BY <2>1 DEF NoSummary, In
<1>4. \A x : In(E, x) => (\A y : ~In(s.covers, y)) \/ (Before(W, s.through, x) /\ s.through # x) \/ (~In(W, s.through) /\ s.through < x)
  BY <1>2, <1>3
<1>5. \A x : In(E, x) => In(W, x) /\ x \in Nat /\ x < w
  <2> SUFFICES ASSUME NEW x, In(E, x) PROVE In(W, x) /\ x \in Nat /\ x < w  OBVIOUS
  <2>1. PICK i \in 1 .. Len(E) : E[i] = x  BY DEF In
  <2>2. Len(E) \in Nat  BY <1>2 DEF Taken, Once
  <2>3. Before(W, x, x)  BY <1>2, <2>1, <2>2 DEF Taken
  <2> QED  BY <1>1, <2>3, Ordered DEF View
<1>6. ASSUME NEW x, In(E, x), In(s.covers, x) PROVE FALSE
  <2>1. Before(W, x, s.through) \/ s.through >= w  BY <1>5, <1>6 DEF Covered
  <2>2. CASE Before(W, s.through, x) /\ s.through # x
    <3>1. s.through < w  BY <1>1, <2>2, Ordered DEF View
    <3> QED  BY <1>1, <2>1, <2>2, <3>1, Ordered
  <2>3. CASE ~In(W, s.through) /\ s.through < x
    <3>1. s.through < w  BY <1>1, <1>5, <1>6, <2>3
    <3> QED  BY <1>1, <2>1, <2>3, <3>1, Ordered
  <2> QED  BY <1>4, <1>6, <2>2, <2>3
<1>7. \A x : In(E, x) => x < n  BY <1>1, <1>5
<1> QED  BY <1>2, <1>4, <1>5, <1>6, <1>7 DEF E

Further(s, O) == [through |-> Last(O), covers |-> s.covers \o O]

LEMMA FurtherTold ==
  ASSUME NEW W, NEW w, View(W, w), NEW s, NEW n \in Nat, w <= n, Sound(s, n), Covered(s.covers, s.through, w, W)
  PROVE  LET O == Overflow(After(W, s))  N == Newest(After(W, s), Keep) IN
         /\ Once(s.covers \o N)
         /\ O # <<>> => /\ Sound(Further(s, O), n) /\ Once(Further(s, O).covers \o N)
                        /\ In(W, Last(O)) /\ \A x : In(O, x) => Before(W, x, Last(O))
                        /\ \A x : In(Further(s, O).covers, x) => In(s.covers, x) \/ In(O, x)
                        /\ \/ \A x : ~In(s.covers, x)
                           \/ Before(W, s.through, Last(O)) /\ s.through # Last(O)
                           \/ ~In(W, s.through) /\ s.through < Last(O)
<1> DEFINE E == After(W, s)
           O == Overflow(E)
           N == Newest(E, Keep)
           C == s.covers
<1>1. /\ Taken(E, W)
      /\ \A x : In(E, x) => In(W, x) /\ x < n /\ ~In(C, x)
      /\ \A x : In(E, x) => (\A y : ~In(C, y)) \/ (Before(W, s.through, x) /\ s.through # x) \/ (~In(W, s.through) /\ s.through < x)
  BY EntriesTaken
<1> HIDE DEF E
<1>2. /\ Once(O) /\ Once(N) /\ \A x : (In(O, x) => In(E, x)) /\ (In(N, x) => In(E, x)) /\ ~(In(O, x) /\ In(N, x))
      /\ O # <<>> => In(O, Last(O)) /\ \A x : In(O, x) => Before(W, x, Last(O))
  BY <1>1, Parted
<1>3. Once(C) /\ \A x : In(C, x) => x < n  BY DEF Sound
<1> HIDE DEF O, N, C
<1>4. Once(C \o N)  BY <1>1, <1>2, <1>3, Chained
<1>5. Once(C \o O) /\ \A x : In(C \o O, x) <=> In(C, x) \/ In(O, x)  BY <1>1, <1>2, <1>3, Chained
<1>6. Once((C \o O) \o N)
  <2>1. \A x : ~(In(C \o O, x) /\ In(N, x))  BY <1>1, <1>2, <1>5
  <2> QED  BY <1>2, <1>5, <2>1, Chained
<1>7. Further(s, O).covers = C \o O /\ Further(s, O).through = Last(O)  BY DEF Further, C
<1>8. ASSUME O # <<>> PROVE Sound(Further(s, O), n)
  <2>1. In(O, Last(O)) /\ Last(O) \in Nat /\ Last(O) < n  BY <1>1, <1>2, <1>8, Ordered
  <2>2. \A x : In(C \o O, x) => x < n  BY <1>1, <1>2, <1>3, <1>5
  <2> QED  BY <1>5, <1>7, <2>1, <2>2 DEF Sound
<1>9. ASSUME O # <<>>
      PROVE  /\ In(W, Last(O)) /\ \A x : In(O, x) => Before(W, x, Last(O))
             /\ (\A x : ~In(C, x)) \/ (Before(W, s.through, Last(O)) /\ s.through # Last(O)) \/ (~In(W, s.through) /\ s.through < Last(O))
  <2>1. In(E, Last(O)) /\ \A x : In(O, x) => Before(W, x, Last(O))  BY <1>2, <1>9
  <2> QED  BY <1>1, <2>1
<1>10. \A x : In(Further(s, O).covers, x) => In(C, x) \/ In(O, x)  BY <1>5, <1>7
<1>11. Once(Further(s, O).covers \o N)  BY <1>6, <1>7
<1> QED  BY <1>4, <1>8, <1>9, <1>10, <1>11 DEF O, N, C, E
-----------------------------------------------------------------------------
Summarised(a) == Further(a.previous, a.batch)
Stories == {summary} \cup {Summarised(asker[t]) : t \in {u \in Askers : asker[u].at = "summarising"}}
Viewing == {t \in Askers : asker[t].at = "fetched"}
Windows == [t \in Askers |-> asker[t].window]

Prompted(a) ==
  /\ a.at \in {"asked", "summarising"} => Once(a.previous.covers \o a.active)
  /\ a.at = "summarising" => Once(Summarised(a).covers \o a.active)

SummariesInv ==
  /\ DOMAIN asker = Askers /\ \A t \in Askers : DOMAIN asker[t] = DOMAIN Rest /\ Prompted(asker[t])
  /\ \E at : Room(messages, nextId, Stories, Viewing, Windows, at)

LEMMA FreshSummaries == ASSUME Init PROVE SummariesInv
<1>1. messages = <<>> /\ nextId = 1 /\ summary = NoSummary /\ asker = [t \in Askers |-> Rest]  BY DEF Init, SummariesInit
<1>2. <<>> \in Seq(Nat) /\ Len(<<>>) = 0 /\ IsInjective(<<>>)  BY DEF IsInjective
<1>3. Once(<<>>) /\ \A x : ~In(<<>>, x)  BY <1>2 DEF Once, In
<1>4. \A t \in Askers : asker[t] = Rest /\ asker[t].at = "off"  BY <1>1 DEF Rest
<1>5. Viewing = {} /\ Stories = {NoSummary}  BY <1>1, <1>4 DEF Viewing, Stories
<1>6. Sound(NoSummary, 1) /\ Covered(NoSummary.covers, NoSummary.through, 1, <<>>)  BY <1>3 DEF NoSummary, Sound, Covered
<1>7. View(<<>>, 1)  BY <1>3 DEF View
<1>8. Room(<<>>, 1, {NoSummary}, {}, Windows, Windows)  BY <1>6, <1>7 DEF Room
<1>9. \E at : Room(messages, nextId, Stories, Viewing, Windows, at)  BY <1>1, <1>5, <1>8
<1> QED  BY <1>1, <1>4, <1>9 DEF SummariesInv, Prompted

(* One asker goes on.                                                      *)
Goes(t, a) ==
  /\ DOMAIN asker' = Askers /\ asker'[t] = a /\ DOMAIN a = DOMAIN Rest /\ Prompted(a)
  /\ \A u \in Askers \ {t} : asker'[u] = asker[u]

LEMMA AskerGoes ==
  ASSUME SummariesInv, NEW t \in Askers, NEW a, Goes(t, a)
  PROVE  /\ (DOMAIN asker = Askers /\ \A u \in Askers : DOMAIN asker[u] = DOMAIN Rest /\ Prompted(asker[u]))'
         /\ Viewing' = (Viewing \ {t}) \cup {u \in {t} : a.at = "fetched"}
         /\ summary' \in Stories => Stories' \subseteq Stories \cup {Summarised(b) : b \in {c \in {a} : c.at = "summarising"}}
         /\ \A u \in Askers \ {t} : Windows'[u] = Windows[u]
         /\ Windows'[t] = a.window
<1>1. \A u \in Askers : asker'[u] = IF u = t THEN a ELSE asker[u]  BY DEF Goes
<1>2. (DOMAIN asker = Askers /\ \A u \in Askers : DOMAIN asker[u] = DOMAIN Rest /\ Prompted(asker[u]))'  BY <1>1 DEF Goes, SummariesInv, Prompted
<1>3. Viewing' = (Viewing \ {t}) \cup {u \in {t} : a.at = "fetched"}  BY <1>1 DEF Viewing
<1>4. ASSUME summary' \in Stories PROVE Stories' \subseteq Stories \cup {Summarised(b) : b \in {c \in {a} : c.at = "summarising"}}
  <2> SUFFICES ASSUME NEW u \in Askers, asker'[u].at = "summarising"
               PROVE  Summarised(asker'[u]) \in Stories \cup {Summarised(b) : b \in {c \in {a} : c.at = "summarising"}}
    BY <1>4 DEF Stories
  <2>1. CASE u = t  BY <1>1, <2>1
  <2>2. CASE u # t  BY <1>1, <2>2 DEF Stories
  <2> QED  BY <2>1, <2>2
<1>5. (\A u \in Askers \ {t} : Windows'[u] = Windows[u]) /\ Windows'[t] = a.window  BY <1>1 DEF Windows
<1> QED  BY <1>2, <1>3, <1>4, <1>5

(* The room after a step of an asker that tells no new story.              *)
LEMMA RoomGoes ==
  ASSUME SummariesInv, NEW t \in Askers, NEW a, Goes(t, a), a.at \notin {"fetched", "summarising"}, summary' \in Stories,
         \/ messages' = messages /\ nextId' = nextId
         \/ nextId' = nextId + 1 /\ Once(messages') /\ Joins(messages, messages', nextId)
  PROVE  SummariesInv'
<1>1. PICK at : Room(messages, nextId, Stories, Viewing, Windows, at)  BY DEF SummariesInv
<1>2. /\ (DOMAIN asker = Askers /\ \A u \in Askers : DOMAIN asker[u] = DOMAIN Rest /\ Prompted(asker[u]))'
      /\ Viewing' \subseteq Viewing /\ t \notin Viewing'
      /\ Stories' \subseteq Stories
      /\ \A u \in Askers \ {t} : Windows'[u] = Windows[u]
  BY AskerGoes
<1>3. Viewing' \subseteq Askers \ {t}  BY <1>2 DEF Viewing
<1>4. Room(messages, nextId, Stories', Viewing', Windows', at)
  <2> DEFINE S2 == Stories'  V2 == Viewing'  W2 == Windows'
  <2>1. S2 \subseteq Stories /\ V2 \subseteq Viewing /\ \A u \in V2 : W2[u] = Windows[u]  BY <1>2, <1>3
  <2> HIDE DEF S2, V2, W2
  <2>2. Room(messages, nextId, S2, V2, W2, at)  BY <1>1, <2>1, RoomLess
  <2> QED  BY <2>2 DEF S2, V2, W2
<1>5. Room(messages', nextId', Stories', Viewing', Windows', at)
  <2>1. CASE messages' = messages /\ nextId' = nextId  BY <1>4, <2>1
  <2>2. CASE nextId' = nextId + 1 /\ Once(messages') /\ Joins(messages, messages', nextId)
    <3> DEFINE r == messages'  S2 == Stories'  V2 == Viewing'  W2 == Windows'
    <3> HIDE DEF r, S2, V2, W2
    <3>1. Room(messages, nextId, S2, V2, W2, at) /\ Once(r) /\ Joins(messages, r, nextId)  BY <1>4, <2>2 DEF r, S2, V2, W2
    <3>2. Room(r, nextId + 1, S2, V2, W2, at)  BY <3>1, RoomJoins
    <3> QED  BY <2>2, <3>2 DEF r, S2, V2, W2
  <2> QED  BY <2>1, <2>2
<1> QED  BY <1>2, <1>5 DEF SummariesInv

(* The room alone changes. *)
LEMMA RoomOnly ==
  ASSUME SummariesInv, UNCHANGED <<asker, summary>>,
         \/ messages' = messages /\ nextId' = nextId
         \/ nextId' = nextId + 1 /\ Once(messages') /\ Joins(messages, messages', nextId)
         \/ nextId' = nextId /\ Once(messages') /\ Tailing(messages, messages')
  PROVE  SummariesInv'
<1>1. PICK at : Room(messages, nextId, Stories, Viewing, Windows, at)  BY DEF SummariesInv
<1>2. Viewing' = Viewing /\ Stories' = Stories /\ Windows' = Windows  BY DEF Viewing, Stories, Windows
<1>3. (DOMAIN asker = Askers /\ \A u \in Askers : DOMAIN asker[u] = DOMAIN Rest /\ Prompted(asker[u]))'  BY DEF SummariesInv, Prompted
<1>4. Room(messages', nextId', Stories, Viewing, Windows, at)
  <2> DEFINE r == messages'
  <2> HIDE DEF r
  <2>1. CASE messages' = messages /\ nextId' = nextId  BY <1>1, <2>1
  <2>2. CASE nextId' = nextId + 1 /\ Once(r) /\ Joins(messages, r, nextId)
    <3>1. Room(r, nextId + 1, Stories, Viewing, Windows, at)  BY <1>1, <2>2, RoomJoins
    <3> QED  BY <2>2, <3>1 DEF r
  <2>3. CASE nextId' = nextId /\ Once(r) /\ Tailing(messages, r)
    <3>1. Room(r, nextId, Stories, Viewing, Windows, at)  BY <1>1, <2>3, RoomTails
    <3> QED  BY <2>3, <3>1 DEF r
  <2> QED  BY <2>1, <2>2, <2>3 DEF r
<1> QED  BY <1>2, <1>3, <1>4 DEF SummariesInv

LEMMA MessageNew ==
  ASSUME SummariesInv
  PROVE  Once(messages) /\ nextId \in Nat /\ ~In(messages, nextId)
<1>1. View(messages, nextId)  BY DEF SummariesInv, Room
<1> QED  BY <1>1 DEF View

LEMMA SaidKept == ASSUME SummariesInv, NEW t \in Askers, NEW asks \in BOOLEAN, Said(t, asks) PROVE SummariesInv'
<1>1. Once(messages') /\ nextId' = nextId + 1 /\ Joins(messages, messages', nextId)  BY MessageNew, Appends DEF Said
<1>2. CASE ~asks  BY <1>1, <1>2, RoomOnly DEF Said
<1>3. CASE asks
  <2> DEFINE a == [Rest EXCEPT !.at = "said"]
  <2>1. a.at = "said" /\ DOMAIN a = DOMAIN Rest  BY DEF Rest
  <2>2. asker' = [asker EXCEPT ![t] = a] /\ DOMAIN asker = Askers  BY <1>3 DEF Said, SummariesInv
  <2> HIDE DEF a
  <2>3. Goes(t, a)  BY <2>1, <2>2 DEF Goes, Prompted
  <2>4. summary' \in Stories  BY DEF Said, Stories
  <2> QED  BY <1>1, <2>1, <2>3, <2>4, RoomGoes
<1> QED  BY <1>2, <1>3

LEMMA LateKept == ASSUME SummariesInv, Late PROVE SummariesInv'
<1>1. PICK k \in 1 .. Len(messages) : messages' = InsertAt(messages, k, nextId)  BY DEF Late
<1>2. Once(messages') /\ nextId' = nextId + 1 /\ Joins(messages, messages', nextId)  BY <1>1, MessageNew, Inserts DEF Late
<1> QED  BY <1>2, RoomOnly DEF Late

LEMMA RetainKept == ASSUME SummariesInv, Retain PROVE SummariesInv'
<1>1. PICK k \in 1 .. Len(messages) : messages' = SubSeq(messages, k + 1, Len(messages))  BY DEF Retain
<1>2. Len(messages) \in Nat  BY MessageNew DEF Once
<1>3. PICK m \in 1 .. Len(messages) + 1 : m = k + 1  BY <1>2
<1>4. Once(messages') /\ Tailing(messages, messages')  BY <1>1, <1>3, MessageNew, Tails
<1> QED  BY <1>4, RoomOnly DEF Retain

LEMMA AnswerKept == ASSUME SummariesInv, NEW t \in Askers, Answer(t) PROVE SummariesInv'
<1>1. Once(messages') /\ nextId' = nextId + 1 /\ Joins(messages, messages', nextId)  BY MessageNew, Appends DEF Answer
<1>2. Rest.at = "off"  BY DEF Rest
<1>3. Goes(t, Rest)
  <2>1. asker' = [asker EXCEPT ![t] = Rest] /\ DOMAIN asker = Askers  BY DEF Answer, SummariesInv
  <2> QED  BY <1>2, <2>1 DEF Goes, Prompted
<1>4. summary' \in Stories  BY DEF Answer, Stories
<1> QED  BY <1>1, <1>2, <1>3, <1>4, RoomGoes

LEMMA FetchKept == ASSUME SummariesInv, NEW t \in Askers, Fetch(t) PROVE SummariesInv'
<1> DEFINE r == Newest(messages, Keep + Lookahead)
           a == [asker[t] EXCEPT !.at = "fetched", !.window = r]
<1>1. Once(r) /\ Tailing(messages, r)
  <2>1. Keep + Lookahead \in Nat  BY SummariesAssumption
  <2> QED  BY <2>1, MessageNew, TheNewest
<1> HIDE DEF r
<1>2. asker' = [asker EXCEPT ![t] = a] /\ DOMAIN asker = Askers /\ DOMAIN asker[t] = DOMAIN Rest /\ asker[t].at = "said"  BY Zenon DEF Fetch, SummariesInv, r
<1>3. a.at = "fetched" /\ a.window = r /\ DOMAIN a = DOMAIN Rest  BY <1>2 DEF Rest
<1> HIDE DEF a
<1>4. Goes(t, a)  BY <1>2, <1>3 DEF Goes, Prompted
<1>5. PICK at : Room(messages, nextId, Stories, Viewing, Windows, at)  BY DEF SummariesInv
<1>6. t \notin Viewing  BY <1>2 DEF Viewing
<1>7. summary' = summary /\ messages' = messages /\ nextId' = nextId  BY DEF Fetch
<1>8. /\ (DOMAIN asker = Askers /\ \A u \in Askers : DOMAIN asker[u] = DOMAIN Rest /\ Prompted(asker[u]))'
      /\ Viewing' = Viewing \cup {t}
      /\ Stories' \subseteq Stories
      /\ (\A u \in Askers \ {t} : Windows'[u] = Windows[u]) /\ Windows'[t] = r
  <2>1. summary' \in Stories  BY <1>7 DEF Stories
  <2> QED  BY <1>3, <1>4, <1>6, <2>1, AskerGoes
<1>9. \E at2 : Room(messages, nextId, Stories', Viewing', Windows', at2)
  <2> DEFINE S2 == Stories'  W2 == Windows'
  <2>1. S2 \subseteq Stories /\ W2[t] = r /\ \A u \in Viewing : W2[u] = Windows[u]  BY <1>6, <1>8 DEF Viewing
  <2> HIDE DEF S2, W2
  <2>2. Room(messages, nextId, S2, Viewing, Windows, at)  BY <1>5, <2>1, RoomLess
  <2>3. \E at2 : Room(messages, nextId, S2, Viewing \cup {t}, W2, at2)  BY <1>1, <1>6, <2>1, <2>2, RoomViewed
  <2> QED  BY <1>8, <2>3 DEF S2, W2
<1> QED  BY <1>7, <1>8, <1>9 DEF SummariesInv

LEMMA LoadKept == ASSUME SummariesInv, NEW t \in Askers, Load(t) PROVE SummariesInv'
<1> DEFINE W == asker[t].window
           O == Overflow(After(W, summary))
           N == Newest(After(W, summary), Keep)
           batch == IF Len(O) < MinBatch THEN <<>> ELSE O
           a == [at |-> IF batch = <<>> THEN "asked" ELSE "summarising", window |-> <<>>, previous |-> summary, batch |-> batch, active |-> N]
           d == Further(summary, O)
<1>1. /\ asker[t].at = "fetched" /\ asker' = [asker EXCEPT ![t] = a]
      /\ messages' = messages /\ nextId' = nextId /\ summary' = summary
  BY Zenon DEF Load
<1>2. DOMAIN asker = Askers /\ t \in Viewing /\ Windows[t] = W /\ summary \in Stories  BY <1>1 DEF SummariesInv, Viewing, Windows, Stories
<1>3. batch # <<>> => O # <<>> /\ batch = O  OBVIOUS
<1>4. a.at = (IF batch = <<>> THEN "asked" ELSE "summarising") /\ a.previous = summary /\ a.batch = batch /\ a.active = N /\ DOMAIN a = DOMAIN Rest  BY DEF Rest
<1>5. PICK at : Room(messages, nextId, Stories, Viewing, Windows, at)  BY DEF SummariesInv
<1> HIDE DEF W, batch, a
<1>6. /\ View(W, at[t]) /\ at[t] <= nextId /\ Sound(summary, nextId) /\ Covered(summary.covers, summary.through, at[t], W)
      /\ nextId \in Nat
  BY <1>2, <1>5, MessageNew DEF Room
<1>7. /\ Once(summary.covers \o N)
      /\ O # <<>> => /\ Sound(d, nextId) /\ Once(d.covers \o N)
                     /\ In(W, Last(O)) /\ \A x : In(O, x) => Before(W, x, Last(O))
                     /\ \A x : In(d.covers, x) => In(summary.covers, x) \/ In(O, x)
                     /\ \/ \A x : ~In(summary.covers, x)
                        \/ Before(W, summary.through, Last(O)) /\ summary.through # Last(O)
                        \/ ~In(W, summary.through) /\ summary.through < Last(O)
  BY <1>6, FurtherTold
<1>8. d.through = Last(O)  BY DEF Further
<1> HIDE DEF O, N, d
<1>9. summary' \in Stories  BY <1>1, <1>2
<1>10. CASE batch = <<>>
  <2>1. Goes(t, a)  BY <1>1, <1>2, <1>4, <1>7, <1>10 DEF Goes, Prompted
  <2> QED  BY <1>1, <1>4, <1>9, <1>10, <2>1, RoomGoes
<1>11. CASE batch # <<>>
  <2>1. a.at = "summarising" /\ Summarised(a) = d  BY <1>3, <1>4, <1>11 DEF Summarised, d
  <2>2. Goes(t, a)  BY <1>1, <1>2, <1>3, <1>4, <1>7, <1>11, <2>1 DEF Goes, Prompted
  <2>3. /\ (DOMAIN asker = Askers /\ \A u \in Askers : DOMAIN asker[u] = DOMAIN Rest /\ Prompted(asker[u]))'
        /\ Viewing' \subseteq Viewing \ {t}
        /\ Stories' \subseteq Stories \cup {d}
        /\ \A u \in Askers \ {t} : Windows'[u] = Windows[u]
    BY <1>9, <2>1, <2>2, AskerGoes
  <2>4. Room(messages, nextId, Stories \cup {d}, Viewing, Windows, at)
    <3>1. /\ Sound(d, nextId) /\ In(Windows[t], d.through) /\ \A x : In(O, x) => Before(Windows[t], x, d.through)
          /\ \A x : In(d.covers, x) => In(summary.covers, x) \/ In(O, x)
          /\ \/ \A x : ~In(summary.covers, x)
             \/ Before(Windows[t], summary.through, d.through) /\ summary.through # d.through
             \/ ~In(Windows[t], summary.through) /\ summary.through < d.through
      BY <1>2, <1>3, <1>7, <1>8, <1>11
    <3> QED  BY <1>2, <1>5, <3>1, RoomTold
  <2>5. Room(messages, nextId, Stories', Viewing', Windows', at)
    <3> DEFINE S2 == Stories'  V2 == Viewing'  W2 == Windows'
    <3>1. S2 \subseteq Stories \cup {d} /\ V2 \subseteq Viewing /\ \A u \in V2 : W2[u] = Windows[u]  BY <2>3 DEF Viewing
    <3> HIDE DEF S2, V2, W2
    <3>2. Room(messages, nextId, S2, V2, W2, at)  BY <2>4, <3>1, RoomLess
    <3> QED  BY <3>2 DEF S2, V2, W2
  <2> QED  BY <1>1, <2>3, <2>5 DEF SummariesInv
<1> QED  BY <1>10, <1>11

LEMMA SummariseKept == ASSUME SummariesInv, NEW t \in Askers, Summarise(t) PROVE SummariesInv'
<1> DEFINE a == [asker[t] EXCEPT !.at = "asked", !.previous = Summarised(asker[t]), !.batch = <<>>]
<1>1. Generated(t) = Summarised(asker[t])  BY DEF Generated, Summarised, Further
<1>2. /\ asker' = [asker EXCEPT ![t] = a] /\ DOMAIN asker = Askers /\ DOMAIN asker[t] = DOMAIN Rest /\ asker[t].at = "summarising"
      /\ summary' = Summarised(asker[t]) /\ messages' = messages /\ nextId' = nextId /\ Prompted(asker[t])
  BY <1>1, Zenon DEF Summarise, SummariesInv
<1>3. a.at = "asked" /\ a.previous = Summarised(asker[t]) /\ a.active = asker[t].active /\ DOMAIN a = DOMAIN Rest  BY <1>2 DEF Rest
<1> HIDE DEF a
<1>4. Goes(t, a)  BY <1>2, <1>3 DEF Goes, Prompted
<1>5. summary' \in Stories  BY <1>2 DEF Stories
<1> QED  BY <1>2, <1>3, <1>4, <1>5, RoomGoes

LEMMA SummariseFailsKept == ASSUME SummariesInv, NEW t \in Askers, SummariseFails(t) PROVE SummariesInv'
<1> DEFINE a == [asker[t] EXCEPT !.at = "asked", !.batch = <<>>]
<1>1. /\ asker' = [asker EXCEPT ![t] = a] /\ DOMAIN asker = Askers /\ DOMAIN asker[t] = DOMAIN Rest /\ asker[t].at = "summarising"
      /\ summary' = summary /\ messages' = messages /\ nextId' = nextId /\ Prompted(asker[t])
  BY Zenon DEF SummariseFails, SummariesInv
<1>2. a.at = "asked" /\ a.previous = asker[t].previous /\ a.active = asker[t].active /\ DOMAIN a = DOMAIN Rest  BY <1>1 DEF Rest
<1> HIDE DEF a
<1>3. Goes(t, a)  BY <1>1, <1>2 DEF Goes, Prompted
<1>4. summary' \in Stories  BY <1>1 DEF Stories
<1> QED  BY <1>1, <1>2, <1>3, <1>4, RoomGoes

LEMMA SummariesStep == ASSUME SummariesInv, SummariesNext \/ UNCHANGED summaryVars PROVE SummariesInv'
<1>1. CASE Late \/ Retain  BY <1>1, LateKept, RetainKept
<1>2. ASSUME NEW t \in Askers, (\E asks \in BOOLEAN : Said(t, asks)) \/ Fetch(t) \/ Load(t) \/ Summarise(t) \/ SummariseFails(t) \/ Answer(t) PROVE SummariesInv'
  BY <1>2, SaidKept, FetchKept, LoadKept, SummariseKept, SummariseFailsKept, AnswerKept
<1>3. CASE UNCHANGED summaryVars  BY <1>3, RoomOnly DEF summaryVars
<1> QED  BY <1>1, <1>2, <1>3, Zenon DEF SummariesNext

LEMMA SummariesFollow == ASSUME SummariesInv PROVE SummarisedOnce
<1>1. Sound(summary, nextId)  BY DEF SummariesInv, Room, Stories
<1>2. \A t \in Askers : asker[t].at = "asked" => Once(Prompt(t))  BY DEF SummariesInv, Prompted, Prompt
<1> QED  BY <1>1, <1>2 DEF SummarisedOnce, Sound, Once

(* SummarisedOnce, for every number of overlapping turns, every room and   *)
(* every window, lookahead and least batch: whichever turn's summary is    *)
(* stored last, whatever a history brings late and the retention removes,  *)
(* no message is summarised twice and none is given both as it is and in   *)
(* the summary (ConversationSummarizer.ts:95-111 and 121-195).             *)
THEOREM MessagesSummarisedOnce == Spec => []SummarisedOnce
<1>1. Init => SummariesInv  BY FreshSummaries
<1>2. SummariesInv /\ [Next]_vars => SummariesInv'
  <2> SUFFICES ASSUME SummariesInv, [Next]_vars PROVE SummariesInv'  OBVIOUS
  <2>1. SummariesNext \/ UNCHANGED summaryVars
    <3>1. CASE Next  BY <3>1, Zenon DEF Next
    <3>2. CASE UNCHANGED vars  BY <3>2 DEF vars
    <3> QED  BY <3>1, <3>2
  <2> QED  BY <2>1, SummariesStep
<1>3. SummariesInv => SummarisedOnce  BY SummariesFollow
<1> QED  BY <1>1, <1>2, <1>3, PTL DEF Spec

-----------------------------------------------------------------------------
(* The database file and its retention.                                    *)
LEMMA FreshStage == ASSUME Init PROVE StageSound
<1>1. scene \in Scenes /\ left = scene.left /\ now = 0  BY DEF Init, StageInit
<1> QED  BY <1>1, StageAssumption DEF StageSound

LEMMA FreshRunners == ASSUME Init PROVE RunnersInv
<1>1. lease = [l \in {"migration", "runtime"} |-> Unheld] /\ proc = [p \in Procs |-> [at |-> "off", run |-> 0, pending |-> FALSE, beat |-> 0]] /\ now = 0
  BY DEF Init, StageInit, StoreInit
<1>2. LeaseShape  BY <1>1 DEF LeaseShape, Unheld
<1>3. \A p \in Procs : proc[p].at = "off"  BY <1>1
<1> QED  BY <1>1, <1>2, <1>3 DEF RunnersInv, RunnerSound

LEMMA FreshBackups == ASSUME Init PROVE BackupsInv
<1>1. /\ job = [j \in Jobs |-> Idle] /\ files = {} /\ manifests = {} /\ rotten = {} /\ taken = {}
      /\ restore = [at |-> "off", manifest |-> None, snap |-> None]
  BY DEF Init, StoreInit
<1>2. TakenSound /\ TakenKept  BY <1>1, FS_EmptySet DEF TakenSound, TakenKept
<1>3. \A j \in Jobs : job[j] = Idle  BY <1>1
<1>4. \A j \in Jobs : job[j].at = "off" /\ DOMAIN job[j] = {"at", "name", "created", "snap", "doomed"}  BY <1>3 DEF Idle
<1>5. \A j \in Jobs : JobSound(j)  BY <1>4 DEF JobSound, Making, RemovesOld
<1>6. JobsSound  BY <1>1, <1>4, <1>5 DEF JobsSound, Making
<1>7. RestoreSound
  <2>1. restore.at = "off" /\ DOMAIN restore = {"at", "manifest", "snap"}  BY <1>1
  <2> QED  BY <2>1 DEF RestoreSound
<1> QED  BY <1>2, <1>6, <1>7 DEF BackupsInv

LEMMA FreshRetention == ASSUME Init PROVE RetentionInv
<1>1. scene \in Scenes /\ kept = scene.rows /\ sweep = NoSweep  BY Zenon DEF Init, StageInit, RetentionInit
<1>2. RowsKeyed(kept)  BY <1>1, RetentionAssumption DEF RowsKeyed, Columns
<1>3. SweepShape /\ sweep.at = 0  BY <1>1, Categories DEF SweepShape, NoSweep
<1> QED  BY <1>2, <1>3 DEF RetentionInv, Sweeps

LEMMA FreshStore == ASSUME Init PROVE StoreInv
<1>1. (\A p \in Procs : proc[p].at = "off") /\ taken = {} /\ restore.at = "off"
  <2>1. proc = [p \in Procs |-> [at |-> "off", run |-> 0, pending |-> FALSE, beat |-> 0]] /\ taken = {} /\ restore = [at |-> "off", manifest |-> None, snap |-> None]
    BY Zenon DEF Init, StoreInit
  <2> QED  BY <2>1
<1> QED  BY <1>1, FreshStage, FreshRunners, FreshBackups, FreshRetention DEF StoreInv, NotOpened

LEMMA StoreStep ==
  ASSUME Next
  PROVE  scene' = scene /\ \/ scene.part = "store" /\ StoreNext /\ UNCHANGED retentionVars
                           \/ scene.part # "store" /\ UNCHANGED storeVars /\ (RetentionNext \/ UNCHANGED retentionVars)
BY Zenon DEF Next

LEMMA StoreKept == ASSUME StoreInv, Next PROVE StoreInv'
<1>1. CASE scene.part = "store" /\ StoreNext /\ UNCHANGED retentionVars
  <2>1. StageSound' /\ StageStep /\ RunnersInv'  BY <1>1, RunnersStep DEF StoreInv
  <2>2. BackupsInv'  BY <1>1, <2>1, BackupsStep DEF StoreInv
  <2>3. RetentionInv'  BY <1>1, RetentionStep DEF StoreInv
  <2>4. scene' = scene  BY StoreStep
  <2> QED  BY <1>1, <2>1, <2>2, <2>3, <2>4 DEF StoreInv
<1>2. CASE scene.part # "store" /\ UNCHANGED storeVars /\ (RetentionNext \/ UNCHANGED retentionVars)
  <2>1. NotOpened'  BY <1>2, Zenon DEF StoreInv, NotOpened, storeVars, procVars, backupVars
  <2>2. RetentionInv'  BY <1>2, RetentionStep DEF StoreInv
  <2>3. scene' = scene  BY StoreStep
  <2> QED  BY <1>2, <2>1, <2>2, <2>3 DEF StoreInv
<1> QED  BY <1>1, <1>2, StoreStep

LEMMA StoreStays == ASSUME StoreInv, UNCHANGED vars PROVE StoreInv'
<1>1. /\ UNCHANGED <<scene, left, now>> /\ UNCHANGED retentionVars
      /\ UNCHANGED <<store, lease, proc, stalled, slept>> /\ UNCHANGED <<job, files, manifests, rotten, taken, restore>>
  BY Zenon DEF vars, stage, storeVars, procVars, backupVars
<1>2. RetentionInv'  BY <1>1, RetentionStep DEF StoreInv
<1>3. NotOpened => NotOpened'  BY <1>1, Zenon DEF NotOpened
<1>4. StageSound => StageSound'  BY <1>1, Zenon DEF StageSound
<1>5. RunnersInv => RunnersInv'  BY <1>1, StillKept, Zenon DEF procVars
<1>6. ASSUME StageSound, BackupsInv PROVE BackupsInv'
  <2>1. StageStep  BY <1>1, <1>6 DEF StageStep, StageSound
  <2>2. RestoreSound'
    <3>1. RestoreSound  BY <1>6 DEF BackupsInv
    <3>2. Restorable(restore.snap, restore.manifest)' <=> Restorable(restore.snap, restore.manifest)
      BY <1>1, Zenon DEF Restorable, Required, Contract, Fingerprinted
    <3> QED  BY <1>1, <3>1, <3>2 DEF RestoreSound
  <2> QED  BY <1>1, <1>6, <2>1, <2>2, StillBackups, Zenon
<1> QED  BY <1>1, <1>2, <1>3, <1>4, <1>5, <1>6 DEF StoreInv

(* One instance holds the database, what was backed up can be restored,    *)
(* and a retention run deletes what it tells of and no more                *)
(* (db/index.ts:85-282, backup.ts:204-329, retention.ts).                  *)
THEOREM StoreStaysSafe == Spec => []StoreSafe
<1>1. Init => StoreInv  BY FreshStore
<1>2. StoreInv /\ [Next]_vars => StoreInv'  BY StoreKept, StoreStays
<1>3. StoreInv => StoreSafe  BY StoreFollow
<1> QED  BY <1>1, <1>2, <1>3, PTL DEF Spec

-----------------------------------------------------------------------------
(* What is remembered, and with whose consent.                             *)
LEMMA FreshConsent == ASSUME Init PROVE ConsentInv
<1>1. call = [k \in Calls |-> Off] /\ withdrawn = {} /\ revoking = {}  BY Zenon DEF Init, KnowledgeInit
<1>2. Off.then \in Elsewhere  BY OffFields DEF Elsewhere
<1> QED  BY <1>1, <1>2 DEF ConsentInv

(* A step of another part, or none, leaves the knowledge alone. *)
LEMMA KnowledgeStep == ASSUME [Next]_vars PROVE KnowledgeNext \/ UNCHANGED knowledgeVars
<1>1. Next => KnowledgeNext \/ UNCHANGED knowledgeVars  BY Zenon DEF Next
<1>2. UNCHANGED vars => UNCHANGED knowledgeVars  BY Zenon DEF vars
<1> QED  BY <1>1, <1>2

(* Nothing is stored for who withdrew the consent, until it is granted     *)
(* again (MemoryTool.ts:64-99).                                            *)
THEOREM ConsentIsRespected == Spec => ConsentRespected
<1>1. Init => ConsentInv  BY FreshConsent
<1>2. ConsentInv /\ [Next]_vars => ConsentInv' /\ Respected
  <2> SUFFICES ASSUME ConsentInv, [Next]_vars PROVE ConsentInv' /\ Respected  OBVIOUS
  <2>1. UNCHANGED knowledgeVars => UNCHANGED <<consentVars, call>>  BY Zenon DEF knowledgeVars, consentVars
  <2> QED  BY <2>1, KnowledgeStep, KnowledgeKept, QuietKept
<1>3. ConsentInv /\ [Next]_vars => ConsentInv' /\ [Respected]_<<call, withdrawn>>  BY <1>2
<1>4. ConsentRespected <=> [][Respected]_<<call, withdrawn>>  BY PTL DEF ConsentRespected, Respected
<1> QED  BY <1>1, <1>3, <1>4, PTL DEF Spec

-----------------------------------------------------------------------------
(* The histories and their media.                                          *)
LEMMA FreshHistory == ASSUME Init PROVE HistoryInv /\ Unfiled
<1>1. FilingInit  BY DEF Init
<1>2. Unfiled  BY <1>1, Zenon DEF FilingInit, Unfiled
<1>3. RoomsSound  BY <1>2, LegacyRooms DEF Unfiled
<1>4. StoredSound  BY <1>2 DEF Unfiled, StoredSound, Fits
<1>5. WritersSound  BY <1>1 DEF FilingInit, WritersSound
<1>6. DOMAIN sync = Syncs /\ \A s \in Syncs : sync[s] = NoSync  BY <1>2 DEF Unfiled
<1>7. ASSUME NEW s \in Syncs PROVE SyncSound(s)
  <2>1. NoSync.got = <<>> /\ NoSync.all = <<>> /\ NoSync.batches = 0 /\ NoSync.failed = {} /\ NoSync.at = "off"  BY DEF NoSync
  <2>2. <<>> \in Seq(ToSet(<<>>)) /\ ToSet(<<>>) = {}  BY DEF ToSet
  <2> QED  BY <1>6, <2>1, <2>2 DEF SyncSound
<1> QED  BY <1>2, <1>3, <1>4, <1>5, <1>6, <1>7 DEF HistoryInv

LEMMA FreshMedia == ASSUME Init PROVE MediaInv /\ Unsaved
<1>1. MediaInit  BY DEF Init
<1>2. scene \in Scenes  BY FreshStage DEF StageSound
<1>3. media = {} /\ temps = {} /\ cited = {} /\ DOMAIN keeping = Keepers /\ \A r \in Keepers : keeping[r] = NoKeeping  BY <1>1 DEF MediaInit, Keepers
<1>4. FilesSound  BY <1>3, FS_EmptySet DEF FilesSound
<1>5. \A r \in Keepers : KeeperSound(keeping[r])  BY <1>3, IdleSound
<1>6. Cleaner \in Keepers /\ Saves \subseteq Keepers  BY DEF Keepers
<1>7. \A r \in Keepers : keeping[r].at = "off"  BY <1>3, IdleSound
<1>8. IdsApart  BY <1>6, <1>7 DEF IdsApart, Saving, Unplaced
<1>9. \A v \in Saves : SaverSound(v)  BY <1>6, <1>7 DEF SaverSound, InSlot, Counting, Fitting
<1>10. CleanerSound  BY <1>6, <1>7 DEF CleanerSound
<1>11. QuotaKept  BY <1>2, <1>3, NothingCounted
<1>12. Named  BY <1>3 DEF Named
<1> QED  BY <1>3, <1>4, <1>5, <1>8, <1>9, <1>10, <1>11, <1>12 DEF MediaInv, Unsaved

LEMMA FilingStep ==
  ASSUME Next
  PROVE  scene' = scene /\ \/ scene.part = "filing" /\ FilingNext /\ UNCHANGED mediaVars
                           \/ scene.part = "media" /\ MediaNext /\ UNCHANGED filingVars
                           \/ scene.part \notin {"filing", "media"} /\ UNCHANGED <<filingVars, mediaVars>>
<1> HIDE DEF filingVars, mediaVars
<1>1. scene' = scene  BY Zenon DEF Next
<1>2. \/ scene.part = "filing" /\ FilingNext /\ UNCHANGED mediaVars
      \/ scene.part = "media" /\ MediaNext /\ UNCHANGED filingVars
      \/ scene.part # "filing" /\ scene.part # "media" /\ UNCHANGED filingVars /\ UNCHANGED mediaVars
  BY Zenon DEF Next
<1> QED  BY <1>1, <1>2

LEMMA FilingKept == ASSUME FilingInv, Next PROVE FilingInv'
<1>1. scene' = scene  BY FilingStep
<1>2. CASE scene.part = "filing" /\ FilingNext /\ UNCHANGED mediaVars
  <2>1. StageSound' /\ HistoryInv'  BY <1>2, HistoryStep DEF FilingInv
  <2>2. Unsaved'  BY <1>2, UnsavedStays DEF FilingInv
  <2> QED  BY <1>1, <1>2, <2>1, <2>2 DEF FilingInv
<1>3. CASE scene.part = "media" /\ MediaNext /\ UNCHANGED filingVars
  <2>1. StageSound' /\ MediaInv'  BY <1>3, MediaStep DEF FilingInv
  <2>2. Unfiled'  BY <1>1, <1>3, UnfiledStays DEF FilingInv
  <2> QED  BY <1>1, <1>3, <2>1, <2>2 DEF FilingInv
<1>4. CASE scene.part \notin {"filing", "media"} /\ UNCHANGED <<filingVars, mediaVars>>
  <2>1. Unfiled'  BY <1>1, <1>4, UnfiledStays DEF FilingInv
  <2>2. Unsaved'  BY <1>4, UnsavedStays DEF FilingInv
  <2> QED  BY <1>1, <1>4, <2>1, <2>2 DEF FilingInv
<1> QED  BY <1>2, <1>3, <1>4, FilingStep

LEMMA FilingStays == ASSUME FilingInv, UNCHANGED vars PROVE FilingInv'
<1>1. UNCHANGED <<stage, filingVars, mediaVars>>  BY Zenon DEF vars
<1>2. UNCHANGED stage /\ UNCHANGED filingVars /\ UNCHANGED mediaVars  BY <1>1
<1>3. scene' = scene  BY <1>2 DEF stage
<1>4. Unfiled => Unfiled'  BY <1>2, <1>3, UnfiledStays
<1>5. Unsaved => Unsaved'  BY <1>2, UnsavedStays
<1>6. StageSound => StageSound' /\ StageStep  BY <1>2, SpendsStage DEF Spends
<1>7. StageSound /\ MediaInv => MediaInv'  BY <1>2, <1>6, MediaWaits
<1>8. HistoryInv => HistoryInv'
  <2>1. UNCHANGED <<scene, left, rooms, registry, stored, writer, sync>>  BY <1>2 DEF stage, filingVars
  <2>2. RoomsSound => RoomsSound'  BY <2>1, Zenon DEF RoomsSound
  <2>3. StoredSound => StoredSound'  BY <2>1, Zenon DEF StoredSound, Fits
  <2>4. WritersSound => WritersSound'  BY <2>1, Zenon DEF WritersSound
  <2>5. Spared' <=> Spared  BY <2>1, Zenon DEF Spared, Spent
  <2>6. \A s \in Syncs : SyncSound(s) => SyncSound(s)'  BY <2>1, <2>5, Zenon DEF SyncSound, HasRoom, HasMessage
  <2> QED  BY <2>1, <2>2, <2>3, <2>4, <2>6, Zenon DEF HistoryInv
<1> QED  BY <1>3, <1>4, <1>5, <1>6, <1>7, <1>8 DEF FilingInv

(* What messages say of their rooms and of their files is so: a room has   *)
(* one row and a message is stored once, in the row of its room, however   *)
(* turns, histories and webhooks meet; and however saves, deletions, the   *)
(* cleaner and a crash do, the directory keeps to its quota and a file     *)
(* that is named is there, or its going is told of (agent/index.ts:447-489,*)
(* syncHistoricalDatabase.ts:109-220, mediaShared.ts:132-211,              *)
(* MediaCleanup.ts:20-84).                                                 *)
THEOREM FilingStaysTrue == Spec => []FilingTrue
<1>1. Init => FilingInv  BY FreshStage, FreshHistory, FreshMedia DEF FilingInv, StageSound
<1>2. FilingInv /\ [Next]_vars => FilingInv'  BY FilingKept, FilingStays
<1>3. FilingInv => FilingTrue  BY FilingFollow
<1> QED  BY <1>1, <1>2, <1>3, PTL DEF Spec

-----------------------------------------------------------------------------
(* The console of a scene that plays another part is never signed in to.   *)
ConsoleInv == RegistryInv /\ IF scene.part = "console" THEN SessionsInv ELSE issued = <<>>

LEMMA FreshConsole == ASSUME Init PROVE ConsoleInv
<1>1. scene \in Scenes /\ now = 0 /\ ConsoleInit  BY Zenon DEF Init, StageInit
<1>2. sessions = <<>> /\ cookie = [b \in Browsers |-> 0] /\ issued = <<>> /\ signedOut = {}  BY <1>1, Zenon DEF ConsoleInit
<1>3. DOMAIN sessions = {} /\ Cardinality({}) = 0 /\ Len(issued) = 0 /\ issued \in Seq(Nat)  BY <1>2, FS_EmptySet
<1>4. Signed  BY <1>2, <1>3 DEF Signed
<1>5. SessionsInv  BY <1>1, <1>3, <1>4, ConsoleAssumption DEF SessionsInv
<1> QED  BY <1>1, <1>2, <1>5, FreshRegistry DEF ConsoleInv

(* A step of another part leaves the console alone. *)
LEMMA ConsoleStep ==
  ASSUME Next
  PROVE  scene' = scene /\ ((scene.part = "console" /\ ConsoleNext) \/ (scene.part # "console" /\ UNCHANGED consoleVars))
<1>1. scene' = scene  BY Zenon DEF Next
<1>2. scene.part = "console" => ConsoleNext
  <2> SUFFICES ASSUME scene.part = "console" PROVE ConsoleNext  OBVIOUS
  <2> QED  BY DEF Next
<1>3. (scene.part = "console" /\ ConsoleNext) \/ UNCHANGED consoleVars  BY Zenon DEF Next
<1> QED  BY <1>1, <1>2, <1>3

LEMMA ConsoleKept == ASSUME ConsoleInv, Next PROVE ConsoleInv'
<1>1. scene' = scene  BY ConsoleStep
<1>2. CASE scene.part = "console" /\ ConsoleNext
  <2>1. RegistryInv' /\ SessionsInv'  BY <1>1, <1>2, RegistryStep, SessionsStep DEF ConsoleInv
  <2> QED  BY <1>1, <1>2, <2>1 DEF ConsoleInv
<1>3. CASE scene.part # "console" /\ UNCHANGED consoleVars
  <2>1. UNCHANGED registryVars /\ issued' = issued  BY <1>3, Zenon DEF consoleVars, registryVars
  <2>2. RegistryInv'  BY <1>1, <2>1, RegistryStays DEF ConsoleInv
  <2> QED  BY <1>1, <1>3, <2>1, <2>2 DEF ConsoleInv
<1> QED  BY <1>2, <1>3, ConsoleStep

LEMMA ConsoleStays == ASSUME ConsoleInv, UNCHANGED vars PROVE ConsoleInv'
<1>1. UNCHANGED <<stage, consoleVars>>  BY Zenon DEF vars
<1>2. UNCHANGED <<scene, now, registryVars, sessions, cookie, issued, signedOut>>  BY <1>1, Zenon DEF stage, consoleVars, registryVars
<1>3. RegistryInv'  BY <1>2, RegistryStays DEF ConsoleInv
<1>4. scene.part = "console" => SessionsInv'  BY <1>2, SessionsLast DEF ConsoleInv
<1> QED  BY <1>2, <1>3, <1>4 DEF ConsoleInv

LEMMA ConsoleFollows == ASSUME ConsoleInv PROVE ConsoleSound
<1>1. RegistrySound  BY RegistryFollows DEF ConsoleInv
<1>2. CASE scene.part = "console"  BY <1>1, <1>2, SessionsFollow DEF ConsoleInv, ConsoleSound
<1>3. CASE scene.part # "console"
  <2>1. 1 .. Len(issued) = {}  BY <1>3 DEF ConsoleInv
  <2>2. SessionKept  BY <2>1 DEF SessionKept
  <2> QED  BY <1>1, <2>2 DEF ConsoleSound
<1> QED  BY <1>2, <1>3

(* A session lasts until it expires, is signed out of or is the oldest of  *)
(* too many, and no longer; the tools are those of the last load that has  *)
(* ended, answer to their names and ask for no more than is allowed        *)
(* (auth.ts:93-160, registry.ts:618-679).                                  *)
THEOREM ConsoleStaysSound == Spec => []ConsoleSound
<1>1. Init => ConsoleInv  BY FreshConsole
<1>2. ConsoleInv /\ [Next]_vars => ConsoleInv'  BY ConsoleKept, ConsoleStays
<1>3. ConsoleInv => ConsoleSound  BY ConsoleFollows
<1> QED  BY <1>1, <1>2, <1>3, PTL DEF Spec
=============================================================================
