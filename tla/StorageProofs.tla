---------------------------- MODULE StorageProofs ----------------------------
(***************************************************************************)
(* Lemmas about what is stored: the database file with its leases, backups *)
(* and retention (Store), the consent behind what is remembered            *)
(* (Knowledge), and histories with the files of their media (Filing).      *)
(* UpkeepProofs proves the theorems they lead to.  The downloads that      *)
(* bring those files have theirs here: what they hold is a sum as well,    *)
(* and their queues are those of the programs (UpkeepProofs).  The lemmas  *)
(* about the console's sessions and the registry are at the end.           *)
(*                                                                         *)
(* Each part has an invariant of its own that its steps keep.  What the    *)
(* recursive functions, the folds and the batches of the model compute is  *)
(* shown by induction over numbers, with the property as a set             *)
(* (NumbersReached, and Least for its least element).                      *)
(***************************************************************************)
EXTENDS Store, Filing, Knowledge, Console, Downloads, FiniteSetTheorems, WellFoundedInduction, TLAPS

(* A set of numbers that is not empty has a least one. *)
LEMMA Least ==
  ASSUME NEW T, T \subseteq Nat, T # {}
  PROVE  \E x \in T : \A y \in T : x <= y
<1> DEFINE R == OpToRel(<, Nat)
<1>1. IsWellFoundedOn(R, Nat)  BY NatLessThanWellFounded, Zenon
<1>2. \A p : p \in R <=> p \in Nat \X Nat /\ p[1] < p[2]  BY DEF OpToRel
<1> HIDE DEF R
<1>3. PICK x \in T : \A y \in T : ~(<<y, x>> \in R)  BY <1>1, WFMin, Zenon
<1>4. \A y \in T : ~(y < x)  BY <1>3, <1>2
<1> QED  BY <1>3, <1>4

(* Induction over numbers, with the property as a set. *)
LEMMA NumbersReached ==
  ASSUME NEW S, 0 \in S, \A n \in Nat : n \in S => n + 1 \in S
  PROVE  \A n \in Nat : n \in S
<1> SUFFICES ASSUME {n \in Nat : n \notin S} # {} PROVE FALSE  OBVIOUS
<1>1. PICK x \in {n \in Nat : n \notin S} : \A y \in {n \in Nat : n \notin S} : x <= y  BY Least
<1>2. x # 0 /\ x - 1 \in Nat  BY <1>1
<1>3. x - 1 \in S  BY <1>1, <1>2
<1> QED  BY <1>1, <1>2, <1>3
-----------------------------------------------------------------------------
(* Store.  What is spent is counted; a scene is never changed.             *)
StageSound ==
  /\ scene \in Scenes /\ DOMAIN left = DOMAIN scene.left
  /\ \A k \in DOMAIN left : left[k] \in Nat /\ left[k] <= scene.left[k]
  /\ now \in Nat

LEMMA Spending ==
  ASSUME StageSound, NEW kind, Spend(kind)
  PROVE  /\ StageSound' /\ now' = now /\ DOMAIN left' = DOMAIN left
         /\ \A k \in DOMAIN left : left'[k] = IF k = kind THEN left[k] - 1 ELSE left[k]
<1>1. /\ kind \in DOMAIN left /\ left[kind] \in Nat /\ left[kind] > 0 /\ now' = now /\ scene' = scene
      /\ left' = [left EXCEPT ![kind] = left[kind] - 1]
  BY DEF Spend, StageSound
<1>2. DOMAIN left' = DOMAIN left /\ \A k \in DOMAIN left : left'[k] = IF k = kind THEN left[k] - 1 ELSE left[k]  BY <1>1
<1>3. \A k \in DOMAIN left : left'[k] \in Nat /\ left'[k] <= scene.left[k]
  <2>1. \A k \in DOMAIN left : left[k] \in Nat /\ left[k] <= scene.left[k] /\ scene.left[k] \in Nat  BY StageAssumption DEF StageSound
  <2> QED  BY <1>1, <1>2, <2>1
<1> QED  BY <1>1, <1>2, <1>3 DEF StageSound

LEMMA Ticking ==
  ASSUME StageSound, Tick
  PROVE  /\ StageSound' /\ now' = now + 1 /\ DOMAIN left' = DOMAIN left
         /\ \A k \in DOMAIN left : left'[k] = IF k = "tick" THEN left[k] - 1 ELSE left[k]
<1>1. /\ "tick" \in DOMAIN left /\ left["tick"] \in Nat /\ left["tick"] > 0 /\ now' = now + 1 /\ scene' = scene
      /\ left' = [left EXCEPT !["tick"] = left["tick"] - 1]
  BY DEF Tick, StageSound
<1>2. DOMAIN left' = DOMAIN left /\ \A k \in DOMAIN left : left'[k] = IF k = "tick" THEN left[k] - 1 ELSE left[k]  BY <1>1
<1>3. \A k \in DOMAIN left : left'[k] \in Nat /\ left'[k] <= scene.left[k]
  <2>1. \A k \in DOMAIN left : left[k] \in Nat /\ left[k] <= scene.left[k] /\ scene.left[k] \in Nat  BY StageAssumption DEF StageSound
  <2> QED  BY <1>1, <1>2, <2>1
<1> QED  BY <1>1, <1>2, <1>3 DEF StageSound

(* How a step of the store leaves the stage. *)
StageStep ==
  /\ scene' = scene /\ now' >= now /\ DOMAIN left' = DOMAIN left
  /\ \A k \in DOMAIN left : left'[k] \in Nat /\ left'[k] <= left[k]
-----------------------------------------------------------------------------
(* A process that runs, and did not oversleep, holds the lease for as long *)
(* as its next beat is not missed.                                         *)
LeaseShape ==
  /\ DOMAIN lease = {"migration", "runtime"}
  /\ \A l \in DOMAIN lease : DOMAIN lease[l] = {"owner", "until"} /\ lease[l].until \in Int
  /\ DOMAIN proc = Procs
  /\ \A p \in Procs : DOMAIN proc[p] = {"at", "run", "pending", "beat"} /\ proc[p].beat \in Int

Holds(p) == lease["runtime"].owner = Me(p) /\ lease["runtime"].until > now
RunnerSound(p) ==
  proc[p].at = "running" /\ p \notin slept =>
    /\ Holds(p) => lease["runtime"].until >= proc[p].beat - 1 + Ttl
    /\ p \notin stalled => Holds(p)

RunnersInv == LeaseShape /\ now \in Nat /\ \A p \in Procs : RunnerSound(p)

(* What another process does, and its own steps before and after.          *)
Calm(p) ==
  /\ now' = now /\ stalled' = stalled /\ slept' = slept
  /\ DOMAIN lease' = DOMAIN lease /\ \A l \in DOMAIN lease : DOMAIN lease'[l] = {"owner", "until"} /\ lease'[l].until \in Int
  /\ lease'["runtime"] = lease["runtime"] \/ (lease["runtime"].owner = Me(p) /\ lease'["runtime"].until = 0)
  /\ DOMAIN proc' = Procs /\ \A q \in Procs \ {p} : proc'[q] = proc[q]
  /\ DOMAIN proc'[p] = {"at", "run", "pending", "beat"} /\ proc'[p].beat \in Int /\ proc'[p].at # "running"

LEMMA CalmKept == ASSUME RunnersInv, NEW p \in Procs, Calm(p) PROVE RunnersInv'
<1>1. LeaseShape'  BY DEF Calm, RunnersInv, LeaseShape
<1>2. ASSUME NEW q \in Procs, q # p PROVE RunnerSound(q)'
  <2>1. proc'[q] = proc[q] /\ now' = now /\ stalled' = stalled /\ slept' = slept /\ Me(q)' = Me(q)  BY <1>2 DEF Calm, Me
  <2>2. RunnerSound(q) /\ now \in Nat  BY DEF RunnersInv
  <2>3. CASE lease'["runtime"] = lease["runtime"]  BY <2>1, <2>2, <2>3 DEF RunnerSound, Holds
  <2>4. CASE lease["runtime"].owner = Me(p) /\ lease'["runtime"].until = 0
    <3>1. Me(q) # Me(p)  BY <1>2 DEF Me
    <3>2. ~Holds(q) /\ ~Holds(q)'  BY <2>1, <2>2, <2>4, <3>1 DEF Holds
    <3> QED  BY <2>1, <2>2, <3>2 DEF RunnerSound
  <2> QED  BY <2>3, <2>4 DEF Calm
<1>3. RunnerSound(p)'  BY DEF Calm, RunnerSound
<1> QED  BY <1>1, <1>2, <1>3 DEF RunnersInv, Calm

(* A lease is taken, or renewed by its owner. *)
Takes(p) ==
  /\ now' = now /\ stalled' = stalled /\ slept' = slept
  /\ lease["runtime"].until <= now \/ lease["runtime"].owner = Me(p)
  /\ lease' = Acquired("runtime", p)
  /\ DOMAIN proc' = Procs /\ \A q \in Procs \ {p} : proc'[q] = proc[q]
  /\ DOMAIN proc'[p] = {"at", "run", "pending", "beat"} /\ proc'[p].beat = now + 1 /\ proc'[p].run = proc[p].run

LEMMA TakesKept == ASSUME RunnersInv, NEW p \in Procs, Takes(p) PROVE RunnersInv'
<1>1. /\ DOMAIN lease' = DOMAIN lease /\ lease'["runtime"] = [owner |-> Me(p), until |-> now + Ttl]
      /\ \A l \in DOMAIN lease : l # "runtime" => lease'[l] = lease[l]
  BY DEF Takes, Acquired, RunnersInv, LeaseShape
<1>2. now \in Nat /\ Ttl \in Nat /\ Ttl >= 2 /\ now' = now  BY StoreAssumption DEF RunnersInv, Takes
<1>3. LeaseShape'
  <2>1. \A l \in DOMAIN lease : DOMAIN lease'[l] = {"owner", "until"} /\ lease'[l].until \in Int
    BY <1>1, <1>2 DEF RunnersInv, LeaseShape
  <2>2. \A q \in Procs : DOMAIN proc'[q] = {"at", "run", "pending", "beat"} /\ proc'[q].beat \in Int
    BY <1>2 DEF RunnersInv, LeaseShape, Takes
  <2> QED  BY <1>1, <2>1, <2>2 DEF RunnersInv, LeaseShape, Takes
<1>4. lease'["runtime"].owner = Me(p) /\ lease'["runtime"].until = now + Ttl  BY <1>1
<1>5. ASSUME NEW q \in Procs, q # p PROVE RunnerSound(q)'
  <2>1. proc'[q] = proc[q] /\ stalled' = stalled /\ slept' = slept /\ Me(q)' = Me(q)  BY <1>5 DEF Takes, Me
  <2>2. Me(q) # Me(p)  BY <1>5 DEF Me
  <2>3. ~Holds(q)
    <3>1. CASE lease["runtime"].until <= now
      <4>1. lease["runtime"].until \in Int /\ now \in Nat  BY DEF RunnersInv, LeaseShape
      <4> QED  BY <3>1, <4>1 DEF Holds
    <3>2. CASE lease["runtime"].owner = Me(p)  BY <2>2, <3>2 DEF Holds
    <3> QED  BY <3>1, <3>2 DEF Takes
  <2>4. ~Holds(q)'  BY <1>4, <2>1, <2>2 DEF Holds
  <2>5. RunnerSound(q)  BY DEF RunnersInv
  <2> QED  BY <2>1, <2>3, <2>4, <2>5 DEF RunnerSound
<1>6. RunnerSound(p)'
  <2>1. Me(p)' = Me(p) /\ proc'[p].beat = now + 1  BY DEF Me, Takes
  <2>2. Holds(p)'  BY <1>2, <1>4, <2>1 DEF Holds
  <2>3. lease'["runtime"].until >= proc'[p].beat - 1 + Ttl  BY <1>2, <1>4, <2>1
  <2> QED  BY <2>2, <2>3 DEF RunnerSound
<1> QED  BY <1>2, <1>3, <1>5, <1>6 DEF RunnersInv

LEMMA StallKept == ASSUME RunnersInv, NEW p \in Procs, now' = now, Stall(p) \/ Wake(p) PROVE RunnersInv'
<1>1. lease' = lease /\ proc' = proc /\ now' = now  BY DEF Stall, Wake
<1>2. LeaseShape' /\ now' \in Nat  BY <1>1 DEF RunnersInv, LeaseShape
<1>3. ASSUME NEW q \in Procs PROVE RunnerSound(q)'
  <2>1. RunnerSound(q) /\ (Holds(q)' <=> Holds(q))  BY <1>1 DEF RunnersInv, Holds, Me
  <2>2. CASE Stall(p)
    <3>1. slept' = slept /\ stalled' = stalled \cup {p}  BY <2>2 DEF Stall
    <3> QED  BY <1>1, <2>1, <3>1 DEF RunnerSound
  <2>3. CASE Wake(p)
    <3>1. stalled' = stalled \ {p} /\ slept' = (IF Renewable(p) THEN slept ELSE slept \cup {p})  BY <2>3 DEF Wake
    <3>2. q \in stalled' \/ q = p \/ q \notin stalled  BY <3>1
    <3>3. Renewable(p) => Holds(p)  BY DEF Renewable, Active, Holds
    <3>4. CASE q = p /\ ~Renewable(p)  BY <3>1, <3>4 DEF RunnerSound
    <3>5. CASE q = p /\ Renewable(p)  BY <1>1, <2>1, <3>1, <3>3, <3>5 DEF RunnerSound
    <3>6. CASE q # p  BY <1>1, <2>1, <3>1, <3>2, <3>6 DEF RunnerSound
    <3> QED  BY <3>4, <3>5, <3>6
  <2> QED  BY <2>2, <2>3
<1> QED  BY <1>2, <1>3 DEF RunnersInv

LEMMA TickKept == ASSUME RunnersInv, OnTime, now' = now + 1, UNCHANGED procVars PROVE RunnersInv'
<1>1. lease' = lease /\ proc' = proc /\ stalled' = stalled /\ slept' = slept /\ now \in Nat  BY DEF procVars, RunnersInv
<1>2. LeaseShape' /\ now' \in Nat  BY <1>1 DEF RunnersInv, LeaseShape
<1>3. ASSUME NEW q \in Procs PROVE RunnerSound(q)'
  <2>1. RunnerSound(q) /\ lease["runtime"].until \in Int /\ proc[q].beat \in Int /\ Ttl \in Nat /\ Ttl >= 2  BY StoreAssumption DEF RunnersInv, LeaseShape
  <2>2. Holds(q)' => Holds(q)  BY <1>1, <2>1 DEF Holds, Me
  <2>3. ASSUME proc[q].at = "running", q \notin slept, q \notin stalled PROVE Holds(q)'
    <3>1. proc[q].beat > now  BY <2>3 DEF OnTime, At
    <3>2. Holds(q) /\ lease["runtime"].until >= proc[q].beat - 1 + Ttl  BY <2>1, <2>3 DEF RunnerSound
    <3>3. lease["runtime"].until > now + 1  BY <1>1, <2>1, <3>1, <3>2
    <3> QED  BY <1>1, <3>2, <3>3 DEF Holds, Me
  <2> QED  BY <1>1, <2>1, <2>2, <2>3 DEF RunnerSound
<1> QED  BY <1>2, <1>3 DEF RunnersInv

(* The steps of a process, but for those that take its lease, are calm.    *)
Moved(p, at) ==
  /\ DOMAIN proc' = Procs /\ \A q \in Procs \ {p} : proc'[q] = proc[q]
  /\ DOMAIN proc'[p] = {"at", "run", "pending", "beat"} /\ proc'[p].beat \in Int /\ proc'[p].at = at

LEMMA Moving == ASSUME LeaseShape, NEW p \in Procs, NEW at, To(p, at) PROVE Moved(p, at) /\ proc'[p].beat = proc[p].beat /\ proc'[p].run = proc[p].run
<1> DEFINE r == [proc[p] EXCEPT !.at = at]
<1>1. proc' = [proc EXCEPT ![p] = r]  BY Zenon DEF To
<1>2. DOMAIN r = {"at", "run", "pending", "beat"} /\ r.at = at /\ r.beat = proc[p].beat /\ r.run = proc[p].run /\ r.beat \in Int  BY DEF LeaseShape
<1> HIDE DEF r
<1> QED  BY <1>1, <1>2 DEF Moved, LeaseShape

Leases(p) ==
  /\ DOMAIN lease' = DOMAIN lease /\ \A l \in DOMAIN lease : DOMAIN lease'[l] = {"owner", "until"} /\ lease'[l].until \in Int
  /\ lease'["runtime"] = lease["runtime"] \/ (lease["runtime"].owner = Me(p) /\ lease'["runtime"].until = 0)

LEMMA LettingGo == ASSUME LeaseShape, NEW p, NEW l \in DOMAIN lease, lease' = Released(l, p) PROVE Leases(p)
<1> DEFINE r == IF lease[l].owner = Me(p) THEN Unheld ELSE lease[l]
<1>1. lease' = [lease EXCEPT ![l] = r]  BY Zenon DEF Released
<1>2. DOMAIN r = {"owner", "until"} /\ r.until \in Int /\ (r = lease[l] \/ (lease[l].owner = Me(p) /\ r.until = 0))  BY DEF LeaseShape, Unheld
<1> HIDE DEF r
<1> QED  BY <1>1, <1>2 DEF Leases, LeaseShape

LEMMA SameLease == ASSUME LeaseShape, NEW p, lease' = lease PROVE Leases(p)
BY DEF LeaseShape, Leases

LEMMA BothCalm ==
  ASSUME NEW p, NEW at, Moved(p, at), at # "running", Leases(p), now' = now, stalled' = stalled, slept' = slept
  PROVE  Calm(p)
BY DEF Moved, Leases, Calm

LEMMA RefusedLeases == ASSUME LeaseShape, NEW p, Refused(p) PROVE Leases(p) /\ To(p, "off")
<1>1. "migration" \in DOMAIN lease  BY DEF LeaseShape
<1> QED  BY <1>1, LettingGo DEF Refused

(* A step of the start that is To some place, or refused. *)
LEMMA OnwardCalm ==
  ASSUME LeaseShape, NEW p \in Procs, NEW at, at # "running", (To(p, at) /\ lease' = lease) \/ Refused(p), now' = now, stalled' = stalled, slept' = slept
  PROVE  Calm(p)
<1>1. CASE To(p, at) /\ lease' = lease
  <2>1. Moved(p, at) /\ Leases(p)  BY <1>1, Moving, SameLease
  <2> QED  BY <2>1, BothCalm
<1>2. CASE Refused(p)
  <2>1. Moved(p, "off") /\ Leases(p)  BY <1>2, Moving, RefusedLeases
  <2> QED  BY <2>1, BothCalm
<1> QED  BY <1>1, <1>2

Starting(p) == Open(p) \/ Inspect(p) \/ TakeMigration(p) \/ LookRuntime(p) \/ Verify(p) \/ Migrate(p) \/ Record(p) \/ EndMigration(p)

LEMMA StartingCalm == ASSUME RunnersInv, NEW p \in Procs, Starting(p), now' = now, stalled' = stalled, slept' = slept PROVE Calm(p)
<1>0. LeaseShape  BY DEF RunnersInv
<1>1. CASE Open(p)
  <2> DEFINE r == [at |-> "opened", run |-> proc[p].run + 1, pending |-> FALSE, beat |-> 0]
  <2>1. proc' = [proc EXCEPT ![p] = r] /\ lease' = lease  BY <1>1, Zenon DEF Open
  <2>2. DOMAIN r = {"at", "run", "pending", "beat"} /\ r.beat = 0 /\ r.at = "opened"  OBVIOUS
  <2> HIDE DEF r
  <2>3. Moved(p, "opened")  BY <1>0, <2>1, <2>2 DEF Moved, LeaseShape
  <2> QED  BY <1>0, <2>1, <2>3, SameLease, BothCalm
<1>2. CASE Inspect(p)  
  <2>1. (To(p, "inspected") /\ lease' = lease) \/ Refused(p)  BY <1>2 DEF Inspect
  <2> QED  BY <1>0, <2>1, OnwardCalm
<1>3. CASE TakeMigration(p)
  <2>1. CASE Refused(p)  BY <1>0, <2>1, OnwardCalm
  <2>2. CASE To(p, "leased") /\ lease' = Acquired("migration", p)
    <3>1. /\ DOMAIN lease' = DOMAIN lease /\ lease'["runtime"] = lease["runtime"]
          /\ lease'["migration"] = [owner |-> Me(p), until |-> now + Ttl]
      BY <1>0, <2>2 DEF Acquired, LeaseShape
    <3>2. now + Ttl \in Int  BY StoreAssumption DEF RunnersInv
    <3>3. Leases(p)  BY <1>0, <3>1, <3>2 DEF Leases, LeaseShape
    <3>4. Moved(p, "leased")  BY <1>0, <2>2, Moving
    <3> QED  BY <3>3, <3>4, BothCalm
  <2> QED  BY <1>3, <2>1, <2>2 DEF TakeMigration
<1>4. CASE LookRuntime(p)
  <2>1. (To(p, "alone") /\ lease' = lease) \/ Refused(p)  BY <1>4 DEF LookRuntime
  <2> QED  BY <1>0, <2>1, OnwardCalm
<1>5. CASE Verify(p)
  <2>1. CASE Refused(p)  BY <1>0, <2>1, OnwardCalm
  <2>2. CASE ~Refused(p)
    <3> DEFINE pend == store.applied < scene.release[p]
               r == [proc[p] EXCEPT !.at = "verified", !.pending = pend]
    <3>1. proc' = [proc EXCEPT ![p].at = "verified", ![p].pending = pend] /\ lease' = lease  BY <1>5, <2>2 DEF Verify
    <3> HIDE DEF pend
    <3>2. proc' = [proc EXCEPT ![p] = r]  BY <3>1, Zenon
    <3>3. DOMAIN r = {"at", "run", "pending", "beat"} /\ r.beat \in Int /\ r.at = "verified"  BY <1>0 DEF LeaseShape
    <3> HIDE DEF r
    <3>4. Moved(p, "verified")  BY <1>0, <3>2, <3>3 DEF Moved, LeaseShape
    <3> QED  BY <1>0, <3>1, <3>4, SameLease, BothCalm
  <2> QED  BY <2>1, <2>2
<1>6. CASE Migrate(p)
  <2>1. To(p, "migrated") /\ lease' = lease  BY <1>6 DEF Migrate
  <2> QED  BY <1>0, <2>1, OnwardCalm
<1>7. CASE Record(p)
  <2>1. (To(p, "recorded") /\ lease' = lease) \/ Refused(p)  BY <1>7 DEF Record
  <2> QED  BY <1>0, <2>1, OnwardCalm
<1>8. CASE EndMigration(p)
  <2>1. To(p, "ensured") /\ lease' = Released("migration", p) /\ "migration" \in DOMAIN lease  BY <1>0, <1>8 DEF EndMigration, LeaseShape
  <2>2. Moved(p, "ensured") /\ Leases(p)  BY <1>0, <2>1, Moving, LettingGo
  <2> QED  BY <2>2, BothCalm
<1> QED  BY <1>1, <1>2, <1>3, <1>4, <1>5, <1>6, <1>7, <1>8 DEF Starting

Ending(p) == Close(p) \/ Crash(p) \/ (TakeRuntime(p) /\ ~Free("runtime")) \/ (Beat(p) /\ ~Renewable(p))

LEMMA EndingCalm == ASSUME RunnersInv, NEW p \in Procs, Ending(p), now' = now, stalled' = stalled, slept' = slept PROVE Calm(p)
<1>0. LeaseShape /\ "runtime" \in DOMAIN lease  BY DEF RunnersInv, LeaseShape
<1>1. CASE To(p, "off") /\ lease' = lease  BY <1>0, <1>1, OnwardCalm
<1>2. ASSUME NEW at, at # "running", To(p, at), lease' = Released("runtime", p) PROVE Calm(p)
  <2>1. Moved(p, at) /\ Leases(p)  BY <1>0, <1>2, Moving, LettingGo
  <2> QED  BY <1>2, <2>1, BothCalm
<1>3. Close(p) => To(p, "off") /\ lease' = Released("runtime", p)  BY DEF Close
<1>4. Crash(p) \/ (TakeRuntime(p) /\ ~Free("runtime")) => To(p, "off") /\ lease' = lease  BY DEF Crash, TakeRuntime
<1>5. Beat(p) /\ ~Renewable(p) => To(p, "closed") /\ lease' = Released("runtime", p)  BY DEF Beat
<1> QED  BY <1>1, <1>2, <1>3, <1>4, <1>5 DEF Ending

LEMMA TakingTakes ==
  ASSUME RunnersInv, NEW p \in Procs, (TakeRuntime(p) /\ Free("runtime")) \/ (Beat(p) /\ Renewable(p)), now' = now, stalled' = stalled, slept' = slept
  PROVE  Takes(p)
<1>0. LeaseShape /\ now \in Nat  BY DEF RunnersInv
<1>1. CASE TakeRuntime(p) /\ Free("runtime")
  <2> DEFINE r == [proc[p] EXCEPT !.at = "running", !.beat = now + 1]
  <2>1. proc' = [proc EXCEPT ![p].at = "running", ![p].beat = now + 1] /\ lease' = Acquired("runtime", p)  BY <1>1 DEF TakeRuntime
  <2>2. proc' = [proc EXCEPT ![p] = r]  BY <2>1, Zenon
  <2>3. DOMAIN r = {"at", "run", "pending", "beat"} /\ r.beat = now + 1 /\ r.run = proc[p].run  BY <1>0 DEF LeaseShape
  <2> HIDE DEF r
  <2>4. DOMAIN proc' = Procs /\ (\A q \in Procs \ {p} : proc'[q] = proc[q]) /\ proc'[p] = r  BY <1>0, <2>2 DEF LeaseShape
  <2>5. lease["runtime"].until <= now  BY <1>1 DEF Free
  <2> QED  BY <2>1, <2>3, <2>4, <2>5 DEF Takes
<1>2. CASE Beat(p) /\ Renewable(p)
  <2> DEFINE r == [proc[p] EXCEPT !.beat = now + 1]
  <2>1. proc' = [proc EXCEPT ![p].beat = now + 1] /\ lease' = Acquired("runtime", p)  BY <1>2 DEF Beat
  <2>2. proc' = [proc EXCEPT ![p] = r]  BY <2>1, Zenon
  <2>3. DOMAIN r = {"at", "run", "pending", "beat"} /\ r.beat = now + 1 /\ r.run = proc[p].run  BY <1>0 DEF LeaseShape
  <2> HIDE DEF r
  <2>4. DOMAIN proc' = Procs /\ (\A q \in Procs \ {p} : proc'[q] = proc[q]) /\ proc'[p] = r  BY <1>0, <2>2 DEF LeaseShape
  <2>5. lease["runtime"].owner = Me(p)  BY <1>2 DEF Renewable
  <2> QED  BY <2>1, <2>3, <2>4, <2>5 DEF Takes
<1> QED  BY <1>1, <1>2

LEMMA StillKept == ASSUME RunnersInv, UNCHANGED procVars \/ UNCHANGED <<lease, proc, stalled, slept>>, now' = now PROVE RunnersInv'
<1>1. lease' = lease /\ proc' = proc /\ stalled' = stalled /\ slept' = slept  BY DEF procVars
<1> QED  BY <1>1 DEF RunnersInv, LeaseShape, RunnerSound, Holds, Me

(* How the steps of the store leave the stage, and time.                   *)
Spends == UNCHANGED stage \/ \E k : Spend(k)

LEMMA SpendsStage == ASSUME StageSound, Spends PROVE StageSound' /\ StageStep /\ now' = now
<1>1. CASE UNCHANGED stage  BY <1>1 DEF stage, StageSound, StageStep
<1>2. ASSUME NEW k, Spend(k) PROVE StageSound' /\ StageStep /\ now' = now
  <2>1. /\ StageSound' /\ now' = now /\ DOMAIN left' = DOMAIN left
        /\ \A x \in DOMAIN left : left'[x] = IF x = k THEN left[x] - 1 ELSE left[x]
    BY <1>2, Spending
  <2>2. scene' = scene  BY <1>2 DEF Spend
  <2>3. \A x \in DOMAIN left : left'[x] \in Nat /\ left'[x] <= left[x]  BY <2>1 DEF StageSound
  <2> QED  BY <2>1, <2>2, <2>3 DEF StageStep, StageSound
<1> QED  BY <1>1, <1>2 DEF Spends

RunStep(p) == Starting(p) \/ TakeRuntime(p) \/ Beat(p) \/ Write(p) \/ Close(p) \/ Crash(p)
BackupStep(j) == Snapshot(j) \/ PublishFile(j) \/ PublishManifest(j) \/ Prune(j) \/ RemoveFile(j) \/ RemoveManifest(j) \/ EndBackup(j) \/ CrashBackup(j)
Restores == Rot \/ RestoreCopy \/ RestorePublish

LEMMA RunsSpend == ASSUME NEW p, RunStep(p) \/ Stall(p) \/ Wake(p) PROVE Spends
<1>2. CASE Inspect(p) \/ TakeMigration(p) \/ LookRuntime(p) \/ Verify(p) \/ Migrate(p) \/ Record(p) \/ EndMigration(p)
  BY <1>2 DEF Spends, Inspect, TakeMigration, LookRuntime, Verify, Migrate, Record, EndMigration
<1>3. CASE TakeRuntime(p) \/ Beat(p) \/ Close(p) \/ Wake(p)  BY <1>3 DEF Spends, TakeRuntime, Beat, Close, Wake
<1>4. CASE Open(p) \/ Write(p) \/ Crash(p) \/ Stall(p)  BY <1>4 DEF Spends, Open, Write, Crash, Stall
<1> QED  BY <1>2, <1>3, <1>4 DEF RunStep, Starting

LEMMA BacksSpend == ASSUME NEW j, BackupStep(j) \/ Restores PROVE Spends
<1>2. CASE PublishFile(j) \/ PublishManifest(j) \/ Prune(j) \/ RemoveFile(j) \/ RemoveManifest(j) \/ EndBackup(j) \/ RestorePublish
  BY <1>2 DEF Spends, PublishFile, PublishManifest, Prune, RemoveFile, RemoveManifest, EndBackup, RestorePublish
<1>3. CASE Snapshot(j) \/ CrashBackup(j) \/ Rot \/ RestoreCopy  BY <1>3 DEF Spends, Snapshot, CrashBackup, Rot, RestoreCopy
<1> QED  BY <1>2, <1>3 DEF BackupStep, Restores

(* The steps of the store, as the proofs take them apart.                  *)
LEMMA StoreSteps ==
  ASSUME StoreNext
  PROVE  \/ UNCHANGED backupVars /\ \E p \in Procs : Stall(p) \/ Wake(p) \/ (RunStep(p) /\ stalled' = stalled /\ slept' = slept)
         \/ UNCHANGED backupVars /\ OnTime /\ Tick /\ UNCHANGED procVars
         \/ UNCHANGED procVars /\ ((\E j \in Jobs : BackupStep(j)) \/ Restores)
BY Zenon DEF StoreNext, RunStep, Starting, BackupStep, Restores

LEMMA RunnersStep == ASSUME StageSound, RunnersInv, StoreNext PROVE StageSound' /\ StageStep /\ RunnersInv'
<1>1. ASSUME NEW p \in Procs, Stall(p) \/ Wake(p) PROVE StageSound' /\ StageStep /\ RunnersInv'
  <2>1. Spends  BY <1>1, RunsSpend
  <2>2. StageSound' /\ StageStep /\ now' = now  BY <2>1, SpendsStage
  <2> QED  BY <1>1, <2>2, StallKept
<1>2. ASSUME NEW p \in Procs, RunStep(p), stalled' = stalled, slept' = slept PROVE StageSound' /\ StageStep /\ RunnersInv'
  <2>1. Spends  BY <1>2, RunsSpend
  <2>2. StageSound' /\ StageStep /\ now' = now  BY <2>1, SpendsStage
  <2>3. CASE Starting(p)  BY <1>2, <2>2, <2>3, StartingCalm, CalmKept
  <2>4. CASE Ending(p)  BY <1>2, <2>2, <2>4, EndingCalm, CalmKept
  <2>5. CASE (TakeRuntime(p) /\ Free("runtime")) \/ (Beat(p) /\ Renewable(p))  BY <1>2, <2>2, <2>5, TakingTakes, TakesKept
  <2>6. CASE Write(p)
    <3>1. UNCHANGED <<lease, proc, stalled, slept>>  BY <1>2, <2>6 DEF Write
    <3> QED  BY <2>2, <3>1, StillKept
  <2> QED  BY <1>2, <2>3, <2>4, <2>5, <2>6 DEF RunStep, Ending
<1>3. ASSUME OnTime, Tick, UNCHANGED procVars PROVE StageSound' /\ StageStep /\ RunnersInv'
  <2>1. /\ StageSound' /\ now' = now + 1 /\ DOMAIN left' = DOMAIN left
        /\ \A k \in DOMAIN left : left'[k] = IF k = "tick" THEN left[k] - 1 ELSE left[k]
    BY <1>3, Ticking
  <2>2. scene' = scene /\ now \in Nat /\ \A k \in DOMAIN left : left[k] \in Nat  BY <1>3 DEF Tick, StageSound
  <2>3. StageStep
    <3>1. \A k \in DOMAIN left : left'[k] \in Nat /\ left'[k] <= left[k]  BY <2>1, <2>2 DEF StageSound
    <3> QED  BY <2>1, <2>2, <3>1 DEF StageStep
  <2> QED  BY <1>3, <2>1, <2>3, TickKept
<1>4. ASSUME UNCHANGED procVars, (\E j \in Jobs : BackupStep(j)) \/ Restores PROVE StageSound' /\ StageStep /\ RunnersInv'
  <2>1. Spends  BY <1>4, BacksSpend
  <2>2. StageSound' /\ StageStep /\ now' = now  BY <2>1, SpendsStage
  <2> QED  BY <1>4, <2>2, StillKept
<1> QED  BY <1>1, <1>2, <1>3, <1>4, StoreSteps, Zenon

LEMMA RunnersFollow == ASSUME RunnersInv PROVE OneInstance
BY DEF RunnersInv, RunnerSound, Holds, OneInstance, At, Active
-----------------------------------------------------------------------------
(* Backups.  The name of one is a number that was not used before; one is  *)
(* in the directory until there are enough that are no older.              *)
NamedBy(x) == "backup" \in DOMAIN left /\ x \in Nat /\ x <= scene.left["backup"] - left["backup"]
Since(m) == {n \in taken : n.created >= m.created}
Outlived(m) == Cardinality(Since(m)) > scene.keep
HasFile(name, snap) == [name |-> name, snap |-> snap] \in files \/ name \in rotten
Making(j) == job[j].at \in {"copied", "published"}

TakenSound ==
  /\ IsFiniteSet(taken) /\ manifests \subseteq taken
  /\ \A m \in taken : NamedBy(m.name) /\ m.created \in Nat
  /\ \A m, n \in taken : m.name = n.name => m = n

TakenKept == \A m \in taken : Outlived(m) \/ (m \in manifests /\ HasFile(m.name, m.snap))

(* Of those a job removes, and of the one whose file it has removed.       *)
RemovesOld(j) ==
  /\ job[j].at \in {"pruning", "unlinking"} => \A m \in job[j].doomed : m \in taken /\ Outlived(m)
  /\ job[j].at = "unlinking" => \E m \in taken : m.name = job[j].name /\ Outlived(m)

JobSound(j) ==
  /\ DOMAIN job[j] = {"at", "name", "created", "snap", "doomed"}
  /\ Making(j) => NamedBy(job[j].name) /\ job[j].created \in Nat /\ \A m \in taken : m.name # job[j].name
  /\ job[j].at = "published" => HasFile(job[j].name, job[j].snap)
  /\ RemovesOld(j)

JobsSound ==
  /\ DOMAIN job = Jobs /\ \A j \in Jobs : JobSound(j)
  /\ \A j, k \in Jobs : Making(j) /\ Making(k) /\ j # k => job[j].name # job[k].name

RestoreSound ==
  /\ DOMAIN restore = {"at", "manifest", "snap"}
  /\ restore.at \in {"copied", "published"} => restore.manifest \in taken
  /\ restore.at = "published" => Restorable(restore.snap, restore.manifest)

BackupsInv == TakenSound /\ TakenKept /\ JobsSound /\ RestoreSound

LEMMA NamedStill == ASSUME StageSound, StageStep PROVE \A x : NamedBy(x) => NamedBy(x)'
<1> SUFFICES ASSUME NEW x, NamedBy(x) PROVE NamedBy(x)'  OBVIOUS
<1>1. "backup" \in DOMAIN left /\ x \in Nat /\ x <= scene.left["backup"] - left["backup"]  BY DEF NamedBy
<1>2. left["backup"] \in Nat /\ scene.left["backup"] \in Nat  BY <1>1, StageAssumption DEF StageSound
<1>3. scene' = scene /\ DOMAIN left' = DOMAIN left /\ left'["backup"] <= left["backup"] /\ left'["backup"] \in Nat  BY <1>1 DEF StageStep
<1> QED  BY <1>1, <1>2, <1>3 DEF NamedBy

LEMMA OutlivedStill ==
  ASSUME StageSound, scene' = scene, TakenSound, taken \subseteq taken', IsFiniteSet(taken')
  PROVE  \A m : Outlived(m) => Outlived(m)'
<1> SUFFICES ASSUME NEW m, Outlived(m) PROVE Outlived(m)'  OBVIOUS
<1> DEFINE A == Since(m)  B == {n \in taken' : n.created >= m.created}
<1>1. A \subseteq B /\ B \subseteq taken'  BY DEF Since
<1>2. Outlived(m)' <=> Cardinality(B) > scene'.keep  BY DEF Outlived, Since
<1>3. Cardinality(A) > scene.keep /\ scene.keep \in Nat  BY StoreAssumption DEF Outlived, StageSound
<1> HIDE DEF A, B
<1>4. IsFiniteSet(B)  BY <1>1, FS_Subset
<1>5. Cardinality(A) <= Cardinality(B) /\ Cardinality(A) \in Nat /\ Cardinality(B) \in Nat  BY <1>1, <1>4, FS_Subset, FS_CardinalityType
<1> QED  BY <1>2, <1>3, <1>5

(* What stays of all this when one job goes on. *)
OneJob(j) == DOMAIN job' = Jobs /\ \A k \in Jobs \ {j} : job'[k] = job[k]
Lasting ==
  /\ \A x : NamedBy(x) => NamedBy(x)'
  /\ \A m : Outlived(m) => Outlived(m)'
  /\ taken \subseteq taken'

LEMMA SameTaken == ASSUME StageSound, StageStep, TakenSound, taken' = taken PROVE Lasting
<1>1. \A x : NamedBy(x) => NamedBy(x)'  BY NamedStill
<1>2. scene' = scene /\ taken \subseteq taken' /\ IsFiniteSet(taken')  BY DEF StageStep, TakenSound
<1>3. \A m : Outlived(m) => Outlived(m)'  BY <1>2, OutlivedStill
<1> QED  BY <1>1, <1>2, <1>3 DEF Lasting

LEMMA JobsKept ==
  ASSUME BackupsInv, Lasting, NEW j \in Jobs, OneJob(j), JobSound(j)',
         \A k \in Jobs \ {j} : Making(k) => /\ \A m \in taken' : m.name # job[k].name
                                            /\ job[k].at = "published" => HasFile(job[k].name, job[k].snap)'
                                            /\ Making(j)' => job'[j].name # job[k].name
  PROVE  JobsSound'
<1>1. ASSUME NEW k \in Jobs \ {j} PROVE JobSound(k)'
  <2>1. JobSound(k) /\ job'[k] = job[k] /\ (Making(k)' <=> Making(k))  BY DEF BackupsInv, JobsSound, OneJob, Making
  <2>2. Making(k) => NamedBy(job[k].name)'  BY <2>1 DEF JobSound, Lasting
  <2>3. job[k].at = "published" => Making(k)  BY DEF Making
  <2>4. RemovesOld(k)'
    <3>1. job[k].at \in {"pruning", "unlinking"} => \A m \in job[k].doomed : m \in taken' /\ Outlived(m)'  BY <2>1 DEF JobSound, RemovesOld, Lasting
    <3>2. job[k].at = "unlinking" => \E m \in taken' : m.name = job[k].name /\ Outlived(m)'
      <4> SUFFICES ASSUME job[k].at = "unlinking" PROVE \E m \in taken' : m.name = job[k].name /\ Outlived(m)'  OBVIOUS
      <4>1. PICK m \in taken : m.name = job[k].name /\ Outlived(m)  BY <2>1 DEF JobSound, RemovesOld
      <4>2. m \in taken' /\ Outlived(m)'  BY <4>1 DEF Lasting
      <4> QED  BY <4>1, <4>2
    <3> QED  BY <2>1, <3>1, <3>2 DEF RemovesOld
  <2>5. DOMAIN job'[k] = {"at", "name", "created", "snap", "doomed"}  BY <2>1 DEF JobSound
  <2>6. Making(k)' => NamedBy(job[k].name)' /\ job'[k].created \in Nat /\ \A m \in taken' : m.name # job'[k].name  BY <2>1, <2>2 DEF JobSound
  <2>7. job'[k].at = "published" => HasFile(job[k].name, job[k].snap)'  BY <2>1, <2>3
  <2> QED  BY <2>4, <2>5, <2>6, <2>7 DEF JobSound
<1>2. \A k, l \in Jobs \ {j} : Making(k)' /\ Making(l)' /\ k # l => job'[k].name # job'[l].name  BY DEF BackupsInv, JobsSound, OneJob, Making
<1>3. \A k \in Jobs \ {j} : Making(k)' /\ Making(j)' => job'[j].name # job'[k].name  BY DEF OneJob, Making
<1>4. \A k, l \in Jobs : Making(k)' /\ Making(l)' /\ k # l => job'[k].name # job'[l].name  BY <1>2, <1>3
<1> QED  BY <1>1, <1>4 DEF JobsSound, OneJob

(* With the directory and its history as they were. *)
LEMMA JobOnly ==
  ASSUME StageSound, StageStep, BackupsInv, UNCHANGED <<files, manifests, rotten, taken, restore>>, NEW j \in Jobs, OneJob(j),
         JobSound(j)', \A k \in Jobs \ {j} : Making(k) /\ Making(j)' => job'[j].name # job[k].name
  PROVE  BackupsInv'
<1>1. Lasting  BY SameTaken DEF BackupsInv
<1>2. \A k \in Jobs : JobSound(k)  BY DEF BackupsInv, JobsSound
<1>3. \A k \in Jobs \ {j} : Making(k) => /\ \A m \in taken' : m.name # job[k].name
                                         /\ job[k].at = "published" => HasFile(job[k].name, job[k].snap)'
                                         /\ Making(j)' => job'[j].name # job[k].name
  BY <1>2 DEF JobSound, HasFile, OneJob
<1>4. JobsSound'  BY <1>1, <1>3, JobsKept
<1>5. TakenSound'  BY <1>1 DEF BackupsInv, TakenSound, Lasting
<1>6. TakenKept'  BY <1>1 DEF BackupsInv, TakenKept, Lasting, HasFile
<1>7. RestoreSound'
  <2>1. scene' = scene  BY DEF StageStep
  <2> QED  BY <2>1 DEF BackupsInv, RestoreSound, Restorable, Contract, Required, Fingerprinted
<1> QED  BY <1>4, <1>5, <1>6, <1>7 DEF BackupsInv

LEMMA JobGoes ==
  ASSUME JobsSound, NEW j \in Jobs, NEW r, job' = [job EXCEPT ![j] = r]
  PROVE  OneJob(j) /\ job'[j] = r
BY DEF JobsSound, OneJob

LEMMA SnapshotKept == ASSUME StageSound, BackupsInv, NEW j \in Jobs, Snapshot(j) PROVE BackupsInv'
<1>a. PICK n : n = scene.left["backup"] - left["backup"] + 1  OBVIOUS
<1> DEFINE r == [at |-> "copied", name |-> n, created |-> now, snap |-> store, doomed |-> {}]
<1>0. Spends  BY DEF Snapshot, Spends
<1>1. StageStep  BY <1>0, SpendsStage
<1>2. job' = [job EXCEPT ![j] = r]  BY <1>a DEF Snapshot, Spent
<1>3. UNCHANGED <<files, manifests, rotten, taken, restore>>  BY DEF Snapshot
<1>4. /\ "backup" \in DOMAIN left /\ left["backup"] \in Nat /\ left'["backup"] = left["backup"] - 1
      /\ scene.left["backup"] \in Nat /\ scene' = scene /\ "backup" \in DOMAIN left'
  <2>1. Spend("backup")  BY DEF Snapshot
  <2>2. "backup" \in DOMAIN left  BY <2>1 DEF Spend
  <2>3. left'["backup"] = left["backup"] - 1  BY <2>1, <2>2, Spending
  <2> QED  BY <1>1, <2>2, <2>3, StageAssumption DEF StageSound, StageStep
<1>5. r.at = "copied" /\ r.name = n /\ r.created = now /\ DOMAIN r = {"at", "name", "created", "snap", "doomed"}  OBVIOUS
<1> HIDE DEF r
<1>6. OneJob(j) /\ job'[j] = r  BY <1>2, JobGoes DEF BackupsInv
<1>7. \A x : NamedBy(x) => x \in Nat /\ x < n /\ n \in Nat  BY <1>a, <1>4 DEF NamedBy
<1>8. JobSound(j)'
  <2>1. NamedBy(n)'
    <3>2. n \in Nat
      <4>1. left["backup"] <= scene.left["backup"]  BY <1>4 DEF StageSound
      <4> QED  BY <1>a, <1>4, <4>1
    <3> QED  BY <1>a, <1>4, <3>2 DEF NamedBy
  <2>2. \A m \in taken : m.name # n  BY <1>7 DEF BackupsInv, TakenSound
  <2>3. now \in Nat  BY DEF StageSound
  <2> QED  BY <1>3, <1>5, <1>6, <2>1, <2>2, <2>3 DEF JobSound, RemovesOld
<1>9. \A k \in Jobs \ {j} : Making(k) /\ Making(j)' => job'[j].name # job[k].name  BY <1>5, <1>6, <1>7 DEF BackupsInv, JobsSound, JobSound
<1> QED  BY <1>1, <1>3, <1>6, <1>8, <1>9, JobOnly

(* A job that is not making a backup any more, and removes none. *)
LEMMA RestingKept ==
  ASSUME StageSound, StageStep, BackupsInv, UNCHANGED <<files, manifests, rotten, taken, restore>>, NEW j \in Jobs, job' = [job EXCEPT ![j] = Idle]
  PROVE  BackupsInv'
<1>1. OneJob(j) /\ job'[j] = Idle  BY JobGoes DEF BackupsInv
<1>2. job'[j].at = "off" /\ DOMAIN job'[j] = {"at", "name", "created", "snap", "doomed"}  BY <1>1 DEF Idle
<1>3. JobSound(j)' /\ ~Making(j)'  BY <1>2 DEF JobSound, RemovesOld, Making
<1> QED  BY <1>1, <1>3, JobOnly

LEMMA PruneKept == ASSUME StageSound, BackupsInv, NEW j \in Jobs, Prune(j) PROVE BackupsInv'
<1>0. Spends  BY DEF Prune, Spends
<1>1. StageStep  BY <1>0, SpendsStage
<1>2. PICK d \in SUBSET manifests : Surplus(d) /\ job' = [job EXCEPT ![j].at = "pruning", ![j].doomed = {m \in d : m.name # job[j].name}]
  BY DEF Prune, Doomed
<1> DEFINE c == {m \in d : m.name # job[j].name}
           r == [job[j] EXCEPT !.at = "pruning", !.doomed = c]
<1>3. job' = [job EXCEPT ![j] = r]  BY <1>2, Zenon
<1>4. r.at = "pruning" /\ r.doomed = c /\ DOMAIN r = {"at", "name", "created", "snap", "doomed"}  BY DEF BackupsInv, JobsSound, JobSound
<1> HIDE DEF r
<1>5. UNCHANGED <<files, manifests, rotten, taken, restore>>  BY DEF Prune
<1>6. \A m \in d : m \in taken /\ Outlived(m)
  <2> SUFFICES ASSUME NEW m \in d PROVE m \in taken /\ Outlived(m)  OBVIOUS
  <2> DEFINE A == manifests \ d
  <2>1. IsFiniteSet(taken) /\ manifests \subseteq taken /\ \A x \in taken : x.created \in Nat  BY DEF BackupsInv, TakenSound
  <2>2. Cardinality(A) = scene.keep /\ \A x \in A : m.created <= x.created  BY <1>2 DEF Surplus
  <2>3. A \cup {m} \subseteq Since(m) /\ Since(m) \subseteq taken /\ m \notin A /\ A \subseteq taken  BY <2>1, <2>2 DEF Since
  <2> HIDE DEF A
  <2>4. IsFiniteSet(A) /\ IsFiniteSet(Since(m))  BY <2>1, <2>3, FS_Subset
  <2>5. Cardinality(A \cup {m}) = Cardinality(A) + 1  BY <2>3, <2>4, FS_AddElement
  <2>6. Cardinality(A \cup {m}) <= Cardinality(Since(m)) /\ Cardinality(Since(m)) \in Nat /\ Cardinality(A) \in Nat  BY <2>3, <2>4, FS_Subset, FS_CardinalityType
  <2>7. Outlived(m)  BY <2>2, <2>5, <2>6 DEF Outlived
  <2> QED  BY <2>1, <2>7
<1>7. Lasting  BY <1>1, <1>5, SameTaken DEF BackupsInv
<1>8. OneJob(j) /\ job'[j] = r  BY <1>3, JobGoes DEF BackupsInv
<1>9. JobSound(j)' /\ ~Making(j)'
  <2>1. \A m \in c : m \in taken' /\ Outlived(m)'  BY <1>6, <1>7 DEF Lasting
  <2>2. ~Making(j)'  BY <1>4, <1>8 DEF Making
  <2> QED  BY <1>4, <1>8, <2>1, <2>2 DEF JobSound, RemovesOld
<1> QED  BY <1>1, <1>5, <1>8, <1>9, JobOnly

LEMMA PublishFileKept == ASSUME StageSound, BackupsInv, NEW j \in Jobs, PublishFile(j) PROVE BackupsInv'
<1> DEFINE r == [job[j] EXCEPT !.at = "published"]
<1>0. Spends  BY DEF PublishFile, Spends
<1>1. StageStep  BY <1>0, SpendsStage
<1>2. job' = [job EXCEPT ![j] = r]  BY Zenon DEF PublishFile
<1>3. /\ r.at = "published" /\ r.name = job[j].name /\ r.snap = job[j].snap /\ r.created = job[j].created
      /\ DOMAIN r = {"at", "name", "created", "snap", "doomed"}
  BY DEF BackupsInv, JobsSound, JobSound
<1> HIDE DEF r
<1>4. OneJob(j) /\ job'[j] = r  BY <1>2, JobGoes DEF BackupsInv
<1>5. /\ files' = files \cup {[name |-> job[j].name, snap |-> job[j].snap]} /\ UNCHANGED <<manifests, rotten, taken, restore>>
      /\ Making(j)
  BY DEF PublishFile, Making
<1>6. Lasting  BY <1>1, <1>5, SameTaken DEF BackupsInv
<1>7. \A n, s : HasFile(n, s) => [name |-> n, snap |-> s] \in files' \/ n \in rotten'  BY <1>5 DEF HasFile
<1>8. JobSound(j)'
  <2>1. JobSound(j)  BY DEF BackupsInv, JobsSound
  <2>2. HasFile(job[j].name, job[j].snap)'  BY <1>3, <1>4, <1>5 DEF HasFile
  <2>3. NamedBy(job[j].name)' /\ job'[j].created \in Nat /\ \A m \in taken' : m.name # job'[j].name
    BY <1>3, <1>4, <1>5, <1>6, <2>1 DEF JobSound, Lasting
  <2>4. RemovesOld(j)'  BY <1>3, <1>4 DEF RemovesOld
  <2> QED  BY <1>3, <1>4, <2>2, <2>3, <2>4 DEF JobSound
<1>9. JobsSound'
  <2>1. \A k \in Jobs \ {j} : Making(k) => /\ \A m \in taken' : m.name # job[k].name
                                           /\ job[k].at = "published" => HasFile(job[k].name, job[k].snap)'
                                           /\ Making(j)' => job'[j].name # job[k].name
    <3> SUFFICES ASSUME NEW k \in Jobs \ {j}, Making(k)
                 PROVE  /\ \A m \in taken' : m.name # job[k].name
                        /\ job[k].at = "published" => HasFile(job[k].name, job[k].snap)'
                        /\ Making(j)' => job'[j].name # job[k].name
      OBVIOUS
    <3>1. JobSound(k) /\ job'[k] = job[k]  BY <1>4 DEF BackupsInv, JobsSound, OneJob
    <3>2. job[j].name # job[k].name  BY <1>5 DEF BackupsInv, JobsSound
    <3> QED  BY <1>3, <1>4, <1>5, <1>7, <3>1, <3>2 DEF JobSound, HasFile
  <2> QED  BY <1>4, <1>6, <1>8, <2>1, JobsKept
<1>10. TakenSound'  BY <1>5, <1>6 DEF BackupsInv, TakenSound, Lasting
<1>11. TakenKept'  BY <1>5, <1>6, <1>7 DEF BackupsInv, TakenKept, Lasting, HasFile
<1>12. RestoreSound'
  <2>1. scene' = scene  BY <1>1 DEF StageStep
  <2> QED  BY <1>5, <2>1 DEF BackupsInv, RestoreSound, Restorable, Contract, Required, Fingerprinted
<1> QED  BY <1>9, <1>10, <1>11, <1>12 DEF BackupsInv

LEMMA PublishManifestKept == ASSUME StageSound, BackupsInv, NEW j \in Jobs, PublishManifest(j) PROVE BackupsInv'
<1> DEFINE r == [job[j] EXCEPT !.at = "listed"]
           m == [name |-> job[j].name, created |-> job[j].created, snap |-> job[j].snap]
<1>0. Spends  BY DEF PublishManifest, Spends
<1>1. StageStep  BY <1>0, SpendsStage
<1>2. job' = [job EXCEPT ![j] = r] /\ manifests' = manifests \cup {m} /\ taken' = taken \cup {m} /\ UNCHANGED <<files, rotten, restore>>
  BY Zenon DEF PublishManifest
<1>3. r.at = "listed" /\ DOMAIN r = {"at", "name", "created", "snap", "doomed"}  BY DEF BackupsInv, JobsSound, JobSound
<1>4. m.name = job[j].name /\ m.created = job[j].created /\ m.snap = job[j].snap  OBVIOUS
<1> HIDE DEF r, m
<1>5. OneJob(j) /\ job'[j] = r  BY <1>2, JobGoes DEF BackupsInv
<1>6. /\ Making(j) /\ job[j].at = "published" /\ NamedBy(m.name) /\ m.created \in Nat /\ HasFile(m.name, m.snap)
      /\ \A n \in taken : n.name # m.name
  BY <1>4 DEF PublishManifest, Making, BackupsInv, JobsSound, JobSound
<1>7. IsFiniteSet(taken')  BY <1>2, FS_AddElement DEF BackupsInv, TakenSound
<1>8. scene' = scene  BY <1>1 DEF StageStep
<1>9. Lasting
  <2>1. taken \subseteq taken'  BY <1>2
  <2>2. \A x : NamedBy(x) => NamedBy(x)'  BY <1>1, NamedStill
  <2>3. \A x : Outlived(x) => Outlived(x)'  BY <1>7, <1>8, <2>1, OutlivedStill DEF BackupsInv
  <2> QED  BY <2>1, <2>2, <2>3 DEF Lasting
<1>10. JobsSound'
  <2>1. JobSound(j)' /\ ~Making(j)'  BY <1>3, <1>5 DEF JobSound, RemovesOld, Making
  <2>2. \A k \in Jobs \ {j} : Making(k) => /\ \A n \in taken' : n.name # job[k].name
                                           /\ job[k].at = "published" => HasFile(job[k].name, job[k].snap)'
    <3> SUFFICES ASSUME NEW k \in Jobs \ {j}, Making(k)
                 PROVE  /\ \A n \in taken' : n.name # job[k].name
                        /\ job[k].at = "published" => HasFile(job[k].name, job[k].snap)'
      OBVIOUS
    <3>1. JobSound(k) /\ job'[k] = job[k]  BY <1>5 DEF BackupsInv, JobsSound, OneJob
    <3>2. job[j].name # job[k].name  BY <1>6 DEF BackupsInv, JobsSound
    <3> QED  BY <1>2, <1>4, <3>1, <3>2 DEF JobSound, HasFile
  <2> QED  BY <1>5, <1>9, <2>1, <2>2, JobsKept
<1>11. TakenSound'
  <2>1. \A n \in taken' : NamedBy(n.name)' /\ n.created \in Nat
    <3> SUFFICES ASSUME NEW n \in taken' PROVE NamedBy(n.name)' /\ n.created \in Nat  OBVIOUS
    <3>1. NamedBy(n.name) /\ n.created \in Nat  BY <1>2, <1>6 DEF BackupsInv, TakenSound
    <3> QED  BY <1>9, <3>1 DEF Lasting
  <2>2. \A x, y \in taken' : x.name = y.name => x = y  BY <1>2, <1>6 DEF BackupsInv, TakenSound
  <2>3. manifests' \subseteq taken'  BY <1>2 DEF BackupsInv, TakenSound
  <2> QED  BY <1>7, <2>1, <2>2, <2>3 DEF TakenSound
<1>12. TakenKept'
  <2> SUFFICES ASSUME NEW n \in taken' PROVE Outlived(n)' \/ (n \in manifests' /\ HasFile(n.name, n.snap)')  BY DEF TakenKept
  <2>1. HasFile(n.name, n.snap) => HasFile(n.name, n.snap)'  BY <1>2 DEF HasFile
  <2>2. CASE n = m  BY <1>2, <1>6, <2>1, <2>2
  <2>3. CASE n # m
    <3>1. n \in taken  BY <1>2, <2>3
    <3> QED  BY <1>2, <1>9, <2>1, <3>1 DEF BackupsInv, TakenKept, Lasting
  <2> QED  BY <2>2, <2>3
<1>13. RestoreSound'  BY <1>2, <1>8 DEF BackupsInv, RestoreSound, Restorable, Contract, Required, Fingerprinted
<1> QED  BY <1>10, <1>11, <1>12, <1>13 DEF BackupsInv

(* The directory loses what is outlived, or some file is damaged. *)
LEMMA FilesKept ==
  ASSUME StageSound, StageStep, BackupsInv, taken' = taken, manifests' \subseteq manifests, restore' = restore, JobsSound',
         \A m \in taken : HasFile(m.name, m.snap) => HasFile(m.name, m.snap)' \/ Outlived(m),
         \A m \in manifests : m \in manifests' \/ Outlived(m)
  PROVE  BackupsInv'
<1>1. Lasting  BY SameTaken DEF BackupsInv
<1>2. scene' = scene  BY DEF StageStep
<1>3. TakenSound'  BY <1>1 DEF BackupsInv, TakenSound, Lasting
<1>4. TakenKept'
  <2> SUFFICES ASSUME NEW m \in taken, ~Outlived(m)' PROVE m \in manifests' /\ HasFile(m.name, m.snap)'  BY DEF TakenKept
  <2>1. ~Outlived(m)  BY <1>1 DEF Lasting
  <2> QED  BY <2>1 DEF BackupsInv, TakenKept
<1>5. RestoreSound'  BY <1>2 DEF BackupsInv, RestoreSound, Restorable, Contract, Required, Fingerprinted
<1> QED  BY <1>3, <1>4, <1>5 DEF BackupsInv

LEMMA RemoveFileKept == ASSUME StageSound, BackupsInv, NEW j \in Jobs, RemoveFile(j) PROVE BackupsInv'
<1>0. Spends  BY DEF RemoveFile, Spends
<1>1. StageStep  BY <1>0, SpendsStage
<1>2. PICK m \in job[j].doomed :
        /\ files' = {f \in files : f.name # m.name}
        /\ job' = [job EXCEPT ![j].at = "unlinking", ![j].name = m.name, ![j].doomed = @ \ {m}]
  BY DEF RemoveFile
<1> DEFINE r == [job[j] EXCEPT !.at = "unlinking", !.name = m.name, !.doomed = job[j].doomed \ {m}]
<1>3. job' = [job EXCEPT ![j] = r]  BY <1>2, Zenon
<1>4. r.at = "unlinking" /\ r.name = m.name /\ r.doomed = job[j].doomed \ {m} /\ DOMAIN r = {"at", "name", "created", "snap", "doomed"}
  BY DEF BackupsInv, JobsSound, JobSound
<1> HIDE DEF r
<1>5. OneJob(j) /\ job'[j] = r  BY <1>3, JobGoes DEF BackupsInv
<1>6. job[j].at = "pruning" /\ UNCHANGED <<manifests, rotten, taken, restore>>  BY DEF RemoveFile
<1>7. Lasting  BY <1>1, <1>6, SameTaken DEF BackupsInv
<1>8. \A x \in job[j].doomed : x \in taken /\ Outlived(x)  BY <1>6 DEF BackupsInv, JobsSound, JobSound, RemovesOld
<1>9. \A n, s : HasFile(n, s) /\ n # m.name => [name |-> n, snap |-> s] \in files' \/ n \in rotten'
  <2> SUFFICES ASSUME NEW n, NEW s, HasFile(n, s), n # m.name, n \notin rotten PROVE [name |-> n, snap |-> s] \in files'  BY <1>6
  <2> DEFINE f == [name |-> n, snap |-> s]
  <2>1. f \in files /\ f.name = n  BY DEF HasFile
  <2> HIDE DEF f
  <2>2. f \in files'  BY <1>2, <2>1
  <2> QED  BY <2>2 DEF f
<1>10. JobsSound'
  <2>1. JobSound(j)' /\ ~Making(j)'
    <3>1. \A x \in r.doomed : x \in taken' /\ Outlived(x)'  BY <1>4, <1>7, <1>8 DEF Lasting
    <3>2. m \in taken' /\ Outlived(m)'  BY <1>2, <1>7, <1>8 DEF Lasting
    <3>3. RemovesOld(j)'  BY <1>4, <1>5, <3>1, <3>2 DEF RemovesOld
    <3> QED  BY <1>4, <1>5, <3>3 DEF JobSound, Making
  <2>2. \A k \in Jobs \ {j} : Making(k) => /\ \A n \in taken' : n.name # job[k].name
                                           /\ job[k].at = "published" => HasFile(job[k].name, job[k].snap)'
    <3> SUFFICES ASSUME NEW k \in Jobs \ {j}, Making(k)
                 PROVE  /\ \A n \in taken' : n.name # job[k].name
                        /\ job[k].at = "published" => HasFile(job[k].name, job[k].snap)'
      OBVIOUS
    <3>1. JobSound(k) /\ job'[k] = job[k]  BY <1>5 DEF BackupsInv, JobsSound, OneJob
    <3>2. job[k].name # m.name  BY <1>2, <1>8, <3>1 DEF JobSound
    <3> QED  BY <1>6, <1>9, <3>1, <3>2 DEF JobSound, HasFile
  <2> QED  BY <1>5, <1>7, <2>1, <2>2, JobsKept
<1>11. \A n \in taken : HasFile(n.name, n.snap) => HasFile(n.name, n.snap)' \/ Outlived(n)
  <2> SUFFICES ASSUME NEW n \in taken, HasFile(n.name, n.snap), ~Outlived(n) PROVE HasFile(n.name, n.snap)'  OBVIOUS
  <2>1. n.name # m.name  BY <1>2, <1>8 DEF BackupsInv, TakenSound
  <2> QED  BY <1>9, <2>1 DEF HasFile
<1> QED  BY <1>1, <1>6, <1>10, <1>11, FilesKept

LEMMA RemoveManifestKept == ASSUME StageSound, BackupsInv, NEW j \in Jobs, RemoveManifest(j) PROVE BackupsInv'
<1> DEFINE r == [job[j] EXCEPT !.at = "pruning"]
<1>0. Spends  BY DEF RemoveManifest, Spends
<1>1. StageStep  BY <1>0, SpendsStage
<1>2. job' = [job EXCEPT ![j] = r]  BY Zenon DEF RemoveManifest
<1>3. r.at = "pruning" /\ r.doomed = job[j].doomed /\ DOMAIN r = {"at", "name", "created", "snap", "doomed"}  BY DEF BackupsInv, JobsSound, JobSound
<1> HIDE DEF r
<1>4. OneJob(j) /\ job'[j] = r  BY <1>2, JobGoes DEF BackupsInv
<1>5. job[j].at = "unlinking" /\ UNCHANGED <<files, rotten, taken, restore>> /\ manifests' = {m \in manifests : m.name # job[j].name}  BY DEF RemoveManifest
<1>6. Lasting  BY <1>1, <1>5, SameTaken DEF BackupsInv
<1>7. RemovesOld(j)  BY DEF BackupsInv, JobsSound, JobSound
<1>8. \A n, s : HasFile(n, s) => [name |-> n, snap |-> s] \in files' \/ n \in rotten'  BY <1>5 DEF HasFile
<1>9. JobsSound'
  <2>1. JobSound(j)' /\ ~Making(j)'
    <3>1. \A x \in r.doomed : x \in taken' /\ Outlived(x)'  BY <1>3, <1>5, <1>6, <1>7 DEF Lasting, RemovesOld
    <3>2. RemovesOld(j)'  BY <1>3, <1>4, <3>1 DEF RemovesOld
    <3> QED  BY <1>3, <1>4, <3>2 DEF JobSound, Making
  <2>2. \A k \in Jobs \ {j} : Making(k) => /\ \A n \in taken' : n.name # job[k].name
                                           /\ job[k].at = "published" => HasFile(job[k].name, job[k].snap)'
    <3> SUFFICES ASSUME NEW k \in Jobs \ {j}, Making(k)
                 PROVE  /\ \A n \in taken' : n.name # job[k].name
                        /\ job[k].at = "published" => HasFile(job[k].name, job[k].snap)'
      OBVIOUS
    <3>1. JobSound(k) /\ job'[k] = job[k]  BY <1>4 DEF BackupsInv, JobsSound, OneJob
    <3> QED  BY <1>5, <3>1 DEF JobSound, HasFile
  <2> QED  BY <1>4, <1>6, <2>1, <2>2, JobsKept
<1>10. \A m \in manifests : m \in manifests' \/ Outlived(m)
  <2> SUFFICES ASSUME NEW m \in manifests, m.name = job[j].name PROVE Outlived(m)  BY <1>5
  <2>1. PICK n \in taken : n.name = job[j].name /\ Outlived(n)  BY <1>5, <1>7 DEF RemovesOld
  <2>2. m = n  BY <2>1 DEF BackupsInv, TakenSound
  <2> QED  BY <2>1, <2>2
<1>11. \A m \in taken : HasFile(m.name, m.snap) => HasFile(m.name, m.snap)' \/ Outlived(m)  BY <1>5 DEF HasFile
<1> QED  BY <1>1, <1>5, <1>9, <1>10, <1>11, FilesKept

LEMMA RotKept == ASSUME StageSound, BackupsInv, Rot PROVE BackupsInv'
<1>0. Spends  BY DEF Rot, Spends
<1>1. StageStep  BY <1>0, SpendsStage
<1>2. PICK f \in files : files' = (files \ {f}) \cup {[f EXCEPT !.snap = None]} /\ rotten' = rotten \cup {f.name}  BY DEF Rot
<1>3. UNCHANGED <<job, manifests, taken, restore>>  BY DEF Rot
<1>4. \A n, s : HasFile(n, s) => [name |-> n, snap |-> s] \in files' \/ n \in rotten'
  <2> SUFFICES ASSUME NEW n, NEW s, [name |-> n, snap |-> s] \in files, [name |-> n, snap |-> s] = f PROVE n \in rotten'  BY <1>2 DEF HasFile
  <2>1. f.name = n  OBVIOUS
  <2> QED  BY <1>2, <2>1
<1>5. Lasting  BY <1>1, <1>3, SameTaken DEF BackupsInv
<1>6. JobsSound'
  <2>1. ASSUME NEW k \in Jobs PROVE JobSound(k)'
    <3>1. JobSound(k)  BY DEF BackupsInv, JobsSound
    <3>2. RemovesOld(k)'  BY <1>3, <1>5, <3>1 DEF JobSound, RemovesOld, Lasting
    <3>3. job[k].at = "published" => HasFile(job[k].name, job[k].snap)'  BY <1>3, <1>4, <3>1 DEF JobSound, HasFile
    <3>4. Making(k)' => NamedBy(job[k].name)' /\ job'[k].created \in Nat /\ \A m \in taken' : m.name # job'[k].name
      BY <1>3, <1>5, <3>1 DEF JobSound, Making, Lasting
    <3>5. DOMAIN job'[k] = {"at", "name", "created", "snap", "doomed"}  BY <1>3, <3>1 DEF JobSound
    <3> QED  BY <1>3, <3>2, <3>3, <3>4, <3>5 DEF JobSound
  <2> QED  BY <1>3, <2>1 DEF BackupsInv, JobsSound, Making
<1>7. \A m \in taken : HasFile(m.name, m.snap) => HasFile(m.name, m.snap)' \/ Outlived(m)  BY <1>3, <1>4 DEF HasFile
<1> QED  BY <1>1, <1>3, <1>6, <1>7, FilesKept

(* The directory and its history stay. *)
LEMMA StillBackups ==
  ASSUME StageSound, StageStep, BackupsInv, UNCHANGED <<job, files, manifests, rotten, taken>>, RestoreSound'
  PROVE  BackupsInv'
<1>1. Lasting  BY SameTaken DEF BackupsInv
<1>2. TakenSound'  BY <1>1 DEF BackupsInv, TakenSound, Lasting
<1>3. TakenKept'  BY <1>1 DEF BackupsInv, TakenKept, Lasting, HasFile
<1>4. JobsSound'
  <2>1. ASSUME NEW k \in Jobs PROVE JobSound(k)'
    <3>1. JobSound(k)  BY DEF BackupsInv, JobsSound
    <3>2. RemovesOld(k)'  BY <1>1, <3>1 DEF JobSound, RemovesOld, Lasting
    <3>3. Making(k)' => NamedBy(job[k].name)' /\ job'[k].created \in Nat /\ \A m \in taken' : m.name # job'[k].name
      BY <1>1, <3>1 DEF JobSound, Making, Lasting
    <3> QED  BY <3>1, <3>2, <3>3 DEF JobSound, HasFile
  <2> QED  BY <2>1 DEF BackupsInv, JobsSound, Making
<1> QED  BY <1>2, <1>3, <1>4 DEF BackupsInv

LEMMA RestoresKept == ASSUME StageSound, BackupsInv, RestoreCopy \/ RestorePublish PROVE BackupsInv'
<1>0. Spends  BY DEF RestoreCopy, RestorePublish, Spends
<1>1. StageStep /\ scene' = scene  BY <1>0, SpendsStage DEF StageStep
<1>2. UNCHANGED <<job, files, manifests, rotten, taken>>  BY DEF RestoreCopy, RestorePublish
<1>3. CASE RestoreCopy
  <2>1. PICK m \in manifests, f \in files : restore' = [at |-> "copied", manifest |-> m, snap |-> f.snap]  BY <1>3 DEF RestoreCopy
  <2>2. restore'.at = "copied" /\ restore'.manifest = m /\ DOMAIN restore' = {"at", "manifest", "snap"} /\ m \in taken  BY <2>1 DEF BackupsInv, TakenSound
  <2>3. RestoreSound'  BY <1>2, <2>2 DEF RestoreSound
  <2> QED  BY <1>1, <1>2, <2>3, StillBackups
<1>4. CASE RestorePublish
  <2>1. DOMAIN restore = {"at", "manifest", "snap"} /\ restore.at = "copied" /\ restore.manifest \in taken  BY <1>4 DEF RestorePublish, BackupsInv, RestoreSound
  <2>2. CASE Restorable(restore.snap, restore.manifest)
    <3>1. restore' = [restore EXCEPT !.at = "published"]  BY <1>4, <2>2 DEF RestorePublish
    <3>2. restore'.at = "published" /\ restore'.manifest = restore.manifest /\ restore'.snap = restore.snap /\ DOMAIN restore' = {"at", "manifest", "snap"}  BY <2>1, <3>1
    <3>3. Restorable(restore.snap, restore.manifest)'  BY <1>1, <2>2, <3>2 DEF Restorable, Contract, Required, Fingerprinted
    <3>4. RestoreSound'  BY <1>2, <2>1, <3>2, <3>3 DEF RestoreSound
    <3> QED  BY <1>1, <1>2, <3>4, StillBackups
  <2>3. CASE ~Restorable(restore.snap, restore.manifest)
    <3>1. restore' = [restore EXCEPT !.at = "off", !.snap = None]  BY <1>4, <2>3 DEF RestorePublish
    <3>2. restore'.at = "off" /\ DOMAIN restore' = {"at", "manifest", "snap"}  BY <2>1, <3>1
    <3>3. RestoreSound'  BY <3>2 DEF RestoreSound
    <3> QED  BY <1>1, <1>2, <3>3, StillBackups
  <2> QED  BY <2>2, <2>3
<1> QED  BY <1>3, <1>4

LEMMA BackupsStep == ASSUME StageSound, StageStep, BackupsInv, StoreNext PROVE BackupsInv'
<1>1. CASE UNCHANGED backupVars
  <2>1. UNCHANGED <<job, files, manifests, rotten, taken, restore>> /\ scene' = scene  BY <1>1 DEF backupVars, StageStep
  <2>2. RestoreSound'  BY <2>1 DEF BackupsInv, RestoreSound, Restorable, Contract, Required, Fingerprinted
  <2> QED  BY <2>1, <2>2, StillBackups
<1>2. ASSUME NEW j \in Jobs, BackupStep(j) PROVE BackupsInv'
  <2>1. CASE EndBackup(j) \/ CrashBackup(j)
    <3>1. job' = [job EXCEPT ![j] = Idle] /\ UNCHANGED <<files, manifests, rotten, taken, restore>>  BY <2>1 DEF EndBackup, CrashBackup
    <3> QED  BY <3>1, RestingKept
  <2> QED  BY <1>2, <2>1, SnapshotKept, PublishFileKept, PublishManifestKept, PruneKept, RemoveFileKept, RemoveManifestKept DEF BackupStep
<1>3. CASE Restores  BY <1>3, RotKept, RestoresKept DEF Restores
<1> QED  BY <1>1, <1>2, <1>3, StoreSteps, Zenon

LEMMA BackupsFollow == ASSUME StageSound, BackupsInv PROVE BackupsRestorable
<1>1. ASSUME NEW m \in taken, Cardinality({n \in taken : n.created >= m.created}) <= scene.keep
      PROVE  m \in manifests /\ ([name |-> m.name, snap |-> m.snap] \in files \/ m.name \in rotten)
  <2>1. IsFiniteSet(Since(m))
    <3>1. Since(m) \subseteq taken /\ IsFiniteSet(taken)  BY DEF Since, BackupsInv, TakenSound
    <3> QED  BY <3>1, FS_Subset
  <2>2. Cardinality(Since(m)) \in Nat /\ scene.keep \in Nat  BY <2>1, FS_CardinalityType, StoreAssumption DEF StageSound
  <2>3. ~Outlived(m)  BY <1>1, <2>2 DEF Outlived, Since
  <2> QED  BY <2>3 DEF BackupsInv, TakenKept, HasFile
<1>2. ASSUME restore.at = "published"
      PROVE  restore.snap \in {m.snap : m \in taken} /\ Contract(restore.snap, scene.newest) /\ Fingerprinted(restore.snap)
  BY <1>2 DEF BackupsInv, RestoreSound, Restorable
<1> QED  BY <1>1, <1>2 DEF BackupsRestorable
-----------------------------------------------------------------------------
(* Retention. A row is due for a category, or not, whatever else is kept.  *)
Due(c, day, r) == r \in Swept(c, day, {r})
Wiped(r) == [r EXCEPT !.raw = FALSE]
Deleting == {"messages", "reminders", "inbox", "inboxStale", "outbox", "outboxStale", "flowSessions"}
Columns(r) == DOMAIN r = {"id", "table", "state", "born", "raw"}

(* Rows as the table keeps them. *)
RowsKeyed(rows) == IsFiniteSet(rows) /\ (\A r \in rows : Columns(r)) /\ \A r, q \in rows : r.id = q.id => r = q

LEMMA SweptDue ==
  ASSUME NEW c, NEW day, NEW rows
  PROVE  Swept(c, day, rows) = {r \in rows : Due(c, day, r)}
BY DEF Swept, Due

LEMMA DueWiped ==
  ASSUME NEW day, NEW r, Columns(r)
  PROVE  /\ \A c \in Deleting : Due(c, day, Wiped(r)) <=> Due(c, day, r)
         /\ ~Due("rawMessages", day, Wiped(r))
<1> DEFINE w == Wiped(r)
<1>1. w.table = r.table /\ w.state = r.state /\ w.born = r.born /\ w.raw = FALSE  BY DEF Wiped, Columns
<1> HIDE DEF w
<1>2. Final(w) = Final(r)  BY <1>1 DEF Final
<1>3. \A c \in Deleting : Due(c, day, w) <=> Due(c, day, r)
  BY <1>1, <1>2 DEF Due, Swept, Deleting
<1>4. ~Due("rawMessages", day, w)  BY <1>1 DEF Due, Swept
<1> QED  BY <1>3, <1>4 DEF w

(* A row is deleted for one reason. *)
LEMMA DueOnce ==
  ASSUME NEW day, NEW r, NEW c \in Deleting, NEW d \in Deleting, Due(c, day, r), Due(d, day, r)
  PROVE  c = d
<1>1. \A x \in Deleting : Due(x, day, r) =>
        /\ r.table = TableOf(x)
        /\ x \in {"inbox", "outbox"} => Final(r)
        /\ x \in {"inboxStale", "outboxStale"} => ~Final(r)
  BY DEF Due, Swept, Deleting
<1>2. r.table = TableOf(c) /\ r.table = TableOf(d)  BY <1>1
<1> QED  BY <1>1, <1>2 DEF TableOf, Deleting

LEMMA Categories ==
  /\ Len(Category) = 8 /\ Category[1] = "rawMessages"
  /\ \A i \in 2 .. 8 : Category[i] \in Deleting
  /\ \A i, k \in 2 .. 8 : Category[i] = Category[k] => i = k
BY DEF Category, Deleting

(* What is kept of the rows a run began with: some cleared, some deleted.  *)
Seen(C, r) == IF r \in C THEN Wiped(r) ELSE r

LEMMA SeenId ==
  ASSUME NEW C, NEW r, Columns(r)
  PROVE  Seen(C, r).id = r.id /\ Columns(Seen(C, r))
BY DEF Seen, Wiped, Columns

LEMMA KeptKeyed ==
  ASSUME NEW rows, RowsKeyed(rows), NEW C, NEW D
  PROVE  RowsKeyed({Seen(C, r) : r \in rows \ D})
<1> DEFINE left1 == rows \ D
           kept1 == {Seen(C, r) : r \in left1}
           f == [r \in left1 |-> Seen(C, r)]
<1>1. IsFiniteSet(left1)  BY FS_Difference, Zenon DEF RowsKeyed
<1>2. f \in Surjection(left1, kept1)  BY DEF Surjection
<1>3. IsFiniteSet(kept1)
  <2> HIDE DEF left1, kept1, f
  <2> QED  BY <1>1, <1>2, FS_Surjection, Zenon
<1>4. \A r \in left1 : Columns(r) /\ Seen(C, r).id = r.id /\ Columns(Seen(C, r))  BY SeenId, Zenon DEF RowsKeyed
<1>5. \A s \in kept1 : \E r \in left1 : s = Seen(C, r)  OBVIOUS
<1>6. \A r, q \in left1 : r.id = q.id => r = q  BY Zenon DEF RowsKeyed
<1> HIDE DEF left1, kept1
<1>7. \A s \in kept1 : Columns(s)  BY <1>4, <1>5
<1>8. \A s, t \in kept1 : s.id = t.id => s = t
  <2> SUFFICES ASSUME NEW s \in kept1, NEW t \in kept1, s.id = t.id PROVE s = t  OBVIOUS
  <2>1. PICK r \in left1 : s = Seen(C, r)  BY <1>5
  <2>2. PICK q \in left1 : t = Seen(C, q)  BY <1>5
  <2>3. r = q  BY <2>1, <2>2, <1>4, <1>6
  <2> QED  BY <2>1, <2>2, <2>3
<1> QED  BY <1>3, <1>7, <1>8 DEF RowsKeyed, kept1, left1

Shown(rows, C, D) == {Seen(C, r) : r \in rows \ D}
ShownIn(rows, C, D, some) == {r \in rows \ D : Seen(C, r) \in some}

(* As many rows go as are counted. *)
LEMMA AsManyGo ==
  ASSUME NEW rows, RowsKeyed(rows), NEW C, NEW D, NEW some, some \subseteq Shown(rows, C, D)
  PROVE  IsFiniteSet(ShownIn(rows, C, D, some)) /\ Cardinality(ShownIn(rows, C, D, some)) = Cardinality(some)
<1> DEFINE Q == ShownIn(rows, C, D, some)
           f == [r \in Q |-> Seen(C, r)]
<1>1. IsFiniteSet(Q)
  <2>1. Q \subseteq rows  BY DEF ShownIn
  <2> QED  BY <2>1, FS_Subset, Zenon DEF RowsKeyed
<1>2. \A r \in Q : Columns(r) /\ Seen(C, r).id = r.id /\ Seen(C, r) \in some  BY SeenId, Zenon DEF RowsKeyed, ShownIn
<1>3. \A r, q \in Q : r.id = q.id => r = q  BY Zenon DEF RowsKeyed, ShownIn
<1>4. \A s \in some : \E r \in Q : s = Seen(C, r)  BY DEF ShownIn, Shown
<1> HIDE DEF f, Q
<1>5. f \in [Q -> some] /\ \A r \in Q : f[r] = Seen(C, r)  BY <1>2 DEF f
<1>6. f \in Bijection(Q, some)
  <2>1. f \in Injection(Q, some)
    <3> SUFFICES ASSUME NEW r \in Q, NEW q \in Q, f[r] = f[q] PROVE r = q  BY <1>5 DEF Injection, IsInjective
    <3>1. Seen(C, r).id = Seen(C, q).id  BY <1>5
    <3> QED  BY <3>1, <1>2, <1>3
  <2>2. f \in Surjection(Q, some)
    <3>1. \A s \in some : \E r \in Q : f[r] = s  BY <1>4, <1>5
    <3> QED  BY <3>1, <1>5 DEF Surjection
  <2> QED  BY <2>1, <2>2 DEF Bijection
<1>7. ExistsBijection(Q, some)  BY <1>6 DEF ExistsBijection
<1> QED  BY <1>1, <1>7, FS_Bijection DEF Q

(* How far a real run is: P are the rows gone of the category it is at.    *)
DueAt(i) == {r \in sweep.from : Due(Category[i], sweep.day, r)}
ClearedBy(P) == IF sweep.at = 1 THEN P ELSE DueAt(1)
DeletedBy(P) == IF sweep.at = 1 THEN {} ELSE {r \in sweep.from : \E k \in 2 .. sweep.at - 1 : r \in DueAt(k)} \cup P
PartGone(P) ==
  /\ P \subseteq sweep.from
  /\ \A r \in P : sweep.at <= 8 /\ r \in DueAt(sweep.at)
  /\ kept = Shown(sweep.from, ClearedBy(P), DeletedBy(P))
  /\ \A k \in 1 .. 8 : sweep.counts[k] = IF k < sweep.at THEN Cardinality(DueAt(k)) ELSE IF k = sweep.at THEN Cardinality(P) ELSE 0

SweepShape == sweep.at \in 0 .. 9 /\ sweep.dry \in BOOLEAN /\ DOMAIN sweep = {"at", "dry", "day", "counts", "from"} /\ DOMAIN sweep.counts = 1 .. 8
DryCounts == kept = sweep.from /\ \A k \in 1 .. 8 : k < sweep.at => sweep.counts[k] = Cardinality(DueAt(k))
Sweeps == sweep.at >= 1 => RowsKeyed(sweep.from) /\ (IF sweep.dry THEN DryCounts ELSE \E P : PartGone(P))
RetentionInv == RowsKeyed(kept) /\ SweepShape /\ Sweeps

LEMMA StartKept == ASSUME RetentionInv, NEW dry \in BOOLEAN, StartSweep(dry) PROVE RetentionInv'
<1>1. kept' = kept /\ sweep' = [NoSweep EXCEPT !.at = 1, !.dry = dry, !.day = now, !.from = kept]  BY Zenon DEF StartSweep
<1>2. SweepShape' /\ sweep'.at = 1 /\ sweep'.from = kept /\ sweep'.dry = dry /\ \A k \in 1 .. 8 : sweep'.counts[k] = 0
  BY <1>1, Categories DEF SweepShape, NoSweep
<1>3. RowsKeyed(kept)' /\ RowsKeyed(sweep.from)'  BY <1>1, <1>2 DEF RetentionInv
<1>4. DryCounts'  BY <1>1, <1>2 DEF DryCounts
<1>5. PartGone({})'
  <2>1. ClearedBy({})' = {} /\ DeletedBy({})' = {}  BY <1>2 DEF ClearedBy, DeletedBy
  <2>2. {Seen({}, r) : r \in kept} = kept  BY DEF Seen
  <2>3. kept' = Shown(sweep'.from, {}, {})  BY <1>1, <1>2, <2>2 DEF Shown
  <2>4. Cardinality({}) = 0  BY FS_EmptySet
  <2> QED  BY <1>2, <2>1, <2>3, <2>4 DEF PartGone
<1>6. Sweeps'  BY <1>3, <1>4, <1>5 DEF Sweeps
<1> QED  BY <1>2, <1>3, <1>6 DEF RetentionInv

LEMMA CountKept == ASSUME RetentionInv, CountRows PROVE RetentionInv'
<1>1. /\ sweep.at \in 1 .. 8 /\ sweep.dry /\ kept' = kept
      /\ sweep' = [sweep EXCEPT !.counts[sweep.at] = Cardinality(Swept(Category[sweep.at], sweep.day, kept)), !.at = @ + 1]
  BY Zenon, Categories DEF CountRows, Sweeping, Current
<1>2. SweepShape /\ RowsKeyed(kept) /\ RowsKeyed(sweep.from) /\ DryCounts  BY <1>1 DEF RetentionInv, Sweeps
<1>3. Swept(Category[sweep.at], sweep.day, kept) = DueAt(sweep.at)  BY <1>2, SweptDue DEF DueAt, DryCounts
<1>4. /\ sweep'.at = sweep.at + 1 /\ sweep'.dry = sweep.dry /\ sweep'.day = sweep.day /\ sweep'.from = sweep.from
      /\ sweep'.counts = [sweep.counts EXCEPT ![sweep.at] = Cardinality(DueAt(sweep.at))] /\ DOMAIN sweep' = DOMAIN sweep
  BY <1>1, <1>2, <1>3 DEF SweepShape
<1>5. \A k \in 1 .. 8 : DueAt(k)' = DueAt(k)  BY <1>4 DEF DueAt
<1>6. SweepShape'
  <2>1. sweep.at + 1 \in 0 .. 9 /\ DOMAIN sweep'.counts = 1 .. 8  BY <1>1, <1>2, <1>4 DEF SweepShape
  <2>2. sweep.dry \in BOOLEAN /\ DOMAIN sweep' = {"at", "dry", "day", "counts", "from"}  BY <1>2, <1>4, Zenon DEF SweepShape
  <2> QED  BY <2>1, <2>2, <1>4, Zenon DEF SweepShape
<1>7. DryCounts'
  <2>1. \A k \in 1 .. 8 : k < sweep'.at => sweep'.counts[k] = Cardinality(DueAt(k))  BY <1>1, <1>2, <1>4 DEF DryCounts, SweepShape
  <2> QED  BY <2>1, <1>1, <1>2, <1>4, <1>5 DEF DryCounts
<1> QED  BY <1>1, <1>2, <1>4, <1>6, <1>7 DEF RetentionInv, Sweeps

LEMMA InterruptedKept == ASSUME RetentionInv, Interrupted \/ UNCHANGED retentionVars PROVE RetentionInv'
<1>1. CASE Interrupted
  <2>1. kept' = kept /\ sweep' = NoSweep  BY <1>1, Zenon DEF Interrupted
  <2>2. SweepShape' /\ sweep'.at = 0  BY <2>1, Categories DEF SweepShape, NoSweep
  <2>3. RowsKeyed(kept)'  BY <2>1 DEF RetentionInv
  <2> QED  BY <2>2, <2>3 DEF RetentionInv, Sweeps
<1>2. CASE UNCHANGED retentionVars
  <2>1. kept' = kept /\ sweep' = sweep  BY <1>2 DEF retentionVars
  <2>2. \A k : DueAt(k)' = DueAt(k)  BY <2>1, Zenon DEF DueAt
  <2>3. \A P : ClearedBy(P)' = ClearedBy(P) /\ DeletedBy(P)' = DeletedBy(P)  BY <2>1, <2>2, Zenon DEF ClearedBy, DeletedBy
  <2>4. \A P : PartGone(P) => PartGone(P)'  BY <2>1, <2>2, <2>3, Zenon DEF PartGone
  <2>5. SweepShape'  BY <2>1, Zenon DEF SweepShape, RetentionInv
  <2>6. DryCounts => DryCounts'  BY <2>1, <2>2, Zenon DEF DryCounts
  <2>7. Sweeps'  BY <2>1, <2>4, <2>6 DEF Sweeps, RetentionInv
  <2> QED  BY <2>1, <2>5, <2>7, Zenon DEF RetentionInv
<1> QED  BY <1>1, <1>2

(* What a batch takes: Q of the rows the run began with.                   *)
Clears(rows, day, P, K, some) ==
  /\ some \subseteq rows /\ some \cap P = {} /\ \A r \in some : Due("rawMessages", day, r)
  /\ (K \ some) \cup {Wiped(r) : r \in some} = Shown(rows, P \cup some, {})
  /\ some = Swept("rawMessages", day, K) => \A r \in rows : Due("rawMessages", day, r) => r \in P \cup some

LEMMA BatchClears ==
  ASSUME NEW rows, RowsKeyed(rows), NEW day, NEW P, NEW K, K = Shown(rows, P, {}),
         NEW some, some \subseteq Swept("rawMessages", day, K)
  PROVE  Clears(rows, day, P, K, some)
<1>1. \A r \in rows : r \in P => ~Due("rawMessages", day, Seen(P, r))  BY DueWiped, Zenon DEF RowsKeyed, Seen
<1>2. \A r : r \notin P => Seen(P, r) = r  BY DEF Seen
<1>3. K = {Seen(P, r) : r \in rows} /\ Swept("rawMessages", day, K) = {r \in K : Due("rawMessages", day, r)}  BY SweptDue DEF Shown
<1>4. \A r \in rows : Seen(P, r) \in some => r \notin P /\ r \in some  BY <1>1, <1>2, <1>3
<1>5. \A s \in some : s \in rows /\ s \notin P /\ Due("rawMessages", day, s)
  <2> SUFFICES ASSUME NEW s \in some PROVE s \in rows /\ s \notin P /\ Due("rawMessages", day, s)  OBVIOUS
  <2>1. PICK r \in rows : s = Seen(P, r)  BY <1>3
  <2>2. r \notin P /\ s = r  BY <2>1, <1>2, <1>4
  <2> QED  BY <2>2, <1>3
<1>6. \A r : Seen(P \cup some, r) = IF r \in some THEN Wiped(r) ELSE Seen(P, r)  BY <1>5 DEF Seen
<1>7. (K \ some) \cup {Wiped(r) : r \in some} = {Seen(P \cup some, r) : r \in rows}
  <2>1. ASSUME NEW k \in K \ some PROVE k \in {Seen(P \cup some, r) : r \in rows}
    <3>1. PICK r \in rows : k = Seen(P, r)  BY <1>3
    <3>2. r \notin some  BY <3>1, <1>2, <1>5
    <3> QED  BY <3>1, <3>2, <1>6
  <2>2. ASSUME NEW r \in some PROVE Wiped(r) \in {Seen(P \cup some, q) : q \in rows}  BY <1>5, <1>6
  <2>3. ASSUME NEW r \in rows PROVE Seen(P \cup some, r) \in (K \ some) \cup {Wiped(q) : q \in some}  BY <1>3, <1>4, <1>6
  <2> QED  BY <2>1, <2>2, <2>3
<1>8. ASSUME some = Swept("rawMessages", day, K), NEW r \in rows, Due("rawMessages", day, r) PROVE r \in P \cup some
  BY <1>8, <1>2, <1>3
<1> QED  BY <1>5, <1>7, <1>8 DEF Clears, Shown

Deletes(rows, day, C, D, c, K, some, Q) ==
  /\ Q \cap D = {} /\ \A r \in Q : r \in rows /\ Due(c, day, r)
  /\ K \ some = Shown(rows, C, D \cup Q)
  /\ some = Swept(c, day, K) => \A r \in rows : Due(c, day, r) => r \in D \cup Q
  /\ IsFiniteSet(Q) /\ Cardinality(Q) = Cardinality(some)

LEMMA BatchDeletes ==
  ASSUME NEW rows, RowsKeyed(rows), NEW day, NEW C, NEW D, NEW c \in Deleting, NEW K, K = Shown(rows, C, D),
         NEW some, some \subseteq Swept(c, day, K)
  PROVE  Deletes(rows, day, C, D, c, K, some, ShownIn(rows, C, D, some))
<1> DEFINE Q == ShownIn(rows, C, D, some)
<1>1. \A r \in rows : Due(c, day, Seen(C, r)) <=> Due(c, day, r)  BY DueWiped, Zenon DEF RowsKeyed, Seen
<1>2. K = {Seen(C, r) : r \in rows \ D} /\ Swept(c, day, K) = {r \in K : Due(c, day, r)}  BY SweptDue DEF Shown
<1>3. Q = {r \in rows \ D : Seen(C, r) \in some}  BY DEF ShownIn
<1>4. IsFiniteSet(Q) /\ Cardinality(Q) = Cardinality(some)
  <2>1. some \subseteq Shown(rows, C, D)  BY <1>2 DEF Shown
  <2>2. RowsKeyed(rows)  OBVIOUS
  <2> QED  BY <2>1, <2>2, AsManyGo
<1> HIDE DEF Q
<1>5. Q \cap D = {} /\ \A r \in Q : r \in rows /\ Due(c, day, r)  BY <1>1, <1>2, <1>3
<1>6. K \ some = {Seen(C, r) : r \in rows \ (D \cup Q)}
  <2>1. ASSUME NEW k \in K \ some PROVE k \in {Seen(C, r) : r \in rows \ (D \cup Q)}
    <3>1. PICK r \in rows \ D : k = Seen(C, r)  BY <1>2
    <3> QED  BY <3>1, <1>3
  <2>2. ASSUME NEW r \in rows \ (D \cup Q) PROVE Seen(C, r) \in K \ some  BY <1>2, <1>3
  <2> QED  BY <2>1, <2>2
<1>7. ASSUME some = Swept(c, day, K), NEW r \in rows, Due(c, day, r) PROVE r \in D \cup Q
  BY <1>7, <1>1, <1>2, <1>3
<1> QED  BY <1>4, <1>5, <1>6, <1>7 DEF Deletes, Shown, Q

(* A batch of the category the run is at: it takes Q more, and the last    *)
(* one the rest.                                                           *)
BatchOf(P, Q, some) ==
  /\ Q \subseteq DueAt(sweep.at) /\ Q \cap P = {} /\ IsFiniteSet(Q) /\ Cardinality(Q) = Cardinality(some)
  /\ (kept \ some) \cup (IF sweep.at = 1 THEN {Wiped(r) : r \in some} ELSE {}) = Shown(sweep.from, ClearedBy(P \cup Q), DeletedBy(P \cup Q))
  /\ some = Swept(Category[sweep.at], sweep.day, kept) => P \cup Q = DueAt(sweep.at)

LEMMA BatchTakes ==
  ASSUME sweep.at \in 1 .. 8, RowsKeyed(sweep.from), NEW P, PartGone(P),
         NEW some, some \subseteq Swept(Category[sweep.at], sweep.day, kept)
  PROVE  \E Q : BatchOf(P, Q, some)
<1>1. P \subseteq DueAt(sweep.at) /\ kept = Shown(sweep.from, ClearedBy(P), DeletedBy(P))  BY DEF PartGone
<1>2. CASE sweep.at = 1
  <2>1. \A X : ClearedBy(X) = X /\ DeletedBy(X) = {}  BY <1>2 DEF ClearedBy, DeletedBy
  <2>2. Category[sweep.at] = "rawMessages"  BY <1>2, Categories
  <2>3. kept = Shown(sweep.from, P, {})  BY <1>1, <2>1
  <2>4. /\ some \subseteq sweep.from /\ some \cap P = {} /\ \A r \in some : Due("rawMessages", sweep.day, r)
        /\ (kept \ some) \cup {Wiped(r) : r \in some} = Shown(sweep.from, P \cup some, {})
        /\ some = Swept("rawMessages", sweep.day, kept) => \A r \in sweep.from : Due("rawMessages", sweep.day, r) => r \in P \cup some
    <3>1. some \subseteq Swept("rawMessages", sweep.day, kept)  BY <2>2
    <3>2. Clears(sweep.from, sweep.day, P, kept, some)  BY <3>1, <2>3, BatchClears, Zenon
    <3> QED  BY <3>2 DEF Clears
  <2>5. IsFiniteSet(some)  BY <2>4, FS_Subset, Zenon DEF RowsKeyed
  <2>6. DueAt(sweep.at) = {r \in sweep.from : Due("rawMessages", sweep.day, r)}  BY <2>2 DEF DueAt
  <2>7. some \subseteq DueAt(sweep.at)  BY <2>4, <2>6
  <2>8. (kept \ some) \cup {Wiped(r) : r \in some} = Shown(sweep.from, ClearedBy(P \cup some), DeletedBy(P \cup some))  BY <2>1, <2>4
  <2>9. some = Swept("rawMessages", sweep.day, kept) => P \cup some = DueAt(sweep.at)  BY <2>4, <2>6, <1>1
  <2> QED  BY <1>2, <2>2, <2>4, <2>5, <2>7, <2>8, <2>9, Zenon DEF BatchOf
<1>3. CASE sweep.at # 1
  <2> DEFINE c == Category[sweep.at]
             C == ClearedBy(P)
             D == DeletedBy(P)
             Q == ShownIn(sweep.from, C, D, some)
  <2>1. sweep.at \in 2 .. 8 /\ c \in Deleting  BY <1>3, Categories
  <2>2. /\ Q \cap D = {} /\ \A r \in Q : r \in sweep.from /\ Due(c, sweep.day, r)
        /\ kept \ some = Shown(sweep.from, C, D \cup Q)
        /\ some = Swept(c, sweep.day, kept) => \A r \in sweep.from : Due(c, sweep.day, r) => r \in D \cup Q
        /\ IsFiniteSet(Q) /\ Cardinality(Q) = Cardinality(some)
    <3> HIDE DEF c, C, D
    <3>1. kept = Shown(sweep.from, C, D) /\ some \subseteq Swept(c, sweep.day, kept)  BY <1>1 DEF c, C, D
    <3>2. Deletes(sweep.from, sweep.day, C, D, c, kept, some, ShownIn(sweep.from, C, D, some))  BY <2>1, <3>1, BatchDeletes, Zenon
    <3> QED  BY <3>2 DEF Deletes, Q
  <2>3. ClearedBy(P \cup Q) = C  BY <1>3 DEF ClearedBy
  <2>4. DeletedBy(P \cup Q) = D \cup Q  BY <1>3 DEF DeletedBy
  <2>5. P \subseteq D  BY <1>3 DEF DeletedBy
  <2>6. DueAt(sweep.at) = {r \in sweep.from : Due(c, sweep.day, r)}  BY DEF DueAt
  <2>7. \A r \in DueAt(sweep.at) : r \in D => r \in P
    <3> SUFFICES ASSUME NEW r \in DueAt(sweep.at), r \in D, r \notin P PROVE FALSE  OBVIOUS
    <3>1. PICK k \in 2 .. sweep.at - 1 : r \in DueAt(k)  BY <1>3 DEF DeletedBy
    <3>2. k \in 2 .. 8 /\ k # sweep.at  BY <2>1
    <3>3. Category[k] \in Deleting /\ Category[k] # c  BY <2>1, <3>2, Categories
    <3>4. Due(Category[k], sweep.day, r) /\ Due(c, sweep.day, r)  BY <3>1 DEF DueAt
    <3> QED  BY <2>1, <3>3, <3>4, DueOnce
  <2> HIDE DEF c, C, D, Q
  <2>8. Q \subseteq DueAt(sweep.at) /\ Q \cap P = {}  BY <2>2, <2>5, <2>6
  <2>9. kept \ some = Shown(sweep.from, ClearedBy(P \cup Q), DeletedBy(P \cup Q))  BY <2>2, <2>3, <2>4
  <2>10. some = Swept(c, sweep.day, kept) => P \cup Q = DueAt(sweep.at)  BY <2>2, <2>6, <2>7, <2>8, <1>1
  <2>11. BatchOf(P, Q, some)
    <3>1. (kept \ some) \cup (IF sweep.at = 1 THEN {Wiped(r) : r \in some} ELSE {}) = kept \ some  BY <1>3
    <3>2. some = Swept(Category[sweep.at], sweep.day, kept) => P \cup Q = DueAt(sweep.at)  BY <2>10 DEF c
    <3> QED  BY <2>2, <2>8, <2>9, <3>1, <3>2 DEF BatchOf
  <2> QED  BY <2>11
<1> QED  BY <1>2, <1>3

LEMMA ThisFar ==
  ASSUME SweepShape, sweep.at \in 1 .. 8, RowsKeyed(sweep.from), NEW P, PartGone(P), NEW some, NEW Q, BatchOf(P, Q, some)
  PROVE  IsFiniteSet(P) /\ Cardinality(P) \in Nat /\ Cardinality(some) \in Nat /\ Cardinality(P \cup Q) = Cardinality(P) + Cardinality(some) /\ P \cup Q \subseteq DueAt(sweep.at)
<1>1. P \subseteq sweep.from /\ P \subseteq DueAt(sweep.at)  BY DEF PartGone
<1>2. IsFiniteSet(P)  BY <1>1, FS_Subset, Zenon DEF RowsKeyed
<1>3. Q \subseteq DueAt(sweep.at) /\ P \cap Q = {} /\ IsFiniteSet(Q) /\ Cardinality(Q) = Cardinality(some)  BY DEF BatchOf
<1>4. Cardinality(P) \in Nat /\ Cardinality(Q) \in Nat  BY <1>2, <1>3, FS_CardinalityType
<1>5. Cardinality(P \cup Q) = Cardinality(P) + Cardinality(Q) - Cardinality(P \cap Q)  BY <1>2, <1>3, FS_Union
<1>6. Cardinality(P \cap Q) = 0  BY <1>3, FS_EmptySet
<1> QED  BY <1>1, <1>2, <1>3, <1>4, <1>5, <1>6

LEMMA SweepKept == ASSUME RetentionInv, SweepRows PROVE RetentionInv'
<1> DEFINE rows == Swept(Category[sweep.at], sweep.day, kept)
<1>1. sweep.at \in 1 .. 8 /\ ~sweep.dry  BY Categories, Zenon DEF SweepRows, Sweeping
<1>2. SweepShape /\ RowsKeyed(kept) /\ RowsKeyed(sweep.from)  BY <1>1 DEF RetentionInv, Sweeps
<1>3. PICK P : PartGone(P)
  <2>1. sweep.at >= 1  BY <1>1
  <2> QED  BY <1>1, <2>1, Zenon DEF RetentionInv, Sweeps
<1>4. PICK some \in kSubset(IF Cardinality(rows) > SweepBatch THEN SweepBatch ELSE Cardinality(rows), rows) :
        /\ kept' = (kept \ some) \cup (IF sweep.at = 1 THEN {Wiped(r) : r \in some} ELSE {})
        /\ sweep' = [sweep EXCEPT !.counts[sweep.at] = @ + Cardinality(some), !.at = IF Cardinality(some) < SweepBatch THEN @ + 1 ELSE @]
  <2>1. Category[sweep.at] = "rawMessages" <=> sweep.at = 1
    <3>1. \A i \in 2 .. 8 : Category[i] # "rawMessages"  BY DEF Category
    <3> QED  BY <1>1, <3>1, Categories
  <2>2. PICK some \in kSubset(IF Cardinality(rows) > SweepBatch THEN SweepBatch ELSE Cardinality(rows), rows) :
          /\ kept' = (kept \ some) \cup (IF Category[sweep.at] = "rawMessages" THEN {Wiped(r) : r \in some} ELSE {})
          /\ sweep' = [sweep EXCEPT !.counts[sweep.at] = @ + Cardinality(some), !.at = IF Cardinality(some) < SweepBatch THEN @ + 1 ELSE @]
    BY Zenon DEF SweepRows, Current, Wiped
  <2> QED  BY <2>1, <2>2, Zenon
<1> HIDE DEF rows
<1>5. some \subseteq rows /\ Cardinality(some) = (IF Cardinality(rows) > SweepBatch THEN SweepBatch ELSE Cardinality(rows))
  BY <1>4 DEF kSubset
<1>6. PICK Q : BatchOf(P, Q, some)
  <2>1. some \subseteq Swept(Category[sweep.at], sweep.day, kept)  BY <1>5 DEF rows
  <2> QED  BY <2>1, <1>1, <1>2, <1>3, BatchTakes
<1>7. /\ IsFiniteSet(P) /\ Cardinality(P) \in Nat /\ Cardinality(some) \in Nat
      /\ Cardinality(P \cup Q) = Cardinality(P) + Cardinality(some) /\ P \cup Q \subseteq DueAt(sweep.at)
  BY <1>1, <1>2, <1>3, <1>6, ThisFar
<1>8. Cardinality(some) < SweepBatch => P \cup Q = DueAt(sweep.at)
  <2> SUFFICES ASSUME Cardinality(some) < SweepBatch PROVE P \cup Q = DueAt(sweep.at)  OBVIOUS
  <2>1. rows \subseteq kept  BY SweptDue DEF rows
  <2>2. IsFiniteSet(rows)  BY <2>1, <1>2, FS_Subset, Zenon DEF RowsKeyed
  <2>3. Cardinality(rows) \in Nat  BY <2>2, FS_CardinalityType
  <2>4. Cardinality(some) = Cardinality(rows)  BY <1>5, <1>7, <2>3, RetentionAssumption
  <2>5. some = rows  BY <1>5, <2>2, <2>4, FS_Subset
  <2> QED  BY <2>5, <1>6 DEF BatchOf, rows
<1>9. kept' = Shown(sweep.from, ClearedBy(P \cup Q), DeletedBy(P \cup Q))  BY <1>4, <1>6 DEF BatchOf
<1>10. RowsKeyed(kept')  BY <1>2, <1>9, KeptKeyed DEF Shown
<1>11. /\ sweep'.dry = sweep.dry /\ sweep'.day = sweep.day /\ sweep'.from = sweep.from /\ DOMAIN sweep' = DOMAIN sweep
       /\ sweep'.at = IF Cardinality(some) < SweepBatch THEN sweep.at + 1 ELSE sweep.at
       /\ sweep'.counts = [sweep.counts EXCEPT ![sweep.at] = @ + Cardinality(some)]
  BY <1>4, <1>2 DEF SweepShape
<1>12. SweepShape'
  <2>1. sweep'.at \in 0 .. 9 /\ DOMAIN sweep'.counts = 1 .. 8  BY <1>1, <1>2, <1>11 DEF SweepShape
  <2>2. sweep.dry \in BOOLEAN /\ DOMAIN sweep' = {"at", "dry", "day", "counts", "from"}  BY <1>2, <1>11, Zenon DEF SweepShape
  <2> QED  BY <2>1, <2>2, <1>11, Zenon DEF SweepShape
<1>13. \A k : DueAt(k)' = DueAt(k)  BY <1>11, Zenon DEF DueAt
<1>14. \A k \in 1 .. 8 : sweep'.counts[k] = IF k < sweep.at THEN Cardinality(DueAt(k)) ELSE IF k = sweep.at THEN Cardinality(P \cup Q) ELSE 0
  <2>1. \A k \in 1 .. 8 : sweep.counts[k] = IF k < sweep.at THEN Cardinality(DueAt(k)) ELSE IF k = sweep.at THEN Cardinality(P) ELSE 0
    BY <1>3 DEF PartGone
  <2>2. \A k \in 1 .. 8 : sweep'.counts[k] = IF k = sweep.at THEN sweep.counts[k] + Cardinality(some) ELSE sweep.counts[k]
    BY <1>1, <1>2, <1>11 DEF SweepShape
  <2> QED  BY <2>1, <2>2, <1>1, <1>7
<1>15. \E R : PartGone(R)'
  <2>1. CASE Cardinality(some) < SweepBatch
    <3>1. P \cup Q = DueAt(sweep.at) /\ sweep'.at = sweep.at + 1  BY <2>1, <1>8, <1>11
    <3>2. ClearedBy({})' = ClearedBy(P \cup Q)  BY <1>1, <1>13, <3>1 DEF ClearedBy
    <3>3. DeletedBy({})' = DeletedBy(P \cup Q)
      <4>1. \A k \in 2 .. sweep.at : k \in 2 .. sweep.at - 1 \/ k = sweep.at  BY <1>1
      <4>2. 2 .. sweep.at - 1 \subseteq 2 .. sweep.at  BY <1>1
      <4>3. DeletedBy({})' = {r \in sweep.from : \E k \in 2 .. sweep.at : r \in DueAt(k)}
        <5>1. sweep'.at # 1 /\ sweep'.at - 1 = sweep.at  BY <1>1, <3>1
        <5>2. DeletedBy({})' = {r \in sweep'.from : \E k \in 2 .. sweep'.at - 1 : r \in DueAt(k)'}  BY <5>1 DEF DeletedBy
        <5> QED  BY <5>1, <5>2, <1>11, <1>13
      <4>4. CASE sweep.at = 1
        <5>1. DeletedBy(P \cup Q) = {} /\ 2 .. sweep.at = {}  BY <4>4 DEF DeletedBy
        <5> QED  BY <4>3, <5>1
      <4>5. CASE sweep.at # 1
        <5>1. sweep.at \in 2 .. sweep.at  BY <1>1, <4>5
        <5>2. DeletedBy(P \cup Q) = {r \in sweep.from : \E k \in 2 .. sweep.at - 1 : r \in DueAt(k)} \cup DueAt(sweep.at)  BY <3>1, <4>5 DEF DeletedBy
        <5>3. DueAt(sweep.at) \subseteq sweep.from  BY DEF DueAt
        <5> QED  BY <4>1, <4>2, <4>3, <5>1, <5>2, <5>3
      <4> QED  BY <4>4, <4>5
    <3>4. \A k \in 1 .. 8 : sweep'.counts[k] = IF k < sweep'.at THEN Cardinality(DueAt(k)') ELSE IF k = sweep'.at THEN Cardinality({}) ELSE 0
      <4>1. Cardinality({}) = 0  BY FS_EmptySet
      <4>2. \A k \in 1 .. 8 : k < sweep.at \/ k = sweep.at => sweep'.counts[k] = Cardinality(DueAt(k))  BY <1>14, <3>1
      <4>3. \A k \in 1 .. 8 : ~(k < sweep.at \/ k = sweep.at) => sweep'.counts[k] = 0  BY <1>14
      <4>4. \A k \in 1 .. 8 : k < sweep'.at <=> k < sweep.at \/ k = sweep.at  BY <1>1, <3>1
      <4> QED  BY <1>13, <4>1, <4>2, <4>3, <4>4, Zenon
    <3>5. PartGone({})'  BY <1>9, <1>11, <3>2, <3>3, <3>4 DEF PartGone
    <3> QED  BY <3>5
  <2>2. CASE ~(Cardinality(some) < SweepBatch)
    <3>1. sweep'.at = sweep.at  BY <2>2, <1>11
    <3>2. ClearedBy(P \cup Q)' = ClearedBy(P \cup Q) /\ DeletedBy(P \cup Q)' = DeletedBy(P \cup Q)
      BY <3>1, <1>11, <1>13, Zenon DEF ClearedBy, DeletedBy
    <3>3. \A k \in 1 .. 8 : sweep'.counts[k] = IF k < sweep'.at THEN Cardinality(DueAt(k)') ELSE IF k = sweep'.at THEN Cardinality(P \cup Q) ELSE 0
      BY <1>13, <1>14, <3>1
    <3>4. P \cup Q \subseteq sweep.from /\ \A r \in P \cup Q : sweep.at <= 8 /\ r \in DueAt(sweep.at)  BY <1>1, <1>7 DEF DueAt
    <3>5. PartGone(P \cup Q)'  BY <1>9, <1>11, <1>13, <3>1, <3>2, <3>3, <3>4 DEF PartGone
    <3> QED  BY <3>5
  <2> QED  BY <2>1, <2>2
<1>16. Sweeps'  BY <1>1, <1>2, <1>11, <1>15 DEF Sweeps
<1> QED  BY <1>10, <1>12, <1>16 DEF RetentionInv

LEMMA RetentionStep == ASSUME RetentionInv, RetentionNext \/ UNCHANGED retentionVars PROVE RetentionInv'
<1>1. CASE \E dry \in BOOLEAN : StartSweep(dry)  BY <1>1, StartKept
<1>2. CASE CountRows  BY <1>2, CountKept
<1>3. CASE SweepRows  BY <1>3, SweepKept
<1>4. CASE Interrupted \/ UNCHANGED retentionVars  BY <1>4, InterruptedKept
<1> QED  BY <1>1, <1>2, <1>3, <1>4, Zenon DEF RetentionNext, DayPasses

LEMMA RetentionFollow == ASSUME RetentionInv PROVE DryRunTells
<1> SUFFICES ASSUME sweep.at = 9, RowsKeyed(sweep.from), sweep.dry => DryCounts, ~sweep.dry => \E P : PartGone(P) PROVE DryRunTells
  <2>1. sweep.at > 8 => sweep.at = 9 /\ sweep.at >= 1  BY DEF RetentionInv, SweepShape
  <2> QED  BY <2>1, Categories DEF DryRunTells, RetentionInv, Sweeps
<1>1. \A i : Swept(Category[i], sweep.day, sweep.from) = DueAt(i)  BY SweptDue, Zenon DEF DueAt
<1>2. CASE sweep.dry
  <2>1. \A k \in 1 .. 8 : sweep.counts[k] = Cardinality(DueAt(k))  BY <1>2 DEF DryCounts
  <2>2. kept = sweep.from  BY <1>2 DEF DryCounts
  <2>3. \A i \in 1 .. 8 : sweep.counts[i] = Cardinality(Swept(Category[i], sweep.day, sweep.from))  BY <2>1, <1>1
  <2> QED  BY <1>2, <2>2, <2>3, Categories, Zenon DEF DryRunTells
<1>3. CASE ~sweep.dry
  <2>1. PICK P : PartGone(P)  BY <1>3
  <2>2. P = {}  BY <2>1 DEF PartGone
  <2>3. \A i \in 1 .. 8 : sweep.counts[i] = Cardinality(DueAt(i))  BY <2>1 DEF PartGone
  <2> DEFINE gone == UNION {Swept(Category[i], sweep.day, sweep.from) : i \in 2 .. 8}
             cleared == Swept("rawMessages", sweep.day, sweep.from) \ gone
  <2>4. kept = Shown(sweep.from, DueAt(1), {r \in sweep.from : \E k \in 2 .. 8 : r \in DueAt(k)})  BY <2>1, <2>2 DEF PartGone, ClearedBy, DeletedBy
  <2>5. gone = {r \in sweep.from : \E k \in 2 .. 8 : r \in DueAt(k)}
    <3>1. \A i : DueAt(i) \subseteq sweep.from  BY DEF DueAt
    <3> QED  BY <1>1, <3>1
  <2>6. Swept("rawMessages", sweep.day, sweep.from) = DueAt(1)  BY <1>1, Categories
  <2> HIDE DEF gone
  <2>7. kept = (sweep.from \ (gone \cup cleared)) \cup {[row EXCEPT !.raw = FALSE] : row \in cleared}
    <3>1. kept = {Seen(DueAt(1), r) : r \in sweep.from \ gone}  BY <2>4, <2>5 DEF Shown
    <3>2. cleared = DueAt(1) \ gone /\ cleared \subseteq sweep.from  BY <2>6 DEF DueAt
    <3>3. \A r \in sweep.from \ gone : Seen(DueAt(1), r) = IF r \in cleared THEN Wiped(r) ELSE r  BY <3>2 DEF Seen
    <3> HIDE DEF cleared
    <3>4. kept = (sweep.from \ (gone \cup cleared)) \cup {Wiped(row) : row \in cleared}  BY <3>1, <3>2, <3>3
    <3> QED  BY <3>4 DEF Wiped
  <2>8. \A i \in 1 .. 8 : sweep.counts[i] = Cardinality(Swept(Category[i], sweep.day, sweep.from))  BY <1>1, <2>3
  <2>9. \A i \in 1 .. Len(Category) : sweep.counts[i] = Cardinality(Swept(Category[i], sweep.day, sweep.from))  BY <2>8, Categories, Zenon
  <2>10. gone = UNION {Swept(Category[i], sweep.day, sweep.from) : i \in 2 .. Len(Category)}  BY Categories, Zenon DEF gone
  <2> HIDE DEF cleared
  <2>11. cleared = Swept("rawMessages", sweep.day, sweep.from) \ gone  BY Zenon DEF cleared
  <2> QED  BY <1>3, <2>7, <2>9, <2>10, <2>11, Zenon DEF DryRunTells
<1> QED  BY <1>2, <1>3
-----------------------------------------------------------------------------
(* The scenes that are not the store's leave it closed.                    *)
NotOpened == (\A p \in Procs : proc[p].at = "off") /\ taken = {} /\ restore.at = "off"
StoreInv ==
  /\ scene.part = "store" => StageSound /\ RunnersInv /\ BackupsInv
  /\ scene.part # "store" => NotOpened
  /\ RetentionInv

LEMMA StoreFollow == ASSUME StoreInv PROVE StoreSafe
<1>1. DryRunTells  BY RetentionFollow DEF StoreInv
<1>2. CASE scene.part = "store"  BY <1>1, <1>2, RunnersFollow, BackupsFollow DEF StoreInv, StoreSafe
<1>3. CASE scene.part # "store"
  <2>1. NotOpened  BY <1>3 DEF StoreInv
  <2>2. OneInstance  BY <2>1 DEF NotOpened, OneInstance, At
  <2>3. BackupsRestorable  BY <2>1 DEF NotOpened, BackupsRestorable
  <2> QED  BY <1>1, <2>2, <2>3 DEF StoreSafe
<1> QED  BY <1>2, <1>3
-----------------------------------------------------------------------------
(***************************************************************************)
(* Consent.  Who has withdrawn it has it nowhere and is not about to get   *)
(* it, and neither is one whose revocation, not overtaken by a grant, is   *)
(* about to be written.                                                    *)
(***************************************************************************)
Elsewhere == {"off", "ask", "wait", "insert", "vector", "answer"}

Lapsing(k) == k \in Calls /\ call[k].at = "delete" /\ \E u : u = call[k].who /\ u \notin localConsent /\ ~Granting(u)

ConsentInv ==
  /\ DOMAIN call = Calls
  /\ \A k \in Calls : DOMAIN call[k] = DOMAIN Off /\ call[k].then \in Elsewhere
  /\ \A u \in withdrawn : u \notin storedConsent \cup localConsent /\ ~Granting(u)
  /\ \A k \in revoking : Lapsing(k)

(* What ConsentRespected says of a step. *)
Respected ==
  \A k \in Calls : call'[k].kind = "store" /\ call'[k].at = "usage" /\ call[k].at \in {"off", "check"} => call'[k].who \notin withdrawn

(* A call that goes on without asking anyone's consent. *)
Onward(c, d) ==
  c.at \in Elsewhere \cup {"usage"} /\ DOMAIN d = DOMAIN Off /\ d.at \in Elsewhere /\ d.then \in Elsewhere

LEMMA OffFields == DOMAIN Off = {"at", "kind", "doc", "who", "text", "chunks", "next", "pend", "have", "then", "single", "rows", "saw", "hits"}
                   /\ Off.at = "off" /\ Off.then = "off"
BY DEF Off

LEMMA OnwardKept ==
  ASSUME ConsentInv, UNCHANGED consentVars, DOMAIN call' = Calls, \A k \in Calls : call'[k] = call[k] \/ Onward(call[k], call'[k])
  PROVE  ConsentInv' /\ Respected
<1>1. UNCHANGED <<storedConsent, localConsent, withdrawn, revoking>>  BY DEF consentVars
<1>2. \A k \in Calls : call'[k].at \in {"read", "write", "delete"} \/ call[k].at = "delete" => call'[k] = call[k]
  BY DEF Onward, Elsewhere
<1>3. \A u : Granting(u)' => Granting(u)  BY <1>2 DEF Granting
<1>4. \A k \in Calls : DOMAIN call'[k] = DOMAIN Off /\ call'[k].then \in Elsewhere  BY DEF ConsentInv, Onward
<1>5. \A u \in withdrawn' : u \notin storedConsent' \cup localConsent' /\ ~Granting(u)'  BY <1>1, <1>3 DEF ConsentInv
<1>6. \A k \in revoking' : Lapsing(k)'
  <2> SUFFICES ASSUME NEW k \in revoking PROVE Lapsing(k)'
    BY <1>1
  <2>1. PICK v : k \in Calls /\ call[k].at = "delete" /\ v = call[k].who /\ v \notin localConsent /\ ~Granting(v)  BY DEF ConsentInv, Lapsing
  <2>2. call'[k] = call[k]  BY <1>2, <2>1
  <2> QED  BY <1>1, <1>3, <2>1, <2>2 DEF Lapsing
<1>7. Respected  BY DEF Respected, Onward, Elsewhere
<1> QED  BY <1>4, <1>5, <1>6, <1>7 DEF ConsentInv

LEMMA OneOnward ==
  ASSUME ConsentInv, UNCHANGED consentVars, NEW k \in Calls, NEW d, call' = [call EXCEPT ![k] = d], Onward(call[k], d)
  PROVE  ConsentInv' /\ Respected
<1>1. DOMAIN call' = Calls /\ \A j \in Calls : call'[j] = IF j = k THEN d ELSE call[j]  BY DEF ConsentInv
<1> QED  BY <1>1, OnwardKept

LEMMA EmbedKept ==
  ASSUME ConsentInv, UNCHANGED consentVars, NEW k \in Calls, NEW texts, NEW c, DOMAIN c = DOMAIN Off, c.then \in Elsewhere,
         call[k].at \in Elsewhere \cup {"usage"}, Embed(k, texts, c)
  PROVE  ConsentInv' /\ Respected
<1>1. PICK pend, have : call' = [call EXCEPT ![k] = [c EXCEPT !.pend = pend, !.have = have, !.at = IF pend = <<>> THEN c.then ELSE "ask"]]
  BY Zenon DEF Embed
<1>2. PICK d : d = [c EXCEPT !.pend = pend, !.have = have, !.at = IF pend = <<>> THEN c.then ELSE "ask"]  OBVIOUS
<1>3. DOMAIN d = DOMAIN c /\ d.at \in {c.then, "ask"} /\ d.then = c.then  BY <1>2, OffFields
<1>4. Onward(call[k], d)  BY <1>3 DEF Onward, Elsewhere
<1> QED  BY <1>1, <1>2, <1>4, OneOnward

(* One call changes, to something else than the deletion of a consent.     *)
LEMMA CallGoes ==
  ASSUME ConsentInv, NEW k \in Calls, NEW d, DOMAIN d = DOMAIN Off, d.then \in Elsewhere, call' = [call EXCEPT ![k] = d],
         d.at \in {"read", "write"} => call[k].at \in {"read", "write"} /\ d.who = call[k].who
  PROVE  /\ DOMAIN call' = Calls /\ \A j \in Calls : DOMAIN call'[j] = DOMAIN Off /\ call'[j].then \in Elsewhere
         /\ call'[k] = d /\ \A j \in Calls \ {k} : call'[j] = call[j]
         /\ \A u : Granting(u)' => Granting(u)
<1>1. DOMAIN call' = Calls /\ \A j \in Calls : call'[j] = IF j = k THEN d ELSE call[j]  BY DEF ConsentInv
<1> QED  BY <1>1 DEF ConsentInv, Granting

LEMMA LapsingKept ==
  ASSUME ConsentInv, NEW j \in revoking, call'[j] = call[j], localConsent' \subseteq localConsent, \A u : Granting(u)' => Granting(u)
  PROVE  Lapsing(j)'
<1>1. PICK v : j \in Calls /\ call[j].at = "delete" /\ v = call[j].who /\ v \notin localConsent /\ ~Granting(v)  BY DEF ConsentInv, Lapsing
<1> QED  BY <1>1 DEF Lapsing

(* The steps that leave the revocations alone. *)
LEMMA OthersLapse ==
  ASSUME ConsentInv, NEW k \in Calls, call[k].at # "delete", UNCHANGED <<localConsent, revoking>>,
         \A j \in Calls \ {k} : call'[j] = call[j], \A u : Granting(u)' => Granting(u)
  PROVE  \A j \in revoking' : Lapsing(j)'
<1> SUFFICES ASSUME NEW j \in revoking PROVE Lapsing(j)'  OBVIOUS
<1>1. j \in Calls \ {k}  BY DEF ConsentInv, Lapsing
<1> QED  BY <1>1, LapsingKept

LEMMA StartGrantKept ==
  ASSUME ConsentInv, NEW k \in Calls, NEW u, NEW c, DOMAIN c = DOMAIN Off, c.then \in Elsewhere, call[k].at = "off", StartGrant(k, u, c)
  PROVE  ConsentInv' /\ Respected
<1>1. PICK d : d = [c EXCEPT !.who = u, !.at = "read"]  OBVIOUS
<1>2. /\ localConsent' = (localConsent \cup {u}) /\ withdrawn' = withdrawn \ {u} /\ storedConsent' = storedConsent
      /\ revoking' = {j \in revoking : call[j].who # u} /\ call' = [call EXCEPT ![k] = d]
  BY <1>1 DEF StartGrant
<1>3. DOMAIN d = DOMAIN Off /\ d.then = c.then /\ d.at = "read" /\ d.who = u  BY <1>1, OffFields
<1>4. DOMAIN call' = Calls /\ \A j \in Calls : call'[j] = IF j = k THEN d ELSE call[j]  BY <1>2 DEF ConsentInv
<1>5. \A v : v # u => (Granting(v)' => Granting(v))  BY <1>3, <1>4 DEF Granting
<1>6. \A j \in Calls : DOMAIN call'[j] = DOMAIN Off /\ call'[j].then \in Elsewhere  BY <1>3, <1>4 DEF ConsentInv
<1>7. \A v \in withdrawn' : v \notin storedConsent' \cup localConsent' /\ ~Granting(v)'  BY <1>2, <1>5 DEF ConsentInv
<1>8. \A j \in revoking' : Lapsing(j)'
  <2> SUFFICES ASSUME NEW j \in revoking, call[j].who # u
               PROVE  Lapsing(j)'
    BY <1>2
  <2>1. PICK v : j \in Calls /\ call[j].at = "delete" /\ v = call[j].who /\ v \notin localConsent /\ ~Granting(v)  BY DEF ConsentInv, Lapsing
  <2>2. call'[j] = call[j]  BY <1>4, <2>1
  <2> QED  BY <1>2, <1>5, <2>1, <2>2 DEF Lapsing
<1>9. Respected  BY <1>3, <1>4 DEF Respected
<1> QED  BY <1>4, <1>6, <1>7, <1>8, <1>9 DEF ConsentInv

LEMMA GrantReadKept == ASSUME ConsentInv, NEW k \in Calls, GrantRead(k) PROVE ConsentInv' /\ Respected
<1>1. PICK d : d = [call[k] EXCEPT !.at = "write", !.saw = call[k].who \in storedConsent]  OBVIOUS
<1>2. call[k].at = "read" /\ call' = [call EXCEPT ![k] = d] /\ UNCHANGED <<storedConsent, localConsent, withdrawn, revoking>>
  BY <1>1 DEF GrantRead, consentVars, ConsentInv
<1>3. DOMAIN call[k] = DOMAIN Off /\ call[k].then \in Elsewhere  BY DEF ConsentInv
<1>4. DOMAIN d = DOMAIN Off /\ d.then = call[k].then /\ d.at = "write" /\ d.who = call[k].who  BY <1>1, <1>3, OffFields
<1>5. /\ DOMAIN call' = Calls /\ \A j \in Calls : DOMAIN call'[j] = DOMAIN Off /\ call'[j].then \in Elsewhere
      /\ call'[k] = d /\ \A j \in Calls \ {k} : call'[j] = call[j]
      /\ \A u : Granting(u)' => Granting(u)
  BY <1>2, <1>3, <1>4, CallGoes
<1>6. \A j \in revoking' : Lapsing(j)'  BY <1>2, <1>5, OthersLapse
<1> QED  BY <1>2, <1>4, <1>5, <1>6 DEF ConsentInv, Respected

LEMMA GrantWriteKept == ASSUME ConsentInv, NEW k \in Calls, GrantWrite(k) PROVE ConsentInv' /\ Respected
<1>1. PICK d : d = IF call[k].kind = "store" THEN [call[k] EXCEPT !.at = "usage"] ELSE Off  OBVIOUS
<1>2. /\ call[k].at = "write" /\ call' = [call EXCEPT ![k] = d] /\ UNCHANGED <<localConsent, withdrawn, revoking>>
      /\ storedConsent' \subseteq storedConsent \cup {call[k].who}
  BY <1>1 DEF GrantWrite, ConsentInv
<1>3. DOMAIN call[k] = DOMAIN Off /\ call[k].then \in Elsewhere  BY DEF ConsentInv
<1>4. DOMAIN d = DOMAIN Off /\ d.then \in Elsewhere /\ d.at \in {"usage", "off"}  BY <1>1, <1>3, OffFields DEF Elsewhere
<1>5. /\ DOMAIN call' = Calls /\ \A j \in Calls : DOMAIN call'[j] = DOMAIN Off /\ call'[j].then \in Elsewhere
      /\ call'[k] = d /\ \A j \in Calls \ {k} : call'[j] = call[j]
      /\ \A u : Granting(u)' => Granting(u)
  BY <1>2, <1>4, CallGoes
<1>6. PICK w : w = call[k].who /\ Granting(w)  BY <1>2 DEF Granting
<1>7. \A j \in revoking' : Lapsing(j)'  BY <1>2, <1>5, OthersLapse
<1>8. \A u \in withdrawn' : u \notin storedConsent' \cup localConsent' /\ ~Granting(u)'  BY <1>2, <1>5, <1>6 DEF ConsentInv
<1>9. Respected  BY <1>2, <1>4, <1>5 DEF Respected
<1> QED  BY <1>5, <1>7, <1>8, <1>9 DEF ConsentInv

LEMMA RevokeKept == ASSUME ConsentInv, NEW k \in Calls, NEW u, Revoke(k, u) PROVE ConsentInv' /\ Respected
<1>1. PICK d : d = [Off EXCEPT !.kind = "revoke", !.who = u, !.at = "delete"]  OBVIOUS
<1>2. /\ call[k].at = "off" /\ call' = [call EXCEPT ![k] = d] /\ localConsent' = localConsent \ {u} /\ UNCHANGED <<storedConsent, withdrawn>>
      /\ revoking' = IF Granting(u) THEN revoking ELSE revoking \cup {k}
  BY <1>1 DEF Revoke, Begins
<1>3. DOMAIN d = DOMAIN Off /\ d.then \in Elsewhere /\ d.at = "delete" /\ d.who = u  BY <1>1, OffFields DEF Elsewhere
<1>4. /\ DOMAIN call' = Calls /\ \A j \in Calls : DOMAIN call'[j] = DOMAIN Off /\ call'[j].then \in Elsewhere
      /\ call'[k] = d /\ \A j \in Calls \ {k} : call'[j] = call[j]
      /\ \A v : Granting(v)' => Granting(v)
  BY <1>2, <1>3, CallGoes
<1>5. \A j \in revoking' : Lapsing(j)'
  <2> SUFFICES ASSUME NEW j \in revoking' PROVE Lapsing(j)'
    OBVIOUS
  <2>1. CASE j = k /\ j \notin revoking
    <3>1. ~Granting(u)  BY <1>2, <2>1
    <3> QED  BY <1>2, <1>3, <1>4, <2>1, <3>1 DEF Lapsing
  <2>2. CASE j \in revoking
    <3>1. PICK v : j \in Calls /\ call[j].at = "delete" /\ v = call[j].who /\ v \notin localConsent /\ ~Granting(v)  BY <2>2 DEF ConsentInv, Lapsing
    <3>2. call'[j] = call[j]  BY <1>2, <1>4, <3>1
    <3> QED  BY <1>2, <1>4, <3>1, <3>2 DEF Lapsing
  <2> QED  BY <1>2, <2>1, <2>2
<1>6. Respected  BY <1>3, <1>4 DEF Respected
<1>7. \A v \in withdrawn' : v \notin storedConsent' \cup localConsent' /\ ~Granting(v)'  BY <1>2, <1>4 DEF ConsentInv
<1> QED  BY <1>4, <1>5, <1>6, <1>7 DEF ConsentInv

LEMMA RevokeDeleteKept == ASSUME ConsentInv, NEW k \in Calls, RevokeDelete(k) PROVE ConsentInv' /\ Respected
<1>1. /\ call[k].at = "delete" /\ call' = [call EXCEPT ![k] = Off] /\ revoking' = revoking \ {k} /\ localConsent' = localConsent
      /\ \/ storedConsent' = storedConsent \ {call[k].who} /\ withdrawn' = IF k \in revoking THEN withdrawn \cup {call[k].who} ELSE withdrawn
         \/ UNCHANGED <<storedConsent, withdrawn>>
  BY DEF RevokeDelete
<1>2. DOMAIN Off = DOMAIN Off /\ Off.then \in Elsewhere /\ Off.at = "off"  BY OffFields DEF Elsewhere
<1>3. /\ DOMAIN call' = Calls /\ \A j \in Calls : DOMAIN call'[j] = DOMAIN Off /\ call'[j].then \in Elsewhere
      /\ call'[k] = Off /\ \A j \in Calls \ {k} : call'[j] = call[j]
      /\ \A u : Granting(u)' => Granting(u)
  BY <1>1, <1>2, CallGoes
<1>4. \A u \in withdrawn' : u \notin storedConsent' \cup localConsent' /\ ~Granting(u)'
  <2> SUFFICES ASSUME NEW u \in withdrawn' PROVE u \notin storedConsent' \cup localConsent' /\ ~Granting(u)'  OBVIOUS
  <2>1. CASE u \in withdrawn  BY <1>1, <1>3, <2>1 DEF ConsentInv
  <2>2. CASE u \notin withdrawn
    <3>1. k \in revoking /\ u = call[k].who /\ storedConsent' = storedConsent \ {u}  BY <1>1, <2>2
    <3>2. u \notin localConsent /\ ~Granting(u)  BY <3>1 DEF ConsentInv, Lapsing
    <3> QED  BY <1>1, <1>3, <3>1, <3>2
  <2> QED  BY <2>1, <2>2
<1>5. \A j \in revoking' : Lapsing(j)'
  <2> SUFFICES ASSUME NEW j \in revoking \ {k}
               PROVE  Lapsing(j)'
    BY <1>1
  <2>1. PICK v : j \in Calls /\ call[j].at = "delete" /\ v = call[j].who /\ v \notin localConsent /\ ~Granting(v)  BY DEF ConsentInv, Lapsing
  <2>2. call'[j] = call[j]  BY <1>3, <2>1
  <2> QED  BY <1>1, <1>3, <2>1, <2>2 DEF Lapsing
<1>6. Respected  BY <1>2, <1>3 DEF Respected
<1> QED  BY <1>3, <1>4, <1>5, <1>6 DEF ConsentInv

LEMMA StoreMemoryKept == ASSUME ConsentInv, NEW k \in Calls, NEW u, NEW text, NEW consents, StoreMemory(k, u, text, consents) PROVE ConsentInv' /\ Respected
<1>1. PICK c : c = [Off EXCEPT !.kind = "store", !.doc = Spent("store"), !.who = u, !.chunks = <<text>>]  OBVIOUS
<1>2. DOMAIN c = DOMAIN Off /\ c.then \in Elsewhere /\ c.at = "off" /\ c.who = u  BY <1>1, OffFields DEF Elsewhere
<1>3. call[k].at = "off"  BY DEF StoreMemory, Begins
<1>4. CASE StartGrant(k, u, c)  BY <1>2, <1>3, <1>4, StartGrantKept
<1>5. CASE ~StartGrant(k, u, c)
  <2>1. PICK d : d = [c EXCEPT !.at = IF u \in localConsent THEN "usage" ELSE "check"]  OBVIOUS
  <2>2. call' = [call EXCEPT ![k] = d] /\ UNCHANGED <<storedConsent, localConsent, withdrawn, revoking>>
    BY <1>1, <1>5, <2>1 DEF StoreMemory, consentVars
  <2>3. DOMAIN d = DOMAIN Off /\ d.then = c.then /\ d.at = (IF u \in localConsent THEN "usage" ELSE "check") /\ d.who = u  BY <1>2, <2>1, OffFields
  <2>4. /\ DOMAIN call' = Calls /\ \A j \in Calls : DOMAIN call'[j] = DOMAIN Off /\ call'[j].then \in Elsewhere
        /\ call'[k] = d /\ \A j \in Calls \ {k} : call'[j] = call[j]
        /\ \A v : Granting(v)' => Granting(v)
    BY <1>2, <2>2, <2>3, CallGoes
  <2>5. \A j \in revoking' : Lapsing(j)'  BY <1>3, <2>2, <2>4, OthersLapse
  <2>6. \A v \in withdrawn' : v \notin storedConsent' \cup localConsent' /\ ~Granting(v)'  BY <2>2, <2>4 DEF ConsentInv
  <2>7. Respected  BY <2>2, <2>3, <2>4 DEF Respected, ConsentInv
  <2> QED  BY <2>4, <2>5, <2>6, <2>7 DEF ConsentInv
<1> QED  BY <1>4, <1>5

LEMMA CheckConsentKept == ASSUME ConsentInv, NEW k \in Calls, CheckConsent(k) PROVE ConsentInv' /\ Respected
<1>1. PICK d : d = IF call[k].who \in storedConsent THEN [call[k] EXCEPT !.at = "usage"] ELSE Off  OBVIOUS
<1>2. call[k].at = "check" /\ call' = [call EXCEPT ![k] = d] /\ UNCHANGED <<storedConsent, localConsent, withdrawn, revoking>>
  BY <1>1 DEF CheckConsent, consentVars, ConsentInv
<1>3. DOMAIN call[k] = DOMAIN Off /\ call[k].then \in Elsewhere  BY DEF ConsentInv
<1>4. DOMAIN d = DOMAIN Off /\ d.then \in Elsewhere /\ (d.at = "off" \/ (d.at = "usage" /\ d.who = call[k].who /\ d.who \in storedConsent))
  BY <1>1, <1>3, OffFields DEF Elsewhere
<1>5. /\ DOMAIN call' = Calls /\ \A j \in Calls : DOMAIN call'[j] = DOMAIN Off /\ call'[j].then \in Elsewhere
      /\ call'[k] = d /\ \A j \in Calls \ {k} : call'[j] = call[j]
      /\ \A u : Granting(u)' => Granting(u)
  BY <1>2, <1>4, CallGoes
<1>6. \A j \in revoking' : Lapsing(j)'  BY <1>2, <1>5, OthersLapse
<1>7. \A v \in withdrawn' : v \notin storedConsent' \cup localConsent' /\ ~Granting(v)'  BY <1>2, <1>5 DEF ConsentInv
<1>8. Respected  BY <1>2, <1>4, <1>5 DEF Respected, ConsentInv
<1> QED  BY <1>5, <1>6, <1>7, <1>8 DEF ConsentInv

LEMMA UsageKept == ASSUME ConsentInv, NEW k \in Calls, Usage(k) PROVE ConsentInv' /\ Respected
<1>1. call[k].at = "usage" /\ UNCHANGED consentVars  BY DEF Usage
<1>2. DOMAIN call[k] = DOMAIN Off /\ call[k].then \in Elsewhere  BY DEF ConsentInv
<1>3. PICK c : c = [call[k] EXCEPT !.then = "insert", !.single = TRUE]  OBVIOUS
<1>4. DOMAIN c = DOMAIN Off /\ c.then \in Elsewhere  BY <1>2, <1>3, OffFields DEF Elsewhere
<1>5. CASE Embed(k, call[k].chunks, c)  BY <1>1, <1>4, <1>5, EmbedKept
<1>6. ASSUME NEW d, d = Off \/ d = [call[k] EXCEPT !.at = "insert"], call' = [call EXCEPT ![k] = d] PROVE ConsentInv' /\ Respected
  <2>1. Onward(call[k], d)  BY <1>1, <1>2, <1>6, OffFields DEF Onward, Elsewhere
  <2> QED  BY <1>1, <1>6, <2>1, OneOnward
<1>7. \/ Embed(k, call[k].chunks, c) \/ call' = [call EXCEPT ![k] = Off] \/ call' = [call EXCEPT ![k] = [call[k] EXCEPT !.at = "insert"]]
  BY <1>3 DEF Usage, ConsentInv
<1> QED  BY <1>5, <1>6, <1>7

LEMMA LookKept ==
  ASSUME ConsentInv, NEW k \in Calls, call[k].at = "off", UNCHANGED consentVars, NEW c, DOMAIN c = DOMAIN Off, c.then \in Elsewhere, NEW texts, NEW s \in Elsewhere,
         Embed(k, texts, c) \/ call' = [call EXCEPT ![k] = [c EXCEPT !.at = s]]
  PROVE  ConsentInv' /\ Respected
<1>1. CASE Embed(k, texts, c)
  <2>1. call[k].at \in Elsewhere  BY DEF Elsewhere
  <2> QED  BY <1>1, <2>1, EmbedKept
<1>2. CASE call' = [call EXCEPT ![k] = [c EXCEPT !.at = s]]
  <2>1. PICK d : d = [c EXCEPT !.at = s]  OBVIOUS
  <2>2. Onward(call[k], d)  BY <2>1, OffFields DEF Onward, Elsewhere
  <2> QED  BY <1>2, <2>1, <2>2, OneOnward
<1> QED  BY <1>1, <1>2

LEMMA IndexKept == ASSUME ConsentInv, NEW k \in Calls, NEW r, NEW topic, Index(k, r, topic) PROVE ConsentInv' /\ Respected
<1>1. call[k].at = "off" /\ UNCHANGED consentVars  BY Zenon DEF Index, Begins
<1>2. PICK paragraphs, chunks :
        LET c == [Off EXCEPT !.kind = "index", !.doc = Spent("index"), !.who = r, !.text = paragraphs, !.then = "insert", !.chunks = chunks]
        IN  Embed(k, c.chunks, c) \/ call' = [call EXCEPT ![k] = [c EXCEPT !.at = "insert"]]
  BY Zenon DEF Index
<1>3. PICK c : c = [Off EXCEPT !.kind = "index", !.doc = Spent("index"), !.who = r, !.text = paragraphs, !.then = "insert", !.chunks = chunks]  OBVIOUS
<1>4. DOMAIN c = DOMAIN Off /\ c.then \in Elsewhere /\ "insert" \in Elsewhere  BY <1>3, OffFields DEF Elsewhere
<1>5. Embed(k, c.chunks, c) \/ call' = [call EXCEPT ![k] = [c EXCEPT !.at = "insert"]]  BY <1>2, <1>3, Zenon
<1> QED  BY <1>1, <1>4, <1>5, LookKept

LEMMA LookThroughKept == ASSUME ConsentInv, NEW k \in Calls, NEW o, NEW topic, NEW rows, LookThrough(k, o, topic, rows) PROVE ConsentInv' /\ Respected
<1>1. call[k].at = "off" /\ UNCHANGED consentVars  BY Zenon DEF LookThrough, Begins
<1>2. PICK c : c = [Off EXCEPT !.kind = "search", !.who = o, !.chunks = <<<<topic, 0>>>>, !.rows = rows, !.then = "answer"]  OBVIOUS
<1>3. DOMAIN c = DOMAIN Off /\ c.then \in Elsewhere /\ "answer" \in Elsewhere  BY <1>2, OffFields DEF Elsewhere
<1>4. Embed(k, c.chunks, c) \/ call' = [call EXCEPT ![k] = [c EXCEPT !.at = "answer"]]  BY <1>2, Zenon DEF LookThrough
<1> QED  BY <1>1, <1>3, <1>4, LookKept

LEMMA InsertKept == ASSUME ConsentInv, NEW k \in Calls, Insert(k) PROVE ConsentInv' /\ Respected
<1>1. call[k].at = "insert" /\ UNCHANGED consentVars  BY Zenon DEF Insert
<1>2. DOMAIN call[k] = DOMAIN Off /\ call[k].then \in Elsewhere  BY DEF ConsentInv
<1>3. PICK c : c = [call[k] EXCEPT !.then = "vector", !.single = TRUE]  OBVIOUS
<1>4. DOMAIN c = DOMAIN Off /\ c.then \in Elsewhere /\ call[k].at \in Elsewhere  BY <1>1, <1>2, <1>3, OffFields DEF Elsewhere
<1>5. ASSUME NEW texts, Embed(k, texts, c) PROVE ConsentInv' /\ Respected  BY <1>1, <1>4, <1>5, EmbedKept
<1>6. ASSUME NEW d, d = Off \/ d = [call[k] EXCEPT !.at = "vector"], call' = [call EXCEPT ![k] = d] PROVE ConsentInv' /\ Respected
  <2>1. Onward(call[k], d)  BY <1>1, <1>2, <1>6, OffFields DEF Onward, Elsewhere
  <2> QED  BY <1>1, <1>6, <2>1, OneOnward
<1>7. \/ \E texts : Embed(k, texts, c)
      \/ call' = [call EXCEPT ![k] = Off] \/ call' = [call EXCEPT ![k] = [call[k] EXCEPT !.at = "vector"]]
  <2>1. (call' = [call EXCEPT ![k].at = "vector"]) = (call' = [call EXCEPT ![k] = [call[k] EXCEPT !.at = "vector"]])  BY DEF ConsentInv
  <2> QED  BY <1>3, <2>1, Zenon DEF Insert
<1> QED  BY <1>5, <1>6, <1>7

LEMMA PlainKept == ASSUME ConsentInv, NEW k \in Calls, WriteVector(k) \/ Request(k) \/ Found(k) PROVE ConsentInv' /\ Respected
<1>1. UNCHANGED consentVars /\ DOMAIN call[k] = DOMAIN Off /\ call[k].then \in Elsewhere  BY Zenon DEF ConsentInv, WriteVector, Request, Found
<1>2. CASE WriteVector(k)
  <2>1. call[k].at = "vector" /\ call' = [call EXCEPT ![k] = IF call[k].next = Len(call[k].chunks) THEN Off ELSE [@ EXCEPT !.next = @ + 1, !.at = "insert"]]
    BY <1>2, Zenon DEF WriteVector
  <2>2. DOMAIN call' = Calls /\ \A j \in Calls \ {k} : call'[j] = call[j]  BY <2>1 DEF ConsentInv
  <2>3. DOMAIN call'[k] = DOMAIN Off /\ call'[k].at \in {"off", "insert"} /\ call'[k].then \in {"off", call[k].then}
    BY <1>1, <2>1, OffFields DEF ConsentInv
  <2>4. Onward(call[k], call'[k])  BY <1>1, <2>1, <2>3 DEF Onward, Elsewhere
  <2> QED  BY <1>1, <2>2, <2>4, OnwardKept
<1>3. CASE Request(k)
  <2>1. PICK d : d = [call[k] EXCEPT !.at = "wait"]  OBVIOUS
  <2>2. call[k].at = "ask" /\ call' = [call EXCEPT ![k] = d]  BY <1>3, <2>1 DEF Request, ConsentInv
  <2>3. Onward(call[k], d)  BY <1>1, <2>1, <2>2, OffFields DEF Onward, Elsewhere
  <2> QED  BY <1>1, <2>2, <2>3, OneOnward
<1>4. CASE Found(k)
  <2>1. PICK hits : call[k].at = "answer" /\ call' = [call EXCEPT ![k] = [Off EXCEPT !.hits = hits]]  BY <1>4, Zenon DEF Found
  <2>2. PICK d : d = [Off EXCEPT !.hits = hits]  OBVIOUS
  <2>3. Onward(call[k], d)  BY <2>1, <2>2, OffFields DEF Onward, Elsewhere
  <2> QED  BY <1>1, <2>1, <2>2, <2>3, OneOnward
<1> QED  BY <1>2, <1>3, <1>4

(* Those who waited for a request go on together. *)
LEMMA AnsweredOnward ==
  ASSUME ConsentInv, UNCHANGED consentVars, NEW f, Answers(f) \/ Refuses(f)
  PROVE  ConsentInv' /\ Respected
<1>1. \A k \in WaitersOf(f) : call[k].at = "wait" /\ k \in Calls /\ DOMAIN call[k] = DOMAIN Off /\ call[k].then \in Elsewhere
  BY DEF WaitersOf, ConsentInv
<1>2. \E made :
        /\ call' = [k \in Calls |-> IF k \in WaitersOf(f) THEN made[k] ELSE call[k]]
        /\ \A k \in WaitersOf(f) : DOMAIN made[k] = DOMAIN Off /\ made[k].at \in {call[k].then, "ask"} /\ made[k].then = call[k].then
  <2>1. CASE Refuses(f)
    <3>1. PICK made : made = [k \in WaitersOf(f) |-> [call[k] EXCEPT !.pend = <<>>, !.have = None, !.at = call[k].then]]  OBVIOUS
    <3>2. call' = [k \in Calls |-> IF k \in WaitersOf(f) THEN made[k] ELSE call[k]]  BY <2>1, <3>1 DEF Refuses
    <3>3. ASSUME NEW k \in WaitersOf(f)
          PROVE  DOMAIN made[k] = DOMAIN Off /\ made[k].at \in {call[k].then, "ask"} /\ made[k].then = call[k].then
      <4>1. made[k] = [call[k] EXCEPT !.pend = <<>>, !.have = None, !.at = call[k].then]  BY <3>1
      <4> QED  BY <4>1, <1>1, OffFields
    <3> QED  BY <3>2, <3>3, Zenon
  <2>2. CASE Answers(f)
    <3>1. PICK order, got :
            call' = [k \in Calls |->
              IF k \in WaitersOf(f)
              THEN [call[k] EXCEPT !.pend = SubSeq(call[k].pend, Len(f) + 1, Len(call[k].pend)), !.have = got @@ @,
                                   !.at = IF SubSeq(call[k].pend, Len(f) + 1, Len(call[k].pend)) = <<>> THEN call[k].then ELSE "ask"]
              ELSE call[k]]
      BY <2>2, Zenon DEF Answers
    <3>2. PICK made :
            made = [k \in WaitersOf(f) |->
                     [call[k] EXCEPT !.pend = SubSeq(call[k].pend, Len(f) + 1, Len(call[k].pend)), !.have = got @@ @,
                                     !.at = IF SubSeq(call[k].pend, Len(f) + 1, Len(call[k].pend)) = <<>> THEN call[k].then ELSE "ask"]]
      OBVIOUS
    <3>3. call' = [k \in Calls |-> IF k \in WaitersOf(f) THEN made[k] ELSE call[k]]  BY <3>1, <3>2
    <3>4. ASSUME NEW k \in WaitersOf(f)
          PROVE  DOMAIN made[k] = DOMAIN Off /\ made[k].at \in {call[k].then, "ask"} /\ made[k].then = call[k].then
      <4>1. PICK pend, have, at :
              /\ at \in {call[k].then, "ask"}
              /\ pend = SubSeq(call[k].pend, Len(f) + 1, Len(call[k].pend)) /\ have = got @@ call[k].have
              /\ at = IF SubSeq(call[k].pend, Len(f) + 1, Len(call[k].pend)) = <<>> THEN call[k].then ELSE "ask"
        OBVIOUS
      <4>2. made[k] = [call[k] EXCEPT !.pend = pend, !.have = have, !.at = at]  BY <3>2, <4>1
      <4> QED  BY <4>1, <4>2, <1>1, OffFields
    <3> QED  BY <3>3, <3>4, Zenon
  <2> QED  BY <2>1, <2>2
<1>3. PICK made :
        /\ call' = [k \in Calls |-> IF k \in WaitersOf(f) THEN made[k] ELSE call[k]]
        /\ \A k \in WaitersOf(f) : DOMAIN made[k] = DOMAIN Off /\ made[k].at \in {call[k].then, "ask"} /\ made[k].then = call[k].then
  BY <1>2
<1>4. ASSUME NEW k \in WaitersOf(f) PROVE Onward(call[k], made[k])  BY <1>1, <1>3 DEF Onward, Elsewhere
<1>5. DOMAIN call' = Calls /\ \A k \in Calls : call'[k] = call[k] \/ Onward(call[k], call'[k])
  BY <1>3, <1>4
<1> QED  BY <1>5, OnwardKept

LEMMA GrantKept == ASSUME ConsentInv, NEW k \in Calls, NEW u, Grant(k, u) PROVE ConsentInv' /\ Respected
<1>1. PICK c : c = [Off EXCEPT !.kind = "grant"]  OBVIOUS
<1>2. DOMAIN c = DOMAIN Off /\ c.then \in Elsewhere  BY <1>1, OffFields DEF Elsewhere
<1>3. call[k].at = "off" /\ StartGrant(k, u, c)  BY <1>1, Zenon DEF Grant, Begins
<1> QED  BY <1>2, <1>3, StartGrantKept

(* With the process its calls end, and what it remembered is gone. *)
LEMMA HaltKept == ASSUME ConsentInv, Halt PROVE ConsentInv' /\ Respected
<1>1. call' = [k \in Calls |-> Off] /\ localConsent' = {} /\ revoking' = {} /\ UNCHANGED <<storedConsent, withdrawn>>  BY DEF Halt
<1>2. DOMAIN call' = Calls /\ \A k \in Calls : call'[k] = Off  BY <1>1
<1>3. Off.at = "off" /\ Off.then \in Elsewhere  BY OffFields DEF Elsewhere
<1>4. \A u : ~Granting(u)'  BY <1>2, <1>3 DEF Granting
<1>5. \A k \in Calls : DOMAIN call'[k] = DOMAIN Off /\ call'[k].then \in Elsewhere  BY <1>2, <1>3
<1>6. \A u \in withdrawn' : u \notin storedConsent' \cup localConsent' /\ ~Granting(u)'  BY <1>1, <1>4 DEF ConsentInv
<1>7. Respected  BY <1>2, <1>3 DEF Respected
<1> QED  BY <1>1, <1>2, <1>5, <1>6, <1>7 DEF ConsentInv

LEMMA QuietKept == ASSUME ConsentInv, UNCHANGED <<consentVars, call>> PROVE ConsentInv' /\ Respected
<1>1. DOMAIN call' = Calls /\ \A k \in Calls : call'[k] = call[k]  BY DEF ConsentInv
<1> QED  BY <1>1, OnwardKept

LEMMA RemovalsQuiet == ASSUME NEW row, Forget(row) \/ RemoveDocument(row) \/ RemoveAll(row) PROVE UNCHANGED <<consentVars, call>>
BY Zenon DEF Forget, RemoveDocument, RemoveAll, Removes

LEMMA ScriptsQuiet ==
  ASSUME Boot \/ BackfillRead \/ BackfillWrite \/ (\E m \in Models : BackfillStart(m)) \/ (Tick /\ UNCHANGED knowledgeVars)
  PROVE  UNCHANGED <<consentVars, call>>
BY Zenon DEF Boot, BackfillRead, BackfillWrite, BackfillStart, knowledgeVars, consentVars

(* The steps of one call. *)
Steps(k) ==
  \/ (\E u \in Members : Grant(k, u) \/ Revoke(k, u))
  \/ (\E u \in Members, t \in Topics, c \in BOOLEAN : StoreMemory(k, u, <<t, 0>>, c))
  \/ (\E r \in Libraries, t \in Topics : Index(k, r, t))
  \/ (\E r \in Libraries, t \in Topics : Search(k, r, t)) \/ (\E u \in Members, t \in Topics : Rank(k, u, t))
  \/ GrantRead(k) \/ GrantWrite(k) \/ RevokeDelete(k) \/ CheckConsent(k) \/ Usage(k) \/ Insert(k) \/ WriteVector(k)
  \/ Request(k) \/ Found(k)

LEMMA StepsKept == ASSUME ConsentInv, NEW k \in Calls, Steps(k) PROVE ConsentInv' /\ Respected
<1>1. CASE \E u \in Members : Grant(k, u) \/ Revoke(k, u)  BY <1>1, GrantKept, RevokeKept
<1>2. CASE \E u \in Members, t \in Topics, c \in BOOLEAN : StoreMemory(k, u, <<t, 0>>, c)  BY <1>2, StoreMemoryKept
<1>3. CASE \E r \in Libraries, t \in Topics : Index(k, r, t)  BY <1>3, IndexKept
<1>4. CASE \E r \in Libraries, t \in Topics : Search(k, r, t)
  <2>1. PICK r, t : LookThrough(k, r, t, Candidates(r, t))  BY <1>4, Zenon DEF Search
  <2> QED  BY <2>1, LookThroughKept
<1>5. CASE \E u \in Members, t \in Topics : Rank(k, u, t)
  <2>1. PICK u, t : LookThrough(k, u, t, Newest(RowsOfOwner(u), Recent))  BY <1>5, Zenon DEF Rank
  <2> QED  BY <2>1, LookThroughKept
<1>6. CASE GrantRead(k) \/ GrantWrite(k) \/ RevokeDelete(k)  BY <1>6, GrantReadKept, GrantWriteKept, RevokeDeleteKept
<1>7. CASE CheckConsent(k) \/ Usage(k) \/ Insert(k)  BY <1>7, CheckConsentKept, UsageKept, InsertKept
<1>8. CASE WriteVector(k) \/ Request(k) \/ Found(k)  BY <1>8, PlainKept
<1> QED  BY <1>1, <1>2, <1>3, <1>4, <1>5, <1>6, <1>7, <1>8, Zenon DEF Steps

LEMMA KnowledgeKept == ASSUME ConsentInv, KnowledgeNext PROVE ConsentInv' /\ Respected
<1>1. \/ \E k \in Calls : Steps(k)
      \/ \E i \in 1 .. Len(memories) : Forget(memories[i]) \/ RemoveDocument(memories[i])
      \/ \E f \in flights : Answers(f) \/ Refuses(f)
      \/ (\E r \in Libraries : RemoveAll(r)) \/ Halt \/ Boot \/ BackfillRead \/ BackfillWrite
      \/ (\E m \in Models : BackfillStart(m))
      \/ Tick /\ UNCHANGED knowledgeVars
  BY Zenon DEF KnowledgeNext, Steps
<1>2. CASE \E k \in Calls : Steps(k)  BY <1>2, StepsKept
<1>3. CASE \E i \in 1 .. Len(memories) : Forget(memories[i]) \/ RemoveDocument(memories[i])
  <2>1. PICK row : Forget(row) \/ RemoveDocument(row)  BY <1>3, Zenon
  <2> QED  BY <2>1, RemovalsQuiet, QuietKept
<1>4. CASE \E f \in flights : Answers(f) \/ Refuses(f)
  <2>1. PICK f : Answers(f) \/ Refuses(f)  BY <1>4, Zenon
  <2>2. UNCHANGED consentVars  BY <2>1, Zenon DEF Answers, Refuses
  <2> QED  BY <2>1, <2>2, AnsweredOnward
<1>5. CASE \E r \in Libraries : RemoveAll(r)  BY <1>5, RemovalsQuiet, QuietKept
<1>6. CASE Halt  BY <1>6, HaltKept
<1>7. CASE Boot \/ BackfillRead \/ BackfillWrite \/ (\E m \in Models : BackfillStart(m)) \/ (Tick /\ UNCHANGED knowledgeVars)
  BY <1>7, ScriptsQuiet, QuietKept
<1> QED  BY <1>1, <1>2, <1>3, <1>4, <1>5, <1>6, <1>7, Zenon
-----------------------------------------------------------------------------
(***************************************************************************)
(* Sums over finite sets, whatever the order in which MapThenSumSet takes  *)
(* the elements.                                                           *)
(***************************************************************************)
Total(w, S) == MapThenSumSet(LAMBDA x : w[x], S)

Weights(w, S) == \A x \in S : w[x] \in Int

First(s) == CHOOSE x \in s : TRUE

Agree(v, w, S) == \A x \in S : v[x] = w[x]

(* How the fold is defined, and what it comes to. *)
Folded(w, S, g) == g = [s \in SUBSET S |-> IF s = {} THEN 0 ELSE w[First(s)] + g[s \ {First(s)}]]

Summing(w, S, g) ==
  /\ Weights(w, S) /\ g \in [SUBSET S -> Int] /\ g[{}] = 0
  /\ \A s \in SUBSET S : \A e \in s : g[s] = w[e] + g[s \ {e}]

LEMMA TotalFolds == ASSUME NEW w, NEW S PROVE Total(w, S) = (CHOOSE g : Folded(w, S, g))[S]
BY DEF Total, MapThenSumSet, MapThenFoldSet, Folded, First

LEMMA FirstIn == ASSUME NEW s, s # {} PROVE First(s) \in s
BY DEF First

LEMMA SummingGrows ==
  ASSUME NEW w, NEW S, NEW e, e \notin S, w[e] \in Int, NEW g, Summing(w, S, g)
  PROVE  \E h : Summing(w, S \cup {e}, h)
<1> DEFINE T == S \cup {e}
           h == [s \in SUBSET T |-> IF e \in s THEN w[e] + g[s \ {e}] ELSE g[s]]
<1>1. \A s \in SUBSET T : s \ {e} \in SUBSET S /\ (e \notin s => s \in SUBSET S)  OBVIOUS
<1>2. h \in [SUBSET T -> Int]  BY <1>1 DEF Summing
<1>3. h[{}] = 0  BY DEF Summing
<1>4. ASSUME NEW s \in SUBSET T, NEW x \in s PROVE h[s] = w[x] + h[s \ {x}]
  <2>1. s \ {x} \in SUBSET T  OBVIOUS
  <2>2. CASE x = e  BY <2>1, <2>2, <1>1
  <2>3. CASE x # e /\ e \notin s
    <3>1. h[s] = g[s] /\ h[s \ {x}] = g[s \ {x}]  BY <2>1, <2>3
    <3>2. s \in SUBSET S  BY <2>3, <1>1
    <3> QED  BY <3>1, <3>2 DEF Summing
  <2>4. CASE x # e /\ e \in s
    <3>1. h[s] = w[e] + g[s \ {e}] /\ h[s \ {x}] = w[e] + g[(s \ {x}) \ {e}]  BY <2>1, <2>4
    <3>2. s \ {e} \in SUBSET S /\ x \in s \ {e} /\ (s \ {x}) \ {e} = (s \ {e}) \ {x} /\ (s \ {e}) \ {x} \in SUBSET S  BY <2>4, <1>1
    <3>3. g[s \ {e}] = w[x] + g[(s \ {e}) \ {x}] /\ g[s \ {e}] \in Int /\ g[(s \ {e}) \ {x}] \in Int /\ w[x] \in Int
      BY <3>2 DEF Summing, Weights
    <3>4. w[x] + (w[e] + g[(s \ {e}) \ {x}]) = w[e] + (w[x] + g[(s \ {e}) \ {x}])
      <4>1. PICK a \in Int, b \in Int, c \in Int : a = g[(s \ {e}) \ {x}] /\ b = w[x] /\ c = w[e]  BY <3>3
      <4> QED  BY <4>1
    <3> QED  BY <3>1, <3>2, <3>3, <3>4
  <2> QED  BY <2>2, <2>3, <2>4
<1>5. Weights(w, T)  BY DEF Summing, Weights
<1> HIDE DEF h
<1>6. Summing(w, T, h)  BY <1>2, <1>3, <1>4, <1>5 DEF Summing
<1> QED  BY <1>6

LEMMA Summable == ASSUME NEW w, NEW S, IsFiniteSet(S), Weights(w, S) PROVE \E g : Summing(w, S, g)
<1> DEFINE N == {n \in Nat : \A s \in SUBSET S : Cardinality(s) = n => \E g : Summing(w, s, g)}
<1>1. 0 \in N
  <2> SUFFICES ASSUME NEW s \in SUBSET S, Cardinality(s) = 0 PROVE \E g : Summing(w, s, g)  OBVIOUS
  <2>1. s = {}  BY FS_Subset, FS_EmptySet
  <2>2. PICK g : g = [x \in SUBSET {} |-> 0]  OBVIOUS
  <2>3. g \in [SUBSET {} -> Int] /\ g[{}] = 0  BY <2>2
  <2> QED  BY <2>1, <2>3 DEF Summing, Weights
<1>2. ASSUME NEW n \in Nat, n \in N PROVE n + 1 \in N
  <2> SUFFICES ASSUME NEW s \in SUBSET S, Cardinality(s) = n + 1 PROVE \E g : Summing(w, s, g)  OBVIOUS
  <2>1. IsFiniteSet(s) /\ s # {}  BY FS_Subset, FS_EmptySet
  <2>2. PICK e : e \in s  BY <2>1
  <2>3. Cardinality(s \ {e}) = n
    <3>1. Cardinality(s \ {e}) = Cardinality(s) - 1  BY <2>1, <2>2, FS_RemoveElement
    <3> QED  BY <3>1
  <2>4. PICK g : Summing(w, s \ {e}, g)  BY <1>2, <2>3
  <2>5. w[e] \in Int  BY <2>2 DEF Weights
  <2>6. \E h : Summing(w, (s \ {e}) \cup {e}, h)  BY <2>4, <2>5, SummingGrows
  <2>7. (s \ {e}) \cup {e} = s  BY <2>2
  <2> QED  BY <2>6, <2>7
<1>3. \A n \in Nat : n \in N
  <2> HIDE DEF N
  <2> QED  BY <1>1, <1>2, NumbersReached
<1>4. Cardinality(S) \in Nat  BY FS_CardinalityType
<1> QED  BY <1>3, <1>4

LEMMA SummingFolds == ASSUME NEW w, NEW S, NEW g, Summing(w, S, g) PROVE Folded(w, S, g)
<1>1. \A s \in SUBSET S : g[s] = IF s = {} THEN 0 ELSE w[First(s)] + g[s \ {First(s)}]  BY FirstIn DEF Summing
<1>2. g = [s \in SUBSET S |-> g[s]]  BY DEF Summing
<1> QED  BY <1>1, <1>2 DEF Folded

LEMMA FoldedOnce ==
  ASSUME NEW w, NEW S, IsFiniteSet(S), NEW g, Summing(w, S, g), NEW T \in SUBSET S, NEW v, \A x \in T : v[x] = w[x], NEW h, Folded(v, T, h)
  PROVE  h[T] = g[T]
<1> DEFINE N == {n \in Nat : \A s \in SUBSET T : Cardinality(s) = n => h[s] = g[s]}
<1>0. \A s \in SUBSET T : h[s] = IF s = {} THEN 0 ELSE v[First(s)] + h[s \ {First(s)}]  BY Zenon DEF Folded
<1>1. 0 \in N
  <2> SUFFICES ASSUME NEW s \in SUBSET T, Cardinality(s) = 0 PROVE h[s] = g[s]  OBVIOUS
  <2>1. s = {}  BY FS_Subset, FS_EmptySet
  <2> QED  BY <2>1, <1>0 DEF Summing
<1>2. ASSUME NEW n \in Nat, n \in N PROVE n + 1 \in N
  <2> SUFFICES ASSUME NEW s \in SUBSET T, Cardinality(s) = n + 1 PROVE h[s] = g[s]  OBVIOUS
  <2>1. IsFiniteSet(s) /\ s # {}  BY FS_Subset, FS_EmptySet
  <2>2. PICK e : e = First(s) /\ e \in s  BY <2>1, FirstIn
  <2>3. Cardinality(s \ {e}) = n
    <3>1. Cardinality(s \ {e}) = Cardinality(s) - 1  BY <2>1, <2>2, FS_RemoveElement
    <3> QED  BY <3>1
  <2>4. h[s \ {e}] = g[s \ {e}]  BY <1>2, <2>3
  <2>5. h[s] = v[e] + h[s \ {e}]  BY <1>0, <2>1, <2>2
  <2>6. g[s] = w[e] + g[s \ {e}] /\ v[e] = w[e]  BY <2>2 DEF Summing
  <2> QED  BY <2>4, <2>5, <2>6
<1>3. \A n \in Nat : n \in N
  <2> HIDE DEF N
  <2> QED  BY <1>1, <1>2, NumbersReached
<1>4. Cardinality(T) \in Nat  BY FS_CardinalityType, FS_Subset
<1> QED  BY <1>3, <1>4

(* A sum is that of any function that sums, also of a larger set. *)
LEMMA TotalSums ==
  ASSUME NEW w, NEW S, IsFiniteSet(S), NEW g, Summing(w, S, g), NEW T \in SUBSET S, NEW v, Agree(v, w, T)
  PROVE  Total(v, T) = g[T]
<1>1. IsFiniteSet(T)  BY FS_Subset
<1>2. Weights(v, T)  BY DEF Summing, Weights, Agree
<1>3. \E h : Folded(v, T, h)  BY <1>1, <1>2, Summable, SummingFolds
<1>4. Folded(v, T, CHOOSE h : Folded(v, T, h))  BY <1>3, Zenon
<1>5. Total(v, T) = (CHOOSE h : Folded(v, T, h))[T]  BY TotalFolds
<1> QED  BY <1>4, <1>5, FoldedOnce DEF Agree

LEMMA TotalIs ==
  ASSUME NEW w, NEW S, IsFiniteSet(S), NEW g, Summing(w, S, g)
  PROVE  Total(w, S) = g[S] /\ \A e \in S : Total(w, S \ {e}) = g[S \ {e}]
<1>1. \A T \in SUBSET S : Total(w, T) = g[T]
  <2> SUFFICES ASSUME NEW T \in SUBSET S PROVE Total(w, T) = g[T]  OBVIOUS
  <2>1. Agree(w, w, T)  BY DEF Agree
  <2> QED  BY <2>1, TotalSums
<1> QED  BY <1>1

LEMMA TotalType == ASSUME NEW w, NEW S, IsFiniteSet(S), Weights(w, S) PROVE Total(w, S) \in Int
<1>1. PICK g : Summing(w, S, g)  BY Summable
<1>2. Total(w, S) = g[S]  BY <1>1, TotalIs
<1> QED  BY <1>1, <1>2 DEF Summing

LEMMA TotalEmpty == ASSUME NEW w PROVE Total(w, {}) = 0
<1>1. IsFiniteSet({}) /\ Weights(w, {})  BY FS_EmptySet DEF Weights
<1>2. PICK g : Summing(w, {}, g)  BY <1>1, Summable
<1>3. Total(w, {}) = g[{}]  BY <1>1, <1>2, TotalIs
<1> QED  BY <1>2, <1>3 DEF Summing

LEMMA TotalWithout ==
  ASSUME NEW w, NEW S, IsFiniteSet(S), Weights(w, S), NEW e \in S
  PROVE  /\ Total(w, S) \in Int /\ Total(w, S \ {e}) \in Int /\ w[e] \in Int
         /\ Total(w, S) = w[e] + Total(w, S \ {e})
<1>1. PICK g : Summing(w, S, g)  BY Summable
<1>2. Total(w, S) = g[S] /\ Total(w, S \ {e}) = g[S \ {e}]  BY <1>1, TotalIs
<1> QED  BY <1>1, <1>2 DEF Summing, Weights

LEMMA TotalAgrees ==
  ASSUME NEW w, NEW S, IsFiniteSet(S), Weights(w, S), NEW v, Agree(v, w, S)
  PROVE  Total(v, S) = Total(w, S)
<1>1. PICK g : Summing(w, S, g)  BY Summable
<1>2. Total(w, S) = g[S]  BY <1>1, TotalIs
<1>3. S \in SUBSET S  OBVIOUS
<1>4. Total(v, S) = g[S]  BY <1>1, <1>3, TotalSums
<1> QED  BY <1>2, <1>4

LEMMA TotalChanges ==
  ASSUME NEW w, NEW S, IsFiniteSet(S), Weights(w, S), NEW e \in S, NEW v, v[e] \in Int, \A x \in S \ {e} : v[x] = w[x]
  PROVE  /\ Weights(v, S) /\ Total(v, S) \in Int /\ Total(w, S) \in Int /\ w[e] \in Int
         /\ Total(v, S) = Total(w, S) + v[e] - w[e]
<1>1. Weights(v, S)  BY DEF Weights
<1>2. IsFiniteSet(S \ {e}) /\ Weights(w, S \ {e})  BY FS_Subset DEF Weights
<1>3. Total(v, S \ {e}) = Total(w, S \ {e})  BY <1>2, TotalAgrees DEF Agree
<1>4. Total(w, S) \in Int /\ Total(w, S \ {e}) \in Int /\ w[e] \in Int /\ Total(w, S) = w[e] + Total(w, S \ {e})  BY TotalWithout
<1>5. Total(v, S) \in Int /\ Total(v, S) = v[e] + Total(v, S \ {e})  BY <1>1, TotalWithout
<1> QED  BY <1>1, <1>3, <1>4, <1>5

(* Nothing that is counted is less than nothing. *)
Natural(w, S) == \A x \in S : w[x] \in Nat

LEMMA TotalNatural == ASSUME NEW w, NEW S, IsFiniteSet(S), Natural(w, S) PROVE Total(w, S) \in Nat
<1> DEFINE N == {n \in Nat : \A s \in SUBSET S : Cardinality(s) = n => Total(w, s) \in Nat}
<1>1. 0 \in N
  <2> SUFFICES ASSUME NEW s \in SUBSET S, Cardinality(s) = 0 PROVE Total(w, s) \in Nat  OBVIOUS
  <2>1. s = {}  BY FS_Subset, FS_EmptySet
  <2> QED  BY <2>1, TotalEmpty
<1>2. ASSUME NEW n \in Nat, n \in N PROVE n + 1 \in N
  <2> SUFFICES ASSUME NEW s \in SUBSET S, Cardinality(s) = n + 1 PROVE Total(w, s) \in Nat  OBVIOUS
  <2>1. IsFiniteSet(s) /\ s # {} /\ Weights(w, s)  BY FS_Subset, FS_EmptySet DEF Natural, Weights
  <2>2. PICK e : e \in s  BY <2>1
  <2>3. Cardinality(s \ {e}) = n
    <3>1. Cardinality(s \ {e}) = Cardinality(s) - 1  BY <2>1, <2>2, FS_RemoveElement
    <3> QED  BY <3>1
  <2>4. Total(w, s \ {e}) \in Nat  BY <1>2, <2>3
  <2>5. Total(w, s) = w[e] + Total(w, s \ {e})  BY <2>1, <2>2, TotalWithout
  <2> QED  BY <2>2, <2>4, <2>5 DEF Natural
<1>3. \A n \in Nat : n \in N
  <2> HIDE DEF N
  <2> QED  BY <1>1, <1>2, NumbersReached
<1>4. Cardinality(S) \in Nat  BY FS_CardinalityType
<1> QED  BY <1>3, <1>4

LEMMA TotalGrows ==
  ASSUME NEW w, NEW S, IsFiniteSet(S), Natural(w, S), NEW T \in SUBSET S
  PROVE  Total(w, T) \in Nat /\ Total(w, S) \in Nat /\ Total(w, T) <= Total(w, S)
<1> DEFINE N == {n \in Nat : \A s \in SUBSET S : Cardinality(s) = n => \A t \in SUBSET s : Total(w, t) <= Total(w, s)}
<1>0. \A s \in SUBSET S : IsFiniteSet(s) /\ Weights(w, s) /\ Natural(w, s) /\ Total(w, s) \in Nat
  <2> SUFFICES ASSUME NEW s \in SUBSET S PROVE IsFiniteSet(s) /\ Weights(w, s) /\ Natural(w, s) /\ Total(w, s) \in Nat  OBVIOUS
  <2>1. IsFiniteSet(s) /\ Weights(w, s) /\ Natural(w, s)  BY FS_Subset DEF Natural, Weights
  <2> QED  BY <2>1, TotalNatural
<1>1. 0 \in N
  <2> SUFFICES ASSUME NEW s \in SUBSET S, Cardinality(s) = 0, NEW t \in SUBSET s PROVE Total(w, t) <= Total(w, s)  OBVIOUS
  <2>1. s = {} /\ t = {}  BY FS_Subset, FS_EmptySet
  <2> QED  BY <2>1, TotalEmpty
<1>2. ASSUME NEW n \in Nat, n \in N PROVE n + 1 \in N
  <2> SUFFICES ASSUME NEW s \in SUBSET S, Cardinality(s) = n + 1, NEW t \in SUBSET s PROVE Total(w, t) <= Total(w, s)  OBVIOUS
  <2>1. CASE t = s  BY <2>1, <1>0
  <2>2. CASE t # s
    <3>1. PICK e : e \in s /\ e \notin t  BY <2>2
    <3>2. IsFiniteSet(s) /\ Weights(w, s)  BY <1>0
    <3>3. Cardinality(s \ {e}) = n
      <4>1. Cardinality(s \ {e}) = Cardinality(s) - 1  BY <3>1, <3>2, FS_RemoveElement
      <4> QED  BY <4>1
    <3>4. Total(w, t) <= Total(w, s \ {e})  BY <1>2, <3>1, <3>3
    <3>5. Total(w, s) = w[e] + Total(w, s \ {e})  BY <3>1, <3>2, TotalWithout
    <3>6. w[e] \in Nat /\ Total(w, s \ {e}) \in Nat /\ Total(w, t) \in Nat  BY <1>0, <3>1 DEF Natural
    <3> QED  BY <3>4, <3>5, <3>6
  <2> QED  BY <2>1, <2>2
<1>3. \A n \in Nat : n \in N
  <2> HIDE DEF N
  <2> QED  BY <1>1, <1>2, NumbersReached
<1>4. Cardinality(S) \in Nat  BY FS_CardinalityType
<1> QED  BY <1>0, <1>3, <1>4

(* Nothing adds up to nothing. *)
LEMMA TotalZero == ASSUME NEW w, NEW S, IsFiniteSet(S), \A x \in S : w[x] = 0 PROVE Total(w, S) = 0
<1>1. Weights(w, S)  BY DEF Weights
<1>2. PICK g : g = [s \in SUBSET S |-> 0]  OBVIOUS
<1>3. Summing(w, S, g)
  <2>1. g \in [SUBSET S -> Int] /\ g[{}] = 0  BY <1>2
  <2>2. \A s \in SUBSET S : \A e \in s : e \in S /\ s \ {e} \in SUBSET S  OBVIOUS
  <2>3. \A s \in SUBSET S : \A e \in s : g[s] = w[e] + g[s \ {e}]  BY <1>2, <2>2
  <2> QED  BY <1>1, <2>1, <2>3 DEF Summing
<1>4. Total(w, S) = g[S]  BY <1>3, TotalIs
<1> QED  BY <1>2, <1>4

-----------------------------------------------------------------------------
(* What files take together. *)
Sized(S) == IsFiniteSet(S) /\ \A f \in S : f.size \in Nat
SizeOf(S) == [f \in S |-> f.size]

FoldedBytes(S, g) == g = [s \in SUBSET S |-> IF s = {} THEN 0 ELSE First(s).size + g[s \ {First(s)}]]

LEMMA BytesFolds == ASSUME NEW S PROVE Bytes(S) = (CHOOSE g : FoldedBytes(S, g))[S]
BY DEF Bytes, MapThenSumSet, MapThenFoldSet, FoldedBytes, First

LEMMA BytesTotal == ASSUME NEW S, NEW T \in SUBSET S PROVE Bytes(T) = Total(SizeOf(S), T)
<1> DEFINE w == SizeOf(S)
<1>1. \A s \in SUBSET T : s # {} => First(s).size = w[First(s)]  BY FirstIn DEF SizeOf
<1> HIDE DEF w
<1>2. \A g : FoldedBytes(T, g) <=> Folded(w, T, g)
  <2> SUFFICES ASSUME NEW g PROVE FoldedBytes(T, g) <=> Folded(w, T, g)  OBVIOUS
  <2>1. [s \in SUBSET T |-> IF s = {} THEN 0 ELSE First(s).size + g[s \ {First(s)}]]
          = [s \in SUBSET T |-> IF s = {} THEN 0 ELSE w[First(s)] + g[s \ {First(s)}]]
    BY <1>1
  <2> QED  BY <2>1, Zenon DEF FoldedBytes, Folded
<1>3. (CHOOSE g : FoldedBytes(T, g)) = (CHOOSE g : Folded(w, T, g))  BY <1>2
<1>4. Bytes(T) = (CHOOSE g : FoldedBytes(T, g))[T] /\ Total(w, T) = (CHOOSE g : Folded(w, T, g))[T]  BY BytesFolds, TotalFolds
<1> QED  BY <1>3, <1>4, Zenon DEF w

LEMMA BytesLess == ASSUME NEW S, Sized(S), NEW T \in SUBSET S PROVE Bytes(T) \in Nat /\ Bytes(S) \in Nat /\ Bytes(T) <= Bytes(S)
<1>1. Natural(SizeOf(S), S)  BY DEF Sized, SizeOf, Natural
<1>2. IsFiniteSet(S) /\ S \in SUBSET S  BY DEF Sized
<1>3. Total(SizeOf(S), T) \in Nat /\ Total(SizeOf(S), S) \in Nat /\ Total(SizeOf(S), T) <= Total(SizeOf(S), S)  BY <1>1, <1>2, TotalGrows
<1>4. Bytes(T) = Total(SizeOf(S), T) /\ Bytes(S) = Total(SizeOf(S), S)  BY <1>2, BytesTotal
<1> QED  BY <1>3, <1>4

LEMMA BytesWithout == ASSUME NEW S, Sized(S), NEW f \in S PROVE Bytes(S \ {f}) \in Nat /\ f.size \in Nat /\ Bytes(S) = Bytes(S \ {f}) + f.size
<1>1. Weights(SizeOf(S), S)  BY DEF Sized, SizeOf, Weights
<1>2. IsFiniteSet(S) /\ S \in SUBSET S /\ S \ {f} \in SUBSET S  BY DEF Sized
<1>3. Total(SizeOf(S), S) \in Int /\ Total(SizeOf(S), S \ {f}) \in Int /\ SizeOf(S)[f] \in Int /\ Total(SizeOf(S), S) = SizeOf(S)[f] + Total(SizeOf(S), S \ {f})
  BY <1>1, <1>2, TotalWithout
<1>4. Bytes(S \ {f}) = Total(SizeOf(S), S \ {f}) /\ Bytes(S) = Total(SizeOf(S), S)  BY <1>2, BytesTotal
<1>5. SizeOf(S)[f] = f.size  BY DEF SizeOf
<1>6. Bytes(S \ {f}) \in Nat /\ f.size \in Nat  BY <1>2, BytesLess DEF Sized
<1>7. PICK a, b : a = Bytes(S \ {f}) /\ b = Bytes(S)  OBVIOUS
<1>8. b = f.size + a  BY <1>3, <1>4, <1>5, <1>7
<1> QED  BY <1>6, <1>7, <1>8

LEMMA BytesEmpty == Bytes({}) = 0
<1>1. {} \in SUBSET {}  OBVIOUS
<1> QED  BY <1>1, BytesTotal, TotalEmpty

LEMMA SizedLess == ASSUME NEW S, Sized(S), NEW T \in SUBSET S PROVE Sized(T) /\ Cardinality(T) \in Nat /\ Cardinality(S) \in Nat /\ Cardinality(T) <= Cardinality(S)
<1>1. IsFiniteSet(S) /\ IsFiniteSet(T)  BY FS_Subset DEF Sized
<1> QED  BY <1>1, FS_Subset, FS_CardinalityType DEF Sized

(* One file less, and one more.                                            *)
LEMMA OneFileLess ==
  ASSUME NEW S, Sized(S), NEW f \in S
  PROVE  Sized(S \ {f}) /\ Bytes(S \ {f}) \in Nat /\ Bytes(S) \in Nat /\ Bytes(S) = Bytes(S \ {f}) + f.size /\ Cardinality(S) \in Nat /\ Cardinality(S \ {f}) = Cardinality(S) - 1
<1>1. IsFiniteSet(S) /\ S \ {f} \in SUBSET S /\ S \in SUBSET S  BY DEF Sized
<1>2. Cardinality(S) \in Nat /\ Cardinality(S \ {f}) = Cardinality(S) - 1  BY <1>1, FS_RemoveElement, FS_CardinalityType
<1> QED  BY <1>1, <1>2, BytesWithout, BytesLess, SizedLess

LEMMA OneFileMore ==
  ASSUME NEW S, Sized(S), NEW f, f \notin S, f.size \in Nat
  PROVE  Sized(S \cup {f}) /\ Bytes(S \cup {f}) \in Nat /\ Bytes(S \cup {f}) = Bytes(S) + f.size /\ Cardinality(S \cup {f}) = Cardinality(S) + 1
<1> DEFINE T == S \cup {f}
<1>1. IsFiniteSet(S)  BY DEF Sized
<1>2. IsFiniteSet(T) /\ Cardinality(T) = Cardinality(S) + 1  BY <1>1, FS_AddElement
<1>3. Sized(T)  BY <1>2 DEF Sized
<1>4. f \in T /\ T \ {f} = S  OBVIOUS
<1> HIDE DEF T
<1>5. Bytes(T) = Bytes(T \ {f}) + f.size /\ Bytes(T) \in Nat  BY <1>3, <1>4, OneFileLess
<1>6. Bytes(T) = Bytes(S) + f.size  BY <1>4, <1>5
<1> QED  BY <1>2, <1>3, <1>5, <1>6 DEF T
-----------------------------------------------------------------------------
(***************************************************************************)
(* Where messages are filed.  A row has the id its key gives, of before    *)
(* the migration or after it, and everything that refers to a room does so *)
(* by one of the two.                                                      *)
(***************************************************************************)
IdsFor(key) == {Raw(key), Keyed(key)}

RoomsSound ==
  /\ \A r \in rooms : r.id \in IdsFor(r.key) /\ (r.id = Raw(r.key) => r.key \in scene.legacy) /\ \E e \in registry : e.key = r.key
  /\ \A r, q \in rooms : r.key = q.key => r = q
  /\ \A k \in scene.legacy : \E r \in rooms : r.id = Raw(k)

StoredSound ==
  /\ \A x, y \in stored : x.pid = y.pid => x = y
  /\ \A x \in stored : x.room \in IdsFor(x.key)
  /\ Fits(stored)

WritersSound ==
  /\ DOMAIN writer = Turns
  /\ \A t \in Turns : DOMAIN writer[t] = {"at", "key", "pid", "room"} /\ (writer[t].at = "found" => writer[t].room \in IdsFor(writer[t].key))

(* The database has refused nothing.                                       *)
Spared == "busy" \in DOMAIN left => Spent("busy") = 0

HasRoom(id) == \E r \in rooms : r.id = id
HasMessage(x) == \E y \in stored : y.pid = x

SyncSound(s) ==
  /\ DOMAIN sync[s] = DOMAIN NoSync /\ sync[s].got \in Seq(ToSet(sync[s].all))
  /\ \A x \in ToSet(sync[s].got) : sync[s].room[x[1]] \in IdsFor(x[1])
  /\ sync[s].at = "done" => sync[s].got = <<>>
  /\ Spared => sync[s].batches = 0 /\ sync[s].failed = {} /\ \A x \in ToSet(sync[s].all) : x \in ToSet(sync[s].got) \/ HasMessage(x)
  /\ sync[s].at = "rooms" => \A x \in ToSet(sync[s].got) :
       \/ HasRoom(sync[s].room[x[1]])
       \/ x[1] \in sync[s].missing \ scene.legacy /\ sync[s].room[x[1]] = Keyed(x[1])
  /\ Spared /\ sync[s].at = "messages" => \A x \in ToSet(sync[s].got) : HasRoom(sync[s].room[x[1]])

HistoryInv == RoomsSound /\ StoredSound /\ WritersSound /\ DOMAIN sync = Syncs /\ \A s \in Syncs : SyncSound(s)

(* The scenes of other parts leave it as it was.                           *)
Unfiled == rooms = {[id |-> Raw(k), key |-> k] : k \in scene.legacy} /\ registry = {Entry(k, Raw(k)) : k \in scene.legacy} /\ stored = {} /\ sync = [s \in Syncs |-> NoSync]

LEMMA IdsDiffer == \A j, k : Raw(j) # Keyed(k) /\ (Raw(j) = Raw(k) => j = k) /\ (Keyed(j) = Keyed(k) => j = k)
<1> SUFFICES ASSUME NEW j, NEW k PROVE Raw(j) # Keyed(k) /\ (Raw(j) = Raw(k) => j = k) /\ (Keyed(j) = Keyed(k) => j = k)  OBVIOUS
<1>1. Raw(j)[1] = "raw" /\ Raw(j)[2] = j /\ Keyed(k)[1] = "key" /\ Keyed(k)[2] = k /\ Raw(k)[2] = k /\ Keyed(j)[2] = j  BY DEF Raw, Keyed
<1>2. "raw" # "key"  OBVIOUS
<1> QED  BY <1>1, <1>2, Zenon

LEMMA OneKey == \A j, k, id : id \in IdsFor(j) /\ id \in IdsFor(k) => j = k
BY IdsDiffer DEF IdsFor

LEMMA RowsFound == ASSUME RoomsSound, NEW k, RowsOf(k) # {} PROVE (CHOOSE r \in RowsOf(k) : TRUE).id \in IdsFor(k) /\ HasRoom((CHOOSE r \in RowsOf(k) : TRUE).id)
<1>1. PICK r \in RowsOf(k) : r = CHOOSE q \in RowsOf(k) : TRUE  OBVIOUS
<1>2. r \in rooms /\ r.key = k  BY DEF RowsOf
<1> QED  BY <1>1, <1>2, Zenon DEF RoomsSound, HasRoom

LEMMA KnownIs ==
  ASSUME RoomsSound, NEW k
  PROVE  (Known(k) # None => Known(k) \in IdsFor(k) /\ HasRoom(Known(k))) /\ (Known(k) = None => k \notin scene.legacy \/ Raw(k) = None)
<1>1. CASE RowsOf(k) = {}
  <2>1. Known(k) = None  BY <1>1 DEF Known
  <2>2. k \notin scene.legacy
    <3> SUFFICES ASSUME k \in scene.legacy PROVE FALSE  OBVIOUS
    <3>1. PICK r \in rooms : r.id = Raw(k)  BY DEF RoomsSound
    <3>2. r.key = k  BY <3>1, OneKey DEF RoomsSound, IdsFor
    <3> QED  BY <1>1, <3>2 DEF RowsOf
  <2> QED  BY <2>1, <2>2
<1>2. CASE RowsOf(k) # {}
  <2>1. Known(k) = (CHOOSE r \in RowsOf(k) : TRUE).id  BY <1>2, Zenon DEF Known
  <2>2. Known(k) \in IdsFor(k) /\ HasRoom(Known(k))  BY <1>2, <2>1, RowsFound
  <2>3. ASSUME k \in scene.legacy PROVE Known(k) = Raw(k)
    <3>1. PICK r \in rooms : r.id = Raw(k)  BY <2>3 DEF RoomsSound
    <3>2. r.key = k  BY <3>1, OneKey DEF RoomsSound, IdsFor
    <3>3. PICK q \in RowsOf(k) : Known(k) = q.id  BY <1>2, <2>1
    <3> QED  BY <3>1, <3>2, <3>3 DEF RowsOf, RoomsSound
  <2> QED  BY <2>2, <2>3
<1> QED  BY <1>1, <1>2

(* The rows that are missing get their key for an id, but for those of     *)
(* before the migration, which are there.                                  *)
LEMMA RoomsInserted ==
  ASSUME RoomsSound, scene' = scene, NEW keys, InsertRooms(keys)
  PROVE  RoomsSound' /\ rooms \subseteq rooms' /\ \A k \in keys \ scene.legacy : \E r \in rooms' : r.id = Keyed(k)
<1> DEFINE new == {k \in keys : RowsOf(k) = {} /\ ~ \E r \in rooms : r.id = Keyed(k)}
<1>1. /\ rooms' = rooms \cup NewRows(keys)
      /\ \A r \in NewRows(keys) : r.key \in new /\ r.id = Keyed(r.key)
      /\ \A r, q \in NewRows(keys) : r.key = q.key => r = q
      /\ \A k \in new : \E r \in NewRows(keys) : r.key = k /\ r.id = Keyed(k)
  <2>1. NewRows(keys) = {[id |-> Keyed(k), key |-> k] : k \in new}  BY DEF NewRows
  <2> HIDE DEF new
  <2>2. rooms' = rooms \cup NewRows(keys)  BY DEF InsertRooms
  <2>3. \A r \in NewRows(keys) : \E k \in new : r = [id |-> Keyed(k), key |-> k]  BY <2>1
  <2>4. \A k \in new : [id |-> Keyed(k), key |-> k] \in NewRows(keys)  BY <2>1
  <2>5. \A k : [id |-> Keyed(k), key |-> k].key = k /\ [id |-> Keyed(k), key |-> k].id = Keyed(k)  OBVIOUS
  <2>6. \A r \in NewRows(keys) : r.key \in new /\ r.id = Keyed(r.key) /\ r = [id |-> Keyed(r.key), key |-> r.key]  BY <2>3
  <2>7. \A r, q \in NewRows(keys) : r.key = q.key => r = q  BY <2>6, Zenon
  <2>8. \A k \in new : \E r \in NewRows(keys) : r.key = k /\ r.id = Keyed(k)  BY <2>4, <2>5, Zenon
  <2> QED  BY <2>2, <2>6, <2>7, <2>8
<1>2. registry \subseteq registry' /\ \A r \in NewRows(keys) : \E e \in registry' : e.key = r.key
  <2>1. registry' = registry \cup {Entry(k, None) : k \in {k \in {r.key : r \in NewRows(keys)} : ~ \E e \in registry : e.key = k}}
    BY Zenon DEF InsertRooms, Registered
  <2>2. \A k : Entry(k, None).key = k  BY DEF Entry
  <2> QED  BY <2>1, <2>2
<1>3. \A r \in NewRows(keys), q \in rooms : r.key # q.key  BY <1>1 DEF RowsOf
<1>4. \A k : Keyed(k) \in IdsFor(k) /\ Keyed(k) # Raw(k)  BY IdsDiffer DEF IdsFor
<1>5. \A r \in rooms' : r.id \in IdsFor(r.key) /\ (r.id = Raw(r.key) => r.key \in scene.legacy) /\ \E e \in registry' : e.key = r.key
  BY <1>1, <1>2, <1>4 DEF RoomsSound
<1>6. \A r, q \in rooms' : r.key = q.key => r = q  BY <1>1, <1>3 DEF RoomsSound
<1>7. ASSUME NEW k \in keys \ scene.legacy PROVE \E r \in rooms' : r.id = Keyed(k)
  <2>1. CASE k \in new  BY <1>1, <2>1
  <2>2. ASSUME NEW r \in rooms, r.key = k PROVE r.id = Keyed(k)  BY <2>2 DEF RoomsSound, IdsFor
  <2> QED  BY <1>1, <2>1, <2>2 DEF RowsOf
<1>8. \A k \in scene.legacy : \E r \in rooms' : r.id = Raw(k)  BY <1>1 DEF RoomsSound
<1> QED  BY <1>1, <1>5, <1>6, <1>7, <1>8 DEF RoomsSound

LEMMA StoredMore ==
  ASSUME StoredSound, rooms' = rooms, NEW P, \A x, y \in P : x.pid = y.pid => x = y, \A x \in P : x.room \in IdsFor(x.key), Fits(P),
         stored' = stored \cup Unseen(P)
  PROVE  StoredSound' /\ \A x \in P : \E y \in stored' : y.pid = x.pid
<1>1. Unseen(P) \subseteq P /\ \A x \in Unseen(P), y \in stored : x.pid # y.pid  BY DEF Unseen
<1>2. \A x \in P : x \in Unseen(P) \/ \E y \in stored : y.pid = x.pid  BY DEF Unseen
<1> QED  BY <1>1, <1>2 DEF StoredSound, Fits

LEMMA SparedStill == ASSUME StageSound, StageStep PROVE Spared' => Spared
<1> SUFFICES ASSUME "busy" \in DOMAIN left, Spent("busy")' = 0, "busy" \in DOMAIN left' PROVE Spent("busy") = 0  BY DEF Spared, StageStep
<1>1. left["busy"] \in Nat /\ scene.left["busy"] \in Nat /\ left["busy"] <= scene.left["busy"]  BY StageAssumption DEF StageSound
<1>2. scene' = scene /\ left'["busy"] <= left["busy"] /\ left'["busy"] \in Nat  BY DEF StageStep
<1> QED  BY <1>1, <1>2 DEF Spent

LEMMA BatchRefused == ASSUME StageSound, Spend("busy") PROVE ~Spared'
<1>1. left["busy"] \in Nat /\ scene.left["busy"] \in Nat /\ left["busy"] <= scene.left["busy"] /\ "busy" \in DOMAIN left  BY StageAssumption DEF StageSound, Spend
<1>2. scene' = scene /\ "busy" \in DOMAIN left' /\ left'["busy"] = left["busy"] - 1  BY <1>1, Spending DEF Spend
<1> QED  BY <1>1, <1>2 DEF Spent, Spared

LEMMA SyncStill ==
  ASSUME NEW s, SyncSound(s), sync'[s] = sync[s], rooms \subseteq rooms', stored \subseteq stored', scene' = scene, Spared' => Spared
  PROVE  SyncSound(s)'
<1>1. \A id : HasRoom(id) => HasRoom(id)'  BY DEF HasRoom
<1>2. \A x : HasMessage(x) => HasMessage(x)'  BY DEF HasMessage
<1> QED  BY <1>1, <1>2, Zenon DEF SyncSound

(* What leaves the histories alone. *)
LEMMA HistoryStill ==
  ASSUME HistoryInv, RoomsSound', StoredSound', WritersSound', sync' = sync, rooms \subseteq rooms', stored \subseteq stored', scene' = scene, Spared' => Spared
  PROVE  HistoryInv'
<1>1. \A s \in Syncs : SyncSound(s)'  BY SyncStill DEF HistoryInv
<1> QED  BY <1>1 DEF HistoryInv

LEMMA WriterGoes ==
  ASSUME WritersSound, NEW t \in Turns, NEW w, writer' = [writer EXCEPT ![t] = w], DOMAIN w = {"at", "key", "pid", "room"}, w.at = "found" => w.room \in IdsFor(w.key)
  PROVE  WritersSound'
BY DEF WritersSound

LEMMA TurnGoes ==
  ASSUME WritersSound, NEW t \in Turns, NEW at, NEW room, TurnTo(t, at, room), at = "found" => room \in IdsFor(writer[t].key)
  PROVE  WritersSound'
<1> DEFINE w == [writer[t] EXCEPT !.at = at, !.room = room]
<1>1. writer' = [writer EXCEPT ![t] = w]  BY Zenon DEF TurnTo
<1>2. DOMAIN w = {"at", "key", "pid", "room"} /\ w.at = at /\ w.room = room /\ w.key = writer[t].key  BY DEF WritersSound
<1> HIDE DEF w
<1> QED  BY <1>1, <1>2, WriterGoes

LEMMA FindRoomKept == ASSUME StageSound, HistoryInv, NEW t \in Turns, NEW key, NEW pid, FindRoom(t, key, pid) PROVE HistoryInv'
<1> DEFINE w == IF RowsOf(key) = {} THEN [at |-> "creating", key |-> key, pid |-> pid, room |-> None]
                ELSE [at |-> "found", key |-> key, pid |-> pid, room |-> (CHOOSE r \in RowsOf(key) : TRUE).id]
<1>1. writer' = [writer EXCEPT ![t] = w] /\ Spends /\ UNCHANGED <<rooms, registry, stored, sync>>  BY Zenon DEF FindRoom, Spends
<1>2. StageStep  BY <1>1, SpendsStage
<1>3. DOMAIN w = {"at", "key", "pid", "room"} /\ (w.at = "found" => w.room \in IdsFor(w.key))  BY RowsFound DEF HistoryInv
<1> HIDE DEF w
<1>4. WritersSound'  BY <1>1, <1>3, WriterGoes DEF HistoryInv
<1>5. scene' = scene /\ (Spared' => Spared)  BY <1>2, SparedStill DEF StageStep
<1>6. RoomsSound' /\ StoredSound'  BY <1>1, <1>5, Zenon DEF HistoryInv, RoomsSound, StoredSound, Fits
<1> QED  BY <1>1, <1>4, <1>5, <1>6, HistoryStill

LEMMA CreateRoomKept == ASSUME StageSound, HistoryInv, NEW t \in Turns, CreateRoom(t) PROVE HistoryInv'
<1>1. InsertRooms({writer[t].key}) /\ TurnTo(t, "created", None) /\ Spends /\ UNCHANGED <<stored, sync>>  BY DEF CreateRoom, Spends
<1>2. StageStep  BY <1>1, SpendsStage
<1>3. scene' = scene /\ (Spared' => Spared)  BY <1>2, SparedStill DEF StageStep
<1>4. RoomsSound' /\ rooms \subseteq rooms'  BY <1>1, <1>3, RoomsInserted DEF HistoryInv
<1>5. WritersSound'  BY <1>1, TurnGoes DEF HistoryInv
<1>6. StoredSound'  BY <1>1, <1>4 DEF HistoryInv, StoredSound, Fits
<1> QED  BY <1>1, <1>3, <1>4, <1>5, <1>6, HistoryStill

LEMMA RereadRoomKept == ASSUME StageSound, HistoryInv, NEW t \in Turns, RereadRoom(t) PROVE HistoryInv'
<1> DEFINE key == writer[t].key
           id == IF RowsOf(key) = {} THEN Keyed(key) ELSE (CHOOSE r \in RowsOf(key) : TRUE).id
<1>1. TurnTo(t, "found", id) /\ Spends /\ UNCHANGED <<rooms, registry, stored, sync>>  BY Zenon DEF RereadRoom, Spends
<1>2. StageStep  BY <1>1, SpendsStage
<1>3. scene' = scene /\ (Spared' => Spared)  BY <1>2, SparedStill DEF StageStep
<1>4. id \in IdsFor(key)  BY RowsFound DEF HistoryInv, IdsFor
<1> HIDE DEF id
<1>5. WritersSound'  BY <1>1, <1>4, TurnGoes DEF HistoryInv
<1>6. RoomsSound' /\ StoredSound'  BY <1>1, <1>3, Zenon DEF HistoryInv, RoomsSound, StoredSound, Fits
<1> QED  BY <1>1, <1>3, <1>5, <1>6, HistoryStill

LEMMA StoreMessageKept == ASSUME StageSound, HistoryInv, NEW t \in Turns, StoreMessage(t) PROVE HistoryInv'
<1> DEFINE x == [pid |-> writer[t].pid, room |-> writer[t].room, key |-> writer[t].key]
<1>1. /\ TurnTo(t, "off", None) /\ Spends /\ UNCHANGED <<rooms, registry, sync>> /\ writer[t].at = "found"
      /\ stored' = IF Fits({x}) THEN stored \cup Unseen({x}) ELSE stored
  BY Zenon DEF StoreMessage, Spends
<1>2. StageStep  BY <1>1, SpendsStage
<1>3. scene' = scene /\ (Spared' => Spared)  BY <1>2, SparedStill DEF StageStep
<1>4. x.room \in IdsFor(x.key)  BY <1>1 DEF HistoryInv, WritersSound
<1> HIDE DEF x
<1>5. WritersSound'  BY <1>1, TurnGoes DEF HistoryInv
<1>6. RoomsSound'  BY <1>1, <1>3, Zenon DEF HistoryInv, RoomsSound
<1>7. StoredSound' /\ stored \subseteq stored'
  <2>1. CASE Fits({x})
    <3>1. stored' = stored \cup Unseen({x})  BY <1>1, <2>1
    <3>2. StoredSound'  BY <1>1, <1>4, <2>1, <3>1, StoredMore DEF HistoryInv
    <3> QED  BY <3>1, <3>2
  <2>2. CASE ~Fits({x})  BY <1>1, <2>2, Zenon DEF HistoryInv, StoredSound, Fits
  <2> QED  BY <2>1, <2>2
<1> QED  BY <1>1, <1>3, <1>5, <1>6, <1>7, HistoryStill

(* A step of one history. *)
LEMMA SyncGoes ==
  ASSUME HistoryInv, NEW s \in Syncs, NEW y, sync' = [sync EXCEPT ![s] = y], SyncSound(s)',
         RoomsSound', StoredSound', writer' = writer, rooms \subseteq rooms', stored \subseteq stored', scene' = scene, Spared' => Spared
  PROVE  HistoryInv'
<1>1. WritersSound'  BY Zenon DEF HistoryInv, WritersSound
<1>2. ASSUME NEW z \in Syncs, z # s PROVE SyncSound(z)'
  <2>1. sync'[z] = sync[z] /\ SyncSound(z)  BY <1>2 DEF HistoryInv
  <2> QED  BY <2>1, SyncStill
<1>3. DOMAIN sync' = Syncs  BY DEF HistoryInv
<1> QED  BY <1>1, <1>2, <1>3 DEF HistoryInv

LEMMA SyncRoomsKept == ASSUME StageSound, HistoryInv, NEW s \in Syncs, NEW got \in scene.histories, SyncRooms(s, got) PROVE HistoryInv'
<1> DEFINE room == [k \in KeysOf(got) |-> IF Known(k) = None THEN Keyed(k) ELSE Known(k)]
           missing == {k \in KeysOf(got) : Known(k) = None}
           y == [at |-> "rooms", all |-> got, got |-> got, batches |-> 0, failed |-> {}, room |-> room, missing |-> missing]
<1>1. sync' = [sync EXCEPT ![s] = y] /\ Spends /\ UNCHANGED <<rooms, registry, stored, writer>>  BY Zenon DEF SyncRooms, Spends
<1>2. StageStep  BY <1>1, SpendsStage
<1>3. scene' = scene /\ (Spared' => Spared)  BY <1>2, SparedStill DEF StageStep
<1>4. RoomsSound' /\ StoredSound'  BY <1>1, <1>3, Zenon DEF HistoryInv, RoomsSound, StoredSound, Fits
<1>5. got \in Seq(ToSet(got)) /\ \A k \in scene.legacy : Raw(k) # None  BY FilingAssumption DEF StageSound
<1>6. ASSUME NEW x \in ToSet(got)
      PROVE  /\ room[x[1]] \in IdsFor(x[1])
             /\ HasRoom(room[x[1]]) \/ (x[1] \in missing \ scene.legacy /\ room[x[1]] = Keyed(x[1]))
  <2>1. x[1] \in KeysOf(got)  BY DEF KeysOf
  <2>2. PICK k : k = x[1]  OBVIOUS
  <2>3. CASE Known(k) = None
    <3>1. k \notin scene.legacy  BY <1>5, <2>3, KnownIs DEF HistoryInv
    <3> QED  BY <2>1, <2>2, <2>3, <3>1 DEF IdsFor
  <2>4. CASE Known(k) # None
    <3>1. Known(k) \in IdsFor(k) /\ HasRoom(Known(k))  BY <2>4, KnownIs DEF HistoryInv
    <3> QED  BY <2>1, <2>2, <2>4, <3>1
  <2> QED  BY <2>3, <2>4
<1>7. /\ DOMAIN y = DOMAIN NoSync /\ y.at = "rooms" /\ y.all = got /\ y.got = got /\ y.batches = 0 /\ y.failed = {} /\ y.room = room /\ y.missing = missing
  BY DEF NoSync
<1> HIDE DEF room, missing, y
<1>8. sync'[s] = y  BY <1>1 DEF HistoryInv
<1>9. \A id : HasRoom(id) => \E r \in rooms' : r.id = id  BY <1>1 DEF HasRoom
<1>10. DOMAIN sync'[s] = DOMAIN NoSync /\ sync'[s].got \in Seq(ToSet(sync'[s].all)) /\ sync'[s].at = "rooms"  BY <1>5, <1>7, <1>8
<1>11. \A x \in ToSet(sync'[s].got) : sync'[s].room[x[1]] \in IdsFor(x[1])  BY <1>6, <1>7, <1>8
<1>12. \A x \in ToSet(sync'[s].got) : (\E r \in rooms' : r.id = sync'[s].room[x[1]]) \/ (x[1] \in sync'[s].missing \ scene'.legacy /\ sync'[s].room[x[1]] = Keyed(x[1]))
  <2> SUFFICES ASSUME NEW x \in ToSet(got) PROVE (\E r \in rooms' : r.id = room[x[1]]) \/ (x[1] \in missing \ scene.legacy /\ room[x[1]] = Keyed(x[1]))  BY <1>3, <1>7, <1>8
  <2>1. HasRoom(room[x[1]]) \/ (x[1] \in missing \ scene.legacy /\ room[x[1]] = Keyed(x[1]))  BY <1>6
  <2> QED  BY <2>1, <1>9
<1>13. sync'[s].batches = 0 /\ sync'[s].failed = {} /\ \A x \in ToSet(sync'[s].all) : x \in ToSet(sync'[s].got)  BY <1>7, <1>8
<1>14. SyncSound(s)'  BY <1>10, <1>11, <1>12, <1>13 DEF SyncSound, HasRoom
<1> QED  BY <1>1, <1>3, <1>4, <1>14, SyncGoes

LEMMA SyncCreateKept == ASSUME StageSound, HistoryInv, NEW s \in Syncs, SyncCreate(s) PROVE HistoryInv'
<1>1. Spends /\ UNCHANGED <<stored, writer>> /\ sync[s].at = "rooms" /\ SyncSound(s)  BY DEF SyncCreate, Spends, HistoryInv
<1>2. StageStep  BY <1>1, SpendsStage
<1>3. scene' = scene /\ (Spared' => Spared)  BY <1>2, SparedStill DEF StageStep
<1>4. CASE InsertRooms(sync[s].missing) /\ sync' = [sync EXCEPT ![s].at = "messages"]
  <2> DEFINE y == [sync[s] EXCEPT !.at = "messages"]
  <2>1. sync' = [sync EXCEPT ![s] = y]  BY <1>4, Zenon
  <2>2. /\ DOMAIN y = DOMAIN NoSync /\ y.at = "messages" /\ y.all = sync[s].all /\ y.got = sync[s].got /\ y.batches = sync[s].batches /\ y.failed = sync[s].failed
        /\ y.room = sync[s].room
    BY <1>1 DEF SyncSound, NoSync
  <2> HIDE DEF y
  <2>3. RoomsSound' /\ rooms \subseteq rooms' /\ \A k \in sync[s].missing \ scene.legacy : \E r \in rooms' : r.id = Keyed(k)  BY <1>3, <1>4, RoomsInserted DEF HistoryInv
  <2>4. StoredSound'  BY <1>1, <2>3 DEF HistoryInv, StoredSound, Fits
  <2>5. sync'[s] = y  BY <2>1 DEF HistoryInv
  <2>6. \A id : HasRoom(id) => \E r \in rooms' : r.id = id  BY <2>3 DEF HasRoom
  <2>7. \A x : HasMessage(x) => \E m \in stored' : m.pid = x  BY <1>1 DEF HasMessage
  <2>8. \A x \in ToSet(y.got) : \E r \in rooms' : r.id = y.room[x[1]]
    <3> SUFFICES ASSUME NEW x \in ToSet(y.got) PROVE \E r \in rooms' : r.id = y.room[x[1]]  OBVIOUS
    <3>1. HasRoom(y.room[x[1]]) \/ (x[1] \in sync[s].missing \ scene.legacy /\ y.room[x[1]] = Keyed(x[1]))  BY <1>1, <2>2 DEF SyncSound
    <3>2. x[1] \in sync[s].missing \ scene.legacy => \E r \in rooms' : r.id = Keyed(x[1])  BY <2>3
    <3> QED  BY <2>6, <3>1, <3>2
  <2>9. /\ y.got \in Seq(ToSet(y.all)) /\ \A x \in ToSet(y.got) : y.room[x[1]] \in IdsFor(x[1])
        /\ Spared' => y.batches = 0 /\ y.failed = {} /\ \A x \in ToSet(y.all) : x \in ToSet(y.got) \/ \E m \in stored' : m.pid = x
    BY <1>1, <1>3, <2>2, <2>7 DEF SyncSound
  <2>10. SyncSound(s)'
    <3>1. DOMAIN sync'[s] = DOMAIN NoSync /\ sync'[s].got \in Seq(ToSet(sync'[s].all)) /\ sync'[s].at = "messages"  BY <2>2, <2>5, <2>9
    <3>2. \A x \in ToSet(sync'[s].got) : sync'[s].room[x[1]] \in IdsFor(x[1])  BY <2>5, <2>9
    <3>3. \A x \in ToSet(sync'[s].got) : (\E r \in rooms' : r.id = sync'[s].room[x[1]])  BY <2>5, <2>8
    <3>4. Spared' => sync'[s].batches = 0 /\ sync'[s].failed = {} /\ \A x \in ToSet(sync'[s].all) : x \in ToSet(sync'[s].got) \/ \E m \in stored' : m.pid = x  BY <2>5, <2>9
    <3> QED  BY <3>1, <3>2, <3>3, <3>4 DEF SyncSound, HasRoom, HasMessage
  <2> QED  BY <1>1, <1>3, <2>1, <2>3, <2>4, <2>10, SyncGoes
<1>5. CASE /\ Spend("busy") /\ UNCHANGED <<rooms, registry>>
           /\ sync' = [sync EXCEPT ![s].at = "messages", ![s].failed = {Keyed(k) : k \in sync[s].missing}, ![s].batches = @ + 1]
  <2> DEFINE y == [sync[s] EXCEPT !.at = "messages", !.failed = {Keyed(k) : k \in sync[s].missing}, !.batches = sync[s].batches + 1]
  <2>1. sync' = [sync EXCEPT ![s] = y]  BY <1>5
  <2>2. DOMAIN y = DOMAIN NoSync /\ y.at = "messages" /\ y.all = sync[s].all /\ y.got = sync[s].got /\ y.room = sync[s].room  BY <1>1 DEF SyncSound, NoSync
  <2> HIDE DEF y
  <2>3. ~Spared'  BY <1>5, BatchRefused
  <2>4. RoomsSound' /\ StoredSound'  BY <1>1, <1>3, <1>5, Zenon DEF HistoryInv, RoomsSound, StoredSound, Fits
  <2>5. sync'[s] = y  BY <2>1 DEF HistoryInv
  <2>6. y.got \in Seq(ToSet(y.all)) /\ \A x \in ToSet(y.got) : y.room[x[1]] \in IdsFor(x[1])  BY <1>1, <2>2 DEF SyncSound
  <2>7. SyncSound(s)'  BY <2>2, <2>3, <2>5, <2>6, Zenon DEF SyncSound
  <2> QED  BY <1>1, <1>3, <1>5, <2>1, <2>4, <2>7, SyncGoes
<1> QED  BY <1>4, <1>5 DEF SyncCreate

(* What is taken off a sequence, and what stays. *)
LEMMA Halves ==
  ASSUME NEW S, NEW q \in Seq(S), NEW n \in 0 .. Len(q)
  PROVE  /\ SubSeq(q, n + 1, Len(q)) \in Seq(S) /\ ToSet(SubSeq(q, 1, n)) \subseteq ToSet(q)
         /\ ToSet(SubSeq(q, n + 1, Len(q))) \subseteq ToSet(q) /\ ToSet(q) = ToSet(SubSeq(q, 1, n)) \cup ToSet(SubSeq(q, n + 1, Len(q)))
         /\ Len(SubSeq(q, 1, n)) = n
<1> DEFINE a == SubSeq(q, 1, n)
           b == SubSeq(q, n + 1, Len(q))
<1>1. a \in Seq(S) /\ Len(a) = n /\ \A i \in 1 .. n : a[i] = q[i]  OBVIOUS
<1>2. b \in Seq(S) /\ Len(b) = Len(q) - n /\ \A i \in 1 .. Len(q) - n : b[i] = q[n + i]
  <2>1. \A i \in 1 .. Len(q) - n : (n + 1) + i - 1 = n + i  OBVIOUS
  <2>2. b \in Seq(S) /\ Len(b) = Len(q) - n /\ \A i \in 1 .. Len(q) - n : b[i] = q[(n + 1) + i - 1]  OBVIOUS
  <2> QED  BY <2>1, <2>2
<1>3. \A x : x \in ToSet(q) <=> \E i \in 1 .. Len(q) : x = q[i]  BY DEF ToSet
<1>4. \A x : x \in ToSet(a) <=> \E i \in 1 .. n : x = q[i]
  <2> HIDE DEF a
  <2>1. DOMAIN a = 1 .. n  BY <1>1
  <2>2. \A x : x \in ToSet(a) <=> \E i \in 1 .. n : x = a[i]  BY <2>1 DEF ToSet
  <2> QED  BY <1>1, <2>2
<1>5. \A x : x \in ToSet(b) <=> \E i \in 1 .. Len(q) - n : x = q[n + i]
  <2> HIDE DEF b
  <2>1. DOMAIN b = 1 .. Len(q) - n  BY <1>2
  <2>2. \A x : x \in ToSet(b) <=> \E i \in 1 .. Len(q) - n : x = b[i]  BY <2>1 DEF ToSet
  <2>3. \A i \in 1 .. Len(q) - n : b[i] = q[n + i]  BY <1>2, Zenon
  <2> QED  BY <2>2, <2>3, Zenon
<1>6. \A i \in 1 .. Len(q) : i \in 1 .. n \/ (i - n \in 1 .. Len(q) - n /\ n + (i - n) = i)  OBVIOUS
<1>7. \A i \in 1 .. n : i \in 1 .. Len(q)  OBVIOUS
<1>8. \A i \in 1 .. Len(q) - n : n + i \in 1 .. Len(q)  OBVIOUS
<1> HIDE DEF a, b
<1>9. \A x : x \in ToSet(q) <=> x \in ToSet(a) \/ x \in ToSet(b)  BY <1>3, <1>4, <1>5, <1>6, <1>7, <1>8
<1> QED  BY <1>1, <1>2, <1>9 DEF a, b

LEMMA SyncChunk ==
  ASSUME HistoryInv, NEW s \in Syncs
  PROVE  \E n \in 0 .. Len(sync[s].got) : Chunk(s) = SubSeq(sync[s].got, 1, n) /\ Len(Chunk(s)) = n
<1> DEFINE q == sync[s].got
           n == IF Len(q) < Batch THEN Len(q) ELSE Batch
<1>1. q \in Seq(ToSet(sync[s].all)) /\ Len(q) \in Nat  BY DEF HistoryInv, SyncSound
<1>2. n \in 0 .. Len(q)  BY <1>1, FilingAssumption
<1>3. Chunk(s) = SubSeq(q, 1, n)  BY DEF Chunk
<1> HIDE DEF n, q
<1>4. Len(Chunk(s)) = n  BY <1>1, <1>2, <1>3, Halves
<1> QED  BY <1>2, <1>3, <1>4 DEF q

(* The messages of a batch. *)
LEMMA PayloadIs ==
  ASSUME HistoryInv, NEW s \in Syncs, ToSet(Chunk(s)) \subseteq ToSet(sync[s].got)
  PROVE  /\ \A x, y \in Payload(s) : x.pid = y.pid => x = y
         /\ \A x \in Payload(s) : x.room \in IdsFor(x.key)
         /\ sync[s].failed = {} => \A x \in ToSet(Chunk(s)) : \E p \in Payload(s) : p.pid = x
         /\ (\A x \in ToSet(sync[s].got) : HasRoom(sync[s].room[x[1]])) => Fits(Payload(s))
<1> DEFINE Msg(x) == [pid |-> x, room |-> sync[s].room[x[1]], key |-> x[1]]
           C == {y \in ToSet(Chunk(s)) : sync[s].room[y[1]] \notin sync[s].failed}
<1>1. Payload(s) = {Msg(x) : x \in C}  BY DEF Payload
<1>2. \A x : Msg(x).pid = x /\ Msg(x).room = sync[s].room[x[1]] /\ Msg(x).key = x[1]  OBVIOUS
<1>3. \A x \in C : x \in ToSet(sync[s].got) /\ sync[s].room[x[1]] \in IdsFor(x[1])  BY DEF HistoryInv, SyncSound
<1>4. sync[s].failed = {} => C = ToSet(Chunk(s))  OBVIOUS
<1> HIDE DEF Msg, C
<1>5. \A x \in Payload(s) : \E c \in C : x = Msg(c)  BY <1>1
<1>6. \A x, y \in Payload(s) : x.pid = y.pid => x = y  BY <1>2, <1>5
<1>7. \A x \in Payload(s) : x.room \in IdsFor(x.key)  BY <1>2, <1>3, <1>5
<1>8. \A x \in C : Msg(x) \in Payload(s)  BY <1>1
<1>9. sync[s].failed = {} => \A x \in ToSet(Chunk(s)) : \E p \in Payload(s) : p.pid = x  BY <1>2, <1>4, <1>8
<1>10. ASSUME \A x \in ToSet(sync[s].got) : HasRoom(sync[s].room[x[1]]) PROVE Fits(Payload(s))
  <2> SUFFICES ASSUME NEW x \in Payload(s) PROVE \E r \in rooms : r.id = x.room  BY DEF Fits
  <2>1. PICK c \in C : x = Msg(c)  BY <1>5
  <2> QED  BY <1>2, <1>3, <1>10, <2>1 DEF HasRoom
<1> QED  BY <1>6, <1>7, <1>9, <1>10

LEMMA SyncStoreKept == ASSUME StageSound, HistoryInv, NEW s \in Syncs, SyncStore(s) PROVE HistoryInv'
<1> DEFINE rest == SubSeq(sync[s].got, Len(Chunk(s)) + 1, Len(sync[s].got))
           y == [sync[s] EXCEPT !.got = rest]
           z == [sync[s] EXCEPT !.got = rest, !.batches = sync[s].batches + 1]
           stores == Fits(Payload(s)) /\ UNCHANGED stage /\ stored' = stored \cup Unseen(Payload(s)) /\ sync' = [sync EXCEPT ![s] = y]
           refuses == (IF Fits(Payload(s)) THEN Payload(s) # {} /\ Spend("busy") ELSE UNCHANGED stage) /\ sync' = [sync EXCEPT ![s] = z] /\ UNCHANGED stored
<1>1. sync[s].at = "messages" /\ UNCHANGED <<rooms, registry, writer>> /\ SyncSound(s) /\ (stores \/ refuses)
  <2>1. sync[s].at = "messages" /\ UNCHANGED <<rooms, registry, writer>> /\ SyncSound(s)  BY Zenon DEF SyncStore, HistoryInv
  <2>2. (sync' = [sync EXCEPT ![s].got = rest]) => sync' = [sync EXCEPT ![s] = y]  BY Zenon
  <2>3. (sync' = [sync EXCEPT ![s].got = rest, ![s].batches = @ + 1]) => sync' = [sync EXCEPT ![s] = z]  OBVIOUS
  <2> HIDE DEF rest, y, z
  <2> QED  BY <2>1, <2>2, <2>3 DEF SyncStore, rest
<1>2. Spends  BY <1>1 DEF Spends
<1>3. StageStep  BY <1>2, SpendsStage
<1>4. scene' = scene /\ (Spared' => Spared)  BY <1>3, SparedStill DEF StageStep
<1>5. PICK n \in 0 .. Len(sync[s].got) : Chunk(s) = SubSeq(sync[s].got, 1, n) /\ Len(Chunk(s)) = n  BY SyncChunk
<1>6. /\ rest \in Seq(ToSet(sync[s].all)) /\ ToSet(Chunk(s)) \subseteq ToSet(sync[s].got) /\ ToSet(rest) \subseteq ToSet(sync[s].got)
      /\ ToSet(sync[s].got) = ToSet(Chunk(s)) \cup ToSet(rest)
  <2>1. sync[s].got \in Seq(ToSet(sync[s].all))  BY <1>1 DEF SyncSound
  <2>2. rest = SubSeq(sync[s].got, n + 1, Len(sync[s].got))  BY <1>5
  <2> HIDE DEF rest
  <2> QED  BY <1>5, <2>1, <2>2, Halves
<1>7. /\ DOMAIN y = DOMAIN NoSync /\ y.at = "messages" /\ y.all = sync[s].all /\ y.got = rest /\ y.batches = sync[s].batches /\ y.failed = sync[s].failed
      /\ y.room = sync[s].room /\ DOMAIN z = DOMAIN NoSync /\ z.at = "messages" /\ z.all = sync[s].all /\ z.got = rest /\ z.room = sync[s].room
  BY <1>1 DEF SyncSound, NoSync
<1> HIDE DEF rest, y, z
<1>8. RoomsSound'  BY <1>1, <1>4, Zenon DEF HistoryInv, RoomsSound
<1>9. Spared => Fits(Payload(s)) /\ \A x \in ToSet(Chunk(s)) : \E p \in Payload(s) : p.pid = x
  <2>1. Spared => sync[s].failed = {} /\ \A x \in ToSet(sync[s].got) : HasRoom(sync[s].room[x[1]])  BY <1>1 DEF SyncSound
  <2> QED  BY <1>6, <2>1, PayloadIs
<1>10. CASE stores
  <2>1. StoredSound' /\ \A x \in Payload(s) : \E m \in stored' : m.pid = x.pid
    <3>1. /\ \A x, m \in Payload(s) : x.pid = m.pid => x = m
          /\ \A x \in Payload(s) : x.room \in IdsFor(x.key)
      BY <1>6, PayloadIs
    <3> QED  BY <1>1, <1>10, <3>1, StoredMore DEF HistoryInv
  <2>2. sync'[s] = y /\ stored \subseteq stored'  BY <1>10 DEF HistoryInv
  <2>3. DOMAIN sync'[s] = DOMAIN NoSync /\ sync'[s].got \in Seq(ToSet(sync'[s].all)) /\ sync'[s].at = "messages"  BY <1>6, <1>7, <2>2
  <2>4. \A x \in ToSet(sync'[s].got) : sync'[s].room[x[1]] \in IdsFor(x[1])  BY <1>1, <1>6, <1>7, <2>2 DEF SyncSound
  <2>5. Spared' => \A x \in ToSet(sync'[s].got) : \E r \in rooms' : r.id = sync'[s].room[x[1]]
    <3>1. Spared => \A x \in ToSet(sync[s].got) : \E r \in rooms : r.id = sync[s].room[x[1]]  BY <1>1 DEF SyncSound, HasRoom
    <3> QED  BY <1>1, <1>4, <1>6, <1>7, <2>2, <3>1
  <2>6. Spared' => sync'[s].batches = 0 /\ sync'[s].failed = {}  BY <1>1, <1>4, <1>7, <2>2 DEF SyncSound
  <2>7. Spared' => \A x \in ToSet(sync'[s].all) : x \in ToSet(sync'[s].got) \/ \E m \in stored' : m.pid = x
    <3> SUFFICES ASSUME Spared, NEW x \in ToSet(sync[s].all), x \notin ToSet(rest) PROVE \E m \in stored' : m.pid = x  BY <1>4, <1>7, <2>2
    <3>1. CASE x \in ToSet(Chunk(s))  BY <1>9, <2>1, <3>1
    <3>2. CASE x \notin ToSet(Chunk(s))
      <4>1. \E m \in stored : m.pid = x  BY <1>1, <1>6, <3>2 DEF SyncSound, HasMessage
      <4> QED  BY <2>2, <4>1
    <3> QED  BY <3>1, <3>2
  <2>8. SyncSound(s)'  BY <2>3, <2>4, <2>5, <2>6, <2>7 DEF SyncSound, HasRoom, HasMessage
  <2> QED  BY <1>1, <1>4, <1>8, <1>10, <2>1, <2>2, <2>8, SyncGoes
<1>11. CASE refuses
  <2>1. ~Spared'
    <3>1. CASE Fits(Payload(s))  BY <1>11, <3>1, BatchRefused
    <3>2. CASE ~Fits(Payload(s))  BY <1>4, <1>9, <3>2
    <3> QED  BY <3>1, <3>2
  <2>2. StoredSound'  BY <1>1, <1>11, Zenon DEF HistoryInv, StoredSound, Fits
  <2>3. sync'[s] = z /\ stored \subseteq stored'  BY <1>11 DEF HistoryInv
  <2>4. DOMAIN sync'[s] = DOMAIN NoSync /\ sync'[s].got \in Seq(ToSet(sync'[s].all)) /\ sync'[s].at = "messages"  BY <1>6, <1>7, <2>3
  <2>5. \A x \in ToSet(sync'[s].got) : sync'[s].room[x[1]] \in IdsFor(x[1])  BY <1>1, <1>6, <1>7, <2>3 DEF SyncSound
  <2>6. SyncSound(s)'  BY <2>1, <2>4, <2>5 DEF SyncSound
  <2> QED  BY <1>1, <1>4, <1>8, <1>11, <2>2, <2>3, <2>6, SyncGoes
<1> QED  BY <1>1, <1>10, <1>11

LEMMA SyncEndKept == ASSUME StageSound, HistoryInv, NEW s \in Syncs, SyncEnd(s) PROVE HistoryInv'
<1> DEFINE y == [sync[s] EXCEPT !.at = "done"]
<1>1. sync' = [sync EXCEPT ![s] = y] /\ Spends /\ UNCHANGED <<rooms, registry, stored, writer>> /\ sync[s].got = <<>> /\ SyncSound(s)
  BY Zenon DEF SyncEnd, Spends, HistoryInv
<1>2. StageStep  BY <1>1, SpendsStage
<1>3. scene' = scene /\ (Spared' => Spared)  BY <1>2, SparedStill DEF StageStep
<1>4. RoomsSound' /\ StoredSound'  BY <1>1, <1>3, Zenon DEF HistoryInv, RoomsSound, StoredSound, Fits
<1>5. /\ DOMAIN y = DOMAIN NoSync /\ y.at = "done" /\ y.all = sync[s].all /\ y.got = sync[s].got /\ y.batches = sync[s].batches /\ y.failed = sync[s].failed
      /\ y.room = sync[s].room
  BY <1>1 DEF SyncSound, NoSync
<1> HIDE DEF y
<1>6. sync'[s] = y  BY <1>1 DEF HistoryInv
<1>7. DOMAIN sync'[s] = DOMAIN NoSync /\ sync'[s].got \in Seq(ToSet(sync'[s].all)) /\ sync'[s].at = "done" /\ sync'[s].got = <<>>  BY <1>1, <1>5, <1>6 DEF SyncSound
<1>8. \A x \in ToSet(sync'[s].got) : sync'[s].room[x[1]] \in IdsFor(x[1])  BY <1>1, <1>5, <1>6 DEF SyncSound
<1>9. Spared' => sync'[s].batches = 0 /\ sync'[s].failed = {} /\ \A x \in ToSet(sync'[s].all) : x \in ToSet(sync'[s].got) \/ \E m \in stored' : m.pid = x
  BY <1>1, <1>3, <1>5, <1>6 DEF SyncSound, HasMessage
<1>10. SyncSound(s)'  BY <1>7, <1>8, <1>9 DEF SyncSound, HasMessage
<1> QED  BY <1>1, <1>3, <1>4, <1>10, SyncGoes

LEMMA RegistersKept == ASSUME StageSound, HistoryInv, (\E k \in Rooms : LookUp(k)) \/ Register \/ RecordConflicts PROVE HistoryInv'
<1>1. Spends /\ UNCHANGED <<rooms, stored, writer, sync>> /\ registry \subseteq registry'  BY DEF LookUp, Register, RecordConflicts, Spends
<1>2. StageStep  BY <1>1, SpendsStage
<1>3. scene' = scene /\ (Spared' => Spared)  BY <1>2, SparedStill DEF StageStep
<1>4. RoomsSound'
  <2>1. \A r \in rooms : \E e \in registry' : e.key = r.key  BY <1>1 DEF HistoryInv, RoomsSound
  <2> QED  BY <1>1, <1>3, <2>1 DEF HistoryInv, RoomsSound
<1>5. StoredSound' /\ WritersSound'  BY <1>1, Zenon DEF HistoryInv, StoredSound, WritersSound, Fits
<1> QED  BY <1>1, <1>3, <1>4, <1>5, HistoryStill

LEMMA FilingSpends == ASSUME FilingNext PROVE Spends
BY DEF FilingNext, FindRoom, CreateRoom, RereadRoom, StoreMessage, SyncRooms, SyncCreate, SyncStore, SyncEnd, LookUp, Register, RecordConflicts, Spends

LEMMA HistoryStep == ASSUME StageSound, HistoryInv, FilingNext PROVE StageSound' /\ HistoryInv'
<1>1. StageSound'  BY FilingSpends, SpendsStage
<1>2. ASSUME NEW t \in Turns, (\E x \in scene.live : FindRoom(t, x[1], x)) \/ CreateRoom(t) \/ RereadRoom(t) \/ StoreMessage(t) PROVE HistoryInv'
  BY <1>2, FindRoomKept, CreateRoomKept, RereadRoomKept, StoreMessageKept
<1>3. ASSUME NEW s \in Syncs, (\E got \in scene.histories : SyncRooms(s, got)) \/ SyncCreate(s) \/ SyncStore(s) \/ SyncEnd(s) PROVE HistoryInv'
  BY <1>3, SyncRoomsKept, SyncCreateKept, SyncStoreKept, SyncEndKept
<1> QED  BY <1>1, <1>2, <1>3, RegistersKept, Zenon DEF FilingNext

LEMMA RegisteredAre ==
  ASSUME \A r \in rooms : r.id \in IdsFor(r.key) /\ \E e \in registry : e.key = r.key, \A x \in stored : x.room \in IdsFor(x.key)
  PROVE  Collisions \subseteq {<<"unresolved_scope", k>> : k \in scene.scopes}
<1>1. Unregistered = {}  BY DEF Unregistered
<1>2. Opaque = {}  BY DEF Opaque, IdsFor
<1>3. Mismatched = {}
  <2>1. \A x \in stored, r \in rooms : r.id = x.room => r.key = x.key  BY OneKey
  <2> QED  BY <2>1 DEF Mismatched
<1>4. Unresolved \subseteq {<<"unresolved_scope", k>> : k \in scene.scopes}  BY DEF Unresolved
<1> QED  BY <1>1, <1>2, <1>3, <1>4 DEF Collisions

LEMMA HistoryFollow == ASSUME HistoryInv PROVE HistoryFiled
<1>1. Collisions \subseteq {<<"unresolved_scope", k>> : k \in scene.scopes}  BY RegisteredAre DEF HistoryInv, RoomsSound, StoredSound
<1>2. ASSUME NEW s \in Syncs, Spared PROVE sync[s].batches = 0 /\ (sync[s].at = "done" => \A x \in ToSet(sync[s].all) : \E y \in stored : y.pid = x)
  <2>1. SyncSound(s)  BY DEF HistoryInv
  <2>2. sync[s].got = <<>> => ToSet(sync[s].got) = {}  BY DEF ToSet
  <2> QED  BY <1>2, <2>1, <2>2 DEF SyncSound, HasMessage
<1> QED  BY <1>1, <1>2 DEF HistoryFiled, HistoryInv, RoomsSound, StoredSound, Spared

LEMMA LegacyRooms ==
  ASSUME rooms = {[id |-> Raw(k), key |-> k] : k \in scene.legacy}, registry = {Entry(k, Raw(k)) : k \in scene.legacy}
  PROVE  RoomsSound
<1>1. \A r \in rooms : r.key \in scene.legacy /\ r.id = Raw(r.key) /\ r = [id |-> Raw(r.key), key |-> r.key]  OBVIOUS
<1>2. \A k \in scene.legacy : \E r \in rooms : r.id = Raw(k)
  <2>1. \A k \in scene.legacy : [id |-> Raw(k), key |-> k] \in rooms  BY Zenon
  <2>2. \A k : [id |-> Raw(k), key |-> k].id = Raw(k)  OBVIOUS
  <2> QED  BY <2>1, <2>2, Zenon
<1>3. \A k \in scene.legacy : \E e \in registry : e.key = k
  <2>1. \A k \in scene.legacy : Entry(k, Raw(k)) \in registry  BY Zenon
  <2>2. \A k : Entry(k, Raw(k)).key = k  BY DEF Entry
  <2> QED  BY <2>1, <2>2, Zenon
<1>4. \A r, q \in rooms : r.key = q.key => r = q  BY <1>1, Zenon
<1> QED  BY <1>1, <1>2, <1>3, <1>4 DEF RoomsSound, IdsFor

LEMMA UnfiledFollow == ASSUME Unfiled PROVE HistoryFiled
<1>1. RoomsSound /\ stored = {} /\ \A s \in Syncs : sync[s] = NoSync  BY LegacyRooms DEF Unfiled
<1>2. Collisions \subseteq {<<"unresolved_scope", k>> : k \in scene.scopes}  BY <1>1, RegisteredAre DEF RoomsSound
<1>3. Fits(stored)  BY <1>1 DEF Fits
<1>4. NoSync.batches = 0 /\ NoSync.at = "off"  BY DEF NoSync
<1> QED  BY <1>1, <1>2, <1>3, <1>4 DEF HistoryFiled, RoomsSound
-----------------------------------------------------------------------------
(***************************************************************************)
(* The directory of media.  Saves are numbered, and a file has the number  *)
(* of its save.                                                            *)
(***************************************************************************)
Numbered(n) == "save" \in DOMAIN left /\ n \in Nat /\ n <= Spent("save")

FilesSound ==
  /\ IsFiniteSet(media) /\ \A f \in media : Numbered(f.id) /\ f.size \in Nat
  /\ \A t \in temps : Numbered(t.id)
  /\ \A t, u \in temps : t.id = u.id => t = u
  /\ \A n \in cited : Numbered(n)

Keepers == Saves \cup {Cleaner}

KeeperSound(k) ==
  /\ DOMAIN k = DOMAIN NoKeeping /\ k.size \in Nat /\ k.bytes \in Int /\ k.files \in Int
  /\ \A n \in k.seen : Numbered(n)
  /\ \A f \in k.list : Numbered(f.id) /\ f.size \in Nat
  /\ k.at = "evicting" => \A f \in k.list : f.id \in k.seen
  /\ k.at \in {"off", "written", "placing", "saved"} => k.gone = {}

(* A save has a number of its own; the file has it once it is in place.    *)
Saving(v) == keeping[v].at # "off"
Unplaced(v) == keeping[v].at \notin {"off", "saved"}
IdsApart ==
  /\ \A v \in Saves : Saving(v) => Numbered(keeping[v].id) /\ keeping[v].id \notin cited
  /\ \A v, w \in Saves : Saving(v) /\ Saving(w) /\ keeping[v].id = keeping[w].id => v = w
  /\ \A v \in Saves : Unplaced(v) => (\A f \in media : f.id # keeping[v].id) /\ \A r \in Keepers : keeping[v].id \notin keeping[r].seen

(* Who has counted the directory for a file of its own, and has the slot,  *)
(* has counted all that is there; at the end of the scan there is room.    *)
Within(total, many) == (Quota >= 0 => total <= Quota) /\ many <= Most
InSlot(k) == k.at \in {"evicting", "clearing", "placing", "failed"}
Counting(k) == k.at \in {"evicting", "clearing"} \/ (k.at = "placing" /\ ~k.trusting)
Fitting(k) == k.at = "clearing" \/ (k.at = "placing" /\ ~k.trusting)
SaverSound(v) ==
  /\ InSlot(keeping[v]) => ioSlot = v
  /\ Counting(keeping[v]) => (\A f \in media : f.id \in keeping[v].seen) /\ Bytes(media) <= keeping[v].bytes /\ Cardinality(media) <= keeping[v].files
  /\ Fitting(keeping[v]) => Within(keeping[v].bytes + keeping[v].size, keeping[v].files + 1) /\ \A f \in media : f.id \notin unchecked

(* The cleaner counts beside it: what came since is not in its count, and  *)
(* is either not counted at all, or by a scan after which all was counted. *)
SeenBy(k) == {f \in media : f.id \in k.seen}
CleanerSound ==
  keeping[Cleaner].at = "evicting" =>
    /\ Bytes(SeenBy(keeping[Cleaner])) <= keeping[Cleaner].bytes /\ Cardinality(SeenBy(keeping[Cleaner])) <= keeping[Cleaner].files
    /\ \/ \A f \in media : f.id \in keeping[Cleaner].seen \/ f.id \in unchecked
       \/ \A f \in media : f.id \in keeping[Cleaner].seen => f.id \notin unchecked

Named == \A n \in cited : (\E f \in media : f.id = n) \/ n \in lapsed \/ \E r \in Keepers : n \in keeping[r].gone

MediaInv ==
  /\ FilesSound /\ DOMAIN keeping = Keepers /\ (\A r \in Keepers : KeeperSound(keeping[r])) /\ IdsApart
  /\ (\A v \in Saves : SaverSound(v)) /\ CleanerSound
  /\ QuotaKept /\ Named

LEMMA KeeperFields == DOMAIN NoKeeping = {"at", "id", "size", "list", "seen", "bytes", "files", "gone", "since", "trusting"}
BY DEF NoKeeping

LEMMA NumberedStill == ASSUME StageSound, StageStep PROVE \A n : Numbered(n) => Numbered(n)'
<1> SUFFICES ASSUME NEW n, Numbered(n) PROVE Numbered(n)'  OBVIOUS
<1>1. left["save"] \in Nat /\ scene.left["save"] \in Nat /\ "save" \in DOMAIN left /\ n \in Nat /\ n <= scene.left["save"] - left["save"]
  BY StageAssumption DEF StageSound, Numbered, Spent
<1>2. scene' = scene /\ DOMAIN left' = DOMAIN left /\ left'["save"] \in Nat /\ left'["save"] <= left["save"]  BY <1>1 DEF StageStep
<1> QED  BY <1>1, <1>2 DEF Numbered, Spent

LEMMA NumberedNext == ASSUME StageSound, Spend("save") PROVE ~Numbered(Spent("save") + 1) /\ \E n \in Nat : n = Spent("save") + 1 /\ Numbered(n)'
<1>1. left["save"] \in Nat /\ scene.left["save"] \in Nat /\ "save" \in DOMAIN left /\ left["save"] <= scene.left["save"]
  BY StageAssumption DEF StageSound, Spend
<1>2. scene' = scene /\ DOMAIN left' = DOMAIN left /\ left'["save"] = left["save"] - 1  BY <1>1, Spending DEF Spend
<1> QED  BY <1>1, <1>2 DEF Numbered, Spent

LEMMA FilesSized == ASSUME FilesSound PROVE Sized(media) /\ \A S \in SUBSET media : Sized(S)
BY SizedLess DEF FilesSound, Sized

(* What is counted stays within the quota if it was part of what did.      *)
LEMMA QuotaBy ==
  ASSUME scene' = scene, NEW S, Sized(S), Within(Bytes(S), Cardinality(S)), \A f \in media' : f.id \notin unchecked' => f \in S, scene \in Scenes
  PROVE  QuotaKept'
<1> DEFINE T == {f \in media' : f.id \notin unchecked'}
<1>1. T \in SUBSET S  OBVIOUS
<1>2. PICK U : U = T  OBVIOUS
<1>3. Bytes(U) \in Nat /\ Bytes(S) \in Nat /\ Bytes(U) <= Bytes(S)  BY <1>1, <1>2, BytesLess
<1>4. Cardinality(U) \in Nat /\ Cardinality(S) \in Nat /\ Cardinality(U) <= Cardinality(S)  BY <1>1, <1>2, SizedLess
<1>5. Quota \in Int /\ Most \in Nat  BY FilingAssumption DEF Quota, Most
<1>6. (Quota >= 0 => Bytes(U) <= Quota) /\ Cardinality(U) <= Most  BY <1>3, <1>4, <1>5 DEF Within
<1>7. Quota' = Quota /\ Most' = Most  BY DEF Quota, Most
<1> HIDE DEF T
<1>8. (Quota' >= 0 => Bytes(T) <= Quota') /\ Cardinality(T) <= Most'  BY <1>2, <1>6, <1>7
<1> QED  BY <1>8 DEF QuotaKept, T

LEMMA QuotaLess ==
  ASSUME scene' = scene, scene \in Scenes, FilesSound, QuotaKept, media' \subseteq media, unchecked' = unchecked
  PROVE  QuotaKept'
<1> DEFINE S == {f \in media : f.id \notin unchecked}
<1>1. Sized(S)  BY FilesSized
<1>2. Within(Bytes(S), Cardinality(S))  BY DEF QuotaKept, Within
<1>3. \A f \in media' : f.id \notin unchecked' => f \in S  OBVIOUS
<1> HIDE DEF S
<1> QED  BY <1>1, <1>2, <1>3, QuotaBy

LEMMA SeenLess ==
  ASSUME FilesSound, media' \subseteq media, NEW k, NEW j, j.seen = k.seen
  PROVE  Bytes({f \in media' : f.id \in j.seen}) <= Bytes(SeenBy(k)) /\ Cardinality({f \in media' : f.id \in j.seen}) <= Cardinality(SeenBy(k))
         /\ Bytes(SeenBy(k)) \in Nat /\ Bytes({f \in media' : f.id \in j.seen}) \in Nat
         /\ Cardinality(SeenBy(k)) \in Nat /\ Cardinality({f \in media' : f.id \in j.seen}) \in Nat
<1> DEFINE T == {f \in media' : f.id \in j.seen}
<1>1. T \in SUBSET SeenBy(k) /\ SeenBy(k) \in SUBSET media  BY DEF SeenBy
<1>2. Sized(SeenBy(k))  BY <1>1, FilesSized
<1> HIDE DEF T
<1>3. Bytes(T) \in Nat /\ Bytes(SeenBy(k)) \in Nat /\ Bytes(T) <= Bytes(SeenBy(k))  BY <1>1, <1>2, BytesLess
<1>4. Cardinality(T) \in Nat /\ Cardinality(SeenBy(k)) \in Nat /\ Cardinality(T) <= Cardinality(SeenBy(k))  BY <1>1, <1>2, SizedLess
<1> QED  BY <1>3, <1>4 DEF T

LEMMA FilesLess ==
  ASSUME FilesSound, \A n : Numbered(n) => Numbered(n)', media' \subseteq media, temps' \subseteq temps, \A n \in cited' : n \in cited \/ Numbered(n)
  PROVE  FilesSound'
<1>1. IsFiniteSet(media')  BY FS_Subset DEF FilesSound
<1> QED  BY <1>1 DEF FilesSound

LEMMA KeeperGoes ==
  ASSUME DOMAIN keeping = Keepers, \A q \in Keepers : KeeperSound(keeping[q]), \A n : Numbered(n) => Numbered(n)',
         NEW r \in Keepers, NEW k, KeeperSound(k), keeping' = [keeping EXCEPT ![r] = k]
  PROVE  DOMAIN keeping' = Keepers /\ keeping'[r] = k /\ (\A q \in Keepers \ {r} : keeping'[q] = keeping[q]) /\ \A q \in Keepers : KeeperSound(keeping[q])'
<1>1. DOMAIN keeping' = Keepers /\ keeping'[r] = k /\ \A q \in Keepers \ {r} : keeping'[q] = keeping[q]  OBVIOUS
<1>2. \A q \in Keepers : KeeperSound(keeping'[q])  BY <1>1
<1>3. ASSUME NEW q \in Keepers PROVE KeeperSound(keeping[q])'
  <2>1. PICK j : j = keeping'[q]  OBVIOUS
  <2>2. KeeperSound(j)  BY <1>2, <2>1
  <2>3. /\ DOMAIN j = DOMAIN NoKeeping /\ j.size \in Nat /\ j.bytes \in Int /\ j.files \in Int
        /\ \A n \in j.seen : Numbered(n)'
        /\ \A f \in j.list : Numbered(f.id)' /\ f.size \in Nat
        /\ j.at = "evicting" => \A f \in j.list : f.id \in j.seen
        /\ j.at \in {"off", "written", "placing", "saved"} => j.gone = {}
    BY <2>2 DEF KeeperSound
  <2> QED  BY <2>1, <2>3 DEF KeeperSound
<1> QED  BY <1>1, <1>3

(* Who is not at it does not hold the slot, nor has counted anything.      *)
LEMMA SaverIdle == ASSUME NEW v, keeping'[v].at \notin {"evicting", "clearing", "placing", "failed"} PROVE SaverSound(v)'
BY DEF SaverSound, InSlot, Counting, Fitting

LEMMA SaverIs ==
  ASSUME NEW v, NEW k, keeping'[v] = k, scene' = scene, InSlot(k) => ioSlot' = v,
         Counting(k) => (\A f \in media' : f.id \in k.seen) /\ Bytes(media') <= k.bytes /\ Cardinality(media') <= k.files,
         Fitting(k) => Within(k.bytes + k.size, k.files + 1) /\ \A f \in media' : f.id \notin unchecked'
  PROVE  SaverSound(v)'
<1>1. \A a, b : Within(a, b) => Within(a, b)'  BY DEF Within, Quota, Most
<1>2. Fitting(k) => Within(k.bytes + k.size, k.files + 1)'  BY <1>1
<1>3. InSlot(keeping[v])' => ioSlot' = v  BY DEF InSlot
<1>4. Counting(keeping[v])' => Counting(k)  BY DEF Counting
<1>5. Fitting(keeping[v])' => Fitting(k)  BY DEF Fitting
<1>6. Fitting(k) => Within(keeping[v].bytes + keeping[v].size, keeping[v].files + 1)'  BY <1>2 DEF Within
<1> QED  BY <1>3, <1>4, <1>5, <1>6 DEF SaverSound

LEMMA SaverStill ==
  ASSUME FilesSound, NEW v, SaverSound(v), keeping[v].bytes \in Int, keeping[v].files \in Int, keeping'[v] = keeping[v], media' \subseteq media, unchecked' \subseteq unchecked, scene' = scene,
         InSlot(keeping[v]) => ioSlot' = v
  PROVE  SaverSound(v)'
<1>1. Bytes(media') \in Nat /\ Bytes(media) \in Nat /\ Bytes(media') <= Bytes(media)
  <2>1. PICK m : m = media'  OBVIOUS
  <2> QED  BY <2>1, FilesSized, BytesLess
<1>2. Cardinality(media') \in Nat /\ Cardinality(media) \in Nat /\ Cardinality(media') <= Cardinality(media)
  <2>1. PICK m : m = media'  OBVIOUS
  <2> QED  BY <2>1, FilesSized, SizedLess
<1>3. PICK k : k = keeping[v]  OBVIOUS
<1>4. InSlot(k) => ioSlot' = v  BY <1>3
<1>5. Counting(k) => (\A f \in media' : f.id \in k.seen) /\ Bytes(media') <= k.bytes /\ Cardinality(media') <= k.files
  <2>1. Counting(k) => (\A f \in media : f.id \in k.seen) /\ Bytes(media) <= k.bytes /\ Cardinality(media) <= k.files  BY <1>3 DEF SaverSound
  <2>2. k.bytes \in Int /\ k.files \in Int  BY <1>3
  <2> QED  BY <1>1, <1>2, <2>1, <2>2
<1>6. Fitting(k) => Within(k.bytes + k.size, k.files + 1) /\ \A f \in media' : f.id \notin unchecked'  BY <1>3 DEF SaverSound
<1> QED  BY <1>3, <1>4, <1>5, <1>6, SaverIs

LEMMA CleanerIs ==
  ASSUME NEW k, keeping'[Cleaner] = k,
         k.at = "evicting" =>
           /\ Bytes({f \in media' : f.id \in k.seen}) <= k.bytes /\ Cardinality({f \in media' : f.id \in k.seen}) <= k.files
           /\ (\A f \in media' : f.id \in k.seen \/ f.id \in unchecked') \/ (\A f \in media' : f.id \in k.seen => f.id \notin unchecked')
  PROVE  CleanerSound'
BY DEF CleanerSound, SeenBy

LEMMA CleanerStill ==
  ASSUME FilesSound, CleanerSound, keeping'[Cleaner] = keeping[Cleaner], keeping[Cleaner].bytes \in Int, keeping[Cleaner].files \in Int, media' \subseteq media,
         \/ unchecked' = unchecked
         \/ \A f \in media' : f.id \notin unchecked'
  PROVE  CleanerSound'
<1>1. PICK k : k = keeping[Cleaner]  OBVIOUS
<1>2. PICK T : T = {f \in media' : f.id \in k.seen}  OBVIOUS
<1>3. Bytes(T) <= Bytes(SeenBy(k)) /\ Bytes(SeenBy(k)) \in Nat /\ Bytes(T) \in Nat  BY <1>2, SeenLess
<1>4. Cardinality(T) <= Cardinality(SeenBy(k)) /\ Cardinality(SeenBy(k)) \in Nat /\ Cardinality(T) \in Nat  BY <1>2, SeenLess
<1>5. ASSUME k.at = "evicting"
      PROVE  /\ Bytes(T) <= k.bytes /\ Cardinality(T) <= k.files
             /\ (\A f \in media' : f.id \in k.seen \/ f.id \in unchecked') \/ (\A f \in media' : f.id \in k.seen => f.id \notin unchecked')
  <2>1. /\ Bytes(SeenBy(k)) <= k.bytes /\ Cardinality(SeenBy(k)) <= k.files
        /\ (\A f \in media : f.id \in k.seen \/ f.id \in unchecked) \/ (\A f \in media : f.id \in k.seen => f.id \notin unchecked)
    BY <1>1, <1>5 DEF CleanerSound
  <2>2. k.bytes \in Int /\ k.files \in Int  BY <1>1
  <2>3. Bytes(T) <= k.bytes /\ Cardinality(T) <= k.files  BY <1>3, <1>4, <2>1, <2>2
  <2>4. (\A f \in media' : f.id \in k.seen \/ f.id \in unchecked') \/ (\A f \in media' : f.id \in k.seen => f.id \notin unchecked')  BY <2>1
  <2> QED  BY <2>3, <2>4
<1> QED  BY <1>1, <1>2, <1>5, CleanerIs

(* What a keeper may do to its record without a new number for it.         *)
SameNumber(r, k) ==
  /\ r \in Saves => (k.at # "off" => Saving(r) /\ k.id = keeping[r].id) /\ (k.at \notin {"off", "saved"} => Unplaced(r))
  /\ \A n \in k.seen : n \in keeping[r].seen \/ \E f \in media : f.id = n

(* It cites what was there before, or the file of a save that is over.     *)
Cites(r, k) == cited' \subseteq cited \/ (r \in Saves /\ Saving(r) /\ k.at = "off" /\ cited' = cited \cup {keeping[r].id})

LEMMA IdsLess ==
  ASSUME MediaInv, \A n : Numbered(n) => Numbered(n)', NEW r \in Keepers, NEW k, keeping' = [keeping EXCEPT ![r] = k],
         SameNumber(r, k), Cites(r, k), media' \subseteq media
  PROVE  IdsApart'
<1>1. DOMAIN keeping = Keepers /\ IdsApart /\ Saves \subseteq Keepers  BY DEF MediaInv, Keepers
<1>2. keeping'[r] = k /\ \A q \in Keepers \ {r} : keeping'[q] = keeping[q]  BY <1>1
<1>3. ASSUME NEW v \in Saves, keeping'[v].at # "off"
      PROVE  Saving(v) /\ keeping'[v].id = keeping[v].id /\ (keeping'[v].at \notin {"off", "saved"} => Unplaced(v))
  <2>1. CASE v = r  BY <1>2, <1>3, <2>1 DEF SameNumber
  <2>2. CASE v # r  BY <1>1, <1>2, <1>3, <2>2 DEF Saving, Unplaced
  <2> QED  BY <2>1, <2>2
<1>4. \A v \in Saves : keeping'[v].at # "off" => Numbered(keeping[v].id)' /\ keeping[v].id \notin cited'
  <2> SUFFICES ASSUME NEW v \in Saves, keeping'[v].at # "off" PROVE Numbered(keeping[v].id)' /\ keeping[v].id \notin cited'  OBVIOUS
  <2>1. PICK n : n = keeping[v].id  OBVIOUS
  <2>2. Saving(v) /\ keeping'[v].id = n /\ Numbered(n) /\ n \notin cited  BY <1>1, <1>3, <2>1 DEF IdsApart
  <2>3. Numbered(n)'  BY <2>2
  <2>4. n \notin cited'
    <3>1. CASE cited' \subseteq cited  BY <2>2, <3>1
    <3>2. CASE r \in Saves /\ Saving(r) /\ k.at = "off" /\ cited' = cited \cup {keeping[r].id}
      <4>1. v # r  BY <1>2, <3>2
      <4>2. keeping[r].id # n  BY <1>1, <2>1, <2>2, <3>2, <4>1 DEF IdsApart
      <4> QED  BY <2>2, <3>2, <4>2
    <3> QED  BY <3>1, <3>2 DEF Cites
  <2> QED  BY <2>1, <2>2, <2>3, <2>4 DEF Numbered
<1>5. \A v \in Saves : Saving(v)' => Numbered(keeping[v].id)' /\ keeping'[v].id \notin cited'  BY <1>3, <1>4 DEF Saving, Numbered
<1>6. \A v, w \in Saves : Saving(v)' /\ Saving(w)' /\ keeping'[v].id = keeping'[w].id => v = w  BY <1>1, <1>3 DEF IdsApart, Saving
<1>7. ASSUME NEW v \in Saves, Unplaced(v)' PROVE (\A f \in media' : f.id # keeping'[v].id) /\ \A q \in Keepers : keeping'[v].id \notin keeping'[q].seen
  <2>1. Unplaced(v) /\ keeping'[v].id = keeping[v].id  BY <1>3, <1>7 DEF Unplaced
  <2>2. (\A f \in media : f.id # keeping[v].id) /\ \A q \in Keepers : keeping[v].id \notin keeping[q].seen  BY <1>1, <2>1 DEF IdsApart
  <2>3. keeping[v].id \notin k.seen  BY <2>2 DEF SameNumber
  <2> QED  BY <1>2, <2>1, <2>2, <2>3
<1> QED  BY <1>5, <1>6, <1>7 DEF IdsApart

(* A step of one keeper: what it must look after is its own count, the     *)
(* cleaner's, the quota and the names.                                     *)
LEMMA KeeperSteps ==
  ASSUME StageSound, MediaInv, StageStep, NEW r \in Keepers, NEW k, keeping' = [keeping EXCEPT ![r] = k], KeeperSound(k), SameNumber(r, k), Cites(r, k),
         media' \subseteq media, temps' \subseteq temps, unchecked' \subseteq unchecked,
         \A v \in Saves \ {r} : InSlot(keeping[v]) => ioSlot' = v,
         r \in Saves => SaverSound(r)',
         CleanerSound', QuotaKept', Named'
  PROVE  MediaInv'
<1>1. \A n : Numbered(n) => Numbered(n)'  BY NumberedStill
<1>2. DOMAIN keeping' = Keepers /\ (\A q \in Keepers \ {r} : keeping'[q] = keeping[q]) /\ \A q \in Keepers : KeeperSound(keeping[q])'
  BY <1>1, KeeperGoes DEF MediaInv
<1>3. FilesSound'
  <2>1. \A n \in cited' : n \in cited \/ Numbered(n)  BY DEF Cites, MediaInv, IdsApart
  <2> QED  BY <1>1, <2>1, FilesLess DEF MediaInv
<1>4. IdsApart'  BY <1>1, IdsLess
<1>5. ASSUME NEW v \in Saves, v # r PROVE SaverSound(v)'
  <2>1. v \in Keepers  BY DEF Keepers
  <2>2. keeping[v].bytes \in Int /\ keeping[v].files \in Int /\ SaverSound(v) /\ FilesSound  BY <2>1 DEF MediaInv, KeeperSound
  <2>3. keeping'[v] = keeping[v] /\ scene' = scene  BY <1>2, <1>5, <2>1 DEF StageStep
  <2> QED  BY <1>5, <2>2, <2>3, SaverStill
<1> QED  BY <1>2, <1>3, <1>4, <1>5 DEF MediaInv

LEMMA NamesGo ==
  ASSUME DOMAIN keeping = Keepers, NEW r \in Keepers, NEW k, keeping' = [keeping EXCEPT ![r] = k],
         \A n \in cited' : (\E f \in media' : f.id = n) \/ n \in lapsed' \/ n \in k.gone \/ \E q \in Keepers \ {r} : n \in keeping[q].gone
  PROVE  Named'
<1>1. keeping'[r] = k /\ \A q \in Keepers \ {r} : keeping'[q] = keeping[q]  OBVIOUS
<1> QED  BY <1>1 DEF Named

(* Nothing goes but what is told of or was named by nobody.                *)
LEMMA NamesKept ==
  ASSUME MediaInv, NEW r \in Keepers, NEW k, keeping' = [keeping EXCEPT ![r] = k], cited' \subseteq cited,
         \A f \in media \ media' : f.id \in k.gone \/ f.id \notin cited', lapsed \subseteq lapsed', \A n \in keeping[r].gone : n \in k.gone \/ n \in lapsed' \/ n \notin cited'
  PROVE  Named'
<1>1. \A n \in cited' : (\E f \in media : f.id = n) \/ n \in lapsed \/ \E q \in Keepers : n \in keeping[q].gone  BY DEF MediaInv, Named
<1>2. ASSUME NEW n \in cited' PROVE (\E f \in media' : f.id = n) \/ n \in lapsed' \/ n \in k.gone \/ \E q \in Keepers \ {r} : n \in keeping[q].gone
  <2>1. CASE \E f \in media : f.id = n  BY <1>2, <2>1
  <2>2. CASE n \in lapsed  BY <2>2
  <2>3. CASE \E q \in Keepers : n \in keeping[q].gone  BY <1>2, <2>3
  <2> QED  BY <1>1, <1>2, <2>1, <2>2, <2>3
<1> QED  BY <1>2, NamesGo DEF MediaInv

LEMMA KeeperIs == ASSUME MediaInv, NEW r \in Keepers PROVE KeeperSound(keeping[r]) /\ FilesSound /\ DOMAIN keeping = Keepers /\ QuotaKept /\ CleanerSound
BY DEF MediaInv

LEMMA ScannedIs ==
  ASSUME FilesSound, NEW j, KeeperSound(j), NEW k, k = Scanned(j)
  PROVE  /\ KeeperSound(k) /\ k.at \in {"failed", "evicting"} /\ k.id = j.id /\ k.size = j.size /\ k.gone = j.gone
         /\ (\A n \in k.seen : \E f \in media : f.id = n) /\ (\A f \in media : f.id \in k.seen)
         /\ k.bytes = Bytes(media) /\ k.files = Cardinality(media) /\ Bytes(media) \in Nat /\ Cardinality(media) \in Nat
<1>1. Bytes(media) \in Nat /\ Cardinality(media) \in Nat
  <2>1. Sized(media) /\ media \in SUBSET media  BY FilesSized
  <2> QED  BY <2>1, BytesLess, SizedLess
<1>2. PICK b \in Nat, c \in Nat : b = Bytes(media) /\ c = Cardinality(media)  BY <1>1
<1>3. DOMAIN j = {"at", "id", "size", "list", "seen", "bytes", "files", "gone", "since", "trusting"}  BY KeeperFields DEF KeeperSound
<1>4. /\ DOMAIN k = DOMAIN j /\ k.at \in {"failed", "evicting"} /\ k.id = j.id /\ k.size = j.size /\ k.gone = j.gone
      /\ k.list = media /\ k.seen = Ids(media) /\ k.bytes = b /\ k.files = c
  BY <1>2, <1>3 DEF Scanned
<1>5. (\A n \in k.seen : \E f \in media : f.id = n) /\ (\A f \in media : f.id \in k.seen)  BY <1>4 DEF Ids
<1>6. KeeperSound(k)
  <2>1. \A n \in k.seen : Numbered(n)  BY <1>5 DEF FilesSound
  <2>2. \A f \in k.list : Numbered(f.id) /\ f.size \in Nat /\ f.id \in k.seen  BY <1>4, <1>5 DEF FilesSound
  <2>3. DOMAIN k = DOMAIN NoKeeping /\ k.size \in Nat /\ k.bytes \in Int /\ k.files \in Int  BY <1>2, <1>4 DEF KeeperSound
  <2> QED  BY <1>4, <2>1, <2>2, <2>3 DEF KeeperSound
<1> QED  BY <1>1, <1>2, <1>4, <1>5, <1>6

LEMMA AskQuotaKept == ASSUME StageSound, MediaInv, NEW v \in Saves, AskQuota(v) PROVE MediaInv'
<1> DEFINE j == keeping[v]
<1>0. v \in Keepers /\ Cleaner \in Keepers /\ Cleaner # v  BY FilingAssumption DEF Keepers
<1>1. /\ j.at = "written" /\ ioSlot \in {None, v} /\ ioSlot' = v /\ UNCHANGED <<media, totals, cited, unchecked, lapsed>> /\ Spends
      /\ \/ keeping' = [keeping EXCEPT ![v] = [j EXCEPT !.at = "placing", !.trusting = TRUE]] /\ UNCHANGED temps
         \/ keeping' = [keeping EXCEPT ![v] = Scanned(j)] /\ temps' \subseteq temps
  BY Zenon DEF AskQuota, Going, Spends
<1>2. StageStep /\ scene' = scene /\ scene \in Scenes  BY <1>1, SpendsStage DEF StageStep, StageSound
<1>3. KeeperSound(j) /\ FilesSound /\ DOMAIN keeping = Keepers /\ QuotaKept /\ CleanerSound  BY <1>0, KeeperIs
<1>4. \A w \in Saves \ {v} : InSlot(keeping[w]) => ioSlot' = w  BY <1>1, FilingAssumption DEF MediaInv, SaverSound
<1>5. QuotaKept'  BY <1>1, <1>2, <1>3, QuotaLess
<1>6. KeeperSound(keeping[Cleaner])  BY <1>0 DEF MediaInv
<1>7. ASSUME NEW k, keeping' = [keeping EXCEPT ![v] = k], temps' \subseteq temps, KeeperSound(k), k.at # "off", k.id = j.id, k.gone = j.gone,
             \A n \in k.seen : n \in j.seen \/ \E f \in media : f.id = n, SaverSound(v)'
      PROVE  MediaInv'
  <2>1. SameNumber(v, k)  BY <1>1, <1>7 DEF SameNumber, Saving, Unplaced
  <2>2. Cites(v, k)  BY <1>1 DEF Cites
  <2>3. keeping'[Cleaner] = keeping[Cleaner]  BY <1>0, <1>3, <1>7
  <2>4. CleanerSound'  BY <1>1, <1>3, <1>6, <2>3, CleanerStill DEF KeeperSound
  <2>5. Named'  BY <1>0, <1>1, <1>7, NamesKept
  <2> QED  BY <1>0, <1>1, <1>2, <1>4, <1>5, <1>7, <2>1, <2>2, <2>4, <2>5, KeeperSteps
<1>8. CASE keeping' = [keeping EXCEPT ![v] = [j EXCEPT !.at = "placing", !.trusting = TRUE]] /\ UNCHANGED temps
  <2>1. PICK k : k = [j EXCEPT !.at = "placing", !.trusting = TRUE]  OBVIOUS
  <2>2. DOMAIN j = {"at", "id", "size", "list", "seen", "bytes", "files", "gone", "since", "trusting"}  BY <1>3, KeeperFields DEF KeeperSound
  <2>3. /\ DOMAIN k = DOMAIN j /\ k.at = "placing" /\ k.trusting = TRUE /\ k.id = j.id /\ k.size = j.size /\ k.list = j.list /\ k.seen = j.seen
        /\ k.bytes = j.bytes /\ k.files = j.files /\ k.gone = j.gone
    BY <2>1, <2>2
  <2>4. KeeperSound(k)  BY <1>1, <1>3, <2>3 DEF KeeperSound
  <2>5. keeping'[v] = k  BY <1>0, <1>3, <1>8, <2>1
  <2>6. SaverSound(v)'  BY <1>1, <1>2, <2>3, <2>5, SaverIs DEF Counting, Fitting
  <2> QED  BY <1>7, <1>8, <2>1, <2>3, <2>4, <2>6
<1>9. CASE keeping' = [keeping EXCEPT ![v] = Scanned(j)] /\ temps' \subseteq temps
  <2>1. PICK k : k = Scanned(j)  OBVIOUS
  <2>2. /\ KeeperSound(k) /\ k.at \in {"failed", "evicting"} /\ k.id = j.id /\ k.gone = j.gone /\ (\A n \in k.seen : \E f \in media : f.id = n)
        /\ (\A f \in media : f.id \in k.seen) /\ k.bytes = Bytes(media) /\ k.files = Cardinality(media) /\ Bytes(media) \in Nat /\ Cardinality(media) \in Nat
    BY <1>3, <2>1, ScannedIs
  <2>3. keeping'[v] = k  BY <1>0, <1>3, <1>9, <2>1
  <2>4. (\A f \in media' : f.id \in k.seen) /\ Bytes(media') <= k.bytes /\ Cardinality(media') <= k.files  BY <1>1, <2>2
  <2>5. ~Fitting(k)  BY <2>2 DEF Fitting
  <2>6. SaverSound(v)'  BY <1>1, <1>2, <2>3, <2>4, <2>5, SaverIs
  <2> QED  BY <1>7, <1>9, <2>1, <2>2, <2>6
<1> QED  BY <1>1, <1>8, <1>9

LEMMA CheckQuotaKept == ASSUME StageSound, MediaInv, CheckQuota PROVE MediaInv'
<1> DEFINE j == keeping[Cleaner]
<1>0. Cleaner \in Keepers /\ Cleaner \notin Saves  BY FilingAssumption DEF Keepers
<1>1. /\ keeping' = [keeping EXCEPT ![Cleaner] = Scanned(j)] /\ temps' \subseteq temps /\ UNCHANGED <<media, totals, ioSlot, cited, unchecked, lapsed>> /\ Spends
  BY DEF CheckQuota, Going, Spends
<1>2. StageStep /\ scene' = scene /\ scene \in Scenes  BY <1>1, SpendsStage DEF StageStep, StageSound
<1>3. KeeperSound(j) /\ FilesSound /\ DOMAIN keeping = Keepers /\ QuotaKept  BY <1>0, KeeperIs
<1>4. \A w \in Saves : InSlot(keeping[w]) => ioSlot' = w  BY <1>1 DEF MediaInv, SaverSound
<1>5. QuotaKept'  BY <1>1, <1>2, <1>3, QuotaLess
<1>6. PICK k : k = Scanned(j)  OBVIOUS
<1>7. /\ KeeperSound(k) /\ k.gone = j.gone /\ (\A n \in k.seen : \E f \in media : f.id = n)
      /\ (\A f \in media : f.id \in k.seen) /\ k.bytes = Bytes(media) /\ k.files = Cardinality(media) /\ Bytes(media) \in Nat /\ Cardinality(media) \in Nat
  BY <1>3, <1>6, ScannedIs
<1>8. keeping'[Cleaner] = k  BY <1>0, <1>1, <1>3, <1>6
<1>9. CleanerSound'
  <2>1. {f \in media' : f.id \in k.seen} = media  BY <1>1, <1>7
  <2>2. Bytes({f \in media' : f.id \in k.seen}) <= k.bytes /\ Cardinality({f \in media' : f.id \in k.seen}) <= k.files
    <3>1. PICK T : T = {f \in media' : f.id \in k.seen}  OBVIOUS
    <3>2. T = media  BY <2>1, <3>1
    <3>3. Bytes(T) <= k.bytes /\ Cardinality(T) <= k.files  BY <1>7, <3>2
    <3> QED  BY <3>1, <3>3
  <2>3. \A f \in media' : f.id \in k.seen \/ f.id \in unchecked'  BY <1>1, <1>7
  <2> QED  BY <1>8, <2>2, <2>3, CleanerIs
<1>10. SameNumber(Cleaner, k) /\ Cites(Cleaner, k)  BY <1>0, <1>1, <1>7 DEF SameNumber, Cites
<1>11. Named'  BY <1>0, <1>1, <1>6, <1>7, NamesKept
<1>12. keeping' = [keeping EXCEPT ![Cleaner] = k]  BY <1>1, <1>6
<1> QED  BY <1>0, <1>1, <1>2, <1>4, <1>5, <1>7, <1>9, <1>10, <1>11, <1>12, KeeperSteps

(* One deletion that happens, and one that does not. *)
LEMMA DeletedKept ==
  ASSUME StageSound, StageStep, MediaInv, NEW r \in Keepers, NEW f \in media, NEW k, keeping' = [keeping EXCEPT ![r] = k], media' = media \ {f},
         UNCHANGED <<temps, totals, ioSlot, cited, unchecked, lapsed>>, KeeperSound(k), k.gone = keeping[r].gone \cup {f.id}, k.seen = keeping[r].seen, k.id = keeping[r].id,
         k.at = keeping[r].at, k.at \in {"evicting", "aged"}, k.size = keeping[r].size,
         k.at = "evicting" => k.bytes = keeping[r].bytes - f.size /\ k.files = keeping[r].files - 1 /\ f.id \in k.seen
  PROVE  MediaInv'
<1>1. scene' = scene /\ scene \in Scenes  BY DEF StageStep, StageSound
<1>2. KeeperSound(keeping[r]) /\ FilesSound /\ DOMAIN keeping = Keepers /\ QuotaKept /\ CleanerSound  BY KeeperIs
<1>3. keeping'[r] = k /\ \A q \in Keepers \ {r} : keeping'[q] = keeping[q]  BY <1>2
<1>4. \A w \in Saves : InSlot(keeping[w]) => ioSlot' = w  BY DEF MediaInv, SaverSound
<1>5. QuotaKept'  BY <1>1, <1>2, QuotaLess
<1>6. SameNumber(r, k) /\ Cites(r, k)  BY DEF SameNumber, Cites, Saving, Unplaced
<1>7. Named'  BY NamesKept
<1>8. PICK b : b = keeping[r].bytes  OBVIOUS
<1>9. PICK c : c = keeping[r].files  OBVIOUS
<1>10. b \in Int /\ c \in Int  BY <1>2, <1>8, <1>9 DEF KeeperSound
<1>11. r \in Saves => SaverSound(r)'
  <2> SUFFICES ASSUME r \in Saves PROVE SaverSound(r)'  OBVIOUS
  <2>1. InSlot(k) => ioSlot' = r  BY <1>4 DEF InSlot
  <2>2. ~Fitting(k)  BY DEF Fitting
  <2>3. ASSUME Counting(k) PROVE (\A g \in media' : g.id \in k.seen) /\ Bytes(media') <= k.bytes /\ Cardinality(media') <= k.files
    <3>1. k.at = "evicting" /\ Counting(keeping[r])  BY <2>3 DEF Counting
    <3>2. (\A g \in media : g.id \in k.seen) /\ Bytes(media) <= b /\ Cardinality(media) <= c  BY <1>8, <1>9, <3>1 DEF MediaInv, SaverSound
    <3>3. PICK m : m = media \ {f}  OBVIOUS
    <3>4. Bytes(m) \in Nat /\ Bytes(media) \in Nat /\ f.size \in Nat /\ Bytes(media) = Bytes(m) + f.size /\ Cardinality(media) \in Nat /\ Cardinality(m) = Cardinality(media) - 1
      <4>1. Sized(media) /\ f.size \in Nat  BY <1>2, FilesSized DEF FilesSound
      <4> QED  BY <3>3, <4>1, OneFileLess
    <3>5. Bytes(m) <= b - f.size /\ Cardinality(m) <= c - 1  BY <1>10, <3>2, <3>4
    <3> QED  BY <1>8, <1>9, <3>1, <3>2, <3>3, <3>5
  <2> QED  BY <1>1, <1>3, <2>1, <2>2, <2>3, SaverIs
<1>12. CleanerSound'
  <2>1. CASE r = Cleaner
    <3>1. ASSUME k.at = "evicting"
          PROVE  /\ Bytes({g \in media' : g.id \in k.seen}) <= k.bytes /\ Cardinality({g \in media' : g.id \in k.seen}) <= k.files
                 /\ (\A g \in media' : g.id \in k.seen \/ g.id \in unchecked') \/ (\A g \in media' : g.id \in k.seen => g.id \notin unchecked')
      <4>1. PICK S : S = SeenBy(keeping[r])  OBVIOUS
      <4>2. PICK T : T = {g \in media' : g.id \in k.seen}  OBVIOUS
      <4>3. S \in SUBSET media /\ f \in S /\ T = S \ {f}  BY <3>1, <4>1, <4>2 DEF SeenBy
      <4>4. Sized(S) /\ f.size \in Nat  BY <1>2, <4>3, FilesSized DEF FilesSound
      <4>5. Bytes(T) \in Nat /\ Bytes(S) \in Nat /\ Bytes(S) = Bytes(T) + f.size /\ Cardinality(S) \in Nat /\ Cardinality(T) = Cardinality(S) - 1
        BY <4>3, <4>4, OneFileLess
      <4>6. Bytes(S) <= b /\ Cardinality(S) <= c  BY <1>2, <1>8, <1>9, <2>1, <3>1, <4>1 DEF CleanerSound
      <4>7. Bytes(T) <= b - f.size /\ Cardinality(T) <= c - 1  BY <1>10, <4>4, <4>5, <4>6
      <4>8. (\A g \in media : g.id \in k.seen \/ g.id \in unchecked) \/ (\A g \in media : g.id \in k.seen => g.id \notin unchecked)
        BY <1>2, <2>1, <3>1 DEF CleanerSound
      <4> QED  BY <1>8, <1>9, <3>1, <4>2, <4>7, <4>8
    <3> QED  BY <1>3, <2>1, <3>1, CleanerIs
  <2>2. CASE r # Cleaner
    <3>1. Cleaner \in Keepers  BY DEF Keepers
    <3>2. keeping'[Cleaner] = keeping[Cleaner] /\ keeping[Cleaner].bytes \in Int /\ keeping[Cleaner].files \in Int  BY <1>3, <2>2, <3>1 DEF MediaInv, KeeperSound
    <3> QED  BY <1>2, <3>2, CleanerStill
  <2> QED  BY <2>1, <2>2
<1> QED  BY <1>4, <1>5, <1>6, <1>7, <1>11, <1>12, KeeperSteps

(* A step that changes what one keeper has to do and nothing else.         *)
LEMMA PassedKept ==
  ASSUME StageSound, StageStep, MediaInv, NEW r \in Keepers, NEW k, keeping' = [keeping EXCEPT ![r] = k],
         UNCHANGED <<media, temps, ioSlot, unchecked, cited, lapsed>>, KeeperSound(k), k.gone = keeping[r].gone, k.seen = keeping[r].seen, k.id = keeping[r].id,
         k.at = keeping[r].at \/ (k.at = "failed" /\ keeping[r].at # "aged"), keeping[r].at \in {"evicting", "aged", "placing"}, k.size = keeping[r].size,
         k.bytes = keeping[r].bytes, k.files = keeping[r].files, k.trusting = keeping[r].trusting
  PROVE  MediaInv'
<1>1. scene' = scene /\ scene \in Scenes  BY DEF StageStep, StageSound
<1>2. KeeperSound(keeping[r]) /\ FilesSound /\ DOMAIN keeping = Keepers /\ QuotaKept /\ CleanerSound  BY KeeperIs
<1>3. keeping'[r] = k /\ \A q \in Keepers \ {r} : keeping'[q] = keeping[q]  BY <1>2
<1>4. \A w \in Saves : InSlot(keeping[w]) => ioSlot' = w  BY DEF MediaInv, SaverSound
<1>5. QuotaKept'  BY <1>1, <1>2, QuotaLess
<1>6. SameNumber(r, k) /\ Cites(r, k)  BY DEF SameNumber, Cites, Saving, Unplaced
<1>7. Named'  BY NamesKept
<1>8. r \in Saves => SaverSound(r)'
  <2> SUFFICES ASSUME r \in Saves PROVE SaverSound(r)'  OBVIOUS
  <2>1. SaverSound(r)  BY DEF MediaInv
  <2>2. CASE k.at = "failed"
    <3>1. ~Fitting(k) /\ ~Counting(k) /\ InSlot(k)  BY <2>2 DEF Fitting, Counting, InSlot
    <3>2. ioSlot' = r  BY <1>4, <2>2 DEF InSlot
    <3> QED  BY <1>1, <1>3, <3>1, <3>2, SaverIs
  <2>3. CASE k.at = keeping[r].at
    <3>1. InSlot(k) => ioSlot' = r  BY <1>4, <2>3 DEF InSlot
    <3>2. Counting(k) => Counting(keeping[r])  BY <2>3 DEF Counting
    <3>3. Fitting(k) => Fitting(keeping[r])  BY <2>3 DEF Fitting
    <3>4. Counting(k) => (\A g \in media' : g.id \in k.seen) /\ Bytes(media') <= k.bytes /\ Cardinality(media') <= k.files  BY <2>1, <3>2 DEF SaverSound
    <3>5. Fitting(k) => Within(k.bytes + k.size, k.files + 1) /\ \A g \in media' : g.id \notin unchecked'  BY <2>1, <3>3 DEF SaverSound
    <3> QED  BY <1>1, <1>3, <3>1, <3>4, <3>5, SaverIs
  <2> QED  BY <2>2, <2>3
<1>9. CleanerSound'
  <2>1. CASE r = Cleaner
    <3>1. ASSUME k.at = "evicting"
          PROVE  /\ Bytes({g \in media' : g.id \in k.seen}) <= k.bytes /\ Cardinality({g \in media' : g.id \in k.seen}) <= k.files
                 /\ (\A g \in media' : g.id \in k.seen \/ g.id \in unchecked') \/ (\A g \in media' : g.id \in k.seen => g.id \notin unchecked')
      <4>1. PICK S : S = SeenBy(keeping[r])  OBVIOUS
      <4>2. PICK T : T = {g \in media' : g.id \in k.seen}  OBVIOUS
      <4>3. T = S  BY <4>1, <4>2 DEF SeenBy
      <4>4. Bytes(S) <= k.bytes /\ Cardinality(S) <= k.files  BY <1>2, <2>1, <3>1, <4>1 DEF CleanerSound
      <4>5. (\A g \in media : g.id \in k.seen \/ g.id \in unchecked) \/ (\A g \in media : g.id \in k.seen => g.id \notin unchecked)
        BY <1>2, <2>1, <3>1 DEF CleanerSound
      <4> QED  BY <4>2, <4>3, <4>4, <4>5
    <3> QED  BY <1>3, <2>1, <3>1, CleanerIs
  <2>2. CASE r # Cleaner
    <3>1. Cleaner \in Keepers  BY DEF Keepers
    <3>2. keeping'[Cleaner] = keeping[Cleaner] /\ keeping[Cleaner].bytes \in Int /\ keeping[Cleaner].files \in Int  BY <1>3, <2>2, <3>1 DEF MediaInv, KeeperSound
    <3> QED  BY <1>2, <3>2, CleanerStill
  <2> QED  BY <2>1, <2>2
<1> QED  BY <1>4, <1>5, <1>6, <1>7, <1>8, <1>9, KeeperSteps

LEMMA OldestIs == ASSUME NEW list, list # {}, \A f \in list : f.id \in Nat PROVE Oldest(list) \in list
<1>1. Ids(list) \subseteq Nat /\ Ids(list) # {}  BY DEF Ids
<1>2. PICK x \in Ids(list) : \A y \in Ids(list) : x <= y  BY <1>1, Least
<1>3. \E f \in list : \A g \in list : f.id <= g.id  BY <1>2 DEF Ids
<1> QED  BY <1>3, Zenon DEF Oldest

LEMMA DeleteKept ==
  ASSUME StageSound, MediaInv, NEW r \in Keepers, NEW f, NEW record, Delete(r, f, record),
         keeping[r].at \in {"evicting", "aged"}, DOMAIN record = DOMAIN NoKeeping, record.list = keeping[r].list \ {f}, record.seen = keeping[r].seen,
         record.id = keeping[r].id, record.at = keeping[r].at, record.size = keeping[r].size, record.gone = keeping[r].gone,
         record.bytes \in Int /\ record.files \in Int,
         keeping[r].at = "evicting" => f \in keeping[r].list /\ record.bytes = keeping[r].bytes - f.size /\ record.files = keeping[r].files - 1
  PROVE  MediaInv'
<1> DEFINE j == keeping[r]
<1>1. KeeperSound(j)  BY KeeperIs
<1>2. DOMAIN j = {"at", "id", "size", "list", "seen", "bytes", "files", "gone", "since", "trusting"} /\ DOMAIN record = DOMAIN j  BY <1>1, KeeperFields DEF KeeperSound
<1>3. CASE f \in media /\ media' = media \ {f} /\ Going(r, [record EXCEPT !.gone = @ \cup {f.id}]) /\ UNCHANGED stage
  <2>1. PICK k : k = [record EXCEPT !.gone = @ \cup {f.id}]  OBVIOUS
  <2>2. /\ DOMAIN k = DOMAIN NoKeeping /\ k.gone = j.gone \cup {f.id} /\ k.list = j.list \ {f} /\ k.seen = j.seen /\ k.id = j.id /\ k.at = j.at /\ k.size = j.size
        /\ k.bytes = record.bytes /\ k.files = record.files
    BY <1>2, <2>1
  <2>3. KeeperSound(k)  BY <1>1, <2>2 DEF KeeperSound
  <2>4. keeping' = [keeping EXCEPT ![r] = k] /\ UNCHANGED <<temps, totals, ioSlot, cited, unchecked, lapsed>>  BY <1>3, <2>1 DEF Going, Delete
  <2>5. StageStep  BY <1>3, SpendsStage DEF Spends
  <2>6. j.at = "evicting" => f.id \in k.seen  BY <1>1, <2>2 DEF KeeperSound
  <2> QED  BY <1>3, <2>2, <2>3, <2>4, <2>5, <2>6, DeletedKept
<1>4. CASE (UNCHANGED <<media, stage>> \/ (Spend("stuck") /\ UNCHANGED media)) /\ Going(r, [j EXCEPT !.list = @ \ {f}])
  <2>1. PICK k : k = [j EXCEPT !.list = @ \ {f}]  OBVIOUS
  <2>2. /\ DOMAIN k = DOMAIN NoKeeping /\ k.gone = j.gone /\ k.list = j.list \ {f} /\ k.seen = j.seen /\ k.id = j.id /\ k.at = j.at /\ k.size = j.size
        /\ k.bytes = j.bytes /\ k.files = j.files /\ k.trusting = j.trusting
    BY <1>2, <2>1
  <2>3. KeeperSound(k)  BY <1>1, <2>2 DEF KeeperSound
  <2>4. keeping' = [keeping EXCEPT ![r] = k] /\ UNCHANGED <<media, temps, ioSlot, unchecked, cited, lapsed>>  BY <1>4, <2>1 DEF Going, Delete
  <2>5. Spends  BY <1>4 DEF Spends
  <2>6. StageStep  BY <2>5, SpendsStage
  <2> QED  BY <2>2, <2>3, <2>4, <2>6, PassedKept
<1> QED  BY <1>3, <1>4, Zenon DEF Delete

LEMMA EvictKept == ASSUME StageSound, MediaInv, NEW r \in Keepers, Evict(r) PROVE MediaInv'
<1> DEFINE j == keeping[r]
<1>1. KeeperSound(j)  BY KeeperIs
<1>2. PICK f : f = Oldest(j.list)  OBVIOUS
<1>3. j.at = "evicting" /\ j.list # {} /\ Delete(r, f, [j EXCEPT !.list = @ \ {f}, !.bytes = @ - f.size, !.files = @ - 1])  BY <1>2 DEF Evict
<1>4. f \in j.list /\ f.size \in Nat
  <2>1. \A g \in j.list : g.id \in Nat /\ g.size \in Nat  BY <1>1 DEF KeeperSound, Numbered
  <2> QED  BY <1>2, <1>3, <2>1, OldestIs
<1>5. DOMAIN j = {"at", "id", "size", "list", "seen", "bytes", "files", "gone", "since", "trusting"} /\ j.bytes \in Int /\ j.files \in Int
  BY <1>1, KeeperFields DEF KeeperSound
<1>6. PICK k : k = [j EXCEPT !.list = @ \ {f}, !.bytes = @ - f.size, !.files = @ - 1]  OBVIOUS
<1>7. /\ DOMAIN k = DOMAIN j /\ k.list = j.list \ {f} /\ k.seen = j.seen /\ k.id = j.id /\ k.at = j.at /\ k.size = j.size /\ k.gone = j.gone
      /\ k.bytes = j.bytes - f.size /\ k.files = j.files - 1
  BY <1>5, <1>6
<1>8. DOMAIN k = DOMAIN NoKeeping /\ k.bytes \in Int /\ k.files \in Int  BY <1>1, <1>4, <1>5, <1>7 DEF KeeperSound
<1>9. Delete(r, f, k)  BY <1>3, <1>6
<1> HIDE DEF j
<1>10. keeping[r] = j  BY DEF j
<1> QED  BY <1>3, <1>4, <1>7, <1>8, <1>9, <1>10, DeleteKept

LEMMA DeleteAgedKept == ASSUME StageSound, MediaInv, DeleteAged PROVE MediaInv'
<1> DEFINE j == keeping[Cleaner]
<1>0. Cleaner \in Keepers  BY DEF Keepers
<1>1. KeeperSound(j)  BY <1>0, KeeperIs
<1>2. PICK f \in j.list : j.at = "aged" /\ Delete(Cleaner, f, [j EXCEPT !.list = @ \ {f}])  BY DEF DeleteAged
<1>3. DOMAIN j = {"at", "id", "size", "list", "seen", "bytes", "files", "gone", "since", "trusting"} /\ j.bytes \in Int /\ j.files \in Int
  BY <1>1, KeeperFields DEF KeeperSound
<1>4. PICK k : k = [j EXCEPT !.list = @ \ {f}]  OBVIOUS
<1>5. /\ DOMAIN k = DOMAIN j /\ k.list = j.list \ {f} /\ k.seen = j.seen /\ k.id = j.id /\ k.at = j.at /\ k.size = j.size /\ k.gone = j.gone
      /\ k.bytes = j.bytes /\ k.files = j.files
  BY <1>3, <1>4
<1>6. DOMAIN k = DOMAIN NoKeeping /\ k.bytes \in Int /\ k.files \in Int  BY <1>1, <1>3, <1>5 DEF KeeperSound
<1>7. Delete(Cleaner, f, k)  BY <1>2, <1>4
<1> HIDE DEF j
<1>8. keeping[Cleaner] = j  BY DEF j
<1> QED  BY <1>0, <1>2, <1>5, <1>6, <1>7, <1>8, DeleteKept

(* The end of a scan: what it has counted fits.                            *)
LEMMA EndScanKept == ASSUME StageSound, MediaInv, NEW r \in Keepers, EndScan(r) PROVE MediaInv'
<1> DEFINE j == keeping[r]
<1>0. Cleaner \in Keepers /\ Cleaner \notin Saves  BY FilingAssumption DEF Keepers
<1>1. KeeperSound(j) /\ FilesSound /\ DOMAIN keeping = Keepers /\ QuotaKept /\ CleanerSound  BY KeeperIs
<1>2. DOMAIN j = {"at", "id", "size", "list", "seen", "bytes", "files", "gone", "since", "trusting"}  BY <1>1, KeeperFields DEF KeeperSound
<1>3. /\ j.at = "evicting" /\ UNCHANGED <<media, temps, ioSlot, cited, lapsed>> /\ Spends
      /\ \/ Going(r, [j EXCEPT !.at = "failed"]) /\ UNCHANGED unchecked
         \/ ~Over(r) /\ unchecked' = unchecked \ j.seen /\ Going(r, [j EXCEPT !.at = "clearing"])
  BY Zenon DEF EndScan, Spends
<1>4. StageStep /\ scene' = scene /\ scene \in Scenes  BY <1>3, SpendsStage DEF StageStep, StageSound
<1>5. CASE Going(r, [j EXCEPT !.at = "failed"]) /\ UNCHANGED unchecked
  <2>1. PICK k : k = [j EXCEPT !.at = "failed"]  OBVIOUS
  <2>2. /\ DOMAIN k = DOMAIN j /\ k.gone = j.gone /\ k.list = j.list /\ k.seen = j.seen /\ k.id = j.id /\ k.at = "failed" /\ k.size = j.size
        /\ k.bytes = j.bytes /\ k.files = j.files /\ k.trusting = j.trusting
    BY <1>2, <2>1
  <2>3. KeeperSound(k)  BY <1>1, <2>2 DEF KeeperSound
  <2>4. keeping' = [keeping EXCEPT ![r] = k]  BY <1>5, <2>1 DEF Going
  <2> QED  BY <1>3, <1>4, <1>5, <2>2, <2>3, <2>4, PassedKept
<1>6. CASE ~Over(r) /\ unchecked' = unchecked \ j.seen /\ Going(r, [j EXCEPT !.at = "clearing"])
  <2>1. PICK k : k = [j EXCEPT !.at = "clearing"]  OBVIOUS
  <2>2. /\ DOMAIN k = DOMAIN j /\ k.gone = j.gone /\ k.list = j.list /\ k.seen = j.seen /\ k.id = j.id /\ k.at = "clearing" /\ k.size = j.size
        /\ k.bytes = j.bytes /\ k.files = j.files /\ k.trusting = j.trusting
    BY <1>2, <2>1
  <2>3. KeeperSound(k)  BY <1>1, <2>2 DEF KeeperSound
  <2>4. keeping' = [keeping EXCEPT ![r] = k] /\ keeping'[r] = k  BY <1>1, <1>6, <2>1 DEF Going
  <2>5. SameNumber(r, k) /\ Cites(r, k)  BY <1>3, <2>2 DEF SameNumber, Cites, Saving, Unplaced
  <2>6. Named'  BY <1>3, <2>2, <2>4, NamesKept
  <2>7. j.bytes \in Int /\ j.files \in Int /\ j.size \in Nat /\ Quota \in Int /\ Most \in Nat  BY <1>1, <1>4, FilingAssumption DEF KeeperSound, Quota, Most
  <2>8. \A w \in Saves : InSlot(keeping[w]) => ioSlot' = w  BY <1>3 DEF MediaInv, SaverSound
  <2>9. ASSUME NEW S, Sized(S), Bytes(S) <= j.bytes, Cardinality(S) <= j.files PROVE Within(Bytes(S), Cardinality(S))
    <3>1. Bytes(S) \in Nat /\ Cardinality(S) \in Nat
      <4>1. S \in SUBSET S  OBVIOUS
      <4> QED  BY <2>9, <4>1, BytesLess, SizedLess
    <3>2. (Quota >= 0 => j.bytes + j.size <= Quota) /\ j.files <= Most  BY <1>6, <2>7 DEF Over
    <3> QED  BY <2>7, <2>9, <3>1, <3>2 DEF Within
  <2>10. CASE r \in Saves
    <3>1. r # Cleaner /\ SaverSound(r)  BY <1>0, <2>10 DEF MediaInv
    <3>2. Counting(j) /\ InSlot(j)  BY <1>3 DEF Counting, InSlot
    <3>3. (\A f \in media : f.id \in j.seen) /\ Bytes(media) <= j.bytes /\ Cardinality(media) <= j.files  BY <3>1, <3>2 DEF SaverSound
    <3>4. Within(j.bytes + j.size, j.files + 1)  BY <1>6, <2>7, <3>1 DEF Within, Over
    <3>5. \A f \in media' : f.id \notin unchecked'  BY <1>3, <1>6, <3>3
    <3>6. (\A f \in media' : f.id \in k.seen) /\ Bytes(media') <= k.bytes /\ Cardinality(media') <= k.files  BY <1>3, <2>2, <3>3
    <3>7. Within(k.bytes + k.size, k.files + 1)  BY <2>2, <3>4
    <3>8. SaverSound(r)'  BY <1>4, <2>4, <2>8, <2>10, <3>2, <3>5, <3>6, <3>7, SaverIs
    <3>9. keeping'[Cleaner] = keeping[Cleaner] /\ keeping[Cleaner].bytes \in Int /\ keeping[Cleaner].files \in Int
      BY <1>0, <1>1, <2>4, <3>1 DEF MediaInv, KeeperSound
    <3>10. CleanerSound'  BY <1>1, <1>3, <3>5, <3>9, CleanerStill
    <3>11. QuotaKept'
      <4>1. Sized(media)  BY <1>1, FilesSized
      <4>2. Within(Bytes(media), Cardinality(media))  BY <2>9, <3>3, <4>1
      <4> QED  BY <1>3, <1>4, <4>1, <4>2, QuotaBy
    <3> QED  BY <1>3, <1>4, <1>6, <2>3, <2>4, <2>5, <2>6, <2>8, <3>8, <3>10, <3>11, KeeperSteps
  <2>11. CASE r = Cleaner
    <3>1. /\ Bytes(SeenBy(j)) <= j.bytes /\ Cardinality(SeenBy(j)) <= j.files
          /\ (\A f \in media : f.id \in j.seen \/ f.id \in unchecked) \/ (\A f \in media : f.id \in j.seen => f.id \notin unchecked)
      BY <1>1, <1>3, <2>11 DEF CleanerSound
    <3>2. CleanerSound'  BY <2>2, <2>4, <2>11, CleanerIs
    <3>3. QuotaKept'
      <4>1. CASE \A f \in media : f.id \in j.seen \/ f.id \in unchecked
        <5>1. PICK S : S = SeenBy(j)  OBVIOUS
        <5>2. Sized(S)  BY <1>1, <5>1, FilesSized DEF SeenBy
        <5>3. Within(Bytes(S), Cardinality(S))  BY <2>9, <3>1, <5>1, <5>2
        <5>4. \A f \in media' : f.id \notin unchecked' => f \in S  BY <1>3, <1>6, <4>1, <5>1 DEF SeenBy
        <5> QED  BY <1>4, <5>2, <5>3, <5>4, QuotaBy
      <4>2. CASE \A f \in media : f.id \in j.seen => f.id \notin unchecked
        <5>1. PICK S : S = {f \in media : f.id \notin unchecked}  OBVIOUS
        <5>2. Sized(S)  BY <1>1, <5>1, FilesSized
        <5>3. Within(Bytes(S), Cardinality(S))  BY <1>1, <5>1 DEF QuotaKept, Within
        <5>4. \A f \in media' : f.id \notin unchecked' => f \in S  BY <1>3, <1>6, <4>2, <5>1
        <5> QED  BY <1>4, <5>2, <5>3, <5>4, QuotaBy
      <4> QED  BY <3>1, <4>1, <4>2
    <3> QED  BY <1>0, <1>3, <1>4, <1>6, <2>3, <2>4, <2>5, <2>6, <2>8, <2>11, <3>2, <3>3, KeeperSteps
  <2> QED  BY <2>10, <2>11 DEF Keepers
<1> QED  BY <1>3, <1>5, <1>6

LEMMA IdleSound == KeeperSound(NoKeeping) /\ NoKeeping.at = "off" /\ NoKeeping.gone = {} /\ NoKeeping.seen = {}
BY DEF KeeperSound, NoKeeping

(* A keeper that is done, with no more files than there were.              *)
LEMMA DoneKept ==
  ASSUME StageSound, StageStep, MediaInv, NEW r \in Keepers, keeping' = [keeping EXCEPT ![r] = NoKeeping], Cites(r, NoKeeping),
         media' \subseteq media, temps' \subseteq temps, unchecked' = unchecked, \A w \in Saves \ {r} : InSlot(keeping[w]) => ioSlot' = w, Named'
  PROVE  MediaInv'
<1>1. scene' = scene /\ scene \in Scenes  BY DEF StageStep, StageSound
<1>2. FilesSound /\ DOMAIN keeping = Keepers /\ QuotaKept /\ CleanerSound  BY KeeperIs
<1>3. keeping'[r] = NoKeeping /\ \A q \in Keepers \ {r} : keeping'[q] = keeping[q]  BY <1>2
<1>4. PICK k : k = NoKeeping  OBVIOUS
<1>5. KeeperSound(k) /\ k.at = "off" /\ k.seen = {}  BY <1>4, IdleSound
<1>6. SameNumber(r, k) /\ Cites(r, k)  BY <1>4, <1>5 DEF SameNumber
<1>7. QuotaKept'  BY <1>1, <1>2, QuotaLess
<1>8. SaverSound(r)'  BY <1>3, <1>4, <1>5, SaverIdle
<1>9. CleanerSound'
  <2>1. CASE r = Cleaner  BY <1>3, <1>4, <1>5, <2>1, CleanerIs
  <2>2. CASE r # Cleaner
    <3>1. Cleaner \in Keepers  BY DEF Keepers
    <3>2. keeping'[Cleaner] = keeping[Cleaner] /\ keeping[Cleaner].bytes \in Int /\ keeping[Cleaner].files \in Int  BY <1>3, <2>2, <3>1 DEF MediaInv, KeeperSound
    <3> QED  BY <1>2, <3>2, CleanerStill
  <2> QED  BY <2>1, <2>2
<1> QED  BY <1>4, <1>5, <1>6, <1>7, <1>8, <1>9, KeeperSteps

LEMMA GiveUpKeepingKept == ASSUME StageSound, MediaInv, NEW r \in Keepers, GiveUpKeeping(r) PROVE MediaInv'
<1>1. /\ keeping' = [keeping EXCEPT ![r] = NoKeeping] /\ temps' \subseteq temps /\ ioSlot' = (IF ioSlot = r THEN None ELSE ioSlot)
      /\ lapsed' = lapsed \cup keeping[r].gone /\ UNCHANGED <<media, totals, cited, unchecked>> /\ Spends
  BY DEF GiveUpKeeping, Going, Spends
<1>2. \A w \in Saves \ {r} : InSlot(keeping[w]) => ioSlot' = w  BY <1>1 DEF MediaInv, SaverSound
<1>3. Named'
  <2>1. PICK k : k = NoKeeping  OBVIOUS
  <2> QED  BY <1>1, <2>1, NamesKept
<1> QED  BY <1>1, <1>2, <1>3, DoneKept, SpendsStage DEF Cites

LEMMA DiscardKept == ASSUME StageSound, MediaInv, NEW v \in Saves, Discard(v) PROVE MediaInv'
<1>1. /\ keeping[v].at = "saved" /\ keeping' = [keeping EXCEPT ![v] = NoKeeping] /\ media' = {f \in media : f.id # keeping[v].id}
      /\ UNCHANGED <<temps, ioSlot, cited, unchecked, lapsed>> /\ Spends
  BY DEF Discard, Going, Spends
<1>2. v \in Keepers /\ KeeperSound(keeping[v])  BY KeeperIs DEF Keepers
<1>3. \A w \in Saves \ {v} : InSlot(keeping[w]) => ioSlot' = w  BY <1>1 DEF MediaInv, SaverSound
<1>4. keeping[v].id \notin cited  BY <1>1 DEF MediaInv, IdsApart, Saving
<1>5. Named'
  <2>1. PICK k : k = NoKeeping  OBVIOUS
  <2>2. keeping[v].gone = {}  BY <1>1, <1>2 DEF KeeperSound
  <2> QED  BY <1>1, <1>2, <1>4, <2>1, <2>2, NamesKept
<1> QED  BY <1>1, <1>2, <1>3, <1>5, DoneKept, SpendsStage DEF Cites

LEMMA NameFileKept == ASSUME StageSound, MediaInv, NEW v \in Saves, NameFile(v) PROVE MediaInv'
<1>1. /\ keeping[v].at = "saved" /\ keeping' = [keeping EXCEPT ![v] = NoKeeping] /\ cited' = cited \cup {keeping[v].id} /\ Spends
      /\ lapsed' = (IF keeping[v].id \in Ids(media) THEN lapsed ELSE lapsed \cup {keeping[v].id}) /\ UNCHANGED <<media, temps, ioSlot, unchecked>>
  BY DEF NameFile, Going, Spends
<1>2. v \in Keepers /\ KeeperSound(keeping[v]) /\ DOMAIN keeping = Keepers  BY KeeperIs DEF Keepers
<1>3. \A w \in Saves \ {v} : InSlot(keeping[w]) => ioSlot' = w  BY <1>1 DEF MediaInv, SaverSound
<1>4. Cites(v, NoKeeping)  BY <1>1, IdleSound DEF Cites, Saving
<1>5. Named'
  <2>1. PICK k : k = NoKeeping  OBVIOUS
  <2>2. keeping[v].gone = {}  BY <1>1, <1>2 DEF KeeperSound
  <2>3. ASSUME NEW n \in cited' PROVE (\E f \in media' : f.id = n) \/ n \in lapsed' \/ n \in k.gone \/ \E q \in Keepers \ {v} : n \in keeping[q].gone
    <3>1. CASE n = keeping[v].id  BY <1>1, <3>1 DEF Ids
    <3>2. CASE n \in cited
      <4>1. (\E f \in media : f.id = n) \/ n \in lapsed \/ \E q \in Keepers : n \in keeping[q].gone  BY <3>2 DEF MediaInv, Named
      <4>2. lapsed \subseteq lapsed' /\ media' = media  BY <1>1
      <4> QED  BY <2>2, <4>1, <4>2
    <3> QED  BY <1>1, <3>1, <3>2
  <2> QED  BY <1>1, <1>2, <2>1, <2>3, NamesGo
<1> QED  BY <1>1, <1>2, <1>3, <1>4, <1>5, DoneKept, SpendsStage

LEMMA StartCleaningKept == ASSUME StageSound, MediaInv, StartCleaning PROVE MediaInv'
<1>0. Cleaner \in Keepers /\ Cleaner \notin Saves  BY FilingAssumption DEF Keepers
<1>1. PICK list : list = {f \in media : f.born + MediaAge < now}  OBVIOUS
<1>2. PICK k : k = [NoKeeping EXCEPT !.at = "aged", !.list = list]  OBVIOUS
<1>3. /\ keeping' = [keeping EXCEPT ![Cleaner] = k] /\ temps' \subseteq temps /\ UNCHANGED <<media, totals, ioSlot, cited, unchecked, lapsed>> /\ Spends
      /\ keeping[Cleaner].at = "off"
  BY <1>1, <1>2 DEF StartCleaning, Going, Spends
<1>4. k.at = "aged" /\ k.list \subseteq media /\ k.seen = {} /\ k.gone = {} /\ k.size = 0 /\ k.bytes = 0 /\ k.files = 0 /\ DOMAIN k = DOMAIN NoKeeping
  BY <1>1, <1>2 DEF NoKeeping
<1>5. KeeperSound(keeping[Cleaner]) /\ FilesSound /\ DOMAIN keeping = Keepers /\ QuotaKept  BY <1>0, KeeperIs
<1>6. KeeperSound(k)  BY <1>4, <1>5 DEF KeeperSound, FilesSound
<1>7. StageStep /\ scene' = scene /\ scene \in Scenes  BY <1>3, SpendsStage DEF StageStep, StageSound
<1>8. \A w \in Saves : InSlot(keeping[w]) => ioSlot' = w  BY <1>3 DEF MediaInv, SaverSound
<1>9. QuotaKept'  BY <1>3, <1>5, <1>7, QuotaLess
<1>10. CleanerSound'
  <2>1. keeping'[Cleaner] = k  BY <1>0, <1>3, <1>5
  <2> QED  BY <1>4, <2>1, CleanerIs
<1>11. SameNumber(Cleaner, k) /\ Cites(Cleaner, k)  BY <1>0, <1>3, <1>4 DEF SameNumber, Cites
<1>12. Named'
  <2>1. keeping[Cleaner].gone = {}  BY <1>3, <1>5 DEF KeeperSound
  <2> QED  BY <1>0, <1>3, <2>1, NamesKept
<1> QED  BY <1>0, <1>3, <1>6, <1>7, <1>8, <1>9, <1>10, <1>11, <1>12, KeeperSteps

LEMMA ClearNamesKept == ASSUME StageSound, MediaInv, NEW r \in Keepers, ClearNames(r) PROVE MediaInv'
<1> DEFINE j == keeping[r]
<1>0. Cleaner \in Keepers /\ Cleaner \notin Saves  BY FilingAssumption DEF Keepers
<1>1. KeeperSound(j) /\ FilesSound /\ DOMAIN keeping = Keepers /\ QuotaKept /\ CleanerSound  BY KeeperIs
<1>2. DOMAIN j = {"at", "id", "size", "list", "seen", "bytes", "files", "gone", "since", "trusting"}  BY <1>1, KeeperFields DEF KeeperSound
<1>3. /\ j.at = "clearing" /\ UNCHANGED <<media, temps, totals, ioSlot, unchecked>> /\ Spends
      /\ Going(r, IF r = Cleaner THEN NoKeeping ELSE [j EXCEPT !.at = "placing", !.gone = {}])
      /\ (cited' = cited \ j.gone /\ lapsed' = lapsed) \/ (cited' = cited /\ lapsed' = lapsed \cup j.gone)
  BY DEF ClearNames, Spends
<1>4. StageStep /\ scene' = scene /\ scene \in Scenes  BY <1>3, SpendsStage DEF StageStep, StageSound
<1>5. \A w \in Saves : InSlot(keeping[w]) => ioSlot' = w  BY <1>3 DEF MediaInv, SaverSound
<1>6. ASSUME NEW k, keeping' = [keeping EXCEPT ![r] = k] PROVE Named'
  <2>1. cited' \subseteq cited /\ lapsed \subseteq lapsed' /\ \A n \in j.gone : n \in lapsed' \/ n \notin cited'  BY <1>3
  <2>2. \A n \in j.gone : n \in k.gone \/ n \in lapsed' \/ n \notin cited'  BY <2>1
  <2>3. \A f \in media \ media' : f.id \in k.gone \/ f.id \notin cited'  BY <1>3
  <2> HIDE DEF j
  <2>4. keeping[r] = j  BY DEF j
  <2> QED  BY <1>6, <2>1, <2>2, <2>3, <2>4, NamesKept
<1>7. CASE r = Cleaner
  <2>1. keeping' = [keeping EXCEPT ![r] = NoKeeping]  BY <1>3, <1>7 DEF Going
  <2>2. PICK k : k = NoKeeping  OBVIOUS
  <2>3. Named'  BY <1>6, <2>1, <2>2
  <2>4. Cites(r, NoKeeping)  BY <1>3 DEF Cites
  <2> QED  BY <1>3, <1>4, <1>5, <2>1, <2>3, <2>4, DoneKept
<1>8. CASE r # Cleaner
  <2>1. PICK k : k = [j EXCEPT !.at = "placing", !.gone = {}]  OBVIOUS
  <2>2. /\ DOMAIN k = DOMAIN j /\ k.gone = {} /\ k.list = j.list /\ k.seen = j.seen /\ k.id = j.id /\ k.at = "placing" /\ k.size = j.size
        /\ k.bytes = j.bytes /\ k.files = j.files /\ k.trusting = j.trusting
    BY <1>2, <2>1
  <2>3. KeeperSound(k)  BY <1>1, <2>2 DEF KeeperSound
  <2>4. keeping' = [keeping EXCEPT ![r] = k] /\ keeping'[r] = k /\ r \in Saves  BY <1>1, <1>3, <1>8, <2>1 DEF Going, Keepers
  <2>5. SameNumber(r, k) /\ Cites(r, k)  BY <1>3, <2>2 DEF SameNumber, Cites, Saving, Unplaced
  <2>6. Named'  BY <1>6, <2>4
  <2>7. QuotaKept'  BY <1>1, <1>3, <1>4, QuotaLess
  <2>8. SaverSound(r)'
    <3>1. SaverSound(r) /\ Counting(j) /\ Fitting(j)  BY <1>3, <2>4 DEF MediaInv, Counting, Fitting
    <3>2. InSlot(k) => ioSlot' = r
      <4>1. InSlot(j)  BY <1>3 DEF InSlot
      <4> QED  BY <1>5, <2>4, <4>1
    <3>3. (\A f \in media' : f.id \in k.seen) /\ Bytes(media') <= k.bytes /\ Cardinality(media') <= k.files  BY <1>3, <2>2, <3>1 DEF SaverSound
    <3>4. Within(k.bytes + k.size, k.files + 1) /\ \A f \in media' : f.id \notin unchecked'  BY <1>3, <2>2, <3>1 DEF SaverSound
    <3> QED  BY <1>4, <2>4, <3>2, <3>3, <3>4, SaverIs
  <2>9. keeping'[Cleaner] = keeping[Cleaner] /\ keeping[Cleaner].bytes \in Int /\ keeping[Cleaner].files \in Int
    BY <1>0, <1>1, <1>8, <2>4 DEF MediaInv, KeeperSound
  <2>10. CleanerSound'  BY <1>1, <1>3, <2>9, CleanerStill
  <2> QED  BY <1>3, <1>4, <1>5, <2>3, <2>4, <2>5, <2>6, <2>7, <2>8, <2>10, KeeperSteps
<1> QED  BY <1>7, <1>8

(* The file is put in place: one file more, which nobody has seen.         *)
LEMMA PutInPlace ==
  ASSUME StageSound, StageStep, MediaInv, NEW v \in Saves, NEW t, NEW nf, nf = [id |-> keeping[v].id, size |-> keeping[v].size, born |-> t.born],
         keeping[v].at = "placing", NEW k, k = [keeping[v] EXCEPT !.at = "saved"], keeping' = [keeping EXCEPT ![v] = k],
         media' = media \cup {nf}, temps' \subseteq temps, unchecked' = (IF keeping[v].trusting THEN unchecked \cup {keeping[v].id} ELSE unchecked),
         UNCHANGED <<cited, lapsed>>
  PROVE  MediaInv'
<1> DEFINE j == keeping[v]
<1>0. v \in Keepers /\ Cleaner \in Keepers /\ Cleaner # v  BY FilingAssumption DEF Keepers
<1>1. KeeperSound(j) /\ FilesSound /\ DOMAIN keeping = Keepers /\ QuotaKept /\ CleanerSound /\ IdsApart /\ Named  BY <1>0, KeeperIs DEF MediaInv
<1>2. DOMAIN j = {"at", "id", "size", "list", "seen", "bytes", "files", "gone", "since", "trusting"}  BY <1>1, KeeperFields DEF KeeperSound
<1>3. /\ DOMAIN k = DOMAIN j /\ k.gone = j.gone /\ k.list = j.list /\ k.seen = j.seen /\ k.id = j.id /\ k.at = "saved" /\ k.size = j.size
      /\ k.bytes = j.bytes /\ k.files = j.files
  BY <1>2
<1>4. KeeperSound(k)  BY <1>1, <1>3 DEF KeeperSound
<1>5. \A n : Numbered(n) => Numbered(n)'  BY NumberedStill
<1>6. DOMAIN keeping' = Keepers /\ keeping'[v] = k /\ (\A q \in Keepers \ {v} : keeping'[q] = keeping[q]) /\ \A q \in Keepers : KeeperSound(keeping[q])'
  BY <1>0, <1>1, <1>4, <1>5, KeeperGoes DEF MediaInv
<1>7. scene' = scene /\ scene \in Scenes  BY DEF StageStep, StageSound
<1>8. PICK n : n = j.id  OBVIOUS
<1>9. nf.id = n /\ nf.size = j.size /\ nf.size \in Nat  BY <1>1, <1>8 DEF KeeperSound
<1>10. Numbered(n) /\ n \notin cited /\ (\A f \in media : f.id # n) /\ \A r \in Keepers : n \notin keeping[r].seen
  <2>1. Saving(v) /\ Unplaced(v)  BY DEF Saving, Unplaced
  <2> QED  BY <1>1, <1>8, <2>1 DEF IdsApart
<1>11. nf \notin media  BY <1>9, <1>10
<1>12. FilesSound'
  <2>1. IsFiniteSet(media')  BY <1>1, FS_AddElement DEF FilesSound
  <2>2. \A f \in media' : Numbered(f.id)' /\ f.size \in Nat  BY <1>1, <1>5, <1>9, <1>10 DEF FilesSound
  <2> QED  BY <1>1, <1>5, <2>1, <2>2 DEF FilesSound
<1>13. IdsApart'
  <2>1. \A w \in Saves : w \in Keepers /\ (keeping'[w].at # "off" => Saving(w)) /\ keeping'[w].id = keeping[w].id
                         /\ (keeping'[w].at \notin {"off", "saved"} => Unplaced(w) /\ w # v)
    BY <1>3, <1>6 DEF Saving, Unplaced, Keepers
  <2>2. \A r \in Keepers : keeping'[r].seen = keeping[r].seen  BY <1>3, <1>6
  <2>3. \A w \in Saves : keeping'[w].at # "off" => Numbered(keeping[w].id)' /\ keeping'[w].id \notin cited'
    <3> SUFFICES ASSUME NEW w \in Saves, keeping'[w].at # "off" PROVE Numbered(keeping[w].id)' /\ keeping'[w].id \notin cited'  OBVIOUS
    <3>1. PICK m : m = keeping[w].id  OBVIOUS
    <3>2. Numbered(m) /\ m \notin cited /\ keeping'[w].id = m  BY <1>1, <2>1, <3>1 DEF IdsApart
    <3>3. Numbered(m)'  BY <1>5, <3>2
    <3> QED  BY <3>2, <3>3 DEF Numbered
  <2>4. \A w, u \in Saves : keeping'[w].at # "off" /\ keeping'[u].at # "off" /\ keeping'[w].id = keeping'[u].id => w = u
    BY <1>1, <2>1 DEF IdsApart
  <2>5. \A w \in Saves : keeping'[w].at \notin {"off", "saved"} => (\A f \in media' : f.id # keeping'[w].id) /\ \A r \in Keepers : keeping'[w].id \notin keeping'[r].seen
    <3> SUFFICES ASSUME NEW w \in Saves, keeping'[w].at \notin {"off", "saved"}
                 PROVE  (\A f \in media' : f.id # keeping[w].id) /\ \A r \in Keepers : keeping[w].id \notin keeping[r].seen
      BY <2>1, <2>2
    <3>1. Unplaced(w) /\ w # v  BY <2>1
    <3>2. keeping[w].id # n  BY <1>1, <1>8, <3>1 DEF IdsApart, Saving, Unplaced
    <3> QED  BY <1>1, <1>9, <3>1, <3>2 DEF IdsApart
  <2> QED  BY <2>3, <2>4, <2>5 DEF IdsApart, Saving, Unplaced, Numbered
<1>14. ASSUME NEW w \in Saves PROVE SaverSound(w)'
  <2>1. InSlot(j) => ioSlot = v  BY DEF MediaInv, SaverSound
  <2>2. InSlot(j)  BY DEF InSlot
  <2>3. CASE w = v  BY <1>3, <1>6, <2>3, SaverIdle
  <2>4. CASE w # v
    <3>1. ~InSlot(keeping[w])  BY <2>1, <2>2, <2>4 DEF MediaInv, SaverSound
    <3>2. keeping'[w] = keeping[w]  BY <1>6, <2>4 DEF Keepers
    <3> QED  BY <3>1, <3>2, SaverIdle DEF InSlot
  <2> QED  BY <2>3, <2>4
<1>15. CleanerSound'
  <2>1. PICK c : c = keeping[Cleaner]  OBVIOUS
  <2>2. keeping'[Cleaner] = c /\ n \notin c.seen  BY <1>0, <1>6, <1>10, <2>1
  <2>3. ASSUME c.at = "evicting"
        PROVE  /\ Bytes({f \in media' : f.id \in c.seen}) <= c.bytes /\ Cardinality({f \in media' : f.id \in c.seen}) <= c.files
               /\ (\A f \in media' : f.id \in c.seen \/ f.id \in unchecked') \/ (\A f \in media' : f.id \in c.seen => f.id \notin unchecked')
    <3>1. /\ Bytes(SeenBy(c)) <= c.bytes /\ Cardinality(SeenBy(c)) <= c.files
          /\ (\A f \in media : f.id \in c.seen \/ f.id \in unchecked) \/ (\A f \in media : f.id \in c.seen => f.id \notin unchecked)
      BY <1>1, <2>1, <2>3 DEF CleanerSound
    <3>2. {f \in media' : f.id \in c.seen} = SeenBy(c)  BY <1>9, <2>2 DEF SeenBy
    <3>3. CASE j.trusting
      <4>1. unchecked' = unchecked \cup {n}  BY <1>8, <3>3
      <4>2. (\A f \in media' : f.id \in c.seen \/ f.id \in unchecked') \/ (\A f \in media' : f.id \in c.seen => f.id \notin unchecked')
        BY <1>9, <2>2, <3>1, <4>1
      <4> QED  BY <3>1, <3>2, <4>2
    <3>4. CASE ~j.trusting
      <4>1. unchecked' = unchecked  BY <3>4
      <4>2. \A f \in media : f.id \notin unchecked  BY <3>4 DEF MediaInv, SaverSound, Fitting
      <4>3. \A f \in media' : f.id \in c.seen => f.id \notin unchecked'  BY <1>9, <2>2, <4>1, <4>2
      <4> QED  BY <3>1, <3>2, <4>3
    <3> QED  BY <3>3, <3>4
  <2> QED  BY <2>2, <2>3, CleanerIs
<1>16. QuotaKept'
  <2>1. CASE j.trusting
    <3>1. PICK S : S = {f \in media : f.id \notin unchecked}  OBVIOUS
    <3>2. Sized(S)  BY <1>1, <3>1, FilesSized
    <3>3. Within(Bytes(S), Cardinality(S))  BY <1>1, <3>1 DEF QuotaKept, Within
    <3>4. \A f \in media' : f.id \notin unchecked' => f \in S  BY <1>8, <1>9, <2>1, <3>1
    <3> QED  BY <1>7, <3>2, <3>3, <3>4, QuotaBy
  <2>2. CASE ~j.trusting
    <3>1. PICK S : S = media \cup {nf}  OBVIOUS
    <3>2. Sized(media)  BY <1>1, FilesSized
    <3>3. Sized(S) /\ Bytes(S) = Bytes(media) + nf.size /\ Cardinality(S) = Cardinality(media) + 1 /\ Bytes(S) \in Nat
      BY <1>9, <1>11, <3>1, <3>2, OneFileMore
    <3>4. Bytes(media) <= j.bytes /\ Cardinality(media) <= j.files /\ Within(j.bytes + j.size, j.files + 1)
      <4>1. SaverSound(v) /\ Counting(j) /\ Fitting(j)  BY <2>2 DEF MediaInv, Counting, Fitting
      <4> QED  BY <4>1 DEF SaverSound
    <3>5. Bytes(media) \in Nat /\ Cardinality(media) \in Nat
      <4>1. media \in SUBSET media  OBVIOUS
      <4> QED  BY <3>2, <4>1, BytesLess, SizedLess
    <3>6. j.bytes \in Int /\ j.files \in Int /\ j.size \in Nat /\ Quota \in Int /\ Most \in Nat  BY <1>1, <1>7, FilingAssumption DEF KeeperSound, Quota, Most
    <3>7. Within(Bytes(S), Cardinality(S))
      <4> HIDE DEF j
      <4> QED  BY <1>9, <3>3, <3>4, <3>5, <3>6 DEF Within
    <3>8. \A f \in media' : f.id \notin unchecked' => f \in S  BY <3>1
    <3> QED  BY <1>7, <3>3, <3>7, <3>8, QuotaBy
  <2> QED  BY <2>1, <2>2
<1>17. Named'
  <2>1. \A q \in Keepers : keeping'[q].gone = keeping[q].gone  BY <1>3, <1>6
  <2>2. \A m \in cited : (\E f \in media' : f.id = m) \/ m \in lapsed \/ \E q \in Keepers : m \in keeping'[q].gone  BY <1>1, <2>1 DEF Named
  <2> QED  BY <2>2 DEF Named
<1> QED  BY <1>6, <1>12, <1>13, <1>14, <1>15, <1>16, <1>17 DEF MediaInv

LEMMA PlaceKept == ASSUME StageSound, MediaInv, NEW v \in Saves, Place(v) PROVE MediaInv'
<1> DEFINE j == keeping[v]
<1>0. v \in Keepers  BY DEF Keepers
<1>1. KeeperSound(j) /\ FilesSound  BY <1>0, KeeperIs
<1>2. DOMAIN j = {"at", "id", "size", "list", "seen", "bytes", "files", "gone", "since", "trusting"}  BY <1>1, KeeperFields DEF KeeperSound
<1>3. PICK mine : mine = {t \in temps : t.id = j.id}  OBVIOUS
<1>4. /\ j.at = "placing" /\ temps' = temps \ mine /\ UNCHANGED <<totals, cited, lapsed>> /\ Spends
      /\ IF mine = {} THEN Going(v, [j EXCEPT !.at = "failed"]) /\ UNCHANGED <<media, unchecked, ioSlot>>
         ELSE /\ media' = media \cup {[id |-> j.id, size |-> j.size, born |-> t.born] : t \in mine}
              /\ unchecked' = (IF j.trusting THEN unchecked \cup {j.id} ELSE unchecked)
              /\ Going(v, [j EXCEPT !.at = "saved"])
  BY <1>3 DEF Place, Spends
<1>5. StageStep  BY <1>4, SpendsStage
<1>6. CASE mine = {}
  <2>1. PICK k : k = [j EXCEPT !.at = "failed"]  OBVIOUS
  <2>2. /\ DOMAIN k = DOMAIN j /\ k.gone = j.gone /\ k.list = j.list /\ k.seen = j.seen /\ k.id = j.id /\ k.at = "failed" /\ k.size = j.size
        /\ k.bytes = j.bytes /\ k.files = j.files /\ k.trusting = j.trusting
    BY <1>2, <2>1
  <2>3. KeeperSound(k)  BY <1>1, <2>2 DEF KeeperSound
  <2>4. keeping' = [keeping EXCEPT ![v] = k] /\ UNCHANGED <<media, temps, ioSlot, unchecked, cited, lapsed>>  BY <1>4, <1>6, <2>1 DEF Going
  <2> HIDE DEF j
  <2>5. keeping[v] = j  BY DEF j
  <2> QED  BY <1>0, <1>4, <1>5, <2>2, <2>3, <2>4, <2>5, PassedKept
<1>7. CASE mine # {}
  <2>1. PICK t : t \in mine  BY <1>7
  <2>2. mine = {t}  BY <1>1, <1>3, <2>1 DEF FilesSound
  <2>3. PICK nf : nf = [id |-> j.id, size |-> j.size, born |-> t.born]  OBVIOUS
  <2>4. media' = media \cup {nf}  BY <1>4, <1>7, <2>2, <2>3
  <2>5. PICK k : k = [j EXCEPT !.at = "saved"]  OBVIOUS
  <2>6. keeping' = [keeping EXCEPT ![v] = k] /\ temps' \subseteq temps /\ unchecked' = (IF j.trusting THEN unchecked \cup {j.id} ELSE unchecked)
    BY <1>4, <1>7, <2>5 DEF Going
  <2> QED  BY <1>4, <1>5, <2>3, <2>4, <2>5, <2>6, PutInPlace
<1> QED  BY <1>6, <1>7

(* A save begins, with a number nobody has had.                            *)
LEMMA WriteTempKept == ASSUME StageSound, MediaInv, NEW v \in Saves, NEW size \in scene.media.sizes, WriteTemp(v, size) PROVE MediaInv'
<1>0. v \in Keepers /\ Cleaner \in Keepers /\ Cleaner # v  BY FilingAssumption DEF Keepers
<1>1. FilesSound /\ DOMAIN keeping = Keepers /\ QuotaKept /\ CleanerSound /\ IdsApart /\ Named /\ KeeperSound(keeping[v])  BY <1>0, KeeperIs DEF MediaInv
<1>2. Spend("save")  BY DEF WriteTemp
<1>3. ~Numbered(Spent("save") + 1) /\ \E n \in Nat : n = Spent("save") + 1 /\ Numbered(n)'  BY <1>2, NumberedNext
<1>4. PICK n \in Nat : n = Spent("save") + 1 /\ Numbered(n)'  BY <1>3
<1>5. StageStep  BY <1>2, SpendsStage DEF Spends
<1>6. scene' = scene /\ scene \in Scenes  BY <1>5 DEF StageStep, StageSound
<1>7. \A m : Numbered(m) => Numbered(m)' /\ m # n
  <2>1. \A m : Numbered(m) => Numbered(m)'  BY <1>5, NumberedStill
  <2> QED  BY <1>3, <1>4, <2>1
<1>8. PICK k : k = [NoKeeping EXCEPT !.at = "written", !.id = n, !.size = size]  OBVIOUS
<1>9. /\ keeping[v].at = "off" /\ keeping' = [keeping EXCEPT ![v] = k] /\ UNCHANGED <<media, cited, unchecked, lapsed>>
      /\ (scene.media.buffered /\ ioSlot = None /\ ioSlot' = v) \/ ioSlot' = ioSlot
  BY <1>4, <1>8 DEF WriteTemp, Going
<1>10. /\ DOMAIN k = DOMAIN NoKeeping /\ k.at = "written" /\ k.id = n /\ k.size = size /\ k.seen = {} /\ k.list = {} /\ k.gone = {}
       /\ k.bytes = 0 /\ k.files = 0
  BY <1>8 DEF NoKeeping
<1>11. size \in Nat  BY <1>6, FilingAssumption
<1>12. KeeperSound(k)  BY <1>10, <1>11 DEF KeeperSound
<1>13. DOMAIN keeping' = Keepers /\ keeping'[v] = k /\ (\A q \in Keepers \ {v} : keeping'[q] = keeping[q]) /\ \A q \in Keepers : KeeperSound(keeping[q])'
  BY <1>0, <1>1, <1>7, <1>9, <1>12, KeeperGoes DEF MediaInv
<1>14. FilesSound'
  <2>1. PICK born : temps' = temps \cup {[id |-> n, born |-> born]}  BY <1>4 DEF WriteTemp
  <2>2. \A t \in temps : t.id # n  BY <1>1, <1>7 DEF FilesSound
  <2>3. \A t \in temps' : Numbered(t.id)'  BY <1>1, <1>4, <1>7, <2>1 DEF FilesSound
  <2>4. \A t, u \in temps' : t.id = u.id => t = u
    <3>1. \A t \in temps' : t \in temps \/ (t = [id |-> n, born |-> born] /\ t.id = n)  BY <2>1
    <3> QED  BY <1>1, <2>2, <3>1, Zenon DEF FilesSound
  <2> QED  BY <1>1, <1>7, <1>9, <2>3, <2>4 DEF FilesSound
<1>15. IdsApart'
  <2>1. \A w \in Saves \ {v} : w \in Keepers /\ keeping'[w] = keeping[w]  BY <1>13 DEF Keepers
  <2>2. \A w \in Saves \ {v} : keeping[w].at # "off" => Numbered(keeping[w].id) /\ keeping[w].id \notin cited  BY <1>1 DEF IdsApart, Saving
  <2>3. n \notin cited /\ (\A f \in media : f.id # n) /\ \A q \in Keepers : n \notin keeping[q].seen
    BY <1>1, <1>7 DEF FilesSound, MediaInv, KeeperSound
  <2>4. \A w \in Saves : keeping'[w].at # "off" => Numbered(keeping[w].id)' /\ keeping'[w].id \notin cited'
    <3> SUFFICES ASSUME NEW w \in Saves, keeping'[w].at # "off" PROVE Numbered(keeping[w].id)' /\ keeping'[w].id \notin cited'  OBVIOUS
    <3>1. PICK m : m = keeping'[w].id  OBVIOUS
    <3>2. Numbered(m)' /\ m \notin cited'
      <4>1. CASE w = v  BY <1>4, <1>9, <1>10, <1>13, <2>3, <3>1, <4>1
      <4>2. CASE w # v
        <5>1. m = keeping[w].id /\ keeping[w].at # "off"  BY <2>1, <3>1, <4>2
        <5>2. Numbered(m) /\ m \notin cited  BY <2>2, <4>2, <5>1
        <5> QED  BY <1>7, <1>9, <5>2
      <4> QED  BY <4>1, <4>2
    <3> QED  BY <3>1, <3>2 DEF Numbered
  <2>5. \A w, u \in Saves : keeping'[w].at # "off" /\ keeping'[u].at # "off" /\ keeping'[w].id = keeping'[u].id => w = u
    <3>1. \A w \in Saves \ {v} : keeping'[w].at # "off" => keeping'[w].id # n  BY <1>7, <2>1, <2>2
    <3>2. keeping'[v].id = n  BY <1>10, <1>13
    <3>3. \A w, u \in Saves \ {v} : keeping'[w].at # "off" /\ keeping'[u].at # "off" /\ keeping'[w].id = keeping'[u].id => w = u
      BY <1>1, <2>1 DEF IdsApart, Saving
    <3> QED  BY <3>1, <3>2, <3>3
  <2>6. \A q \in Keepers : keeping'[q].seen \subseteq keeping[q].seen  BY <1>10, <1>13
  <2>7. \A w \in Saves : keeping'[w].at \notin {"off", "saved"} => (\A f \in media' : f.id # keeping'[w].id) /\ \A q \in Keepers : keeping'[w].id \notin keeping'[q].seen
    <3> SUFFICES ASSUME NEW w \in Saves, keeping'[w].at \notin {"off", "saved"}
                 PROVE  (\A f \in media : f.id # keeping'[w].id) /\ \A q \in Keepers : keeping'[w].id \notin keeping[q].seen
      BY <1>9, <2>6
    <3>1. CASE w = v  BY <1>10, <1>13, <2>3, <3>1
    <3>2. CASE w # v
      <4>1. Unplaced(w) /\ keeping'[w].id = keeping[w].id  BY <2>1, <3>2 DEF Unplaced
      <4> QED  BY <1>1, <4>1 DEF IdsApart
    <3> QED  BY <3>1, <3>2
  <2> QED  BY <2>4, <2>5, <2>7 DEF IdsApart, Saving, Unplaced, Numbered
<1>16. ASSUME NEW w \in Saves PROVE SaverSound(w)'
  <2>1. CASE w = v  BY <1>10, <1>13, <2>1, SaverIdle
  <2>2. CASE w # v
    <3>1. keeping'[w] = keeping[w] /\ KeeperSound(keeping[w]) /\ SaverSound(w)  BY <1>13, <2>2 DEF Keepers, MediaInv
    <3>2. InSlot(keeping[w]) => ioSlot' = w  BY <1>9, <3>1, FilingAssumption DEF SaverSound
    <3> QED  BY <1>1, <1>6, <1>9, <3>1, <3>2, SaverStill DEF KeeperSound
  <2> QED  BY <2>1, <2>2
<1>17. CleanerSound'
  <2>1. keeping'[Cleaner] = keeping[Cleaner] /\ keeping[Cleaner].bytes \in Int /\ keeping[Cleaner].files \in Int  BY <1>0, <1>13 DEF MediaInv, KeeperSound
  <2> QED  BY <1>1, <1>9, <2>1, CleanerStill
<1>18. QuotaKept'  BY <1>1, <1>6, <1>9, QuotaLess
<1>19. Named'
  <2>1. keeping[v].gone = {}  BY <1>1, <1>9 DEF KeeperSound
  <2> QED  BY <1>0, <1>9, <2>1, NamesKept
<1> QED  BY <1>13, <1>14, <1>15, <1>16, <1>17, <1>18, <1>19 DEF MediaInv

LEMMA LoseKeepingKept == ASSUME StageSound, MediaInv, LoseKeeping PROVE MediaInv'
<1>0. Cleaner \in Keepers /\ Saves \subseteq Keepers  BY DEF Keepers
<1>1. FilesSound /\ DOMAIN keeping = Keepers /\ QuotaKept /\ Named  BY <1>0, KeeperIs DEF MediaInv
<1>2. Spends /\ DOMAIN keeping' = Keepers /\ (\A r \in Keepers : keeping'[r] = NoKeeping) /\ UNCHANGED <<media, temps, cited, unchecked>>
      /\ lapsed' = lapsed \cup UNION {keeping[r].gone : r \in Keepers}
  BY <1>1 DEF LoseKeeping, Spends
<1>3. StageStep /\ scene' = scene /\ scene \in Scenes  BY <1>2, SpendsStage DEF StageStep, StageSound
<1>4. \A n : Numbered(n) => Numbered(n)'  BY <1>3, NumberedStill
<1>5. FilesSound'  BY <1>1, <1>2, <1>4, FilesLess
<1>6. PICK k : k = NoKeeping  OBVIOUS
<1>7. KeeperSound(k) /\ k.at = "off" /\ k.seen = {}  BY <1>6, IdleSound
<1>8. \A r \in Keepers : keeping'[r] = k  BY <1>2, <1>6
<1>9. ASSUME NEW r \in Keepers PROVE KeeperSound(keeping[r])'
  <2>1. keeping'[r] = NoKeeping  BY <1>2
  <2> QED  BY <2>1 DEF KeeperSound, NoKeeping
<1>10. IdsApart'  BY <1>0, <1>7, <1>8 DEF IdsApart, Saving, Unplaced
<1>11. \A v \in Saves : SaverSound(v)'  BY <1>0, <1>7, <1>8, SaverIdle
<1>12. CleanerSound'  BY <1>0, <1>7, <1>8, CleanerIs
<1>13. QuotaKept'  BY <1>1, <1>2, <1>3, QuotaLess
<1>14. Named'  BY <1>1, <1>2 DEF Named
<1> QED  BY <1>2, <1>5, <1>9, <1>10, <1>11, <1>12, <1>13, <1>14 DEF MediaInv

LEMMA MediaWaits == ASSUME StageSound, MediaInv, StageStep, UNCHANGED mediaVars PROVE MediaInv'
<1>1. UNCHANGED <<media, temps, totals, keeping, ioSlot, cited, unchecked, lapsed>> /\ scene' = scene  BY DEF mediaVars, StageStep
<1>2. \A n : Numbered(n) => Numbered(n)'  BY NumberedStill
<1>3. FilesSound'  BY <1>1, <1>2, FilesLess DEF MediaInv
<1>4. ASSUME NEW r \in Keepers PROVE KeeperSound(keeping[r])'
  <2>1. PICK j : j = keeping[r]  OBVIOUS
  <2>2. KeeperSound(j)  BY <2>1 DEF MediaInv
  <2>3. /\ DOMAIN j = DOMAIN NoKeeping /\ j.size \in Nat /\ j.bytes \in Int /\ j.files \in Int
        /\ \A n \in j.seen : Numbered(n)'
        /\ \A f \in j.list : Numbered(f.id)' /\ f.size \in Nat
        /\ j.at = "evicting" => \A f \in j.list : f.id \in j.seen
        /\ j.at \in {"off", "written", "placing", "saved"} => j.gone = {}
    BY <1>2, <2>2 DEF KeeperSound
  <2>4. keeping'[r] = j  BY <1>1, <2>1
  <2> QED  BY <2>3, <2>4 DEF KeeperSound
<1>5. IdsApart'
  <2>1. IdsApart  BY DEF MediaInv
  <2>2. \A v \in Saves : Saving(v) => Numbered(keeping[v].id)'
    <3> SUFFICES ASSUME NEW v \in Saves, Saving(v) PROVE Numbered(keeping[v].id)'  OBVIOUS
    <3>1. PICK n : n = keeping[v].id  OBVIOUS
    <3>2. Numbered(n)'  BY <1>2, <2>1, <3>1 DEF IdsApart
    <3> QED  BY <1>1, <3>1, <3>2 DEF Numbered
  <2> QED  BY <1>1, <2>1, <2>2 DEF IdsApart, Saving, Unplaced
<1>6. \A v \in Saves : SaverSound(v)'  BY <1>1 DEF MediaInv, SaverSound, Within, InSlot, Counting, Fitting, Quota, Most
<1>7. CleanerSound' /\ QuotaKept' /\ Named'  BY <1>1 DEF MediaInv, CleanerSound, SeenBy, QuotaKept, Named, Quota, Most
<1> QED  BY <1>1, <1>3, <1>4, <1>5, <1>6, <1>7 DEF MediaInv

LEMMA MediaSpends == ASSUME MediaNext PROVE Spends \/ (Tick /\ UNCHANGED mediaVars)
<1>1. ASSUME NEW v, NEW size, WriteTemp(v, size) PROVE Spends  BY <1>1 DEF WriteTemp, Spends
<1>2. ASSUME NEW v, AskQuota(v) \/ Place(v) \/ NameFile(v) \/ Discard(v) PROVE Spends  BY <1>2 DEF AskQuota, Place, NameFile, Discard, Spends
<1>3. ASSUME NEW r, Evict(r) PROVE Spends  BY <1>3, Zenon DEF Evict, Delete, Spends
<1>4. ASSUME NEW r, EndScan(r) \/ ClearNames(r) \/ GiveUpKeeping(r) PROVE Spends  BY <1>4 DEF EndScan, ClearNames, GiveUpKeeping, Spends
<1>5. ASSUME DeleteAged PROVE Spends  BY <1>5, Zenon DEF DeleteAged, Delete, Spends
<1>6. ASSUME StartCleaning \/ CheckQuota \/ LoseKeeping PROVE Spends  BY <1>6 DEF StartCleaning, CheckQuota, LoseKeeping, Spends
<1> QED  BY <1>1, <1>2, <1>3, <1>4, <1>5, <1>6, Zenon DEF MediaNext

LEMMA MediaStep == ASSUME StageSound, MediaInv, MediaNext PROVE StageSound' /\ MediaInv'
<1>1. CASE Tick /\ UNCHANGED mediaVars
  <2>1. /\ StageSound' /\ now' = now + 1 /\ DOMAIN left' = DOMAIN left
        /\ \A k \in DOMAIN left : left'[k] = IF k = "tick" THEN left[k] - 1 ELSE left[k]
    BY <1>1, Ticking
  <2>2. scene' = scene /\ now \in Nat /\ \A k \in DOMAIN left : left[k] \in Nat  BY <1>1 DEF Tick, StageSound
  <2>3. StageStep
    <3>1. \A k \in DOMAIN left : left'[k] \in Nat /\ left'[k] <= left[k]  BY <2>1, <2>2 DEF StageSound
    <3> QED  BY <2>1, <2>2, <3>1 DEF StageStep
  <2> QED  BY <1>1, <2>1, <2>3, MediaWaits
<1>2. CASE ~(Tick /\ UNCHANGED mediaVars)
  <2>1. StageSound'  BY <1>2, MediaSpends, SpendsStage
  <2>2. DOMAIN keeping = Keepers  BY DEF MediaInv
  <2>3. ASSUME NEW v \in Saves, (\E size \in scene.media.sizes : WriteTemp(v, size)) \/ AskQuota(v) \/ Place(v) \/ NameFile(v) \/ Discard(v) PROVE MediaInv'
    BY <2>3, WriteTempKept, AskQuotaKept, PlaceKept, NameFileKept, DiscardKept
  <2>4. ASSUME NEW r \in Keepers, Evict(r) \/ EndScan(r) \/ ClearNames(r) \/ GiveUpKeeping(r) PROVE MediaInv'
    BY <2>4, EvictKept, EndScanKept, ClearNamesKept, GiveUpKeepingKept
  <2>5. ASSUME StartCleaning \/ DeleteAged \/ CheckQuota \/ LoseKeeping PROVE MediaInv'
    BY <2>5, StartCleaningKept, DeleteAgedKept, CheckQuotaKept, LoseKeepingKept
  <2> QED  BY <1>2, <2>1, <2>2, <2>3, <2>4, <2>5, Zenon DEF MediaNext
<1> QED  BY <1>1, <1>2

LEMMA MediaFollow == ASSUME MediaInv PROVE QuotaKept /\ NamesTrue
<1>1. \A n \in cited : (\E f \in media : f.id = n) \/ n \in lapsed \/ \E r \in DOMAIN keeping : n \in keeping[r].gone  BY DEF MediaInv, Named
<1>2. ASSUME NEW n \in cited PROVE n \in Ids(media) \cup lapsed \cup UNION {keeping[r].gone : r \in DOMAIN keeping}
  <2>1. CASE \E f \in media : f.id = n  BY <2>1 DEF Ids
  <2>2. CASE \E r \in DOMAIN keeping : n \in keeping[r].gone  BY <2>2
  <2> QED  BY <1>1, <2>1, <2>2
<1> QED  BY <1>2 DEF MediaInv, NamesTrue

(* The scenes of other parts leave the directory empty.                    *)
Unsaved == media = {} /\ cited = {}

LEMMA NothingCounted == ASSUME scene \in Scenes, media = {} PROVE QuotaKept
<1>1. {f \in media : f.id \notin unchecked} = {}  OBVIOUS
<1>2. Cardinality({}) = 0  BY FS_EmptySet
<1>3. Quota \in Int /\ Most \in Nat  BY FilingAssumption DEF Quota, Most
<1>4. PICK S : S = {f \in media : f.id \notin unchecked}  OBVIOUS
<1>5. Bytes(S) = 0 /\ Cardinality(S) = 0  BY <1>1, <1>2, <1>4, BytesEmpty
<1>6. (Quota >= 0 => Bytes(S) <= Quota) /\ Cardinality(S) <= Most  BY <1>3, <1>5
<1> QED  BY <1>4, <1>6 DEF QuotaKept
-----------------------------------------------------------------------------
FilingInv ==
  /\ scene \in Scenes
  /\ scene.part = "filing" => StageSound /\ HistoryInv
  /\ scene.part # "filing" => Unfiled
  /\ scene.part = "media" => StageSound /\ MediaInv
  /\ scene.part # "media" => Unsaved

LEMMA UnfiledStays == ASSUME Unfiled, UNCHANGED filingVars, scene' = scene PROVE Unfiled'
BY Zenon DEF Unfiled, filingVars

LEMMA UnsavedStays == ASSUME Unsaved, UNCHANGED mediaVars PROVE Unsaved'
BY Zenon DEF Unsaved, mediaVars

LEMMA FilingFollow == ASSUME FilingInv PROVE FilingTrue
<1>1. HistoryFiled  BY HistoryFollow, UnfiledFollow DEF FilingInv
<1>2. QuotaKept /\ NamesTrue
  <2>1. CASE scene.part = "media"  BY <2>1, MediaFollow DEF FilingInv
  <2>2. CASE scene.part # "media"  BY <2>2, NothingCounted DEF FilingInv, Unsaved, NamesTrue
  <2> QED  BY <2>1, <2>2
<1> QED  BY <1>1, <1>2 DEF FilingTrue
-----------------------------------------------------------------------------
(***************************************************************************)
(* Semaphores.  A queue in which nobody waits twice; what the first in it  *)
(* want, however much each wants; and what a release leaves.               *)
(***************************************************************************)
Distinct(q) == \A i, j \in 1 .. Len(q) : q[i].who = q[j].who => i = j
Waiting(q) == {q[i].who : i \in 1 .. Len(q)}

(* As many are woken, where nobody waits twice. *)
LEMMA WokenCounted ==
  ASSUME NEW q, Len(q) \in Nat, \A i, j \in 1 .. Len(q) : q[i].who = q[j].who => i = j, NEW n \in 0 .. Len(q)
  PROVE  IsFiniteSet({q[i].who : i \in 1 .. n}) /\ Cardinality({q[i].who : i \in 1 .. n}) = n
<1> DEFINE T(m) == {q[i].who : i \in 1 .. m}
           S == {m \in Nat : m <= Len(q) => IsFiniteSet(T(m)) /\ Cardinality(T(m)) = m}
<1>1. 0 \in S
  <2>1. T(0) = {}  OBVIOUS
  <2> HIDE DEF T
  <2> QED  BY <2>1, FS_EmptySet
<1>2. \A m \in Nat : m \in S => m + 1 \in S
  <2> SUFFICES ASSUME NEW m \in Nat, m \in S, m + 1 <= Len(q) PROVE IsFiniteSet(T(m + 1)) /\ Cardinality(T(m + 1)) = m + 1
    <3> HIDE DEF T
    <3> QED  OBVIOUS
  <2>1. T(m + 1) = T(m) \cup {q[m + 1].who}
    <3>1. \A i : i \in 1 .. m + 1 <=> i \in 1 .. m \/ i = m + 1  OBVIOUS
    <3> QED  BY <3>1
  <2>2. q[m + 1].who \notin T(m)  OBVIOUS
  <2>3. IsFiniteSet(T(m)) /\ Cardinality(T(m)) = m
    <3> HIDE DEF T
    <3> QED  OBVIOUS
  <2> HIDE DEF T, S
  <2> DEFINE U == T(m) \cup {q[m + 1].who}
  <2>4. IsFiniteSet(U) /\ Cardinality(U) = Cardinality(T(m)) + 1  BY <2>2, <2>3, FS_AddElement
  <2> HIDE DEF U
  <2>5. T(m + 1) = U  BY <2>1 DEF U
  <2> QED  BY <2>3, <2>4, <2>5
<1>3. n \in S
  <2> HIDE DEF S
  <2> QED  BY <1>1, <1>2, NumbersReached
<1> QED  BY <1>3

(* A set that loses one and gains others. *)
LEMMA Exchanged ==
  ASSUME NEW H, IsFiniteSet(H), NEW w \in H, NEW U, IsFiniteSet(U), U \cap H = {}
  PROVE  IsFiniteSet((H \ {w}) \cup U) /\ Cardinality((H \ {w}) \cup U) = Cardinality(H) - 1 + Cardinality(U)
<1> DEFINE G == H \ {w}
<1>1. IsFiniteSet(G) /\ Cardinality(G) = Cardinality(H) - 1  BY FS_RemoveElement
<1>2. G \cap U = {}  OBVIOUS
<1>3. Cardinality(H) \in Nat /\ Cardinality(U) \in Nat  BY FS_CardinalityType
<1> HIDE DEF G
<1>4. Cardinality(G \cap U) = 0  BY <1>2, FS_EmptySet
<1>5. IsFiniteSet(G \cup U) /\ Cardinality(G \cup U) = Cardinality(G) + Cardinality(U) - Cardinality(G \cap U)  BY <1>1, FS_Union, Zenon
<1>6. IsFiniteSet(G \cup U) /\ Cardinality(G \cup U) = Cardinality(H) - 1 + Cardinality(U)  BY <1>1, <1>3, <1>4, <1>5
<1> QED  BY <1>6 DEF G

(* What is left behind the first n.                                        *)
LEMMA Behind ==
  ASSUME NEW W, NEW q \in Seq(W), Distinct(q), NEW n \in 0 .. Len(q)
  PROVE  /\ SubSeq(q, n + 1, Len(q)) \in Seq(W) /\ Distinct(SubSeq(q, n + 1, Len(q)))
         /\ Waiting(SubSeq(q, n + 1, Len(q))) = Waiting(q) \ {q[i].who : i \in 1 .. n}
<1> DEFINE r == SubSeq(q, n + 1, Len(q))
<1>1. Len(q) \in Nat /\ r \in Seq(W) /\ Len(r) = Len(q) - n /\ \A i \in 1 .. Len(q) - n : r[i] = q[n + i]  OBVIOUS
<1> HIDE DEF r
<1>2. Distinct(r)
  <2> SUFFICES ASSUME NEW i \in 1 .. Len(r), NEW j \in 1 .. Len(r), r[i].who = r[j].who PROVE i = j  BY DEF Distinct
  <2>1. n + i \in 1 .. Len(q) /\ n + j \in 1 .. Len(q) /\ q[n + i].who = q[n + j].who  BY <1>1
  <2>2. n + i = n + j  BY <2>1 DEF Distinct
  <2> QED  BY <1>1, <2>2
<1>3. ASSUME NEW x \in Waiting(r) PROVE x \in Waiting(q) \ {q[i].who : i \in 1 .. n}
  <2>1. PICK i \in 1 .. Len(r) : x = r[i].who  BY <1>3 DEF Waiting
  <2>2. n + i \in 1 .. Len(q) /\ x = q[n + i].who  BY <1>1, <2>1
  <2>3. x \in Waiting(q)  BY <2>2 DEF Waiting
  <2>4. ASSUME NEW j \in 1 .. n, x = q[j].who PROVE FALSE
    <3>1. j \in 1 .. Len(q) /\ j # n + i  BY <1>1, <2>1
    <3> QED  BY <2>2, <2>4, <3>1 DEF Distinct
  <2> QED  BY <2>3, <2>4
<1>4. ASSUME NEW x \in Waiting(q), x \notin {q[i].who : i \in 1 .. n} PROVE x \in Waiting(r)
  <2>1. PICK i \in 1 .. Len(q) : x = q[i].who  BY <1>4 DEF Waiting
  <2>2. i > n  BY <1>4, <2>1
  <2>3. i - n \in 1 .. Len(r) /\ r[i - n] = q[i]
    <3>1. i - n \in 1 .. Len(q) - n /\ n + (i - n) = i  BY <1>1, <2>2
    <3> QED  BY <1>1, <3>1
  <2> QED  BY <2>1, <2>3 DEF Waiting
<1> QED  BY <1>1, <1>2, <1>3, <1>4 DEF r

(* What is left without the one at p.                                      *)
LEMMA Without ==
  ASSUME NEW W, NEW q \in Seq(W), Distinct(q), NEW p \in 1 .. Len(q)
  PROVE  /\ RemoveAt(q, p) \in Seq(W) /\ Distinct(RemoveAt(q, p))
         /\ Waiting(RemoveAt(q, p)) = Waiting(q) \ {q[p].who}
<1> DEFINE r == RemoveAt(q, p)
           a == SubSeq(q, 1, p - 1)
           b == SubSeq(q, p + 1, Len(q))
<1>1. Len(q) \in Nat /\ a \in Seq(W) /\ Len(a) = p - 1 /\ \A i \in 1 .. p - 1 : a[i] = q[i]  OBVIOUS
<1>2. b \in Seq(W) /\ Len(b) = Len(q) - p /\ \A i \in 1 .. Len(q) - p : b[i] = q[p + i]  OBVIOUS
<1>3. r = a \o b  BY DEF RemoveAt
<1> HIDE DEF r, a, b
<1>4. r \in Seq(W) /\ Len(r) = Len(q) - 1  BY <1>1, <1>2, <1>3
<1>5. \A i \in 1 .. Len(r) : r[i] = IF i < p THEN q[i] ELSE q[i + 1]
  <2> SUFFICES ASSUME NEW i \in 1 .. Len(r) PROVE r[i] = IF i < p THEN q[i] ELSE q[i + 1]  OBVIOUS
  <2>1. CASE i < p  BY <1>1, <1>2, <1>3, <1>4, <2>1
  <2>2. CASE ~(i < p)
    <3>1. i - Len(a) \in 1 .. Len(b) /\ p + (i - Len(a)) = i + 1  BY <1>1, <1>2, <1>4, <2>2
    <3>2. r[i] = b[i - Len(a)]  BY <1>1, <1>2, <1>3, <1>4, <2>2
    <3> QED  BY <1>2, <2>2, <3>1, <3>2
  <2> QED  BY <2>1, <2>2
<1> DEFINE at(i) == IF i < p THEN i ELSE i + 1
<1>6. \A i \in 1 .. Len(r) : at(i) \in 1 .. Len(q) /\ at(i) # p /\ r[i] = q[at(i)]  BY <1>1, <1>4, <1>5
<1>7. Distinct(r)
  <2> SUFFICES ASSUME NEW i \in 1 .. Len(r), NEW j \in 1 .. Len(r), r[i].who = r[j].who PROVE i = j  BY DEF Distinct
  <2>1. at(i) = at(j)
    <3> HIDE DEF at
    <3> QED  BY <1>6 DEF Distinct
  <2> QED  BY <2>1, <1>4, <1>1
<1>8. ASSUME NEW x \in Waiting(r) PROVE x \in Waiting(q) \ {q[p].who}
  <2>1. PICK i \in 1 .. Len(r) : x = r[i].who  BY <1>8 DEF Waiting
  <2> HIDE DEF at
  <2>2. at(i) \in 1 .. Len(q) /\ at(i) # p /\ x = q[at(i)].who  BY <1>6, <2>1
  <2> QED  BY <2>2 DEF Waiting, Distinct
<1>9. ASSUME NEW x \in Waiting(q), x # q[p].who PROVE x \in Waiting(r)
  <2>1. PICK i \in 1 .. Len(q) : x = q[i].who  BY <1>9 DEF Waiting
  <2>2. i # p  BY <1>9, <2>1
  <2>3. CASE i < p
    <3>1. i \in 1 .. Len(r) /\ r[i] = q[i]  BY <1>1, <1>4, <1>5, <2>3
    <3> QED  BY <2>1, <3>1 DEF Waiting
  <2>4. CASE i > p
    <3>1. i - 1 \in 1 .. Len(r) /\ ~(i - 1 < p) /\ (i - 1) + 1 = i  BY <1>1, <1>4, <2>4
    <3>2. r[i - 1] = q[i]  BY <1>5, <3>1
    <3> QED  BY <2>1, <3>1, <3>2 DEF Waiting
  <2> QED  BY <2>2, <2>3, <2>4
<1> QED  BY <1>4, <1>7, <1>8, <1>9 DEF r

Partial(q, n, g) == g \in [0 .. n -> Nat] /\ g[0] = 0 /\ \A i \in 1 .. n : g[i] = g[i - 1] + q[i].permits
Wanting(q, W) == q \in Seq(W) /\ \A x \in W : x.permits \in Nat

LEMMA PartialSums == ASSUME NEW q, NEW W, Wanting(q, W) PROVE \E g : Partial(q, Len(q), g)
<1> DEFINE N == {n \in Nat : n <= Len(q) => \E g : Partial(q, n, g)}
<1>1. Len(q) \in Nat /\ \A i \in 1 .. Len(q) : q[i].permits \in Nat
  <2>1. \A i \in 1 .. Len(q) : q[i] \in W  BY DEF Wanting
  <2> QED  BY <2>1 DEF Wanting
<1>2. 0 \in N
  <2>1. PICK g : g = [i \in 0 .. 0 |-> 0]  OBVIOUS
  <2>2. Partial(q, 0, g)  BY <2>1 DEF Partial
  <2> QED  BY <2>2
<1>3. ASSUME NEW n \in Nat, n \in N PROVE n + 1 \in N
  <2> SUFFICES ASSUME n + 1 <= Len(q) PROVE \E h : Partial(q, n + 1, h)  OBVIOUS
  <2>1. PICK g : Partial(q, n, g)  BY <1>1, <1>3
  <2>2. PICK m \in Nat : m = g[n] + q[n + 1].permits
    <3>1. g[n] \in Nat /\ n + 1 \in 1 .. Len(q)  BY <2>1, <1>1 DEF Partial
    <3> QED  BY <3>1, <1>1
  <2>3. PICK h : h = [i \in 0 .. n + 1 |-> IF i <= n THEN g[i] ELSE m]  OBVIOUS
  <2>4. h \in [0 .. n + 1 -> Nat]  BY <2>1, <2>2, <2>3 DEF Partial
  <2>5. h[0] = 0  BY <2>1, <2>3 DEF Partial
  <2>6. ASSUME NEW i \in 1 .. n + 1 PROVE h[i] = h[i - 1] + q[i].permits
    <3>1. i - 1 \in 0 .. n + 1 /\ i \in 0 .. n + 1 /\ i - 1 <= n /\ i - 1 \in 0 .. n  OBVIOUS
    <3>2. h[i - 1] = g[i - 1]  BY <2>3, <3>1
    <3>3. CASE i <= n
      <4>1. h[i] = g[i] /\ i \in 1 .. n  BY <2>3, <3>1, <3>3
      <4> QED  BY <2>1, <3>2, <4>1 DEF Partial
    <3>4. CASE i = n + 1
      <4>1. h[i] = m /\ i - 1 = n  BY <2>3, <3>1, <3>4
      <4> QED  BY <2>2, <3>2, <3>4, <4>1
    <3> QED  BY <3>3, <3>4
  <2>7. Partial(q, n + 1, h)  BY <2>4, <2>5, <2>6 DEF Partial
  <2> QED  BY <2>7
<1>4. \A n \in Nat : n \in N
  <2> HIDE DEF N
  <2> QED  BY <1>2, <1>3, NumbersReached
<1> QED  BY <1>1, <1>4

(* What the first k want is the sum of theirs. *)
Summed(q, g) == g = [i \in 0 .. Len(q) |-> IF i = 0 THEN 0 ELSE g[i - 1] + q[i].permits]

LEMMA WantedSums ==
  ASSUME NEW s, NEW q, NEW W, Wanting(q, W), s.queue = q, NEW g, Partial(q, Len(q), g)
  PROVE  \A k \in 0 .. Len(q) : Wanted(s, k) = g[k]
<1>1. Len(q) \in Nat  BY DEF Wanting
<1>2. Summed(q, g)
  <2>1. \A i \in 0 .. Len(q) : g[i] = IF i = 0 THEN 0 ELSE g[i - 1] + q[i].permits  BY <1>1 DEF Partial
  <2>2. g = [i \in 0 .. Len(q) |-> g[i]]  BY DEF Partial
  <2> QED  BY <2>1, <2>2 DEF Summed
<1>3. ASSUME NEW h, Summed(q, h) PROVE \A k \in 0 .. Len(q) : h[k] = g[k]
  <2>1. \A i \in 0 .. Len(q) : h[i] = IF i = 0 THEN 0 ELSE h[i - 1] + q[i].permits  BY <1>3, Zenon DEF Summed
  <2>2. \A i \in 0 .. Len(q) : g[i] = IF i = 0 THEN 0 ELSE g[i - 1] + q[i].permits  BY <1>2, Zenon DEF Summed
  <2> DEFINE N == {n \in Nat : n <= Len(q) => h[n] = g[n]}
  <2>3. 0 \in N  BY <1>1, <2>1, <2>2
  <2>4. ASSUME NEW n \in Nat, n \in N PROVE n + 1 \in N
    <3> SUFFICES ASSUME n + 1 <= Len(q) PROVE h[n + 1] = g[n + 1]  OBVIOUS
    <3>1. n + 1 \in 0 .. Len(q) /\ n + 1 # 0 /\ (n + 1) - 1 = n /\ h[n] = g[n]  BY <1>1, <2>4
    <3>2. h[n + 1] = h[(n + 1) - 1] + q[n + 1].permits /\ g[n + 1] = g[(n + 1) - 1] + q[n + 1].permits  BY <2>1, <2>2, <3>1, Zenon
    <3> QED  BY <3>1, <3>2
  <2>5. \A n \in Nat : n \in N
    <3> HIDE DEF N
    <3> QED  BY <2>3, <2>4, NumbersReached
  <2> QED  BY <1>1, <2>5
<1>4. \A k : Wanted(s, k) = (CHOOSE h : Summed(q, h))[k]  BY DEF Wanted, Summed
<1>5. Summed(q, CHOOSE h : Summed(q, h))  BY <1>2, Zenon
<1> QED  BY <1>3, <1>4, <1>5

(* The largest of some numbers up to n. *)
LEMMA Largest ==
  ASSUME NEW n \in Nat, NEW K, K \subseteq 0 .. n, K # {}
  PROVE  Max(K) \in K
<1> DEFINE T == {m \in Nat : n - m \in K}
<1>1. T \subseteq Nat /\ T # {}
  <2>1. PICK k : k \in K  OBVIOUS
  <2>2. n - k \in Nat /\ n - (n - k) = k  BY <2>1
  <2>3. n - k \in T  BY <2>1, <2>2
  <2> QED  BY <2>3
<1>2. PICK x \in T : \A y \in T : x <= y  BY <1>1, Least
<1>3. n - x \in K /\ \A y \in K : n - x >= y
  <2>1. ASSUME NEW y \in K PROVE n - x >= y
    <3>1. n - y \in Nat /\ n - (n - y) = y /\ y \in Nat  OBVIOUS
    <3>2. n - y \in T  BY <3>1
    <3>3. x <= n - y  BY <1>2, <3>2
    <3> QED  BY <1>2, <3>1, <3>3
  <2> QED  BY <1>2, <2>1
<1>4. \E z \in K : \A y \in K : z >= y  BY <1>3
<1>5. (CHOOSE z \in K : \A y \in K : z >= y) \in K  BY <1>4, Zenon
<1> QED  BY <1>5 DEF Max

(* A release serves the first k, who want g[k].                            *)
Gives(s, q, n, k, g) ==
  /\ Partial(q, Len(q), g) /\ k \in 0 .. Len(q) /\ g[k] <= s.free + n
  /\ Release(s, n) = [free |-> s.free + n - g[k], queue |-> SubSeq(q, k + 1, Len(q))]
  /\ Woken(s, n) = {q[i].who : i \in 1 .. k}

LEMMA Releasing ==
  ASSUME NEW s, NEW q, NEW W, Wanting(q, W), s.queue = q, s.free \in Nat, NEW n \in Nat \ {0}
  PROVE  \E k, g : Gives(s, q, n, k, g)
<1>1. PICK g : Partial(q, Len(q), g)  BY PartialSums
<1>2. \A k \in 0 .. Len(q) : Wanted(s, k) = g[k]  BY <1>1, WantedSums, ZenonT(60)
<1>3. PICK K : K = {k \in 0 .. Len(s.queue) : Wanted(s, k) <= s.free + n}  OBVIOUS
<1>4. Len(q) \in Nat /\ K \subseteq 0 .. Len(q)  BY <1>3 DEF Wanting
<1>5. 0 \in K  BY <1>1, <1>2, <1>3, <1>4 DEF Partial
<1>6. PICK k : k = Satisfied(s, n)  OBVIOUS
<1>7. k \in K  BY <1>3, <1>4, <1>5, <1>6, Largest DEF Satisfied
<1>8. k \in 0 .. Len(q) /\ g[k] <= s.free + n /\ Wanted(s, k) = g[k]  BY <1>2, <1>3, <1>7
<1>9. Release(s, n) = [free |-> s.free + n - g[k], queue |-> SubSeq(q, k + 1, Len(q))]
  <2>1. n # 0  OBVIOUS
  <2>2. Release(s, n) = [free |-> s.free + n - Wanted(s, Satisfied(s, n)), queue |-> SubSeq(s.queue, Satisfied(s, n) + 1, Len(s.queue))]
    BY <2>1, Zenon DEF Release
  <2> QED  BY <1>6, <1>8, <2>2, Zenon
<1>10. Woken(s, n) = {q[i].who : i \in 1 .. k}
  <2>1. n # 0  OBVIOUS
  <2>2. Woken(s, n) = {s.queue[i].who : i \in 1 .. Satisfied(s, n)}  BY <2>1 DEF Woken
  <2> QED  BY <1>6, <2>2
<1> QED  BY <1>1, <1>8, <1>9, <1>10 DEF Gives

(* Where each wants one permit, k of them want k. *)
LEMMA UnitsSummed ==
  ASSUME NEW q, Len(q) \in Nat, \A i \in 1 .. Len(q) : q[i].permits = 1, NEW g, Partial(q, Len(q), g)
  PROVE  \A k \in 0 .. Len(q) : g[k] = k
<1> DEFINE N == {n \in Nat : n <= Len(q) => g[n] = n}
<1>1. 0 \in N  BY DEF Partial
<1>2. ASSUME NEW n \in Nat, n \in N PROVE n + 1 \in N
  <2> SUFFICES ASSUME n + 1 <= Len(q) PROVE g[n + 1] = n + 1  OBVIOUS
  <2>1. n + 1 \in 1 .. Len(q) /\ (n + 1) - 1 = n /\ g[n] = n  BY <1>2
  <2>2. g[n + 1] = g[(n + 1) - 1] + q[n + 1].permits  BY <2>1 DEF Partial
  <2> QED  BY <2>1, <2>2
<1>3. \A n \in Nat : n \in N
  <2> HIDE DEF N
  <2> QED  BY <1>1, <1>2, NumbersReached
<1> QED  BY <1>3

(* What they hold once those in T have what they want. *)
Fed(held, wants, T) == [x \in DOMAIN held |-> IF x \in T THEN held[x] + wants[x] ELSE held[x]]
Ahead(q, k) == {q[i].who : i \in 1 .. k}

AsksFor(q, D, wants) == \A i \in 1 .. Len(q) : q[i].who \in D /\ q[i].permits = wants[q[i].who]

LEMMA FedTotal ==
  ASSUME NEW D, IsFiniteSet(D), NEW held \in [D -> Nat], NEW wants \in [D -> Nat],
         NEW q, Len(q) \in Nat, Distinct(q), AsksFor(q, D, wants),
         NEW g, Partial(q, Len(q), g)
  PROVE  \A k \in 0 .. Len(q) : Fed(held, wants, Ahead(q, k)) \in [D -> Nat] /\ Total(Fed(held, wants, Ahead(q, k)), D) = Total(held, D) + g[k]
<1> DEFINE F(k) == Fed(held, wants, Ahead(q, k))
           N == {n \in Nat : n <= Len(q) => Total(F(n), D) = Total(held, D) + g[n]}
<1>0. Total(held, D) \in Int
  <2>1. Weights(held, D)  BY DEF Weights
  <2> QED  BY <2>1, TotalType
<1>1. \A k : F(k) \in [D -> Nat] /\ \A x \in D : F(k)[x] = IF x \in Ahead(q, k) THEN held[x] + wants[x] ELSE held[x]  BY DEF Fed
<1>2. 0 \in N
  <2>1. Ahead(q, 0) = {}  BY DEF Ahead
  <2>2. \A x \in D : F(0)[x] = held[x]  BY <1>1, <2>1
  <2>3. Weights(held, D) /\ Agree(F(0), held, D)  BY <2>2 DEF Weights, Agree
  <2>4. Total(F(0), D) = Total(held, D)  BY <2>3, TotalAgrees
  <2> QED  BY <1>0, <2>4 DEF Partial
<1>3. ASSUME NEW n \in Nat, n \in N PROVE n + 1 \in N
  <2> SUFFICES ASSUME n + 1 <= Len(q) PROVE Total(F(n + 1), D) = Total(held, D) + g[n + 1]  OBVIOUS
  <2>1. PICK e \in D : e = q[n + 1].who /\ q[n + 1].permits = wants[e]  BY DEF AsksFor
  <2>2. \A x : x \in Ahead(q, n + 1) <=> x \in Ahead(q, n) \/ x = e
    <3>1. \A i : i \in 1 .. n + 1 <=> i \in 1 .. n \/ i = n + 1  OBVIOUS
    <3> QED  BY <2>1, <3>1 DEF Ahead
  <2>3. e \notin Ahead(q, n)
    <3> SUFFICES ASSUME NEW i \in 1 .. n, e = q[i].who PROVE FALSE  BY DEF Ahead
    <3>1. i \in 1 .. Len(q) /\ n + 1 \in 1 .. Len(q) /\ i # n + 1  OBVIOUS
    <3> QED  BY <2>1, <3>1 DEF Distinct
  <2>4. PICK u, v : u = F(n) /\ v = F(n + 1)  OBVIOUS
  <2>5. u \in [D -> Nat] /\ v \in [D -> Nat] /\ u[e] = held[e] /\ v[e] = held[e] + wants[e] /\ \A x \in D \ {e} : v[x] = u[x]
    <3> HIDE DEF F
    <3> QED  BY <1>1, <2>2, <2>3, <2>4
  <2>6. Weights(u, D) /\ v[e] \in Int  BY <2>5 DEF Weights
  <2>12. \A x \in D \ {e} : v[x] = u[x]  BY <2>5
  <2>7. Total(v, D) = Total(u, D) + v[e] - u[e] /\ Total(u, D) \in Int
    <3>1. IsFiniteSet(D)  OBVIOUS
    <3> HIDE DEF F
    <3> QED  BY <2>6, <2>12, <3>1, TotalChanges, Zenon
  <2>8. Total(u, D) = Total(held, D) + g[n]
    <3> HIDE DEF F
    <3> QED  BY <1>3, <2>4
  <2>9. n + 1 \in 1 .. Len(q) /\ (n + 1) - 1 = n /\ n \in 0 .. Len(q)  OBVIOUS
  <2>10. g[n + 1] = g[n] + wants[e] /\ g[n] \in Nat
    <3>1. g[n + 1] = g[(n + 1) - 1] + q[n + 1].permits  BY <2>9 DEF Partial
    <3> QED  BY <2>1, <2>9, <3>1 DEF Partial
  <2>11. held[e] \in Nat /\ wants[e] \in Nat  OBVIOUS
  <2> QED  BY <1>0, <2>4, <2>5, <2>7, <2>8, <2>10, <2>11
<1>4. \A n \in Nat : n \in N
  <2> HIDE DEF N
  <2> QED  BY <1>2, <1>3, NumbersReached
<1> QED  BY <1>1, <1>4
LEMMA AheadCounted ==
  ASSUME NEW q, Len(q) \in Nat, Distinct(q), NEW k \in 0 .. Len(q)
  PROVE  IsFiniteSet(Ahead(q, k)) /\ Cardinality(Ahead(q, k)) = k
BY WokenCounted DEF Ahead, Distinct

LEMMA AheadWait ==
  ASSUME NEW q, Len(q) \in Nat, NEW k \in 0 .. Len(q)
  PROVE  Ahead(q, k) \subseteq Waiting(q)
<1>1. \A i \in 1 .. k : i \in 1 .. Len(q)  OBVIOUS
<1> QED  BY <1>1 DEF Ahead, Waiting

(* All but one of the numbers agree. *)
Differ(v, w, S, e) == \A x \in S \ {e} : v[x] = w[x]

LEMMA OneChanges ==
  ASSUME NEW w, NEW S, IsFiniteSet(S), Weights(w, S), NEW e \in S, NEW v, v[e] \in Int, Differ(v, w, S, e)
  PROVE  /\ Weights(v, S) /\ Total(v, S) \in Int /\ Total(w, S) \in Int /\ w[e] \in Int
         /\ Total(v, S) = Total(w, S) + v[e] - w[e]
<1>1. \A x \in S \ {e} : v[x] = w[x]  BY DEF Differ
<1> QED  BY <1>1, TotalChanges

LEMMA QueueJoined ==
  ASSUME NEW S, NEW q \in Seq(S), Distinct(q), NEW x \in S, x.who \notin Waiting(q)
  PROVE  /\ Append(q, x) \in Seq(S) /\ Distinct(Append(q, x)) /\ Waiting(Append(q, x)) = Waiting(q) \cup {x.who}
         /\ Len(q) \in Nat /\ Len(Append(q, x)) = Len(q) + 1 /\ Append(q, x)[Len(q) + 1] = x /\ \A i \in 1 .. Len(q) : Append(q, x)[i] = q[i]
<1>1. PICK r : r = Append(q, x)  OBVIOUS
<1>2. r \in Seq(S) /\ Len(r) = Len(q) + 1 /\ Len(q) \in Nat /\ r[Len(q) + 1] = x /\ \A i \in 1 .. Len(q) : r[i] = q[i]  BY <1>1
<1>3. \A i : i \in 1 .. Len(r) <=> i \in 1 .. Len(q) \/ i = Len(q) + 1  BY <1>2
<1>4. \A i \in 1 .. Len(q) : q[i].who # x.who  BY DEF Waiting
<1>5. Distinct(r)  BY <1>2, <1>3, <1>4 DEF Distinct
<1>6. Waiting(r) = Waiting(q) \cup {x.who}  BY <1>2, <1>3 DEF Waiting
<1> QED  BY <1>1, <1>2, <1>5, <1>6

(* A semaphore of which those in H hold one permit each, and those in W    *)
(* wait for one.                                                           *)
OneEach(D) == [who : D, permits : {1}]
AnyNumber(D) == [who : D, permits : Nat]

Singly(s, most, D, H, W) ==
  /\ DOMAIN s = {"free", "queue"} /\ s.free \in Nat /\ s.queue \in Seq(OneEach(D))
  /\ Distinct(s.queue) /\ Waiting(s.queue) = W
  /\ IsFiniteSet(H) /\ s.free + Cardinality(H) = most

LEMMA SinglyTaken ==
  ASSUME NEW s, NEW most, NEW D, NEW H, NEW W, Singly(s, most, D, H, W), NEW d \in D, d \notin H, CanTake(s, 1)
  PROVE  Singly(Take(s, 1), most, D, H \cup {d}, W)
<1>1. PICK t : t = Take(s, 1)  OBVIOUS
<1>2. DOMAIN t = {"free", "queue"} /\ t.free = s.free - 1 /\ t.queue = s.queue /\ s.free >= 1 /\ s.free \in Nat  BY <1>1 DEF Singly, Take, CanTake
<1>3. IsFiniteSet(H \cup {d}) /\ Cardinality(H \cup {d}) = Cardinality(H) + 1 /\ Cardinality(H) \in Nat  BY FS_AddElement, FS_CardinalityType DEF Singly
<1>4. t.free \in Nat /\ t.free + Cardinality(H \cup {d}) = most  BY <1>2, <1>3 DEF Singly
<1>5. Singly(t, most, D, H \cup {d}, W)  BY <1>2, <1>3, <1>4 DEF Singly
<1> QED  BY <1>1, <1>5

LEMMA SinglyAsked ==
  ASSUME NEW s, NEW most, NEW D, NEW H, NEW W, Singly(s, most, D, H, W), NEW d \in D, d \notin W
  PROVE  Singly(Wait(s, d, 1), most, D, H, W \cup {d})
<1>1. PICK x \in OneEach(D) : x = [who |-> d, permits |-> 1]  BY DEF OneEach
<1>2. PICK t : t = Wait(s, d, 1)  OBVIOUS
<1>3. DOMAIN t = {"free", "queue"} /\ t.free = s.free /\ t.queue = Append(s.queue, x)  BY <1>1, <1>2 DEF Singly, Wait
<1>4. x.who = d  BY <1>1
<1>5. PICK q : q = s.queue  OBVIOUS
<1>6. q \in Seq(OneEach(D)) /\ Distinct(q) /\ x.who \notin Waiting(q)  BY <1>4, <1>5 DEF Singly
<1>7. Append(q, x) \in Seq(OneEach(D)) /\ Distinct(Append(q, x)) /\ Waiting(Append(q, x)) = Waiting(q) \cup {x.who}  BY <1>6, QueueJoined
<1>8. t.queue \in Seq(OneEach(D)) /\ Distinct(t.queue) /\ Waiting(t.queue) = Waiting(s.queue) \cup {d}  BY <1>3, <1>4, <1>5, <1>7
<1>9. Singly(t, most, D, H, W \cup {d})  BY <1>3, <1>8 DEF Singly
<1> QED  BY <1>2, <1>9

(* Where a waiter is. *)
LEMMA Placed ==
  ASSUME NEW s, NEW d, d \in Waiting(s.queue)
  PROVE  PlaceInQueue(s, d) \in 1 .. Len(s.queue) /\ s.queue[PlaceInQueue(s, d)].who = d
<1>1. \E i \in 1 .. Len(s.queue) : s.queue[i].who = d  BY DEF Waiting
<1> QED  BY <1>1, Zenon DEF PlaceInQueue

LEMMA SinglyGivenUp ==
  ASSUME NEW s, NEW most, NEW D, NEW H, NEW W, Singly(s, most, D, H, W), NEW d \in W
  PROVE  Singly(GiveUp(s, d), most, D, H, W \ {d})
<1>1. PICK p : p = PlaceInQueue(s, d)  OBVIOUS
<1>2. p \in 1 .. Len(s.queue) /\ s.queue[p].who = d  BY <1>1, Placed DEF Singly
<1>3. PICK t : t = GiveUp(s, d)  OBVIOUS
<1>4. DOMAIN t = {"free", "queue"} /\ t.free = s.free /\ t.queue = RemoveAt(s.queue, p)  BY <1>1, <1>3 DEF Singly, GiveUp
<1>5. t.queue \in Seq(OneEach(D)) /\ Distinct(t.queue) /\ Waiting(t.queue) = Waiting(s.queue) \ {d}  BY <1>2, <1>4, Without DEF Singly
<1>6. Singly(t, most, D, H, W \ {d})  BY <1>4, <1>5 DEF Singly
<1> QED  BY <1>3, <1>6

LEMMA SinglyReleased ==
  ASSUME NEW s, NEW most, NEW D, NEW H, NEW W, Singly(s, most, D, H, W), NEW d \in H, H \cap W = {}
  PROVE  /\ Singly(Release(s, 1), most, D, (H \ {d}) \cup Woken(s, 1), W \ Woken(s, 1)) /\ Woken(s, 1) \subseteq W
<1>1. PICK q, S : q = s.queue /\ S = OneEach(D)  OBVIOUS
<1>2. q \in Seq(S) /\ Len(q) \in Nat /\ s.free \in Nat /\ Distinct(q) /\ Waiting(q) = W /\ IsFiniteSet(H) /\ Cardinality(H) \in Nat /\ s.free + Cardinality(H) = most
  BY <1>1, FS_CardinalityType DEF Singly
<1>19. \A x \in S : x.permits = 1  BY <1>1 DEF OneEach
<1>3. \A i \in 1 .. Len(q) : q[i].permits = 1
  <2>1. \A i \in 1 .. Len(q) : q[i] \in S  BY <1>2
  <2> QED  BY <2>1, <1>19
<1>4. Wanting(q, S)  BY <1>2, <1>19 DEF Wanting
<1>20. s.queue = q /\ s.free \in Nat /\ 1 \in Nat \ {0}  BY <1>1, <1>2
<1>5. PICK k, g : Gives(s, q, 1, k, g)
  <2>1. \E k, g : Gives(s, q, 1, k, g)  BY <1>4, <1>20, Releasing
  <2> QED  BY <2>1
<1>6. k \in 0 .. Len(q) /\ g[k] = k  BY <1>2, <1>3, <1>5, UnitsSummed DEF Gives
<1>7. PICK t : t = Release(s, 1)  OBVIOUS
<1>8. t = [free |-> s.free + 1 - g[k], queue |-> SubSeq(q, k + 1, Len(q))]  BY <1>5, <1>7 DEF Gives
<1>9. DOMAIN t = {"free", "queue"} /\ t.free = s.free + 1 - k /\ t.queue = SubSeq(q, k + 1, Len(q)) /\ k <= s.free + 1  BY <1>5, <1>6, <1>8 DEF Gives
<1>10. PICK A : A = {q[i].who : i \in 1 .. k}  OBVIOUS
<1>11. Woken(s, 1) = A  BY <1>5, <1>10 DEF Gives
<1>12. A \subseteq W
  <2>1. \A i \in 1 .. k : i \in 1 .. Len(q)  BY <1>2, <1>6
  <2> QED  BY <1>2, <1>10, <2>1 DEF Waiting
<1>13. t.queue \in Seq(S) /\ Distinct(t.queue) /\ Waiting(t.queue) = W \ A
  <2>1. q \in Seq(S) /\ Distinct(q) /\ k \in 0 .. Len(q)  BY <1>2, <1>6
  <2>2. /\ SubSeq(q, k + 1, Len(q)) \in Seq(S) /\ Distinct(SubSeq(q, k + 1, Len(q)))
        /\ Waiting(SubSeq(q, k + 1, Len(q))) = Waiting(q) \ {q[i].who : i \in 1 .. k}  BY <2>1, Behind
  <2> QED  BY <2>2, <1>2, <1>9, <1>10, Zenon
<1>14. IsFiniteSet(A) /\ Cardinality(A) = k
  <2>1. Len(q) \in Nat /\ Distinct(q) /\ k \in 0 .. Len(q)  BY <1>2, <1>6
  <2>2. IsFiniteSet(Ahead(q, k)) /\ Cardinality(Ahead(q, k)) = k  BY <2>1, AheadCounted
  <2> QED  BY <1>10, <2>2, Zenon DEF Ahead
<1>15. A \cap H = {}  BY <1>12
<1>16. IsFiniteSet((H \ {d}) \cup A) /\ Cardinality((H \ {d}) \cup A) = Cardinality(H) - 1 + k
  <2>1. IsFiniteSet((H \ {d}) \cup A) /\ Cardinality((H \ {d}) \cup A) = Cardinality(H) - 1 + Cardinality(A)  BY <1>2, <1>14, <1>15, Exchanged
  <2> QED  BY <1>14, <2>1
<1>17. t.free \in Nat /\ t.free + Cardinality((H \ {d}) \cup A) = most  BY <1>2, <1>6, <1>9, <1>16
<1>18. Singly(t, most, D, (H \ {d}) \cup A, W \ A)  BY <1>1, <1>9, <1>13, <1>16, <1>17 DEF Singly
<1> QED  BY <1>7, <1>11, <1>12, <1>18
-----------------------------------------------------------------------------
(* A semaphore of which d holds held[d] permits, and those in W wait for   *)
(* as many as they want.                                                   *)
Metered(s, most, D, held, wants, W) ==
  /\ DOMAIN s = {"free", "queue"} /\ s.free \in Nat /\ s.queue \in Seq(AnyNumber(D))
  /\ Distinct(s.queue) /\ Waiting(s.queue) = W
  /\ held \in [D -> Nat] /\ wants \in [D -> Nat] /\ \A i \in 1 .. Len(s.queue) : s.queue[i].permits = wants[s.queue[i].who]
  /\ IsFiniteSet(D) /\ s.free + Total(held, D) = most

(* What those want who do not wait is of no account. *)
LEMMA MeteredAnew ==
  ASSUME NEW s, NEW most, NEW D, NEW held, NEW wants, NEW W, Metered(s, most, D, held, wants, W),
         NEW longing \in [D -> Nat], \A x \in W : longing[x] = wants[x]
  PROVE  Metered(s, most, D, held, longing, W)
<1>1. \A i \in 1 .. Len(s.queue) : s.queue[i].who \in W  BY DEF Metered, Waiting
<1> QED  BY <1>1 DEF Metered

LEMMA MeteredTaken ==
  ASSUME NEW s, NEW most, NEW D, NEW held, NEW wants, NEW W, Metered(s, most, D, held, wants, W), NEW d \in D, NEW n \in Nat, CanTake(s, n),
         NEW got, got = [held EXCEPT ![d] = @ + n]
  PROVE  Metered(Take(s, n), most, D, got, wants, W)
<1>1. PICK t : t = Take(s, n)  OBVIOUS
<1>2. DOMAIN t = {"free", "queue"} /\ t.free = s.free - n /\ t.queue = s.queue /\ s.free >= n /\ s.free \in Nat  BY <1>1 DEF Metered, Take, CanTake
<1>3. held \in [D -> Nat] /\ held[d] \in Nat /\ IsFiniteSet(D)  BY DEF Metered
<1>4. got \in [D -> Nat] /\ got[d] = held[d] + n /\ \A x \in D \ {d} : got[x] = held[x]  BY <1>3
<1>5. Weights(held, D) /\ got[d] \in Int  BY <1>3, <1>4 DEF Weights
<1>9. Differ(got, held, D, d) /\ IsFiniteSet(D) /\ Weights(held, D) /\ got[d] \in Int  BY <1>3, <1>4, <1>5 DEF Differ
<1>6. Total(got, D) = Total(held, D) + got[d] - held[d] /\ Total(held, D) \in Int  BY <1>9, OneChanges, Zenon
<1>7. t.free \in Nat /\ t.free + Total(got, D) = most
  <2>1. s.free + Total(held, D) = most  BY DEF Metered
  <2> QED  BY <1>2, <1>3, <1>4, <1>6, <2>1
<1>8. Metered(t, most, D, got, wants, W)  BY <1>2, <1>4, <1>7 DEF Metered
<1> QED  BY <1>1, <1>8

LEMMA MeteredAsked ==
  ASSUME NEW s, NEW most, NEW D, NEW held, NEW wants, NEW W, Metered(s, most, D, held, wants, W), NEW d \in D, d \notin W
  PROVE  Metered(Wait(s, d, wants[d]), most, D, held, wants, W \cup {d})
<1>1. PICK x \in AnyNumber(D) : x = [who |-> d, permits |-> wants[d]]  BY DEF Metered, AnyNumber
<1>2. PICK t : t = Wait(s, d, wants[d])  OBVIOUS
<1>3. DOMAIN t = {"free", "queue"} /\ t.free = s.free /\ t.queue = Append(s.queue, x)  BY <1>1, <1>2 DEF Metered, Wait
<1>4. x.who = d /\ x.permits = wants[d]  BY <1>1
<1>5. PICK q : q = s.queue  OBVIOUS
<1>6. q \in Seq(AnyNumber(D)) /\ Distinct(q) /\ d \notin Waiting(q)  BY <1>5 DEF Metered
<1>7. /\ t.queue \in Seq(AnyNumber(D)) /\ Distinct(t.queue) /\ Waiting(t.queue) = Waiting(q) \cup {d}
      /\ Len(q) \in Nat /\ Len(t.queue) = Len(q) + 1 /\ t.queue[Len(q) + 1] = x /\ \A i \in 1 .. Len(q) : t.queue[i] = q[i]
  <2>1. x.who \notin Waiting(q)  BY <1>4, <1>6
  <2>2. /\ Append(q, x) \in Seq(AnyNumber(D)) /\ Distinct(Append(q, x)) /\ Waiting(Append(q, x)) = Waiting(q) \cup {x.who}
        /\ Len(q) \in Nat /\ Len(Append(q, x)) = Len(q) + 1 /\ Append(q, x)[Len(q) + 1] = x /\ \A i \in 1 .. Len(q) : Append(q, x)[i] = q[i]
    BY <1>6, <2>1, QueueJoined
  <2>3. t.queue = Append(q, x)  BY <1>3, <1>5
  <2>4. x.who = d  BY <1>4
  <2> QED  BY <2>2, <2>3, <2>4, Zenon
<1>8. \A i \in 1 .. Len(t.queue) : t.queue[i].permits = wants[t.queue[i].who]
  <2>1. \A i : i \in 1 .. Len(t.queue) => i \in 1 .. Len(q) \/ i = Len(q) + 1  BY <1>7
  <2>2. \A i \in 1 .. Len(q) : q[i].permits = wants[q[i].who]  BY <1>5 DEF Metered
  <2> QED  BY <1>4, <1>7, <2>1, <2>2
<1>9. Metered(t, most, D, held, wants, W \cup {d})  BY <1>3, <1>5, <1>7, <1>8 DEF Metered
<1> QED  BY <1>2, <1>9

(* Who is left in a queue wants what it wanted. *)
LEMMA WithoutFrom ==
  ASSUME NEW S, NEW q \in Seq(S), NEW p \in 1 .. Len(q)
  PROVE  \A i \in 1 .. Len(RemoveAt(q, p)) : \E j \in 1 .. Len(q) : RemoveAt(q, p)[i] = q[j]
<1>0. PICK a, b : a = SubSeq(q, 1, p - 1) /\ b = SubSeq(q, p + 1, Len(q))  OBVIOUS
<1>1. Len(q) \in Nat /\ a \in Seq(S) /\ Len(a) = p - 1 /\ \A i \in 1 .. p - 1 : a[i] = q[i]  BY <1>0
<1>2. b \in Seq(S) /\ Len(b) = Len(q) - p /\ \A i \in 1 .. Len(q) - p : b[i] = q[p + i]  BY <1>0
<1>3. PICK r : r = a \o b  OBVIOUS
<1>4. RemoveAt(q, p) = r  BY <1>0, <1>3 DEF RemoveAt
<1>5. Len(r) = Len(q) - 1  BY <1>1, <1>2, <1>3
<1>6. \A i \in 1 .. Len(r) : r[i] = IF i <= Len(a) THEN a[i] ELSE b[i - Len(a)]  BY <1>1, <1>2, <1>3
<1>7. ASSUME NEW i \in 1 .. Len(r) PROVE \E j \in 1 .. Len(q) : r[i] = q[j]
  <2>1. CASE i < p
    <3>1. i \in 1 .. p - 1 /\ i \in 1 .. Len(q) /\ r[i] = a[i]  BY <1>1, <1>5, <1>6, <2>1
    <3> QED  BY <1>1, <3>1
  <2>2. CASE ~(i < p)
    <3>1. i - (p - 1) \in 1 .. Len(q) - p /\ r[i] = b[i - (p - 1)] /\ p + (i - (p - 1)) \in 1 .. Len(q)  BY <1>1, <1>5, <1>6, <2>2
    <3> QED  BY <1>2, <3>1
  <2> QED  BY <2>1, <2>2
<1> QED  BY <1>4, <1>7

LEMMA MeteredGivenUp ==
  ASSUME NEW s, NEW most, NEW D, NEW held, NEW wants, NEW W, Metered(s, most, D, held, wants, W), NEW d \in W
  PROVE  Metered(GiveUp(s, d), most, D, held, wants, W \ {d})
<1>1. PICK p : p = PlaceInQueue(s, d)  OBVIOUS
<1>2. p \in 1 .. Len(s.queue) /\ s.queue[p].who = d  BY <1>1, Placed DEF Metered
<1>3. PICK t : t = GiveUp(s, d)  OBVIOUS
<1>4. DOMAIN t = {"free", "queue"} /\ t.free = s.free /\ t.queue = RemoveAt(s.queue, p)  BY <1>1, <1>3 DEF Metered, GiveUp
<1>5. t.queue \in Seq(AnyNumber(D)) /\ Distinct(t.queue) /\ Waiting(t.queue) = Waiting(s.queue) \ {d}  BY <1>2, <1>4, Without DEF Metered
<1>6. \A i \in 1 .. Len(t.queue) : t.queue[i].permits = wants[t.queue[i].who]
  <2>1. \A i \in 1 .. Len(t.queue) : \E j \in 1 .. Len(s.queue) : t.queue[i] = s.queue[j]
    <3>1. PICK q : q = s.queue  OBVIOUS
    <3>2. q \in Seq(AnyNumber(D)) /\ p \in 1 .. Len(q) /\ t.queue = RemoveAt(q, p)  BY <1>2, <1>4, <3>1 DEF Metered
    <3>3. \A i \in 1 .. Len(RemoveAt(q, p)) : \E j \in 1 .. Len(q) : RemoveAt(q, p)[i] = q[j]  BY <3>2, WithoutFrom
    <3>4. t.queue = RemoveAt(q, p) /\ s.queue = q  BY <3>1, <3>2
    <3> QED  BY <3>3, <3>4
  <2>2. \A j \in 1 .. Len(s.queue) : s.queue[j].permits = wants[s.queue[j].who]  BY Zenon DEF Metered
  <2> QED  BY <2>1, <2>2, Zenon
<1>7. Metered(t, most, D, held, wants, W \ {d})  BY <1>4, <1>5, <1>6 DEF Metered
<1> QED  BY <1>3, <1>7

(* What is left if d gives all it holds back, and who gets it.             *)
Freed(held, d) == [held EXCEPT ![d] = 0]

LEMMA MeteredReleased ==
  ASSUME NEW s, NEW most, NEW D, NEW held, NEW wants, NEW W, Metered(s, most, D, held, wants, W), NEW d \in D, d \notin W,
         NEW got, got = Fed(Freed(held, d), wants, Woken(s, held[d]))
  PROVE  Metered(Release(s, held[d]), most, D, got, wants, W \ Woken(s, held[d])) /\ Woken(s, held[d]) \subseteq W
<1>1. PICK q, n, rest, S : S = AnyNumber(D) /\ q = s.queue /\ n = held[d] /\ rest = Freed(held, d)  OBVIOUS
<1>2. q \in Seq(S) /\ Len(q) \in Nat /\ s.free \in Nat /\ Distinct(q) /\ Waiting(q) = W /\ IsFiniteSet(D) /\ held \in [D -> Nat] /\ wants \in [D -> Nat] /\ n \in Nat
      /\ s.free + Total(held, D) = most /\ \A i \in 1 .. Len(q) : q[i].permits = wants[q[i].who]
  <2>1. q \in Seq(S) /\ Distinct(q) /\ Waiting(q) = W
    <3>1. s.queue \in Seq(AnyNumber(D)) /\ Distinct(s.queue) /\ Waiting(s.queue) = W  BY Zenon DEF Metered
    <3> QED  BY <1>1, <3>1, Zenon
  <2>2. Len(q) \in Nat
    <3>1. \A z \in Seq(S) : Len(z) \in Nat  OBVIOUS
    <3> QED  BY <2>1, <3>1, Zenon
  <2>3. s.free \in Nat /\ IsFiniteSet(D) /\ held \in [D -> Nat] /\ wants \in [D -> Nat] /\ s.free + Total(held, D) = most
    BY Zenon DEF Metered
  <2>4. n \in Nat
    <3>1. held[d] \in Nat  BY <2>3
    <3> QED  BY <1>1, <3>1, Zenon
  <2>5. \A i \in 1 .. Len(q) : q[i].permits = wants[q[i].who]
    <3>1. \A i \in 1 .. Len(s.queue) : s.queue[i].permits = wants[s.queue[i].who]  BY Zenon DEF Metered
    <3>2. q = s.queue  BY <1>1, Zenon
    <3> QED  BY <3>1, <3>2, Zenon
  <2> QED  BY <2>1, <2>2, <2>3, <2>4, <2>5, Zenon
<1>3. \A i \in 1 .. Len(q) : q[i] \in S /\ q[i].who \in D
  <2>1. \A i \in 1 .. Len(q) : q[i] \in S  BY <1>2
  <2>2. \A x \in S : x.who \in D  BY <1>1 DEF AnyNumber
  <2> QED  BY <2>1, <2>2
<1>4. rest \in [D -> Nat] /\ Total(rest, D) = Total(held, D) - n /\ Total(held, D) \in Int
  <2>1. rest \in [D -> Nat] /\ rest[d] = 0 /\ \A x \in D \ {d} : rest[x] = held[x]  BY <1>1, <1>2 DEF Freed
  <2>2. Weights(held, D) /\ rest[d] \in Int  BY <1>2, <2>1 DEF Weights
  <2>4. \A x \in D \ {d} : rest[x] = held[x]  BY <2>1
  <2>5. IsFiniteSet(D)  BY <1>2
  <2>3. Total(rest, D) = Total(held, D) + rest[d] - held[d] /\ Total(held, D) \in Int  BY <2>2, <2>4, <2>5, TotalChanges
  <2> QED  BY <1>1, <1>2, <2>1, <2>3
<1>5. CASE n = 0
  <2>1. Release(s, n) = s /\ Woken(s, n) = {}  BY <1>5 DEF Release, Woken
  <2>2. got = held
    <3>1. rest = held  BY <1>1, <1>2, <1>5 DEF Freed
    <3>2. Fed(rest, wants, {}) = [x \in DOMAIN rest |-> rest[x]]  BY DEF Fed
    <3> QED  BY <1>1, <1>4, <2>1, <3>1, <3>2
  <2>3. W \ {} = W  OBVIOUS
  <2> QED  BY <1>1, <2>1, <2>2, <2>3
<1>6. CASE n # 0
  <2>1. Wanting(q, S)
    <3>1. \A x \in S : x.permits \in Nat  BY <1>1 DEF AnyNumber
    <3> QED  BY <1>2, <3>1 DEF Wanting
  <2>16. s.queue = q /\ s.free \in Nat /\ n \in Nat \ {0}  BY <1>1, <1>2, <1>6
  <2>2. PICK k, g : Gives(s, q, n, k, g)
    <3>1. \E k, g : Gives(s, q, n, k, g)  BY <2>1, <2>16, Releasing
    <3> QED  BY <3>1
  <2>3. k \in 0 .. Len(q) /\ Partial(q, Len(q), g) /\ g[k] <= s.free + n /\ g[k] \in Nat  BY <2>2 DEF Gives, Partial
  <2>4. PICK t : t = Release(s, n)  OBVIOUS
  <2>5. t = [free |-> s.free + n - g[k], queue |-> SubSeq(q, k + 1, Len(q))]  BY <2>2, <2>4 DEF Gives
  <2>6. DOMAIN t = {"free", "queue"} /\ t.free = s.free + n - g[k] /\ t.queue = SubSeq(q, k + 1, Len(q))  BY <2>5
  <2>7. PICK A : A = Ahead(q, k)  OBVIOUS
  <2>8. Woken(s, n) = A  BY <2>2, <2>7 DEF Gives, Ahead
  <2>9. A \subseteq W
    <3>1. \A i \in 1 .. k : i \in 1 .. Len(q)  BY <1>2, <2>3
    <3> QED  BY <1>2, <2>7, <3>1 DEF Waiting, Ahead
  <2>10. t.queue \in Seq(S) /\ Distinct(t.queue) /\ Waiting(t.queue) = W \ A
    <3>1. q \in Seq(S) /\ Distinct(q) /\ k \in 0 .. Len(q)  BY <1>2, <2>3
    <3>2. /\ SubSeq(q, k + 1, Len(q)) \in Seq(S) /\ Distinct(SubSeq(q, k + 1, Len(q)))
          /\ Waiting(SubSeq(q, k + 1, Len(q))) = Waiting(q) \ {q[i].who : i \in 1 .. k}  BY <3>1, Behind
    <3> QED  BY <3>2, <1>2, <2>6, <2>7, Zenon DEF Ahead
  <2>11. \A i \in 1 .. Len(t.queue) : t.queue[i].permits = wants[t.queue[i].who]
    <3>1. Len(t.queue) = Len(q) - k /\ \A i \in 1 .. Len(q) - k : t.queue[i] = q[k + i]  BY <1>2, <2>3, <2>6
    <3>2. \A i \in 1 .. Len(q) - k : k + i \in 1 .. Len(q)  BY <1>2, <2>3
    <3>3. \A i \in 1 .. Len(q) : q[i].permits = wants[q[i].who]  BY <1>2, Zenon
    <3>4. ASSUME NEW i \in 1 .. Len(q) - k PROVE t.queue[i].permits = wants[t.queue[i].who]
      <4>1. t.queue[i] = q[k + i] /\ k + i \in 1 .. Len(q)  BY <3>1, <3>2, Zenon
      <4>2. q[k + i].permits = wants[q[k + i].who]  BY <3>3, <4>1, Zenon
      <4> QED  BY <4>1, <4>2, Zenon
    <3> QED  BY <3>1, <3>4, Zenon
  <2>12. got = Fed(rest, wants, A)  BY <1>1, <2>8
  <2>13. got \in [D -> Nat] /\ Total(got, D) = Total(rest, D) + g[k]
    <3>1. AsksFor(q, D, wants)  BY <1>2, <1>3 DEF AsksFor
    <3>2. \A j \in 0 .. Len(q) : Fed(rest, wants, Ahead(q, j)) \in [D -> Nat] /\ Total(Fed(rest, wants, Ahead(q, j)), D) = Total(rest, D) + g[j]
      <4>1. IsFiniteSet(D) /\ Len(q) \in Nat /\ Distinct(q) /\ Partial(q, Len(q), g) /\ rest \in [D -> Nat] /\ wants \in [D -> Nat]  BY <1>2, <1>4, <2>3
      <4> QED  BY <4>1, <3>1, FedTotal
    <3> QED  BY <2>3, <2>7, <2>12, <3>2
  <2>14. t.free \in Nat /\ t.free + Total(got, D) = most
    <3>1. PICK f, u, w, h : f = s.free /\ u = Total(held, D) /\ w = Total(got, D) /\ h = g[k]  OBVIOUS
    <3>2. f \in Nat /\ n \in Nat /\ u \in Int /\ h \in Nat /\ h <= f + n /\ f + u = most /\ w = (u - n) + h /\ t.free = f + n - h
      BY <1>2, <1>4, <2>3, <2>6, <2>13, <3>1
    <3>3. f + n - h \in Nat /\ (f + n - h) + w = most  BY <3>2
    <3> QED  BY <3>1, <3>2, <3>3
  <2>15. Metered(t, most, D, got, wants, W \ A)  BY <1>1, <1>2, <2>6, <2>10, <2>11, <2>13, <2>14 DEF Metered
  <2> QED  BY <1>1, <2>4, <2>8, <2>9, <2>15
<1> QED  BY <1>5, <1>6

-----------------------------------------------------------------------------
(***************************************************************************)
(* Downloads.                                                              *)
(***************************************************************************)
AtStep(st, P) == {d \in Downloads : st[d] \in P}
Inside == Step \ {"new", "awaitSlot", "settled"}
Hungry == {"awaitBytes", "awaitMore"}
WantsAt(st) == [d \in Downloads |-> IF st[d] = "awaitBytes" THEN Reservation(d) ELSE 1]

SlotsRight(s, st) == Singly(s, Slots, Downloads, AtStep(st, Inside), AtStep(st, {"awaitSlot"}))
IoRight(s, st) == Singly(s, 1, Downloads, AtStep(st, {"storing"}), AtStep(st, {"awaitIo"}))
BytesRight(s, st, held) == Metered(s, Budget, Downloads, held, WantsAt(st), AtStep(st, Hungry))

(* Who waits for its first bytes has none; what is on disk is paid for.    *)
DiskRight(st, held, onDisk) ==
  /\ onDisk \in [Downloads -> Nat]
  /\ \A d \in Downloads :
       /\ st[d] \in {"new", "awaitSlot", "slotted", "awaitBytes"} => held[d] = 0
       /\ st[d] # "settled" => onDisk[d] <= held[d]

DownloadsRight(s, b, i, st, held, onDisk) ==
  /\ st \in [Downloads -> Step] /\ held \in [Downloads -> Nat]
  /\ SlotsRight(s, st) /\ BytesRight(b, st, held) /\ IoRight(i, st) /\ DiskRight(st, held, onDisk)

DownloadsInv == DownloadsRight(slots, bytes, io, step, reserved, bytesWritten)

Moves(st, st2, d, s) == st2 = [st EXCEPT ![d] = s]

(* A step from a to b neither enters nor leaves P. *)
SameSide(P, a, b) == a \in P <=> b \in P

LEMMA SteppedTo ==
  ASSUME NEW st \in [Downloads -> Step], NEW d \in Downloads, NEW s \in Step, NEW st2, Moves(st, st2, d, s)
  PROVE  /\ st2 \in [Downloads -> Step] /\ st2[d] = s /\ \A x \in Downloads : x # d => st2[x] = st[x]
         /\ \A P : s \in P => AtStep(st2, P) = AtStep(st, P) \cup {d}
         /\ \A P : s \notin P => AtStep(st2, P) = AtStep(st, P) \ {d}
<1>1. st2 \in [Downloads -> Step] /\ st2[d] = s /\ \A x \in Downloads : x # d => st2[x] = st[x]  BY DEF Moves
<1>2. ASSUME NEW P, s \in P PROVE AtStep(st2, P) = AtStep(st, P) \cup {d}  BY <1>1, <1>2 DEF AtStep
<1>3. ASSUME NEW P, s \notin P PROVE AtStep(st2, P) = AtStep(st, P) \ {d}  BY <1>1, <1>3 DEF AtStep
<1> QED  BY <1>1, <1>2, <1>3

(* Who is, and is not, among those at some steps is so after a move among them, or among the others. *)
LEMMA MovedWithin ==
  ASSUME NEW st \in [Downloads -> Step], NEW d \in Downloads, NEW s \in Step, NEW st2, Moves(st, st2, d, s),
         NEW P, SameSide(P, st[d], s)
  PROVE  AtStep(st2, P) = AtStep(st, P)
<1>1. st2[d] = s /\ \A x \in Downloads : x # d => st2[x] = st[x]  BY DEF Moves
<1> QED  BY <1>1 DEF AtStep, SameSide

LEMMA WantsType == ASSUME NEW st PROVE WantsAt(st) \in [Downloads -> Nat]
<1>1. \A d \in Downloads : Reservation(d) \in Nat  BY DownloadsAssumption DEF Reservation
<1> QED  BY <1>1 DEF WantsAt

LEMMA BytesAnew ==
  ASSUME NEW b, NEW most, NEW held, NEW st, NEW st2, NEW W, Metered(b, most, Downloads, held, WantsAt(st), W),
         W \subseteq Downloads, \A x \in W : st2[x] = st[x]
  PROVE  Metered(b, most, Downloads, held, WantsAt(st2), W)
<1>1. WantsAt(st2) \in [Downloads -> Nat]  BY WantsType
<1>2. \A x \in W : WantsAt(st2)[x] = WantsAt(st)[x]  BY DEF WantsAt
<1> QED  BY <1>1, <1>2, MeteredAnew

(* A move that is no business of a semaphore. *)
LEMMA SlotsMoved ==
  ASSUME NEW s, NEW st \in [Downloads -> Step], SlotsRight(s, st), NEW d \in Downloads, NEW a \in Step, NEW st2, Moves(st, st2, d, a),
         st[d] \in Inside, a \in Inside
  PROVE  SlotsRight(s, st2)
<1>1. SameSide(Inside, st[d], a) /\ SameSide({"awaitSlot"}, st[d], a)  BY DEF Inside, SameSide
<1>2. AtStep(st2, Inside) = AtStep(st, Inside)  BY <1>1, MovedWithin
<1>3. AtStep(st2, {"awaitSlot"}) = AtStep(st, {"awaitSlot"})  BY <1>1, MovedWithin
<1> QED  BY <1>2, <1>3 DEF SlotsRight

LEMMA IoMoved ==
  ASSUME NEW s, NEW st \in [Downloads -> Step], IoRight(s, st), NEW d \in Downloads, NEW a \in Step, NEW st2, Moves(st, st2, d, a),
         st[d] \notin {"storing", "awaitIo"}, a \notin {"storing", "awaitIo"}
  PROVE  IoRight(s, st2)
<1>1. SameSide({"storing"}, st[d], a) /\ SameSide({"awaitIo"}, st[d], a)  BY DEF SameSide
<1>2. AtStep(st2, {"storing"}) = AtStep(st, {"storing"})  BY <1>1, MovedWithin
<1>3. AtStep(st2, {"awaitIo"}) = AtStep(st, {"awaitIo"})  BY <1>1, MovedWithin
<1> QED  BY <1>2, <1>3 DEF IoRight

LEMMA BytesMoved ==
  ASSUME NEW s, NEW st \in [Downloads -> Step], NEW held, BytesRight(s, st, held), NEW d \in Downloads, NEW a \in Step, NEW st2, Moves(st, st2, d, a),
         st[d] \notin Hungry, a \notin Hungry
  PROVE  BytesRight(s, st2, held)
<1>6. SameSide(Hungry, st[d], a)  BY DEF SameSide
<1>1. AtStep(st2, Hungry) = AtStep(st, Hungry)  BY <1>6, MovedWithin
<1>2. PICK W : W = AtStep(st, Hungry)  OBVIOUS
<1>3. W \subseteq Downloads /\ \A x \in W : st2[x] = st[x]  BY <1>2 DEF AtStep, Moves, Hungry
<1>4. Metered(s, Budget, Downloads, held, WantsAt(st), W)  BY <1>2 DEF BytesRight
<1>5. Metered(s, Budget, Downloads, held, WantsAt(st2), W)  BY <1>3, <1>4, BytesAnew
<1> QED  BY <1>1, <1>2, <1>5 DEF BytesRight

LEMMA DiskMoved ==
  ASSUME NEW st \in [Downloads -> Step], NEW held, NEW onDisk, DiskRight(st, held, onDisk), NEW d \in Downloads, NEW a \in Step, NEW st2, Moves(st, st2, d, a),
         a \in {"new", "awaitSlot", "slotted", "awaitBytes"} => held[d] = 0, st[d] # "settled"
  PROVE  DiskRight(st2, held, onDisk)
<1>1. st2[d] = a /\ \A x \in Downloads : x # d => st2[x] = st[x]  BY DEF Moves
<1> QED  BY <1>1 DEF DiskRight

LEMMA DownloadsInitially == ASSUME DownloadsInit PROVE DownloadsInv
<1>1. \A x \in Downloads : step[x] = "new"  BY DEF DownloadsInit
<1>2. AtStep(step, Inside) = {} /\ AtStep(step, {"awaitSlot"}) = {} /\ AtStep(step, Hungry) = {}
      /\ AtStep(step, {"storing"}) = {} /\ AtStep(step, {"awaitIo"}) = {}  BY <1>1 DEF AtStep, Inside, Hungry
<1>3. step \in [Downloads -> Step] /\ reserved \in [Downloads -> Nat] /\ bytesWritten \in [Downloads -> Nat]  BY DEF DownloadsInit, Step
<1>4. \A n : DOMAIN NewSemaphore(n) = {"free", "queue"} /\ NewSemaphore(n).free = n /\ NewSemaphore(n).queue = << >>  BY DEF NewSemaphore
<1>5. << >> \in Seq(OneEach(Downloads)) /\ << >> \in Seq(AnyNumber(Downloads)) /\ Len(<< >>) = 0 /\ Distinct(<< >>) /\ Waiting(<< >>) = {}  BY DEF Distinct, Waiting
<1>6. Slots \in Nat /\ Budget \in Nat /\ IsFiniteSet(Downloads)  BY DownloadsAssumption
<1>7. IsFiniteSet({}) /\ Cardinality({}) = 0  BY FS_EmptySet
<1>8. ASSUME NEW n \in Nat PROVE Singly(NewSemaphore(n), n, Downloads, {}, {})
  <2>1. PICK t : t = NewSemaphore(n)  OBVIOUS
  <2>2. DOMAIN t = {"free", "queue"} /\ t.free = n /\ t.queue = << >>  BY <1>4, <2>1
  <2>3. n + Cardinality({}) = n  BY <1>7
  <2>4. Singly(t, n, Downloads, {}, {})  BY <1>5, <1>7, <2>2, <2>3 DEF Singly
  <2> QED  BY <2>1, <2>4
<1>9. SlotsRight(slots, step) /\ IoRight(io, step)
  <2>1. slots = NewSemaphore(Slots) /\ io = NewSemaphore(1)  BY DEF DownloadsInit
  <2> QED  BY <1>2, <1>6, <1>8, <2>1 DEF SlotsRight, IoRight
<1>10. BytesRight(bytes, step, reserved)
  <2>1. bytes = NewSemaphore(Budget) /\ \A x \in Downloads : reserved[x] = 0  BY DEF DownloadsInit
  <2>2. Total(reserved, Downloads) = 0  BY <1>6, <2>1, TotalZero
  <2>3. WantsAt(step) \in [Downloads -> Nat]  BY WantsType
  <2>4. DOMAIN bytes = {"free", "queue"} /\ bytes.free = Budget /\ bytes.queue = << >>  BY <1>4, <2>1
  <2>5. Budget + Total(reserved, Downloads) = Budget  BY <1>6, <2>2
  <2>6. PICK w : w = WantsAt(step)  OBVIOUS
  <2>7. Metered(bytes, Budget, Downloads, reserved, w, {})  BY <1>3, <1>5, <1>6, <2>3, <2>4, <2>5, <2>6 DEF Metered
  <2> QED  BY <1>2, <2>6, <2>7 DEF BytesRight
<1>11. DiskRight(step, reserved, bytesWritten)  BY <1>3 DEF DownloadsInit, DiskRight
<1> QED  BY <1>3, <1>9, <1>10, <1>11 DEF DownloadsInv, DownloadsRight

(* What every action starts from. *)
LEMMA Unfolded ==
  ASSUME DownloadsInv
  PROVE  /\ step \in [Downloads -> Step] /\ reserved \in [Downloads -> Nat] /\ bytesWritten \in [Downloads -> Nat]
         /\ SlotsRight(slots, step) /\ BytesRight(bytes, step, reserved) /\ IoRight(io, step) /\ DiskRight(step, reserved, bytesWritten)
BY DEF DownloadsInv, DownloadsRight, DiskRight

LEMMA Refolded ==
  ASSUME step' \in [Downloads -> Step], reserved' \in [Downloads -> Nat],
         SlotsRight(slots', step'), BytesRight(bytes', step', reserved'), IoRight(io', step'), DiskRight(step', reserved', bytesWritten')
  PROVE  DownloadsInv'
BY DEF DownloadsInv, DownloadsRight

(* An action that moves d and changes no number. *)
LEMMA OnlyMoved ==
  ASSUME DownloadsInv, NEW d \in Downloads, NEW a \in Step, Moves(step, step', d, a), reserved' = reserved, bytesWritten' = bytesWritten,
         a \in {"new", "awaitSlot", "slotted", "awaitBytes"} => reserved[d] = 0, step[d] # "settled",
         SlotsRight(slots', step'), BytesRight(bytes', step', reserved), IoRight(io', step')
  PROVE  DownloadsInv'
<1>1. step' \in [Downloads -> Step]  BY Unfolded, SteppedTo
<1>2. DiskRight(step', reserved, bytesWritten)  BY Unfolded, DiskMoved
<1>3. reserved \in [Downloads -> Nat]  BY Unfolded
<1> QED  BY <1>1, <1>2, <1>3, Refolded

LEMMA StartKeeps == ASSUME DownloadsInv, NEW d \in Downloads, Start(d) PROVE DownloadsInv'
<1>1. step[d] = "new" /\ bytes' = bytes /\ io' = io /\ reserved' = reserved /\ bytesWritten' = bytesWritten  BY DEF Start
<1>2. step \in [Downloads -> Step] /\ reserved[d] = 0  BY <1>1, Unfolded DEF DiskRight
<1>3. PICK H, W : H = AtStep(step, Inside) /\ W = AtStep(step, {"awaitSlot"})  OBVIOUS
<1>4. Singly(slots, Slots, Downloads, H, W) /\ d \notin H /\ d \notin W  BY <1>1, <1>3, Unfolded DEF SlotsRight, AtStep, Inside
<1>5. ASSUME NEW a \in Step, a \in {"slotted", "settled", "awaitSlot"}, Moves(step, step', d, a), SlotsRight(slots', step') PROVE DownloadsInv'
  <2>1. BytesRight(bytes, step', reserved)
    <3>1. step[d] \notin Hungry /\ a \notin Hungry  BY <1>1, <1>5 DEF Hungry
    <3> QED  BY <3>1, <1>2, <1>5, Unfolded, BytesMoved
  <2>2. IoRight(io, step')
    <3>1. step[d] \notin {"storing", "awaitIo"} /\ a \notin {"storing", "awaitIo"}  BY <1>1, <1>5
    <3> QED  BY <3>1, <1>2, <1>5, Unfolded, IoMoved
  <2>3. BytesRight(bytes', step', reserved) /\ IoRight(io', step') /\ step[d] # "settled"  BY <1>1, <2>1, <2>2
  <2> QED  BY <1>1, <1>2, <1>5, <2>3, OnlyMoved
<1>6. CASE CanTake(slots, 1) /\ slots' = Take(slots, 1) /\ Goto(d, "slotted")
  <2>1. Moves(step, step', d, "slotted") /\ "slotted" \in Step  BY <1>6 DEF Goto, Moves, Step
  <2>2. AtStep(step', Inside) = H \cup {d} /\ AtStep(step', {"awaitSlot"}) = W
    <3>1. "slotted" \in Inside /\ "slotted" \notin {"awaitSlot"}  BY DEF Inside, Step
    <3>2. AtStep(step', Inside) = H \cup {d} /\ AtStep(step', {"awaitSlot"}) = W \ {d}  BY <1>2, <1>3, <2>1, <3>1, SteppedTo
    <3> QED  BY <1>4, <3>2
  <2>3. Singly(Take(slots, 1), Slots, Downloads, H \cup {d}, W)  BY <1>4, <1>6, SinglyTaken
  <2>4. SlotsRight(slots', step')  BY <1>6, <2>2, <2>3, Zenon DEF SlotsRight
  <2> QED  BY <1>5, <2>1, <2>4
<1>7. CASE slots' = slots /\ Goto(d, "settled")
  <2>1. Moves(step, step', d, "settled") /\ "settled" \in Step  BY <1>7 DEF Goto, Moves, Step
  <2>2. AtStep(step', Inside) = H /\ AtStep(step', {"awaitSlot"}) = W
    <3>1. "settled" \notin Inside /\ "settled" \notin {"awaitSlot"}  BY DEF Inside, Step
    <3>2. AtStep(step', Inside) = H \ {d} /\ AtStep(step', {"awaitSlot"}) = W \ {d}  BY <1>2, <1>3, <2>1, <3>1, SteppedTo
    <3> QED  BY <1>4, <3>2
  <2>4. SlotsRight(slots', step')  BY <1>4, <1>7, <2>2, Zenon DEF SlotsRight
  <2> QED  BY <1>5, <2>1, <2>4
<1>8. CASE slots' = Wait(slots, d, 1) /\ Goto(d, "awaitSlot")
  <2>1. Moves(step, step', d, "awaitSlot") /\ "awaitSlot" \in Step  BY <1>8 DEF Goto, Moves, Step
  <2>2. AtStep(step', Inside) = H /\ AtStep(step', {"awaitSlot"}) = W \cup {d}
    <3>1. "awaitSlot" \notin Inside /\ "awaitSlot" \in {"awaitSlot"}  BY DEF Inside, Step
    <3>2. AtStep(step', Inside) = H \ {d} /\ AtStep(step', {"awaitSlot"}) = W \cup {d}  BY <1>2, <1>3, <2>1, <3>1, SteppedTo
    <3> QED  BY <1>4, <3>2
  <2>3. Singly(Wait(slots, d, 1), Slots, Downloads, H, W \cup {d})  BY <1>4, SinglyAsked
  <2>4. SlotsRight(slots', step')  BY <1>8, <2>2, <2>3, Zenon DEF SlotsRight
  <2> QED  BY <1>5, <2>1, <2>4
<1> QED  BY <1>6, <1>7, <1>8, Zenon DEF Start

LEMMA ReserveKeeps == ASSUME DownloadsInv, NEW d \in Downloads, Reserve(d) PROVE DownloadsInv'
<1>1. step[d] = "slotted" /\ slots' = slots /\ io' = io /\ bytesWritten' = bytesWritten  BY DEF Reserve
<1>2. step \in [Downloads -> Step] /\ reserved \in [Downloads -> Nat] /\ reserved[d] = 0  BY <1>1, Unfolded DEF DiskRight
<1>3. PICK W : W = AtStep(step, Hungry)  OBVIOUS
<1>4. Metered(bytes, Budget, Downloads, reserved, WantsAt(step), W) /\ d \notin W /\ W \subseteq Downloads  BY <1>1, <1>3, Unfolded DEF BytesRight, AtStep, Hungry
<1>5. PICK n \in Nat : n = Reservation(d)
  <2>1. Reservation(d) \in Nat  BY DownloadsAssumption DEF Reservation
  <2> QED  BY <2>1
<1>6. ASSUME NEW a \in Step, a \in {"streaming", "leaving", "awaitBytes"}, Moves(step, step', d, a)
      PROVE  step' \in [Downloads -> Step] /\ SlotsRight(slots', step') /\ IoRight(io', step') /\ Metered(bytes, Budget, Downloads, reserved, WantsAt(step'), W)
  <2>1. SlotsRight(slots, step')
    <3>1. step[d] \in Inside /\ a \in Inside  BY <1>1, <1>6 DEF Inside, Step
    <3> QED  BY <3>1, <1>2, <1>6, Unfolded, SlotsMoved
  <2>2. IoRight(io, step')
    <3>1. step[d] \notin {"storing", "awaitIo"} /\ a \notin {"storing", "awaitIo"}  BY <1>1, <1>6
    <3> QED  BY <3>1, <1>2, <1>6, Unfolded, IoMoved
  <2>3. step' \in [Downloads -> Step] /\ \A x \in Downloads : x # d => step'[x] = step[x]  BY <1>2, <1>6, SteppedTo
  <2>4. \A x \in W : step'[x] = step[x]  BY <1>4, <2>3
  <2>5. Metered(bytes, Budget, Downloads, reserved, WantsAt(step'), W)  BY <1>4, <2>4, BytesAnew
  <2> QED  BY <1>1, <2>1, <2>2, <2>3, <2>5
<1>7. CASE CanTake(bytes, Reservation(d)) /\ bytes' = Take(bytes, Reservation(d)) /\ reserved' = [reserved EXCEPT ![d] = Reservation(d)] /\ Goto(d, "streaming")
  <2>1. Moves(step, step', d, "streaming") /\ "streaming" \in Step  BY <1>7 DEF Goto, Moves, Step
  <2>2. Metered(bytes, Budget, Downloads, reserved, WantsAt(step'), W) /\ SlotsRight(slots', step') /\ IoRight(io', step') /\ step' \in [Downloads -> Step]  BY <1>6, <2>1
  <2>3. AtStep(step', Hungry) = W
    <3>1. SameSide(Hungry, step[d], "streaming")  BY <1>1 DEF Hungry, SameSide
    <3> QED  BY <1>2, <1>3, <2>1, <3>1, MovedWithin
  <2>4. reserved' = [reserved EXCEPT ![d] = @ + n]
    <3>1. reserved[d] + n = Reservation(d)  BY <1>2, <1>5
    <3> QED  BY <1>7, <3>1
  <2>5. Metered(Take(bytes, n), Budget, Downloads, reserved', WantsAt(step'), W)
    <3>1. CanTake(bytes, n)  BY <1>5, <1>7
    <3> QED  BY <2>2, <2>4, <3>1, MeteredTaken
  <2>6. BytesRight(bytes', step', reserved')  BY <1>5, <1>7, <2>3, <2>5, Zenon DEF BytesRight
  <2>7. reserved' \in [Downloads -> Nat] /\ reserved'[d] = n /\ \A x \in Downloads : x # d => reserved'[x] = reserved[x]  BY <1>2, <1>5, <1>7
  <2>8. step'[d] = "streaming" /\ \A x \in Downloads : x # d => step'[x] = step[x]  BY <1>2, <2>1, SteppedTo
  <2>9. DiskRight(step', reserved', bytesWritten')
    <3>1. DiskRight(step, reserved, bytesWritten) /\ bytesWritten[d] \in Nat /\ bytesWritten[d] <= 0  BY <1>1, <1>2, Unfolded DEF DiskRight
    <3> QED  BY <1>1, <2>7, <2>8, <3>1 DEF DiskRight
  <2> QED  BY <2>2, <2>6, <2>7, <2>9, Refolded
<1>8. CASE Goto(d, "leaving") /\ UNCHANGED <<bytes, reserved>>
  <2>1. Moves(step, step', d, "leaving") /\ "leaving" \in Step /\ bytes' = bytes /\ reserved' = reserved  BY <1>8 DEF Goto, Moves, Step
  <2>2. SlotsRight(slots', step') /\ IoRight(io', step')  BY <1>6, <2>1
  <2>3. BytesRight(bytes', step', reserved)
    <3>1. step[d] \notin Hungry /\ "leaving" \notin Hungry  BY <1>1 DEF Hungry
    <3> QED  BY <3>1, <1>2, <2>1, Unfolded, BytesMoved
  <2>4. step[d] # "settled"  BY <1>1
  <2> QED  BY <1>1, <1>2, <2>1, <2>2, <2>3, <2>4, OnlyMoved
<1>9. CASE bytes' = Wait(bytes, d, Reservation(d)) /\ Goto(d, "awaitBytes") /\ reserved' = reserved
  <2>1. Moves(step, step', d, "awaitBytes") /\ "awaitBytes" \in Step  BY <1>9 DEF Goto, Moves, Step
  <2>2. Metered(bytes, Budget, Downloads, reserved, WantsAt(step'), W) /\ SlotsRight(slots', step') /\ IoRight(io', step')  BY <1>6, <2>1
  <2>3. AtStep(step', Hungry) = W \cup {d}
    <3>1. "awaitBytes" \in Hungry  BY DEF Hungry
    <3> QED  BY <1>2, <1>3, <2>1, <3>1, SteppedTo
  <2>4. WantsAt(step')[d] = Reservation(d)
    <3>1. step'[d] = "awaitBytes"  BY <1>2, <2>1, SteppedTo
    <3> QED  BY <3>1 DEF WantsAt
  <2>5. Metered(Wait(bytes, d, WantsAt(step')[d]), Budget, Downloads, reserved, WantsAt(step'), W \cup {d})  BY <1>4, <2>2, MeteredAsked
  <2>6. BytesRight(bytes', step', reserved)  BY <1>9, <2>3, <2>4, <2>5, Zenon DEF BytesRight
  <2>7. step[d] # "settled" /\ reserved' = reserved  BY <1>1, <1>9
  <2> QED  BY <1>1, <1>2, <2>1, <2>2, <2>6, <2>7, OnlyMoved
<1> QED  BY <1>7, <1>8, <1>9, Zenon DEF Reserve

LEMMA TakeChunkKeeps == ASSUME DownloadsInv, NEW d \in Downloads, TakeChunk(d) PROVE DownloadsInv'
<1>1. step[d] = "streaming" /\ slots' = slots /\ io' = io  BY DEF TakeChunk
<1>2. step \in [Downloads -> Step] /\ reserved \in [Downloads -> Nat] /\ bytesWritten \in [Downloads -> Nat]
      /\ SlotsRight(slots, step) /\ IoRight(io, step) /\ DiskRight(step, reserved, bytesWritten)  BY Unfolded
<1>3. PICK W : W = AtStep(step, Hungry)  OBVIOUS
<1>4. Metered(bytes, Budget, Downloads, reserved, WantsAt(step), W) /\ d \notin W /\ W \subseteq Downloads  BY <1>1, <1>3, Unfolded DEF BytesRight, AtStep, Hungry
<1>5. bytesWritten[d] <= reserved[d] /\ bytesWritten[d] \in Nat /\ reserved[d] \in Nat  BY <1>1, <1>2 DEF DiskRight
<1>6. ASSUME NEW a \in Step, a \in {"leaving", "awaitMore"}, Moves(step, step', d, a)
      PROVE  SlotsRight(slots', step') /\ IoRight(io', step')
  <2>1. step[d] \in Inside /\ a \in Inside  BY <1>1, <1>6 DEF Inside, Step
  <2>2. step[d] \notin {"storing", "awaitIo"} /\ a \notin {"storing", "awaitIo"}  BY <1>1, <1>6
  <2>3. SlotsRight(slots, step')  BY <2>1, <1>2, <1>6, SlotsMoved
  <2>4. IoRight(io, step')  BY <2>2, <1>2, <1>6, IoMoved
  <2> QED  BY <1>1, <2>3, <2>4
<1>7. CASE Goto(d, "leaving") /\ UNCHANGED <<bytes, reserved, bytesWritten>>
  <2>1. Moves(step, step', d, "leaving") /\ "leaving" \in Step /\ bytes' = bytes /\ reserved' = reserved /\ bytesWritten' = bytesWritten  BY <1>7 DEF Goto, Moves, Step
  <2>2. SlotsRight(slots', step') /\ IoRight(io', step')  BY <1>6, <2>1
  <2>3. BytesRight(bytes', step', reserved)
    <3>1. step[d] \notin Hungry /\ "leaving" \notin Hungry  BY <1>1 DEF Hungry
    <3> QED  BY <3>1, <1>2, <2>1, Unfolded, BytesMoved
  <2>4. step[d] # "settled"  BY <1>1
  <2> QED  BY <1>1, <2>1, <2>2, <2>3, <2>4, OnlyMoved
<1>8. CASE WithinReservation(d) /\ bytesWritten' = [bytesWritten EXCEPT ![d] = @ + 1] /\ UNCHANGED <<bytes, reserved, step>>
  <2>1. bytesWritten' \in [Downloads -> Nat] /\ bytesWritten'[d] = bytesWritten[d] + 1 /\ \A x \in Downloads : x # d => bytesWritten'[x] = bytesWritten[x]  BY <1>2, <1>8
  <2>2. bytesWritten[d] < reserved[d]  BY <1>8 DEF WithinReservation
  <2>3. DiskRight(step, reserved, bytesWritten')  BY <1>2, <1>5, <2>1, <2>2 DEF DiskRight
  <2>4. step' = step /\ bytes' = bytes /\ reserved' = reserved  BY <1>8
  <2>5. BytesRight(bytes, step, reserved)  BY Unfolded
  <2> QED  BY <1>1, <1>2, <2>3, <2>4, <2>5, Refolded
<1>9. CASE CanTake(bytes, 1) /\ bytes' = Take(bytes, 1) /\ reserved' = [reserved EXCEPT ![d] = @ + 1] /\ bytesWritten' = [bytesWritten EXCEPT ![d] = @ + 1] /\ step' = step
  <2>1. bytesWritten' \in [Downloads -> Nat] /\ bytesWritten'[d] = bytesWritten[d] + 1 /\ \A x \in Downloads : x # d => bytesWritten'[x] = bytesWritten[x]  BY <1>2, <1>9
  <2>2. reserved' \in [Downloads -> Nat] /\ reserved'[d] = reserved[d] + 1 /\ \A x \in Downloads : x # d => reserved'[x] = reserved[x]  BY <1>2, <1>9
  <2>3. DiskRight(step, reserved', bytesWritten')  BY <1>1, <1>2, <1>5, <2>1, <2>2 DEF DiskRight
  <2>4. reserved' = [reserved EXCEPT ![d] = @ + 1] /\ CanTake(bytes, 1) /\ 1 \in Nat  BY <1>9
  <2>5. Metered(Take(bytes, 1), Budget, Downloads, reserved', WantsAt(step), W)  BY <1>4, <2>4, MeteredTaken
  <2>6. bytes' = Take(bytes, 1) /\ step' = step  BY <1>9
  <2>7. BytesRight(bytes', step', reserved')  BY <1>3, <2>5, <2>6, Zenon DEF BytesRight
  <2> QED  BY <1>1, <1>2, <2>2, <2>3, <2>6, <2>7, Refolded
<1>10. CASE bytes' = Wait(bytes, d, 1) /\ Goto(d, "awaitMore") /\ UNCHANGED <<reserved, bytesWritten>>
  <2>1. Moves(step, step', d, "awaitMore") /\ "awaitMore" \in Step /\ reserved' = reserved /\ bytesWritten' = bytesWritten  BY <1>10 DEF Goto, Moves, Step
  <2>2. SlotsRight(slots', step') /\ IoRight(io', step')  BY <1>6, <2>1
  <2>3. step'[d] = "awaitMore" /\ \A x \in Downloads : x # d => step'[x] = step[x]  BY <1>2, <2>1, SteppedTo
  <2>4. AtStep(step', Hungry) = W \cup {d}
    <3>1. "awaitMore" \in Hungry  BY DEF Hungry
    <3> QED  BY <1>2, <1>3, <2>1, <3>1, SteppedTo
  <2>5. Metered(bytes, Budget, Downloads, reserved, WantsAt(step'), W)
    <3>1. \A x \in W : step'[x] = step[x]  BY <1>4, <2>3
    <3> QED  BY <1>4, <3>1, BytesAnew
  <2>6. WantsAt(step')[d] = 1  BY <2>3 DEF WantsAt
  <2>7. Metered(Wait(bytes, d, WantsAt(step')[d]), Budget, Downloads, reserved, WantsAt(step'), W \cup {d})  BY <1>4, <2>5, MeteredAsked
  <2>8. BytesRight(bytes', step', reserved)  BY <1>10, <2>4, <2>6, <2>7, Zenon DEF BytesRight
  <2>9. step[d] # "settled"  BY <1>1
  <2> QED  BY <1>1, <2>1, <2>2, <2>8, <2>9, OnlyMoved
<1> QED  BY <1>7, <1>8, <1>9, <1>10, Zenon DEF TakeChunk

LEMMA EndOfStreamKeeps == ASSUME DownloadsInv, NEW d \in Downloads, EndOfStream(d) PROVE DownloadsInv'
<1>1. step[d] = "streaming" /\ slots' = slots /\ bytes' = bytes /\ reserved' = reserved /\ bytesWritten' = bytesWritten  BY DEF EndOfStream
<1>2. step \in [Downloads -> Step]  BY Unfolded
<1>3. PICK H, W : H = AtStep(step, {"storing"}) /\ W = AtStep(step, {"awaitIo"})  OBVIOUS
<1>4. Singly(io, 1, Downloads, H, W) /\ d \notin H /\ d \notin W  BY <1>1, <1>3, Unfolded DEF IoRight, AtStep
<1>5. ASSUME NEW a \in Step, a \in {"storing", "awaitIo"}, Moves(step, step', d, a), IoRight(io', step') PROVE DownloadsInv'
  <2>1. BytesRight(bytes, step', reserved)
    <3>1. step[d] \notin Hungry /\ a \notin Hungry  BY <1>1, <1>5 DEF Hungry
    <3> QED  BY <3>1, <1>2, <1>5, Unfolded, BytesMoved
  <2>2. SlotsRight(slots, step')
    <3>1. step[d] \in Inside /\ a \in Inside  BY <1>1, <1>5 DEF Inside, Step
    <3> QED  BY <3>1, <1>2, <1>5, Unfolded, SlotsMoved
  <2>3. BytesRight(bytes', step', reserved) /\ SlotsRight(slots', step') /\ step[d] # "settled"  BY <1>1, <2>1, <2>2
  <2>4. a \notin {"new", "awaitSlot", "slotted", "awaitBytes"}  BY <1>5
  <2> QED  BY <1>1, <1>2, <1>5, <2>3, <2>4, OnlyMoved
<1>6. CASE CanTake(io, 1) /\ io' = Take(io, 1) /\ Goto(d, "storing")
  <2>1. Moves(step, step', d, "storing") /\ "storing" \in Step  BY <1>6 DEF Goto, Moves, Step
  <2>2. AtStep(step', {"storing"}) = H \cup {d} /\ AtStep(step', {"awaitIo"}) = W
    <3>1. "storing" \in {"storing"} /\ "storing" \notin {"awaitIo"}  OBVIOUS
    <3>2. AtStep(step', {"storing"}) = H \cup {d} /\ AtStep(step', {"awaitIo"}) = W \ {d}  BY <1>2, <1>3, <2>1, <3>1, SteppedTo
    <3> QED  BY <1>4, <3>2
  <2>3. Singly(Take(io, 1), 1, Downloads, H \cup {d}, W)  BY <1>4, <1>6, SinglyTaken
  <2>4. IoRight(io', step')  BY <1>6, <2>2, <2>3, Zenon DEF IoRight
  <2> QED  BY <1>5, <2>1, <2>4
<1>7. CASE io' = Wait(io, d, 1) /\ Goto(d, "awaitIo")
  <2>1. Moves(step, step', d, "awaitIo") /\ "awaitIo" \in Step  BY <1>7 DEF Goto, Moves, Step
  <2>2. AtStep(step', {"storing"}) = H /\ AtStep(step', {"awaitIo"}) = W \cup {d}
    <3>1. "awaitIo" \in {"awaitIo"} /\ "awaitIo" \notin {"storing"}  OBVIOUS
    <3>2. AtStep(step', {"storing"}) = H \ {d} /\ AtStep(step', {"awaitIo"}) = W \cup {d}  BY <1>2, <1>3, <2>1, <3>1, SteppedTo
    <3> QED  BY <1>4, <3>2
  <2>3. Singly(Wait(io, d, 1), 1, Downloads, H, W \cup {d})  BY <1>4, SinglyAsked
  <2>4. IoRight(io', step')  BY <1>7, <2>2, <2>3, Zenon DEF IoRight
  <2> QED  BY <1>5, <2>1, <2>4
<1> QED  BY <1>6, <1>7, Zenon DEF EndOfStream

LEMMA FailKeeps == ASSUME DownloadsInv, NEW d \in Downloads, Fail(d) PROVE DownloadsInv'
<1>1. /\ step[d] = "streaming" /\ Moves(step, step', d, "leaving") /\ "leaving" \in Step
      /\ slots' = slots /\ bytes' = bytes /\ io' = io /\ reserved' = reserved /\ bytesWritten' = bytesWritten  BY DEF Fail, Goto, Moves, Step
<1>2. step[d] \in Inside /\ "leaving" \in Inside /\ step[d] \notin Hungry /\ "leaving" \notin Hungry
      /\ step[d] \notin {"storing", "awaitIo"} /\ "leaving" \notin {"storing", "awaitIo"} /\ step[d] # "settled"
      /\ "leaving" \notin {"new", "awaitSlot", "slotted", "awaitBytes"}  BY <1>1 DEF Inside, Step, Hungry
<1>3. step \in [Downloads -> Step] /\ SlotsRight(slots, step) /\ IoRight(io, step) /\ BytesRight(bytes, step, reserved)  BY Unfolded
<1>4. SlotsRight(slots, step')  BY <1>1, <1>2, <1>3, SlotsMoved
<1>5. IoRight(io, step')  BY <1>1, <1>2, <1>3, IoMoved
<1>6. BytesRight(bytes, step', reserved)  BY <1>1, <1>2, <1>3, BytesMoved
<1>7. SlotsRight(slots', step') /\ IoRight(io', step') /\ BytesRight(bytes', step', reserved)  BY <1>1, <1>4, <1>5, <1>6
<1> QED  BY <1>1, <1>2, <1>7, OnlyMoved

LEMMA StoreFileKeeps == ASSUME DownloadsInv, NEW d \in Downloads, StoreFile(d) PROVE DownloadsInv'
<1>1. step[d] = "storing" /\ io' = Release(io, 1) /\ slots' = slots /\ bytes' = bytes /\ reserved' = reserved /\ bytesWritten' = bytesWritten  BY DEF StoreFile
<1>2. step \in [Downloads -> Step] /\ reserved \in [Downloads -> Nat] /\ DiskRight(step, reserved, bytesWritten)  BY Unfolded
<1>3. PICK H, W, A : H = AtStep(step, {"storing"}) /\ W = AtStep(step, {"awaitIo"}) /\ A = Woken(io, 1)  OBVIOUS
<1>4. Singly(io, 1, Downloads, H, W) /\ d \in H /\ H \cap W = {}  BY <1>1, <1>3, Unfolded DEF IoRight, AtStep
<1>5. Singly(Release(io, 1), 1, Downloads, (H \ {d}) \cup A, W \ A) /\ A \subseteq W
  <2>1. Singly(Release(io, 1), 1, Downloads, (H \ {d}) \cup Woken(io, 1), W \ Woken(io, 1)) /\ Woken(io, 1) \subseteq W  BY <1>4, SinglyReleased
  <2> QED  BY <1>3, <2>1, Zenon
<1>6. \A x \in A : x \in Downloads /\ step[x] = "awaitIo" /\ x # d  BY <1>1, <1>3, <1>5 DEF AtStep
<1>7. /\ step' \in [Downloads -> Step]
      /\ \A x \in Downloads : step'[x] = IF x = d THEN "leaving" ELSE IF x \in A THEN "storing" ELSE step[x]  BY <1>2, <1>3 DEF StoreFile, Step
<1>8. AtStep(step', {"storing"}) = (H \ {d}) \cup A /\ AtStep(step', {"awaitIo"}) = W \ A  BY <1>1, <1>3, <1>6, <1>7 DEF AtStep
<1>9. AtStep(step', Inside) = AtStep(step, Inside) /\ AtStep(step', {"awaitSlot"}) = AtStep(step, {"awaitSlot"})
  <2>1. "leaving" \in Inside /\ "storing" \in Inside /\ "awaitIo" \in Inside  BY DEF Inside, Step
  <2>2. \A x \in Downloads : step'[x] \in Inside <=> step[x] \in Inside  BY <1>1, <1>6, <1>7, <2>1
  <2>3. \A x \in Downloads : step'[x] = "awaitSlot" <=> step[x] = "awaitSlot"  BY <1>1, <1>6, <1>7
  <2> QED  BY <2>2, <2>3 DEF AtStep
<1>10. AtStep(step', Hungry) = AtStep(step, Hungry)
  <2>1. "leaving" \notin Hungry /\ "storing" \notin Hungry /\ "awaitIo" \notin Hungry  BY DEF Hungry
  <2>2. \A x \in Downloads : step'[x] \in Hungry <=> step[x] \in Hungry  BY <1>1, <1>6, <1>7, <2>1
  <2> QED  BY <2>2 DEF AtStep
<1>11. SlotsRight(slots', step')  BY <1>1, <1>9, Unfolded DEF SlotsRight
<1>12. IoRight(io', step')  BY <1>1, <1>5, <1>8, Zenon DEF IoRight
<1>13. BytesRight(bytes', step', reserved')
  <2>1. PICK V : V = AtStep(step, Hungry)  OBVIOUS
  <2>2. V \subseteq Downloads /\ \A x \in V : step'[x] = step[x]  BY <1>1, <1>6, <1>7, <2>1 DEF AtStep, Hungry
  <2>3. Metered(bytes, Budget, Downloads, reserved, WantsAt(step), V)  BY <2>1, Unfolded DEF BytesRight
  <2>4. Metered(bytes, Budget, Downloads, reserved, WantsAt(step'), V)  BY <2>2, <2>3, BytesAnew
  <2> QED  BY <1>1, <1>10, <2>1, <2>4 DEF BytesRight
<1>14. DiskRight(step', reserved', bytesWritten')  BY <1>1, <1>2, <1>6, <1>7 DEF DiskRight
<1> QED  BY <1>1, <1>2, <1>7, <1>11, <1>12, <1>13, <1>14, Refolded

LEMMA LeaveKeeps == ASSUME DownloadsInv, NEW d \in Downloads, Leave(d) PROVE DownloadsInv'
<1>1. step[d] = "leaving" /\ bytes' = Release(bytes, reserved[d]) /\ slots' = Release(slots, 1) /\ io' = io  BY DEF Leave, Held
<1>2. step \in [Downloads -> Step] /\ reserved \in [Downloads -> Nat] /\ bytesWritten \in [Downloads -> Nat] /\ DiskRight(step, reserved, bytesWritten)  BY Unfolded
<1>3. PICK H, W, A : H = AtStep(step, Inside) /\ W = AtStep(step, {"awaitSlot"}) /\ A = Woken(slots, 1)  OBVIOUS
<1>4. Singly(slots, Slots, Downloads, H, W) /\ d \in H /\ H \cap W = {}  BY <1>1, <1>3, Unfolded DEF SlotsRight, AtStep, Inside, Step
<1>5. Singly(Release(slots, 1), Slots, Downloads, (H \ {d}) \cup A, W \ A) /\ A \subseteq W
  <2>1. Singly(Release(slots, 1), Slots, Downloads, (H \ {d}) \cup Woken(slots, 1), W \ Woken(slots, 1)) /\ Woken(slots, 1) \subseteq W  BY <1>4, SinglyReleased
  <2> QED  BY <1>3, <2>1, Zenon
<1>6. PICK V, F : V = AtStep(step, Hungry) /\ F = Woken(bytes, reserved[d])  OBVIOUS
<1>7. Metered(bytes, Budget, Downloads, reserved, WantsAt(step), V) /\ d \notin V  BY <1>1, <1>6, Unfolded DEF BytesRight, AtStep, Hungry
<1>8. PICK got : got = Fed(Freed(reserved, d), WantsAt(step), F)  OBVIOUS
<1>9. Metered(Release(bytes, reserved[d]), Budget, Downloads, got, WantsAt(step), V \ F) /\ F \subseteq V
  <2>1. got = Fed(Freed(reserved, d), WantsAt(step), Woken(bytes, reserved[d]))  BY <1>6, <1>8, Zenon
  <2>2. Metered(Release(bytes, reserved[d]), Budget, Downloads, got, WantsAt(step), V \ Woken(bytes, reserved[d])) /\ Woken(bytes, reserved[d]) \subseteq V  BY <1>7, <2>1, MeteredReleased
  <2> QED  BY <1>6, <2>2, Zenon
<1>10. \A x \in A : x \in Downloads /\ step[x] = "awaitSlot" /\ x # d /\ x \notin F  BY <1>1, <1>3, <1>5, <1>6, <1>9 DEF AtStep, Hungry
<1>11. \A x \in F : x \in Downloads /\ step[x] \in Hungry /\ x # d  BY <1>1, <1>6, <1>7, <1>9 DEF AtStep
<1>12. /\ step' \in [Downloads -> Step]
       /\ \A x \in Downloads : step'[x] = IF x = d THEN "settled" ELSE IF x \in F THEN "streaming" ELSE IF x \in A THEN "slotted" ELSE step[x]
  <2>1. step' = [x \in Downloads |-> IF x = d THEN "settled" ELSE IF x \in F THEN "streaming" ELSE IF x \in A THEN "slotted" ELSE step[x]]  BY <1>3, <1>6, Zenon DEF Leave, Held
  <2>2. "settled" \in Step /\ "streaming" \in Step /\ "slotted" \in Step  BY DEF Step
  <2> QED  BY <1>2, <2>1, <2>2
<1>13. /\ reserved' = [x \in Downloads |-> IF x = d THEN 0 ELSE IF x \notin F THEN reserved[x] ELSE IF step[x] = "awaitBytes" THEN Reservation(x) ELSE reserved[x] + 1]
       /\ bytesWritten' = [x \in Downloads |-> IF x \in F /\ step[x] = "awaitMore" THEN bytesWritten[x] + 1 ELSE bytesWritten[x]]  BY <1>6, Zenon DEF Leave, Held
<1>14. reserved' = got /\ reserved' \in [Downloads -> Nat]
  <2>1. \A x \in Downloads : Reservation(x) \in Nat  BY DownloadsAssumption DEF Reservation
  <2>2. \A x \in F : WantsAt(step)[x] = IF step[x] = "awaitBytes" THEN Reservation(x) ELSE 1  BY <1>11 DEF WantsAt
  <2>3. \A x \in Downloads : step[x] = "awaitBytes" => reserved[x] = 0  BY <1>2 DEF DiskRight
  <2>4. PICK rest : rest = Freed(reserved, d)  OBVIOUS
  <2>5. rest \in [Downloads -> Nat] /\ \A x \in Downloads : rest[x] = IF x = d THEN 0 ELSE reserved[x]  BY <1>2, <2>4 DEF Freed
  <2>6. got = [x \in Downloads |-> IF x \in F THEN rest[x] + WantsAt(step)[x] ELSE rest[x]]
    <3>1. DOMAIN rest = Downloads  BY <2>5
    <3> QED  BY <1>8, <2>4, <3>1, Zenon DEF Fed
  <2>7. ASSUME NEW x \in Downloads
        PROVE  /\ (IF x \in F THEN rest[x] + WantsAt(step)[x] ELSE rest[x])
                  = (IF x = d THEN 0 ELSE IF x \notin F THEN reserved[x] ELSE IF step[x] = "awaitBytes" THEN Reservation(x) ELSE reserved[x] + 1)
               /\ (IF x \in F THEN rest[x] + WantsAt(step)[x] ELSE rest[x]) \in Nat
    <3>1. CASE x = d  BY <3>1, <2>5, <1>11
    <3>2. CASE x # d /\ x \notin F  BY <3>2, <2>5
    <3>3. CASE x # d /\ x \in F /\ step[x] = "awaitBytes"
      <4>1. rest[x] = 0 /\ WantsAt(step)[x] = Reservation(x) /\ Reservation(x) \in Nat  BY <3>3, <2>1, <2>2, <2>3, <2>5
      <4> QED  BY <3>3, <4>1
    <3>4. CASE x # d /\ x \in F /\ step[x] # "awaitBytes"
      <4>1. rest[x] = reserved[x] /\ WantsAt(step)[x] = 1 /\ reserved[x] \in Nat  BY <3>4, <1>2, <2>2, <2>5
      <4> QED  BY <3>4, <4>1
    <3> QED  BY <3>1, <3>2, <3>3, <3>4
  <2>8. reserved' = got  BY <1>13, <2>6, <2>7
  <2>9. got \in [Downloads -> Nat]  BY <2>6, <2>7
  <2> QED  BY <2>8, <2>9
<1>15. SlotsRight(slots', step')
  <2>1. "settled" \notin Inside /\ "streaming" \in Inside /\ "slotted" \in Inside /\ "awaitSlot" \notin Inside /\ \A h \in Hungry : h \in Inside /\ h # "awaitSlot"  BY DEF Inside, Step, Hungry
  <2>2. AtStep(step', Inside) = (H \ {d}) \cup A  BY <1>1, <1>3, <1>10, <1>11, <1>12, <2>1 DEF AtStep
  <2>3. AtStep(step', {"awaitSlot"}) = W \ A  BY <1>1, <1>3, <1>10, <1>11, <1>12, <2>1 DEF AtStep
  <2> QED  BY <1>1, <1>5, <2>2, <2>3, Zenon DEF SlotsRight
<1>16. BytesRight(bytes', step', reserved')
  <2>1. "settled" \notin Hungry /\ "streaming" \notin Hungry /\ "slotted" \notin Hungry /\ "awaitSlot" \notin Hungry  BY DEF Hungry
  <2>2. AtStep(step', Hungry) = V \ F  BY <1>1, <1>6, <1>7, <1>10, <1>11, <1>12, <2>1 DEF AtStep
  <2>3. PICK U : U = V \ F  OBVIOUS
  <2>4. U \subseteq Downloads /\ \A x \in U : step'[x] = step[x]  BY <1>6, <1>7, <1>10, <1>12, <2>1, <2>3 DEF AtStep
  <2>5. Metered(Release(bytes, reserved[d]), Budget, Downloads, got, WantsAt(step), U)  BY <1>9, <2>3, Zenon
  <2>6. Metered(Release(bytes, reserved[d]), Budget, Downloads, got, WantsAt(step'), U)  BY <2>4, <2>5, BytesAnew
  <2> QED  BY <1>1, <1>14, <2>2, <2>3, <2>6, Zenon DEF BytesRight
<1>17. IoRight(io', step')
  <2>1. "storing" \notin Hungry /\ "awaitIo" \notin Hungry  BY DEF Hungry
  <2>2. AtStep(step', {"storing"}) = AtStep(step, {"storing"}) /\ AtStep(step', {"awaitIo"}) = AtStep(step, {"awaitIo"})  BY <1>1, <1>10, <1>11, <1>12, <2>1 DEF AtStep
  <2> QED  BY <1>1, <2>2, Unfolded DEF IoRight
<1>18. DiskRight(step', reserved', bytesWritten')
  <2>1. bytesWritten' \in [Downloads -> Nat]  BY <1>2, <1>13
  <2>2. ASSUME NEW x \in Downloads
        PROVE  /\ step'[x] \in {"new", "awaitSlot", "slotted", "awaitBytes"} => reserved'[x] = 0
               /\ step'[x] # "settled" => bytesWritten'[x] <= reserved'[x]
    <3>0. /\ step[x] \in {"new", "awaitSlot", "slotted", "awaitBytes"} => reserved[x] = 0
          /\ step[x] # "settled" => bytesWritten[x] <= reserved[x]
          /\ reserved[x] \in Nat /\ bytesWritten[x] \in Nat  BY <1>2 DEF DiskRight
    <3>1. CASE x = d  BY <3>1, <1>12
    <3>2. CASE x # d /\ x \in F /\ step[x] = "awaitBytes"
      <4>1. step'[x] = "streaming" /\ reserved'[x] = Reservation(x) /\ bytesWritten'[x] = bytesWritten[x]  BY <3>2, <1>12, <1>13
      <4>2. bytesWritten[x] = 0  BY <3>0, <3>2
      <4>3. Reservation(x) \in Nat  BY DownloadsAssumption DEF Reservation
      <4> QED  BY <4>1, <4>2, <4>3
    <3>3. CASE x # d /\ x \in F /\ step[x] = "awaitMore"
      <4>1. step'[x] = "streaming" /\ reserved'[x] = reserved[x] + 1 /\ bytesWritten'[x] = bytesWritten[x] + 1  BY <3>3, <1>12, <1>13
      <4> QED  BY <3>0, <3>3, <4>1
    <3>4. CASE x # d /\ x \notin F
      <4>1. reserved'[x] = reserved[x] /\ bytesWritten'[x] = bytesWritten[x] /\ (step'[x] = step[x] \/ (step[x] = "awaitSlot" /\ step'[x] = "slotted"))  BY <3>4, <1>10, <1>12, <1>13
      <4> QED  BY <3>0, <4>1
    <3> QED  BY <3>1, <3>2, <3>3, <3>4, <1>11 DEF Hungry
  <2> QED  BY <2>1, <2>2 DEF DiskRight
<1> QED  BY <1>12, <1>14, <1>15, <1>16, <1>17, <1>18, Refolded

LEMMA AbortKeeps == ASSUME DownloadsInv, NEW d \in Downloads, Abort(d) PROVE DownloadsInv'
<1>1. step[d] # "settled" /\ io' = io /\ reserved' = reserved /\ bytesWritten' = bytesWritten  BY DEF Abort
<1>2. step \in [Downloads -> Step] /\ SlotsRight(slots, step) /\ IoRight(io, step) /\ BytesRight(bytes, step, reserved)  BY Unfolded
<1>3. CASE step[d] = "awaitSlot"
  <2>1. Moves(step, step', d, "settled") /\ "settled" \in Step  BY <1>2, <1>3 DEF Abort, Moves, Step
  <2>2. slots' = GiveUp(slots, d) /\ bytes' = bytes  BY <1>3 DEF Abort
  <2>3. PICK H, W : H = AtStep(step, Inside) /\ W = AtStep(step, {"awaitSlot"})  OBVIOUS
  <2>4. Singly(slots, Slots, Downloads, H, W) /\ d \notin H /\ d \in W  BY <1>2, <1>3, <2>3 DEF SlotsRight, AtStep, Inside
  <2>5. AtStep(step', Inside) = H /\ AtStep(step', {"awaitSlot"}) = W \ {d}
    <3>1. "settled" \notin Inside /\ "settled" \notin {"awaitSlot"}  BY DEF Inside, Step
    <3>2. AtStep(step', Inside) = H \ {d} /\ AtStep(step', {"awaitSlot"}) = W \ {d}  BY <1>2, <2>1, <2>3, <3>1, SteppedTo
    <3> QED  BY <2>4, <3>2
  <2>6. Singly(GiveUp(slots, d), Slots, Downloads, H, W \ {d})  BY <2>4, SinglyGivenUp
  <2>7. SlotsRight(slots', step')  BY <2>2, <2>5, <2>6, Zenon DEF SlotsRight
  <2>8. step[d] \notin Hungry /\ "settled" \notin Hungry /\ step[d] \notin {"storing", "awaitIo"} /\ "settled" \notin {"storing", "awaitIo"}  BY <1>3 DEF Hungry
  <2>9. BytesRight(bytes, step', reserved)  BY <1>2, <2>1, <2>8, BytesMoved
  <2>10. IoRight(io, step')  BY <1>2, <2>1, <2>8, IoMoved
  <2>11. BytesRight(bytes', step', reserved) /\ IoRight(io', step')  BY <1>1, <2>2, <2>9, <2>10
  <2> QED  BY <1>1, <2>1, <2>7, <2>11, OnlyMoved
<1>4. CASE step[d] \in Hungry
  <2>1. Moves(step, step', d, "leaving") /\ "leaving" \in Step  BY <1>2, <1>4 DEF Abort, Moves, Step, Hungry
  <2>2. bytes' = GiveUp(bytes, d) /\ slots' = slots  BY <1>4 DEF Abort, Hungry
  <2>3. PICK W : W = AtStep(step, Hungry)  OBVIOUS
  <2>4. Metered(bytes, Budget, Downloads, reserved, WantsAt(step), W) /\ d \in W /\ W \subseteq Downloads  BY <1>2, <1>4, <2>3 DEF BytesRight, AtStep
  <2>5. AtStep(step', Hungry) = W \ {d}
    <3>1. "leaving" \notin Hungry  BY DEF Hungry
    <3> QED  BY <1>2, <2>1, <2>3, <3>1, SteppedTo
  <2>6. Metered(GiveUp(bytes, d), Budget, Downloads, reserved, WantsAt(step), W \ {d})  BY <2>4, MeteredGivenUp
  <2>7. PICK U : U = W \ {d}  OBVIOUS
  <2>8. U \subseteq Downloads /\ \A x \in U : step'[x] = step[x]
    <3>1. \A x \in Downloads : x # d => step'[x] = step[x]  BY <1>2, <2>1, SteppedTo
    <3> QED  BY <2>4, <2>7, <3>1
  <2>9. Metered(GiveUp(bytes, d), Budget, Downloads, reserved, WantsAt(step), U)  BY <2>6, <2>7, Zenon
  <2>10. Metered(GiveUp(bytes, d), Budget, Downloads, reserved, WantsAt(step'), U)  BY <2>8, <2>9, BytesAnew
  <2>11. BytesRight(bytes', step', reserved)  BY <2>2, <2>5, <2>7, <2>10, Zenon DEF BytesRight
  <2>12. step[d] \in Inside /\ "leaving" \in Inside /\ step[d] \notin {"storing", "awaitIo"} /\ "leaving" \notin {"storing", "awaitIo"}
         /\ "leaving" \notin {"new", "awaitSlot", "slotted", "awaitBytes"}  BY <1>4 DEF Hungry, Inside, Step
  <2>13. SlotsRight(slots, step')  BY <1>2, <2>1, <2>12, SlotsMoved
  <2>14. IoRight(io, step')  BY <1>2, <2>1, <2>12, IoMoved
  <2>15. SlotsRight(slots', step') /\ IoRight(io', step')  BY <1>1, <2>2, <2>13, <2>14
  <2> QED  BY <1>1, <2>1, <2>11, <2>12, <2>15, OnlyMoved
<1>5. CASE step[d] # "awaitSlot" /\ step[d] \notin Hungry
  <2>1. step' = step /\ slots' = slots /\ bytes' = bytes
    <3>1. slots' = slots /\ bytes' = bytes  BY <1>5 DEF Abort, Hungry
    <3>2. step' = [step EXCEPT ![d] = step[d]]  BY <1>2, <1>5 DEF Abort, Hungry
    <3> QED  BY <1>2, <3>1, <3>2
  <2> QED  BY <1>1, <2>1 DEF DownloadsInv
<1> QED  BY <1>3, <1>4, <1>5

LEMMA DownloadsStutter == ASSUME DownloadsInv, UNCHANGED downloadsVars PROVE DownloadsInv'
BY DEF DownloadsInv, downloadsVars

LEMMA DownloadsKeep == ASSUME DownloadsInv, [DownloadsNext]_downloadsVars PROVE DownloadsInv'
<1>1. CASE DownloadsNext
  <2>1. PICK d \in Downloads : Proceed(d) \/ Abort(d)  BY <1>1 DEF DownloadsNext
  <2> QED  BY <2>1, StartKeeps, ReserveKeeps, TakeChunkKeeps, EndOfStreamKeeps, FailKeeps, StoreFileKeeps, LeaveKeeps, AbortKeeps DEF Proceed
<1> QED  BY <1>1, DownloadsStutter

(* Those who wait are as many as the queue is long.                        *)
LEMMA QueueCounted ==
  ASSUME NEW s, Len(s.queue) \in Nat, DOMAIN s.queue = 1 .. Len(s.queue), Distinct(s.queue)
  PROVE  InLine(s) = Waiting(s.queue) /\ Cardinality(InLine(s)) = Len(s.queue)
<1>1. InLine(s) = Waiting(s.queue)  BY DEF InLine, Waiting
<1>2. PICK q : q = s.queue  OBVIOUS
<1>3. Len(q) \in Nat /\ Distinct(q) /\ Len(q) \in 0 .. Len(q)  BY <1>2
<1>4. Cardinality(Ahead(q, Len(q))) = Len(q)  BY <1>3, AheadCounted
<1>5. Ahead(q, Len(q)) = Waiting(q)  BY DEF Ahead, Waiting
<1> QED  BY <1>1, <1>2, <1>4, <1>5

LEMMA SinglyCounted ==
  ASSUME NEW s, NEW most, NEW D, NEW H, NEW W, Singly(s, most, D, H, W)
  PROVE  InLine(s) = W /\ Cardinality(InLine(s)) = Len(s.queue) /\ s.free + Cardinality(H) = most
<1>1. Len(s.queue) \in Nat /\ DOMAIN s.queue = 1 .. Len(s.queue) /\ Distinct(s.queue)  BY DEF Singly
<1>2. InLine(s) = Waiting(s.queue) /\ Cardinality(InLine(s)) = Len(s.queue)  BY <1>1, QueueCounted
<1> QED  BY <1>2 DEF Singly

LEMMA MeteredCounted ==
  ASSUME NEW s, NEW most, NEW D, NEW held, NEW wants, NEW W, Metered(s, most, D, held, wants, W)
  PROVE  InLine(s) = W /\ Cardinality(InLine(s)) = Len(s.queue) /\ s.free + Total(held, D) = most
<1>1. Len(s.queue) \in Nat /\ DOMAIN s.queue = 1 .. Len(s.queue) /\ Distinct(s.queue)  BY DEF Metered
<1>2. InLine(s) = Waiting(s.queue) /\ Cardinality(InLine(s)) = Len(s.queue)  BY <1>1, QueueCounted
<1> QED  BY <1>2 DEF Metered

LEMMA BudgetFollows == ASSUME DownloadsInv PROVE BudgetKept
<1>1. PICK H, I, W, V, U :
        /\ H = AtStep(step, Inside) /\ I = AtStep(step, {"storing"})
        /\ W = AtStep(step, {"awaitSlot"}) /\ V = AtStep(step, Hungry) /\ U = AtStep(step, {"awaitIo"})  OBVIOUS
<1>2. Singly(slots, Slots, Downloads, H, W) /\ Singly(io, 1, Downloads, I, U) /\ Metered(bytes, Budget, Downloads, reserved, WantsAt(step), V)
  BY <1>1, Unfolded DEF SlotsRight, IoRight, BytesRight
<1>3. InLine(slots) = W /\ Cardinality(InLine(slots)) = Len(slots.queue) /\ slots.free + Cardinality(H) = Slots  BY <1>2, SinglyCounted
<1>4. InLine(io) = U /\ Cardinality(InLine(io)) = Len(io.queue) /\ io.free + Cardinality(I) = 1  BY <1>2, SinglyCounted
<1>5. InLine(bytes) = V /\ Cardinality(InLine(bytes)) = Len(bytes.queue) /\ bytes.free + Total(reserved, Downloads) = Budget  BY <1>2, MeteredCounted
<1>6. H = {d \in Downloads : step[d] \notin {"new", "awaitSlot", "settled"}}  BY <1>1, Unfolded DEF AtStep, Inside
<1>7. /\ I = {d \in Downloads : step[d] = "storing"} /\ W = {d \in Downloads : step[d] = "awaitSlot"}
      /\ V = {d \in Downloads : step[d] \in {"awaitBytes", "awaitMore"}} /\ U = {d \in Downloads : step[d] = "awaitIo"}  BY <1>1 DEF AtStep, Hungry
<1>8. PermitsConserved
  <2>1. slots.free + Cardinality({d \in Downloads : step[d] \notin {"new", "awaitSlot", "settled"}}) = Slots  BY <1>3, <1>6, Zenon
  <2>2. io.free + Cardinality({d \in Downloads : step[d] = "storing"}) = 1  BY <1>4, <1>7, Zenon
  <2>3. bytes.free + MapThenSumSet(LAMBDA d : reserved[d], Downloads) = Budget  BY <1>5 DEF Total
  <2> QED  BY <2>1, <2>2, <2>3 DEF PermitsConserved
<1>9. WaitersQueued  BY <1>3, <1>4, <1>5, <1>7, Zenon DEF WaitersQueued
<1>10. DiskWithinBudget  BY Unfolded DEF DiskWithinBudget, DiskRight
<1> QED  BY <1>8, <1>9, <1>10 DEF BudgetKept

(* Whatever streams hold, fail or give up, and however many: the permits   *)
(* of the three semaphores are free or held, the waiters are in the        *)
(* queues, and every byte on disk is paid for (semaphore.ts:38-91,         *)
(* MediaStorage.ts:108-160).                                               *)
THEOREM BudgetStaysKept == DownloadsSpec => []BudgetKept
<1>1. DownloadsInit => DownloadsInv  BY DownloadsInitially
<1>2. DownloadsInv /\ [DownloadsNext]_downloadsVars => DownloadsInv'  BY DownloadsKeep
<1>3. DownloadsInv => BudgetKept  BY BudgetFollows
<1> QED  BY <1>1, <1>2, <1>3, PTL DEF DownloadsSpec

-----------------------------------------------------------------------------
(* The console's sessions.  One that is gone is over, or as many have been *)
(* issued since as there may be.                                           *)
SessionSound(id) ==
  IF id \in DOMAIN sessions THEN sessions[id] = issued[id] + SessionTtl /\ id \notin signedOut
  ELSE id \in signedOut \/ now >= issued[id] + SessionTtl \/ Len(issued) - id >= MaxSessions

Signed ==
  /\ signedOut \subseteq 1 .. Len(issued) /\ DOMAIN cookie = Browsers /\ \A b \in Browsers : cookie[b] \in 0 .. Len(issued)

SessionsInv ==
  /\ now \in Nat /\ issued \in Seq(Nat) /\ Signed
  /\ DOMAIN sessions \subseteq 1 .. Len(issued) /\ Cardinality(DOMAIN sessions) <= MaxSessions
  /\ \A id \in 1 .. Len(issued) : SessionSound(id)

LEMMA FewNumbers ==
  ASSUME NEW n \in Nat, NEW D, D \subseteq 1 .. n
  PROVE  IsFiniteSet(D) /\ Cardinality(D) \in Nat /\ \A E \in SUBSET D : IsFiniteSet(E) /\ Cardinality(E) \in Nat /\ Cardinality(E) <= Cardinality(D)
<1>1. IsFiniteSet(1 .. n)  BY FS_Interval
<1>2. IsFiniteSet(D)  BY <1>1, FS_Subset
<1> QED  BY <1>2, FS_Subset, FS_CardinalityType

(* Of as many numbers there are as many above the least.                   *)
LEMMA LeastBelow ==
  ASSUME NEW n \in Nat, NEW D, D \subseteq 1 .. n, D # {}
  PROVE  Min(D) \in D /\ n - Min(D) >= Cardinality(D) - 1
<1>1. \E x \in D : \A y \in D : x <= y
  <2>1. D \subseteq Nat  OBVIOUS
  <2> QED  BY <2>1, Least
<1>2. PICK m : m = Min(D)  OBVIOUS
<1>3. m \in D /\ \A y \in D : m <= y
  <2>1. m = CHOOSE x \in D : \A y \in D : x <= y  BY <1>2, Zenon DEF Min
  <2> QED  BY <1>1, <2>1, Zenon
<1>4. m \in 1 .. n /\ D \subseteq m .. n  BY <1>3
<1>5. IsFiniteSet(m .. n) /\ Cardinality(m .. n) = n - m + 1
  <2>1. m \in Int /\ n \in Int /\ ~(m > n)  BY <1>4
  <2> QED  BY <2>1, FS_Interval
<1>6. Cardinality(D) <= Cardinality(m .. n)  BY <1>4, <1>5, FS_Subset, Zenon
<1>7. Cardinality(D) \in Nat  BY FewNumbers
<1> QED  BY <1>2, <1>3, <1>4, <1>5, <1>6, <1>7

(* A step that drops sessions which are over.                              *)
Drops(gone) ==
  /\ sessions' = MapDelete(sessions, gone) /\ issued' = issued /\ now' = now
  /\ signedOut \subseteq signedOut' /\ signedOut' \ signedOut \subseteq gone
  /\ \A id \in gone \cap DOMAIN sessions : id \in signedOut' \/ now >= issued[id] + SessionTtl

LEMMA DropsKept ==
  ASSUME SessionsInv, NEW gone, Drops(gone), Signed'
  PROVE  SessionsInv'
<1>1. DOMAIN sessions' = DOMAIN sessions \ gone /\ \A id \in DOMAIN sessions \ gone : sessions'[id] = sessions[id]
  <2>1. sessions' = [id \in DOMAIN sessions \ gone |-> sessions[id]]  BY DEF Drops, MapDelete
  <2> QED  BY <2>1
<1>2. Cardinality(DOMAIN sessions') <= MaxSessions
  <2>1. Len(issued) \in Nat /\ DOMAIN sessions \subseteq 1 .. Len(issued) /\ Cardinality(DOMAIN sessions) <= MaxSessions /\ MaxSessions \in Nat
    BY ConsoleAssumption DEF SessionsInv
  <2>2. PICK E : E = DOMAIN sessions' /\ E \in SUBSET DOMAIN sessions  BY <1>1
  <2>3. Cardinality(E) <= Cardinality(DOMAIN sessions) /\ Cardinality(E) \in Nat /\ Cardinality(DOMAIN sessions) \in Nat  BY <2>1, <2>2, FewNumbers
  <2> QED  BY <2>1, <2>2, <2>3
<1>3. ASSUME NEW id \in 1 .. Len(issued) PROVE SessionSound(id)'
  <2>1. SessionSound(id) /\ issued' = issued /\ now' = now /\ signedOut \subseteq signedOut' /\ signedOut' \ signedOut \subseteq gone  BY DEF SessionsInv, Drops
  <2>2. CASE id \in DOMAIN sessions'
    <3>1. id \in DOMAIN sessions /\ id \notin gone /\ sessions'[id] = sessions[id]  BY <1>1, <2>2
    <3> QED  BY <2>1, <2>2, <3>1 DEF SessionSound
  <2>3. CASE id \notin DOMAIN sessions'
    <3>1. CASE id \in DOMAIN sessions
      <4>1. id \in gone \cap DOMAIN sessions  BY <1>1, <2>3, <3>1
      <4> QED  BY <2>1, <2>3, <4>1 DEF SessionSound, Drops
    <3>2. CASE id \notin DOMAIN sessions  BY <2>1, <2>3, <3>2 DEF SessionSound
    <3> QED  BY <3>1, <3>2
  <2> QED  BY <2>2, <2>3
<1> QED  BY <1>1, <1>2, <1>3 DEF SessionsInv, Drops

LEMMA ExpiredOver == ASSUME SessionsInv, NEW id \in Expired PROVE id \in DOMAIN sessions /\ now >= issued[id] + SessionTtl
<1>1. id \in 1 .. Len(issued) /\ id \in DOMAIN sessions /\ sessions[id] <= now  BY DEF Expired, SessionsInv
<1>2. sessions[id] = issued[id] + SessionTtl /\ issued[id] \in Nat /\ now \in Nat  BY <1>1 DEF SessionsInv, SessionSound
<1> QED  BY <1>1, <1>2, ConsoleAssumption

LEMMA RefreshKept == ASSUME SessionsInv, NEW b \in Browsers, Refresh(b) PROVE SessionsInv'
<1>1. UNCHANGED <<cookie, issued, signedOut, now>> /\ Verified(b)  BY Zenon DEF Refresh, Spend
<1>2. Drops(Expired \cap {cookie[b]})  BY <1>1, ExpiredOver DEF Drops, Verified
<1>3. Signed'  BY <1>1 DEF SessionsInv, Signed
<1> QED  BY <1>2, <1>3, DropsKept

LEMMA LogoutKept == ASSUME SessionsInv, NEW b \in Browsers, Logout(b) PROVE SessionsInv'
<1>1. /\ UNCHANGED <<issued, now>> /\ sessions' = MapDelete(sessions, {cookie[b]}) /\ cookie[b] # 0
      /\ signedOut' = signedOut \cup {cookie[b]} /\ cookie' = [cookie EXCEPT ![b] = 0]
  BY Zenon DEF Logout, Spend
<1>2. Drops({cookie[b]})  BY <1>1 DEF Drops
<1>3. cookie[b] \in 1 .. Len(issued)  BY <1>1 DEF SessionsInv, Signed
<1>4. Signed'
  <2>1. signedOut' \subseteq 1 .. Len(issued')  BY <1>1, <1>3 DEF SessionsInv, Signed
  <2>2. DOMAIN cookie' = Browsers /\ \A c \in Browsers : cookie'[c] = IF c = b THEN 0 ELSE cookie[c]  BY <1>1 DEF SessionsInv, Signed
  <2>3. 0 \in 0 .. Len(issued)  BY DEF SessionsInv
  <2>4. \A c \in Browsers : cookie'[c] \in 0 .. Len(issued')  BY <1>1, <2>2, <2>3 DEF SessionsInv, Signed
  <2> QED  BY <2>1, <2>2, <2>4 DEF Signed
<1> QED  BY <1>2, <1>4, DropsKept

LEMMA SessionsTick == ASSUME SessionsInv, Tick, UNCHANGED consoleVars PROVE SessionsInv'
<1>1. now' = now + 1 /\ UNCHANGED <<sessions, cookie, issued, signedOut>>  BY Zenon DEF Tick, consoleVars
<1>2. Signed'  BY <1>1 DEF SessionsInv, Signed
<1>3. ASSUME NEW id \in 1 .. Len(issued) PROVE SessionSound(id)'
  <2>1. SessionSound(id) /\ now \in Nat /\ issued[id] \in Nat  BY DEF SessionsInv
  <2> QED  BY <1>1, <2>1, ConsoleAssumption DEF SessionSound
<1> QED  BY <1>1, <1>2, <1>3 DEF SessionsInv

(* A login adds the next number; what is dropped was over, or has as many  *)
(* after it as there may be.                                               *)
LEMMA Issued ==
  ASSUME SessionsInv, Issue, NEW n \in Nat, n = Len(issued) + 1
  PROVE  /\ DOMAIN sessions' \subseteq 1 .. n /\ Cardinality(DOMAIN sessions') <= MaxSessions
         /\ \A id \in DOMAIN sessions' : sessions'[id] = IF id = n THEN now + SessionTtl ELSE sessions[id]
         /\ \A id \in 1 .. n : id \in DOMAIN sessions' \/ n - id >= MaxSessions \/ (id < n /\ (id \in DOMAIN sessions => id \in Expired))
<1>1. PICK added : added = MapSet(Unexpired, {n}, now + SessionTtl)  OBVIOUS
<1>2. sessions' = IF Cardinality(DOMAIN added) > MaxSessions THEN MapDelete(added, {Min(DOMAIN added)}) ELSE added  BY <1>1, Zenon DEF Issue
<1>3. PICK D : D = DOMAIN added  OBVIOUS
<1>4. DOMAIN Unexpired = DOMAIN sessions \ Expired /\ \A id \in DOMAIN sessions \ Expired : Unexpired[id] = sessions[id]
  <2>1. Unexpired = [id \in DOMAIN sessions \ Expired |-> sessions[id]]  BY DEF Unexpired, MapDelete
  <2> QED  BY <2>1
<1>5. Len(issued) \in Nat /\ DOMAIN sessions \subseteq 1 .. Len(issued) /\ n \notin DOMAIN sessions  BY DEF SessionsInv
<1>6. D = (DOMAIN sessions \ Expired) \cup {n}  BY <1>1, <1>3, <1>4 DEF MapSet
<1>7. \A id \in D : added[id] = IF id = n THEN now + SessionTtl ELSE sessions[id]
  <2>1. added[n] = now + SessionTtl  BY <1>1 DEF MapSet
  <2>2. ASSUME NEW id \in D, id # n PROVE added[id] = sessions[id]
    <3>1. id \in DOMAIN sessions \ Expired  BY <1>6, <2>2
    <3> QED  BY <1>1, <1>4, <2>2, <3>1 DEF MapSet
  <2> QED  BY <2>1, <2>2
<1>8. D \subseteq 1 .. n  BY <1>5, <1>6
<1>9. MaxSessions \in Nat /\ Cardinality(D) \in Nat /\ Cardinality(D) <= MaxSessions + 1
  <2>1. PICK E : E = DOMAIN sessions \ Expired  OBVIOUS
  <2>2. IsFiniteSet(E) /\ Cardinality(E) \in Nat /\ Cardinality(E) <= Cardinality(DOMAIN sessions) /\ Cardinality(DOMAIN sessions) \in Nat  BY <1>5, <2>1, FewNumbers
  <2>3. Cardinality(D) = Cardinality(E) + 1  BY <1>5, <1>6, <2>1, <2>2, FS_AddElement
  <2>4. Cardinality(DOMAIN sessions) <= MaxSessions  BY DEF SessionsInv
  <2> QED  BY <2>2, <2>3, <2>4, ConsoleAssumption
<1>10. \A id \in 1 .. n : id \notin D => id < n /\ (id \in DOMAIN sessions => id \in Expired)  BY <1>6
<1>11. CASE Cardinality(D) <= MaxSessions
  <2>1. sessions' = added  BY <1>2, <1>3, <1>9, <1>11
  <2> QED  BY <1>3, <1>7, <1>8, <1>10, <1>11, <2>1
<1>12. CASE Cardinality(D) > MaxSessions
  <2>1. PICK m : m = Min(D) /\ m \in D /\ n - m >= Cardinality(D) - 1  BY <1>6, <1>8, LeastBelow
  <2>2. sessions' = [id \in D \ {m} |-> added[id]]  BY <1>2, <1>3, <1>12, <2>1 DEF MapDelete
  <2>3. DOMAIN sessions' = D \ {m} /\ \A id \in D \ {m} : sessions'[id] = added[id]  BY <2>2
  <2>4. Cardinality(D \ {m}) = Cardinality(D) - 1
    <3>1. IsFiniteSet(D)  BY <1>8, FewNumbers
    <3> QED  BY <2>1, <3>1, FS_RemoveElement
  <2>5. n - m >= MaxSessions  BY <1>8, <1>9, <1>12, <2>1
  <2>6. Cardinality(DOMAIN sessions') <= MaxSessions  BY <1>9, <2>3, <2>4
  <2> QED  BY <1>7, <1>8, <1>10, <2>3, <2>5, <2>6
<1> QED  BY <1>3, <1>9, <1>11, <1>12

LEMMA SignedOn ==
  ASSUME SessionsInv, NEW b \in Browsers, Issue, issued' = Append(issued, now), now' = now, signedOut' = signedOut,
         cookie' = [cookie EXCEPT ![b] = Len(issued) + 1]
  PROVE  SessionsInv'
<1>1. PICK n \in Nat : n = Len(issued) + 1  BY DEF SessionsInv
<1>2. issued' \in Seq(Nat) /\ Len(issued') = n /\ issued'[n] = now /\ \A id \in 1 .. Len(issued) : issued'[id] = issued[id]  BY <1>1 DEF SessionsInv
<1>3. Signed'
  <2>1. signedOut' \subseteq 1 .. Len(issued')  BY <1>1, <1>2 DEF SessionsInv, Signed
  <2>2. DOMAIN cookie' = Browsers /\ \A c \in Browsers : cookie'[c] = IF c = b THEN n ELSE cookie[c]  BY <1>1 DEF SessionsInv, Signed
  <2>3. n \in 0 .. n /\ 0 .. Len(issued) \subseteq 0 .. n  BY <1>1
  <2>4. \A c \in Browsers : cookie'[c] \in 0 .. Len(issued')  BY <1>2, <2>2, <2>3 DEF SessionsInv, Signed
  <2> QED  BY <2>1, <2>2, <2>4 DEF Signed
<1>4. /\ DOMAIN sessions' \subseteq 1 .. n /\ Cardinality(DOMAIN sessions') <= MaxSessions
      /\ \A id \in DOMAIN sessions' : sessions'[id] = IF id = n THEN now + SessionTtl ELSE sessions[id]
      /\ \A id \in 1 .. n : id \in DOMAIN sessions' \/ n - id >= MaxSessions \/ (id < n /\ (id \in DOMAIN sessions => id \in Expired))
  BY <1>1, Issued
<1>5. ASSUME NEW id \in DOMAIN sessions', id # n PROVE id \in DOMAIN sessions
  <2>1. sessions' = IF Cardinality(DOMAIN (MapSet(Unexpired, {n}, now + SessionTtl))) > MaxSessions
                    THEN MapDelete(MapSet(Unexpired, {n}, now + SessionTtl), {Min(DOMAIN (MapSet(Unexpired, {n}, now + SessionTtl)))})
                    ELSE MapSet(Unexpired, {n}, now + SessionTtl)
    BY <1>1, Zenon DEF Issue
  <2>2. DOMAIN sessions' \subseteq DOMAIN (MapSet(Unexpired, {n}, now + SessionTtl))  BY <2>1 DEF MapDelete
  <2>3. DOMAIN (MapSet(Unexpired, {n}, now + SessionTtl)) = {n} \cup DOMAIN Unexpired  BY DEF MapSet
  <2> QED  BY <1>5, <2>2, <2>3 DEF Unexpired, MapDelete
<1>6. ASSUME NEW id \in 1 .. n PROVE SessionSound(id)'
  <2>1. CASE id = n
    <3>1. n \notin signedOut' /\ issued'[n] = now  BY <1>1, <1>2 DEF SessionsInv, Signed
    <3>2. n \in DOMAIN sessions' => sessions'[n] = now + SessionTtl  BY <1>4
    <3>3. n \in DOMAIN sessions' \/ n - n >= MaxSessions  BY <1>4, <2>1
    <3> QED  BY <1>2, <2>1, <3>1, <3>2, <3>3 DEF SessionSound
  <2>2. CASE id # n
    <3>1. id \in 1 .. Len(issued) /\ SessionSound(id) /\ issued'[id] = issued[id]  BY <1>1, <1>2, <2>2 DEF SessionsInv
    <3>2. CASE id \in DOMAIN sessions'
      <4>1. id \in DOMAIN sessions /\ sessions'[id] = sessions[id]  BY <1>4, <1>5, <2>2, <3>2
      <4> QED  BY <3>1, <3>2, <4>1 DEF SessionSound
    <3>3. CASE id \notin DOMAIN sessions'
      <4>1. n - id >= MaxSessions \/ (id \in DOMAIN sessions => id \in Expired)  BY <1>4, <3>3
      <4>2. CASE n - id >= MaxSessions  BY <1>2, <3>3, <4>2 DEF SessionSound
      <4>3. CASE id \in Expired
        <5>1. now >= issued[id] + SessionTtl  BY <4>3, ExpiredOver
        <5> QED  BY <3>1, <3>3, <5>1 DEF SessionSound
      <4>4. CASE id \notin DOMAIN sessions
        <5>1. id \in signedOut \/ now >= issued[id] + SessionTtl \/ Len(issued) - id >= MaxSessions  BY <3>1, <4>4 DEF SessionSound
        <5>2. Len(issued) - id >= MaxSessions => n - id >= MaxSessions  BY <1>1, <3>1, ConsoleAssumption
        <5> QED  BY <1>2, <3>1, <3>3, <5>1, <5>2 DEF SessionSound
      <4> QED  BY <4>1, <4>2, <4>3, <4>4
    <3> QED  BY <3>2, <3>3
  <2> QED  BY <2>1, <2>2
<1> QED  BY <1>2, <1>3, <1>4, <1>6 DEF SessionsInv

(* A step that leaves the sessions alone. *)
LEMMA SessionsLast == ASSUME SessionsInv, UNCHANGED <<sessions, cookie, issued, signedOut, now>> PROVE SessionsInv'
<1>1. \A id \in 1 .. Len(issued) : SessionSound(id)'  BY DEF SessionsInv, SessionSound
<1> QED  BY <1>1 DEF SessionsInv, Signed

LEMMA LoginKept == ASSUME SessionsInv, NEW b \in Browsers, NEW right \in BOOLEAN, Login(b, right) PROVE SessionsInv'
<1>1. UNCHANGED <<signedOut, now>>  BY Zenon DEF Login, Spend
<1>2. \/ UNCHANGED <<sessions, cookie, issued>>
      \/ Issue /\ issued' = Append(issued, now) /\ cookie' = [cookie EXCEPT ![b] = Len(issued) + 1]
  BY Zenon DEF Login
<1> QED  BY <1>1, <1>2, SignedOn, SessionsLast

LEMMA SessionsStep == ASSUME SessionsInv, ConsoleNext PROVE SessionsInv'
<1>1. ASSUME NEW n \in 0 .. MaxReloads, ListFiles(n) \/ ReadPlugin(n) \/ Apply(n) PROVE SessionsInv'
  <2>1. UNCHANGED <<stage, sessionVars>>  BY <1>1, Zenon DEF ListFiles, ReadPlugin, Apply
  <2>2. UNCHANGED <<sessions, cookie, issued, signedOut, now>>  BY <2>1, Zenon DEF stage, sessionVars
  <2> QED  BY <2>2, SessionsLast
<1>2. ASSUME NEW f, NEW p, Deploys(f, p) PROVE SessionsInv'
  <2>1. now' = now /\ UNCHANGED sessionVars  BY <1>2, Zenon DEF Deploys, Spend
  <2>2. UNCHANGED <<sessions, cookie, issued, signedOut, now>>  BY <2>1, Zenon DEF sessionVars
  <2> QED  BY <2>2, SessionsLast
<1>3. ASSUME NEW b, Reload(b) PROVE SessionsInv'
  <2>1. now' = now /\ UNCHANGED sessionVars  BY <1>3, Zenon DEF Reload, Spend
  <2>2. UNCHANGED <<sessions, cookie, issued, signedOut, now>>  BY <2>1, Zenon DEF sessionVars
  <2> QED  BY <2>2, SessionsLast
<1> QED  BY <1>1, <1>2, <1>3, LoginKept, RefreshKept, LogoutKept, SessionsTick, Zenon DEF ConsoleNext

LEMMA SessionsFollow == ASSUME SessionsInv PROVE SessionKept
<1> SUFFICES ASSUME NEW id \in 1 .. Len(issued)
             PROVE  IF Alive(id) THEN ~(id \in signedOut \/ now >= issued[id] + SessionTtl)
                    ELSE (id \in signedOut \/ now >= issued[id] + SessionTtl) \/ Len(issued) - id >= MaxSessions
  BY Zenon DEF SessionKept
<1>1. SessionSound(id) /\ issued[id] \in Nat /\ now \in Nat /\ SessionTtl \in Nat  BY ConsoleAssumption DEF SessionsInv
<1> QED  BY <1>1 DEF SessionSound, Alive
-----------------------------------------------------------------------------
(* The registry.  Lists of tools, and the two folds over them (FoldLeft of *)
(* the library, which takes the elements by their places, the last first). *)
ListOf(q) == q \in Seq(ToSet(q))

LEMMA Lists == ASSUME NEW T, NEW q \in Seq(T) PROVE ListOf(q) /\ ToSet(q) \subseteq T
<1>1. DOMAIN q = 1 .. Len(q) /\ Len(q) \in Nat /\ \A i \in 1 .. Len(q) : q[i] \in T /\ q[i] \in ToSet(q)  BY DEF ToSet
<1>2. q = [i \in 1 .. Len(q) |-> q[i]]  BY <1>1
<1>3. q \in [1 .. Len(q) -> ToSet(q)]  BY <1>1, <1>2
<1>4. q \in Seq(ToSet(q))  BY <1>1, <1>3
<1> QED  BY <1>1, <1>4 DEF ListOf, ToSet

LEMMA Joined ==
  ASSUME NEW a, ListOf(a), NEW b, ListOf(b)
  PROVE  ListOf(a \o b) /\ ToSet(a \o b) \subseteq ToSet(a) \cup ToSet(b)
<1>1. a \in Seq(ToSet(a) \cup ToSet(b)) /\ b \in Seq(ToSet(a) \cup ToSet(b))
  <2> DEFINE A == ToSet(a)  B == ToSet(b)
  <2>1. a \in Seq(A) /\ b \in Seq(B)  BY DEF ListOf
  <2> HIDE DEF A, B
  <2>2. a \in Seq(A \cup B) /\ b \in Seq(A \cup B)  BY <2>1
  <2> QED  BY <2>2 DEF A, B
<1>2. PICK T : T = ToSet(a) \cup ToSet(b)  OBVIOUS
<1>3. a \o b \in Seq(T)  BY <1>1, <1>2
<1> QED  BY <1>2, <1>3, Lists

LEMMA Longer ==
  ASSUME NEW q, ListOf(q), NEW e
  PROVE  ListOf(Append(q, e)) /\ ToSet(Append(q, e)) = ToSet(q) \cup {e}
<1> DEFINE T == ToSet(q) \cup {e}
<1>1. q \in Seq(T)  
  <2> DEFINE A == ToSet(q)
  <2>1. q \in Seq(A)  BY DEF ListOf
  <2> HIDE DEF A
  <2>2. q \in Seq(A \cup {e})  BY <2>1
  <2> QED  BY <2>2 DEF A
<1>2. Append(q, e) \in Seq(T)  BY <1>1
<1>3. ListOf(Append(q, e)) /\ ToSet(Append(q, e)) \subseteq T  BY <1>2, Lists
<1>4. ASSUME NEW x \in T PROVE x \in ToSet(Append(q, e))
  <2>1. Len(q) \in Nat /\ Len(Append(q, e)) = Len(q) + 1 /\ DOMAIN Append(q, e) = 1 .. Len(q) + 1 /\ DOMAIN q = 1 .. Len(q)  BY <1>1
  <2>2. CASE x = e
    <3>1. Append(q, e)[Len(q) + 1] = e /\ Len(q) + 1 \in DOMAIN Append(q, e)  BY <1>1, <2>1
    <3> QED  BY <2>2, <3>1 DEF ToSet
  <2>3. CASE x \in ToSet(q)
    <3>1. PICK i \in 1 .. Len(q) : q[i] = x  BY <2>1, <2>3 DEF ToSet
    <3>2. Append(q, e)[i] = x /\ i \in DOMAIN Append(q, e)  BY <1>1, <2>1, <3>1
    <3> QED  BY <3>2 DEF ToSet
  <2> QED  BY <2>2, <2>3
<1> QED  BY <1>3, <1>4

FromNone(kind) == IF kind = "exports" THEN <<>> ELSE [tools |-> <<>>, commands |-> <<>>]
Stepped(kind, acc, t) == IF kind = "exports" THEN Exported(acc, t) ELSE Entered(acc, t)

Along(kind, q, n, h) == h = [s \in SUBSET (1 .. n) |-> IF s = {} THEN FromNone(kind) ELSE Stepped(kind, h[s \ {Max(s)}], q[Max(s)])]

LEMMA TopIn == ASSUME NEW n \in Nat, NEW s \in SUBSET (1 .. n), s # {} PROVE Max(s) \in s
<1>1. s \subseteq 0 .. n  OBVIOUS
<1> QED  BY <1>1, Largest

LEMMA Top == ASSUME NEW n \in Nat, NEW s \in SUBSET (1 .. n), n \in s PROVE Max(s) = n
<1>1. \A x \in s : (\A y \in s : x >= y) <=> x = n  OBVIOUS
<1>2. n \in s /\ \A y \in s : n >= y  BY <1>1
<1>3. PICK m : m = CHOOSE x \in s : \A y \in s : x >= y  OBVIOUS
<1>4. m \in s /\ \A y \in s : m >= y  BY <1>2, <1>3, Zenon
<1>5. m = n  BY <1>1, <1>4
<1> QED  BY <1>3, <1>5 DEF Max

LEMMA Followed ==
  ASSUME NEW kind, NEW q, NEW n \in Nat
  PROVE  \E h : Along(kind, q, n, h)
<1> DEFINE N == {k \in Nat : \E h : Along(kind, q, k, h)}
<1>1. 0 \in N
  <2>1. PICK h : h = [s \in SUBSET (1 .. 0) |-> FromNone(kind)]  OBVIOUS
  <2>2. \A s \in SUBSET (1 .. 0) : s = {}  OBVIOUS
  <2>3. h = [s \in SUBSET (1 .. 0) |-> IF s = {} THEN FromNone(kind) ELSE Stepped(kind, h[s \ {Max(s)}], q[Max(s)])]  BY <2>1, <2>2
  <2> QED  BY <2>3 DEF Along
<1>2. ASSUME NEW k \in Nat, k \in N PROVE k + 1 \in N
  <2>1. PICK g : Along(kind, q, k, g)  BY <1>2
  <2>2. PICK h : h = [s \in SUBSET (1 .. k + 1) |-> IF k + 1 \in s THEN Stepped(kind, g[s \ {k + 1}], q[k + 1]) ELSE g[s]]  OBVIOUS
  <2>3. \A s \in SUBSET (1 .. k + 1) : s \ {k + 1} \in SUBSET (1 .. k) /\ s \ {k + 1} \in SUBSET (1 .. k + 1)  OBVIOUS
  <2>4. \A s \in SUBSET (1 .. k) : h[s] = g[s] /\ s \in SUBSET (1 .. k + 1)
    <3>1. \A s \in SUBSET (1 .. k) : s \in SUBSET (1 .. k + 1) /\ k + 1 \notin s  OBVIOUS
    <3> QED  BY <2>2, <3>1
  <2>5. ASSUME NEW s \in SUBSET (1 .. k + 1) PROVE h[s] = IF s = {} THEN FromNone(kind) ELSE Stepped(kind, h[s \ {Max(s)}], q[Max(s)])
    <3>1. CASE k + 1 \in s
      <4>1. Max(s) = k + 1 /\ s # {}  BY <3>1, Top
      <4>2. h[s] = Stepped(kind, g[s \ {k + 1}], q[k + 1])  BY <2>2, <3>1
      <4>3. h[s \ {k + 1}] = g[s \ {k + 1}]  BY <2>3, <2>4
      <4> QED  BY <4>1, <4>2, <4>3
    <3>2. CASE k + 1 \notin s
      <4>1. s \in SUBSET (1 .. k)  BY <3>2
      <4>2. g[s] = IF s = {} THEN FromNone(kind) ELSE Stepped(kind, g[s \ {Max(s)}], q[Max(s)])  BY <2>1, <4>1, Zenon DEF Along
      <4>3. s \ {Max(s)} \in SUBSET (1 .. k)  BY <4>1
      <4>4. h[s] = g[s] /\ h[s \ {Max(s)}] = g[s \ {Max(s)}]  BY <2>4, <4>1, <4>3
      <4> QED  BY <4>2, <4>4
    <3> QED  BY <3>1, <3>2
  <2>6. h = [s \in SUBSET (1 .. k + 1) |-> h[s]]  BY <2>2
  <2>7. Along(kind, q, k + 1, h)  BY <2>5, <2>6 DEF Along
  <2> QED  BY <2>7
<1>3. \A k \in Nat : k \in N
  <2> HIDE DEF N
  <2> QED  BY <1>1, <1>2, NumbersReached
<1> QED  BY <1>3

LEMMA FirstOnes ==
  ASSUME NEW kind, NEW q, NEW n \in Nat, NEW h, Along(kind, q, n, h)
  PROVE  h[1 .. 0] = FromNone(kind) /\ \A k \in Nat : k < n => h[1 .. k + 1] = Stepped(kind, h[1 .. k], q[k + 1])
<1>1. \A s \in SUBSET (1 .. n) : h[s] = IF s = {} THEN FromNone(kind) ELSE Stepped(kind, h[s \ {Max(s)}], q[Max(s)])  BY Zenon DEF Along
<1>2. 1 .. 0 = {} /\ 1 .. 0 \in SUBSET (1 .. n)  OBVIOUS
<1>3. ASSUME NEW k \in Nat, k < n PROVE h[1 .. k + 1] = Stepped(kind, h[1 .. k], q[k + 1])
  <2>1. 1 .. k + 1 \in SUBSET (1 .. n) /\ 1 .. k + 1 # {} /\ 1 .. k + 1 \in SUBSET (1 .. k + 1) /\ k + 1 \in 1 .. k + 1 /\ k + 1 \in Nat  BY <1>3
  <2>2. Max(1 .. k + 1) = k + 1  BY <2>1, Top
  <2>3. (1 .. k + 1) \ {k + 1} = 1 .. k  OBVIOUS
  <2> QED  BY <1>1, <2>1, <2>2, <2>3, Zenon
<1> QED  BY <1>1, <1>2, <1>3

(* What a file exports is a list. *)
Exporting(q, h) == h = [s \in SUBSET DOMAIN q |-> IF s = {} THEN <<>> ELSE Exported(h[s \ {Max(s)}], q[Max(s)])]

LEMMA InstancesList == ASSUME NEW p, ListOf(p.tools) PROVE ListOf(Instances(p))
<1>1. PICK q : q = p.tools  OBVIOUS
<1>2. PICK n \in Nat : n = Len(q) /\ DOMAIN q = 1 .. n  BY <1>1 DEF ListOf
<1>3. \A acc, t : Stepped("exports", acc, t) = Exported(acc, t) /\ FromNone("exports") = <<>>  BY DEF Stepped, FromNone
<1>4. ASSUME NEW h PROVE Exporting(q, h) <=> Along("exports", q, n, h)
  <2>1. PICK f : f = [s \in SUBSET DOMAIN q |-> IF s = {} THEN <<>> ELSE Exported(h[s \ {Max(s)}], q[Max(s)])]  OBVIOUS
  <2>2. PICK g : g = [s \in SUBSET (1 .. n) |-> IF s = {} THEN FromNone("exports") ELSE Stepped("exports", h[s \ {Max(s)}], q[Max(s)])]  OBVIOUS
  <2>3. f = g  BY <1>2, <1>3, <2>1, <2>2
  <2> QED  BY <2>1, <2>2, <2>3, Zenon DEF Exporting, Along
<1>5. Instances(p) = (CHOOSE h : Exporting(q, h))[DOMAIN q]  BY <1>1 DEF Instances, FoldLeft, MapThenFoldSet, Exporting
<1>6. \E h : Exporting(q, h)  BY <1>4, Followed
<1>7. PICK h : h = CHOOSE g : Exporting(q, g)  OBVIOUS
<1>8. Along("exports", q, n, h)
  <2>1. Exporting(q, h)  BY <1>6, <1>7, Zenon
  <2> QED  BY <1>4, <2>1
<1>9. h[1 .. 0] = <<>> /\ \A k \in Nat : k < n => h[1 .. k + 1] = Exported(h[1 .. k], q[k + 1])
  <2>1. h[1 .. 0] = FromNone("exports") /\ \A k \in Nat : k < n => h[1 .. k + 1] = Stepped("exports", h[1 .. k], q[k + 1])  BY <1>8, FirstOnes
  <2> QED  BY <1>3, <2>1
<1> DEFINE N == {k \in Nat : k <= n => ListOf(h[1 .. k])}
<1>10. 0 \in N
  <2>1. ListOf(<<>>)  BY DEF ListOf
  <2> QED  BY <1>9, <2>1
<1>11. ASSUME NEW k \in Nat, k \in N PROVE k + 1 \in N
  <2> SUFFICES ASSUME k + 1 <= n PROVE ListOf(h[1 .. k + 1])  OBVIOUS
  <2>1. ListOf(h[1 .. k]) /\ h[1 .. k + 1] = Exported(h[1 .. k], q[k + 1])  BY <1>9, <1>11
  <2>2. PICK g : g = h[1 .. k]  OBVIOUS
  <2>3. ListOf(Append(g, q[k + 1]))  BY <2>1, <2>2, Longer
  <2> QED  BY <2>1, <2>2, <2>3 DEF Exported
<1>12. \A k \in Nat : k \in N
  <2> HIDE DEF N
  <2> QED  BY <1>10, <1>11, NumbersReached
<1>13. ListOf(h[1 .. n])  BY <1>12
<1> QED  BY <1>2, <1>5, <1>7, <1>13

(* Tools answer to their names: no later tool takes the name of one that   *)
(* was entered, as that name is a command and could only be its alias.     *)
Answering(acc, T) ==
  /\ ListOf(acc.tools) /\ acc = [tools |-> acc.tools, commands |-> acc.commands]
  /\ \A t \in ToSet(acc.tools) : t \in T /\ t.name \in DOMAIN acc.commands /\ acc.commands[t.name] = t.name

LEMMA EnteredAnswers ==
  ASSUME NEW T, NEW acc, Answering(acc, T), NEW t \in T
  PROVE  Answering(Entered(acc, t), T)
<1>1. CASE (\E u \in ToSet(acc.tools) : u.name = t.name) \/ t.aliases \cap DOMAIN acc.commands # {}  BY <1>1 DEF Entered
<1>2. CASE ~((\E u \in ToSet(acc.tools) : u.name = t.name) \/ t.aliases \cap DOMAIN acc.commands # {})
  <2>1. PICK c : c = MapSet(acc.commands, {t.name} \cup t.aliases, t.name)  OBVIOUS
  <2>2. PICK new : new = [tools |-> Append(acc.tools, t), commands |-> c]  OBVIOUS
  <2>3. Entered(acc, t) = new
    <3>1. Entered(acc, t) = [acc EXCEPT !.tools = Append(@, t), !.commands = MapSet(@, {t.name} \cup t.aliases, t.name)]  BY <1>2, Zenon DEF Entered
    <3>2. acc = [tools |-> acc.tools, commands |-> acc.commands]  BY DEF Answering
    <3> QED  BY <2>1, <2>2, <3>1, <3>2
  <2>4. /\ DOMAIN c = DOMAIN acc.commands \cup {t.name} \cup t.aliases
        /\ \A k \in DOMAIN c : c[k] = IF k \in {t.name} \cup t.aliases THEN t.name ELSE acc.commands[k]
    <3>1. c = [k \in DOMAIN acc.commands \cup ({t.name} \cup t.aliases) |-> IF k \in {t.name} \cup t.aliases THEN t.name ELSE acc.commands[k]]  BY <2>1 DEF MapSet
    <3> QED  BY <3>1
  <2>5. ListOf(new.tools) /\ ToSet(new.tools) = ToSet(acc.tools) \cup {t}  BY <2>2, Longer DEF Answering
  <2>6. ASSUME NEW u \in ToSet(new.tools) PROVE u \in T /\ u.name \in DOMAIN c /\ c[u.name] = u.name
    <3>1. CASE u = t  BY <2>4, <3>1
    <3>2. CASE u \in ToSet(acc.tools)
      <4>1. u \in T /\ u.name \in DOMAIN acc.commands /\ acc.commands[u.name] = u.name  BY <3>2 DEF Answering
      <4>2. u.name # t.name /\ u.name \notin t.aliases  BY <1>2, <3>2, <4>1
      <4> QED  BY <2>4, <4>1, <4>2
    <3> QED  BY <2>5, <3>1, <3>2
  <2> QED  BY <2>2, <2>3, <2>5, <2>6 DEF Answering
<1> QED  BY <1>1, <1>2

Entering(q, h) == h = [s \in SUBSET DOMAIN q |-> IF s = {} THEN [tools |-> <<>>, commands |-> <<>>] ELSE Entered(h[s \ {Max(s)}], q[Max(s)])]

LEMMA EntriesAnswer == ASSUME NEW q, ListOf(q) PROVE Answering(Entries(q), ToSet(q))
<1>1. PICK n \in Nat : n = Len(q) /\ DOMAIN q = 1 .. n  BY DEF ListOf
<1>2. \A acc, t : Stepped("entries", acc, t) = Entered(acc, t) /\ FromNone("entries") = [tools |-> <<>>, commands |-> <<>>]  BY DEF Stepped, FromNone
<1>3. ASSUME NEW h PROVE Entering(q, h) <=> Along("entries", q, n, h)
  <2>1. PICK f : f = [s \in SUBSET DOMAIN q |-> IF s = {} THEN [tools |-> <<>>, commands |-> <<>>] ELSE Entered(h[s \ {Max(s)}], q[Max(s)])]  OBVIOUS
  <2>2. PICK g : g = [s \in SUBSET (1 .. n) |-> IF s = {} THEN FromNone("entries") ELSE Stepped("entries", h[s \ {Max(s)}], q[Max(s)])]  OBVIOUS
  <2>3. f = g  BY <1>1, <1>2, <2>1, <2>2
  <2> QED  BY <2>1, <2>2, <2>3, Zenon DEF Entering, Along
<1>4. Entries(q) = (CHOOSE h : Entering(q, h))[DOMAIN q]  BY DEF Entries, FoldLeft, MapThenFoldSet, Entering
<1>5. \E h : Entering(q, h)  BY <1>3, Followed
<1>6. PICK h : h = CHOOSE g : Entering(q, g)  OBVIOUS
<1>7. Along("entries", q, n, h)
  <2>1. Entering(q, h)  BY <1>5, <1>6, Zenon
  <2> QED  BY <1>3, <2>1
<1>8. h[1 .. 0] = [tools |-> <<>>, commands |-> <<>>] /\ \A k \in Nat : k < n => h[1 .. k + 1] = Entered(h[1 .. k], q[k + 1])
  <2>1. h[1 .. 0] = FromNone("entries") /\ \A k \in Nat : k < n => h[1 .. k + 1] = Stepped("entries", h[1 .. k], q[k + 1])  BY <1>7, FirstOnes
  <2> QED  BY <1>2, <2>1
<1> DEFINE N == {k \in Nat : k <= n => Answering(h[1 .. k], ToSet(q))}
<1>9. 0 \in N
  <2>1. PICK none : none = [tools |-> <<>>, commands |-> <<>>]  OBVIOUS
  <2>2. ListOf(none.tools) /\ ToSet(none.tools) = {}  BY <2>1 DEF ListOf, ToSet
  <2>3. Answering(none, ToSet(q))  BY <2>1, <2>2 DEF Answering
  <2> QED  BY <1>8, <2>1, <2>3
<1>10. ASSUME NEW k \in Nat, k \in N PROVE k + 1 \in N
  <2> SUFFICES ASSUME k + 1 <= n PROVE Answering(h[1 .. k + 1], ToSet(q))  OBVIOUS
  <2>1. PICK acc : acc = h[1 .. k]  OBVIOUS
  <2>2. Answering(acc, ToSet(q)) /\ h[1 .. k + 1] = Entered(acc, q[k + 1])  BY <1>8, <1>10, <2>1
  <2>3. k + 1 \in DOMAIN q /\ q[k + 1] \in ToSet(q)  BY <1>1 DEF ToSet
  <2> QED  BY <2>2, <2>3, EnteredAnswers
<1>11. \A k \in Nat : k \in N
  <2> HIDE DEF N
  <2> QED  BY <1>9, <1>10, NumbersReached
<1>12. Answering(h[1 .. n], ToSet(q))  BY <1>11
<1> QED  BY <1>1, <1>4, <1>6, <1>12
-----------------------------------------------------------------------------
(* A load reads when those asked for before it are done; what it got asks  *)
(* for no more than is allowed.                                            *)
ToolsListed(plugin) == plugin # None => ListOf(plugin.tools)
Granted(tools) == ListOf(tools) /\ \A t \in ToSet(tools) : t.perm \in Allowed
Rightful(t) == t \in ToSet(scene.core) \/ t.perm \in Allowed

Loading(load) ==
  /\ DOMAIN load = {"at", "files", "got"} /\ load.files \subseteq DOMAIN scene.files /\ Granted(load.got)

LoadSound(n) ==
  /\ Loading(loads[n])
  /\ n > generation => loads[n].at = "off"
  /\ n > 0 /\ loads[n].at \in {"reading", "done"} => \A m \in 1 .. n - 1 : loads[m].at = "done"

RegistryShape ==
  /\ scene \in Scenes /\ DOMAIN disk = DOMAIN scene.disk /\ \A f \in DOMAIN disk : ToolsListed(disk[f])
  /\ \A f \in DOMAIN modules : ToolsListed(modules[f])
  /\ generation \in 0 .. MaxReloads /\ DOMAIN loads = 0 .. MaxReloads

LastApplied ==
  /\ catalog.by \in Int /\ \A n \in 0 .. MaxReloads : loads[n].at = "done" => catalog.by >= n \/ (n = 0 /\ generation > 0)
  /\ catalog.by = 0 => \A n \in 1 .. MaxReloads : loads[n].at # "done"

Catalogued(c) == \A t \in ToSet(c.tools) : c.commands[t.name] = t.name /\ Rightful(t)

RegistryInv == RegistryShape /\ (\A n \in 0 .. MaxReloads : LoadSound(n)) /\ LastApplied /\ Catalogued(catalog)

LEMMA LevelIs == ASSUME NEW p \in ToSet(Levels) PROVE Level(p) \in 1 .. Len(Levels)
<1>1. DOMAIN Levels = 1 .. Len(Levels)  BY ConsoleAssumption
<1>2. \E i \in 1 .. Len(Levels) : Levels[i] = p  BY <1>1 DEF ToSet
<1> QED  BY <1>2, Zenon DEF Level

(* What no one reviewed may do what any user may. *)
LEMMA UserAllowed == ASSUME scene \in Scenes PROVE "user" \in Allowed
<1>1. scene.permits \subseteq ToSet(Levels) /\ Levels[1] = "user" /\ "premium" \in ToSet(Levels) /\ Len(Levels) \in Nat  BY ConsoleAssumption
<1>2. PICK n \in Nat : n = Len(Levels)  BY <1>1
<1>3. PICK top : top = IF scene.permits = {} THEN Level("premium") ELSE CHOOSE i \in {Level(p) : p \in scene.permits} : \A p \in scene.permits : Level(p) <= i  OBVIOUS
<1>4. top \in 1 .. n
  <2>1. CASE scene.permits = {}  BY <1>1, <1>2, <1>3, <2>1, LevelIs
  <2>2. CASE scene.permits # {}
    <3>1. PICK K : K = {Level(p) : p \in scene.permits}  OBVIOUS
    <3>2. K \subseteq 1 .. n /\ K # {}  BY <1>1, <1>2, <2>2, <3>1, LevelIs
    <3>3. PICK T : T = {m \in Nat : n - m \in K}  OBVIOUS
    <3>4. PICK k : k \in K  BY <3>2
    <3>5. n - k \in T /\ T \subseteq Nat
      <4>1. n - k \in Nat /\ n - (n - k) = k  BY <3>2, <3>4
      <4> QED  BY <3>3, <3>4, <4>1
    <3>6. PICK x \in T : \A y \in T : x <= y  BY <3>5, Least
    <3>7. n - x \in K /\ \A j \in K : j <= n - x
      <4>1. ASSUME NEW j \in K PROVE j <= n - x
        <5>1. n - j \in Nat /\ n - (n - j) = j /\ j \in Nat  BY <3>2
        <5>2. n - j \in T  BY <3>3, <5>1
        <5>3. x <= n - j  BY <3>6, <5>2
        <5> QED  BY <3>3, <3>6, <5>1, <5>3
      <4> QED  BY <3>3, <3>6, <4>1
    <3>8. \E i \in K : \A p \in scene.permits : Level(p) <= i
      <4>1. \A p \in scene.permits : Level(p) <= n - x  BY <3>1, <3>7
      <4> QED  BY <3>7, <4>1
    <3>9. top = CHOOSE i \in K : \A p \in scene.permits : Level(p) <= i  BY <1>3, <2>2, <3>1
    <3>10. top \in K  BY <3>8, <3>9, Zenon
    <3> QED  BY <3>2, <3>10
  <2> QED  BY <2>1, <2>2
<1>5. Allowed = {Levels[i] : i \in 1 .. top}  BY <1>3, Zenon DEF Allowed
<1>6. 1 \in 1 .. top  BY <1>4
<1> QED  BY <1>1, <1>5, <1>6

LEMMA AdmittedGranted ==
  ASSUME scene \in Scenes, NEW p, p # None, ToolsListed(p), Admitted(p)
  PROVE  Granted(Instances(p))
<1>1. ListOf(Instances(p))  BY InstancesList DEF ToolsListed
<1>2. ASSUME NEW t \in ToSet(Instances(p)) PROVE t.perm \in Allowed
  <2>1. t.perm \in (IF p.manifest = None THEN {"user"} ELSE p.manifest.perms)  BY DEF Admitted, AdmitsTools
  <2>2. p.manifest # None => p.manifest.perms \subseteq Allowed  BY DEF Admitted, AdmitsManifest
  <2> QED  BY <2>1, <2>2, UserAllowed
<1> QED  BY <1>1, <1>2 DEF Granted

LEMMA CatalogRight ==
  ASSUME scene \in Scenes, NEW n, NEW got, Granted(got), NEW c, c = Catalog(n, scene.core \o got) \/ c = Catalog(n, scene.core)
  PROVE  c.by = n /\ Catalogued(c)
<1>1. ListOf(scene.core)  BY ConsoleAssumption DEF ListOf
<1>2. PICK q : (q = scene.core \o got \/ q = scene.core) /\ c = Catalog(n, q)  OBVIOUS
<1>3. ListOf(q) /\ ToSet(q) \subseteq ToSet(scene.core) \cup ToSet(got)  BY <1>1, <1>2, Joined DEF Granted
<1>4. Answering(Entries(q), ToSet(q))  BY <1>3, EntriesAnswer
<1>5. c.by = n /\ c.tools = Entries(q).tools /\ c.commands = Entries(q).commands  BY <1>2 DEF Catalog
<1>6. ASSUME NEW t \in ToSet(c.tools) PROVE c.commands[t.name] = t.name /\ Rightful(t)
  <2>1. t \in ToSet(Entries(q).tools)  BY <1>5
  <2>2. t \in ToSet(q) /\ Entries(q).commands[t.name] = t.name  BY <1>4, <2>1, Zenon DEF Answering
  <2> QED  BY <1>3, <1>5, <2>2 DEF Granted, Rightful
<1> QED  BY <1>5, <1>6 DEF Catalogued

(* A load goes on, and those that wait for it still do. *)
Proceeds(n, load) ==
  /\ scene' = scene /\ generation' = generation /\ loads' = [loads EXCEPT ![n] = load]
  /\ loads[n].at \in {"asked", "reading"} /\ load.at \in {"reading", "done"} /\ Loading(load)
  /\ n > 0 => \A m \in 1 .. n - 1 : loads[m].at = "done"

LEMMA AllowedLasts == ASSUME scene' = scene PROVE Allowed' = Allowed
BY DEF Allowed

LEMMA LoadingLasts == ASSUME scene' = scene, NEW n, NEW m, NEW load, load = loads[m], loads'[n] = load, Loading(load) PROVE Loading(loads[n])'
<1>1. (loads[n])' = load /\ Granted(load.got) /\ Allowed' = Allowed  BY AllowedLasts DEF Loading
<1> QED  BY <1>1 DEF Loading, Granted

LEMMA LoadsProceed ==
  ASSUME RegistryInv, NEW n \in 0 .. MaxReloads, NEW load, Proceeds(n, load)
  PROVE  /\ DOMAIN loads' = 0 .. MaxReloads /\ \A m \in 0 .. MaxReloads : LoadSound(m)'
         /\ loads'[n] = load /\ \A m \in 0 .. MaxReloads : m # n => loads'[m] = loads[m]
<1>1. DOMAIN loads' = 0 .. MaxReloads /\ \A m \in 0 .. MaxReloads : loads'[m] = IF m = n THEN load ELSE loads[m]
  BY DEF RegistryInv, RegistryShape, Proceeds
<1>2. \A m \in 0 .. MaxReloads : LoadSound(m)  BY DEF RegistryInv
<1>3. ASSUME NEW m \in 0 .. MaxReloads PROVE LoadSound(m)'
  <2>1. Loading(loads[m])'
    <3>1. CASE m = n
      <4>1. (loads[m])' = load /\ Loading(load) /\ Allowed' = Allowed /\ scene' = scene  BY <1>1, <3>1, AllowedLasts DEF Proceeds
      <4> QED  BY <4>1 DEF Loading, Granted
    <3>2. CASE m # n
      <4>1. loads'[m] = loads[m] /\ Loading(loads[m]) /\ scene' = scene  BY <1>1, <1>2, <3>2 DEF LoadSound, Proceeds
      <4> QED  BY <4>1, LoadingLasts
    <3> QED  BY <3>1, <3>2
  <2>2. (m > generation => loads[m].at = "off")'
    <3>1. n <= generation  BY <1>2 DEF LoadSound, Proceeds, RegistryInv, RegistryShape
    <3> QED  BY <1>1, <1>2, <3>1 DEF LoadSound, Proceeds, RegistryInv, RegistryShape
  <2>3. ASSUME m > 0, loads'[m].at \in {"reading", "done"}, NEW k \in 1 .. m - 1 PROVE loads'[k].at = "done"
    <3>1. k \in 0 .. MaxReloads  BY ConsoleAssumption
    <3>2. CASE m = n
      <4>1. loads[k].at = "done" /\ k # n  BY <2>3, <3>2 DEF Proceeds
      <4> QED  BY <1>1, <3>1, <4>1
    <3>3. CASE m # n
      <4>1. loads[k].at = "done"
        <5>1. loads[m].at \in {"reading", "done"}  BY <1>1, <2>3, <3>3
        <5> QED  BY <1>2, <2>3, <5>1 DEF LoadSound
      <4>2. k # n  BY <4>1 DEF Proceeds
      <4> QED  BY <1>1, <3>1, <4>1, <4>2
    <3> QED  BY <3>2, <3>3
  <2> QED  BY <2>1, <2>2, <2>3 DEF LoadSound
<1> QED  BY <1>1, <1>3

(* The catalog stays, with the loads that are done. *)
LEMMA CatalogStays ==
  ASSUME RegistryInv, scene' = scene, catalog' = catalog, generation' \in Int, generation' >= generation, DOMAIN loads' = DOMAIN loads,
         \A m \in 0 .. MaxReloads : loads'[m].at = "done" => loads[m].at = "done" \/ (m = 0 /\ generation > 0)
  PROVE  LastApplied' /\ Catalogued(catalog)'
<1>1. Allowed' = Allowed  BY AllowedLasts
<1>2. Catalogued(catalog)'  BY <1>1 DEF RegistryInv, Catalogued, Rightful
<1>3. generation \in Int /\ generation' >= generation  BY DEF RegistryInv, RegistryShape
<1>4. \A n \in 0 .. MaxReloads : loads'[n].at = "done" => catalog'.by >= n \/ (n = 0 /\ generation' > 0)
  <2> SUFFICES ASSUME NEW n \in 0 .. MaxReloads, loads'[n].at = "done" PROVE catalog.by >= n \/ (n = 0 /\ generation' > 0)  OBVIOUS
  <2>1. loads[n].at = "done" \/ (n = 0 /\ generation > 0)  OBVIOUS
  <2>2. CASE n = 0 /\ generation > 0  BY <1>3, <2>2
  <2>3. CASE loads[n].at = "done"
    <3>1. catalog.by >= n \/ (n = 0 /\ generation > 0)  BY <2>3 DEF RegistryInv, LastApplied
    <3> QED  BY <2>2, <3>1
  <2> QED  BY <2>1, <2>2, <2>3
<1>5. catalog'.by = 0 => \A n \in 1 .. MaxReloads : loads'[n].at # "done"
  <2> SUFFICES ASSUME catalog.by = 0, NEW n \in 1 .. MaxReloads, loads'[n].at = "done" PROVE FALSE  OBVIOUS
  <2>1. n \in 0 .. MaxReloads /\ n # 0  OBVIOUS
  <2>2. loads[n].at = "done"  BY <2>1
  <2> QED  BY <2>2 DEF RegistryInv, LastApplied
<1> QED  BY <1>2, <1>4, <1>5 DEF LastApplied, RegistryInv

LEMMA ShapeLasts ==
  ASSUME RegistryInv, scene' = scene, UNCHANGED <<disk, modules>>, generation' \in 0 .. MaxReloads, DOMAIN loads' = 0 .. MaxReloads
  PROVE  RegistryShape'
BY DEF RegistryInv, RegistryShape, ToolsListed

LEMMA ReloadKept == ASSUME RegistryInv, scene' = scene, NEW b, Reload(b) PROVE RegistryInv'
<1>1. /\ generation < MaxReloads /\ generation' = generation + 1 /\ UNCHANGED <<disk, modules, catalog>>
      /\ loads' = [loads EXCEPT ![generation + 1].at = "asked"]
  BY Zenon DEF Reload, ReloadRegistry
<1>2. PICK g : g = generation + 1 /\ g \in 1 .. MaxReloads /\ g \in 0 .. MaxReloads /\ generation \in 0 .. MaxReloads  BY <1>1, ConsoleAssumption DEF RegistryInv, RegistryShape
<1>3. PICK load : load = [loads[g] EXCEPT !.at = "asked"]  OBVIOUS
<1>4. DOMAIN loads' = 0 .. MaxReloads /\ \A m \in 0 .. MaxReloads : loads'[m] = IF m = g THEN load ELSE loads[m]
  <2>1. loads' = [loads EXCEPT ![g] = load]  BY <1>1, <1>2, <1>3
  <2> QED  BY <2>1 DEF RegistryInv, RegistryShape
<1>5. \A m \in 0 .. MaxReloads : LoadSound(m)  BY DEF RegistryInv
<1>6. load.at = "asked" /\ Loading(load)  
  <2>1. Loading(loads[g])  BY <1>2, <1>5 DEF LoadSound
  <2>2. DOMAIN load = DOMAIN loads[g] /\ load.files = loads[g].files /\ load.got = loads[g].got  BY <1>3
  <2>3. load.at = "asked"  BY <1>3, <2>1 DEF Loading
  <2> QED  BY <2>1, <2>2, <2>3 DEF Loading
<1>7. ASSUME NEW m \in 0 .. MaxReloads PROVE LoadSound(m)'
  <2>1. CASE m = g
    <3>1. (loads[m])' = load /\ Allowed' = Allowed  BY <1>4, <2>1, AllowedLasts
    <3>2. Loading(loads[m])'  BY <1>6, <3>1 DEF Loading, Granted
    <3>3. ~(m > generation')  BY <1>1, <1>2, <2>1
    <3>4. loads'[m].at = "asked"  BY <1>6, <3>1
    <3> QED  BY <3>2, <3>3, <3>4 DEF LoadSound
  <2>2. CASE m # g
    <3>1. loads'[m] = loads[m] /\ LoadSound(m)  BY <1>4, <1>5, <2>2
    <3>2. Loading(loads[m])'  BY <3>1, LoadingLasts DEF LoadSound
    <3>3. m > generation' => loads'[m].at = "off"  BY <1>1, <1>2, <3>1 DEF LoadSound
    <3>4. ASSUME m > 0, loads'[m].at \in {"reading", "done"}, NEW k \in 1 .. m - 1 PROVE loads'[k].at = "done"
      <4>1. m <= generation /\ k # g /\ k \in 0 .. MaxReloads  BY <1>2, <3>1, <3>4, ConsoleAssumption DEF LoadSound
      <4>2. loads[k].at = "done"  BY <3>1, <3>4 DEF LoadSound
      <4> QED  BY <1>4, <4>1, <4>2
    <3> QED  BY <3>2, <3>3, <3>4 DEF LoadSound
  <2> QED  BY <2>1, <2>2
<1>8. \A m \in 0 .. MaxReloads : loads'[m].at = "done" => loads[m].at = "done" \/ (m = 0 /\ generation > 0)  BY <1>4, <1>6
<1>9. LastApplied' /\ Catalogued(catalog)'
  <2>1. generation' \in Int /\ generation' >= generation /\ DOMAIN loads' = DOMAIN loads  BY <1>1, <1>2, <1>4 DEF RegistryInv, RegistryShape
  <2> QED  BY <1>1, <1>8, <2>1, CatalogStays
<1>10. RegistryShape'  BY <1>1, <1>2, <1>4, ShapeLasts
<1> QED  BY <1>7, <1>9, <1>10 DEF RegistryInv

LEMMA ListFilesKept == ASSUME RegistryInv, scene' = scene, NEW n \in 0 .. MaxReloads, ListFiles(n) PROVE RegistryInv'
<1>1. PICK F : F = {i \in DOMAIN scene.files : disk[scene.files[i]] # None}  OBVIOUS
<1>2. PICK load : load = [loads[n] EXCEPT !.at = "reading", !.files = F]  OBVIOUS
<1>3. /\ UNCHANGED <<disk, modules, generation, catalog>> /\ loads[n].at = "asked" /\ (n > 0 => \A m \in 1 .. n - 1 : loads[m].at = "done")
      /\ loads' = [loads EXCEPT ![n].at = "reading", ![n].files = F]
  BY <1>1, Zenon DEF ListFiles
<1>4. loads' = [loads EXCEPT ![n] = load]
  <2>1. n \in DOMAIN loads  BY DEF RegistryInv, RegistryShape
  <2> QED  BY <1>2, <1>3, <2>1
<1>5. Loading(loads[n])  BY DEF RegistryInv, LoadSound
<1>6. load.at = "reading" /\ load.files = F /\ load.got = loads[n].got /\ DOMAIN load = DOMAIN loads[n]  BY <1>2, <1>5 DEF Loading
<1>7. Loading(load)  BY <1>1, <1>5, <1>6 DEF Loading
<1>8. Proceeds(n, load)  BY <1>3, <1>4, <1>6, <1>7 DEF Proceeds
<1>9. /\ DOMAIN loads' = 0 .. MaxReloads /\ \A m \in 0 .. MaxReloads : LoadSound(m)'
      /\ loads'[n] = load /\ \A m \in 0 .. MaxReloads : m # n => loads'[m] = loads[m]
  BY <1>8, LoadsProceed
<1>10. LastApplied' /\ Catalogued(catalog)'
  <2>1. generation' \in Int /\ generation' >= generation /\ DOMAIN loads' = DOMAIN loads  BY <1>3, <1>9 DEF RegistryInv, RegistryShape
  <2>2. \A m \in 0 .. MaxReloads : loads'[m].at = "done" => loads[m].at = "done"  BY <1>6, <1>9
  <2> QED  BY <1>3, <2>1, <2>2, CatalogStays
<1>11. RegistryShape'
  <2>1. generation' \in 0 .. MaxReloads  BY <1>3 DEF RegistryInv, RegistryShape
  <2> QED  BY <1>3, <1>9, <2>1, ShapeLasts
<1> QED  BY <1>9, <1>10, <1>11 DEF RegistryInv

(* What is on disk, and what was imported, is as it was exported. *)
LEMMA PluginListed ==
  ASSUME RegistryInv, NEW n \in 0 .. MaxReloads, loads[n].files # {}, NEW f, f = scene.files[Min(loads[n].files)], NEW p,
         p = (IF f \in DOMAIN modules THEN modules[f] ELSE disk[f])
  PROVE  ToolsListed(p)
<1>1. scene \in Scenes /\ loads[n].files \subseteq DOMAIN scene.files  BY DEF RegistryInv, RegistryShape, LoadSound, Loading
<1>2. scene.files \in Seq(DOMAIN scene.disk)  BY <1>1, ConsoleAssumption
<1>3. PICK k \in Nat : k = Len(scene.files) /\ DOMAIN scene.files = 1 .. k  BY <1>2
<1>4. PICK i : i = Min(loads[n].files) /\ i \in loads[n].files
  <2>1. loads[n].files \subseteq 1 .. k  BY <1>1, <1>3
  <2> QED  BY <2>1, LeastBelow
<1>5. f \in DOMAIN scene.disk
  <2>1. i \in 1 .. Len(scene.files)  BY <1>1, <1>3, <1>4
  <2>2. scene.files[i] \in DOMAIN scene.disk  BY <1>2, <2>1
  <2> QED  BY <1>4, <2>2
<1>6. f \in DOMAIN disk  BY <1>5 DEF RegistryInv, RegistryShape
<1> QED  BY <1>6 DEF RegistryInv, RegistryShape

LEMMA ReadPluginKept == ASSUME RegistryInv, scene' = scene, NEW n \in 0 .. MaxReloads, ReadPlugin(n) PROVE RegistryInv'
<1>1. PICK first : first = Min(loads[n].files)  OBVIOUS
<1>2. PICK f : f = scene.files[first]  OBVIOUS
<1>3. PICK p : p = (IF f \in DOMAIN modules THEN modules[f] ELSE disk[f])  OBVIOUS
<1>4. PICK got : got = (IF p # None /\ Admitted(p) THEN loads[n].got \o Instances(p) ELSE loads[n].got)  OBVIOUS
<1>5. PICK load : load = [loads[n] EXCEPT !.files = @ \ {first}, !.got = got]  OBVIOUS
<1>6. /\ UNCHANGED <<disk, generation, catalog>> /\ loads[n].at = "reading" /\ loads[n].files # {}
      /\ modules' = (IF p = None THEN modules ELSE MapSet(modules, {f}, p))
      /\ loads' = [loads EXCEPT ![n].files = @ \ {first}, ![n].got = IF p # None /\ Admitted(p) THEN @ \o Instances(p) ELSE @]
  BY <1>1, <1>2, <1>3, Zenon DEF ReadPlugin
<1>7. loads' = [loads EXCEPT ![n] = load]
  <2>1. n \in DOMAIN loads  BY DEF RegistryInv, RegistryShape
  <2>2. loads' = [loads EXCEPT ![n] = [loads[n] EXCEPT !.files = @ \ {first}, !.got = IF p # None /\ Admitted(p) THEN @ \o Instances(p) ELSE @]]  BY <1>6, <2>1
  <2>3. load = [loads[n] EXCEPT !.files = @ \ {first}, !.got = IF p # None /\ Admitted(p) THEN @ \o Instances(p) ELSE @]  BY <1>4, <1>5
  <2> QED  BY <2>2, <2>3, Zenon
<1>8. Loading(loads[n]) /\ LoadSound(n)  BY DEF RegistryInv, LoadSound
<1>9. ToolsListed(p)  BY <1>1, <1>2, <1>3, <1>6, PluginListed
<1>10. Granted(got)
  <2>1. Granted(loads[n].got) /\ scene \in Scenes  BY <1>8 DEF Loading, RegistryInv, RegistryShape
  <2>2. CASE p # None /\ Admitted(p)
    <3>1. Granted(Instances(p))  BY <1>9, <2>1, <2>2, AdmittedGranted
    <3>2. got = loads[n].got \o Instances(p)  BY <1>4, <2>2
    <3>3. ListOf(got) /\ ToSet(got) \subseteq ToSet(loads[n].got) \cup ToSet(Instances(p))  BY <2>1, <3>1, <3>2, Joined DEF Granted
    <3> QED  BY <2>1, <3>1, <3>3 DEF Granted
  <2>3. CASE ~(p # None /\ Admitted(p))  BY <1>4, <2>1, <2>3
  <2> QED  BY <2>2, <2>3
<1>11. load.at = "reading" /\ load.files = loads[n].files \ {first} /\ load.got = got /\ DOMAIN load = DOMAIN loads[n]  BY <1>5, <1>6, <1>8 DEF Loading
<1>12. Loading(load)  BY <1>8, <1>10, <1>11 DEF Loading
<1>13. Proceeds(n, load)  BY <1>6, <1>7, <1>8, <1>11, <1>12 DEF Proceeds, LoadSound
<1>14. /\ DOMAIN loads' = 0 .. MaxReloads /\ \A m \in 0 .. MaxReloads : LoadSound(m)'
       /\ loads'[n] = load /\ \A m \in 0 .. MaxReloads : m # n => loads'[m] = loads[m]
  BY <1>13, LoadsProceed
<1>15. LastApplied' /\ Catalogued(catalog)'
  <2>1. generation' \in Int /\ generation' >= generation /\ DOMAIN loads' = DOMAIN loads  BY <1>6, <1>14 DEF RegistryInv, RegistryShape
  <2>2. \A m \in 0 .. MaxReloads : loads'[m].at = "done" => loads[m].at = "done"  BY <1>11, <1>14
  <2> QED  BY <1>6, <2>1, <2>2, CatalogStays
<1>16. RegistryShape'
  <2>1. \A g \in DOMAIN modules' : ToolsListed(modules'[g])
    <3>1. CASE p = None  BY <1>6, <3>1 DEF RegistryInv, RegistryShape
    <3>2. CASE p # None
      <4>1. modules' = [g \in DOMAIN modules \cup {f} |-> IF g \in {f} THEN p ELSE modules[g]]  BY <1>6, <3>2 DEF MapSet
      <4>2. DOMAIN modules' = DOMAIN modules \cup {f} /\ \A g \in DOMAIN modules' : modules'[g] = IF g = f THEN p ELSE modules[g]  BY <4>1
      <4> QED  BY <1>9, <4>2 DEF RegistryInv, RegistryShape
    <3> QED  BY <3>1, <3>2
  <2>2. (\A g \in DOMAIN modules : ToolsListed(modules[g]))'  BY <2>1 DEF ToolsListed
  <2> QED  BY <1>6, <1>14, <2>2 DEF RegistryInv, RegistryShape, ToolsListed
<1> QED  BY <1>14, <1>15, <1>16 DEF RegistryInv

LEMMA ApplyKept == ASSUME RegistryInv, scene' = scene, NEW n \in 0 .. MaxReloads, Apply(n) PROVE RegistryInv'
<1>1. PICK load : load = [loads[n] EXCEPT !.at = "done"]  OBVIOUS
<1>2. PICK got : got = loads[n].got  OBVIOUS
<1>3. /\ UNCHANGED <<disk, modules, generation>> /\ loads[n].at = "reading" /\ loads' = [loads EXCEPT ![n].at = "done"]
      /\ catalog' = IF n = 0 /\ generation > 0 THEN catalog ELSE Catalog(n, scene.core \o got)
  BY <1>2, Zenon DEF Apply
<1>4. loads' = [loads EXCEPT ![n] = load]
  <2>1. n \in DOMAIN loads  BY DEF RegistryInv, RegistryShape
  <2> QED  BY <1>1, <1>3, <2>1
<1>5. \A m \in 0 .. MaxReloads : LoadSound(m)  BY DEF RegistryInv
<1>6. load.at = "done" /\ load.files = loads[n].files /\ load.got = got /\ DOMAIN load = DOMAIN loads[n]  BY <1>1, <1>2, <1>5 DEF Loading, LoadSound
<1>7. Loading(load)  BY <1>2, <1>5, <1>6 DEF Loading, LoadSound
<1>8. Proceeds(n, load)  BY <1>3, <1>4, <1>5, <1>6, <1>7 DEF Proceeds, LoadSound
<1>9. /\ DOMAIN loads' = 0 .. MaxReloads /\ \A m \in 0 .. MaxReloads : LoadSound(m)'
      /\ loads'[n] = load /\ \A m \in 0 .. MaxReloads : m # n => loads'[m] = loads[m]
  BY <1>8, LoadsProceed
<1>10. RegistryShape'
  <2>1. generation' \in 0 .. MaxReloads  BY <1>3 DEF RegistryInv, RegistryShape
  <2> QED  BY <1>3, <1>9, <2>1, ShapeLasts
<1>11. LastApplied' /\ Catalogued(catalog)'
  <2>1. CASE n = 0 /\ generation > 0
    <3>1. catalog' = catalog  BY <1>3, <2>1
    <3>2. generation' \in Int /\ generation' >= generation /\ DOMAIN loads' = DOMAIN loads  BY <1>3, <1>9 DEF RegistryInv, RegistryShape
    <3>3. \A m \in 0 .. MaxReloads : loads'[m].at = "done" => loads[m].at = "done" \/ (m = 0 /\ generation > 0)  BY <1>9, <2>1
    <3> QED  BY <3>1, <3>2, <3>3, CatalogStays
  <2>2. CASE ~(n = 0 /\ generation > 0)
    <3>1. PICK c : c = Catalog(n, scene.core \o got)  OBVIOUS
    <3>2. catalog' = c  BY <1>3, <2>2, <3>1
    <3>3. c.by = n /\ Catalogued(c)
      <4>1. scene \in Scenes /\ Granted(got)  BY <1>2, <1>5 DEF RegistryInv, RegistryShape, LoadSound, Loading
      <4> QED  BY <3>1, <4>1, CatalogRight
    <3>4. Catalogued(catalog)'
      <4>1. Allowed' = Allowed  BY AllowedLasts
      <4> QED  BY <3>2, <3>3, <4>1 DEF Catalogued, Rightful
    <3>5. ASSUME NEW m \in 0 .. MaxReloads, loads'[m].at = "done" PROVE n >= m /\ (n = 0 => m = 0)
      <4>1. m <= n \/ m > n  OBVIOUS
      <4>2. ASSUME m > n PROVE FALSE
        <5>1. loads[m].at = "done" /\ m > 0  BY <1>9, <3>5, <4>2
        <5>2. n # 0 => n \in 1 .. m - 1  BY <4>2
        <5>3. n # 0 => loads[n].at = "done"  BY <1>5, <5>1, <5>2 DEF LoadSound
        <5>4. n = 0  BY <1>3, <5>3
        <5>5. generation = 0  BY <2>2, <5>4 DEF RegistryInv, RegistryShape
        <5>6. loads[m].at = "off"  BY <1>5, <5>1, <5>5 DEF LoadSound
        <5> QED  BY <5>1, <5>6
      <4> QED  BY <4>1, <4>2
    <3>6. n \in Int /\ catalog'.by = n  BY <3>2, <3>3
    <3>7. \A m \in 0 .. MaxReloads : loads'[m].at = "done" => catalog'.by >= m \/ (m = 0 /\ generation' > 0)  BY <3>5, <3>6
    <3>8. catalog'.by = 0 => \A m \in 1 .. MaxReloads : loads'[m].at # "done"
      <4> SUFFICES ASSUME n = 0, NEW m \in 1 .. MaxReloads, loads'[m].at = "done" PROVE FALSE  BY <3>6
      <4>1. m \in 0 .. MaxReloads /\ m # 0  OBVIOUS
      <4> QED  BY <3>5, <4>1
    <3> QED  BY <3>4, <3>6, <3>7, <3>8 DEF LastApplied
  <2> QED  BY <2>1, <2>2
<1> QED  BY <1>9, <1>10, <1>11 DEF RegistryInv

(* A step that leaves the loads and the catalog alone. *)
LEMMA RegistryLasts ==
  ASSUME RegistryInv, scene' = scene, UNCHANGED <<modules, loads, generation, catalog>>, RegistryShape'
  PROVE  RegistryInv'
<1>1. \A m \in 0 .. MaxReloads : LoadSound(m)'
  <2> SUFFICES ASSUME NEW m \in 0 .. MaxReloads PROVE LoadSound(m)'  OBVIOUS
  <2>1. LoadSound(m) /\ loads' = loads /\ generation' = generation  BY DEF RegistryInv
  <2>2. Loading(loads[m])'  BY <2>1, LoadingLasts DEF LoadSound
  <2> QED  BY <2>1, <2>2 DEF LoadSound
<1>2. LastApplied' /\ Catalogued(catalog)'
  <2>1. generation' \in Int /\ generation' >= generation  BY DEF RegistryInv, RegistryShape
  <2> QED  BY <2>1, CatalogStays
<1> QED  BY <1>1, <1>2 DEF RegistryInv

LEMMA DeploysKept ==
  ASSUME RegistryInv, scene' = scene, NEW f \in ToSet(scene.files), NEW p \in scene.plugins \cup {None}, Deploys(f, p)
  PROVE  RegistryInv'
<1>1. disk' = [disk EXCEPT ![f] = p] /\ UNCHANGED <<modules, loads, generation, catalog>>  BY Zenon DEF Deploys
<1>2. ToolsListed(p)
  <2>1. p # None => p \in (scene.plugins \cup {scene.disk[g] : g \in DOMAIN scene.disk}) \ {None}  OBVIOUS
  <2> QED  BY <2>1, ConsoleAssumption DEF RegistryInv, RegistryShape, ToolsListed, ListOf
<1>3. DOMAIN disk' = DOMAIN disk /\ \A g \in DOMAIN disk : disk'[g] = IF g = f THEN p ELSE disk[g]  BY <1>1
<1>4. (\A g \in DOMAIN disk : ToolsListed(disk[g]))'
  <2>1. \A g \in DOMAIN disk : ToolsListed(disk'[g])  BY <1>2, <1>3 DEF RegistryInv, RegistryShape
  <2> QED  BY <1>3, <2>1 DEF ToolsListed
<1>5. RegistryShape'  BY <1>1, <1>3, <1>4 DEF RegistryInv, RegistryShape, ToolsListed
<1> QED  BY <1>1, <1>5, RegistryLasts

LEMMA RegistryStays == ASSUME RegistryInv, scene' = scene, UNCHANGED registryVars PROVE RegistryInv'
<1>1. UNCHANGED <<disk, modules, loads, generation, catalog>>  BY Zenon DEF registryVars
<1>2. RegistryShape'  BY <1>1 DEF RegistryInv, RegistryShape, ToolsListed
<1> QED  BY <1>1, <1>2, RegistryLasts

LEMMA RegistryStep == ASSUME RegistryInv, scene' = scene, ConsoleNext PROVE RegistryInv'
<1>1. ASSUME NEW b, NEW right, Login(b, right) \/ Refresh(b) \/ Logout(b) PROVE RegistryInv'
  <2>1. UNCHANGED registryVars  BY <1>1, Zenon DEF Login, Refresh, Logout
  <2> QED  BY <2>1, RegistryStays
<1>2. ASSUME UNCHANGED consoleVars PROVE RegistryInv'
  <2>1. UNCHANGED registryVars  BY <1>2, Zenon DEF consoleVars, registryVars
  <2> QED  BY <2>1, RegistryStays
<1> QED  BY <1>1, <1>2, ReloadKept, ListFilesKept, ReadPluginKept, ApplyKept, DeploysKept, Zenon DEF ConsoleNext

LEMMA RegistryFollows == ASSUME RegistryInv PROVE RegistrySound
<1>1. \A t \in ToSet(catalog.tools) : catalog.commands[t.name] = t.name /\ (t \in ToSet(scene.core) \/ t.perm \in Allowed)  BY Zenon DEF RegistryInv, Catalogued, Rightful
<1> QED  BY <1>1, Zenon DEF RegistrySound, RegistryInv, LastApplied

LEMMA FreshRegistry == ASSUME scene \in Scenes, ConsoleInit PROVE RegistryInv
<1>1. /\ disk = scene.disk /\ modules = <<>> /\ generation = 0 /\ catalog = Catalog(-1, scene.core)
      /\ loads = [n \in 0 .. MaxReloads |-> [at |-> IF n = 0 /\ scene.core # <<>> THEN "asked" ELSE "off", files |-> {}, got |-> <<>>]]
  BY Zenon DEF ConsoleInit
<1>2. Granted(<<>>)
  <2>1. ToSet(<<>>) = {} /\ <<>> \in Seq({})  BY DEF ToSet
  <2> QED  BY <2>1 DEF Granted, ListOf
<1>3. catalog.by = -1 /\ Catalogued(catalog)  BY <1>1, <1>2, CatalogRight
<1>4. ASSUME NEW n \in 0 .. MaxReloads PROVE LoadSound(n) /\ loads[n].at # "done"
  <2>1. loads[n].files = {} /\ loads[n].got = <<>> /\ DOMAIN loads[n] = {"at", "files", "got"} /\ loads[n].at = IF n = 0 /\ scene.core # <<>> THEN "asked" ELSE "off"  BY <1>1
  <2>2. Loading(loads[n])  BY <1>2, <2>1 DEF Loading
  <2>3. loads[n].at \in {"asked", "off"} /\ (n > 0 => loads[n].at = "off")  BY <2>1
  <2> QED  BY <1>1, <2>2, <2>3 DEF LoadSound
<1>5. RegistryShape
  <2>1. \A f \in DOMAIN scene.disk : ToolsListed(scene.disk[f])
    <3> SUFFICES ASSUME NEW f \in DOMAIN scene.disk, scene.disk[f] # None PROVE ListOf(scene.disk[f].tools)  BY DEF ToolsListed
    <3>1. PICK p : p = scene.disk[f] /\ p \in (scene.plugins \cup {scene.disk[g] : g \in DOMAIN scene.disk}) \ {None}  OBVIOUS
    <3>2. p.tools \in Seq(ToSet(p.tools))  BY <3>1, ConsoleAssumption
    <3> QED  BY <3>1, <3>2 DEF ListOf
  <2>2. DOMAIN modules = {}  BY <1>1
  <2>3. 0 \in 0 .. MaxReloads /\ DOMAIN loads = 0 .. MaxReloads  BY <1>1, ConsoleAssumption
  <2> QED  BY <1>1, <2>1, <2>2, <2>3 DEF RegistryShape
<1>6. LastApplied  BY <1>3, <1>4 DEF LastApplied
<1> QED  BY <1>3, <1>4, <1>5, <1>6 DEF RegistryInv
=============================================================================
