----------------------------- MODULE AccessProofs -----------------------------
(***************************************************************************)
(* Theorems about Access, for any persons, aliases, rooms and messages:    *)
(* the roles a message is handled with are its sender's, what it changes   *)
(* its sender had the right to change, and no more of them are let through *)
(* than the widest limits allow.                                           *)
(*                                                                         *)
(* IInv has a part on the identities (Linking: who shares one is one       *)
(* person, and what was learnt stays linked), one on the lists (Stored),   *)
(* and one for each message by where it is (Handled), against the two      *)
(* histories of its sender, which every step extends (Watched).            *)
(* RateInv is that of the limiter: each message let through is weighed     *)
(* against what its contact's bucket still holds.                          *)
(***************************************************************************)
EXTENDS Access, WellFoundedInduction, TLAPS

(* What is shown with a message is of its sender, and aims at a contact.   *)
Shown(m) ==
  /\ m.room \in Rooms /\ m.via \in Contact(Person[m.via], m.room.platform)
  /\ m.pn = None \/ m.pn \in Contact(Person[m.via], m.room.platform)
  /\ m.op.tool \in {"grant", "revoke"} => m.op.target \in Contacts /\ m.op.role \in Roles

(* The aliases recorded together are one person's of WhatsApp.             *)
Family(s) ==
  /\ s # {} /\ s \subseteq Contacts
  /\ \A c, d \in s : Person[c] = Person[d] /\ c.platform = d.platform

(* An identity is of one person, that of its primary alias, and aliases    *)
(* that were recorded together share theirs from then on.                  *)
Linking ==
  /\ canon \in [Contacts -> 0..NumIds]
  /\ primary \in [1..NumIds -> Contacts \cup {None}]
  /\ \A c \in Contacts : canon[c] # 0 =>
       /\ primary[canon[c]] # None
       /\ Person[c] = Person[primary[canon[c]]] /\ c.platform = primary[canon[c]].platform
  /\ \A s \in learning \cup learned : Family(s)
  /\ \A s \in learned : \A c, d \in s : canon[c] # 0 /\ canon[c] = canon[d]

(* Rows and lists name contacts. *)
Stored ==
  /\ scene \in Scenes
  /\ \A r \in rows : r.user \in Contacts /\ r.role \in Roles
  /\ native \in [Rooms -> SUBSET Contacts] /\ DOMAIN cached = Rooms
  /\ \A r \in Rooms : cached[r] = None \/ cached[r] \subseteq Contacts
  /\ DOMAIN setting = Rooms

Fields == {"at", "via", "pn", "room", "op", "entry", "admin", "jids", "roles", "whole", "target"}

Ids(m) == {c.id : c \in Contact(Person[m.via], m.room.platform)}

Authorized == {"resolved", "running", "aimed"}

(* What a message was identified by and resolved to, against its histories.*)
Handled(t) ==
  LET m == turn[t]
  IN  /\ m.at = "identified" =>
           /\ m.jids \subseteq Ids(m) /\ (m.admin => "admin" \in held[t])
           /\ \A x \in kept[t] : x.user.id \in m.jids
      /\ m.at \in Authorized => m.roles \subseteq held[t] /\ (m.whole => \A x \in kept[t] : x.role \in m.roles)
      /\ m.at = "running" /\ m.op.tool = "config" => m.roles \cap {"admin", "owner"} # {}
      /\ m.at = "aimed" => MayManage(m) /\ m.target \in Contacts

(* A message's histories are of its sender. *)
Watched(t) == TrueRoles(turn[t]) \subseteq held[t] /\ kept[t] \subseteq RecordedRows(turn[t])

Turning ==
  /\ DOMAIN turn = Turns /\ DOMAIN held = Turns /\ DOMAIN kept = Turns
  /\ \A t \in Turns : DOMAIN turn[t] = Fields /\ turn[t].at \in {"idle", "arrived", "identified"} \cup Authorized
  /\ \A t \in Turns : turn[t].at # "idle" => Shown(turn[t]) /\ Handled(t) /\ Watched(t)
  /\ \A t, u \in Turns : t # u /\ turn[t].at # "idle" /\ turn[u].at # "idle" => turn[t].room # turn[u].room

IInv == Linking /\ Stored /\ Turning

-----------------------------------------------------------------------------
(***************************************************************************)
(* Identities *)
(***************************************************************************)

(* Two aliases recorded together are all of their person's, so no other    *)
(* record can take one of them elsewhere.                                  *)
LEMMA LearnedStays ==
  ASSUME Linking, NEW s, Family(s), ~Complete(s), NEW i \in 1..NumIds, canon' = Repointed(s, i), learned' = learned \cup {s}
  PROVE  \A f \in learned' : \A c, d \in f : canon'[c] # 0 /\ canon'[c] = canon'[d]
<1>1. 0 \notin 1..NumIds /\ NumIds \in Nat
  BY AccessAssumption
<1>2. \A c \in Contacts : canon'[c] = IF c \in s THEN i ELSE canon[c]
  BY DEF Repointed
<1>3. \A c \in s : c \in Contacts
  BY DEF Family
<1>4. \A c, d \in s : canon'[c] # 0 /\ canon'[c] = canon'[d]
  BY <1>1, <1>2, <1>3
<1>5. ASSUME NEW f \in learned, NEW c \in f, NEW d \in f
      PROVE  canon'[c] # 0 /\ canon'[c] = canon'[d]
  <2>1. Family(f) /\ c \in Contacts /\ d \in Contacts /\ canon[c] # 0 /\ canon[c] = canon[d]
    BY <1>5 DEF Linking, Family
  <2>2. CASE c \notin s /\ d \notin s
    BY <1>2, <2>1, <2>2
  <2>3. ASSUME NEW e \in f, NEW x \in f, e \in s, x \notin s
        PROVE  FALSE
    <3>1. PICK y \in s : y \notin f
      <4>1. \A a, b \in f : canon[a] # 0 /\ canon[a] = canon[b]
        BY <1>5 DEF Linking
      <4> QED
        BY <4>1 DEF Complete
    <3>2. /\ e \in Contacts /\ x \in Contacts /\ y \in Contacts /\ e # x /\ e # y /\ x # y
          /\ Person[x] = Person[e] /\ x.platform = e.platform /\ Person[y] = Person[e] /\ y.platform = e.platform
      BY <1>3, <2>1, <2>3, <3>1 DEF Family
    <3> QED
      BY <3>2, AliasAssumption
  <2>4. CASE c \in s /\ d \in s
    BY <1>4, <2>4
  <2> QED
    BY <1>5, <2>2, <2>3, <2>4
<1> QED
  BY <1>4, <1>5

(* upsertIdentity gives the aliases of a person an identity of that person *)
(* or a new one.                                                           *)
LEMMA UpsertLinks ==
  ASSUME Linking, NEW s, Family(s), Upserted(s), learning' \subseteq learning
  PROVE  Linking'
<1>1. learned' = learned \cup {s} /\ \A f \in learning' \cup learned' : Family(f)
  BY DEF Upserted, Linking
<1>2. CASE Complete(s) /\ UNCHANGED <<canon, primary>>
  BY <1>1, <1>2 DEF Linking, Complete
<1>3. NumIds \in Nat /\ 0 \notin 1..NumIds /\ None \notin Contacts
  BY AccessAssumption
<1>4. ASSUME ~Complete(s), NEW i \in 1..NumIds, canon' = Repointed(s, i),
             primary' \in [1..NumIds -> Contacts \cup {None}], primary'[i] # None,
             \A j \in 1..NumIds : primary[j] # None => primary'[j] = primary[j],
             \A c \in s : Person[c] = Person[primary'[i]] /\ c.platform = primary'[i].platform
      PROVE  Linking'
  <2>1. \A f \in learned' : \A c, d \in f : canon'[c] # 0 /\ canon'[c] = canon'[d]
    BY <1>1, <1>4, LearnedStays
  <2>2. canon' \in [Contacts -> 0..NumIds] /\ \A c \in Contacts : canon'[c] = IF c \in s THEN i ELSE canon[c]
    BY <1>3, <1>4 DEF Linking, Repointed
  <2>3. ASSUME NEW c \in Contacts, canon'[c] # 0
        PROVE  /\ primary'[canon'[c]] # None
               /\ Person[c] = Person[primary'[canon'[c]]] /\ c.platform = primary'[canon'[c]].platform
    <3>1. CASE c \in s
      BY <1>4, <2>2, <3>1
    <3>2. CASE c \notin s
      <4>1. canon'[c] = canon[c] /\ canon[c] \in 1..NumIds
        BY <1>3, <2>2, <2>3, <3>2 DEF Linking
      <4> QED
        BY <1>4, <2>3, <4>1 DEF Linking
    <3> QED
      BY <3>1, <3>2
  <2> QED
    BY <1>1, <1>4, <2>1, <2>2, <2>3 DEF Linking
<1>5. ASSUME ~Complete(s), NEW i \in Existing(s), canon' = Repointed(s, i), UNCHANGED primary
      PROVE  Linking'
  <2>1. i \in 1..NumIds /\ primary[i] # None /\ \A c \in s : Person[c] = Person[primary[i]] /\ c.platform = primary[i].platform
    <3>1. CASE i \in 1..NumIds /\ primary[i] \in s
      BY <1>3, <3>1 DEF Family
    <3>2. ASSUME NEW e \in s, i = canon[e], i # 0
          PROVE  i \in 1..NumIds /\ primary[i] # None /\ \A c \in s : Person[c] = Person[primary[i]] /\ c.platform = primary[i].platform
      <4>1. e \in Contacts /\ i \in 1..NumIds
        BY <1>3, <3>2 DEF Family, Linking
      <4> QED
        BY <3>2, <4>1 DEF Family, Linking
    <3>3. (i \in 1..NumIds /\ primary[i] \in s) \/ \E e \in s : i = canon[e] /\ i # 0
      BY <1>5 DEF Existing
    <3> QED
      BY <3>1, <3>2, <3>3
  <2>2. primary' \in [1..NumIds -> Contacts \cup {None}]
    BY <1>5 DEF Linking
  <2> QED
    BY <1>4, <1>5, <2>1, <2>2
<1>6. ASSUME ~Complete(s), NEW i \in 1..NumIds, primary[i] = None, canon' = Repointed(s, i), NEW c \in s, primary' = [primary EXCEPT ![i] = c]
      PROVE  Linking'
  <2>1. c \in Contacts /\ c # None /\ \A d \in s : Person[d] = Person[c] /\ d.platform = c.platform
    BY <1>3, <1>6 DEF Family
  <2>2. primary'[i] = c /\ primary' \in [1..NumIds -> Contacts \cup {None}] /\ \A j \in 1..NumIds : primary[j] # None => primary'[j] = primary[j]
    BY <1>6, <2>1 DEF Linking
  <2> QED
    BY <1>4, <1>6, <2>1, <2>2
<1> QED
  BY <1>2, <1>5, <1>6 DEF Upserted

LEMMA LinkingKept ==
  ASSUME Linking, UNCHANGED <<canon, primary, learned>>, \A s \in learning' \ learning : Family(s)
  PROVE  Linking'
BY DEF Linking

(* An alias linked to another is of its person and on its platform.        *)
LEMMA LinkedIsOwn ==
  ASSUME Linking, NEW c \in Contacts
  PROVE  \A d \in Linked(c) : d \in Contacts /\ Person[d] = Person[c] /\ d.platform = c.platform
BY DEF Linked, Linking

LEMMA AllJidsOwn ==
  ASSUME Linking, NEW m, Shown(m)
  PROVE  AllJids(m.via) \subseteq Ids(m)
<1>1. m.via \in Contacts /\ m.via.platform = m.room.platform
  BY DEF Shown, Contact
<1> QED
  BY <1>1, LinkedIsOwn DEF AllJids, Ids, Contact

LEMMA TargetIsContact ==
  ASSUME NEW c \in Contacts
  PROVE  Target(c) \in Contacts
BY DEF Target, Linked

-----------------------------------------------------------------------------
(***************************************************************************)
(* Roles *)
(***************************************************************************)

(* What the rows, the configuration and the list give for aliases of the   *)
(* sender, the sender has.                                                 *)
LEMMA GrantedIsOwn ==
  ASSUME Stored, NEW m, Shown(m), NEW jids, jids \subseteq Ids(m)
  PROVE  Granted(jids, m.room) \subseteq TrueRoles(m)
<1>1. SUFFICES ASSUME NEW x \in rows, x.user.platform = m.room.platform, x.user.id \in jids, x.scope \in {"global", m.room.id}
               PROVE  x.user \in Contact(Person[m.via], m.room.platform)
  BY DEF Granted, TrueRoles
<1>2. PICK c \in Contact(Person[m.via], m.room.platform) : x.user.id = c.id
  BY <1>1 DEF Ids
<1>3. x.user \in Contacts /\ c \in Contacts /\ c.platform = x.user.platform
  BY <1>1, <1>2 DEF Stored, Contact
<1>4. x.user = c
  BY <1>2, <1>3, AccessAssumption
<1> QED
  BY <1>2, <1>4

LEMMA OwnerIsOwn ==
  ASSUME NEW m, Shown(m), EnvOwner(m)
  PROVE  "owner" \in TrueRoles(m)
BY AccessAssumption DEF Shown, EnvOwner, TrueRoles

LEMMA ListedIsOwn ==
  ASSUME Stored, NEW m, Shown(m), Listed(m, AdminList(m.room))
  PROVE  "admin" \in TrueRoles(m)
<1>1. AdminList(m.room) \subseteq native[m.room] \cup (IF cached[m.room] = None THEN {} ELSE cached[m.room])
  BY DEF AdminList
<1>2. AdminList(m.room) \subseteq Contacts
  BY DEF AdminList, Stored, Shown
<1>3. PICK c \in {m.via, m.pn} : c \in AdminList(m.room)
  BY DEF Listed
<1>4. c \in Contact(Person[m.via], m.room.platform)
  BY <1>2, <1>3, AccessAssumption DEF Shown
<1> QED
  BY <1>1, <1>3, <1>4 DEF TrueRoles

LEMMA ResolvedIsOwn ==
  ASSUME Stored, NEW m, Shown(m), NEW S, TrueRoles(m) \subseteq S, NEW r, r \subseteq S, NEW admin, admin => "admin" \in S
  PROVE  Resolved(m, r, admin) \subseteq S
<1>1. "user" \in S
  BY DEF TrueRoles
<1>2. EnvOwner(m) => "owner" \in S
  BY OwnerIsOwn
<1> QED
  BY <1>1, <1>2 DEF Resolved

(* A role read again, when a tool runs.                                    *)
LEMMA NowIsOwn ==
  ASSUME Linking, Stored, NEW m, Shown(m), NEW S, TrueRoles(m) \subseteq S, m.roles \subseteq S
  PROVE  Now(m) \subseteq S
<1>1. CASE m.room.platform = "whatsapp"
  <2>1. Granted(AllJids(m.via), m.room) \subseteq S
    BY AllJidsOwn, GrantedIsOwn
  <2>2. Listed(m, AdminList(m.room)) => "admin" \in S
    BY ListedIsOwn
  <2> QED
    BY <1>1, <2>1, <2>2, ResolvedIsOwn DEF Now
<1>2. CASE m.room.platform # "whatsapp"
  BY <1>2 DEF Now
<1> QED
  BY <1>1, <1>2

LEMMA RecordedIsLinked ==
  ASSUME Linking, Stored, NEW m, Shown(m)
  PROVE  \A x \in RecordedRows(m) : x.user \in Linked(m.via)
<1> SUFFICES ASSUME NEW x \in RecordedRows(m) PROVE x.user \in Linked(m.via)
  OBVIOUS
<1>1. m.via \in Contacts /\ x.user \in Contacts
  BY DEF Shown, Contact, Stored, RecordedRows
<1>2. CASE x.user = m.via
  BY <1>1, <1>2 DEF Linked
<1>3. CASE x.user # m.via
  <2>1. PICK s \in learned : m.via \in s /\ x.user \in s
    BY <1>3 DEF RecordedRows
  <2> QED
    BY <1>1, <2>1 DEF Linked, Linking
<1> QED
  BY <1>2, <1>3

-----------------------------------------------------------------------------
(***************************************************************************)
(* Messages *)
(***************************************************************************)

(* Every step extends the histories of the messages that are handled.      *)
LEMMA ObserveWatches ==
  ASSUME Observe, NEW t \in Turns, turn'[t].at # "idle"
  PROVE  /\ Watched(t)'
         /\ turn[t].at # "idle" => held[t] \subseteq held'[t] /\ kept'[t] \subseteq kept[t]
BY DEF Observe, Watched

(* A message that is not touched is as it was.                             *)
LEMMA UntouchedSound ==
  ASSUME Turning, Observe, NEW t \in Turns, turn'[t] = turn[t], turn[t].at # "idle"
  PROVE  Shown(turn'[t]) /\ Handled(t)' /\ Watched(t)'
<1>1. Watched(t)' /\ held[t] \subseteq held'[t] /\ kept'[t] \subseteq kept[t]
  BY ObserveWatches
<1>2. Shown(turn[t]) /\ Handled(t)
  BY DEF Turning
<1>3. Handled(t)'
  BY <1>1, <1>2 DEF Handled, MayManage, Scope
<1> QED
  BY <1>1, <1>2, <1>3

(* A step of one message: what it becomes has to be sound.                 *)
LEMMA TurningKept ==
  ASSUME Turning, Observe, NEW t \in Turns, NEW m, turn' = [turn EXCEPT ![t] = m],
         DOMAIN m = Fields, m.at \in {"idle", "arrived", "identified"} \cup Authorized,
         m.at # "idle" => Shown(m) /\ Handled(t)'
                          /\ (turn[t].at # "idle" => m.room = turn[t].room)
                          /\ (turn[t].at = "idle" => \A u \in Turns : turn[u].at # "idle" => turn[u].room # m.room)
  PROVE  Turning'
<1>1. DOMAIN turn' = Turns /\ turn'[t] = m /\ \A u \in Turns : u # t => turn'[u] = turn[u]
  BY DEF Turning
<1>2. DOMAIN held' = Turns /\ DOMAIN kept' = Turns
  BY DEF Observe
<1>3. ASSUME NEW u \in Turns
      PROVE  /\ DOMAIN turn'[u] = Fields /\ turn'[u].at \in {"idle", "arrived", "identified"} \cup Authorized
             /\ turn'[u].at # "idle" => Shown(turn'[u]) /\ Handled(u)' /\ Watched(u)'
  <2>1. CASE u = t
    BY <1>1, <2>1, ObserveWatches
  <2>2. CASE u # t
    BY <1>1, <2>2, UntouchedSound DEF Turning
  <2> QED
    BY <2>1, <2>2
<1>4. ASSUME NEW u \in Turns, NEW w \in Turns, u # w, turn'[u].at # "idle", turn'[w].at # "idle"
      PROVE  turn'[u].room # turn'[w].room
  BY <1>1, <1>4 DEF Turning
<1> QED
  BY <1>1, <1>2, <1>3, <1>4 DEF Turning

(* A step of none.                                                         *)
LEMMA TurningStays ==
  ASSUME Turning, Observe, turn' = turn
  PROVE  Turning'
<1>1. DOMAIN held' = Turns /\ DOMAIN kept' = Turns
  BY DEF Observe
<1> QED
  BY <1>1, UntouchedSound DEF Turning

LEMMA IdleShape == DOMAIN Idle = Fields /\ Idle.at = "idle"
BY DEF Idle, Fields

(* A message that is over leaves its place.                                *)
LEMMA DropSound ==
  ASSUME Turning, Observe, NEW t \in Turns, Drop(t)
  PROVE  Turning'
BY IdleShape, TurningKept DEF Drop, Go

-----------------------------------------------------------------------------
(***************************************************************************)
(* Steps *)
(***************************************************************************)
LEMMA FetchedStored ==
  ASSUME Stored, NEW r \in Rooms
  PROVE  DOMAIN Fetched(r) = Rooms /\ \A x \in Rooms : Fetched(r)[x] = None \/ Fetched(r)[x] \subseteq Contacts
BY DEF Stored, Fetched

LEMMA WithRoleStored ==
  ASSUME Stored, NEW u \in Contacts, NEW scope, NEW role \in Roles
  PROVE  \A r \in WithRole(u, scope, role) : r.user \in Contacts /\ r.role \in Roles
BY DEF Stored, WithRole, RoleRow

LEMMA ReceiveKeeps ==
  ASSUME IInv, Observe, NEW t \in Turns, Receive(t)
  PROVE  IInv'
<1>1. PICK m \in scene.messages :
        /\ \A u \in Turns : turn[u].at # "idle" => turn[u].room # m.room
        /\ Go(t, [Idle EXCEPT !.at = "arrived", !.via = m.via, !.pn = m.pn, !.room = m.room, !.op = m.op, !.entry = m.entry])
        /\ learning' = IF m.room.platform = "whatsapp"
                       THEN learning \cup ({(IF m.via \in Lids THEN {m.via} ELSE {}) \cup (IF m.pn # None THEN {m.pn} ELSE {})} \ {{}})
                       ELSE learning
  BY Zenon DEF Receive
<1>2. /\ m.room \in Rooms /\ m.via \in Contact(Person[m.via], m.room.platform)
      /\ m.pn = None \/ m.pn \in Contact(Person[m.via], m.room.platform)
      /\ m.op.tool \in {"grant", "revoke"} => m.op.target \in Contacts /\ m.op.role \in Roles
  BY SceneAssumption DEF IInv, Stored
<1>3. UNCHANGED <<scene, canon, primary, learned, rows, native, cached, setting>> /\ turn[t].at = "idle"
  BY DEF Receive
<1>4. Linking'
  <2> DEFINE s == (IF m.via \in Lids THEN {m.via} ELSE {}) \cup (IF m.pn # None THEN {m.pn} ELSE {})
  <2>1. \A c \in s : c \in Contacts /\ Person[c] = Person[m.via] /\ c.platform = m.room.platform
    BY <1>2 DEF Contact
  <2>2. s # {} => Family(s)
    BY <2>1 DEF Family
  <2>3. \A f \in learning' \ learning : f = s /\ s # {}
    BY <1>1
  <2> HIDE DEF s
  <2> QED
    BY <1>3, <2>2, <2>3, LinkingKept DEF IInv
<1>5. Stored'
  BY <1>3 DEF IInv, Stored
<1>6. Turning'
  <2> DEFINE a == [Idle EXCEPT !.at = "arrived", !.via = m.via, !.pn = m.pn, !.room = m.room, !.op = m.op, !.entry = m.entry]
  <2>1. DOMAIN a = Fields /\ a.at = "arrived" /\ a.room = m.room /\ a.via = m.via /\ a.pn = m.pn /\ a.op = m.op
    BY DEF Idle, Fields
  <2>2. turn' = [turn EXCEPT ![t] = a] /\ turn'[t] = a
    BY <1>1 DEF Go, IInv, Turning
  <2> HIDE DEF a
  <2>3. Shown(a)
    BY <1>2, <2>1 DEF Shown
  <2>4. Handled(t)'
    BY <2>1, <2>2 DEF Handled, Authorized
  <2> QED
    BY <1>1, <1>3, <2>1, <2>2, <2>3, <2>4, TurningKept DEF IInv
<1> QED
  BY <1>4, <1>5, <1>6 DEF IInv

(* The rights a message is identified by are its sender's, and all that is *)
(* recorded for its aliases is found.                                      *)
LEMMA IdentifyKeeps ==
  ASSUME IInv, Observe, NEW t \in Turns, Identify(t)
  PROVE  IInv'
<1> DEFINE m == turn[t]
           a == [m EXCEPT !.at = "identified", !.admin = Listed(m, AdminList(m.room)), !.jids = AllJids(m.via)]
<1>1. UNCHANGED <<scene, canon, primary, learning, learned, rows, native, setting>> /\ m.at = "arrived" /\ cached' = Fetched(m.room)
      /\ turn' = [turn EXCEPT ![t] = a]
  BY DEF Identify, Go
<1>2. DOMAIN m = Fields /\ Shown(m) /\ m.room \in Rooms
  BY <1>1 DEF IInv, Turning, Shown
<1>3. /\ DOMAIN a = Fields /\ a.at = "identified" /\ a.room = m.room /\ a.via = m.via /\ a.pn = m.pn /\ a.op = m.op
      /\ a.admin = Listed(m, AdminList(m.room)) /\ a.jids = AllJids(m.via)
  BY <1>2 DEF Fields
<1>4. turn'[t] = a
  BY <1>1 DEF IInv, Turning
<1> HIDE DEF a
<1>5. Linking'
  BY <1>1, LinkingKept DEF IInv
<1>6. Stored'
  BY <1>1, <1>2, FetchedStored DEF IInv, Stored
<1>7. Shown(a)
  BY <1>2, <1>3 DEF Shown
<1>8. Watched(t)'
  BY <1>3, <1>4, ObserveWatches
<1>9. Handled(t)'
  <2>1. a.jids \subseteq Ids(a)
    BY <1>2, <1>3, AllJidsOwn DEF IInv, Ids
  <2>2. a.admin => "admin" \in held'[t]
    <3>1. a.admin => "admin" \in TrueRoles(m)
      BY <1>2, <1>3, ListedIsOwn DEF IInv
    <3>2. TrueRoles(m) \subseteq held[t] /\ held[t] \subseteq held'[t]
      BY <1>1, <1>3, <1>4, ObserveWatches DEF IInv, Turning, Watched
    <3> QED
      BY <3>1, <3>2
  <2>3. \A x \in kept'[t] : x.user.id \in a.jids
    <3>1. kept'[t] \subseteq kept[t] /\ kept[t] \subseteq RecordedRows(m)
      BY <1>1, <1>3, <1>4, ObserveWatches DEF IInv, Turning, Watched
    <3>2. \A x \in kept'[t] : x.user \in Linked(m.via)
      BY <1>2, <3>1, RecordedIsLinked DEF IInv
    <3> QED
      BY <1>3, <3>2 DEF AllJids
  <2> QED
    BY <1>3, <1>4, <2>1, <2>2, <2>3 DEF Handled, Authorized, Ids
<1> QED
  BY <1>1, <1>3, <1>5, <1>6, <1>7, <1>9, TurningKept DEF IInv

(* The roles of a message are those of its rows, or none of them if the    *)
(* lookup failed.                                                          *)
Becomes(t, whole) ==
  turn' = [turn EXCEPT ![t] = [turn[t] EXCEPT !.at = "resolved",
             !.roles = Resolved(turn[t], IF whole THEN Granted(turn[t].jids, turn[t].room) ELSE {}, turn[t].admin),
             !.whole = whole, !.jids = {}]]

LEMMA ResolveKeeps ==
  ASSUME IInv, Observe, NEW t \in Turns, Resolve(t)
  PROVE  IInv'
<1> DEFINE m == turn[t]
<1>1. UNCHANGED <<scene, canon, primary, learning, learned, rows, native, cached, setting>> /\ m.at = "identified"
  BY DEF Resolve
<1>2. Linking' /\ Stored'
  BY <1>1, LinkingKept DEF IInv, Stored
<1>3. DOMAIN m = Fields /\ Shown(m) /\ Handled(t) /\ Watched(t)
  BY <1>1 DEF IInv, Turning
<1>4. CASE Drop(t)
  BY <1>2, <1>4, DropSound DEF IInv
<1>5. ASSUME NEW whole \in BOOLEAN, Becomes(t, whole)
      PROVE  IInv'
  <2> DEFINE g == IF whole THEN Granted(m.jids, m.room) ELSE {}
             a == [m EXCEPT !.at = "resolved", !.roles = Resolved(m, g, m.admin), !.whole = whole, !.jids = {}]
  <2>1. /\ DOMAIN a = Fields /\ a.at = "resolved" /\ a.room = m.room /\ a.via = m.via /\ a.pn = m.pn /\ a.op = m.op
        /\ a.roles = Resolved(m, g, m.admin) /\ a.whole = whole
    BY <1>3 DEF Fields
  <2>2. turn' = [turn EXCEPT ![t] = a] /\ turn'[t] = a
    BY <1>5 DEF IInv, Turning, Becomes
  <2>3. g \subseteq TrueRoles(m)
    BY <1>1, <1>3, GrantedIsOwn DEF IInv, Handled
  <2>4. whole => \A x \in kept[t] : x.role \in g
    <3> SUFFICES ASSUME whole, NEW x \in kept[t] PROVE x.role \in Granted(m.jids, m.room)
      OBVIOUS
    <3>1. x \in rows /\ x.scope \in {"global", m.room.id} /\ x.user.id \in m.jids
      BY <1>1, <1>3 DEF Watched, RecordedRows, Handled
    <3>2. x.user.platform = m.room.platform
      <4>1. x.user \in Linked(m.via) /\ m.via \in Contacts /\ m.via.platform = m.room.platform
        BY <1>3, RecordedIsLinked DEF IInv, Watched, Shown, Contact
      <4> QED
        BY <4>1, LinkedIsOwn DEF IInv
    <3> QED
      BY <3>1, <3>2 DEF Granted
  <2> HIDE DEF a, g
  <2>5. TrueRoles(m) \subseteq held[t] /\ held[t] \subseteq held'[t] /\ kept'[t] \subseteq kept[t]
    BY <1>1, <1>3, <2>1, <2>2, ObserveWatches DEF Watched
  <2>6. a.roles \subseteq held[t]
    BY <1>1, <1>3, <2>1, <2>3, <2>5, ResolvedIsOwn DEF IInv, Handled
  <2>7. a.whole => \A x \in kept'[t] : x.role \in a.roles
    BY <2>1, <2>4, <2>5 DEF Resolved
  <2>8. Handled(t)'
    BY <2>1, <2>2, <2>5, <2>6, <2>7 DEF Handled, Authorized
  <2>9. Shown(a)
    BY <1>3, <2>1 DEF Shown
  <2> QED
    BY <1>1, <1>2, <2>1, <2>2, <2>8, <2>9, TurningKept DEF IInv, Authorized
<1>6. Drop(t) \/ \E whole \in BOOLEAN : Becomes(t, whole)
  BY Zenon DEF Resolve, Becomes, Go, Drop
<1> QED
  BY <1>4, <1>5, <1>6

LEMMA AuthorizeKeeps ==
  ASSUME IInv, Observe, NEW t \in Turns, Authorize(t)
  PROVE  IInv'
<1> DEFINE m == turn[t]
           a == [m EXCEPT !.at = "running"]
<1>1. UNCHANGED <<scene, canon, primary, learning, learned, rows, native, setting>> /\ m.at = "resolved"
      /\ cached' \in {Fetched(m.room), cached}
  BY DEF Authorize
<1>2. DOMAIN m = Fields /\ Shown(m) /\ Handled(t) /\ Watched(t) /\ m.room \in Rooms
  BY <1>1 DEF IInv, Turning, Shown
<1>3. Linking'
  BY <1>1, LinkingKept DEF IInv
<1>4. Stored'
  BY <1>1, <1>2, FetchedStored DEF IInv, Stored
<1>5. CASE Drop(t)
  BY <1>3, <1>4, <1>5, DropSound DEF IInv
<1>6. CASE Invocable(m) /\ turn' = [turn EXCEPT ![t] = a]
  <2>1. /\ DOMAIN a = Fields /\ a.at = "running" /\ a.room = m.room /\ a.via = m.via /\ a.pn = m.pn /\ a.op = m.op
        /\ a.roles = m.roles /\ a.whole = m.whole
    BY <1>2 DEF Fields
  <2>2. turn'[t] = a
    BY <1>6 DEF IInv, Turning
  <2>3. m.op.tool = "config" => m.roles \cap {"admin", "owner"} # {}
    BY <1>6 DEF Invocable, RoleSatisfies, Permission
  <2> HIDE DEF a
  <2>4. held[t] \subseteq held'[t] /\ kept'[t] \subseteq kept[t]
    BY <1>1, <2>1, <2>2, ObserveWatches
  <2>5. Handled(t)'
    BY <1>1, <1>2, <2>1, <2>2, <2>3, <2>4 DEF Handled, Authorized
  <2>6. Shown(a)
    BY <1>2, <2>1 DEF Shown
  <2> QED
    BY <1>1, <1>3, <1>4, <1>6, <2>1, <2>5, <2>6, TurningKept DEF IInv, Authorized
<1> QED
  BY <1>5, <1>6 DEF Authorize, Go

LEMMA AimKeeps ==
  ASSUME IInv, Observe, NEW t \in Turns, Aim(t)
  PROVE  IInv'
<1> DEFINE m == turn[t]
           a == [m EXCEPT !.at = "aimed", !.target = Target(m.op.target)]
<1>1. UNCHANGED <<scene, canon, primary, learning, learned, rows, native, cached, setting>> /\ m.at = "running"
      /\ m.op.tool \in {"grant", "revoke"}
  BY DEF Aim
<1>2. DOMAIN m = Fields /\ Shown(m) /\ Handled(t) /\ Watched(t)
  BY <1>1 DEF IInv, Turning
<1>3. Linking' /\ Stored'
  BY <1>1, LinkingKept DEF IInv, Stored
<1>4. CASE Drop(t)
  BY <1>3, <1>4, DropSound DEF IInv
<1>5. CASE MayManage(m) /\ turn' = [turn EXCEPT ![t] = a]
  <2>1. /\ DOMAIN a = Fields /\ a.at = "aimed" /\ a.room = m.room /\ a.via = m.via /\ a.pn = m.pn /\ a.op = m.op
        /\ a.roles = m.roles /\ a.whole = m.whole /\ a.target = Target(m.op.target)
    BY <1>2 DEF Fields
  <2>2. turn'[t] = a
    BY <1>5 DEF IInv, Turning
  <2>3. Target(m.op.target) \in Contacts
    BY <1>1, <1>2, TargetIsContact DEF Shown
  <2> HIDE DEF a
  <2>4. held[t] \subseteq held'[t] /\ kept'[t] \subseteq kept[t]
    BY <1>1, <2>1, <2>2, ObserveWatches
  <2>5. MayManage(a)
    BY <1>5, <2>1 DEF MayManage, Scope
  <2>6. Handled(t)'
    BY <1>1, <1>2, <2>1, <2>2, <2>3, <2>4, <2>5 DEF Handled, Authorized, MayManage, Scope
  <2>7. Shown(a)
    BY <1>2, <2>1 DEF Shown
  <2> QED
    BY <1>1, <1>3, <1>5, <2>1, <2>6, <2>7, TurningKept DEF IInv, Authorized
<1> QED
  BY <1>4, <1>5 DEF Aim, Go

LEMMA WriteKeeps ==
  ASSUME IInv, Observe, NEW t \in Turns, Write(t)
  PROVE  IInv'
<1>1. /\ UNCHANGED <<scene, canon, primary, learning, learned, native, setting>> /\ turn[t].at = "aimed" /\ Drop(t)
      /\ cached' = cached \/ cached' = [cached EXCEPT ![turn[t].room] = None]
      /\ rows' \subseteq rows \/ (turn[t].op.tool = "grant" /\ rows' = WithRole(turn[t].target, Scope(turn[t]), turn[t].op.role))
  BY DEF Write
<1>2. turn[t].target \in Contacts /\ (turn[t].op.tool = "grant" => turn[t].op.role \in Roles)
  BY <1>1 DEF IInv, Turning, Handled, Shown
<1>3. \A r \in rows' : r.user \in Contacts /\ r.role \in Roles
  BY <1>1, <1>2, WithRoleStored DEF IInv, Stored
<1>4. Stored'
  BY <1>1, <1>3 DEF IInv, Stored
<1>5. Linking' /\ Turning'
  BY <1>1, LinkingKept, DropSound DEF IInv
<1> QED
  BY <1>4, <1>5 DEF IInv

LEMMA ChangeKeeps ==
  ASSUME IInv, Observe, NEW t \in Turns, Change(t)
  PROVE  IInv'
<1>1. UNCHANGED <<scene, canon, primary, rows, native, cached, learning, learned>> /\ Drop(t) /\ DOMAIN setting' = DOMAIN setting
  BY DEF Change, Changed
<1> QED
  BY <1>1, LinkingKept, DropSound DEF IInv, Stored

LEMMA LearnKeeps ==
  ASSUME IInv, Observe, NEW s \in learning, Learn(s)
  PROVE  IInv'
<1>1. UNCHANGED <<scene, rows, native, cached, setting, turn>> /\ learning' \subseteq learning /\ Family(s)
      /\ (Upserted(s) \/ UNCHANGED <<canon, primary, learned>>)
  BY DEF Learn, IInv, Linking
<1>2. Linking'
  BY <1>1, UpsertLinks, LinkingKept DEF IInv
<1> QED
  BY <1>1, <1>2, TurningStays DEF IInv, Stored

LEMMA SeedKeeps ==
  ASSUME IInv, Observe, NEW o \in Owners, Seed(o)
  PROVE  IInv'
<1>1. UNCHANGED <<scene, native, cached, setting, learning, turn>>
  BY DEF Seed
<1>2. PICK s \in {{o}} \cup {{o, l} : l \in Lids \cap Contact(Person[o], o.platform)} :
        Upserted(s) /\ \E u \in s : rows' = WithRole(u, "global", "owner")
  BY DEF Seed
<1>3. Family(s)
  BY AccessAssumption DEF Family, Contact
<1>4. Linking'
  BY <1>1, <1>2, <1>3, UpsertLinks DEF IInv
<1>5. \A r \in rows' : r.user \in Contacts /\ r.role \in Roles
  BY <1>2, <1>3, WithRoleStored DEF IInv, Family, Roles
<1> QED
  BY <1>1, <1>4, <1>5, TurningStays DEF IInv, Stored

LEMMA AsideKeeps ==
  ASSUME IInv, Observe,
         (\E r \in Rooms : Forget(r) \/ \E c \in Contacts : Promote(r, c)) \/ Tick \/ Prune
  PROVE  IInv'
<1>1. UNCHANGED <<scene, canon, primary, rows, setting, learning, learned, turn>>
  BY DEF Forget, Promote, Tick, Prune
<1>2. native' \in [Rooms -> SUBSET Contacts] /\ DOMAIN cached' = Rooms /\ \A x \in Rooms : cached'[x] = None \/ cached'[x] \subseteq Contacts
  BY DEF IInv, Stored, Forget, Promote, Tick, Prune
<1>3. Linking' /\ Turning'
  BY <1>1, LinkingKept, TurningStays DEF IInv
<1> QED
  BY <1>1, <1>2, <1>3 DEF IInv, Stored

-----------------------------------------------------------------------------
(***************************************************************************)
(* The theorems *)
(***************************************************************************)
LEMMA InitIInv == Init => IInv
<1> SUFFICES ASSUME Init PROVE IInv
  OBVIOUS
<1>1. Linking
  BY AccessAssumption DEF Init, NoAliases, NoIdentities, Linking
<1>2. Stored
  BY SceneAssumption DEF Init, Stored
<1>3. Turning
  BY IdleShape DEF Init, Turning
<1> QED
  BY <1>1, <1>2, <1>3 DEF IInv

LEMMA NextIInv == IInv /\ [Next]_vars => IInv'
<1> SUFFICES ASSUME IInv, [Next]_vars PROVE IInv'
  OBVIOUS
<1>1. CASE Next
  <2>1. Observe /\ Step
    BY <1>1 DEF Next
  <2>2. ASSUME NEW t \in Turns,
               Receive(t) \/ Identify(t) \/ Resolve(t) \/ Authorize(t) \/ Aim(t) \/ Write(t) \/ Change(t)
        PROVE  IInv'
    BY <2>1, <2>2, ReceiveKeeps, IdentifyKeeps, ResolveKeeps, AuthorizeKeeps, AimKeeps, WriteKeeps, ChangeKeeps
  <2> QED
    BY <2>1, <2>2, LearnKeeps, SeedKeeps, AsideKeeps DEF Step
<1>2. CASE UNCHANGED vars
  <2>1. UNCHANGED <<scene, canon, primary, rows, native, cached, setting, learning, turn, learned, held, kept>>
    BY <1>2 DEF vars
  <2>2. Linking' /\ Stored'
    BY <2>1, LinkingKept DEF IInv, Stored
  <2>3. \A t \in Turns : (Handled(t)' <=> Handled(t)) /\ (Watched(t)' <=> Watched(t))
    BY <2>1 DEF Handled, Watched, MayManage, Scope, TrueRoles, RecordedRows
  <2> QED
    BY <2>1, <2>2, <2>3 DEF IInv, Turning
<1> QED
  BY <1>1, <1>2

(* What the theorems below rest on holds of every reachable state.         *)
THEOREM Invariance == Spec => []IInv
BY InitIInv, NextIInv, PTL DEF Spec

(* Whichever aliases a person writes under, whatever is learnt, granted,   *)
(* revoked or promoted meanwhile: a message's roles were all its sender's, *)
(* and no grant that stood all the time is missed (AuthService.ts:150-260, *)
(* IdentityService.ts).                                                    *)
THEOREM RolesAreTheSenders == Spec => []RolesExact
<1>1. IInv => RolesExact
  <2> SUFFICES ASSUME IInv, NEW t \in Turns, turn[t].at \in Authorized
               PROVE  turn[t].roles \subseteq held[t] /\ (turn[t].whole => \A r \in kept[t] : r.role \in turn[t].roles)
    BY DEF RolesExact, Authorized
  <2>1. Handled(t)
    BY DEF IInv, Turning, Authorized
  <2> QED
    BY <2>1 DEF Handled
<1> QED
  BY <1>1, Invariance, PTL

(* What leaves the grants, or the settings, alone. *)
LEMMA RowsUntouched ==
  ASSUME Step
  PROVE  UNCHANGED rows \/ (\E o \in Owners : Seed(o)) \/ (\E t \in Turns : Write(t))
<1>1. CASE \E t \in Turns : Receive(t) \/ Identify(t) \/ Resolve(t) \/ Authorize(t) \/ Aim(t) \/ Write(t) \/ Change(t)
  <2>1. PICK t \in Turns : Receive(t) \/ Identify(t) \/ Resolve(t) \/ Authorize(t) \/ Aim(t) \/ Write(t) \/ Change(t)
    BY <1>1, Zenon
  <2>2. CASE Receive(t)
    BY <2>2, Zenon DEF Receive
  <2>3. CASE Identify(t)
    BY <2>3, Zenon DEF Identify
  <2>4. CASE Resolve(t)
    BY <2>4, Zenon DEF Resolve
  <2>5. CASE Authorize(t)
    BY <2>5, Zenon DEF Authorize
  <2>6. CASE Aim(t)
    BY <2>6, Zenon DEF Aim
  <2>7. CASE Change(t)
    BY <2>7, Zenon DEF Change
  <2> QED
    BY <2>1, <2>2, <2>3, <2>4, <2>5, <2>6, <2>7, Zenon
<1>2. CASE \E s \in learning : Learn(s)
  BY <1>2, Zenon DEF Learn
<1>3. CASE \E r \in Rooms : Forget(r) \/ \E c \in Contacts : Promote(r, c)
  BY <1>3, Zenon DEF Forget, Promote
<1>4. CASE Tick \/ Prune
  BY <1>4, Zenon DEF Tick, Prune
<1> QED
  BY <1>1, <1>2, <1>3, <1>4, Zenon DEF Step

LEMMA SettingsUntouched ==
  ASSUME Step
  PROVE  UNCHANGED setting \/ (\E t \in Turns : Change(t))
<1>1. CASE \E t \in Turns : Receive(t) \/ Identify(t) \/ Resolve(t) \/ Authorize(t) \/ Aim(t) \/ Write(t) \/ Change(t)
  <2>1. PICK t \in Turns : Receive(t) \/ Identify(t) \/ Resolve(t) \/ Authorize(t) \/ Aim(t) \/ Write(t) \/ Change(t)
    BY <1>1, Zenon
  <2>2. CASE Receive(t)
    BY <2>2, Zenon DEF Receive
  <2>3. CASE Identify(t)
    BY <2>3, Zenon DEF Identify
  <2>4. CASE Resolve(t)
    BY <2>4, Zenon DEF Resolve
  <2>5. CASE Authorize(t)
    BY <2>5, Zenon DEF Authorize
  <2>6. CASE Aim(t)
    BY <2>6, Zenon DEF Aim
  <2>7. CASE Write(t)
    BY <2>7, Zenon DEF Write
  <2> QED
    BY <2>1, <2>2, <2>3, <2>4, <2>5, <2>6, <2>7, Zenon
<1>2. CASE \E s \in learning : Learn(s)
  BY <1>2, Zenon DEF Learn
<1>3. CASE \E o \in Owners : Seed(o)
  BY <1>3, Zenon DEF Seed
<1>4. CASE \E r \in Rooms : Forget(r) \/ \E c \in Contacts : Promote(r, c)
  BY <1>4, Zenon DEF Forget, Promote
<1>5. CASE Tick \/ Prune
  BY <1>5, Zenon DEF Tick, Prune
<1> QED
  BY <1>1, <1>2, <1>3, <1>4, <1>5, Zenon DEF Step

(* A row is written by a seed, for the configured owner's person, or by a  *)
(* message whose sender might assign the role.                             *)
LEMMA RowsWithinAuthority ==
  ASSUME IInv, Next, NEW r \in rows' \ rows
  PROVE  \/ r.role = "owner" /\ Contact(Person[r.user], r.user.platform) \cap Owners # {}
         \/ \E t \in Turns : turn[t].at = "aimed" /\ turn'[t] # turn[t] /\ CanAssign(held[t], r.role) /\ Entitled(t)
<1>1. CASE \E o \in Owners : Seed(o)
  <2>1. PICK o \in Owners : Seed(o)
    BY <1>1
  <2>2. PICK s \in {{o}} \cup {{o, l} : l \in Lids \cap Contact(Person[o], o.platform)} : \E u \in s : rows' = WithRole(u, "global", "owner")
    BY <2>1 DEF Seed
  <2>3. PICK u \in s : rows' = WithRole(u, "global", "owner")
    BY <2>2
  <2>4. r = RoleRow(u, "global", "owner")
    BY <2>3 DEF WithRole
  <2>5. r.role = "owner" /\ r.user = u
    BY <2>4 DEF RoleRow
  <2>6. o \in Contacts /\ Person[u] = Person[o] /\ u.platform = o.platform
    BY <2>2, <2>3, AccessAssumption DEF Contact
  <2> QED
    BY <2>5, <2>6 DEF Contact
<1>2. ASSUME NEW t \in Turns, Write(t)
      PROVE  turn[t].at = "aimed" /\ turn'[t] # turn[t] /\ CanAssign(held[t], r.role) /\ Entitled(t)
  <2>1. turn[t].at = "aimed" /\ Drop(t) /\ rows' = WithRole(turn[t].target, Scope(turn[t]), turn[t].op.role)
    BY <1>2 DEF Write
  <2>2. r = RoleRow(turn[t].target, Scope(turn[t]), turn[t].op.role)
    BY <2>1 DEF WithRole
  <2>3. r.role = turn[t].op.role
    BY <2>2 DEF RoleRow
  <2>4. turn'[t] # turn[t]
    BY <2>1, IdleShape DEF Drop, Go, IInv, Turning
  <2>5. MayManage(turn[t]) /\ turn[t].roles \subseteq held[t]
    BY <2>1 DEF IInv, Turning, Handled, Authorized
  <2> QED
    BY <2>1, <2>3, <2>4, <2>5 DEF MayManage, CanAssign, Entitled
<1>3. (\E o \in Owners : Seed(o)) \/ \E t \in Turns : Write(t)
  BY RowsUntouched, Zenon DEF Next
<1> QED
  BY <1>1, <1>2, <1>3

(* The settings of a room are changed by the one message handled in it.    *)
LEMMA SettingsWithinAuthority ==
  ASSUME IInv, Next, NEW t \in Turns, turn[t].at # "idle", setting'[turn[t].room] # setting[turn[t].room]
  PROVE  \/ turn[t].op.tool = "language" /\ ~turn[t].room.group
         \/ held[t] \cap {"admin", "owner"} # {}
<1>1. PICK u \in Turns : Change(u)
  <2>1. setting' # setting
    OBVIOUS
  <2> QED
    BY <2>1, SettingsUntouched, Zenon DEF Next
<1>2. /\ turn[u].at = "running" /\ turn[u].op.tool \in {"config", "language"}
      /\ setting' = IF turn[u].op.tool = "config" \/ LanguageAllowed(turn[u]) THEN Changed(turn[u].room) ELSE setting
  BY <1>1 DEF Change
<1>3. turn[u].room = turn[t].room
  BY <1>2 DEF Changed
<1>4. u = t
  BY <1>2, <1>3 DEF IInv, Turning
<1>5. turn[t].op.tool = "config" \/ LanguageAllowed(turn[t])
  BY <1>2, <1>4
<1>6. Shown(turn[t]) /\ Handled(t) /\ Watched(t)
  BY DEF IInv, Turning
<1>7. turn[t].roles \subseteq held[t]
  BY <1>2, <1>4, <1>6 DEF Handled, Authorized
<1>8. CASE turn[t].op.tool = "config"
  BY <1>2, <1>4, <1>6, <1>7, <1>8 DEF Handled
<1>9. CASE turn[t].op.tool # "config" /\ turn[t].room.group
  <2>1. RoleSatisfies(Now(turn[t]), "admin")
    BY <1>5, <1>9 DEF LanguageAllowed
  <2>2. Now(turn[t]) \subseteq held[t]
    BY <1>6, <1>7, NowIsOwn DEF IInv, Watched
  <2> QED
    BY <2>1, <2>2 DEF RoleSatisfies
<1> QED
  BY <1>2, <1>4, <1>8, <1>9

(* However messages, grants, promotions and what is learnt of their senders*)
(* interleave, no row or setting is written but by right of one who held   *)
(* it (RoleTool.ts:209-212 and 345, registry.ts:323, LanguageTool.ts:73).  *)
THEOREM ChangesAreAuthorised == Spec => WithinAuthority
<1> DEFINE A == /\ \A r \in rows' \ rows :
                     \/ r.role = "owner" /\ Contact(Person[r.user], r.user.platform) \cap Owners # {}
                     \/ \E t \in Turns : turn[t].at = "aimed" /\ turn'[t] # turn[t] /\ CanAssign(held[t], r.role) /\ Entitled(t)
                /\ \A t \in Turns : turn[t].at # "idle" /\ setting'[turn[t].room] # setting[turn[t].room] =>
                     \/ turn[t].op.tool = "language" /\ ~turn[t].room.group
                     \/ held[t] \cap {"admin", "owner"} # {}
<1>1. IInv /\ [Next]_vars => [A]_vars
  <2> SUFFICES ASSUME IInv, Next PROVE A
    OBVIOUS
  <2> QED
    BY RowsWithinAuthority, SettingsWithinAuthority
<1> HIDE DEF A
<1>2. Spec => [][A]_vars
  BY <1>1, Invariance, PTL DEF Spec
<1> QED
  BY <1>2 DEF A, WithinAuthority
-----------------------------------------------------------------------------
(***************************************************************************)
(* The rate.  A token of a bucket of m weighs as much as M / m of one of   *)
(* the widest bucket, of M: resizing loses weight, a refill adds no more   *)
(* than it would there, and what is let through weighs at least one.       *)
(***************************************************************************)
LEMMA MulMono == ASSUME NEW a \in Int, NEW b \in Int, NEW k \in Nat, a <= b PROVE a * k <= b * k
OBVIOUS

LEMMA MulCancel == ASSUME NEW a \in Int, NEW b \in Int, NEW k \in Nat \ {0}, a * k <= b * k PROVE a <= b
OBVIOUS

LEMMA DivMul == ASSUME NEW a \in Nat, NEW b \in Nat \ {0} PROVE a \div b \in Nat /\ (a \div b) * b <= a
OBVIOUS

(* What a bucket grants, in the tokens of the widest one. *)
LEMMA Resizes ==
  ASSUME NEW t \in Nat, NEW m \in Nat \ {0}, NEW n \in Nat, NEW u \in Nat \ {0}, NEW k \in Nat, NEW a \in Int, t * k <= a * m,
         NEW x \in Nat, x <= ((t * n) \div (m * u)) * u
  PROVE  x * k <= a * n
<1> DEFINE q == (t * n) \div (m * u)
<1>1. t * n \in Nat /\ m * u \in Nat \ {0}  OBVIOUS
<1>2. q \in Nat /\ q * (m * u) <= t * n  BY <1>1, DivMul
<1> HIDE DEF q
<1>3. q * u \in Nat /\ (q * u) * m <= t * n  BY <1>2
<1>4. x * m <= t * n
  <2>1. x * m <= (q * u) * m  BY <1>3, MulMono DEF q
  <2> QED  BY <1>3, <2>1
<1>5. (x * m) * k <= (t * n) * k  BY <1>4, <1>1, MulMono
<1>6. (t * k) * n <= (a * m) * n  BY MulMono
<1>7. (x * m) * k = (x * k) * m /\ (t * n) * k = (t * k) * n /\ (a * m) * n = (a * n) * m  OBVIOUS
<1>8. (x * k) * m <= (a * n) * m  BY <1>5, <1>6, <1>7
<1>9. x * k \in Int /\ a * n \in Int  OBVIOUS
<1> QED  BY <1>8, <1>9, MulCancel

LEMMA Refills ==
  ASSUME NEW t \in Nat, NEW m \in Nat \ {0}, NEW w \in Nat \ {0}, NEW W \in Nat, W <= w, NEW u \in Nat, NEW M \in Nat, NEW e \in Nat,
         NEW a \in Int, t * (M * W) <= (u * a) * m,
         NEW x \in Nat, x <= t + (e * m * u) \div w
  PROVE  x * (M * W) <= (u * (a + e * M)) * m
<1> DEFINE q == (e * m * u) \div w
<1>1. e * m * u \in Nat  OBVIOUS
<1>2. q \in Nat /\ q * w <= e * m * u  BY <1>1, DivMul
<1> HIDE DEF q
<1>3. q * W <= e * m * u
  <2>1. W * q <= w * q  BY <1>2, MulMono
  <2> QED  BY <1>2, <2>1, <1>1
<1>4. (q * W) * M <= (e * m * u) * M
  <2>1. q * W \in Int  BY <1>2
  <2> QED  BY <1>1, <1>3, <2>1, MulMono
<1>5. M * W \in Nat  OBVIOUS
<1>6. x * (M * W) <= (t + q) * (M * W)
  <2>1. t + q \in Int /\ x <= t + q  BY <1>2 DEF q
  <2> QED  BY <2>1, <1>5, MulMono
<1>7. (t + q) * (M * W) = t * (M * W) + (q * W) * M  BY <1>2
<1>8. (u * (a + e * M)) * m = (u * a) * m + (e * m * u) * M  OBVIOUS
<1> QED  BY <1>2, <1>4, <1>6, <1>7, <1>8

LEMMA Takes ==
  ASSUME NEW t \in Nat, NEW m \in Nat \ {0}, NEW W \in Nat, NEW u \in Nat, NEW M \in Nat, m <= M, u <= t,
         NEW a \in Int, t * (M * W) <= (u * a) * m
  PROVE  (t - u) * (M * W) <= (u * (a - W)) * m
<1>1. u * W \in Nat  OBVIOUS
<1>2. m * (u * W) <= M * (u * W)  BY <1>1, MulMono
<1>3. (t - u) * (M * W) = t * (M * W) - M * (u * W)  OBVIOUS
<1>4. (u * (a - W)) * m = (u * a) * m - m * (u * W)  OBVIOUS
<1> QED  BY <1>2, <1>3, <1>4

LEMMA Begins ==
  ASSUME NEW t \in Nat, NEW m \in Nat, NEW W \in Nat, NEW u \in Nat, NEW M \in Nat, t <= m * u
  PROVE  t * (M * W) <= (u * (M * W)) * m
<1>1. M * W \in Nat /\ m * u \in Int  OBVIOUS
<1>2. t * (M * W) <= (m * u) * (M * W)  BY <1>1, MulMono
<1>3. (m * u) * (M * W) = (u * (M * W)) * m  OBVIOUS
<1> QED  BY <1>2, <1>3

Most == Widest
Least == Narrowest

(* What the widest bucket would still grant of n messages since s.          *)
Grants(n, s, at) == Most * Least + (at - s) * Most - n * Least
Weighs(b, a) == b.tokens * (Most * Least) <= (Units * a) * b.maxTokens

FilledAt(b, t) ==
  /\ DOMAIN b = {"tokens", "lastRefill", "maxTokens", "windowMs"}
  /\ b.tokens \in Nat /\ b.lastRefill \in 0 .. t /\ b.maxTokens \in 1 .. Most /\ b.tokens <= b.maxTokens * Units
  /\ b.windowMs \in Nat \ {0} /\ b.windowMs >= Least

(* Since each message of q that was let through, no more than that.        *)
Meters(b, q, t) ==
  \A i \in 1 .. Len(q) :
    IF b = NoBucket THEN (Len(q) - i + 1) * Least <= (t - q[i]) * Most
                    ELSE Weighs(b, Grants(Len(q) - i + 1, q[i], b.lastRefill))
InTime(n, t) == (n - Most) * Least <= t * Most
Bounds(q) == \A i, j \in 1 .. Len(q) : i <= j => InTime(j - i + 1, q[j] - q[i])
Rated(b, q, t) == q \in Seq(Nat) /\ (b = NoBucket \/ FilledAt(b, t)) /\ Meters(b, q, t) /\ Bounds(q)

RateInv ==
  /\ now \in Nat /\ sent = [c \in Contacts |-> sent[c]] /\ DOMAIN buckets = Contacts
  /\ \A c \in Contacts : Rated(buckets[c], sent[c], now)

(* A set of numbers that is not empty has a least one. *)
LEMMA LeastNumber ==
  ASSUME NEW T, T \subseteq Nat, T # {}
  PROVE  \E x \in T : \A y \in T : x <= y
<1> DEFINE R == OpToRel(<, Nat)
<1>1. IsWellFoundedOn(R, Nat)  BY NatLessThanWellFounded, Zenon
<1>2. \A p : p \in R <=> p \in Nat \X Nat /\ p[1] < p[2]  BY DEF OpToRel
<1> HIDE DEF R
<1>3. PICK x \in T : \A y \in T : ~(<<y, x>> \in R)  BY <1>1, WFMin, Zenon
<1>4. \A y \in T : ~(y < x)  BY <1>3, <1>2
<1> QED  BY <1>3, <1>4

LEMMA LimitsTyped ==
  /\ Most \in Nat /\ Least \in Nat \ {0} /\ Units \in Nat \ {0} /\ Most * Least \in Nat
  /\ \A r \in Roles : Limits[r].max = -1 \/ Limits[r].max \in 1 .. Most
  /\ \A r \in Roles : Limits[r].window \in Nat \ {0} /\ Limits[r].window >= Least
<1>1. \A r \in Roles : Limits[r].max \in {-1} \cup (Nat \ {0}) /\ Limits[r].window \in Nat \ {0}
  BY LimitsAssumption
<1>2. Most \in Nat /\ \A r \in Roles : Limits[r].max <= Most
  <2>1. \A y \in Maxima : y \in Int  BY <1>1 DEF Maxima
  <2>2. \E x \in Maxima : \A y \in Maxima : y <= x
    <3> DEFINE u == Limits["user"].max
               p == Limits["premium"].max
               a == Limits["admin"].max
               o == Limits["owner"].max
    <3>1. Maxima = {0, u, p, a, o}  BY DEF Maxima, Roles
    <3>2. u \in Int /\ p \in Int /\ a \in Int /\ o \in Int  BY <2>1, <3>1
    <3> HIDE DEF u, p, a, o
    <3> QED  BY <3>1, <3>2
  <2>3. Most \in Maxima /\ \A y \in Maxima : y <= Most  BY <2>2 DEF Most, Widest
  <2>4. 0 \in Maxima /\ \A r \in Roles : Limits[r].max \in Maxima  BY DEF Maxima
  <2> QED  BY <2>1, <2>3, <2>4
<1>3. Least \in Nat \ {0} /\ \A r \in Roles : Limits[r].window >= Least
  <2> DEFINE T == {Limits[r].window : r \in Roles}
  <2>1. T \subseteq Nat /\ T # {}  BY <1>1 DEF Roles
  <2>2. PICK z \in T : \A y \in T : z <= y
    <3> HIDE DEF T
    <3> QED  BY <2>1, LeastNumber
  <2>3. z \in T /\ \A r \in Roles : z <= Limits[r].window  BY <2>2
  <2>4. Least \in T /\ \A r \in Roles : Least <= Limits[r].window  BY <2>3 DEF Least, Narrowest, BestWindow
  <2> QED  BY <1>1, <2>4
<1>4. Units \in Nat \ {0}  BY AccessAssumption
<1>5. Most * Least \in Nat  BY <1>2, <1>3
<1> QED  BY <1>1, <1>2, <1>3, <1>4, <1>5

(* A check dates the bucket, and adds no more than the widest would get.    *)
LEMMA RefilledWeighs ==
  ASSUME now \in Nat, NEW b, FilledAt(b, now), NEW max \in 1 .. Most, NEW window \in Nat \ {0}, window >= Least,
         NEW f, f = Refilled(Resized(b, max, window))
  PROVE  /\ FilledAt(f, now) /\ f.lastRefill = now /\ f.maxTokens = max
         /\ \A a \in Int : Weighs(b, a) => Weighs(f, a + (now - b.lastRefill) * Most)
<1> DEFINE e == now - b.lastRefill
<1>0. /\ Most \in Nat /\ Least \in Nat \ {0} /\ Units \in Nat \ {0} /\ Most * Least \in Nat
  BY LimitsTyped
<1>1. b.tokens \in Nat /\ b.lastRefill \in 0 .. now /\ b.maxTokens \in Nat \ {0} /\ b.windowMs \in Nat \ {0} /\ max \in Nat \ {0} /\ e \in Nat
  BY DEF FilledAt
<1>2. PICK r : r = Resized(b, max, window)  OBVIOUS
<1>3. /\ DOMAIN r = DOMAIN b /\ r.maxTokens = max /\ r.windowMs = window /\ r.lastRefill = b.lastRefill
      /\ r.tokens \in Nat /\ r.tokens <= max * Units /\ \A a \in Int : Weighs(b, a) => Weighs(r, a)
  <2>1. CASE b.maxTokens = max /\ b.windowMs = window  BY <2>1, <1>2, <1>1 DEF Resized, FilledAt
  <2>2. CASE ~(b.maxTokens = max /\ b.windowMs = window)
    <3> DEFINE q == (b.tokens * max) \div (b.maxTokens * Units)
    <3>1. b.tokens * max \in Nat /\ b.maxTokens * Units \in Nat \ {0}  BY <1>0, <1>1
    <3>2. q \in Nat  BY <3>1, DivMul
    <3>3. r = [b EXCEPT !.maxTokens = max, !.windowMs = window, !.tokens = LeastOf(max, q) * Units]  BY <1>2, <2>2 DEF Resized
    <3> HIDE DEF q
    <3>4. LeastOf(max, q) \in Nat /\ LeastOf(max, q) <= max /\ LeastOf(max, q) <= q  BY <3>2, <1>1 DEF LeastOf
    <3>5. /\ DOMAIN r = DOMAIN b /\ r.maxTokens = max /\ r.windowMs = window /\ r.lastRefill = b.lastRefill /\ r.tokens = LeastOf(max, q) * Units
      BY <3>3 DEF FilledAt
    <3>6. r.tokens \in Nat /\ r.tokens <= max * Units /\ r.tokens <= q * Units
      <4>1. PICK y : y = LeastOf(max, q)  OBVIOUS
      <4>2. y * Units <= max * Units /\ y * Units <= q * Units  BY <4>1, <3>4, <3>2, <1>0, <1>1, MulMono
      <4> QED  BY <4>1, <4>2, <3>4, <3>5, <1>0
    <3>7. ASSUME NEW a \in Int, Weighs(b, a) PROVE Weighs(r, a)
      <4>1. Units * a \in Int /\ b.tokens * (Most * Least) <= (Units * a) * b.maxTokens  BY <3>7, <1>0 DEF Weighs
      <4>2. r.tokens <= ((b.tokens * max) \div (b.maxTokens * Units)) * Units  BY <3>6 DEF q
      <4>3. r.tokens * (Most * Least) <= (Units * a) * max  BY <4>1, <4>2, <3>6, <1>0, <1>1, Resizes
      <4> QED  BY <4>3, <3>5 DEF Weighs
    <3> QED  BY <3>5, <3>6, <3>7
  <2> QED  BY <2>1, <2>2
<1> DEFINE g == (e * max * Units) \div window
<1>4. e * max * Units \in Nat  BY <1>0, <1>1
<1>5. g \in Nat  BY <1>4, DivMul
<1>6. f = [r EXCEPT !.tokens = LeastOf(max * Units, r.tokens + g), !.lastRefill = now]
  BY <1>2, <1>3 DEF Refilled
<1> HIDE DEF g
<1>7. max * Units \in Nat  BY <1>0, <1>1
<1>8. LeastOf(max * Units, r.tokens + g) \in Nat /\ LeastOf(max * Units, r.tokens + g) <= max * Units /\ LeastOf(max * Units, r.tokens + g) <= r.tokens + g
  BY <1>3, <1>5, <1>7 DEF LeastOf
<1>9. /\ DOMAIN f = DOMAIN b /\ f.lastRefill = now /\ f.maxTokens = max /\ f.windowMs = window /\ f.tokens = LeastOf(max * Units, r.tokens + g)
  BY <1>3, <1>6 DEF FilledAt
<1>10. FilledAt(f, now)  BY <1>8, <1>9 DEF FilledAt
<1>11. ASSUME NEW a \in Int, Weighs(b, a) PROVE Weighs(f, a + e * Most)
  <2>1. r.tokens * (Most * Least) <= (Units * a) * max  BY <1>3, <1>11 DEF Weighs
  <2>2. f.tokens \in Nat /\ f.tokens <= r.tokens + (e * max * Units) \div window  BY <1>8, <1>9 DEF g
  <2> HIDE DEF e
  <2>3. f.tokens * (Most * Least) <= (Units * (a + e * Most)) * max  BY <2>1, <2>2, <1>0, <1>1, <1>3, Refills
  <2> QED  BY <2>3, <1>9 DEF Weighs
<1> QED  BY <1>9, <1>10, <1>11

LEMMA GrantsLess ==
  ASSUME NEW n \in Int, NEW s \in Int, NEW at \in Int, NEW then \in Int
  PROVE  /\ Grants(n, s, at) \in Int /\ Grants(n + 1, s, at) = Grants(n, s, at) - Least
         /\ Grants(n, s, at) = Grants(n, s, then) + (at - then) * Most
         /\ Grants(1, s, s) = Most * Least - Least
<1>1. Most \in Int /\ Least \in Int /\ Most * Least \in Int  BY LimitsTyped
<1> QED  BY <1>1 DEF Grants

LEMMA NotSpent ==
  ASSUME NEW t, NEW b, FilledAt(b, t), NEW a \in Int, Weighs(b, a)
  PROVE  a >= 0
<1>1. b.tokens \in Nat /\ b.maxTokens \in Nat \ {0} /\ Units \in Nat \ {0} /\ Most * Least \in Nat  BY LimitsTyped DEF FilledAt
<1>2. b.tokens * (Most * Least) <= (Units * a) * b.maxTokens  BY DEF Weighs
<1>3. b.tokens * (Most * Least) >= 0  BY <1>1
<1>4. Units * b.maxTokens \in Nat \ {0}  BY <1>1
<1>5. (Units * a) * b.maxTokens = a * (Units * b.maxTokens)  BY <1>1
<1>6. (Units * a) * b.maxTokens \in Int /\ b.tokens * (Most * Least) \in Int  BY <1>1
<1>7. 0 <= a * (Units * b.maxTokens)  BY <1>2, <1>3, <1>5, <1>6
<1>8. 0 * (Units * b.maxTokens) = 0  BY <1>4
<1> QED  BY <1>4, <1>7, <1>8, MulCancel

(* Of some roles, the widest limits.                                       *)
LEMMA Limiting ==
  ASSUME NEW roles, roles \subseteq Roles, roles # {}
  PROVE  /\ BestMax(roles) = -1 \/ BestMax(roles) \in 1 .. Most
         /\ BestWindow(roles) \in Nat \ {0} /\ BestWindow(roles) >= Least
<1>1. BestMax(roles) = -1 \/ BestMax(roles) \in 1 .. Most
  <2> SUFFICES ASSUME \A r \in roles : Limits[r].max # -1 PROVE BestMax(roles) \in 1 .. Most  BY DEF BestMax
  <2> DEFINE T == {Most - Limits[r].max : r \in roles}
             Wide(x) == x \in {Limits[r].max : r \in roles} /\ \A r \in roles : Limits[r].max <= x
  <2>1. Most \in Nat /\ \A r \in roles : Limits[r].max \in 1 .. Most  BY LimitsTyped
  <2>2. T \subseteq Nat /\ T # {}  BY <2>1
  <2>3. PICK z \in T : \A y \in T : z <= y
    <3> HIDE DEF T
    <3> QED  BY <2>2, LeastNumber
  <2>4. PICK q \in roles : z = Most - Limits[q].max  BY <2>3
  <2>5. Wide(Limits[q].max)
    <3>1. ASSUME NEW r \in roles PROVE Limits[r].max <= Limits[q].max
      <4>1. Most - Limits[r].max \in T  OBVIOUS
      <4>2. z <= Most - Limits[r].max  BY <2>3, <4>1
      <4> HIDE DEF T
      <4> QED  BY <2>1, <2>4, <4>2
    <3> QED  BY <3>1
  <2>6. BestMax(roles) = CHOOSE x \in {Limits[r].max : r \in roles} : \A r \in roles : Limits[r].max <= x  BY DEF BestMax
  <2>7. BestMax(roles) \in {Limits[r].max : r \in roles}  BY <2>5, <2>6
  <2> QED  BY <2>1, <2>7
<1>2. BestWindow(roles) \in Nat \ {0} /\ BestWindow(roles) >= Least
  <2> DEFINE T == {Limits[r].window : r \in roles}
  <2>1. T \subseteq Nat /\ T # {}  BY LimitsTyped
  <2>2. PICK z \in T : \A y \in T : z <= y
    <3> HIDE DEF T
    <3> QED  BY <2>1, LeastNumber
  <2>3. z \in T /\ \A r \in roles : z <= Limits[r].window  BY <2>2
  <2>4. BestWindow(roles) \in T  BY <2>3 DEF BestWindow
  <2> QED  BY <2>4, LimitsTyped
<1> QED  BY <1>1, <1>2

(* One message more, at t. *)
Grown(q, p, t) == Len(p) = Len(q) + 1 /\ p[Len(q) + 1] = t /\ \A i \in 1 .. Len(q) : p[i] = q[i]

LEMMA AppendGrows ==
  ASSUME NEW q \in Seq(Nat), NEW t \in Nat, NEW p, p = Append(q, t)
  PROVE  p \in Seq(Nat) /\ Grown(q, p, t)
BY DEF Grown

(* A bucket dated now that weighs enough bounds what is sent.              *)
LEMMA BoundedNow ==
  ASSUME NEW q \in Seq(Nat), NEW p \in Seq(Nat), NEW t \in Nat, Grown(q, p, t), Bounds(q),
         NEW b, FilledAt(b, t), b.lastRefill = t, b # NoBucket, Meters(b, p, t)
  PROVE  Bounds(p)
<1>1. PICK n \in Nat : n = Len(q)  OBVIOUS
<1>2. Len(p) = n + 1 /\ p[n + 1] = t /\ \A i \in 1 .. n : p[i] = q[i]  BY <1>1 DEF Grown
<1>3. \A i \in 1 .. n + 1 : p[i] \in Nat  BY <1>2
<1>4. Most \in Nat /\ Least \in Nat  BY LimitsTyped
<1>5. \A i \in 1 .. n + 1 : InTime(n + 1 - i + 1, t - p[i])
  <2> SUFFICES ASSUME NEW i \in 1 .. n + 1 PROVE InTime(n + 1 - i + 1, t - p[i])  OBVIOUS
  <2>1. PICK k \in Int : k = n + 1 - i + 1  OBVIOUS
  <2>2. PICK s \in Int : s = p[i]  BY <1>3
  <2>3. Weighs(b, Grants(k, s, t))  BY <1>2, <2>1, <2>2 DEF Meters
  <2>4. Grants(k, s, t) \in Int  BY GrantsLess
  <2>5. Grants(k, s, t) >= 0  BY <2>3, <2>4, NotSpent
  <2>6. Most * Least + (t - s) * Most - k * Least >= 0  BY <2>5 DEF Grants
  <2>7. InTime(k, t - s)  BY <2>6, <1>4 DEF InTime
  <2> QED  BY <2>1, <2>2, <2>7
<1>6. SUFFICES ASSUME NEW i \in 1 .. n + 1, NEW j \in 1 .. n + 1, i <= j
               PROVE  InTime(j - i + 1, p[j] - p[i])
  BY <1>2, Zenon DEF Bounds
<1>7. CASE j = n + 1
  <2>1. p[j] = t  BY <1>2, <1>7, Zenon
  <2>2. InTime(n + 1 - i + 1, t - p[i])  BY <1>5, Zenon
  <2> QED  BY <1>7, <2>1, <2>2
<1>8. CASE j # n + 1
  <2>1. i \in 1 .. n /\ j \in 1 .. n  BY <1>6, <1>8
  <2>2. InTime(j - i + 1, q[j] - q[i])  BY <1>1, <1>6, <2>1, Zenon DEF Bounds
  <2> QED  BY <1>2, <2>1, <2>2, Zenon
<1> QED  BY <1>7, <1>8


LEMMA WeighsMore ==
  ASSUME NEW t, NEW b, FilledAt(b, t), NEW a \in Int, NEW d \in Int, a <= d, Weighs(b, a)
  PROVE  Weighs(b, d)
<1>1. b.tokens \in Nat /\ b.maxTokens \in Nat /\ Units \in Nat /\ Most * Least \in Nat  BY LimitsTyped DEF FilledAt
<1>2. Units * b.maxTokens \in Nat  BY <1>1
<1>3. a * (Units * b.maxTokens) <= d * (Units * b.maxTokens)  BY <1>2, MulMono
<1>4. (Units * a) * b.maxTokens = a * (Units * b.maxTokens) /\ (Units * d) * b.maxTokens = d * (Units * b.maxTokens)  BY <1>1
<1>5. b.tokens * (Most * Least) \in Int /\ a * (Units * b.maxTokens) \in Int /\ d * (Units * b.maxTokens) \in Int  BY <1>1, <1>2
<1>6. b.tokens * (Most * Least) <= a * (Units * b.maxTokens)  BY <1>4 DEF Weighs
<1>7. b.tokens * (Most * Least) <= d * (Units * b.maxTokens)  BY <1>3, <1>5, <1>6
<1> QED  BY <1>4, <1>7 DEF Weighs

(* A whole bucket weighs what the widest holds. *)
LEMMA FullWeighs ==
  ASSUME NEW t, NEW b, FilledAt(b, t)
  PROVE  Weighs(b, Most * Least)
<1>1. b.tokens \in Nat /\ b.maxTokens \in Nat /\ b.tokens <= b.maxTokens * Units  BY DEF FilledAt
<1>2. b.tokens * (Most * Least) <= (Units * (Most * Least)) * b.maxTokens  BY <1>1, LimitsTyped, Begins
<1> QED  BY <1>2 DEF Weighs

LEMMA TakenWeighs ==
  ASSUME NEW t, NEW b, FilledAt(b, t), b.tokens >= Units, NEW x, x = [b EXCEPT !.tokens = @ - Units]
  PROVE  /\ FilledAt(x, t) /\ x.lastRefill = b.lastRefill /\ x # NoBucket
         /\ \A a \in Int : Weighs(b, a) => Weighs(x, a - Least)
<1>1. /\ b.tokens \in Nat /\ b.maxTokens \in 1 .. Most /\ b.tokens <= b.maxTokens * Units /\ b.maxTokens \in Nat \ {0}
      /\ Units \in Nat /\ Most \in Nat /\ Least \in Nat /\ Most * Least \in Nat
  BY LimitsTyped DEF FilledAt
<1>2. /\ DOMAIN x = DOMAIN b /\ x.tokens = b.tokens - Units /\ x.lastRefill = b.lastRefill /\ x.maxTokens = b.maxTokens /\ x.windowMs = b.windowMs
  BY DEF FilledAt
<1>3. b.maxTokens * Units \in Nat  BY <1>1
<1>4. x.tokens \in Nat /\ x.tokens <= x.maxTokens * Units  BY <1>1, <1>2, <1>3
<1>5. FilledAt(x, t)  BY <1>2, <1>4 DEF FilledAt
<1>6. x # NoBucket  BY <1>1, <1>2 DEF NoBucket
<1>7. ASSUME NEW a \in Int, Weighs(b, a) PROVE Weighs(x, a - Least)
  <2>1. b.tokens * (Most * Least) <= (Units * a) * b.maxTokens  BY <1>7 DEF Weighs
  <2>2. (b.tokens - Units) * (Most * Least) <= (Units * (a - Least)) * b.maxTokens  BY <1>1, <2>1, Takes
  <2> QED  BY <1>2, <2>2 DEF Weighs
<1> QED  BY <1>2, <1>5, <1>6, <1>7

(* One that was let through at t leaves less to grant since every one, and *)
(* since itself what a whole bucket would.                                 *)
LEMMA RateTakes ==
  ASSUME NEW q \in Seq(Nat), NEW t \in Nat, Bounds(q), NEW p, p = Append(q, t),
         NEW b, FilledAt(b, t), b.lastRefill = t, b.tokens >= Units, NEW x, x = [b EXCEPT !.tokens = @ - Units],
         \A i \in 1 .. Len(q) : Weighs(b, Grants(Len(q) - i + 1, q[i], t))
  PROVE  Rated(x, p, t)
<1>1. p \in Seq(Nat) /\ Grown(q, p, t)  BY AppendGrows
<1>2. FilledAt(x, t) /\ x.lastRefill = t /\ x # NoBucket /\ \A a \in Int : Weighs(b, a) => Weighs(x, a - Least)  BY TakenWeighs
<1>3. PICK n \in Nat : n = Len(q)  OBVIOUS
<1>4. Len(p) = n + 1 /\ p[n + 1] = t /\ (\A i \in 1 .. n : p[i] = q[i]) /\ \A i \in 1 .. n : q[i] \in Nat  BY <1>1, <1>3 DEF Grown
<1>5. ASSUME NEW i \in 1 .. n PROVE Weighs(x, Grants(n + 1 - i + 1, p[i], t))
  <2>1. PICK k \in Int : k = n - i + 1  OBVIOUS
  <2>2. PICK s \in Int : s = q[i]
    <3>1. q[i] \in Int  BY <1>4
    <3> QED  BY <3>1
  <2>3. Grants(k, s, t) \in Int /\ Grants(k + 1, s, t) = Grants(k, s, t) - Least  BY GrantsLess
  <2>4. Weighs(b, Grants(k, s, t))  BY <1>3, <2>1, <2>2
  <2>5. Weighs(x, Grants(k + 1, s, t))  BY <1>2, <2>3, <2>4
  <2>6. k + 1 = n + 1 - i + 1 /\ p[i] = s  BY <1>4, <2>1, <2>2
  <2> QED  BY <2>5, <2>6
<1>6. Weighs(x, Grants(n + 1 - (n + 1) + 1, p[n + 1], t))
  <2>1. Weighs(b, Most * Least)  BY FullWeighs
  <2>2. Most * Least \in Int  BY LimitsTyped
  <2>3. Weighs(x, Most * Least - Least)  BY <1>2, <2>1, <2>2
  <2>4. Grants(1, t, t) = Most * Least - Least  BY <2>2, LimitsTyped DEF Grants
  <2>5. n + 1 - (n + 1) + 1 = 1  OBVIOUS
  <2> QED  BY <1>4, <2>3, <2>4, <2>5
<1>7. Meters(x, p, t)
  <2>1. ASSUME NEW i \in 1 .. n + 1 PROVE Weighs(x, Grants(n + 1 - i + 1, p[i], t))
    <3>1. CASE i = n + 1  BY <3>1, <1>6
    <3>2. CASE i # n + 1
      <4>1. i \in 1 .. n  BY <3>2
      <4> QED  BY <4>1, <1>5
    <3> QED  BY <3>1, <3>2
  <2>2. ASSUME NEW i \in 1 .. Len(p) PROVE Weighs(x, Grants(Len(p) - i + 1, p[i], x.lastRefill))
    <3>1. i \in 1 .. n + 1  BY <1>4
    <3>2. Len(p) - i + 1 = n + 1 - i + 1  BY <1>4
    <3>3. Weighs(x, Grants(n + 1 - i + 1, p[i], t))  BY <2>1, <3>1, Zenon
    <3> QED  BY <1>2, <3>2, <3>3, Zenon
  <2> QED  BY <1>2, <2>2, Zenon DEF Meters
<1>8. Bounds(p)  BY <1>1, <1>2, <1>7, BoundedNow
<1> QED  BY <1>1, <1>2, <1>7, <1>8 DEF Rated

LEMMA RateBegins ==
  ASSUME NEW t \in Nat, NEW q, Rated(NoBucket, q, t), NEW p, p = Append(q, t), NEW max \in 1 .. Most, NEW window \in Nat \ {0}, window >= Least,
         NEW x, x = [tokens |-> (max - 1) * Units, lastRefill |-> t, maxTokens |-> max, windowMs |-> window]
  PROVE  Rated(x, p, t)
<1> DEFINE b == [tokens |-> max * Units, lastRefill |-> t, maxTokens |-> max, windowMs |-> window]
<1>1. Units \in Nat /\ Most \in Nat /\ Least \in Nat /\ max \in Nat \ {0}  BY LimitsTyped
<1>2. max * Units \in Nat /\ (max - 1) * Units = max * Units - Units /\ max * Units >= Units
  <2>1. 1 * Units <= max * Units  BY <1>1, MulMono
  <2> QED  BY <1>1, <2>1
<1>3. FilledAt(b, t) /\ b.lastRefill = t /\ b.tokens >= Units /\ x = [b EXCEPT !.tokens = @ - Units]
  <2>1. DOMAIN b = {"tokens", "lastRefill", "maxTokens", "windowMs"} /\ b.tokens = max * Units /\ b.lastRefill = t /\ b.maxTokens = max /\ b.windowMs = window
    OBVIOUS
  <2>2. x = [b EXCEPT !.tokens = @ - Units]  BY <1>2
  <2> HIDE DEF b
  <2>3. FilledAt(b, t)  BY <1>1, <1>2, <2>1 DEF FilledAt
  <2> QED  BY <1>2, <2>1, <2>2, <2>3
<1> HIDE DEF b
<1>4. q \in Seq(Nat) /\ Bounds(q)  BY DEF Rated
<1>5. ASSUME NEW i \in 1 .. Len(q) PROVE Weighs(b, Grants(Len(q) - i + 1, q[i], t))
  <2>1. PICK k \in Int : k = Len(q) - i + 1
    <3>1. Len(q) \in Nat  BY <1>4
    <3>2. Len(q) - i + 1 \in Int  BY <3>1
    <3> QED  BY <3>2
  <2>2. PICK s \in Int : s = q[i]
    <3>1. q[i] \in Int  BY <1>4
    <3> QED  BY <3>1
  <2>3. k * Least <= (t - s) * Most  BY <2>1, <2>2 DEF Rated, Meters
  <2>4. Grants(k, s, t) \in Int /\ Most * Least <= Grants(k, s, t)  BY <2>3, <1>1, GrantsLess, LimitsTyped DEF Grants
  <2>5. Most * Least \in Int /\ Weighs(b, Most * Least)  BY <1>3, FullWeighs, LimitsTyped
  <2>6. Weighs(b, Grants(k, s, t))  BY <1>3, <2>4, <2>5, WeighsMore
  <2> QED  BY <2>1, <2>2, <2>6
<1> QED  BY <1>3, <1>4, <1>5, RateTakes

LEMMA RateRefills ==
  ASSUME now \in Nat, NEW b, b # NoBucket, NEW q, Rated(b, q, now), NEW max \in 1 .. Most, NEW window \in Nat \ {0}, window >= Least,
         NEW f, f = Refilled(Resized(b, max, window))
  PROVE  /\ Rated(f, q, now) /\ FilledAt(f, now) /\ f.lastRefill = now
         /\ \A i \in 1 .. Len(q) : Weighs(f, Grants(Len(q) - i + 1, q[i], now))
<1>1. q \in Seq(Nat) /\ Bounds(q) /\ FilledAt(b, now) /\ Meters(b, q, now)  BY DEF Rated
<1>2. /\ FilledAt(f, now) /\ f.lastRefill = now /\ f.maxTokens = max
      /\ \A a \in Int : Weighs(b, a) => Weighs(f, a + (now - b.lastRefill) * Most)
  BY <1>1, RefilledWeighs
<1>3. f # NoBucket  BY <1>2 DEF NoBucket
<1>4. ASSUME NEW i \in 1 .. Len(q) PROVE Weighs(f, Grants(Len(q) - i + 1, q[i], now))
  <2>1. PICK k \in Int : k = Len(q) - i + 1
    <3>1. Len(q) \in Nat  BY <1>1
    <3>2. Len(q) - i + 1 \in Int  BY <3>1
    <3> QED  BY <3>2
  <2>2. PICK s \in Int : s = q[i]
    <3>1. q[i] \in Int  BY <1>1
    <3> QED  BY <3>1
  <2>3. b.lastRefill \in Int /\ now \in Int  BY <1>1 DEF FilledAt
  <2>4. Grants(k, s, b.lastRefill) \in Int /\ Grants(k, s, now) = Grants(k, s, b.lastRefill) + (now - b.lastRefill) * Most  BY <2>3, GrantsLess
  <2>5. Weighs(b, Grants(k, s, b.lastRefill))  BY <1>1, <2>1, <2>2 DEF Meters
  <2>6. Weighs(f, Grants(k, s, now))  BY <1>2, <2>4, <2>5
  <2> QED  BY <2>1, <2>2, <2>6
<1>5. Meters(f, q, now)  BY <1>2, <1>3, <1>4 DEF Meters
<1> QED  BY <1>1, <1>2, <1>4, <1>5 DEF Rated

LEMMA RatePrunes ==
  ASSUME now \in Nat, NEW b, NEW q, Rated(b, q, now), Stale(b)
  PROVE  Rated(NoBucket, q, now)
<1>1. q \in Seq(Nat) /\ Bounds(q) /\ FilledAt(b, now) /\ Meters(b, q, now) /\ b # NoBucket  BY DEF Rated, Stale
<1>2. PICK l \in Nat : l = b.lastRefill  BY <1>1 DEF FilledAt
<1>3. l + Least <= now /\ Least \in Nat /\ Most \in Nat /\ Most * Least \in Nat  BY <1>1, <1>2, LimitsTyped DEF FilledAt, Stale
<1>4. ASSUME NEW i \in 1 .. Len(q) PROVE (Len(q) - i + 1) * Least <= (now - q[i]) * Most
  <2>1. PICK k \in Int : k = Len(q) - i + 1
    <3>1. Len(q) \in Nat  BY <1>1
    <3>2. Len(q) - i + 1 \in Int  BY <3>1
    <3> QED  BY <3>2
  <2>2. PICK s \in Int : s = q[i]
    <3>1. q[i] \in Int  BY <1>1
    <3> QED  BY <3>1
  <2>3. Weighs(b, Grants(k, s, l)) /\ Grants(k, s, l) \in Int  BY <1>1, <1>2, <2>1, <2>2, GrantsLess DEF Meters
  <2>4. Grants(k, s, l) >= 0  BY <1>1, <2>3, NotSpent
  <2>5. k * Least <= Most * Least + (l - s) * Most  BY <2>4, <1>3 DEF Grants
  <2>6. Most * Least + (l - s) * Most = (l + Least - s) * Most  BY <1>3
  <2>7. (l + Least - s) * Most <= (now - s) * Most
    <3>1. l + Least - s \in Int /\ now - s \in Int /\ l + Least - s <= now - s  BY <1>3
    <3> QED  BY <1>3, <3>1, MulMono
  <2>8. k * Least <= (now - s) * Most
    <3>1. k * Least \in Int /\ (l + Least - s) * Most \in Int /\ (now - s) * Most \in Int  BY <1>3
    <3> QED  BY <2>5, <2>6, <2>7, <3>1
  <2> QED  BY <2>1, <2>2, <2>8
<1> QED  BY <1>1, <1>4 DEF Rated, Meters

LEMMA RateTicks ==
  ASSUME NEW t \in Nat, NEW b, NEW q, Rated(b, q, t)
  PROVE  Rated(b, q, t + 1)
<1>1. FilledAt(b, t) => FilledAt(b, t + 1)  BY DEF FilledAt
<1>2. ASSUME b = NoBucket, NEW i \in 1 .. Len(q) PROVE (Len(q) - i + 1) * Least <= (t + 1 - q[i]) * Most
  <2>1. PICK x \in Int : x = (Len(q) - i + 1) * Least  BY LimitsTyped DEF Rated
  <2>2. PICK s \in Int : s = q[i]
    <3>1. q[i] \in Int  BY DEF Rated
    <3> QED  BY <3>1
  <2>3. x <= (t - s) * Most  BY <1>2, <2>1, <2>2 DEF Rated, Meters
  <2>4. Most \in Nat /\ (t + 1 - s) * Most = (t - s) * Most + Most  BY LimitsTyped
  <2>5. x <= (t + 1 - s) * Most  BY <2>3, <2>4
  <2> QED  BY <2>1, <2>2, <2>5
<1>3. Meters(b, q, t + 1)  BY <1>2 DEF Rated, Meters
<1> QED  BY <1>1, <1>3 DEF Rated

LEMMA CheckRates ==
  ASSUME RateInv, NEW c \in Contacts, NEW roles, roles \subseteq Roles, roles # {},
         NEW check, check = Checked(buckets[c], BestMax(roles), BestWindow(roles)),
         NEW p, p = IF check.allowed /\ BestMax(roles) # -1 THEN Append(sent[c], now) ELSE sent[c]
  PROVE  Rated(check.bucket, p, now)
<1> DEFINE b == buckets[c]
           q == sent[c]
<1>1. Rated(b, q, now) /\ now \in Nat /\ q \in Seq(Nat)  BY DEF RateInv, Rated
<1>2. CASE BestMax(roles) = -1
  <2>1. check.bucket = b  BY <1>2 DEF Checked
  <2> QED  BY <1>1, <1>2, <2>1
<1>3. CASE BestMax(roles) # -1
  <2>1. PICK max \in 1 .. Most, window \in Nat \ {0} : max = BestMax(roles) /\ window = BestWindow(roles) /\ window >= Least
    <3>1. BestMax(roles) \in 1 .. Most /\ BestWindow(roles) \in Nat \ {0} /\ BestWindow(roles) >= Least  BY <1>3, Limiting
    <3> QED  BY <3>1
  <2>2. check = Checked(b, max, window) /\ max # -1  BY <2>1
  <2>3. CASE b = NoBucket
    <3>1. check.allowed = TRUE /\ check.bucket = [tokens |-> (max - 1) * Units, lastRefill |-> now, maxTokens |-> max, windowMs |-> window]
      BY <2>2, <2>3 DEF Checked
    <3>2. p = Append(q, now)  BY <1>3, <3>1
    <3>3. Rated(NoBucket, q, now)  BY <1>1, <2>3
    <3> HIDE DEF b, q
    <3> QED  BY <1>1, <2>1, <3>1, <3>2, <3>3, RateBegins
  <2>4. CASE b # NoBucket
    <3>1. PICK f : f = Refilled(Resized(b, max, window))  OBVIOUS
    <3>2. check = IF f.tokens >= Units THEN [bucket |-> [f EXCEPT !.tokens = @ - Units], allowed |-> TRUE] ELSE [bucket |-> f, allowed |-> FALSE]
      BY <2>2, <2>4, <3>1, Zenon DEF Checked
    <3> HIDE DEF b, q
    <3>3. /\ Rated(f, q, now) /\ FilledAt(f, now) /\ f.lastRefill = now
          /\ \A i \in 1 .. Len(q) : Weighs(f, Grants(Len(q) - i + 1, q[i], now))
      BY <1>1, <2>1, <2>4, <3>1, RateRefills
    <3>4. CASE f.tokens >= Units
      <4>1. PICK x : x = [f EXCEPT !.tokens = @ - Units]  OBVIOUS
      <4>2. check.bucket = x /\ check.allowed = TRUE  BY <3>2, <3>4, <4>1
      <4>3. p = Append(q, now)  BY <1>3, <4>2 DEF q
      <4>4. Bounds(q)  BY <1>1 DEF Rated
      <4>5. Rated(x, p, now)  BY <1>1, <3>3, <3>4, <4>1, <4>3, <4>4, RateTakes
      <4> QED  BY <4>2, <4>5
    <3>5. CASE ~(f.tokens >= Units)
      <4>1. check.bucket = f /\ check.allowed = FALSE  BY <3>2, <3>5
      <4>2. p = q  BY <4>1 DEF q
      <4> QED  BY <3>3, <4>1, <4>2
    <3> QED  BY <3>4, <3>5
  <2> QED  BY <2>3, <2>4
<1> QED  BY <1>2, <1>3

(* One contact's bucket and messages change at most. *)
LEMMA RateOnly ==
  ASSUME RateInv, now' = now, NEW c \in Contacts, NEW b, NEW p, buckets' = [buckets EXCEPT ![c] = b],
         sent' = [sent EXCEPT ![c] = p], Rated(b, p, now)
  PROVE  RateInv'
<1>0. DOMAIN sent = Contacts  BY DEF RateInv
<1>1. sent' = [d \in Contacts |-> sent'[d]] /\ DOMAIN buckets' = Contacts  BY <1>0 DEF RateInv
<1>2. ASSUME NEW d \in Contacts PROVE Rated(buckets'[d], sent'[d], now)
  <2>1. CASE d = c
    <3>1. buckets'[d] = b /\ sent'[d] = p  BY <1>0, <2>1 DEF RateInv
    <3> QED  BY <3>1
  <2>2. CASE d # c
    <3>1. buckets'[d] = buckets[d] /\ sent'[d] = sent[d]  BY <1>0, <2>2 DEF RateInv
    <3> QED  BY <3>1 DEF RateInv
  <2> QED  BY <2>1, <2>2
<1> QED  BY <1>1, <1>2 DEF RateInv

LEMMA ResolvedRoles ==
  ASSUME IInv, NEW m, NEW whole \in BOOLEAN, NEW admin
  PROVE  /\ Resolved(m, IF whole THEN Granted(m.jids, m.room) ELSE {}, admin) \subseteq Roles
         /\ Resolved(m, IF whole THEN Granted(m.jids, m.room) ELSE {}, admin) # {}
<1>1. Granted(m.jids, m.room) \subseteq Roles  BY DEF IInv, Stored, Granted
<1> QED  BY <1>1 DEF Resolved, Roles

LEMMA ResolveRates == ASSUME RateInv, IInv, NEW t \in Turns, Resolve(t) PROVE RateInv'
<1> DEFINE m == turn[t]
           Rolled(whole) == Resolved(m, IF whole THEN Granted(m.jids, m.room) ELSE {}, m.admin)
           Check(whole) == IF scene.limited THEN Checked(buckets[m.via], BestMax(Rolled(whole)), BestWindow(Rolled(whole)))
                                            ELSE [bucket |-> buckets[m.via], allowed |-> TRUE]
<1>1. m.at = "identified" /\ now' = now  BY Zenon DEF Resolve
<1>2. m.via \in Contacts
  <2>1. Shown(m)  BY <1>1 DEF IInv, Turning
  <2> QED  BY <2>1 DEF Shown, Contact
<1>3. PICK whole \in BOOLEAN :
        /\ buckets' = [buckets EXCEPT ![m.via] = Check(whole).bucket]
        /\ IF Check(whole).allowed THEN sent' = IF scene.limited /\ BestMax(Rolled(whole)) # -1 THEN [sent EXCEPT ![m.via] = Append(@, now)] ELSE sent
                                   ELSE sent' = sent
  BY Zenon DEF Resolve
<1>4. PICK roles : roles = Rolled(whole)  OBVIOUS
<1>5. roles \subseteq Roles /\ roles # {}  BY <1>4, ResolvedRoles
<1>6. PICK check : check = Check(whole)  OBVIOUS
<1> HIDE DEF m
<1>7. buckets' = [buckets EXCEPT ![m.via] = check.bucket]  BY <1>3, <1>6, Zenon
<1>8. sent' = IF check.allowed /\ scene.limited /\ BestMax(roles) # -1 THEN [sent EXCEPT ![m.via] = Append(@, now)] ELSE sent
  BY <1>3, <1>4, <1>6
<1>9. sent = [sent EXCEPT ![m.via] = sent[m.via]]  BY <1>2 DEF RateInv
<1>10. CASE scene.limited
  <2>1. check = Checked(buckets[m.via], BestMax(roles), BestWindow(roles))  BY <1>4, <1>6, <1>10, Zenon
  <2>2. PICK p : p = IF check.allowed /\ BestMax(roles) # -1 THEN Append(sent[m.via], now) ELSE sent[m.via]  OBVIOUS
  <2>3. Rated(check.bucket, p, now)  BY <1>2, <1>5, <2>1, <2>2, CheckRates
  <2>4. sent' = [sent EXCEPT ![m.via] = p]
    <3>1. CASE check.allowed /\ BestMax(roles) # -1  BY <1>8, <1>10, <2>2, <3>1
    <3>2. CASE ~(check.allowed /\ BestMax(roles) # -1)  BY <1>8, <1>9, <2>2, <3>2
    <3> QED  BY <3>1, <3>2
  <2> QED  BY <1>1, <1>2, <1>7, <2>3, <2>4, RateOnly
<1>11. CASE ~scene.limited
  <2>1. check.bucket = buckets[m.via]  BY <1>6, <1>11
  <2>2. sent' = [sent EXCEPT ![m.via] = sent[m.via]]  BY <1>8, <1>9, <1>11
  <2>3. Rated(buckets[m.via], sent[m.via], now)  BY <1>2 DEF RateInv
  <2> QED  BY <1>1, <1>2, <1>7, <2>1, <2>2, <2>3, RateOnly
<1> QED  BY <1>10, <1>11

LEMMA TickRates == ASSUME RateInv, Tick PROVE RateInv'
<1>1. now' = now + 1 /\ buckets' = buckets /\ sent' = sent  BY DEF Tick
<1>2. ASSUME NEW c \in Contacts PROVE Rated(buckets[c], sent[c], now + 1)  BY RateTicks DEF RateInv
<1> QED  BY <1>1, <1>2 DEF RateInv

LEMMA PruneRates == ASSUME RateInv, Prune PROVE RateInv'
<1>1. buckets' = [c \in Contacts |-> IF Stale(buckets[c]) THEN NoBucket ELSE buckets[c]] /\ now' = now /\ sent' = sent  BY DEF Prune
<1>2. ASSUME NEW c \in Contacts PROVE Rated(buckets'[c], sent[c], now)
  <2>1. Rated(buckets[c], sent[c], now) /\ now \in Nat  BY DEF RateInv
  <2>2. CASE Stale(buckets[c])
    <3>1. Rated(NoBucket, sent[c], now)  BY <2>1, <2>2, RatePrunes
    <3> QED  BY <1>1, <2>2, <3>1
  <2>3. CASE ~Stale(buckets[c])  BY <1>1, <2>1, <2>3
  <2> QED  BY <2>2, <2>3
<1> QED  BY <1>1, <1>2 DEF RateInv

LEMMA NextRates == ASSUME RateInv, IInv, [Next]_vars PROVE RateInv'
<1>1. \/ \E t \in Turns : Resolve(t)
      \/ Tick \/ Prune
      \/ UNCHANGED <<buckets, now, sent>>
  <2>1. CASE UNCHANGED vars  BY <2>1 DEF vars
  <2>2. CASE Step
    BY <2>2, Zenon DEF Step, Receive, Identify, Authorize, Aim, Write, Change, Learn, Seed, Forget, Promote
  <2> QED  BY <2>1, <2>2 DEF Next
<1>2. CASE \E t \in Turns : Resolve(t)  BY <1>2, ResolveRates
<1>3. CASE Tick \/ Prune  BY <1>3, TickRates, PruneRates
<1>4. CASE UNCHANGED <<buckets, now, sent>>  BY <1>4 DEF RateInv
<1> QED  BY <1>1, <1>2, <1>3, <1>4

LEMMA InitRates == ASSUME Init PROVE RateInv
<1>1. buckets = [c \in Contacts |-> NoBucket] /\ now = 0 /\ sent = [c \in Contacts |-> <<>>]  BY DEF Init
<1>2. ASSUME NEW c \in Contacts PROVE Rated(buckets[c], sent[c], now)
  <2>1. buckets[c] = NoBucket /\ sent[c] = <<>>  BY <1>1
  <2>2. Rated(NoBucket, <<>>, now)  BY DEF Rated, Meters, Bounds
  <2> QED  BY <2>1, <2>2
<1> QED  BY <1>1, <1>2 DEF RateInv

(* Whoever sends, with whichever roles in whichever rooms, and however his *)
(* bucket is resized, refilled and pruned: no run of his messages is let   *)
(* through beyond the widest limits and what they refill meanwhile, and     *)
(* each is handled with his roles (RateLimiter.ts:52-140,                  *)
(* AuthService.ts:150-260).                                                *)
THEOREM SendersAreKnown == Spec => []SenderKnown
<1>1. Init => RateInv  BY InitRates
<1>2. RateInv /\ IInv /\ [Next]_vars => RateInv'  BY NextRates
<1>3. RateInv => RateBound
  <2> SUFFICES ASSUME RateInv, NEW c \in Contacts, NEW i \in 1 .. Len(sent[c]), NEW j \in 1 .. Len(sent[c]), i <= j
               PROVE  (j - i + 1 - Widest) * Narrowest <= (sent[c][j] - sent[c][i]) * Widest
    BY DEF RateBound
  <2>1. InTime(j - i + 1, sent[c][j] - sent[c][i])  BY DEF RateInv, Rated, Bounds
  <2>2. PICK n \in Int : n = j - i + 1  OBVIOUS
  <2>3. PICK t \in Int : t = sent[c][j] - sent[c][i]
    <3>1. sent[c] \in Seq(Nat)  BY DEF RateInv, Rated
    <3>2. sent[c][j] \in Int /\ sent[c][i] \in Int  BY <3>1
    <3>3. sent[c][j] - sent[c][i] \in Int  BY <3>2
    <3> QED  BY <3>3
  <2>4. (n - Widest) * Narrowest <= t * Widest
    <3>1. InTime(n, t)  BY <2>1, <2>2, <2>3
    <3> QED  BY <3>1 DEF InTime, Most, Least
  <2>5. Widest \in Int /\ Narrowest \in Int  BY LimitsTyped DEF Most, Least
  <2> QED  BY <2>2, <2>3, <2>4, <2>5
<1>4. Spec => []RateInv  BY <1>1, <1>2, Invariance, PTL DEF Spec
<1>5. RolesExact /\ RateBound => SenderKnown  BY DEF SenderKnown
<1> QED  BY <1>3, <1>4, <1>5, RolesAreTheSenders, PTL
=============================================================================
