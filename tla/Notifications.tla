--------------------------- MODULE Notifications ---------------------------
(***************************************************************************)
(* The registry of rooms (db/rooms.ts, messaging/roomKeys.ts and           *)
(* core/platforms.ts).  The key of a room spells out its platform and      *)
(* remote id, so a room is the record of both.  A remote id alone may name *)
(* a room on each platform.                                                *)
(*                                                                         *)
(* Who is told of what, and where: NotificationSubscriptionService with    *)
(* the notify command of MediaBindTool, over the links of                  *)
(* ServiceBindingService (which Flows changes and which stand here).       *)
(***************************************************************************)
EXTENDS FiniteSets, Naturals, Sequences

CONSTANTS
  Platforms,
  Remotes,      \* remote room ids
  Shape,        \* inferPlatformFromRoomId: [Remotes -> Platforms \cup {None}]
  Legacy,       \* the rooms that only the chat_rooms of an earlier version hold
  None,
  Users,        \* [platform, id]
  Accounts,     \* [external accounts -> the users linked to each]
  Admins,       \* users whose link says that they administer the service
  Owners,       \* users who own the bot
  Members,      \* the foreign rooms a membership check finds: [Users -> SUBSET Remotes]
  MaxSub        \* bound: subscriptions ever stored

Room == [platform : Platforms, remote : Remotes]

ASSUME RoomsAssumption == None \notin Platforms /\ Shape \in [Remotes -> Platforms \cup {None}] /\ Legacy \subseteq Room

ASSUME NotificationsAssumption == Admins \subseteq Users /\ Owners \subseteq Users /\ DOMAIN Members = Users /\ MaxSub \in Nat

VARIABLES
  known,        \* room_keys: the registered rooms
  subs,         \* notification_subscriptions: [id, user, remote]
  command,      \* [Users -> the notify command being handled]
  nextSub

notifyVars == <<subs, command, nextSub>>

RoomOf(platform, remote) == [platform |-> platform, remote |-> remote]

(* platformsForRemoteRoomId *)
PlatformsOf(remote) == {p \in Platforms : RoomOf(p, remote) \in known \cup Legacy}

(* Mutant of Destination: an id of several platforms is taken for one. *)
DestinationGuessed(remote, requested) ==
  LET on == PlatformsOf(remote)
  IN  IF requested # None THEN [ok |-> requested \in Platforms /\ (on = {} \/ requested \in on), platform |-> requested]
      ELSE IF on # {} THEN [ok |-> TRUE, platform |-> CHOOSE p \in on : TRUE]
      ELSE [ok |-> TRUE, platform |-> Shape[remote]]

(* classifyDestination: a platform that contradicts the registry and an id *)
(* of several platforms are refused; an unknown id goes by its shape.      *)
Destination(remote, requested) ==
  LET on == PlatformsOf(remote)
  IN  IF requested # None THEN [ok |-> requested \in Platforms /\ (on = {} \/ requested \in on), platform |-> requested]
      ELSE IF on # {} THEN [ok |-> Cardinality(on) = 1, platform |-> CHOOSE p \in on : TRUE]
      ELSE [ok |-> TRUE, platform |-> Shape[remote]]

(* resolveOrCreateRoomKeySync *)
Registered(room) == known' = known \cup {room}

(* resolveRemoteRoom: where the registry fails, the derived key does. *)
Keyed(room) == Registered(room) \/ UNCHANGED known

(* The rooms an address stands for: none when it may be either of two. *)
Meant(remote, requested) ==
  LET on == PlatformsOf(remote)
  IN  IF requested # None THEN {RoomOf(requested, remote)}
      ELSE IF on # {} THEN IF Cardinality(on) = 1 THEN {RoomOf(p, remote) : p \in on} ELSE {}
      ELSE {RoomOf(p, remote) : p \in {Shape[remote]} \ {None}}

NoCommand == [at |-> "idle", action |-> None, remote |-> None, found |-> 0]

(* getNotificationRooms *)
Subscribed(users) == {RoomOf(s.user.platform, s.remote) : s \in {x \in subs : x.user \in users}}

(* getAdminNotificationRooms: each room once. *)
AdminRooms == Subscribed(Admins)

(* findByExternalUser, findByExternalEmail and findByExternalUsername *)
UsersOf(account) == Accounts[account]

NotifyInit == subs = {} /\ command = [u \in Users |-> NoCommand] /\ nextSub = 1

Proceed(u, changes) == command' = [command EXCEPT ![u] = changes]

(* authorizeNotificationDestination and assertRoomAccess *)
MayDirect(u, here, remote) == remote = here \/ (u \in Owners /\ remote \in Members[u])

Notify(u, c) ==
  /\ command[u].at = "idle"
  /\ IF MayDirect(u, c.here, c.remote)
     THEN Proceed(u, [NoCommand EXCEPT !.at = "looking", !.action = c.action, !.remote = c.remote])
     ELSE UNCHANGED command
  /\ UNCHANGED <<subs, nextSub>>

(* Its unique indexes: one row for a user and a room. *)
RowsFor(u, remote) == {s \in subs : s.user = u /\ s.remote = remote}

(* The row of a user and a room is looked for ... *)
Look(u) ==
  /\ command[u].at = "looking"
  /\ LET rows == RowsFor(u, command[u].remote)
         id   == IF rows = {} THEN 0 ELSE (CHOOSE s \in rows : TRUE).id
     IN  Proceed(u, IF rows = {} /\ command[u].action = "remove" THEN NoCommand ELSE [command[u] EXCEPT !.at = "storing", !.found = id])
  /\ UNCHANGED <<subs, nextSub>>

(* ... and then inserted, unless a unique index forbids it, or deleted.  *)
Store(u) ==
  /\ command[u].at = "storing"
  /\ LET c == command[u]
         taken == RowsFor(u, c.remote) # {}
     IN  IF c.action = "remove" THEN subs' = {s \in subs : s.id # c.found} /\ UNCHANGED nextSub
         ELSE IF c.found # 0 \/ taken THEN UNCHANGED <<subs, nextSub>>
         ELSE nextSub <= MaxSub /\ subs' = subs \cup {[id |-> nextSub, user |-> u, remote |-> c.remote]} /\ nextSub' = nextSub + 1
  /\ Proceed(u, NoCommand)
=============================================================================
