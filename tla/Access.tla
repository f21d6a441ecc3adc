------------------------------- MODULE Access -------------------------------
(***************************************************************************)
(* Who a sender is and what the sender may do: IdentityService,            *)
(* AuthService, permissions, RateLimiter, the checks of the tool registry  *)
(* and the tools that change roles and room settings.                      *)
(*                                                                         *)
(* A person writes under aliases.  WhatsApp shows a LID, a phone number or *)
(* both, and what is shown together is recorded in the background while    *)
(* the message is handled.  Two platforms may use the same id for two      *)
(* persons and for two rooms, so an alias and a room are records.          *)
(* The database holds migrated identities, and a person of WhatsApp has    *)
(* one LID and one number.                                                 *)
(***************************************************************************)
EXTENDS Integers, FiniteSets, Sequences

CONSTANTS
  Turns,        \* bound: messages handled at once, each of a room of its own
  Contacts,     \* the aliases: [platform, id]
  Person,       \* [Contacts -> persons]
  Lids,         \* the contacts that are WhatsApp LIDs
  Owners,       \* resolveOwnerId: the configured owner's contact on each platform
  Rooms,        \* [platform, id, group]
  Limits,       \* [roles -> [max, window]]: the privileges of each role
  Scenes,       \* bound: [turns, most, connects, messages, rows, natives, promoted, limited], one of which is played
  NumIds,       \* bound: canonical identities
  MaxTime,      \* bound: ticks of the limiter's clock
  Units,        \* fractions of a token: a multiple of every window
  None

Roles == {"user", "premium", "admin", "owner"}   \* BUILTIN_ROLES

Contact(p, platform) == {c \in Contacts : Person[c] = p /\ c.platform = platform}

ASSUME AccessAssumption ==
  /\ \A c \in Contacts : c = [platform |-> c.platform, id |-> c.id]
  /\ DOMAIN Person = Contacts /\ Lids \subseteq Contacts /\ Owners \subseteq Contacts /\ None \notin Contacts
  /\ DOMAIN Limits = Roles /\ {NumIds, MaxTime} \subseteq Nat /\ Units \in Nat \ {0}

(* A person has one id on a platform, and on WhatsApp a LID besides. *)
ASSUME AliasAssumption ==
  \A c, d \in Contacts : Person[c] = Person[d] /\ c.platform = d.platform /\ (c \in Lids <=> d \in Lids) => c = d

(* isValidPrivilegeValue: -1 for no limit (AuthService.ts:62-66). *)
ASSUME LimitsAssumption ==
  \A r \in Roles : Limits[r].max \in {-1} \cup (Nat \ {0}) /\ Limits[r].window \in Nat \ {0}

(* What is shown with a message is one person's, on the room's platform.   *)
(* Only built-in roles are assigned (RoleTool.ts:334, 364).                *)
ASSUME SceneAssumption ==
  \A s \in Scenes :
    /\ \A r \in s.rows : r.user \in Contacts /\ r.role \in Roles
    /\ s.natives \in [Rooms -> SUBSET Contacts]
    /\ \A m \in s.messages :
         /\ m.room \in Rooms /\ m.via \in Contact(Person[m.via], m.room.platform)
         /\ m.pn = None \/ m.pn \in Contact(Person[m.via], m.room.platform)
         /\ m.op.tool \in {"grant", "revoke"} => m.op.target \in Contacts /\ m.op.role \in Roles

VARIABLES
  scene,
  canon,      \* identity_aliases: [Contacts -> 0..NumIds], 0 for none
  primary,    \* canonical_identities: [1..NumIds -> Contacts \cup {None}]
  rows,       \* user_roles: [user, scope, role], one for a user and a scope
  native,     \* [Rooms -> SUBSET Contacts]: the group admins, as the platform lists them
  cached,     \* groupMetadataCache: [Rooms -> that list, or None]
  setting,    \* [Rooms -> Nat]: what chat_rooms holds of the settings
  learning,   \* identity upserts under way: sets of one or two aliases
  turn,       \* [Turns -> the message being handled]
  buckets,    \* the limiter's, by contact
  now,        \* its clock
  arrived,    \* messages so far
  learned,    \* history: the sets of aliases recorded
  held,       \* history: the roles a sender held at some time since its message arrived
  kept,       \* history: the grants that were recorded for its aliases all that time
  sent        \* history: when the limiter let a message of a contact through

identities == <<canon, primary, learning, learned>>
vars == <<scene, canon, primary, rows, native, cached, setting, learning, turn, buckets, now, arrived, learned, held, kept, sent>>

Idle == [at |-> "idle", via |-> None, pn |-> None, room |-> None, op |-> None, entry |-> "slash",
         admin |-> FALSE, jids |-> {}, roles |-> {}, whole |-> TRUE, target |-> None]

---------------------------------------------------------------------------
(* The token buckets of RateLimiter.  A bucket belongs to one sender of    *)
(* one platform.  Tokens are fractional there: here they are counted in    *)
(* Units, so many of them to a token.                                      *)

NoBucket == [tokens |-> 0, lastRefill |-> 0, maxTokens |-> 0, windowMs |-> 0]

LeastOf(a, b) == IF a <= b THEN a ELSE b

(* A sender whose roles changed: whole tokens, in proportion to the new size. *)
Resized(b, max, window) ==
  IF b.maxTokens = max /\ b.windowMs = window THEN b
  ELSE [b EXCEPT !.maxTokens = max, !.windowMs = window,
                 !.tokens = LeastOf(max, (b.tokens * max) \div (b.maxTokens * Units)) * Units]

(* Mutant of Refilled: the refill is not dated, so it is paid again. *)
RefilledUndated(b) ==
  [b EXCEPT !.tokens = LeastOf(b.maxTokens * Units, b.tokens + ((now - b.lastRefill) * b.maxTokens * Units) \div b.windowMs)]

Refilled(b) ==
  [b EXCEPT !.tokens = LeastOf(b.maxTokens * Units, b.tokens + ((now - b.lastRefill) * b.maxTokens * Units) \div b.windowMs),
            !.lastRefill = now]

(* One check: what becomes of the bucket, and whether the message passes.  *)
(* A limit of -1 leaves the bucket alone.                                  *)
Checked(b, max, window) ==
  IF max = -1 THEN [bucket |-> b, allowed |-> TRUE]
  ELSE IF b = NoBucket
  THEN [bucket |-> [tokens |-> (max - 1) * Units, lastRefill |-> now, maxTokens |-> max, windowMs |-> window], allowed |-> TRUE]
  ELSE LET full == Refilled(Resized(b, max, window))
       IN  IF full.tokens >= Units THEN [bucket |-> [full EXCEPT !.tokens = @ - Units], allowed |-> TRUE]
                                   ELSE [bucket |-> full, allowed |-> FALSE]

(* prune: untouched for two of its windows. *)
Stale(b) == b # NoBucket /\ b.lastRefill < now - 2 * b.windowMs

---------------------------------------------------------------------------
(* roleAccess.ts *)

RoleSatisfies(roles, required) == required = "user" \/ "owner" \in roles \/ required \in roles

(* getAllJids: an alias with those of the same canonical identity. *)
Linked(c) == {d \in Contacts : d = c \/ (canon[c] # 0 /\ canon[d] = canon[c])}

AllJids(c) == {d.id : d \in Linked(c)}

(* Mutant of Granted: the rows of every platform that name one of the ids. *)
GrantedAnywhere(jids, room) == {r.role : r \in {x \in rows : x.user.id \in jids /\ x.scope \in {"global", room.id}}}

(* getJidsAndRoles: the rows of these ids that apply to the room. *)
Granted(jids, room) ==
  {r.role : r \in {x \in rows : x.user.platform = room.platform /\ x.user.id \in jids /\ x.scope \in {"global", room.id}}}

(* The configured owner, by the sender's id or number. *)
EnvOwner(m) == {m.via, m.pn} \cap Owners # {}

(* resolveRoles; a lookup that fails leaves what needs none. *)
Resolved(m, rowsOf, admin) ==
  {"user"} \cup rowsOf \cup (IF EnvOwner(m) THEN {"owner"} ELSE {}) \cup (IF admin THEN {"admin"} ELSE {})

(* isWhatsAppGroupAdmin and its like: the list names the sender's id or number. *)
Listed(m, list) == {m.via, m.pn} \cap list # {}

(* The list a check reads: WhatsApp's is cached, Telegram gives none. *)
AdminList(room) ==
  IF ~room.group \/ room.platform = "telegram" THEN {}
  ELSE IF room.platform = "whatsapp" /\ cached[room] # None THEN cached[room] ELSE native[room]

Fetched(room) == IF room.group /\ room.platform = "whatsapp" /\ cached[room] = None THEN [cached EXCEPT ![room] = native[room]] ELSE cached

---------------------------------------------------------------------------
(* What the answers are held against: a person's roles, whatever the alias. *)

TrueRoles(m) ==
  LET mine == Contact(Person[m.via], m.room.platform)
  IN  {"user"} \cup {r.role : r \in {x \in rows : x.user \in mine /\ x.scope \in {"global", m.room.id}}}
      \cup (IF mine \cap Owners # {} THEN {"owner"} ELSE {})
      \cup (IF mine \cap (native[m.room] \cup IF cached[m.room] = None THEN {} ELSE cached[m.room]) # {} THEN {"admin"} ELSE {})

RecordedRows(m) ==
  LET known == {m.via} \cup UNION {s \in learned : m.via \in s}
  IN  {x \in rows : x.user \in known /\ x.scope \in {"global", m.room.id}}

Observe ==
  /\ held' = [t \in Turns |-> IF turn'[t].at = "idle" THEN {}
                              ELSE (IF turn[t].at = "idle" THEN {} ELSE held[t]) \cup TrueRoles(turn[t])']
  /\ kept' = [t \in Turns |-> IF turn'[t].at = "idle" THEN {}
                              ELSE IF turn[t].at = "idle" THEN RecordedRows(turn[t])' ELSE kept[t] \cap RecordedRows(turn[t])']

---------------------------------------------------------------------------
(* An alias is one identity's, and an identity has one primary alias. *)
NoAliases == [c \in Contacts |-> 0]
NoIdentities == [i \in 1..NumIds |-> None]

Init ==
  /\ scene \in Scenes
  /\ canon = NoAliases /\ primary = NoIdentities
  /\ rows = scene.rows /\ native = scene.natives /\ cached = [r \in Rooms |-> None]
  /\ setting = [r \in Rooms |-> 0]
  /\ learning = {} /\ learned = {}
  /\ turn = [t \in Turns |-> Idle]
  /\ buckets = [c \in Contacts |-> NoBucket] /\ now = 0 /\ arrived = 0
  /\ held = [t \in Turns |-> {}] /\ kept = [t \in Turns |-> {}] /\ sent = [c \in Contacts |-> <<>>]

Go(t, changes) == turn' = [turn EXCEPT ![t] = changes]
Drop(t) == Go(t, Idle)

(* A message reaches the agent; WhatsApp's provider has begun to record    *)
(* the aliases it shows and does not wait.                                 *)
Receive(t) ==
  /\ turn[t].at = "idle" /\ t \in scene.turns /\ arrived < scene.most
  /\ \E m \in scene.messages :
       /\ \A u \in Turns : turn[u].at # "idle" => turn[u].room # m.room
       /\ Go(t, [Idle EXCEPT !.at = "arrived", !.via = m.via, !.pn = m.pn, !.room = m.room, !.op = m.op, !.entry = m.entry])
       /\ learning' = IF m.room.platform = "whatsapp"
                      THEN learning \cup ({(IF m.via \in Lids THEN {m.via} ELSE {}) \cup (IF m.pn # None THEN {m.pn} ELSE {})} \ {{}})
                      ELSE learning
  /\ arrived' = arrived + 1
  /\ UNCHANGED <<scene, canon, primary, rows, native, cached, setting, buckets, now, learned, sent>>

(* Mutant of Repointed: only the first alias is moved. *)
RepointedFirst(s, id) == [c \in Contacts |-> IF c \in s /\ (c \in Lids \/ s \cap Lids = {}) THEN id ELSE canon[c]]

Repointed(s, id) == [c \in Contacts |-> IF c \in s THEN id ELSE canon[c]]

(* The canonical identities upsertIdentity may take for its own: one whose *)
(* primary alias is among the aliases, else the first alias's.             *)
Existing(s) ==
  LET first   == {i \in 1..NumIds : primary[i] \in s}
      mapped  == {canon[c] : c \in s} \ {0}
      lidsOwn == {canon[c] : c \in s \cap Lids} \ {0}
  IN  IF first # {} THEN first ELSE IF lidsOwn # {} THEN lidsOwn ELSE mapped

Complete(s) == \A c, d \in s : canon[c] # 0 /\ canon[c] = canon[d]

(* upsertIdentity under the locks of its aliases, which make it one step   *)
(* for whoever shares one; its transaction may fail, and leaves nothing.   *)
Upserted(s) ==
  \/ Complete(s) /\ UNCHANGED <<canon, primary>> /\ learned' = learned \cup {s}
  \/ /\ ~Complete(s)
     /\ \/ Existing(s) # {} /\ \E i \in Existing(s) : canon' = Repointed(s, i) /\ UNCHANGED primary
        \/ /\ Existing(s) = {}
           /\ \E i \in {j \in 1..NumIds : primary[j] = None /\ \A k \in 1..(j - 1) : primary[k] # None} :
                /\ canon' = Repointed(s, i)
                /\ \E c \in s : (c \in Lids \/ s \cap Lids = {}) /\ primary' = [primary EXCEPT ![i] = c]
     /\ learned' = learned \cup {s}

Learn(s) ==
  /\ learning' = learning \ {s}
  /\ (Upserted(s) \/ UNCHANGED <<canon, primary, learned>>)
  /\ UNCHANGED <<scene, rows, native, cached, setting, turn, buckets, now, arrived, sent>>

(* A row of user_roles, one for a user and a scope. *)
RoleRow(user, scope, role) == [user |-> user, scope |-> scope, role |-> role]

(* setRole replaces it. *)
WithRole(user, scope, role) == {r \in rows : r.user # user \/ r.scope # scope} \cup {RoleRow(user, scope, role)}

(* seedOwner: at a connection, under the LID when it can be resolved. *)
Seed(o) ==
  /\ scene.connects /\ o \in Owners /\ o.platform = "whatsapp"
  /\ \E s \in {{o}} \cup {{o, l} : l \in Lids \cap Contact(Person[o], o.platform)} :
       /\ Upserted(s)
       /\ \E u \in s : (s \cap Lids = {} \/ u \in Lids) /\ rows' = WithRole(u, "global", "owner")
  /\ UNCHANGED <<scene, native, cached, setting, learning, turn, buckets, now, arrived, sent>>

---------------------------------------------------------------------------
(* The rights are resolved once for the message. *)

Identify(t) ==
  /\ turn[t].at = "arrived"
  /\ cached' = Fetched(turn[t].room)
  /\ Go(t, [turn[t] EXCEPT !.at = "identified", !.admin = Listed(turn[t], AdminList(turn[t].room)), !.jids = AllJids(turn[t].via)])
  /\ UNCHANGED <<scene, canon, primary, rows, native, setting, learning, buckets, now, arrived, learned, sent>>

(* getEffectivePrivileges: the most permissive of the roles. *)
BestMax(roles) == IF \E r \in roles : Limits[r].max = -1 THEN -1
                  ELSE CHOOSE x \in {Limits[r].max : r \in roles} : \A r \in roles : Limits[r].max <= x
BestWindow(roles) == CHOOSE x \in {Limits[r].window : r \in roles} : \A r \in roles : x <= Limits[r].window

(* The roles, and the limiter at once: a message over the limit is         *)
(* answered so and dropped.                                                *)
Resolve(t) ==
  /\ turn[t].at = "identified"
  /\ \E whole \in BOOLEAN :
       LET m     == turn[t]
           roles == Resolved(m, IF whole THEN Granted(m.jids, m.room) ELSE {}, m.admin)
           check == IF scene.limited THEN Checked(buckets[m.via], BestMax(roles), BestWindow(roles))
                                     ELSE [bucket |-> buckets[m.via], allowed |-> TRUE]
       IN  /\ buckets' = [buckets EXCEPT ![m.via] = check.bucket]
           /\ IF check.allowed
              THEN /\ Go(t, IF m.op.tool = "chat" THEN Idle ELSE [m EXCEPT !.at = "resolved", !.roles = roles, !.whole = whole, !.jids = {}])
                   /\ sent' = IF scene.limited /\ BestMax(roles) # -1 THEN [sent EXCEPT ![m.via] = Append(@, now)] ELSE sent
              ELSE Drop(t) /\ UNCHANGED sent
  /\ UNCHANGED <<scene, canon, primary, rows, native, cached, setting, learning, now, arrived, learned>>

(* checkPermissions: WhatsApp reads again, the others use what was resolved. *)
Now(m) ==
  IF m.room.platform = "whatsapp" THEN Resolved(m, Granted(AllJids(m.via), m.room), Listed(m, AdminList(m.room))) ELSE m.roles

(* The permission a tool asks for, and COMMAND_POLICIES by action. *)
Permission(op) == IF op.tool = "config" THEN "admin" ELSE "user"
Policy(op) == IF op.tool \in {"grant", "revoke", "config"} THEN "admin" ELSE "user"

(* A slash command asks for both, a model is offered what the resolved     *)
(* roles may use.                                                          *)
Invocable(m) ==
  IF m.entry = "slash"
  THEN RoleSatisfies(Now(m), Permission(m.op)) /\ RoleSatisfies(m.roles, Policy(m.op)) /\ RoleSatisfies(m.roles, Permission(m.op))
  ELSE RoleSatisfies(m.roles, Permission(m.op))

Authorize(t) ==
  /\ turn[t].at = "resolved"
  /\ cached' = IF turn[t].entry = "slash" /\ Permission(turn[t].op) # "user" THEN Fetched(turn[t].room) ELSE cached
  /\ IF Invocable(turn[t]) THEN Go(t, [turn[t] EXCEPT !.at = "running"]) ELSE Drop(t)
  /\ UNCHANGED <<scene, canon, primary, rows, native, setting, learning, buckets, now, arrived, learned, sent>>

---------------------------------------------------------------------------
(* The tools. *)

Scope(m) == IF m.op.scope = "here" THEN m.room.id ELSE m.op.scope

(* canAssign *)
CanAssign(roles, role) == "owner" \in roles \/ ("admin" \in roles /\ role \in {"user", "premium"})

(* Mutant of MayManage: whoever may assign a role may do so in any scope. *)
MayManageAnywhere(m) == CanAssign(m.roles, m.op.role)

(* RoleTool.execute: another scope than the chat is the owner's. *)
MayManage(m) == (Scope(m) = m.room.id \/ "owner" \in m.roles) /\ CanAssign(m.roles, m.op.role)

(* The row's user: the target's LID when one is known. *)
Target(c) == IF \E d \in Linked(c) \cap Lids : TRUE THEN CHOOSE d \in Linked(c) \cap Lids : TRUE ELSE c

Aim(t) ==
  /\ turn[t].at = "running" /\ turn[t].op.tool \in {"grant", "revoke"}
  /\ IF MayManage(turn[t]) THEN Go(t, [turn[t] EXCEPT !.at = "aimed", !.target = Target(turn[t].op.target)]) ELSE Drop(t)
  /\ UNCHANGED <<scene, canon, primary, rows, native, cached, setting, learning, buckets, now, arrived, learned, sent>>

(* A write that fails is told to the sender. *)
Write(t) ==
  /\ turn[t].at = "aimed"
  /\ LET m == turn[t]
     IN  \/ /\ m.op.tool = "grant" /\ rows' = WithRole(m.target, Scope(m), m.op.role)
            /\ cached' = [cached EXCEPT ![m.room] = None]
         \/ /\ m.op.tool = "revoke" /\ rows' = rows \ {[user |-> m.target, scope |-> Scope(m), role |-> m.op.role]}
            /\ cached' = [cached EXCEPT ![m.room] = None]
         \/ UNCHANGED <<rows, cached>>
  /\ Drop(t)
  /\ UNCHANGED <<scene, canon, primary, native, setting, learning, buckets, now, arrived, learned, sent>>

(* LanguageTool asks for an admin in a group; ConfigTool leaves it to the registry. *)
LanguageAllowed(m) == ~m.room.group \/ RoleSatisfies(Now(m), "admin")

Changed(room) == [setting EXCEPT ![room] = 1 - @]

Change(t) ==
  /\ turn[t].at = "running" /\ turn[t].op.tool \in {"config", "language"}
  /\ LET m == turn[t]
     IN  setting' = IF m.op.tool = "config" \/ LanguageAllowed(m) THEN Changed(m.room) ELSE setting
  /\ Drop(t)
  /\ UNCHANGED <<scene, canon, primary, rows, native, cached, learning, buckets, now, arrived, learned, sent>>

---------------------------------------------------------------------------
(* The platform promotes or demotes; a list is forgotten when its five     *)
(* minutes are over or the platform tells of a change.                     *)
Promote(r, c) ==
  /\ c \in scene.promoted
  /\ c.platform = r.platform /\ r.group
  /\ native' = [native EXCEPT ![r] = IF c \in @ THEN @ \ {c} ELSE @ \cup {c}]
  /\ UNCHANGED <<scene, canon, primary, rows, cached, setting, learning, turn, buckets, now, arrived, learned, sent>>

Forget(r) ==
  /\ cached[r] # None
  /\ cached' = [cached EXCEPT ![r] = None]
  /\ UNCHANGED <<scene, canon, primary, rows, native, setting, learning, turn, buckets, now, arrived, learned, sent>>

Tick ==
  /\ scene.limited /\ now < MaxTime
  /\ now' = now + 1
  /\ UNCHANGED <<scene, canon, primary, rows, native, cached, setting, learning, turn, buckets, arrived, learned, sent>>

Prune ==
  /\ \E c \in Contacts : Stale(buckets[c])
  /\ buckets' = [c \in Contacts |-> IF Stale(buckets[c]) THEN NoBucket ELSE buckets[c]]
  /\ UNCHANGED <<scene, canon, primary, rows, native, cached, setting, learning, turn, now, arrived, learned, sent>>

Step ==
  \/ \E t \in Turns : Receive(t) \/ Identify(t) \/ Resolve(t) \/ Authorize(t) \/ Aim(t) \/ Write(t) \/ Change(t)
  \/ \E s \in learning : Learn(s)
  \/ \E o \in Owners : Seed(o)
  \/ \E r \in Rooms : Forget(r) \/ \E c \in Contacts : Promote(r, c)
  \/ Tick \/ Prune

Next == Step /\ Observe

Spec == Init /\ [][Next]_vars

---------------------------------------------------------------------------
(* The roles a message is handled with are its sender's: each was held by  *)
(* that person, in that room, at some time since the message came (by a    *)
(* grant to one of the person's aliases, the owner's configuration or the  *)
(* group's list of admins, AuthService.ts:176), and each grant to an alias *)
(* known as the sender's that stood all that time counts, unless the       *)
(* lookup failed.                                                          *)
RolesExact ==
  \A t \in Turns : turn[t].at \in {"resolved", "running", "aimed"} =>
    /\ turn[t].roles \subseteq held[t]
    /\ turn[t].whole => \A r \in kept[t] : r.role \in turn[t].roles

Entitled(t) == Scope(turn[t]) = turn[t].room.id \/ "owner" \in held[t]

(* Whatever a message changes, its sender held the right to while it was   *)
(* handled: to assign that role in that scope (RoleTool.ts:345, 209, 212)  *)
(* or to change that room's settings (registry.ts:323, LanguageTool.ts:73).*)
WithinAuthority ==
  [][/\ \A r \in rows' \ rows :
          \/ r.role = "owner" /\ Contact(Person[r.user], r.user.platform) \cap Owners # {}
          \/ \E t \in Turns : turn[t].at = "aimed" /\ turn'[t] # turn[t] /\ CanAssign(held[t], r.role) /\ Entitled(t)
     /\ \A t \in Turns : turn[t].at # "idle" /\ setting'[turn[t].room] # setting[turn[t].room] =>
          \/ turn[t].op.tool = "language" /\ ~turn[t].room.group
          \/ held[t] \cap {"admin", "owner"} # {}]_vars

(* The widest limits that a limited sender may have had. *)
Maxima == {0} \cup {Limits[r].max : r \in Roles}
Widest == CHOOSE x \in Maxima : \A y \in Maxima : y <= x
Narrowest == BestWindow(Roles)

(* No run of a sender's messages is let through that is longer than the    *)
(* widest limits and what they refill in the time between them, whichever  *)
(* roles it had in the rooms it wrote to, and however often idle buckets   *)
(* were pruned (RateLimiter.ts:52, 115).                                   *)
RateBound ==
  \A c \in Contacts : \A i, j \in 1..Len(sent[c]) : i <= j =>
    (j - i + 1 - Widest) * Narrowest <= (sent[c][j] - sent[c][i]) * Widest

(* A message is admitted at the rate, and handled with the roles, of the   *)
(* person who sent it (RateLimiter.ts:52-115, AuthService.ts:150-260).     *)
SenderKnown == RolesExact /\ RateBound
=============================================================================
