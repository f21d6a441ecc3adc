----------------------------- MODULE Privileges -----------------------------
(***************************************************************************)
(* What the roles may do (AuthService.ts: getEffectivePrivileges to        *)
(* getDbOverrides) and what an owner sets of it (RoleTool.ts): overrides   *)
(* in the database, which replace the defaults of the environment, behind  *)
(* a cache of one age for all roles.  A query is answered some time after it ran.  *)
(***************************************************************************)
EXTENDS Stage, SequencesExt

CONSTANTS
  Lookups, Settings,   \* bound: calls at once
  PrivRoles,
  PrivTtl              \* CACHE_TTL_MS

ASSUME PrivilegesAssumption == IsFiniteSet(Settings)

VARIABLES
  overrides,  \* role_privileges: [some roles -> [max, window], None where it has none]
  dbCache,    \* the same, what the process has read of it
  loadedAt,   \* cacheLoadedAt
  lookup, setting,
  overtaken,  \* (history) roles whose cached overrides were read before a setting and stored after
  written     \* (history) [roles -> what they had, one after another]

privilegeVars == <<overrides, dbCache, loadedAt, lookup, setting, overtaken, written>>

NoOverrides == [max |-> None, window |-> None]
NoLookup == [at |-> "idle", roles |-> {}, missing |-> {}, rows |-> <<>>, since |-> 0, single |-> <<>>, got |-> <<>>,
             from |-> <<>>, excused |-> {}]   \* history
NoSetting == [at |-> "idle", role |-> None, field |-> None, value |-> None, exists |-> FALSE]

Stored(r) == IF r \in DOMAIN overrides THEN overrides[r] ELSE NoOverrides
-----------------------------------------------------------------------------
Dropping(r) == {s \in Settings : setting[s].at = "drop" /\ setting[s].role = r}
Begun(roles) == [NoLookup EXCEPT !.roles = roles, !.from = [r \in roles |-> Len(written[r]) - Cardinality(Dropping(r))]]

PrivilegesInit ==
  /\ overrides = scene.overrides /\ dbCache = <<>> /\ loadedAt = 0
  /\ lookup = [c \in Lookups |-> NoLookup] /\ setting = [s \in Settings |-> NoSetting]
  /\ overtaken = {} /\ written = [r \in PrivRoles |-> <<Stored(r)>>]

(* The cache expires as a whole. *)
Unaged(held, at) == IF now - at >= PrivTtl THEN <<>> ELSE held

(* What a lookup takes from the cache, and what it asks for one by one.    *)
Gather(l, held) ==
  LET lacking == l.roles \ DOMAIN held
  IN [l EXCEPT !.at = IF lacking = {} THEN "done" ELSE "singles", !.got = Restrict(held, l.roles \ lacking), !.excused = @ \cup overtaken,
               !.single = [r \in lacking |-> [at |-> "asked", row |-> NoOverrides, since |-> now]]]

Overlaid(rows, held) == [r \in DOMAIN rows \cup DOMAIN held |-> IF r \in DOMAIN rows THEN rows[r] ELSE held[r]]
Single(r, row) == [x \in {r} |-> row]

(* Later settings have dropped what is not in the cache any more. *)
Hold(held) == dbCache' = held /\ overtaken' = {r \in overtaken : r \in DOMAIN held}
Store(held, rows) ==
  /\ dbCache' = Overlaid(rows, held)
  /\ overtaken' = {r \in DOMAIN rows : rows[r] # Stored(r)} \cup {r \in overtaken \ DOMAIN rows : r \in DOMAIN held}

AskProfile(c, roles) ==
  /\ lookup[c].at = "idle" /\ Spend("look")
  /\ LET held == Unaged(dbCache, loadedAt)
         l == [Begun(roles) EXCEPT !.missing = roles \ DOMAIN held, !.since = now]
     IN /\ Hold(held)
        /\ lookup' = [lookup EXCEPT ![c] = IF l.missing = {} THEN Gather(l, held) ELSE [l EXCEPT !.at = "asked"]]
  /\ UNCHANGED <<overrides, loadedAt, setting, written>>

(* Of one role: the owner's question about it, without the batch. *)
AskRole(c, r) ==
  /\ lookup[c].at = "idle" /\ Spend("show")
  /\ Hold(Unaged(dbCache, loadedAt))
  /\ lookup' = [lookup EXCEPT ![c] = Gather(Begun({r}), Unaged(dbCache, loadedAt))]
  /\ UNCHANGED <<overrides, loadedAt, setting, written>>

BatchRead(c) ==
  /\ lookup[c].at = "asked" /\ lookup' = [lookup EXCEPT ![c].at = "read", ![c].rows = Restrict(overrides, DOMAIN overrides \cap lookup[c].missing)]
  /\ UNCHANGED <<stage, overrides, dbCache, loadedAt, setting, overtaken, written>>

(* A role without a row is cached as such unless it is cached by now; the  *)
(* cache is then as old as this query, and looked at again for each role.  *)
BatchStore(c) ==
  LET l == lookup[c]
      none == [r \in l.missing \ (DOMAIN l.rows \cup DOMAIN dbCache) |-> NoOverrides]
      rows == Overlaid(l.rows, none)
  IN /\ l.at = "read" /\ loadedAt' = l.since
     /\ IF now - l.since >= PrivTtl THEN Hold(<<>>) ELSE Store(dbCache, rows)
     /\ lookup' = [lookup EXCEPT ![c] = Gather(l, Unaged(Overlaid(rows, dbCache), l.since))]
     /\ UNCHANGED <<stage, overrides, setting, written>>

BatchFails(c) ==
  /\ lookup[c].at = "asked" /\ Spend("fail") /\ Hold(Unaged(dbCache, loadedAt))
  /\ lookup' = [lookup EXCEPT ![c] = Gather(lookup[c], Unaged(dbCache, loadedAt))]
  /\ UNCHANGED <<overrides, loadedAt, setting, written>>

SingleRead(c, r) ==
  /\ r \in DOMAIN lookup[c].single /\ lookup[c].single[r].at = "asked"
  /\ lookup' = [lookup EXCEPT ![c].single[r].at = "read", ![c].single[r].row = Stored(r)]
  /\ UNCHANGED <<stage, overrides, dbCache, loadedAt, setting, overtaken, written>>

Answered(l, r, row) ==
  LET still == DOMAIN l.single \ {r}
  IN [l EXCEPT !.single = Restrict(@, still), !.got = Overlaid(Single(r, row), @), !.at = IF still = {} THEN "done" ELSE @]

SingleStore(c, r) ==
  /\ r \in DOMAIN lookup[c].single /\ lookup[c].single[r].at = "read"
  /\ LET one == lookup[c].single[r]
     IN Store(dbCache, Single(r, one.row)) /\ loadedAt' = one.since /\ lookup' = [lookup EXCEPT ![c] = Answered(@, r, one.row)]
  /\ UNCHANGED <<stage, overrides, setting, written>>

(* The defaults answer for what cannot be read. *)
SingleFails(c, r) ==
  /\ r \in DOMAIN lookup[c].single /\ lookup[c].single[r].at = "asked" /\ Spend("fail")
  /\ lookup' = [lookup EXCEPT ![c] = [Answered(lookup[c], r, NoOverrides) EXCEPT !.excused = @ \cup {r}]]
  /\ UNCHANGED <<overrides, dbCache, loadedAt, setting, overtaken, written>>

Told(c) == lookup[c].at = "done" /\ lookup' = [lookup EXCEPT ![c] = NoLookup] /\ UNCHANGED <<stage, overrides, dbCache, loadedAt, setting, overtaken, written>>
-----------------------------------------------------------------------------
ValidValue(field, value) == IF value = None THEN TRUE ELSE value >= 1 \/ (field = "max" /\ value = -1)

(* An owner sets a field: is there a row for the role? *)
SetOverride(s, r, field, value) ==
  /\ setting[s].at = "idle" /\ Spend("set") /\ ValidValue(field, value)
  /\ setting' = [setting EXCEPT ![s] = [at |-> "set", role |-> r, field |-> field, value |-> value, exists |-> r \in DOMAIN overrides]]
  /\ UNCHANGED <<overrides, dbCache, loadedAt, lookup, overtaken, written>>

Drop(r) == Hold(Restrict(dbCache, DOMAIN dbCache \ {r}))

Writes(r, after) ==
  /\ overrides' = after
  /\ written' = [written EXCEPT ![r] = Append(@, IF r \in DOMAIN after THEN after[r] ELSE NoOverrides)]

(* The row is updated, if it still is there, or inserted; an insert fails  *)
(* when another was first, and the cache is left alone then.               *)
SetWrite(s) ==
  LET x == setting[s]
      there == x.role \in DOMAIN overrides
  IN /\ x.at = "set" /\ UNCHANGED <<stage, dbCache, loadedAt, lookup, overtaken>>
     /\ IF there /\ ~x.exists THEN setting' = [setting EXCEPT ![s] = NoSetting] /\ UNCHANGED <<overrides, written>>
        ELSE /\ setting' = [setting EXCEPT ![s].at = "drop"]
             /\ Writes(x.role, IF there THEN [overrides EXCEPT ![x.role][x.field] = x.value]
                               ELSE IF x.exists THEN overrides
                               ELSE Overlaid(Single(x.role, [NoOverrides EXCEPT ![x.field] = x.value]), overrides))

Reset(s, r) ==
  /\ setting[s].at = "idle" /\ Spend("reset") /\ Writes(r, Restrict(overrides, DOMAIN overrides \ {r}))
  /\ setting' = [setting EXCEPT ![s] = [NoSetting EXCEPT !.at = "drop", !.role = r]]
  /\ UNCHANGED <<dbCache, loadedAt, lookup, overtaken>>

(* Mutant of SetDone: what is cached stays. *)
SetDoneCached(s) ==
  /\ setting[s].at = "drop" /\ setting' = [setting EXCEPT ![s] = NoSetting]
  /\ UNCHANGED <<stage, overrides, dbCache, loadedAt, lookup, overtaken, written>>

SetDone(s) ==
  /\ setting[s].at = "drop" /\ Drop(setting[s].role) /\ setting' = [setting EXCEPT ![s] = NoSetting]
  /\ UNCHANGED <<stage, overrides, loadedAt, lookup, written>>

PrivilegesNext ==
  \/ \E c \in Lookups :
       \/ \E roles \in SUBSET PrivRoles \ {{}} : AskProfile(c, roles)
       \/ BatchRead(c) \/ BatchStore(c) \/ BatchFails(c) \/ Told(c)
       \/ \E r \in PrivRoles : AskRole(c, r) \/ SingleRead(c, r) \/ SingleStore(c, r) \/ SingleFails(c, r)
  \/ \E s \in Settings :
       \/ \E r \in PrivRoles, field \in {"max", "window"}, value \in scene.values : SetOverride(s, r, field, value)
       \/ SetWrite(s) \/ SetDone(s) \/ \E r \in PrivRoles : Reset(s, r)
  \/ Tick /\ UNCHANGED privilegeVars
-----------------------------------------------------------------------------
(* What the cache holds of a role is what the database holds, but while a  *)
(* setting is about to drop it, and where a query that ran before a        *)
(* setting was stored after; an answer that does not rest on such a one    *)
(* gives each role what it had at some time while it was asked for: who    *)
(* asks after a setting sees it (AuthService.ts:402-571).                  *)
PrivilegesTrue ==
  /\ \A r \in DOMAIN dbCache : dbCache[r] = Stored(r) \/ r \in overtaken \/ Dropping(r) # {}
  /\ \A c \in Lookups : lookup[c].at = "done" =>
       \A r \in lookup[c].roles \ lookup[c].excused :
         \E i \in lookup[c].from[r] .. Len(written[r]) : lookup[c].got[r] = written[r][i]
=============================================================================
