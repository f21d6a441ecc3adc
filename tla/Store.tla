-------------------------------- MODULE Store --------------------------------
(***************************************************************************)
(* The database file and the processes that open it: src/src/db/index.ts,  *)
(* migrations.ts, runtime.ts and backup.ts with scripts/dbBackup.ts.       *)
(* A process brings the schema to the journal of its release under one     *)
(* lease, then runs under another that it renews.  A backup is a snapshot  *)
(* with a manifest; a restore makes a new file of one.  What is old is     *)
(* deleted (retention.ts): the last part of this module, with variables of *)
(* its own.                                                                *)
(*                                                                         *)
(* A schema is the number of migrations whose tables it shows; the store   *)
(* also records how many were applied (the ledger), those recorded with    *)
(* another checksum than the file's, the schema whose fingerprint was      *)
(* stored and for which release, whether rows break a foreign key, and a   *)
(* count that stands for the rows.                                         *)
(***************************************************************************)
EXTENDS Stage, FiniteSetsExt

CONSTANTS
  Procs,     \* processes that open the database: bots and migrate scripts
  Jobs,      \* runs of the backup script
  Checked,   \* positions of the journal whose tables an inspection looks for
  Legacy,    \* positions whose old checksum is accepted
  Ttl        \* how long a lease lasts, in heartbeats

(* A lease outlasts a heartbeat: it is three of them (db/index.ts:94-106). *)
ASSUME StoreAssumption == Ttl \in Nat /\ Ttl >= 2 /\ \A s \in Scenes : s.keep \in Nat

VARIABLES
  store,     \* [applied, schema, altered, meta, version, orphans, rows]
  lease,     \* ["migration", "runtime" -> [owner, until]]
  proc,      \* [Procs -> [at, run, pending, beat]]
  stalled,   \* processes that get no turn
  slept,     \* (history) those that woke after their lease had ended
  job,       \* [Jobs -> [at, name, created, snap, doomed]]
  files, manifests, \* the backup directory: [name, snap], [name, created, snap]
  rotten,    \* (history) the files damaged from outside
  taken,     \* (history) every manifest ever published
  restore    \* [at, manifest, snap]; at = "published": the new file is there

procVars == <<store, lease, proc, stalled, slept>>
backupVars == <<job, files, manifests, rotten, taken, restore>>
storeVars == <<procVars, backupVars>>

Blank == [applied |-> 0, schema |-> 0, altered |-> {}, meta |-> 0, version |-> 0, orphans |-> FALSE, rows |-> 0]
Unheld == [owner |-> None, until |-> 0]
Idle == [at |-> "off", name |-> 0, created |-> 0, snap |-> None, doomed |-> {}]

StoreInit ==
  /\ store = scene.store
  /\ lease = [l \in {"migration", "runtime"} |-> Unheld]
  /\ proc = [p \in Procs |-> [at |-> "off", run |-> 0, pending |-> FALSE, beat |-> 0]]
  /\ stalled = {} /\ slept = {}
  /\ job = [j \in Jobs |-> Idle]
  /\ files = {} /\ manifests = {} /\ rotten = {} /\ taken = {}
  /\ restore = [at |-> "off", manifest |-> None, snap |-> None]
-----------------------------------------------------------------------------
(* Leases. Every acquisition has an owner of its own. *)
Me(p) == <<p, proc[p].run>>

(* Mutant of Free: whoever asks gets a lease.                              *)
FreeAlways(l) == TRUE

Free(l) == lease[l].until <= now
Active(l) == lease[l].until > now
Acquired(l, p) == [lease EXCEPT ![l] = [owner |-> Me(p), until |-> now + Ttl]]
Renewable(p) == lease["runtime"].owner = Me(p) /\ Active("runtime")
Released(l, p) == [lease EXCEPT ![l] = IF @.owner = Me(p) THEN Unheld ELSE @]

(* The ledger is a prefix of the journal, with its checksums, and the      *)
(* tables are those it speaks of.                                          *)
Inspected(p) ==
  /\ store.applied <= scene.release[p]
  /\ store.altered \subseteq Legacy
  /\ store.applied = 0 => store.schema = 0
  /\ \A k \in Checked :
       /\ store.applied > k => store.schema > k
       /\ store.applied = k => store.schema <= k

(* The stored fingerprint, if there is one, is the schema's. *)
Fingerprinted(s) == s.meta \in {0, s.schema}

(* The tables, indexes and columns a release requires. *)
Required(s, release) == s.schema >= release

Contract(s, release) == Required(s, release) /\ ~s.orphans

At(p, at) == proc[p].at = at /\ p \notin stalled
To(p, at) == proc' = [proc EXCEPT ![p].at = at]

(* An error before the end lets go of the migration lease and ends the     *)
(* process.                                                                *)
Refused(p) == To(p, "off") /\ lease' = Released("migration", p) /\ UNCHANGED store

Open(p) ==
  /\ proc[p].at = "off" /\ p \in DOMAIN scene.release /\ Spend("open")
  /\ proc' = [proc EXCEPT ![p] = [at |-> "opened", run |-> @.run + 1, pending |-> FALSE, beat |-> 0]]
  /\ UNCHANGED <<store, lease>>

Inspect(p) ==
  /\ At(p, "opened") /\ UNCHANGED stage
  /\ IF Inspected(p) THEN To(p, "inspected") /\ UNCHANGED <<store, lease>> ELSE Refused(p)

TakeMigration(p) ==
  /\ At(p, "inspected") /\ UNCHANGED stage
  /\ IF Free("migration")
     THEN lease' = Acquired("migration", p) /\ To(p, "leased") /\ UNCHANGED store
     ELSE Refused(p)

LookRuntime(p) ==
  /\ At(p, "leased") /\ UNCHANGED stage
  /\ IF Active("runtime") THEN Refused(p) ELSE To(p, "alone") /\ UNCHANGED <<store, lease>>

Verify(p) ==
  /\ At(p, "alone") /\ UNCHANGED stage
  /\ IF Inspected(p) /\ Fingerprinted(store)
     THEN /\ proc' = [proc EXCEPT ![p].at = "verified", ![p].pending = store.applied < scene.release[p]]
          /\ UNCHANGED <<store, lease>>
     ELSE Refused(p)

(* The migrations the ledger lacks, in one transaction. *)
Migrated(s, n) == IF s.applied < n THEN [s EXCEPT !.applied = n, !.schema = n] ELSE s

Migrate(p) ==
  /\ At(p, "verified") /\ To(p, "migrated") /\ UNCHANGED <<lease, stage>>
  /\ store' = IF proc[p].pending THEN Migrated(store, scene.release[p]) ELSE store

(* The fingerprint of the schema is stored once the contract holds. *)
Record(p) ==
  /\ At(p, "migrated") /\ UNCHANGED stage
  /\ IF Inspected(p) /\ Contract(store, scene.release[p])
     THEN /\ store' = [store EXCEPT !.meta = store.schema, !.version = scene.release[p]]
          /\ To(p, "recorded") /\ UNCHANGED lease
     ELSE Refused(p)

EndMigration(p) ==
  /\ At(p, "recorded") /\ To(p, "ensured") /\ UNCHANGED <<store, stage>>
  /\ lease' = Released("migration", p)

TakeRuntime(p) ==
  /\ At(p, "ensured") /\ UNCHANGED <<store, stage>>
  /\ IF Free("runtime")
     THEN /\ lease' = Acquired("runtime", p)
          /\ proc' = [proc EXCEPT ![p].at = "running", ![p].beat = now + 1]
     ELSE To(p, "off") /\ UNCHANGED lease

(* The heartbeat renews the lease, or closes the handle if it is lost. *)
Beat(p) ==
  /\ At(p, "running") /\ proc[p].beat <= now /\ UNCHANGED <<store, stage>>
  /\ IF Renewable(p)
     THEN lease' = Acquired("runtime", p) /\ proc' = [proc EXCEPT ![p].beat = now + 1]
     ELSE lease' = Released("runtime", p) /\ To(p, "closed")

Write(p) ==
  /\ At(p, "running") /\ Spend("write")
  /\ store' = [store EXCEPT !.rows = @ + 1] /\ UNCHANGED <<lease, proc>>

(* A bot is shut down, or a migrate script is done: the handle is closed.  *)
Close(p) ==
  /\ At(p, "running") \/ At(p, "closed")
  /\ To(p, "off") /\ lease' = Released("runtime", p) /\ UNCHANGED <<store, stage>>

Crash(p) ==
  /\ proc[p].at # "off" /\ p \notin stalled /\ Spend("crash")
  /\ To(p, "off") /\ UNCHANGED <<store, lease>>

(* A process gets no turn for a while. *)
Stall(p) ==
  /\ At(p, "running") /\ Spend("stall")
  /\ stalled' = stalled \cup {p} /\ UNCHANGED <<store, lease, proc, slept>>

Wake(p) ==
  /\ p \in stalled /\ stalled' = stalled \ {p} /\ UNCHANGED <<store, lease, proc, stage>>
  /\ slept' = IF Renewable(p) THEN slept ELSE slept \cup {p}

(* A timer is never late by a heartbeat, but in a process that stalls.     *)
OnTime == \A p \in Procs : At(p, "running") => proc[p].beat > now
-----------------------------------------------------------------------------
(* The backup script. A snapshot is taken into a file of another name. *)
Snapshot(j) ==
  /\ job[j].at = "off" /\ Spend("backup")
  /\ Fingerprinted(store) /\ ~store.orphans
  /\ job' = [job EXCEPT ![j] = [at |-> "copied", name |-> Spent("backup") + 1, created |-> now, snap |-> store, doomed |-> {}]]
  /\ UNCHANGED <<files, manifests, rotten, taken, restore>>

PublishFile(j) ==
  /\ job[j].at = "copied" /\ UNCHANGED stage
  /\ files' = files \cup {[name |-> job[j].name, snap |-> job[j].snap]}
  /\ job' = [job EXCEPT ![j].at = "published"]
  /\ UNCHANGED <<manifests, rotten, taken, restore>>

PublishManifest(j) ==
  /\ job[j].at = "published" /\ UNCHANGED stage
  /\ manifests' = manifests \cup {[name |-> job[j].name, created |-> job[j].created, snap |-> job[j].snap]}
  /\ taken' = taken \cup {[name |-> job[j].name, created |-> job[j].created, snap |-> job[j].snap]}
  /\ job' = [job EXCEPT ![j].at = "listed"]
  /\ UNCHANGED <<files, rotten, restore>>

(* Those after the newest `keep`, in some order where they are as old.     *)
Surplus(d) ==
  /\ Cardinality(manifests \ d) <= scene.keep
  /\ d = {} \/ Cardinality(manifests \ d) = scene.keep
  /\ \A m \in d, n \in manifests \ d : m.created <= n.created

(* Mutant of Doomed: one backup fewer is kept.                             *)
DoomedOneMore(j) ==
  {{m \in manifests : m.name # job[j].name /\ \E n \in manifests : n.created > m.created}}

Doomed(j) == {{m \in d : m.name # job[j].name} : d \in {x \in SUBSET manifests : Surplus(x)}}

Prune(j) ==
  /\ job[j].at = "listed" /\ UNCHANGED stage
  /\ \E d \in Doomed(j) : job' = [job EXCEPT ![j].at = "pruning", ![j].doomed = d]
  /\ UNCHANGED <<files, manifests, rotten, taken, restore>>

(* One backup is removed: its file, then its manifest. *)
RemoveFile(j) ==
  /\ job[j].at = "pruning" /\ job[j].doomed # {} /\ UNCHANGED stage
  /\ \E m \in job[j].doomed :
       /\ files' = {f \in files : f.name # m.name}
       /\ job' = [job EXCEPT ![j].at = "unlinking", ![j].name = m.name, ![j].doomed = @ \ {m}]
  /\ UNCHANGED <<manifests, rotten, taken, restore>>

RemoveManifest(j) ==
  /\ job[j].at = "unlinking" /\ UNCHANGED stage
  /\ manifests' = {m \in manifests : m.name # job[j].name}
  /\ job' = [job EXCEPT ![j].at = "pruning"]
  /\ UNCHANGED <<files, rotten, taken, restore>>

EndBackup(j) ==
  /\ job[j].at = "pruning" /\ job[j].doomed = {} /\ job' = [job EXCEPT ![j] = Idle]
  /\ UNCHANGED <<files, manifests, rotten, taken, restore, stage>>

CrashBackup(j) ==
  /\ job[j].at # "off" /\ Spend("crash") /\ job' = [job EXCEPT ![j] = Idle]
  /\ UNCHANGED <<files, manifests, rotten, taken, restore>>

(* A file of the backup directory is damaged. *)
Rot ==
  /\ Spend("rot")
  /\ \E f \in files :
       /\ files' = (files \ {f}) \cup {[f EXCEPT !.snap = None]}
       /\ rotten' = rotten \cup {f.name}
  /\ UNCHANGED <<job, manifests, taken, restore>>

(* The restore script copies a backup that has a manifest, ...             *)
RestoreCopy ==
  /\ restore.at = "off" /\ Spend("restore")
  /\ \E m \in manifests, f \in files :
       m.name = f.name /\ restore' = [at |-> "copied", manifest |-> m, snap |-> f.snap]
  /\ UNCHANGED <<job, files, manifests, rotten, taken>>

(* Mutant of Restorable: the copy is not compared with the manifest.       *)
RestorableUnchecked(s, m) == TRUE

(* It is what the manifest was written for, and of this release. *)
Restorable(s, m) ==
  /\ s = m.snap /\ Fingerprinted(s)
  /\ s.meta # 0 /\ s.version = scene.newest /\ Contract(s, scene.newest)

(* ... and publishes the copy under its name. *)
RestorePublish ==
  /\ restore.at = "copied" /\ UNCHANGED stage
  /\ restore' = IF Restorable(restore.snap, restore.manifest)
                THEN [restore EXCEPT !.at = "published"]
                ELSE [restore EXCEPT !.at = "off", !.snap = None]
  /\ UNCHANGED <<job, files, manifests, rotten, taken>>

StoreNext ==
  \/ /\ UNCHANGED <<backupVars>>
     /\ \/ \E p \in Procs :
               \/ (Stall(p) \/ Wake(p))
               \/ /\ UNCHANGED <<stalled, slept>>
                  /\ \/ Open(p) \/ Inspect(p) \/ TakeMigration(p) \/ LookRuntime(p) \/ Verify(p) \/ Migrate(p)
                     \/ Record(p) \/ EndMigration(p) \/ TakeRuntime(p) \/ Beat(p) \/ Write(p) \/ Close(p) \/ Crash(p)
        \/ OnTime /\ Tick /\ UNCHANGED procVars
  \/ /\ UNCHANGED <<procVars>>
     /\ \/ \E j \in Jobs :
               \/ Snapshot(j) \/ PublishFile(j) \/ PublishManifest(j) \/ Prune(j) \/ RemoveFile(j) \/ RemoveManifest(j)
               \/ EndBackup(j) \/ CrashBackup(j)
        \/ Rot \/ RestoreCopy \/ RestorePublish
-----------------------------------------------------------------------------
(* The retention policy (retention.ts, maintenance.ts): what is cleared    *)
(* and deleted when it is old enough, in batches; a dry run only counts.   *)
(* Every statement is a step: the process may end between two.             *)
CONSTANTS
  Policy,     \* [raw, messages, grace, reminders, terminal, flows]: days
  SweepBatch  \* rows of one statement

(* Rows have their columns, and primary keys. *)
ASSUME RetentionAssumption ==
  /\ SweepBatch \in Nat
  /\ \A s \in Scenes :
       /\ IsFiniteSet(s.rows)
       /\ \A r \in s.rows : DOMAIN r = {"id", "table", "state", "born", "raw"}
       /\ \A r, q \in s.rows : r.id = q.id => r = q

VARIABLES
  kept,       \* rows: [id, table, state, born, raw], born: the day
  sweep       \* the run: [at, dry, day, counts, from], at: its category

retentionVars == <<kept, sweep>>

Category == <<"rawMessages", "messages", "reminders", "inbox", "inboxStale", "outbox", "outboxStale", "flowSessions">>
TableOf(c) ==
  CASE c \in {"rawMessages", "messages"} -> "messages" [] c \in {"inbox", "inboxStale"} -> "message_inbox"
    [] c \in {"outbox", "outboxStale"} -> "message_outbox" [] c = "reminders" -> "reminders" [] c = "flowSessions" -> "flow_sessions"

NoSweep == [at |-> 0, dry |-> TRUE, day |-> 0, counts |-> [i \in 1 .. Len(Category) |-> 0], from |-> {}]

RetentionInit == kept = scene.rows /\ sweep = NoSweep

(* Delivered, or given up. *)
Final(row) == row.state \in {"completed", "sent", "dead_letter"}

(* The rows of a category on a day.  A reminder that recurs is not "sent". *)
Swept(c, day, rows) ==
  LET old(row, days) == row.born + days < day
  IN {row \in rows : row.table = TableOf(c) /\
        CASE c = "rawMessages" -> row.raw /\ old(row, Policy.raw)
          [] c = "messages" -> old(row, Policy.messages + Policy.grace)
          [] c = "reminders" -> row.state = "sent" /\ old(row, Policy.reminders)
          [] c \in {"inbox", "outbox"} -> Final(row) /\ old(row, Policy.terminal)
          [] c \in {"inboxStale", "outboxStale"} -> ~Final(row) /\ old(row, Policy.terminal)
          [] c = "flowSessions" -> old(row, Policy.flows)}

Sweeping == sweep.at \in 1 .. Len(Category)
Current == Category[sweep.at]

StartSweep(dry) ==
  /\ ~Sweeping /\ Spend("sweep") /\ UNCHANGED kept
  /\ sweep' = [NoSweep EXCEPT !.at = 1, !.dry = dry, !.day = now, !.from = kept]

CountRows ==
  /\ Sweeping /\ sweep.dry /\ UNCHANGED <<stage, kept>>
  /\ sweep' = [sweep EXCEPT !.counts[sweep.at] = Cardinality(Swept(Current, sweep.day, kept)), !.at = @ + 1]

(* A statement clears or deletes a batch; the category ends with one that  *)
(* is not full.                                                            *)
SweepRows ==
  LET rows == Swept(Current, sweep.day, kept)
  IN /\ Sweeping /\ ~sweep.dry /\ UNCHANGED stage
     /\ \E some \in kSubset(IF Cardinality(rows) > SweepBatch THEN SweepBatch ELSE Cardinality(rows), rows) :
          /\ kept' = (kept \ some) \cup (IF Current = "rawMessages" THEN {[row EXCEPT !.raw = FALSE] : row \in some} ELSE {})
          /\ sweep' = [sweep EXCEPT !.counts[sweep.at] = @ + Cardinality(some),
                                    !.at = IF Cardinality(some) < SweepBatch THEN @ + 1 ELSE @]

(* The process ends; days pass between two runs. *)
Interrupted == Sweeping /\ Spend("crash") /\ sweep' = NoSweep /\ UNCHANGED kept
DayPasses == ~Sweeping /\ Tick /\ UNCHANGED retentionVars

RetentionNext == (\E dry \in BOOLEAN : StartSweep(dry)) \/ CountRows \/ SweepRows \/ Interrupted \/ DayPasses
-----------------------------------------------------------------------------
(* Whatever instances start, crash and stall, and when, one that runs and  *)
(* did not oversleep its lease holds it, so there is one at a time         *)
(* (db/index.ts:85-100 and 202-282, runtime.ts:63-117).                    *)
OneInstance ==
  \A p \in Procs : At(p, "running") /\ p \notin slept => lease["runtime"].owner = Me(p) /\ Active("runtime")

(* However backups overlap and are cut off, the newest ones stay, each     *)
(* with its file, and a restored database is one of them as it was taken   *)
(* and one this release can open (backup.ts:204-329).                      *)
BackupsRestorable ==
  /\ \A m \in taken :
       Cardinality({n \in taken : n.created >= m.created}) <= scene.keep =>
         /\ m \in manifests
         /\ [name |-> m.name, snap |-> m.snap] \in files \/ m.name \in rotten
  /\ restore.at = "published" =>
       /\ restore.snap \in {m.snap : m \in taken}
       /\ Contract(restore.snap, scene.newest) /\ Fingerprinted(restore.snap)

(* A run reports of each category what was old enough when it began, and   *)
(* a dry run reports the same: what an operator reads before he lets it    *)
(* delete (maintenance.ts:29-37).  A real one leaves nothing of it, and    *)
(* all of the rest.                                                        *)
DryRunTells ==
  sweep.at > Len(Category) =>
    /\ \A i \in 1 .. Len(Category) : sweep.counts[i] = Cardinality(Swept(Category[i], sweep.day, sweep.from))
    /\ sweep.dry => kept = sweep.from
    /\ ~sweep.dry =>
         LET gone == UNION {Swept(Category[i], sweep.day, sweep.from) : i \in 2 .. Len(Category)}
             cleared == Swept("rawMessages", sweep.day, sweep.from) \ gone
         IN kept = (sweep.from \ (gone \cup cleared)) \cup {[row EXCEPT !.raw = FALSE] : row \in cleared}

(* One database, one instance on it, a way back, and nothing deleted that  *)
(* the operator was not told of.                                           *)
StoreSafe == OneInstance /\ BackupsRestorable /\ DryRunTells
=============================================================================
