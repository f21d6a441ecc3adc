-------------------------------- MODULE Filing --------------------------------
(***************************************************************************)
(* Where messages are filed: a turn finds or creates the row of its room   *)
(* and stores its message (src/src/agent/index.ts), WhatsApp's history is  *)
(* stored in batches (src/src/utils/syncHistoricalDatabase.ts), webhooks   *)
(* register rooms nobody wrote in (src/src/db/rooms.ts), and a report      *)
(* looks for rows that contradict each other (scripts/dbRoomKeys.ts).      *)
(* Then, with variables of its own, the directory of the files that        *)
(* messages name.                                                          *)
(*                                                                         *)
(* A room of before migration 0022 has the provider's id for its row, a    *)
(* later one its room key.                                                 *)
(***************************************************************************)
EXTENDS Stage, SequencesExt, FiniteSetsExt

CONSTANTS Rooms, Turns, Syncs, Batch   \* Batch: rows that go into one insert

VARIABLES
  rooms,      \* chat_rooms: set of [id, key]
  registry,   \* room_keys: set of [key, legacy]
  stored,     \* messages: set of [pid, room, key]
  conflicts,  \* room_key_conflicts
  writer,     \* [Turns -> [at, key, pid, room]]
  sync,       \* [Syncs -> [at, all, got, room, missing, failed, batches]]
  registrar   \* [at, key] of a webhook's registration

filingVars == <<rooms, registry, stored, conflicts, writer, sync, registrar>>

(* The id of a row of before the migration, and of one since. *)
Raw(key) == <<"raw", key>>
Keyed(key) == <<"key", key>>

NoSync == [at |-> "off", all |-> <<>>, got |-> <<>>, room |-> <<>>, missing |-> {}, failed |-> {}, batches |-> 0]

(* A row of room_keys. *)
Entry(key, legacy) == [key |-> key, legacy |-> legacy]

FilingInit ==
  /\ rooms = {[id |-> Raw(k), key |-> k] : k \in scene.legacy}
  /\ registry = {Entry(k, Raw(k)) : k \in scene.legacy}
  /\ stored = {} /\ conflicts = {}
  /\ writer = [t \in Turns |-> [at |-> "off", key |-> None, pid |-> None, room |-> None]]
  /\ sync = [s \in Syncs |-> NoSync]
  /\ registrar = [at |-> "off", key |-> None]
-----------------------------------------------------------------------------
(* The row that holds the key, if there is one. *)
RowsOf(key) == {r \in rooms : r.key = key}

(* A room is inserted unless its id or its key is taken; the trigger on    *)
(* the table registers it.                                                 *)
NewRows(keys) ==
  {[id |-> Keyed(k), key |-> k] : k \in {k \in keys : RowsOf(k) = {} /\ ~ \E r \in rooms : r.id = Keyed(k)}}
Registered(keys) == registry \cup {Entry(k, None) : k \in {k \in keys : ~ \E e \in registry : e.key = k}}

InsertRooms(keys) ==
  /\ rooms' = rooms \cup NewRows(keys)
  /\ registry' = Registered({r.key : r \in NewRows(keys)})

(* A message refers to a row that exists; an id that was seen is skipped.  *)
Fits(msgs) == \A x \in msgs : \E r \in rooms : r.id = x.room
Unseen(msgs) == {x \in msgs : ~ \E y \in stored : y.pid = x.pid}
-----------------------------------------------------------------------------
(* A turn *)
TurnTo(t, at, room) == writer' = [writer EXCEPT ![t].at = at, ![t].room = room]

FindRoom(t, key, pid) ==
  /\ writer[t].at = "off" /\ pid[1] = key /\ Spend("turn")
  /\ writer' = [writer EXCEPT ![t] = IF RowsOf(key) = {}
                                     THEN [at |-> "creating", key |-> key, pid |-> pid, room |-> None]
                                     ELSE [at |-> "found", key |-> key, pid |-> pid, room |-> (CHOOSE r \in RowsOf(key) : TRUE).id]]
  /\ UNCHANGED <<rooms, registry, stored, conflicts, sync, registrar>>

CreateRoom(t) ==
  /\ writer[t].at = "creating" /\ InsertRooms({writer[t].key}) /\ TurnTo(t, "created", None)
  /\ UNCHANGED <<stored, conflicts, sync, registrar, stage>>

RereadRoom(t) ==
  /\ writer[t].at = "created"
  /\ TurnTo(t, "found", IF RowsOf(writer[t].key) = {} THEN Keyed(writer[t].key) ELSE (CHOOSE r \in RowsOf(writer[t].key) : TRUE).id)
  /\ UNCHANGED <<rooms, registry, stored, conflicts, sync, registrar, stage>>

StoreMessage(t) ==
  LET x == [pid |-> writer[t].pid, room |-> writer[t].room, key |-> writer[t].key]
  IN /\ writer[t].at = "found" /\ TurnTo(t, "off", None)
     /\ stored' = IF Fits({x}) THEN stored \cup Unseen({x}) ELSE stored
     /\ UNCHANGED <<rooms, registry, conflicts, sync, registrar, stage>>
-----------------------------------------------------------------------------
(* The history that WhatsApp sends. First the rows of its rooms are read.  *)
KeysOf(got) == {x[1] : x \in ToSet(got)}

(* Mutant of Known: the rows of before the migration are not found.        *)
KnownNew(key) == IF \E r \in rooms : r.id = Keyed(key) THEN Keyed(key) ELSE None

Known(key) == IF RowsOf(key) = {} THEN None ELSE (CHOOSE r \in RowsOf(key) : TRUE).id

SyncRooms(s, got) ==
  /\ sync[s].at = "off" /\ Spend("sync")
  /\ sync' = [sync EXCEPT ![s] = [at |-> "rooms", all |-> got, got |-> got, batches |-> 0, failed |-> {},
                                  room |-> [k \in KeysOf(got) |-> IF Known(k) = None THEN Keyed(k) ELSE Known(k)],
                                  missing |-> {k \in KeysOf(got) : Known(k) = None}]]
  /\ UNCHANGED <<rooms, registry, stored, conflicts, writer, registrar>>

(* The rooms that are missing are inserted; a batch that fails three times *)
(* is given up, with the messages of its rooms.                            *)
SyncCreate(s) ==
  /\ sync[s].at = "rooms"
  /\ \/ InsertRooms(sync[s].missing) /\ UNCHANGED stage /\ sync' = [sync EXCEPT ![s].at = "messages"]
     \/ /\ sync[s].missing # {} /\ Spend("busy") /\ UNCHANGED <<rooms, registry>>
        /\ sync' = [sync EXCEPT ![s].at = "messages", ![s].failed = {Keyed(k) : k \in sync[s].missing}, ![s].batches = @ + 1]
  /\ UNCHANGED <<stored, conflicts, writer, registrar>>

(* The messages go in batch by batch. *)
Chunk(s) == SubSeq(sync[s].got, 1, IF Len(sync[s].got) < Batch THEN Len(sync[s].got) ELSE Batch)
Payload(s) ==
  {[pid |-> x, room |-> sync[s].room[x[1]], key |-> x[1]] : x \in {y \in ToSet(Chunk(s)) : sync[s].room[y[1]] \notin sync[s].failed}}

SyncStore(s) ==
  LET rest == SubSeq(sync[s].got, Len(Chunk(s)) + 1, Len(sync[s].got))
  IN /\ sync[s].at = "messages" /\ sync[s].got # <<>>
     /\ \/ /\ Fits(Payload(s)) /\ UNCHANGED stage
           /\ stored' = stored \cup Unseen(Payload(s)) /\ sync' = [sync EXCEPT ![s].got = rest]
        \/ /\ IF Fits(Payload(s)) THEN Payload(s) # {} /\ Spend("busy") ELSE UNCHANGED stage
           /\ sync' = [sync EXCEPT ![s].got = rest, ![s].batches = @ + 1] /\ UNCHANGED stored
     /\ UNCHANGED <<rooms, registry, conflicts, writer, registrar>>

SyncEnd(s) ==
  /\ sync[s].at = "messages" /\ sync[s].got = <<>> /\ sync' = [sync EXCEPT ![s].at = "done"]
  /\ UNCHANGED <<rooms, registry, stored, conflicts, writer, registrar, stage>>
-----------------------------------------------------------------------------
(* A webhook resolves a room and registers it if it is unknown. *)
Resolved(key) == IF \E e \in registry : e.key = key THEN key ELSE IF \E r \in rooms : r.id = Raw(key) THEN key ELSE None

LookUp(key) ==
  /\ registrar.at = "off" /\ Spend("register")
  /\ registrar' = IF \E e \in registry : e.key = key THEN [at |-> "off", key |-> Resolved(key)] ELSE [at |-> "unknown", key |-> key]
  /\ UNCHANGED <<rooms, registry, stored, conflicts, writer, sync>>

Register ==
  /\ registrar.at = "unknown" /\ registrar' = [registrar EXCEPT !.at = "off"]
  /\ registry' = IF \E e \in registry : e.key = registrar.key THEN registry
                 ELSE registry \cup {Entry(registrar.key, IF \E r \in rooms : r.id = Raw(registrar.key) THEN Raw(registrar.key) ELSE None)}
  /\ UNCHANGED <<rooms, stored, conflicts, writer, sync, stage>>
-----------------------------------------------------------------------------
(* What the report finds. *)
Unregistered == {<<"unregistered_chat_room", r.key>> : r \in {r \in rooms : ~ \E e \in registry : e.key = r.key}}
Opaque == {<<"chat_room_key_not_transparent", r.key>> : r \in {r \in rooms : r.id \notin {Keyed(r.key), Raw(r.key)}}}
Mismatched == {<<"room_key_mismatch", x.pid>> : x \in {x \in stored : \E r \in rooms : r.id = x.room /\ r.key # x.key}}
Unresolved == {<<"unresolved_scope", k>> : k \in {k \in scene.scopes : ~ \E e \in registry : e.key = k}}

Collisions == Opaque \cup Unregistered \cup Mismatched \cup Unresolved

(* Each finding is recorded once: its fingerprint is unique. *)
Recorded(found) == conflicts \cup found

RecordConflicts ==
  /\ Spend("record") /\ conflicts' = Recorded(Collisions)
  /\ UNCHANGED <<rooms, registry, stored, writer, sync, registrar>>

FilingNext ==
  \/ \E t \in Turns :
       \/ \E x \in scene.live : FindRoom(t, x[1], x)
       \/ CreateRoom(t) \/ RereadRoom(t) \/ StoreMessage(t)
  \/ \E s \in Syncs :
       \/ \E got \in scene.histories : SyncRooms(s, got)
       \/ SyncCreate(s) \/ SyncStore(s) \/ SyncEnd(s)
  \/ (\E k \in Rooms : LookUp(k)) \/ Register \/ RecordConflicts
-----------------------------------------------------------------------------
(* The directory of media (mediaShared.ts, MediaStorage.ts,                *)
(* MediaCleanup.ts): a file is written under a temporary name, room is     *)
(* made for it by deleting the oldest, it is put in place, a message names *)
(* it.  How it is streamed is in Downloads.                                *)
CONSTANTS
  Saves,      \* the saves that may go on at once
  TotalsTtl,  \* MEDIA_DIR_CACHE_TTL_MS
  TempGrace,  \* TEMP_FILE_GRACE_MS
  MediaAge    \* getMediaRetentionHours

VARIABLES
  media,      \* the files: [id, size, born]; a higher id was written later
  temps,      \* the temporary ones: [id, born]
  totals,     \* mediaDirCache: [bytes, files, at], or None
  keeping,    \* each save, and the cleaner: [at, id, size, list, seen, bytes, files, gone, since, trusting]
  ioSlot,     \* who holds globalMediaIoSlots
  cited,      \* the files that messages name
  unchecked,  \* (history) files let in by the totals that no scan has counted
  lapsed      \* (history) files whose deletion the messages were not told of

mediaVars == <<media, temps, totals, keeping, ioSlot, cited, unchecked, lapsed>>

Cleaner == "cleaner"
NoKeeping == [at |-> "off", id |-> 0, size |-> 0, list |-> {}, seen |-> {}, bytes |-> 0, files |-> 0, gone |-> {}, since |-> 0, trusting |-> FALSE]

ASSUME FilingAssumption ==
  /\ Batch \in Nat \ {0} /\ Cleaner \notin Saves /\ None \notin Saves
  /\ \A s \in Scenes :
       /\ \A h \in s.histories : h \in Seq(ToSet(h))
       /\ \A k \in s.legacy : Raw(k) # None
       /\ s.media.sizes \subseteq Nat /\ s.media.quota \in Int /\ s.media.most \in Nat

MediaInit ==
  /\ media = {} /\ temps = {} /\ totals = None /\ ioSlot = None
  /\ keeping = [r \in Saves \cup {Cleaner} |-> NoKeeping]
  /\ cited = {} /\ unchecked = {} /\ lapsed = {}

Quota == scene.media.quota   \* -1: none
Most == scene.media.most     \* files

Bytes(list) == MapThenSumSet(LAMBDA f : f.size, list)
Ids(list) == {f.id : f \in list}
Oldest(list) == CHOOSE f \in list : \A g \in list : f.id <= g.id
Going(r, record) == keeping' = [keeping EXCEPT ![r] = record]

(* saveMediaBuffer holds the slot while it writes, saveMediaStream asks    *)
(* for it afterwards.                                                      *)
WriteTemp(v, size) ==
  /\ keeping[v].at = "off" /\ Spend("save")
  /\ scene.media.buffered => ioSlot = None
  /\ ioSlot' = IF scene.media.buffered THEN v ELSE ioSlot
  /\ temps' = temps \cup {[id |-> Spent("save") + 1, born |-> now]}
  /\ Going(v, [NoKeeping EXCEPT !.at = "written", !.id = Spent("save") + 1, !.size = size])
  /\ UNCHANGED <<media, totals, cited, unchecked, lapsed>>

(* reconcileMediaQuota.  While the totals are fresh and there is room by   *)
(* them, nobody looks; nor is the file added to them.                      *)
RoomByTotals(size) ==
  /\ totals # None /\ now - totals.at < TotalsTtl
  /\ totals.bytes + size <= Quota /\ totals.files + 1 <= Most

Scanned(k) ==
  [k EXCEPT !.at = IF Quota >= 0 /\ k.size > Quota THEN "failed" ELSE "evicting", !.list = media, !.seen = Ids(media),
            !.bytes = Bytes(media), !.files = Cardinality(media), !.since = now]

(* Temporary files are left alone for a while. *)
Stray(t) == now - t.born >= TempGrace

AskQuota(v) ==
  /\ keeping[v].at = "written" /\ ioSlot \in {None, v} /\ ioSlot' = v
  /\ IF RoomByTotals(keeping[v].size)
     THEN Going(v, [keeping[v] EXCEPT !.at = "placing", !.trusting = TRUE]) /\ UNCHANGED temps
     ELSE Going(v, Scanned(keeping[v])) /\ temps' = {t \in temps : t.id = keeping[v].id \/ ~Stray(t)}
  /\ UNCHANGED <<media, totals, cited, unchecked, lapsed, stage>>

Over(r) ==
  \/ Quota >= 0 /\ keeping[r].bytes + keeping[r].size > Quota
  \/ keeping[r].files + (IF r = Cleaner THEN 0 ELSE 1) > Most

(* One deletion; it fails if the file is gone, or for a reason of its own. *)
Delete(r, f, record) ==
  /\ UNCHANGED <<temps, totals, ioSlot, cited, unchecked, lapsed>>
  /\ \/ f \in media /\ media' = media \ {f} /\ Going(r, [record EXCEPT !.gone = @ \cup {f.id}]) /\ UNCHANGED stage
     \/ f \notin media /\ Going(r, [keeping[r] EXCEPT !.list = @ \ {f}]) /\ UNCHANGED <<media, stage>>
     \/ f \in media /\ Spend("stuck") /\ Going(r, [keeping[r] EXCEPT !.list = @ \ {f}]) /\ UNCHANGED media

Evict(r) ==
  LET k == keeping[r] f == Oldest(k.list)
  IN  k.at = "evicting" /\ Over(r) /\ k.list # {} /\ Delete(r, f, [k EXCEPT !.list = @ \ {f}, !.bytes = @ - f.size, !.files = @ - 1])

EndScan(r) ==
  LET k == keeping[r]
  IN  /\ k.at = "evicting" /\ (Over(r) => k.list = {})
      /\ IF Over(r) THEN Going(r, [k EXCEPT !.at = "failed"]) /\ UNCHANGED <<totals, unchecked>>
         ELSE /\ totals' = [bytes |-> k.bytes, files |-> k.files, at |-> k.since]
              /\ unchecked' = unchecked \ k.seen /\ Going(r, [k EXCEPT !.at = "clearing"])
      /\ UNCHANGED <<media, temps, ioSlot, cited, lapsed, stage>>

(* Messages stop naming what was deleted, or the database refuses that.    *)
ClearNames(r) ==
  /\ keeping[r].at = "clearing"
  /\ Going(r, IF r = Cleaner THEN NoKeeping ELSE [keeping[r] EXCEPT !.at = "placing", !.gone = {}])
  /\ \/ cited' = cited \ keeping[r].gone /\ UNCHANGED <<lapsed, stage>>
     \/ keeping[r].gone # {} /\ Spend("busy") /\ lapsed' = lapsed \cup keeping[r].gone /\ UNCHANGED cited
  /\ UNCHANGED <<media, temps, totals, ioSlot, unchecked>>

Place(v) ==
  LET k == keeping[v] mine == {t \in temps : t.id = k.id}
  IN  /\ k.at = "placing" /\ temps' = temps \ mine
      /\ IF mine = {} THEN Going(v, [k EXCEPT !.at = "failed"]) /\ UNCHANGED <<media, unchecked, ioSlot>>
         ELSE /\ media' = media \cup {[id |-> k.id, size |-> k.size, born |-> t.born] : t \in mine}
              /\ unchecked' = IF k.trusting THEN unchecked \cup {k.id} ELSE unchecked
              /\ ioSlot' = None /\ Going(v, [k EXCEPT !.at = "saved"])
      /\ UNCHANGED <<totals, cited, lapsed, stage>>

(* An error leaves what was deleted cited. *)
GiveUpKeeping(r) ==
  /\ keeping[r].at = "failed" /\ Going(r, NoKeeping)
  /\ temps' = {t \in temps : t.id # keeping[r].id} /\ ioSlot' = IF ioSlot = r THEN None ELSE ioSlot
  /\ lapsed' = lapsed \cup keeping[r].gone /\ UNCHANGED <<media, totals, cited, unchecked, stage>>

(* The turn stores the path, which may be too late. *)
NameFile(v) ==
  /\ keeping[v].at = "saved" /\ Going(v, NoKeeping) /\ cited' = cited \cup {keeping[v].id}
  /\ lapsed' = IF keeping[v].id \in Ids(media) THEN lapsed ELSE lapsed \cup {keeping[v].id}
  /\ UNCHANGED <<media, temps, totals, ioSlot, unchecked, stage>>

(* deleteSavedMedia, when the socket was replaced meanwhile. *)
Discard(v) ==
  /\ keeping[v].at = "saved" /\ Spend("discard") /\ Going(v, NoKeeping)
  /\ media' = {f \in media : f.id # keeping[v].id}
  /\ totals' = IF keeping[v].id \in Ids(media) THEN None ELSE totals
  /\ UNCHANGED <<temps, ioSlot, cited, unchecked, lapsed>>

(* pruneOldFiles: what is old goes, then the quota is looked at. *)
StartCleaning ==
  /\ keeping[Cleaner].at = "off" /\ Spend("clean")
  /\ Going(Cleaner, [NoKeeping EXCEPT !.at = "aged", !.list = {f \in media : f.born + MediaAge < now}])
  /\ temps' = {t \in temps : t.born + MediaAge >= now}
  /\ UNCHANGED <<media, totals, ioSlot, cited, unchecked, lapsed>>

DeleteAged ==
  /\ keeping[Cleaner].at = "aged"
  /\ \E f \in keeping[Cleaner].list : Delete(Cleaner, f, [keeping[Cleaner] EXCEPT !.list = @ \ {f}])

CheckQuota ==
  /\ keeping[Cleaner].at = "aged" /\ keeping[Cleaner].list = {}
  /\ Going(Cleaner, Scanned(keeping[Cleaner])) /\ temps' = {t \in temps : ~Stray(t)}
  /\ UNCHANGED <<media, totals, ioSlot, cited, unchecked, lapsed, stage>>

LoseKeeping ==
  /\ Spend("crash") /\ keeping' = [r \in DOMAIN keeping |-> NoKeeping] /\ ioSlot' = None /\ totals' = None
  /\ lapsed' = lapsed \cup UNION {keeping[r].gone : r \in DOMAIN keeping}
  /\ UNCHANGED <<media, temps, cited, unchecked>>

MediaNext ==
  \/ \E v \in Saves : (\E size \in scene.media.sizes : WriteTemp(v, size)) \/ AskQuota(v) \/ Place(v) \/ NameFile(v) \/ Discard(v)
  \/ \E r \in DOMAIN keeping : Evict(r) \/ EndScan(r) \/ ClearNames(r) \/ GiveUpKeeping(r)
  \/ StartCleaning \/ DeleteAged \/ CheckQuota \/ LoseKeeping
  \/ Tick /\ UNCHANGED mediaVars
-----------------------------------------------------------------------------
(* However turns, a history and webhooks create the same rooms: a room has *)
(* one row, a message is stored once and filed in the row of its room,     *)
(* nothing of a history is missing unless the database refused a batch,    *)
(* and the report finds nothing but roles for rooms nobody knows           *)
(* (agent/index.ts:447-489, syncHistoricalDatabase.ts:109-220,             *)
(* db/rooms.ts:478-656).                                                   *)
HistoryFiled ==
  /\ \A r, q \in rooms : r.key = q.key => r = q
  /\ \A x, y \in stored : x.pid = y.pid => x = y
  /\ Fits(stored)
  /\ \A s \in Syncs :
       ("busy" \in DOMAIN left => Spent("busy") = 0) =>
         /\ sync[s].batches = 0
         /\ sync[s].at = "done" => \A x \in ToSet(sync[s].all) : \E y \in stored : y.pid = x
  /\ Collisions \subseteq {<<"unresolved_scope", k>> : k \in scene.scopes}

(* However saves, the cleaner, deletions that fail and a crash meet, the   *)
(* directory holds no more than its quota, but for files that the totals   *)
(* let in since the last scan (mediaShared.ts:132-211); ...                *)
QuotaKept ==
  LET counted == {f \in media : f.id \notin unchecked}
  IN  (Quota >= 0 => Bytes(counted) <= Quota) /\ Cardinality(counted) <= Most

(* ... and a file that messages name is there, or about to be taken out of *)
(* them, unless the run that deleted it could not do so or the message was *)
(* stored too late (MediaCleanup.ts:20-84, agent/index.ts:692-717).        *)
NamesTrue ==
  \A id \in cited : id \in Ids(media) \cup lapsed \cup UNION {keeping[r].gone : r \in DOMAIN keeping}

(* What messages say of their rooms and of their files is so. *)
FilingTrue == HistoryFiled /\ QuotaKept /\ NamesTrue
=============================================================================
