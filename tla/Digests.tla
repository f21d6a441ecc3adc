------------------------------ MODULE Digests ------------------------------
(***************************************************************************)
(* utils/DigestService.ts: the daily summary of each configured room and   *)
(* the weekly rollup of new media for each subscribed room.  A marker in   *)
(* app_kv is claimed before the work and given back if the work fails.     *)
(***************************************************************************)
EXTENDS Notifications, SequencesExt

CONSTANTS
  DigestRooms,   \* DIGEST_ROOMS, as a sequence of remote ids
  DefaultPlatform,
  Hours,         \* ticks of a day
  DigestHour,    \* DIGEST_HOUR_UTC
  Days,          \* days of a week
  MaxItems       \* bound: media items ever added

ASSUME DigestsAssumption == DigestRooms \in Seq(Remotes) /\ {Hours, Days} \subseteq Nat \ {0} /\ {DigestHour, MaxItems} \subseteq Nat /\ DefaultPlatform \in Platforms

VARIABLES
  hour,          \* ticks since the first Monday
  senders,       \* senders registered
  markers,       \* app_kv: [kind, room, key]
  media,         \* the media server: the hour each item was added
  mediaCache,    \* [week, items] of DigestService.mediaCache, or None
  run            \* the run of processDue

digestVars == <<hour, senders, markers, media, mediaCache, run>>

NoRun == [at |-> "idle", now |-> 0, todo |-> {}, left |-> <<>>, marker |-> None, items |-> {}]

DigestsInit ==
  /\ hour = 0 /\ senders = TRUE /\ markers = {} /\ media = <<>> /\ mediaCache = None
  /\ run = NoRun

(* dateKey and weekKey *)
DayOf(now) == now \div Hours
WeekOf(now) == now \div (Hours * Days)

(* resolveDigestRoom of a configured room: the shape of the id before the  *)
(* chat_rooms of an earlier version.                                       *)
DigestRoom(remote) ==
  LET old == {p \in Platforms : RoomOf(p, remote) \in Legacy}
  IN  RoomOf(IF Shape[remote] # None THEN Shape[remote] ELSE IF old # {} THEN CHOOSE p \in old : TRUE ELSE DefaultPlatform, remote)

(* processDue: one at a time, of the hour it starts. *)
Poll ==
  /\ run.at = "idle"
  /\ run' = [NoRun EXCEPT !.at = "daily", !.now = hour, !.left = IF hour % Hours < DigestHour THEN <<>> ELSE DigestRooms]
  /\ UNCHANGED <<hour, senders, markers, media, mediaCache>>

Marker(kind, room, key) == [kind |-> kind, room |-> room, key |-> key]

Claim(marker, after, work) ==
  /\ markers' = markers \cup {marker}
  /\ run' = IF marker \in markers THEN after ELSE [after EXCEPT !.at = work, !.marker = marker]

(* runDailyDigests: the next room. *)
ClaimDaily ==
  /\ run.at = "daily" /\ run.left # <<>>
  /\ LET room == DigestRoom(Head(run.left))
     IN  /\ Claim(Marker("daily", room, DayOf(run.now)), [run EXCEPT !.left = Tail(@)], "summarizing")
         /\ Keyed(room)
  /\ UNCHANGED <<hour, senders, media, mediaCache>>

(* runWeeklyMediaDigest, which takes a time of its own. *)
BeginWeekly ==
  /\ run.at = "daily" /\ run.left = <<>>
  /\ run' = [NoRun EXCEPT !.at = "media", !.now = hour, !.todo = IF hour % Hours < DigestHour THEN {} ELSE Subscribed(Users)]
  /\ UNCHANGED <<hour, senders, markers, media, mediaCache>>

ClaimWeekly(room) ==
  /\ run.at = "media" /\ room \in run.todo
  /\ Claim(Marker("media", room, WeekOf(run.now)), [run EXCEPT !.todo = @ \ {room}], "loading")
  /\ UNCHANGED <<hour, senders, media, mediaCache>>

EndRun ==
  /\ run.at = "media" /\ run.todo = {}
  /\ run' = NoRun
  /\ UNCHANGED <<hour, senders, markers, media, mediaCache>>

Onward == run' = [run EXCEPT !.at = run.marker.kind, !.marker = None, !.items = {}]

(* Mutant of GiveBack: a failed digest keeps its marker. *)
GiveBackNone == Onward /\ UNCHANGED markers

(* releaseMarker *)
GiveBack == Onward /\ markers' = markers \ {run.marker}

(* Mutant of WeeksItems: last week's cache serves this week. *)
WeeksItemsStale ==
  LET week == WeekOf(run.now)
  IN  IF mediaCache # None THEN mediaCache.items
      ELSE {i \in DOMAIN media : WeekOf(media[i]) >= week}

(* loadWeeklyMedia, where it answers. *)
WeeksItems ==
  LET week == WeekOf(run.now)
  IN  IF mediaCache # None /\ mediaCache.week = week THEN mediaCache.items
      ELSE {i \in DOMAIN media : WeekOf(media[i]) >= week}

(* summarizeRoom and buildMediaRollup: nothing to say, a failure, a text.  *)
Quiet ==
  /\ \/ run.at = "summarizing" /\ UNCHANGED mediaCache
     \/ run.at = "loading" /\ WeeksItems = {} /\ mediaCache' = [week |-> WeekOf(run.now), items |-> {}]
  /\ Onward
  /\ UNCHANGED <<hour, senders, markers, media>>

Prepared ==
  /\ \/ run.at = "summarizing" /\ UNCHANGED mediaCache /\ run' = [run EXCEPT !.at = "sending"]
     \/ /\ run.at = "loading" /\ WeeksItems # {}
        /\ mediaCache' = [week |-> WeekOf(run.now), items |-> WeeksItems]
        /\ run' = [run EXCEPT !.at = "sending", !.items = WeeksItems]
  /\ UNCHANGED <<hour, senders, markers, media>>

Cached == mediaCache # None /\ mediaCache.week = WeekOf(run.now)

(* A model or a media server that fails. *)
PreparingFails ==
  /\ \/ run.at = "summarizing" /\ UNCHANGED mediaCache
     \/ run.at = "loading" /\ ~Cached /\ mediaCache' = None
  /\ GiveBack
  /\ UNCHANGED <<hour, senders, media>>

(* A send that fails or is given up; it may have been shown all the same. *)
SendingFails ==
  /\ run.at = "sending" /\ GiveBack
  /\ UNCHANGED <<hour, senders, media, mediaCache>>

(* deliver *)
Delivered ==
  /\ run.at = "sending" /\ senders
  /\ Onward
  /\ UNCHANGED <<hour, senders, markers, media, mediaCache>>

AddItem ==
  /\ Len(media) < MaxItems /\ media' = Append(media, hour)
  /\ UNCHANGED <<hour, senders, markers, mediaCache, run>>

NextHour == hour' = hour + 1 /\ UNCHANGED <<senders, markers, media, mediaCache, run>>

UnwireDigests == senders /\ senders' = FALSE /\ UNCHANGED <<hour, markers, media, mediaCache, run>>

DigestsCrash ==
  /\ run' = NoRun /\ mediaCache' = None /\ senders' = TRUE
  /\ UNCHANGED <<hour, markers, media>>
=============================================================================
