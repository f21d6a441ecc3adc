------------------------------ MODULE MCUpkeep -------------------------------
(* TLC instance of Upkeep: the scenes that are played, some for each part. *)
EXTENDS Upkeep, TLC

NoTasks == [policy |-> [enabled |-> FALSE, rooms |-> {}, perDay |-> 0, perRoom |-> 0, denied |-> {}], tools |-> <<>>, asks |-> {}, rooms |-> {}, limit |-> 0]

Daily == [kind |-> "days", every |-> 1, created |-> 0, first |-> 0, late |-> {}]
NoTool == [keys |-> <<>>, params |-> Nothing, required |-> {}, grammar |-> Nothing, tables |-> Nothing, needs |-> Nothing, alone |-> {}, infers |-> Nothing, infersWith |-> Nothing, offers |-> {}]

Parts == [store |-> Blank, release |-> <<>>, keep |-> 1, newest |-> 2, legacy |-> {}, scopes |-> {}, live |-> {}, histories |-> {}, model |-> None, texts |-> {}, quota |-> 0, rows |-> {},
          disk |-> <<>>, files |-> <<>>, plugins |-> {}, core |-> <<>>, permits |-> {}, owner |-> FALSE, overrides |-> <<>>, kinds |-> <<>>, tasks |-> NoTasks, works |-> <<>>,
          media |-> [quota |-> 0, most |-> 0, sizes |-> {}, buffered |-> FALSE], cadence |-> Daily, tool |-> NoTool, commands |-> {}, vocabulary |-> {}, longest |-> 0, values |-> {}]

At2(n) == [Blank EXCEPT !.applied = n, !.schema = n, !.meta = n, !.version = n]
StoreScene(s, release, keep, budget) == [Parts EXCEPT !.store = s, !.release = release, !.keep = keep] @@ [part |-> "store", left |-> budget]

FilingScene(legacy, scopes, histories, budget) ==
  [Parts EXCEPT !.legacy = legacy, !.scopes = scopes, !.histories = histories, !.live = {<<"r", 1>>, <<"q", 1>>}] @@ [part |-> "filing", left |-> budget]

MediaScene(quota, most, sizes, buffered, budget) ==
  [Parts EXCEPT !.media = [quota |-> quota, most |-> most, sizes |-> sizes, buffered |-> buffered]] @@ [part |-> "media", left |-> budget]

SummaryScene(budget) == Parts @@ [part |-> "summary", left |-> budget]

(* Documents of paragraphs of these lengths. *)
Document(lengths) == [p \in 1 .. Len(lengths) |-> [i \in 1 .. lengths[p] |-> <<p, i>>]]
Lengths == UNION {[1 .. n -> {1, 3, 4, 6, 9}] : n \in 1 .. 3}

LibraryScene(texts, quota, budget) ==
  [Parts EXCEPT !.model = "m1", !.quota = quota, !.texts = {Document(t) : t \in texts}] @@ [part |-> "memory", left |-> budget]
MemoryScene(model, budget) == [Parts EXCEPT !.model = model, !.quota = 2, !.texts = {Document(<<t>>) : t \in {1, 6}}] @@ [part |-> "memory", left |-> budget]

(* Rows of every table, some just too young, some of them one of a pair.   *)
Row(id, table, state, born, raw) == [id |-> id, table |-> table, state |-> state, born |-> born, raw |-> raw]
OldRows ==
  {Row(1, "messages", "none", -5, TRUE), Row(2, "messages", "none", -5, TRUE), Row(3, "messages", "none", -2, TRUE), Row(4, "messages", "none", -1, TRUE),
   Row(5, "reminders", "sent", -5, FALSE), Row(6, "reminders", "due", -5, FALSE), Row(7, "message_inbox", "completed", -3, FALSE),
   Row(8, "message_inbox", "processing", -3, FALSE), Row(9, "message_outbox", "dead_letter", -3, FALSE), Row(10, "message_outbox", "failed", -3, FALSE),
   Row(11, "flow_sessions", "none", -2, FALSE)}
RetentionScene(budget) == [Parts EXCEPT !.rows = OldRows] @@ [part |-> "retention", left |-> budget]
SweepPolicy == [raw |-> 1, messages |-> 2, grace |-> 1, reminders |-> 3, terminal |-> 3, flows |-> 2]

(* What the console and an owner reload: a plugin takes the name of a core *)
(* tool's alias, one asks for more than it declares, one is unreviewed.    *)
Plug(name, aliases, perm, manifest) == [tools |-> <<[name |-> name, aliases |-> aliases, perm |-> perm, valid |-> TRUE]>>, manifest |-> manifest]
Declares(perms) == [perms |-> perms, enabled |-> TRUE]
CoreTools == <<[name |-> "search", aliases |-> {"s"}, perm |-> "user", valid |-> TRUE], [name |-> "role", aliases |-> {}, perm |-> "owner", valid |-> TRUE]>>
SessionScene(budget) == Parts @@ [part |-> "console", left |-> budget]
RegistryScene(placed, plugins, granted, owner, budget) ==
  [Parts EXCEPT !.disk = placed, !.files = <<"f", "g">>, !.plugins = plugins, !.core = CoreTools, !.permits = granted, !.owner = owner] @@ [part |-> "console", left |-> budget]
Taking == Plug("s", {}, "user", None)
Claiming == Plug("top", {}, "admin", Declares({"user"}))
Reviewed == Plug("old", {"role"}, "premium", Declares({"premium"}))
Careless == [Reviewed EXCEPT !.tools = Append(@, [name |-> "no command", aliases |-> {}, perm |-> "owner", valid |-> FALSE])]
Managing == Plug("boss", {"b"}, "admin", Declares({"admin", "user"}))
Disabled == Plug("off", {}, "user", [perms |-> {"user"}, enabled |-> FALSE])

HealthScene(kinds, budget) == [Parts EXCEPT !.kinds = kinds] @@ [part |-> "health", left |-> budget]

PrivilegeScene(overrides0, values, budget) == [Parts EXCEPT !.overrides = overrides0, !.values = values] @@ [part |-> "privileges", left |-> budget]

(* Tasks: in rooms where the operator lets them run, and with few turns.   *)
Text(kind, name) == [kind |-> kind, name |-> name, tool |-> IF kind = "command" THEN name ELSE None]
TaskPolicy == [enabled |-> TRUE, rooms |-> {"r", "q"}, perDay |-> 3, perRoom |-> 2, denied |-> {"quiz"}]
TaskTools == ("look" :> [mutates |-> FALSE, level |-> "user"]) @@ ("quiz" :> [mutates |-> FALSE, level |-> "user"])
          @@ ("note" :> [mutates |-> TRUE, level |-> "user"]) @@ ("rule" :> [mutates |-> TRUE, level |-> "owner"])
Ask(kind, name, days, repeats) == [text |-> Text(kind, name), days |-> days, repeats |-> repeats]
AgendaScene(pol, where, asks, limit, budget) == [Parts EXCEPT !.tasks = [policy |-> pol, tools |-> TaskTools, asks |-> asks, rooms |-> where, limit |-> limit]] @@ [part |-> "tasks", left |-> budget]

(* Programs: w1 and w2 of one kind, and one that only reads what it is given. *)
Converts(signal) == [kind |-> "ffmpeg", dir |-> TRUE, signal |-> signal]
Piped(signal) == [kind |-> "ffmpeg", dir |-> FALSE, signal |-> signal]
Probes == [kind |-> "ffprobe", dir |-> FALSE, signal |-> FALSE]
ProgramScene(works, budget) == [Parts EXCEPT !.works = works] @@ [part |-> "programs", left |-> budget]
Permits2 == ("ffmpeg" :> 1) @@ ("ffprobe" :> 2)

(* Cadences: set on one day for a time on another, over both changes of    *)
(* the clock, served on time, a little late, or after days.                *)
Lengths12 == <<7, 5, 7, 6, 7, 6, 7>>
CalendarScene(kind, every, created, first) ==
  [Parts EXCEPT !.cadence = [kind |-> kind, every |-> every, created |-> created, first |-> first, late |-> {0, 1, 9, 30}]] @@ [part |-> "calendar", left |-> [recur |-> 4]]
Cadences == {CalendarScene("days", 1, 0, 4 * 8 + h) : h \in 0 .. 3} \cup {CalendarScene("days", 3, 0, 4 * 6 + h) : h \in 0 .. 3}
       \cup {CalendarScene("interval", 5, 0, 30), CalendarScene("monthly", 0, 4 * 6, 4 * 6 + 2), CalendarScene("monthly", 0, 4 * 5, 4 * 8 + 1), CalendarScene("monthly", 0, 0, 4 * 3)}

(* Commands: the tools as they are, with some of their actions.            *)
AnyText == [type |-> "string", enum |-> <<>>, beyond |-> {}]
OneOf(options) == [AnyText EXCEPT !.enum = options]
Of(type) == [AnyText EXCEPT !.type = type]
Takes(args, needs) == [args |-> args, needs |-> needs]
RoleTool == [NoTool EXCEPT !.keys = <<"action", "user", "role", "scope", "field", "value">>, !.required = {"action"}, !.alone = {"role"}, !.infers = ("role" :> "check"),
  !.params = ("action" :> OneOf(<<"grant", "check", "list", "setpriv">>) @@ "user" :> AnyText @@ "role" :> OneOf(<<"user", "admin">>) @@ "scope" :> AnyText @@ "field" :> OneOf(<<"maxDownloadMb">>) @@ "value" :> AnyText),
  !.grammar = ("check" :> Takes(<<"user">>, {}) @@ "list" :> Takes(<<"scope">>, {}) @@ "grant" :> Takes(<<"user", "role", "scope">>, {"user", "role"})
               @@ "setpriv" :> Takes(<<"role", "field", "value">>, {"role", "field", "value"}))]
MemoryTool == [NoTool EXCEPT !.keys = <<"action", "content", "id", "scope", "consent">>, !.required = {"action"}, !.infers = ("remember" :> "store" @@ "forget" :> "forget"),
  !.params = ("action" :> OneOf(<<"consent", "store", "forget">>) @@ "content" :> [AnyText EXCEPT !.beyond = {"too long"}] @@ "id" :> AnyText @@ "scope" :> OneOf(<<"private", "group">>) @@ "consent" :> Of("boolean")),
  !.grammar = ("consent" :> Takes(<<"scope">>, {}) @@ "store" :> Takes(<<"content", "scope", "consent">>, {"content"}) @@ "forget" :> Takes(<<"id">>, {"id"})),
  !.needs = ("store" :> {"content"} @@ "forget" :> {"id"}), !.offers = {"action", "content", "scope", "consent"}]
RequestTool == [NoTool EXCEPT !.keys = <<"action", "media_type", "media_id", "seasons", "request_id">>, !.required = {"action"}, !.infers = ("request" :> "request" @@ "status" :> "status"),
  !.params = ("action" :> OneOf(<<"request", "status", "my-requests">>) @@ "media_type" :> OneOf(<<"movie", "tv">>) @@ "media_id" :> [Of("integer") EXCEPT !.beyond = {"0"}] @@ "seasons" :> AnyText @@ "request_id" :> Of("integer")),
  !.grammar = ("request" :> Takes(<<"media_type", "media_id", "seasons">>, {"media_type", "media_id"}) @@ "status" :> Takes(<<"request_id">>, {"request_id"}) @@ "my-requests" :> Takes(<<>>, {})),
  !.needs = ("request" :> {"media_type", "media_id"} @@ "status" :> {"request_id"}), !.offers = {"action", "media_id", "request_id"}]
SearchTool == [NoTool EXCEPT !.keys = <<"action", "query", "media_type", "media_id">>, !.required = {"action"}, !.alone = {"find"}, !.infers = ("find" :> "trending"), !.infersWith = ("find" :> "search"),
  !.params = ("action" :> OneOf(<<"search", "trending">>) @@ "query" :> AnyText @@ "media_type" :> OneOf(<<"movie", "tv">>) @@ "media_id" :> Of("number"))]
ReminderTool == [NoTool EXCEPT !.keys = <<"action", "time", "message", "number">>, !.required = {"action"}, !.infers = ("remind" :> "set"), !.tables = ("list" :> <<>> @@ "cancel" :> <<"number">>),
  !.params = ("action" :> OneOf(<<"set", "list", "cancel">>) @@ "time" :> AnyText @@ "message" :> AnyText @@ "number" :> AnyText)]
SpeakTool == [NoTool EXCEPT !.keys = <<"text", "voice">>, !.required = {"text"}, !.params = ("text" :> [AnyText EXCEPT !.beyond = {"too long"}] @@ "voice" :> AnyText)]
PairTool == [NoTool EXCEPT !.keys = <<"username", "age", "active">>, !.required = {"username", "age"}, !.params = ("username" :> AnyText @@ "age" :> Of("number") @@ "active" :> Of("boolean"))]
LookTool == [NoTool EXCEPT !.keys = <<"query">>, !.required = {"query"}, !.params = ("query" :> AnyText)]

W(text) == [name |-> None, text |-> text]
CommandScene(t, typed, words, named, longest) ==
  [Parts EXCEPT !.tool = t, !.commands = typed, !.vocabulary = {W(x) : x \in words} \cup named, !.longest = longest] @@ [part |-> "commands", left |-> [type |-> 1]]
CallScene(t, values) == [Parts EXCEPT !.tool = t, !.values = values] @@ [part |-> "commands", left |-> [call |-> 1]]
Sent(type, text) == [type |-> type, words |-> <<W(text)>>]
Spoken ==
  {CommandScene(RoleTool, {"role", "grant"}, {"grant", "GRANT", "check", "bob", "Admin", "list"}, {[name |-> "role", text |-> "admin"]}, 4),
   CommandScene(RoleTool, {"roles"}, {"setpriv", "admin", "maxDownloadMb", "5"}, {[name |-> "value", text |-> "5"]}, 4),
   CommandScene(MemoryTool, {"remember", "forget", "memory"}, {"store", "milk", "group", "yes", "too long"}, {[name |-> "scope", text |-> "group"], [name |-> "consent", text |-> "yes"], [name |-> "id", text |-> "5"]}, 3),
   CommandScene(RequestTool, {"request", "status", "my-requests"}, {"status", "tv", "5", "0", "1.5", "x"}, {[name |-> "media_id", text |-> "5"]}, 3),
   CommandScene(SearchTool, {"find", "search", "other"}, {"trending", "tv", "5", "x"}, {}, 3),
   CommandScene(ReminderTool, {"remind", "reminders"}, {"set", "list", "cancel", "5", "x"}, {}, 3),
   CommandScene(SpeakTool, {"speak"}, {"x", "too long"}, {[name |-> "voice", text |-> "x"]}, 3), CommandScene(LookTool, {"look"}, {"x", "5"}, {}, 3),
   CommandScene(PairTool, {"pair"}, {"bob", "5", "1.5", "yes", "x"}, {}, 4), CommandScene(NoTool, {"ping"}, {"x"}, {}, 2),
   CallScene(MemoryTool, {Sent("string", "store"), Sent("string", "consent"), Sent("string", "group"), Sent("boolean", "yes"), Sent("null", "x")}),
   CallScene(RequestTool, {Sent("string", "status"), Sent("string", "5"), Sent("number", "5"), Sent("number", "1.5"), Sent("number", "0")})}
Texts == {"grant", "GRANT", "check", "list", "setpriv", "bob", "user", "admin", "Admin", "maxDownloadMb", "5", "0", "1.5", "x", "consent", "store", "forget", "milk", "private", "group", "yes",
          "too long", "request", "status", "my-requests", "movie", "tv", "search", "trending", "set", "cancel"}
LowerCase == [t \in Texts |-> CASE t = "GRANT" -> "grant" [] t = "Admin" -> "admin" [] OTHER -> t]
Letters == {"a", " ", "'", "\"", "\\"}

PermissionLevels == <<"user", "premium", "admin", "owner">>

Cast == Cadences \cup Spoken \cup
  {StoreScene(At2(1), (1 :> 1 @@ 2 :> 2), 1, [open |-> 3, crash |-> 1, tick |-> 4, stall |-> 1]),
   StoreScene(Blank, (1 :> 2 @@ 2 :> 2), 1, [open |-> 3, crash |-> 1, tick |-> 4, write |-> 1]),
   StoreScene([At2(1) EXCEPT !.orphans = TRUE], (1 :> 2), 1, [open |-> 2]),
   StoreScene([Blank EXCEPT !.schema = 1], (1 :> 2), 1, [open |-> 1]),
   StoreScene(At2(2), (1 :> 2), 1, [backup |-> 3, crash |-> 1, tick |-> 1, rot |-> 1]),
   StoreScene(At2(2), (1 :> 2), 2, [backup |-> 3, tick |-> 2, restore |-> 1]),
   StoreScene(At2(2), (1 :> 2), 1, [backup |-> 2, rot |-> 1, restore |-> 1, open |-> 1, write |-> 1]),
   FilingScene({}, {"r"}, {<<<<"r", 1>>, <<"q", 2>>, <<"r", 2>>>>}, [turn |-> 2, sync |-> 1, register |-> 1, record |-> 1]),
   FilingScene({"r"}, {}, {<<<<"r", 1>>, <<"q", 2>>, <<"r", 2>>>>}, [turn |-> 1, sync |-> 2, register |-> 1, busy |-> 1]),
   MediaScene(2, 2, {1, 2}, FALSE, [save |-> 3, clean |-> 1]),
   MediaScene(3, 3, {1, 2}, FALSE, [save |-> 3, discard |-> 1]),
   MediaScene(3, 2, {1, 2, 4}, FALSE, [save |-> 3, stuck |-> 1, busy |-> 1, clean |-> 1]),
   MediaScene(2, 2, {1}, TRUE, [save |-> 3, tick |-> 2, clean |-> 1]),
   MediaScene(-1, 1, {1}, FALSE, [save |-> 2, clean |-> 1, tick |-> 3]),
   MediaScene(-1, 1, {1}, FALSE, [save |-> 1, clean |-> 1, tick |-> 3, crash |-> 1]),
   SummaryScene([ask |-> 3, chat |-> 4, fail |-> 1]),
   SummaryScene([ask |-> 3, chat |-> 3, retain |-> 1]),
   SummaryScene([ask |-> 4, chat |-> 1, late |-> 1]),
   LibraryScene({<<t>> : t \in {1, 6, 8}}, 4, [index |-> 2, refuse |-> 1]),
   LibraryScene(Lengths, 9, [index |-> 1]),
   MemoryScene("m1", [index |-> 1, search |-> 1, remove |-> 1, tick |-> 1]),
   MemoryScene("m1", [index |-> 1, halt |-> 1, backfill |-> 1, search |-> 1]),
   MemoryScene("m1", [grant |-> 1, revoke |-> 1, store |-> 2, busy |-> 1]),
   MemoryScene("m1", [grant |-> 1, revoke |-> 1, store |-> 1, halt |-> 1]),
   MemoryScene("m1", [store |-> 2, search |-> 1, remove |-> 1]),
   RetentionScene([sweep |-> 2, crash |-> 1, tick |-> 2]),
   SessionScene([login |-> 4, guess |-> 1, logout |-> 1, visit |-> 1, tick |-> 3]),
   RegistryScene(("f" :> Taking @@ "g" :> None), {Claiming, Careless}, {}, TRUE, [deploy |-> 2, reload |-> 2, login |-> 1]),
   RegistryScene(("f" :> Managing @@ "g" :> Disabled), {Claiming, Plug("t", {"t2"}, "user", None)}, {"admin", "user"}, FALSE, [login |-> 2, reload |-> 2, logout |-> 1, visit |-> 1, deploy |-> 1]),
   PrivilegeScene(<<>>, {5}, [look |-> 2, set |-> 1]),
   PrivilegeScene(<<>>, {5}, [look |-> 1, set |-> 1, tick |-> 1]),
   PrivilegeScene(<<>>, {5}, [look |-> 1, set |-> 2]),
   PrivilegeScene("user" :> [max |-> 5, window |-> None], {None}, [look |-> 1, set |-> 1, reset |-> 1, fail |-> 1]),
   PrivilegeScene("user" :> [max |-> 5, window |-> None], {7}, [look |-> 1, set |-> 1, show |-> 1]),
   HealthScene(("web" :> "http" @@ "bin" :> "process"), [start |-> 2, stop |-> 1, interval |-> 4]),
   HealthScene(("web" :> "unkeyed" @@ "bin" :> "unset"), [start |-> 1, interval |-> 2]),
   HealthScene(<<>>, [request |-> 5]),
   HealthScene(<<>>, [send |-> 2, react |-> 5, tick |-> 1]),
   AgendaScene(TaskPolicy, {"r"}, {Ask("note","n", 0, FALSE), Ask("note", "n", 1, FALSE)}, 2, [add |-> 4, cancel |-> 1, fire |-> 1]),
   AgendaScene(TaskPolicy, {"r","q"}, {Ask("note","n", 0, FALSE)}, 1, [add |-> 4, cancel |-> 1]),
   AgendaScene(TaskPolicy, {"r", "q"}, {Ask("ask","a",0,FALSE), Ask("ask","a",0,TRUE)}, 2, [add |-> 2, fire |-> 3, timeout |-> 1, tick |-> 1]),
   AgendaScene([TaskPolicy EXCEPT !.rooms = {"r"}], {"r", "q"}, {Ask("ask","a",0,TRUE), Ask("command","note",0,FALSE)}, 2, [add |-> 1, call |-> 2, fire |-> 3, timeout |-> 1, restart |-> 1]),
   ProgramScene((1 :> Converts(TRUE) @@ 2 :> Converts(FALSE)), [signal |-> 1, timeout |-> 1, talk |-> 1, exit |-> 1]),
   ProgramScene((1 :> Piped(TRUE) @@ 2 :> Piped(FALSE) @@ 3 :> Piped(TRUE)), [signal |-> 2, exit |-> 1]),
   ProgramScene((1 :> Probes @@ 2 :> Probes @@ 3 :> Probes), [timeout |-> 1, talk |-> 1])}

CastTasks == {AgendaScene(TaskPolicy, {"r"}, {Ask("ask", "a", 0, TRUE)}, 2, [add |-> 1, fire |-> 2, tick |-> 1])}
=============================================================================
