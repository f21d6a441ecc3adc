------------------------------- MODULE Tasks -------------------------------
(***************************************************************************)
(* The agenda users keep with tools/ReminderTool.ts, and the reminders     *)
(* among them that are instructions: scheduledTasks.ts and what AppRuntime *)
(* makes of them, a turn with nobody watching.  How the scheduler claims   *)
(* and retries its rows is in Scheduler; here it works on one at a time.   *)
(*                                                                         *)
(* A text is [kind, name, tool]: a note, a task for the model, or a task   *)
(* that is a command for the tool.  The time is counted in days, and what  *)
(* recurs does so daily; which day and hour other cadences mean is in the  *)
(* part on the calendar.                                                   *)
(***************************************************************************)
EXTENDS Stage, SequencesExt

CONSTANTS
  Owners, TaskRooms,
  Horizon            \* MAX_REMINDER_HORIZON_MS, in days

VARIABLES
  agenda,      \* active reminders: [id, owner, room, at, text, repeats]
  lastId,
  firing,      \* the reminder the scheduler is busy with, or None
  runs,        \* turns of tasks: [of, row, step, aborted]
  taskBudget,  \* runsByDay: [day, total, byRoom]
  transcript,  \* provider ids of the messages stored for tasks
  cancels,     \* (history) [row, owner, room, n, ids]
  admissions,  \* (history) runs begun by this process: [of, day, room]
  effects,     \* (history) [run, what]
  echoed       \* (history) a task was taken for a duplicate

tasksVars == <<agenda, lastId, firing, runs, taskBudget, transcript, cancels, admissions, effects, echoed>>

policy == scene.tasks.policy     \* readScheduledTaskPolicy
toolbox == scene.tasks.tools     \* name -> [mutates, level]

NoRuns(day) == [day |-> day, total |-> 0, byRoom |-> [r \in TaskRooms |-> 0]]

TasksInit ==
  /\ agenda = {} /\ lastId = 0 /\ firing = None /\ runs = {} /\ taskBudget = NoRuns(0)
  /\ transcript = {} /\ cancels = {} /\ admissions = {} /\ effects = {} /\ echoed = FALSE
-----------------------------------------------------------------------------
(* Those of a sender in a room, the next one first. *)
Listed(owner, room) ==
  LET mine == {x \in agenda : x.owner = owner /\ x.room = room}
  IN  SetToSortSeq(mine, LAMBDA x, y : x.at < y.at \/ (x.at = y.at /\ x.id < y.id))

(* parseRelativeTime: none too soon or beyond the horizon. *)
ParsedTime(days) == IF days \in 0 .. Horizon THEN now + days ELSE None

(* Mutant of MayAdd: one more than the limit. *)
MayAddOneMore(owner, room) == Len(Listed(owner, room)) <= scene.tasks.limit

MayAdd(owner, room) == Len(Listed(owner, room)) < scene.tasks.limit

Reminder(id, owner, room, text, days, repeats) ==
  [id |-> id, owner |-> owner, room |-> room, at |-> ParsedTime(days), text |-> text, repeats |-> repeats]

AddReminder(owner, room, text, days, repeats) ==
  /\ Spend("add") /\ ParsedTime(days) # None /\ MayAdd(owner, room)
  /\ lastId' = lastId + 1
  /\ agenda' = agenda \cup {Reminder(lastId + 1, owner, room, text, days, repeats)}
  /\ UNCHANGED <<firing, runs, taskBudget, transcript, cancels, admissions, effects, echoed>>

(* Mutant of Chosen: the place in the list comes before the id. *)
ChosenByPlace(list, n) ==
  IF n <= Len(list) THEN {list[n]} ELSE {x \in ToSet(list) : x.id = n}

(* A number is an id, or else a place in the list. *)
Chosen(list, n) ==
  IF \E x \in ToSet(list) : x.id = n THEN {x \in ToSet(list) : x.id = n}
  ELSE IF n <= Len(list) THEN {list[n]} ELSE {}

CancelReminder(owner, room, n) ==
  LET list == Listed(owner, room)
  IN  /\ Spend("cancel")
      /\ agenda' = agenda \ Chosen(list, n)
      /\ cancels' = (cancels \cup {[row |-> x, owner |-> owner, room |-> room, n |-> n, ids |-> {y.id : y \in ToSet(list)}] : x \in Chosen(list, n)})
      /\ UNCHANGED <<lastId, firing, runs, taskBudget, transcript, admissions, effects, echoed>>
-----------------------------------------------------------------------------
(* The only day kept is today. *)
TodaysRuns == IF taskBudget.day = now THEN taskBudget ELSE NoRuns(now)

Permits(room) ==
  /\ policy.enabled /\ room \in policy.rooms
  /\ TodaysRuns.total < policy.perDay /\ TodaysRuns.byRoom[room] < policy.perRoom

(* Mutant of Charge: a room's runs are not counted. *)
ChargeTotal(room) == [TodaysRuns EXCEPT !.total = @ + 1]

Charge(room) == [TodaysRuns EXCEPT !.total = @ + 1, !.byRoom[room] = @ + 1]

IsTask(text) == text.kind # "note" /\ policy.enabled /\ policy.rooms # {}

(* The scheduler's update of the row, if it is still there. *)
Served(x) == IF x \notin agenda THEN agenda
             ELSE (agenda \ {x}) \cup (IF x.repeats THEN {[x EXCEPT !.at = now + 1]} ELSE {})

(* A note is sent.  A task is charged to the budget; then it needs a       *)
(* provider that is up.  One refused is as good as done.                   *)
FireReminder(x, up) ==
  /\ firing = None /\ x \in agenda /\ x.at <= now /\ Spend("fire")
  /\ IF ~IsTask(x.text) \/ ~Permits(x.room)
     THEN taskBudget' = (IF IsTask(x.text) THEN TodaysRuns ELSE taskBudget) /\ agenda' = Served(x) /\ UNCHANGED <<firing, runs, admissions>>
     ELSE /\ taskBudget' = Charge(x.room)
          /\ IF ~up THEN agenda' = Served(x) /\ UNCHANGED <<firing, runs, admissions>>
             ELSE /\ firing' = Spent("fire") + 1 /\ UNCHANGED agenda
                  /\ runs' = runs \cup {[of |-> Spent("fire") + 1, row |-> x, step |-> "new", aborted |-> FALSE]}
                  /\ admissions' = admissions \cup {[of |-> Spent("fire") + 1, day |-> now, room |-> x.room]}
  /\ UNCHANGED <<lastId, transcript, cancels, effects, echoed>>

(* scheduledTaskMessageId: made of the room and the instruction. *)
MessageId(run) == <<run.row.room, run.row.text>>

(* Its turn ends: the scheduler hears of it unless it gave up waiting.     *)
Ends(run) ==
  /\ runs' = runs \ {run}
  /\ IF firing = run.of THEN firing' = None /\ agenda' = Served(run.row) ELSE UNCHANGED <<firing, agenda>>

(* A command goes to its tool, an instruction for the model is stored      *)
(* first, as an event that may be told twice.                              *)
EnterTurn(run) ==
  /\ run.step = "new"
  /\ IF run.row.text.kind = "command"
     THEN runs' = (runs \ {run}) \cup {[run EXCEPT !.step = "command"]} /\ UNCHANGED <<firing, agenda, transcript, echoed>>
     ELSE IF MessageId(run) \in transcript THEN Ends(run) /\ echoed' = TRUE /\ UNCHANGED transcript
     ELSE /\ transcript' = transcript \cup {MessageId(run)} /\ UNCHANGED <<firing, agenda, echoed>>
          /\ runs' = (runs \ {run}) \cup {[run EXCEPT !.step = "model"]}
  /\ UNCHANGED <<stage, lastId, taskBudget, cancels, admissions, effects>>

(* Mutant of Offered: only the operator's own exclusions count. *)
OfferedUnlessNamed(run) == {t \in DOMAIN toolbox : toolbox[t].level = "user"} \ policy.denied

(* What the model may call: nothing that changes state.  A command needs   *)
(* no more than the role everyone has.                                     *)
Offered(run) ==
  IF run.step = "command" THEN {t \in {run.row.text.tool} : toolbox[t].level = "user"}
  ELSE {t \in DOMAIN toolbox : toolbox[t].level = "user" /\ ~toolbox[t].mutates} \ policy.denied

CallTool(run, t) ==
  /\ run.step \in {"model", "command"} /\ ~run.aborted /\ t \in Offered(run) /\ Spend("call")
  /\ effects' = (effects \cup {[run |-> run, what |-> t]})
  /\ UNCHANGED <<agenda, lastId, firing, runs, taskBudget, transcript, cancels, admissions, echoed>>

(* The answer is shown, unless its time is over. *)
FinishTurn(run) ==
  /\ run.step \in {"model", "command"} /\ Ends(run)
  /\ effects' = IF run.aborted THEN effects ELSE effects \cup {[run |-> run, what |-> "say"]}
  /\ UNCHANGED <<stage, lastId, taskBudget, transcript, cancels, admissions, echoed>>

(* The scheduler stops waiting; it will try the reminder again.            *)
TaskTimeout(run) ==
  /\ firing = run.of /\ Spend("timeout")
  /\ firing' = None /\ runs' = (runs \ {run}) \cup {[run EXCEPT !.aborted = TRUE]}
  /\ UNCHANGED <<agenda, lastId, taskBudget, transcript, cancels, admissions, effects, echoed>>

Restart ==
  /\ Spend("restart") /\ firing' = None /\ runs' = {} /\ taskBudget' = NoRuns(now) /\ admissions' = {}
  /\ UNCHANGED <<agenda, lastId, transcript, cancels, effects, echoed>>

TasksNext ==
  \/ \E owner \in Owners, room \in scene.tasks.rooms :
       \/ \E ask \in scene.tasks.asks : AddReminder(owner, room, ask.text, ask.days, ask.repeats)
       \/ \E n \in 1 .. lastId : CancelReminder(owner, room, n)
  \/ \E x \in agenda, up \in BOOLEAN : FireReminder(x, up)
  \/ \E run \in runs : EnterTurn(run) \/ FinishTurn(run) \/ TaskTimeout(run) \/ \E t \in DOMAIN toolbox : CallTool(run, t)
  \/ Restart
  \/ Tick /\ UNCHANGED tasksVars
-----------------------------------------------------------------------------
(* When a reminder that recurs comes due again (computeNextOccurrence).    *)
(* Instants are hours; the local clock skips the hour Turn on the day      *)
(* Spring, and shows the one before Turn twice on the day Autumn.  A day   *)
(* is counted from the start of the first month.                           *)
CONSTANTS
  Months,        \* the lengths of the months, in days
  Hours,         \* of a day
  Spring, Autumn, Turn,
  CatchUp        \* MAX_CATCHUP_STEPS

ASSUME CalendarAssumption ==
  /\ Months \in Seq(Nat \ {0}) /\ {Spring, Autumn, CatchUp} \subseteq Nat /\ Hours \in Nat \ {0}
  /\ Spring < Autumn /\ Turn \in 1 .. Hours - 2

VARIABLE cadence \* [kind, every, anchor, hour, at, was, served]: was came due, and was served, before at

calendarVars == <<cadence>>

(* What the Date of a local day and hour is; one skipped is an hour later. *)
InSummer(day, hour) ==
  (day > Spring \/ (day = Spring /\ hour > Turn)) /\ (day < Autumn \/ (day = Autumn /\ hour < Turn))
Instant(day, hour) == day * Hours + hour - IF InSummer(day, hour) THEN 1 ELSE 0

Local(t) == IF t \in Spring * Hours + Turn .. Autumn * Hours + Turn - 2 THEN t + 1 ELSE t
DayOf(t) == Local(t) \div Hours
HourOf(t) == Local(t) % Hours

FirstDay(m) == FoldSeq(+, 0, SubSeq(Months, 1, m - 1))
MonthOf(t) == CHOOSE m \in 1 .. Len(Months) : DayOf(t) \in FirstDay(m) .. FirstDay(m) + Months[m] - 1
DayOfMonth(t) == DayOf(t) - FirstDay(MonthOf(t)) + 1

(* addCalendarDays *)
AddDays(t, days) == Instant(DayOf(t) + days, HourOf(t))

(* The next one after now, as far as CatchUp steps reach. *)
NextByDays(t, days, at) ==
  LET First == IF AddDays(t, days) > at THEN AddDays(t, days) ELSE AddDays(AddDays(t, days), days)
      Step[n \in 0 .. CatchUp] == IF n = 0 THEN First ELSE IF Step[n - 1] > at THEN Step[n - 1] ELSE AddDays(Step[n - 1], days)
  IN  Step[CatchUp]

InMonth(m, anchor, hour) == Instant(FirstDay(m) + (IF anchor < Months[m] THEN anchor ELSE Months[m]) - 1, hour)

(* nextMonthly; the calendar of the model ends. *)
NextMonthly(t, anchor, at) ==
  LET later == {m \in MonthOf(t) + 1 .. Len(Months) : InMonth(m, anchor, HourOf(t)) > at}
  IN  IF later = {} THEN None ELSE InMonth(CHOOSE m \in later : \A k \in later : m <= k, anchor, HourOf(t))

(* Whole intervals after t, which is not after now. *)
NextByInterval(t, every, at) == t + every * ((at - t) \div every + 1)

NextOccurrence(c, at) ==
  CASE c.kind = "monthly" -> NextMonthly(c.at, c.anchor, at)
    [] c.kind = "days" -> NextByDays(c.at, c.every, at)
    [] c.kind = "interval" -> NextByInterval(c.at, c.every, at)

(* It is set; a month's anchor is the day on which that is done. *)
CalendarInit ==
  cadence = [kind |-> scene.cadence.kind, every |-> scene.cadence.every, at |-> scene.cadence.first, was |-> None, served |-> None,
             anchor |-> DayOfMonth(scene.cadence.created), hour |-> HourOf(scene.cadence.first)]

(* It is served, on time or when the process is up again. *)
Recur(late) ==
  /\ cadence.at # None /\ Spend("recur")
  /\ cadence' = [cadence EXCEPT !.was = cadence.at, !.served = cadence.at + late, !.at = NextOccurrence(cadence, cadence.at + late)]

CalendarNext == \E late \in scene.cadence.late : Recur(late)
-----------------------------------------------------------------------------
(* However reminders are added, served and cancelled: a sender has no more *)
(* of them in a room than the limit, cancels nobody else's, and the number *)
(* of one that is active removes that one (ReminderTool.ts:296-372).       *)
AgendaKept ==
  /\ \A owner \in Owners, room \in TaskRooms : Len(Listed(owner, room)) <= scene.tasks.limit
  /\ \A c \in cancels : /\ c.row.owner = c.owner /\ c.row.room = c.room
                        /\ c.n \in c.ids => c.row.id = c.n

(* With nobody watching: no more turns in a day, and in a room, than the   *)
(* operator allowed, as long as the process lives; none elsewhere; the     *)
(* model never changes anything; nothing is said once the time is over     *)
(* (scheduledTasks.ts:84-127, AppRuntime.ts:657-763).                      *)
TasksBounded ==
  /\ \A d \in 0 .. now :
       LET today == {a \in admissions : a.day = d}
       IN  /\ Cardinality(today) <= policy.perDay
           /\ \A room \in TaskRooms : Cardinality({a \in today : a.room = room}) <= IF room \in policy.rooms THEN policy.perRoom ELSE 0
  /\ \A e \in effects : /\ ~e.run.aborted
                        /\ (e.run.step = "model" /\ e.what # "say") => ~toolbox[e.what].mutates /\ e.what \notin policy.denied

(* A reminder that recurs comes due next at the first time of its cadence  *)
(* after it was served, whatever was slept through: the hour is the one    *)
(* it was set for before and after the clock changes, save the hour that   *)
(* is skipped; a month that is too short does not move the day, which is   *)
(* that of its creation.  Only more days than CatchUp leave it overdue     *)
(* (Scheduler.ts:119-236 and 389-405).                                     *)
CadenceKept ==
  LET c == cadence
  IN  c.was # None /\ c.at # None =>
        /\ c.kind # "interval" => HourOf(c.at) = c.hour \/ (c.hour = Turn /\ DayOf(c.at) >= Spring)
        /\ c.kind = "monthly" =>
             /\ c.at > c.served
             /\ DayOfMonth(c.at) = IF c.anchor < Months[MonthOf(c.at)] THEN c.anchor ELSE Months[MonthOf(c.at)]
             /\ \A m \in MonthOf(c.was) + 1 .. MonthOf(c.at) - 1 : InMonth(m, c.anchor, HourOf(c.was)) <= c.served
        /\ c.kind = "days" =>
             LET days == DayOf(c.at) - DayOf(c.was)
             IN  /\ days % c.every = 0 /\ days > 0
                 /\ c.at > c.served \/ days = c.every * (CatchUp + 2)
                 /\ days > c.every => Instant(DayOf(c.at) - c.every, c.hour) <= c.served
        /\ c.kind = "interval" => (c.at - c.was) % c.every = 0 /\ c.at > c.served /\ c.at - c.every <= c.served

(* architecture.md:61: a task "is executed as an agent turn in its room at *)
(* fire time".  The id of its message says nothing of the time             *)
(* (AppRuntime.ts:146-157).                                                *)
TasksRun == ~echoed

(* Reminders are their owner's, tasks do what the operator allowed, and    *)
(* what recurs does so when it should.                                     *)
TasksKept == AgendaKept /\ TasksBounded /\ CadenceKept
=============================================================================
