------------------------------ MODULE Scheduler ------------------------------
(***************************************************************************)
(* Reminders: src/utils/Scheduler.ts and the tool that sets and cancels    *)
(* them, src/tools/ReminderTool.ts.                                        *)
(*                                                                         *)
(* A timer selects the due reminders and works through that batch one at a *)
(* time, awaiting a send for each.  While it awaits, users set and cancel  *)
(* reminders; a crash loses the batch and the retry counters, which are in *)
(* memory, but no row.  Between two awaits the code runs to completion, so *)
(* a claim and the start of the send it is for are one action.             *)
(*                                                                         *)
(* A reminder whose text is an agent task runs the agent instead of a      *)
(* send; its runner swallows every error but the timeout, so to the row it *)
(* is a send that may be acknowledged without having been shown.           *)
(***************************************************************************)
EXTENDS Integers, FiniteSets

CONSTANTS
  Reminders,    \* rows, by id; ids are never used again
  Recurring,    \* reminders with a recurrence
  Mismatched,   \* reminders whose room key and room id disagree
  Platforms,
  PlatformOf,
  Interval,     \* the recurrence, and the length of a schedule's period
  Delays,       \* how far ahead a user may set a reminder
  Stale,        \* STALE_CLAIM_MS
  SendTimeout,  \* SEND_TIMEOUT_MS, or the timeout of a task
  Backoff,      \* delay before another attempt
  MaxAttempts,  \* MAX_DELIVERY_ATTEMPTS
  MaxBatch,     \* MAX_BATCH_SIZE
  MaxTime,      \* bound: ticks of the clock
  MaxCrashes    \* bound: crashes of the process

ASSUME SchedulerAssumption ==
  /\ Recurring \subseteq Reminders /\ Mismatched \subseteq Reminders
  /\ PlatformOf \in [Reminders -> Platforms]
  /\ {Interval, Stale, SendTimeout, Backoff, MaxAttempts, MaxBatch} \subseteq Nat \ {0}
  /\ Delays \subseteq Nat \ {0}
  /\ {MaxTime, MaxCrashes} \subseteq Nat

VARIABLES
  rows,       \* table reminders
  due,        \* what is left of the batch, as it was selected
  working,    \* Scheduler.processing
  send,       \* the send that is awaited, if any
  attempts,   \* retryAttempts
  senders,    \* platforms with a registered sender
  stopped,
  now,
  crashes,
  first,      \* history: when each reminder was set to fire first
  cancelled,  \* history: reminders a user cancelled
  rebased,    \* history: reminders deferred for want of a sender
  retryAt,    \* history: when the last failure allows another attempt
  served      \* history: the period of the last acknowledged send

schedulerVars ==
  <<rows, due, working, send, attempts, senders, stopped, now, crashes,
    first, cancelled, rebased, retryAt, served>>

(* A reminder without a claim counts as claimed long ago. *)
Unclaimed == 0 - Stale

Row == [at : Nat, sent : BOOLEAN, claimedAt : Int]

Selected == [of : Reminders, at : Nat]

Send == [of : Reminders, at : Nat, timer : 0..SendTimeout]

(* The period of a reminder's schedule that the clock is in.               *)
Period(r) == IF r \in Recurring THEN (now - first[r]) \div Interval ELSE 0

-----------------------------------------------------------------------------
SchedulerInit ==
  /\ rows = [r \in {} |-> {}]
  /\ due = {} /\ working = FALSE /\ send = {}
  /\ attempts = [r \in Reminders |-> 0]
  /\ senders \in SUBSET Platforms
  /\ stopped = FALSE
  /\ now = 0 /\ crashes = 0
  /\ first = [r \in {} |-> 0]
  /\ cancelled = {} /\ rebased = {}
  /\ retryAt = [r \in Reminders |-> 0]
  /\ served = [r \in Reminders |-> 0 - 1]

(* ReminderTool, action set.                                               *)
SetReminder(r) ==
  /\ r \notin DOMAIN first
  /\ \E d \in Delays :
       /\ rows' = [x \in DOMAIN rows \cup {r} |->
            IF x = r THEN [at |-> now + d, sent |-> FALSE, claimedAt |-> Unclaimed]
            ELSE rows[x]]
       /\ first' = [x \in DOMAIN first \cup {r} |-> IF x = r THEN now + d ELSE first[x]]
  /\ UNCHANGED <<due, working, send, attempts, senders, stopped, now, crashes,
                 cancelled, rebased, retryAt, served>>

(* ReminderTool, action cancel: it finds active reminders only.            *)
Cancel(r) ==
  /\ r \in DOMAIN rows /\ ~rows[r].sent
  /\ rows' = [x \in DOMAIN rows \ {r} |-> rows[x]]
  /\ cancelled' = cancelled \cup {r}
  /\ UNCHANGED <<due, working, send, attempts, senders, stopped, now, crashes,
                 first, rebased, retryAt, served>>

-----------------------------------------------------------------------------
Selectable(r) ==
  /\ rows[r].at <= now /\ ~rows[r].sent
  /\ rows[r].claimedAt <= now - Stale

(* The earliest MaxBatch of the due reminders.                             *)
Batches ==
  LET D == {r \in DOMAIN rows : Selectable(r)}
  IN  {B \in SUBSET D :
         /\ Cardinality(B) = MaxBatch \/ (B = D /\ Cardinality(D) < MaxBatch)
         /\ \A r \in B, x \in D \ B : rows[r].at <= rows[x].at}

(* The timer: nothing happens while a batch is still being worked through. *)
ProcessReminders ==
  /\ ~working /\ ~stopped
  /\ \E B \in Batches :
       /\ B # {}
       /\ due' = {[of |-> r, at |-> rows[r].at] : r \in B}
  /\ working' = TRUE
  /\ UNCHANGED <<rows, send, attempts, senders, stopped, now, crashes, first,
                 cancelled, rebased, retryAt, served>>

(* releaseClaim and retireClaim, which leave a cancelled reminder alone.   *)
Update(r, row) ==
  rows' = IF r \in DOMAIN rows /\ ~rows[r].sent THEN [rows EXCEPT ![r] = row] ELSE rows

Retired(r) == [rows[r] EXCEPT !.sent = TRUE, !.claimedAt = Unclaimed]

Postponed(r) == [rows[r] EXCEPT !.at = now + Backoff, !.claimedAt = Unclaimed]

(* Mutant of DeferOrRetire: one attempt too many.                          *)
DeferOrRetireLate(r) ==
  /\ IF attempts[r] + 1 > MaxAttempts
     THEN /\ Update(r, Retired(r))
          /\ attempts' = [attempts EXCEPT ![r] = 0]
     ELSE /\ Update(r, Postponed(r))
          /\ attempts' = [attempts EXCEPT ![r] = @ + 1]
  /\ rebased' = rebased \cup {r}
  /\ send' = send

(* deferOrRetire *)
DeferOrRetire(r) ==
  /\ IF attempts[r] + 1 >= MaxAttempts
     THEN /\ Update(r, Retired(r))
          /\ attempts' = [attempts EXCEPT ![r] = 0]
     ELSE /\ Update(r, Postponed(r))
          /\ attempts' = [attempts EXCEPT ![r] = @ + 1]
  /\ rebased' = rebased \cup {r}
  /\ send' = send

(* A row whose two room identities disagree is retired at first sight.     *)
Refuse(r) ==
  /\ Update(r, Retired(r))
  /\ attempts' = [attempts EXCEPT ![r] = 0]
  /\ UNCHANGED <<send, rebased>>

StartSend(s) ==
  /\ rows' = [rows EXCEPT ![s.of].claimedAt = now]
  /\ send' = {[of |-> s.of, at |-> s.at, timer |-> SendTimeout]}
  /\ UNCHANGED <<attempts, rebased>>

(* Mutant of StillDue: the batch is trusted, whatever users did meanwhile. *)
StillDueAsSelected(r) == TRUE

(* The claim repeats the conditions of the selection.                      *)
StillDue(r) == r \in DOMAIN rows /\ Selectable(r)

(* One turn of the loop: claim the next reminder of the batch; refuse it,  *)
(* put it off, or start its send.                                          *)
TakeNext(s) ==
  /\ working /\ send = {} /\ ~stopped
  /\ \A o \in due : s.at <= o.at
  /\ due' = due \ {s}
  /\ IF ~StillDue(s.of) THEN UNCHANGED <<rows, attempts, send, rebased>>
     ELSE \/ /\ PlatformOf[s.of] \notin senders
             /\ DeferOrRetire(s.of)
          \/ /\ PlatformOf[s.of] \in senders /\ s.of \in Mismatched
             /\ Refuse(s.of)
          \/ /\ PlatformOf[s.of] \in senders /\ s.of \notin Mismatched
             /\ StartSend(s)
  /\ UNCHANGED <<working, senders, stopped, now, crashes, first, cancelled,
                 retryAt, served>>

(* The loop ends: the batch is done, or stop() was called meanwhile.       *)
EndBatch ==
  /\ working /\ send = {} /\ (due = {} \/ stopped)
  /\ working' = FALSE /\ due' = {}
  /\ UNCHANGED <<rows, send, attempts, senders, stopped, now, crashes, first,
                 cancelled, rebased, retryAt, served>>

-----------------------------------------------------------------------------
(* Mutant of NextOccurrence: the occurrences missed meanwhile are made up. *)
NextOccurrenceMissed(at) == at + Interval

(* computeNextOccurrence: the first one later than now, in step with at.   *)
NextOccurrence(at) == at + ((now - at) \div Interval + 1) * Interval

(* The send resolved.  These updates do not ask whether the row is sent.   *)
Acknowledge(s) ==
  LET r == s.of
      row == IF r \in Recurring
             THEN [rows[r] EXCEPT !.at = NextOccurrence(s.at), !.claimedAt = Unclaimed]
             ELSE [rows[r] EXCEPT !.sent = TRUE, !.claimedAt = Unclaimed]
  IN  /\ rows' = IF r \in DOMAIN rows THEN [rows EXCEPT ![r] = row] ELSE rows
      /\ attempts' = [attempts EXCEPT ![r] = 0]
      /\ send' = {}
      /\ served' = [served EXCEPT ![r] = Period(r)]
      /\ UNCHANGED <<due, working, senders, stopped, now, crashes, first,
                     cancelled, rebased, retryAt>>

(* Mutants of Released: the claim is dropped, so that the reminder is due  *)
(* again at once; the schedule is moved to the next attempt.               *)
ReleasedUnclaimed(r) ==
  IF r \in Recurring THEN [rows[r] EXCEPT !.claimedAt = Unclaimed] ELSE Postponed(r)

ReleasedRebased(r) == Postponed(r)

(* releaseClaim: a recurring reminder keeps its schedule and a claim that  *)
(* holds it back; another is put off.                                      *)
Released(r) ==
  IF r \in Recurring THEN [rows[r] EXCEPT !.claimedAt = now + Backoff] ELSE Postponed(r)

(* The send rejected, or its timeout fired.                                *)
Fail(s) ==
  LET r == s.of
      last == attempts[r] + 1 >= MaxAttempts
  IN  /\ Update(r, IF last THEN Retired(r) ELSE Released(r))
      /\ attempts' = [attempts EXCEPT ![r] = IF last THEN 0 ELSE @ + 1]
      /\ send' = {}
      /\ retryAt' = [retryAt EXCEPT ![r] = now + Backoff]
      /\ UNCHANGED <<due, working, senders, stopped, now, crashes, first,
                     cancelled, rebased, served>>

-----------------------------------------------------------------------------
StopScheduler ==
  /\ ~stopped
  /\ stopped' = TRUE
  /\ UNCHANGED <<rows, due, working, send, attempts, senders, now, crashes,
                 first, cancelled, rebased, retryAt, served>>

(* start() in the same process: a batch may still be under way.            *)
StartScheduler ==
  /\ stopped
  /\ stopped' = FALSE
  /\ UNCHANGED <<rows, due, working, send, attempts, senders, now, crashes,
                 first, cancelled, rebased, retryAt, served>>

(* The process dies and another one starts, with the providers configured. *)
Crash ==
  /\ crashes < MaxCrashes
  /\ crashes' = crashes + 1
  /\ due' = {} /\ working' = FALSE /\ send' = {} /\ stopped' = FALSE
  /\ attempts' = [r \in Reminders |-> 0]
  /\ senders' \in SUBSET Platforms
  /\ UNCHANGED <<rows, now, first, cancelled, rebased, retryAt, served>>

(* No time passes between the awaits of a batch, nor past a due timeout.   *)
Tick ==
  /\ now < MaxTime
  /\ working => send # {}
  /\ \A s \in send : s.timer > 0
  /\ now' = now + 1
  /\ send' = {[s EXCEPT !.timer = @ - 1] : s \in send}
  /\ UNCHANGED <<rows, due, working, attempts, senders, stopped, crashes, first,
                 cancelled, rebased, retryAt, served>>

SchedulerNext ==
  \/ \E r \in Reminders : SetReminder(r) \/ Cancel(r)
  \/ ProcessReminders
  \/ \E s \in due : TakeNext(s)
  \/ EndBatch
  \/ \E s \in send : Acknowledge(s) \/ Fail(s)
  \/ StopScheduler \/ StartScheduler
  \/ Crash
  \/ Tick

SchedulerSpec == SchedulerInit /\ [][SchedulerNext]_schedulerVars

-----------------------------------------------------------------------------
(* Every variable holds a value of its kind. *)
TypeOK ==
  /\ DOMAIN rows \subseteq Reminders
  /\ \A r \in DOMAIN rows : rows[r] \in Row
  /\ due \subseteq Selected /\ send \subseteq Send
  /\ working \in BOOLEAN /\ stopped \in BOOLEAN
  /\ attempts \in [Reminders -> 0..(MaxAttempts - 1)]
  /\ senders \subseteq Platforms
  /\ now \in 0..MaxTime /\ crashes \in 0..MaxCrashes
  /\ DOMAIN first \subseteq Reminders /\ \A r \in DOMAIN first : first[r] \in Nat
  /\ cancelled \subseteq Reminders /\ rebased \subseteq Reminders
  /\ retryAt \in [Reminders -> Nat]
  /\ served \in [Reminders -> Int]

(* A send begins: only a tick changes one that is there already.           *)
Begun == {s \in send' : send = {}}

(* A reminder cancelled while the batch that holds it is worked through is *)
(* not sent any more: the claim repeats the selection's conditions.        *)
CancelIsFinal == [][\A s \in Begun : s.of \notin cancelled]_schedulerVars

(* After a failed send the next attempt waits for its backoff, through     *)
(* restarts, which forget the attempt counter (Scheduler.ts:427-436).      *)
FailuresArePaced == [][\A s \in Begun : now >= retryAt[s.of]]_schedulerVars

(* However late a reminder is served, or how often it had to be tried: a   *)
(* one-shot reminder that was acknowledged is not sent again, a recurring  *)
(* one not before the next period of its schedule.                         *)
ServedOncePerPeriod ==
  [][\A s \in Begun : s.of \in rebased \/ Period(s.of) > served[s.of]]_schedulerVars

InStep(r) == (rows[r].at - first[r]) % Interval = 0

(* Neither lateness nor failed sends move the schedule of a recurring      *)
(* reminder; only the want of a sender does (Scheduler.ts:503).             *)
SchedulePhaseKept ==
  \A r \in (DOMAIN rows \cap Recurring) \ rebased : InStep(r)

(* A recurring reminder is served in step with its schedule, and a period  *)
(* of it, or a one-shot reminder, at most once.                            *)
ScheduleFollowed == []SchedulePhaseKept /\ ServedOncePerPeriod

(* The value PlatformOf has in the runs: every reminder is for the same platform. *)
OnePlatform == [r \in Reminders |-> CHOOSE p \in Platforms : TRUE]
=============================================================================
