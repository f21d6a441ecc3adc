------------------------------ MODULE Programs ------------------------------
(***************************************************************************)
(* The programs that are run beside: providers/process.ts with the         *)
(* semaphore of each kind, and its callers, DownloadTool (yt-dlp),         *)
(* FFmpegConverter (ffmpeg) and probeAudioBuffer (ffprobe).                *)
(*                                                                         *)
(* A program may take no notice of SIGTERM.  It is over for this process   *)
(* when its streams are closed.  Sizes are counted in pieces.              *)
(***************************************************************************)
EXTENDS Stage

CONSTANTS
  Capacity,   \* PROCESS_SEMAPHORES: kind -> permits
  MaxSize     \* of what a program may leave in its directory

Sem == INSTANCE Semaphore

ASSUME ProgramsAssumption ==
  /\ Capacity \in [DOMAIN Capacity -> Nat] /\ MaxSize \in Nat /\ None # "done"
  /\ \A s \in Scenes : IsFiniteSet(DOMAIN s.works) /\ \A w \in DOMAIN s.works : s.works[w].kind \in DOMAIN Capacity

VARIABLES
  permits,  \* kind -> semaphore
  work,     \* [works of the scene -> [at, child, size, why, told, signalled, dir, late, result]]
  tracked,  \* activeProcesses
  quitting  \* "no", "forced" (forceExit waits), "exited"

programsVars == <<permits, work, tracked, quitting>>

Kind(w) == scene.works[w].kind

Unstarted == [at |-> "new", child |-> "none", size |-> 0, why |-> None, told |-> FALSE, signalled |-> FALSE, dir |-> FALSE, late |-> FALSE, result |-> None]

ProgramsInit ==
  /\ permits = [k \in DOMAIN Capacity |-> Sem!NewSemaphore(Capacity[k])]
  /\ work = [w \in DOMAIN scene.works |-> Unstarted] /\ tracked = {} /\ quitting = "no"

IsAt(w, at) == work[w].at = at /\ quitting # "exited"

(* The permit goes to the next one that waits, the work to its end. *)
Ended(w, record) ==
  /\ permits' = [permits EXCEPT ![Kind(w)] = Sem!Release(@, 1)]
  /\ work' = [x \in DOMAIN work |-> IF x = w THEN record
                                    ELSE IF x \in Sem!Woken(permits[Kind(w)], 1) THEN [work[x] EXCEPT !.at = "granted"] ELSE work[x]]

Failed(record) == [record EXCEPT !.at = "cleaning", !.result = "failed"]
-----------------------------------------------------------------------------
(* What downloads and converts has a directory of its own, a probe none. *)
Workspace(w) == [work[w] EXCEPT !.dir = scene.works[w].dir]

(* runBoundedProcess: not if the signal was given already.  A permit at    *)
(* once, or a place among those that wait.                                 *)
AskPermit(w, record) ==
  LET s == permits[Kind(w)]
  IN  IF record.signalled THEN work' = [work EXCEPT ![w] = Failed(record)] /\ UNCHANGED permits
      ELSE IF Sem!CanTake(s, 1) THEN work' = [work EXCEPT ![w] = [record EXCEPT !.at = "granted"]] /\ permits' = [permits EXCEPT ![Kind(w)] = Sem!Take(@, 1)]
      ELSE work' = [work EXCEPT ![w] = [record EXCEPT !.at = "waiting"]] /\ permits' = [permits EXCEPT ![Kind(w)] = Sem!Wait(@, w, 1)]

StartWork(w) == IsAt(w, "new") /\ AskPermit(w, Workspace(w)) /\ UNCHANGED <<stage, tracked, quitting>>

(* A signal that came with the permit; a program that cannot be started.   *)
Launch(w, starts) ==
  /\ IsAt(w, "granted") /\ UNCHANGED <<stage, quitting>>
  /\ IF work[w].signalled \/ ~starts THEN Ended(w, Failed(work[w])) /\ UNCHANGED tracked
     ELSE /\ work' = [work EXCEPT ![w].at = "running", ![w].child = "alive", ![w].late = (quitting # "no")]
          /\ tracked' = tracked \cup {w} /\ UNCHANGED permits

(* Mutant of Terminated: the caller is answered at once. *)
SignalledAndLeft(w, why) ==
  IF work[w].why # None THEN work[w] ELSE Failed([work[w] EXCEPT !.why = why, !.told = TRUE])

(* terminate: the first reason counts; the answer waits for the close. *)
Terminated(w, why) == IF work[w].why # None THEN work[w] ELSE [work[w] EXCEPT !.why = why, !.told = TRUE]

(* Terminated, it is not tracked any more. *)
Terminate(w, why) ==
  /\ IsAt(w, "running") /\ work' = [work EXCEPT ![w] = Terminated(w, why)]
  /\ tracked' = tracked \ {w} /\ UNCHANGED <<permits, quitting>>

(* Its time is over, or it says too much. *)
TimeOut(w) == Spend("timeout") /\ Terminate(w, "timeout")
TalkTooMuch(w) == Spend("talk") /\ Terminate(w, "output")

(* The directory is looked at now and then. *)
CheckDirectory(w) == work[w].dir /\ work[w].size > MaxSize /\ work[w].why = None /\ Terminate(w, "output") /\ UNCHANGED stage

Grow(w) ==
  /\ work[w].child = "alive" /\ work[w].dir /\ work[w].size <= MaxSize
  /\ work' = [work EXCEPT ![w].size = @ + 1] /\ UNCHANGED <<stage, permits, tracked, quitting>>

(* The caller's signal: one that waits gives up its place. *)
Signal(w) ==
  /\ scene.works[w].signal /\ ~work[w].signalled /\ work[w].at \notin {"cleaning", "settled"} /\ quitting # "exited" /\ Spend("signal")
  /\ LET heard == [work[w] EXCEPT !.signalled = TRUE]
     IN CASE work[w].at = "waiting" -> /\ permits' = [permits EXCEPT ![Kind(w)] = Sem!GiveUp(@, w)]
                                       /\ work' = [work EXCEPT ![w] = Failed(heard)] /\ UNCHANGED tracked
          [] work[w].at = "running" -> /\ work' = [work EXCEPT ![w] = [Terminated(w, "aborted") EXCEPT !.signalled = TRUE]]
                                       /\ tracked' = tracked \ {w} /\ UNCHANGED permits
          [] OTHER -> work' = [work EXCEPT ![w] = heard] /\ UNCHANGED <<permits, tracked>>
  /\ UNCHANGED quitting

(* It ended and its streams are closed, by itself or because it was told   *)
(* to, or killed; one that was terminated failed, whatever its code.       *)
Closed(w, ok) ==
  /\ IsAt(w, "running") /\ UNCHANGED <<stage, quitting>>
  /\ LET gone == [work[w] EXCEPT !.child = "gone"]
     IN  Ended(w, IF gone.why # None \/ ~ok THEN Failed(gone) ELSE [gone EXCEPT !.at = "reading"])
  /\ tracked' = tracked \ {w}

(* What was left in the directory is measured once more. *)
ReadOutput(w, found) ==
  /\ IsAt(w, "reading") /\ UNCHANGED <<stage, permits, tracked, quitting>>
  /\ work' = [work EXCEPT ![w] = IF found /\ work[w].size <= MaxSize THEN [@ EXCEPT !.at = "cleaning", !.result = "done"] ELSE Failed(@)]

CleanUp(w) ==
  /\ IsAt(w, "cleaning") /\ work' = [work EXCEPT ![w].at = "settled", ![w].dir = FALSE]
  /\ UNCHANGED <<stage, permits, tracked, quitting>>

(* forceExit, once the runtime is stopped: those tracked are told, and if  *)
(* there were any the exit waits a moment.                                 *)
ForceExit ==
  /\ quitting = "no" /\ Spend("exit")
  /\ quitting' = IF tracked = {} THEN "exited" ELSE "forced"
  /\ work' = [w \in DOMAIN work |-> IF w \in tracked THEN [work[w] EXCEPT !.told = TRUE] ELSE work[w]]
  /\ UNCHANGED <<permits, tracked>>

Exit == quitting = "forced" /\ quitting' = "exited" /\ UNCHANGED <<stage, permits, work, tracked>>

ProgramsNext ==
  \/ \E w \in DOMAIN work :
       \/ StartWork(w) \/ TimeOut(w) \/ TalkTooMuch(w) \/ CheckDirectory(w) \/ Grow(w) \/ Signal(w) \/ CleanUp(w)
       \/ \E ok \in BOOLEAN : Launch(w, ok) \/ Closed(w, ok) \/ ReadOutput(w, ok)
  \/ ForceExit \/ Exit
-----------------------------------------------------------------------------
Holding(k) == {w \in DOMAIN work : Kind(w) = k /\ work[w].at \in {"granted", "running"}}

(* Never more programs of a kind than it has permits, those included that  *)
(* were terminated and linger; what is answered is over: no program still  *)
(* writes to a directory that was removed, and none that was terminated or *)
(* outgrew its limit is taken for done.  At the exit every program still   *)
(* there was told to end, but for one begun after the order                *)
(* (process.ts:88-300, DownloadTool.ts:157-231, index.ts:21-29).           *)
ProgramsContained ==
  /\ \A k \in DOMAIN Capacity :
       /\ Cardinality({w \in DOMAIN work : Kind(w) = k /\ work[w].child = "alive"}) <= Capacity[k]
       /\ permits[k].free + Cardinality(Holding(k)) = Capacity[k]
  /\ \A w \in DOMAIN work :
       /\ work[w].at \in {"cleaning", "settled"} => work[w].child # "alive"
       /\ work[w].result = "done" => work[w].why = None /\ work[w].size <= MaxSize
       /\ quitting = "exited" /\ work[w].child = "alive" => work[w].told \/ work[w].late
=============================================================================
