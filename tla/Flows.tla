------------------------------- MODULE Flows -------------------------------
(***************************************************************************)
(* The interactive flows of FlowHandler with the four flows of the tools:  *)
(* confirming a menfess, collecting images or PDFs, connecting an account. *)
(*                                                                         *)
(* A session is one sender's in one room (or, from an earlier version, in  *)
(* any room), so one sender is enough.  The queue hands the messages of a  *)
(* room one at a time, which makes the session lock of a key uncontended;  *)
(* rooms and the pruning job interleave at every await.  A session is read *)
(* from its row, or from memory when there is none or the read fails.      *)
(***************************************************************************)
EXTENDS Integers, FiniteSets, SequencesExt

CONSTANTS
  Rooms,
  AnyRoom,      \* the key of a session without a room
  Groups,       \* the rooms that are groups
  Ttl,          \* [Flow ids -> ticks]
  MaxFiles,     \* MAX_COLLECT_FILES
  MaxTicks,     \* bound: ticks
  Scenes,       \* bound: [messages, most, jobs, restarts, faults, rows, registered], one of which is played
  None, Garbage

Flow == {"menfess_confirm", "pdf_img_collect", "pdf_merge_collect", "media_connect"}
Services == <<"jellyfin", "seerr">>

ASSUME FlowsAssumption ==
  /\ Groups \subseteq Rooms /\ AnyRoom \notin Rooms
  /\ DOMAIN Ttl = Flow /\ \A f \in Flow : Ttl[f] \in Nat /\ {MaxFiles, MaxTicks} \subseteq Nat

VARIABLES
  scene, clock,
  db,           \* flow_sessions: [Keys -> session, None or Garbage]
  mem,          \* memorySessions: [Keys -> session or None]
  task,         \* [Rooms -> the message being handled]
  job,          \* pruneAllExpired: [at, rows, now]
  bound,        \* service_bindings of the sender
  done,         \* how often each bounded thing happened: [messages, jobs, restarts, faults]
  begun,        \* history: [Rooms -> the flows its sender started and did not end]
  torn,         \* history: rooms whose store failed, or was cut off by a restart
  stale,        \* history: rooms whose row the job wrote from an older one
  exposed,      \* history: rooms whose newer row the job deleted
  crossed       \* history: a disconnect ran while a connect was storing its bindings

Keys == Rooms \cup {AnyRoom}
vars == <<scene, clock, db, mem, task, job, bound, done, begun, torn, stale, exposed, crossed>>

Empty == [flows |-> <<>>, active |-> None, room |-> None, version |-> 0]
Idle == [at |-> "idle", msg |-> None, key |-> None, for |-> None, session |-> None, time |-> 0, flow |-> None, next |-> None,
         todo |-> <<>>, doc |-> <<>>, want |-> <<>>, left |-> <<>>, saw |-> FALSE]
Rest == [at |-> "idle", rows |-> None, now |-> 0]

---------------------------------------------------------------------------
(* What PDFTool makes of its files.  A file is [kind, pages]: a PDF with   *)
(* its pages, an image, or something else; drawing on pages, metadata and  *)
(* compression keep the pages and their order.                             *)

(* validatePdfPageRange *)
ValidRange(total, from, to) == from >= 1 /\ to >= from /\ to <= total

(* parsePdfPageList: no list when a page is not one of the document's. *)
ValidPages(total, pages) == pages # <<>> /\ \A i \in 1..Len(pages) : pages[i] \in 1..total

(* Mutant of Removed: the pages are taken out from the front, and move. *)
RemovedForward(pages, numbers) ==
  FoldLeft(LAMBDA doc, n : IF n \in 1..Len(doc) THEN RemoveAt(doc, n) ELSE doc, pages, SetToSortSeq(ToSet(numbers), <))

(* Each is taken out by its number, the highest first. *)
Removed(pages, numbers) == FoldLeft(LAMBDA doc, n : RemoveAt(doc, n), pages, SetToSortSeq(ToSet(numbers), >))

(* A range is copied to a new document by its indices. *)
Split(pages, from, to) == [i \in 1..(to - from + 1) |-> pages[from + i - 1]]

Refused == <<>>

(* execute: the document a request for one file sends, if any. *)
Made(call, file) ==
  IF file.kind # "pdf" \/ call.action = "info" THEN Refused     \* info and to_text answer without a document
  ELSE
    CASE call.action = "split" -> IF ValidRange(Len(file.pages), call.from, call.to) THEN Split(file.pages, call.from, call.to) ELSE Refused
    [] call.action = "remove_pages" ->
         IF ValidPages(Len(file.pages), call.numbers) /\ Cardinality(ToSet(call.numbers)) < Len(file.pages)
         THEN Removed(file.pages, call.numbers) ELSE Refused
    [] OTHER -> file.pages

(* doMerge: a file that is no PDF ends it. *)
Merged(files) ==
  IF \A i \in 1..Len(files) : files[i].kind = "pdf" /\ files[i].pages # <<>>
  THEN FoldLeft(LAMBDA doc, f : doc \o f.pages, <<>>, files) ELSE Refused

(* doImgToPdf: a page for each image. *)
Album(files) == IF \A i \in 1..Len(files) : files[i].kind = "image" THEN [i \in 1..Len(files) |-> files[i].pages[1]] ELSE Refused

(* What each is asked to be, without the steps. *)

Pages(files) == FlattenSeq([i \in 1..Len(files) |-> files[i].pages])

Asked(call, file) ==
  LET keep == {i \in 1..Len(file.pages) :
                 CASE call.action = "split" -> call.from <= i /\ i <= call.to
                   [] call.action = "remove_pages" -> i \notin ToSet(call.numbers)
                   [] OTHER -> TRUE}
  IN  [i \in 1..Cardinality(keep) |-> file.pages[SetToSortSeq(keep, <)[i]]]

---------------------------------------------------------------------------
(* Sessions. *)

Has(s, f) == \E i \in 1..Len(s.flows) : s.flows[i].id = f
Of(s, f) == s.flows[CHOOSE i \in 1..Len(s.flows) : s.flows[i].id = f]

(* selectFallbackActiveFlow: the last of the flows, when the active one is gone. *)
Fallback(s) ==
  IF s.active # None /\ Has(s, s.active) THEN s
  ELSE [s EXCEPT !.active = IF s.flows = <<>> THEN None ELSE Last(s.flows).id]

(* Mutant of Pruned: a flow is kept for one tick more. *)
PrunedLate(s, t) == Fallback([s EXCEPT !.flows = SelectSeq(@, LAMBDA f : ~(t > f.expires + 1))])

Pruned(s, t) == Fallback([s EXCEPT !.flows = SelectSeq(@, LAMBDA f : ~(t > f.expires))])

Without(s, f) == Fallback([s EXCEPT !.flows = SelectSeq(@, LAMBDA g : g.id # f)])

(* The object keeps the place of a flow that is set again. *)
Placed(s, flow) ==
  [s EXCEPT !.active = flow.id,
            !.flows = IF Has(s, flow.id) THEN [i \in 1..Len(s.flows) |-> IF s.flows[i].id = flow.id THEN flow ELSE s.flows[i]]
                      ELSE Append(s.flows, flow)]

Newer(s) == [s EXCEPT !.version = @ + 1]   \* writeSession

---------------------------------------------------------------------------
Init ==
  /\ scene \in Scenes /\ clock = 0
  /\ db = scene.rows /\ mem = [k \in Keys |-> None]
  /\ task = [r \in Rooms |-> Idle] /\ job = Rest /\ bound = {}
  /\ done = [messages |-> 0, jobs |-> 0, restarts |-> 0, faults |-> 0]
  /\ begun = [r \in Rooms |-> Empty] /\ stale = {} /\ exposed = {} /\ crossed = FALSE
  /\ torn = IF \A k \in Keys : scene.rows[k] = None THEN {} ELSE Rooms

Go(r, changes) == task' = [task EXCEPT ![r] = changes]
Finish(r) == Go(r, Idle)
Seek(r, purpose, t) == [t EXCEPT !.at = "reading", !.for = purpose, !.key = r]
Count(what) == done' = [done EXCEPT ![what] = @ + 1]
MayFail == done.faults < scene.faults

history == <<begun, torn, stale, exposed, crossed>>

Receive(r) ==
  /\ task[r].at = "idle" /\ done.messages < scene.most
  /\ \E m \in scene.messages : m.room = r /\ Go(r, Seek(r, "handle", [Idle EXCEPT !.msg = m, !.todo = m.calls]))
  /\ Count("messages")
  /\ UNCHANGED <<scene, clock, db, mem, job, bound, history>>

---------------------------------------------------------------------------
(* What a read of a session is for. *)

(* getSessionInternal: what expired goes, from the row of the room even    *)
(* when the session was found under the other key.                         *)
Handle(r, t, s, memory) ==
  LET none == s = None \/ (s # None /\ s.room \notin {None, r})
      p    == IF none THEN Empty ELSE Pruned(s, clock)
      seen == [t EXCEPT !.time = clock, !.session = p]
  IN  IF none THEN mem' = memory /\ Go(r, [seen EXCEPT !.at = "met"])
      ELSE IF p.flows = s.flows THEN mem' = [memory EXCEPT ![t.key] = p] /\ Go(r, [seen EXCEPT !.at = "met"])
      ELSE IF p.flows = <<>>
      THEN mem' = [memory EXCEPT ![t.key] = p, ![r] = None] /\ Go(r, [seen EXCEPT !.at = "deleting", !.key = r, !.next = "met"])
      ELSE /\ mem' = [memory EXCEPT ![t.key] = Newer(p), ![r] = Newer(p)]
           /\ Go(r, [seen EXCEPT !.at = "putting", !.key = r, !.session = Newer(p), !.next = "met"])

(* setSessionInternal *)
Set(r, t, s, memory) ==
  LET old == IF s = None THEN Empty ELSE s
      new == Newer(Pruned([Placed(old, [t.flow EXCEPT !.expires = clock + Ttl[t.flow.id]]) EXCEPT !.room = r], clock))
  IN  /\ mem' = [memory EXCEPT ![r] = new]
      /\ begun' = [begun EXCEPT ![r] = Placed(@, [t.flow EXCEPT !.expires = clock + Ttl[t.flow.id], !.files = t.want])]
      /\ Go(r, [t EXCEPT !.at = "putting", !.session = new])

(* clearSessionInternal, under the key the session was found under. *)
Clear(r, t, s, memory) ==
  /\ begun' = [begun EXCEPT ![r] = Without(@, t.flow.id)]
  /\ IF s = None \/ ~Has(IF s = None THEN Empty ELSE s, t.flow.id) THEN mem' = memory /\ Go(r, [t EXCEPT !.at = t.next])
     ELSE LET left == Without(s, t.flow.id)
          IN  IF left.flows = <<>> THEN mem' = [memory EXCEPT ![t.key] = None] /\ Go(r, [t EXCEPT !.at = "deleting"])
              ELSE mem' = [memory EXCEPT ![t.key] = Newer(left)] /\ Go(r, [t EXCEPT !.at = "putting", !.session = Newer(left)])

(* Mutant of Loaded: without a row there is no session. *)
LoadedFromRow(k, failed) == IF failed THEN mem[k] ELSE db[k]

(* readSession: the row, or memory when there is none or it cannot be read. *)
Loaded(k, failed) == IF failed \/ db[k] = None THEN mem[k] ELSE db[k]

Read(r) ==
  /\ task[r].at = "reading"
  /\ \E failed \in {f \in BOOLEAN : f => MayFail} :
       LET t      == task[r]
           bad    == ~failed /\ db[t.key] = Garbage
           s      == IF bad THEN None ELSE Loaded(t.key, failed)
           memory == IF s = None THEN mem ELSE [mem EXCEPT ![t.key] = s]
       IN  /\ db' = IF bad THEN [db EXCEPT ![t.key] = None] ELSE db
           /\ IF failed THEN Count("faults") /\ torn' = torn \cup {r} ELSE UNCHANGED <<done, torn>>
           /\ \/ /\ s = None /\ t.key = r /\ t.for # "set"        \* the session without a room is next
                 /\ Go(r, [t EXCEPT !.key = AnyRoom]) /\ UNCHANGED <<mem, begun>>
              \/ t.for = "handle" /\ (s # None \/ t.key = AnyRoom) /\ Handle(r, t, s, memory) /\ UNCHANGED begun
              \/ t.for = "set" /\ Set(r, t, s, memory)
              \/ t.for = "clear" /\ (s # None \/ t.key = AnyRoom) /\ Clear(r, t, s, memory)
  /\ UNCHANGED <<scene, clock, job, bound, stale, exposed, crossed>>

(* The upsert or delete that ends it; a failure leaves memory changed alone. *)
Write(r) ==
  /\ task[r].at \in {"putting", "deleting"}
  /\ LET t == task[r]
     IN  /\ Go(r, [t EXCEPT !.at = t.next])
         /\ \/ db' = [db EXCEPT ![t.key] = IF t.at = "putting" THEN t.session ELSE None]
               /\ exposed' = exposed \ {r} /\ stale' = stale /\ UNCHANGED <<done, torn>>
            \/ MayFail /\ Count("faults") /\ torn' = torn \cup {r} /\ UNCHANGED <<db, exposed, stale>>
  /\ UNCHANGED <<scene, clock, mem, job, bound, begun, crossed>>

---------------------------------------------------------------------------
(* handle: what the message means to the active flow. *)

NewFlow(f, r, step, files) == [id |-> f, step |-> step, files |-> files, room |-> r, chat |-> None, expires |-> 0]

(* flowBelongsToContext *)
Belongs(flow, r) ==
  /\ flow.room \in {None, r} /\ flow.chat \in {None, r}
  /\ flow.room = None => r \notin Groups

(* getActiveFlow *)
ActiveFlow(r) ==
  LET s == task[r].session
  IN  IF s.active = None \/ ~Has(s, s.active) THEN None
      ELSE LET f == Of(s, s.active)
           IN  IF f.room \notin {None, r} \/ (f.room = None /\ f.chat \notin {None, r}) THEN None ELSE f

EndFlow(r, f, next) == Go(r, Seek(r, "clear", [task[r] EXCEPT !.flow = f, !.next = next]))
Keep(r, f, want) == Go(r, Seek(r, "set", [task[r] EXCEPT !.flow = f, !.next = "idle", !.want = want]))

Given(r, f) == IF Has(begun[r], f) THEN Of(begun[r], f).files ELSE <<>>

(* The collecting processors. *)
Collect(r, f, kind, least, Make(_)) ==
  LET m == task[r].msg
  IN  CASE m.text = "done" /\ Len(f.files) >= least ->
             Go(r, Seek(r, "clear", [task[r] EXCEPT !.flow = f, !.next = "sending", !.doc = Make(f.files), !.want = Pages(Given(r, f.id))]))
        [] m.text # "done" /\ m.files # <<>> /\ m.files[1].kind = kind /\ Len(f.files) < MaxFiles ->
             Keep(r, [f EXCEPT !.files = Append(@, m.files[1]), !.room = r], Append(Given(r, f.id), m.files[1]))
        [] OTHER -> Finish(r)

(* No such flow is begun in a group, so that its check for one never holds. *)
Connect(r, f) ==
  LET m == task[r].msg
  IN  IF m.text = "blank" THEN Finish(r)
      ELSE IF f.step = "username" THEN Keep(r, [f EXCEPT !.step = "password", !.room = r], <<>>)
      ELSE Go(r, [task[r] EXCEPT !.at = "authenticating", !.flow = f])

(* menfessConfirmFlowProcessor: anything but a yes ends it. *)
Confirm(r, f) ==
  IF task[r].msg.text = "yes" /\ f.room = r THEN Go(r, [task[r] EXCEPT !.at = "forwarding", !.flow = f]) ELSE EndFlow(r, f, "idle")

CollectImages(r, f) == Collect(r, f, "image", 1, Album)
CollectPdfs(r, f)   == Collect(r, f, "pdf", 2, Merged)

Process(r, f) ==
  CASE f.id = "menfess_confirm"   -> Confirm(r, f)
    [] f.id = "pdf_img_collect"   -> CollectImages(r, f)
    [] f.id = "pdf_merge_collect" -> CollectPdfs(r, f)
    [] OTHER                      -> Connect(r, f)

Meet(r) ==
  /\ task[r].at = "met"
  /\ LET f == ActiveFlow(r)
         m == task[r].msg
     IN  CASE f = None                       -> Go(r, [task[r] EXCEPT !.at = "agent", !.session = None])
           [] f # None /\ ~Belongs(f, r)     -> EndFlow(r, f, "idle")
           [] f # None /\ Belongs(f, r) /\ f.id \notin scene.registered -> EndFlow(r, f, "agent")
           [] OTHER -> IF m.text = "/cancel" THEN EndFlow(r, f, "idle")
                       ELSE IF m.text = "/other" THEN Finish(r) ELSE Process(r, f)
  /\ UNCHANGED <<scene, clock, db, mem, job, bound, done, history>>

(* The menfess goes out, or is refused or fails; the flow is cleared after. *)
Forward(r) ==
  /\ task[r].at = "forwarding"
  /\ \E sent \in BOOLEAN : Go(r, Seek(r, "clear", [task[r] EXCEPT !.next = "idle", !.saw = sent]))
  /\ UNCHANGED <<scene, clock, db, mem, job, bound, done, history>>

(* A document goes out, or the attempt fails. *)
SendDocument(r) ==
  /\ task[r].at = "sending"
  /\ Go(r, [task[r] EXCEPT !.at = IF task[r].todo = <<>> THEN "idle" ELSE "agent", !.doc = <<>>, !.want = <<>>])
  /\ UNCHANGED <<scene, clock, db, mem, job, bound, done, history>>

---------------------------------------------------------------------------
(* Bindings: a service at a time, a read and then a write by its row. *)

Authenticate(r) ==
  /\ task[r].at = "authenticating"
  /\ \/ EndFlow(r, task[r].flow, "idle")       \* refused, or no service is configured
     \/ \E services \in {Services, <<"jellyfin">>, <<"seerr">>} :
          Go(r, [task[r] EXCEPT !.at = "linking", !.left = services, !.saw = FALSE, !.want = services])
  /\ crossed' = (\E q \in Rooms : task[q].at \in {"unlinking", "unlinkWrite"})
  /\ UNCHANGED <<scene, clock, db, mem, job, bound, done, begun, torn, stale, exposed>>

LinkRead(r) ==
  /\ task[r].at \in {"linking", "unlinking"}
  /\ LET has == Head(task[r].left) \in bound
     IN  Go(r, [task[r] EXCEPT !.at = IF @ = "linking" THEN "linkWrite" ELSE "unlinkWrite", !.saw = has])
  /\ UNCHANGED <<scene, clock, db, mem, job, bound, done, history>>

(* Mutant of Bind: the first service is bound for all. *)
BindFirst(r) ==
  /\ task[r].at = "linkWrite"
  /\ bound' = bound \cup {Head(task[r].left)} /\ Go(r, [task[r] EXCEPT !.at = "linked"])
  /\ UNCHANGED <<scene, clock, db, mem, job, done, history>>

(* bind updates the row it saw, if it is still there, or inserts one. *)
Bind(r) ==
  /\ task[r].at = "linkWrite"
  /\ LET t    == task[r]
         rest == Tail(t.left)
     IN  \/ /\ bound' = IF t.saw THEN bound ELSE bound \cup {Head(t.left)}
            /\ Go(r, [t EXCEPT !.at = IF rest = <<>> THEN "linked" ELSE "linking", !.left = rest])
            /\ UNCHANGED done
         \/ MayFail /\ Count("faults") /\ EndFlow(r, t.flow, "idle") /\ UNCHANGED bound
  /\ UNCHANGED <<scene, clock, db, mem, job, history>>

Linked(r) ==
  /\ task[r].at = "linked"
  /\ EndFlow(r, task[r].flow, "idle")
  /\ UNCHANGED <<scene, clock, db, mem, job, bound, done, history>>

Unbind(r) ==
  /\ task[r].at = "unlinkWrite"
  /\ LET t == task[r]
         rest == Tail(t.left)
     IN  \/ /\ bound' = IF t.saw THEN bound \ {Head(t.left)} ELSE bound
            /\ Go(r, [t EXCEPT !.at = IF rest = <<>> THEN "agent" ELSE "unlinking", !.left = rest])
            /\ UNCHANGED done
         \/ MayFail /\ Count("faults") /\ Go(r, [t EXCEPT !.at = "agent"]) /\ UNCHANGED bound
  /\ UNCHANGED <<scene, clock, db, mem, job, history>>

---------------------------------------------------------------------------
(* Without a flow the agent answers, and its tools start flows. *)

Start(r, t, f, files) ==
  Go(r, Seek(r, "set", [t EXCEPT !.flow = NewFlow(f, r, IF f = "media_connect" THEN "username" ELSE "first", files), !.next = "agent", !.want = files]))

Deliver(r, t, doc, want) ==
  IF doc = Refused THEN Go(r, t) ELSE Go(r, [t EXCEPT !.at = "sending", !.doc = doc, !.want = want])

MergePdfs(r, t, files) ==
  IF Len(files) = 2 THEN Deliver(r, t, Merged(files), Pages(files)) ELSE Start(r, t, "pdf_merge_collect", files)

ImgToPdf(r, t, files) ==
  IF files # <<>> /\ files[1].kind = "image" THEN Deliver(r, t, Album(<<files[1]>>), files[1].pages) ELSE Start(r, t, "pdf_img_collect", <<>>)

OneFile(r, t, call, files) ==
  IF files = <<>> THEN Go(r, t) ELSE Deliver(r, t, Made(call, files[1]), Asked(call, files[1]))

(* handleConnect *)
BeginConnect(r, t) ==
  IF r \in Groups \/ "jellyfin" \in bound THEN Go(r, t) ELSE Start(r, t, "media_connect", <<>>)

Call(r) ==
  /\ task[r].at = "agent"
  /\ IF task[r].todo = <<>> THEN Finish(r) /\ UNCHANGED crossed
     ELSE LET call  == Head(task[r].todo)
              t     == [task[r] EXCEPT !.todo = Tail(@)]
              files == task[r].msg.files
          IN  /\ CASE call.action = "menfess"    -> Start(r, t, "menfess_confirm", <<>>)
                   [] call.action = "merge"      -> MergePdfs(r, t, files)
                   [] call.action = "img_to_pdf" -> ImgToPdf(r, t, files)
                   [] call.action = "connect"    -> BeginConnect(r, t)
                   [] call.action = "disconnect" -> Go(r, [t EXCEPT !.at = "unlinking", !.left = Services])
                   [] OTHER                      -> OneFile(r, t, call, files)
              /\ crossed' = (crossed \/ call.action = "disconnect")
  /\ UNCHANGED <<scene, clock, db, mem, job, bound, done, begun, torn, stale, exposed>>

---------------------------------------------------------------------------
(* pruneAllExpired: a snapshot of the rows, then one row at a time; an     *)
(* update finds no row that is gone.  A failure ends the job.              *)
JobRead ==
  /\ job.at = "idle" /\ done.jobs < scene.jobs
  /\ job' = [at |-> "rows", rows |-> db, now |-> clock] /\ Count("jobs")
  /\ UNCHANGED <<scene, clock, db, mem, task, bound, history>>

Prunes(k) == IF job.rows[k] \in {None, Garbage} THEN job.rows[k] = Garbage ELSE Pruned(job.rows[k], job.now).flows # job.rows[k].flows

JobWrite(k) ==
  /\ job.at = "rows" /\ Prunes(k)
  /\ LET old  == job.rows[k]
         kept == IF old = Garbage THEN Empty ELSE Pruned(old, job.now)
     IN  /\ db' = [db EXCEPT ![k] = IF kept.flows = <<>> THEN None ELSE IF @ = None THEN None ELSE kept]
         /\ exposed' = IF kept.flows = <<>> /\ db[k] \notin {None, old} THEN exposed \cup ({k} \cap Rooms) ELSE exposed
         /\ stale' = IF kept.flows # <<>> /\ db[k] \notin {None, old} THEN stale \cup ({k} \cap Rooms) ELSE stale
  /\ job' = [job EXCEPT !.rows[k] = None]
  /\ UNCHANGED <<scene, clock, mem, task, bound, done, begun, torn, crossed>>

JobEnd ==
  /\ job.at = "rows" /\ ((\A k \in Keys : ~Prunes(k)) \/ MayFail)
  /\ job' = Rest
  /\ UNCHANGED <<scene, clock, db, mem, task, bound, done, history>>

(* A restart loses memory and what was under way; initialize prunes the    *)
(* rows before a message is handled, as far as the store lets it.          *)
Started(s) == IF s \in {None, Garbage} THEN None ELSE IF Pruned(s, clock).flows = <<>> THEN None ELSE Pruned(s, clock)

Restart ==
  /\ done.restarts < scene.restarts /\ Count("restarts")
  /\ \E pruned \in {Keys, {}} : db' = [k \in Keys |-> IF k \in pruned THEN Started(db[k]) ELSE db[k]]
  /\ mem' = [k \in Keys |-> None] /\ task' = [r \in Rooms |-> Idle] /\ job' = Rest
  /\ torn' = torn \cup {r \in Rooms : task[r].at \in {"putting", "deleting"}}
  /\ stale' = stale \cup exposed
  /\ UNCHANGED <<scene, clock, bound, begun, exposed, crossed>>

TimePasses == clock < MaxTicks /\ clock' = clock + 1 /\ UNCHANGED <<scene, db, mem, task, job, bound, done, history>>

Next ==
  \/ \E r \in Rooms : \/ Receive(r) \/ Read(r) \/ Write(r) \/ Meet(r) \/ Forward(r) \/ SendDocument(r) \/ Call(r)
                      \/ Authenticate(r) \/ LinkRead(r) \/ Bind(r) \/ Linked(r) \/ Unbind(r)
  \/ JobRead \/ JobEnd \/ \E k \in Keys : JobWrite(k)
  \/ Restart \/ TimePasses

Spec == Init /\ [][Next]_vars

---------------------------------------------------------------------------
(* What a message should find: the flows its sender started in the room    *)
(* and neither ended nor let expire, as they were left.                    *)
View(flows) == [i \in 1..Len(flows) |-> [id |-> flows[i].id, step |-> flows[i].step, files |-> flows[i].files]]

Owed(r) == SelectSeq(begun[r].flows, LAMBDA f : task[r].time <= f.expires)

Resumes(r) ==
  LET s == task[r].session
  IN  /\ View(s.flows) = View(Owed(r))
      /\ s.active = IF \E i \in 1..Len(Owed(r)) : Owed(r)[i].id = begun[r].active THEN begun[r].active
                    ELSE IF Owed(r) = <<>> THEN None ELSE Last(Owed(r)).id

(* A message continues the flow its sender has in the room, with all that  *)
(* was collected, whatever expired, was cleared, was pruned by the job or  *)
(* lost with the process (FlowHandler.ts:156, 252, 279), unless the store  *)
(* failed or the job wrote over a newer row.                               *)
FlowsContinued == \A r \in Rooms : task[r].at = "met" /\ r \notin torn \cup stale => Resumes(r)

(* A menfess goes out for a yes to a preview of this room that is neither  *)
(* answered nor was over when the yes was read (MenfessTool.ts:109).       *)
ForwardBacked ==
  \A r \in Rooms : task[r].at = "forwarding" /\ r \notin torn \cup stale =>
    task[r].msg.text = "yes" /\ \E i \in 1..Len(Owed(r)) : Owed(r)[i].id = "menfess_confirm"

(* A document that is sent has the pages asked for, in order: those of the *)
(* files collected since the flow began, of the range, or without the      *)
(* pages named (PDFTool.ts:138, 378, 428).                                 *)
DocumentsRight ==
  \A r \in Rooms : task[r].at = "sending" /\ r \notin torn \cup stale => task[r].doc \in {task[r].want, Refused}

(* Who is told of the connection has all the bindings that were verified,  *)
(* unless the sender disconnected meanwhile in another room                *)
(* (MediaBindTool.ts:137).                                                 *)
LinkComplete == \A r \in Rooms : task[r].at = "linked" /\ ~crossed => ToSet(task[r].want) \subseteq bound

(* What a flow does in the end answers to what it was asked and given:     *)
(* the message forwarded, the document sent, the accounts connected.       *)
FlowsTrue == ForwardBacked /\ DocumentsRight /\ LinkComplete
=============================================================================
