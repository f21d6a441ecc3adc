----------------------------- MODULE Downloads -----------------------------
(***************************************************************************)
(* Media downloads: saveMediaStream of src/utils/MediaStorage.ts over the  *)
(* semaphores of src/providers/media.ts.  A download takes a slot, then as *)
(* many bytes of the common budget as its announced length, or its limit   *)
(* if none was announced; a stream that turns out longer takes more bytes  *)
(* while it holds those it has.  In the end it takes the one I/O slot to   *)
(* put its file in place.  Bytes are counted in chunks.                    *)
(*                                                                         *)
(* A waiter that is woken holds its permits from then on, although its     *)
(* code continues later.  Streams may fail, callers that gave a signal     *)
(* abort at any time.                                                      *)
(* validateContentLength refuses a download that announces more than its   *)
(* limit before it takes anything; such a download is none here.           *)
(***************************************************************************)
EXTENDS Semaphore, FiniteSets

CONSTANTS
  Downloads,
  Slots,      \* capacity of globalMediaDownloadSlots
  Budget,     \* HARD_MEDIA_MAX_BYTES, the capacity of globalMediaByteBudget
  Limit,      \* maxBytes of each download
  Announced,  \* its content length, 0 if unknown
  Length,     \* what its stream really holds
  Signalled   \* the downloads whose caller gave an AbortSignal

ASSUME DownloadsAssumption ==
  /\ IsFiniteSet(Downloads)
  /\ {Slots, Budget} \subseteq Nat \ {0}
  /\ Limit \in [Downloads -> 1..Budget]
  /\ Announced \in [Downloads -> Nat] /\ \A d \in Downloads : Announced[d] <= Limit[d]
  /\ Length \in [Downloads -> Nat \ {0}]
  /\ Signalled \subseteq Downloads

VARIABLES
  slots, bytes, io,  \* the semaphores
  step,              \* where each download is
  reserved,          \* bytes of the budget it holds
  bytesWritten,      \* of its temporary file
  aborted            \* its signal

downloadsVars == <<slots, bytes, io, step, reserved, bytesWritten, aborted>>

Step == {"new", "awaitSlot", "slotted", "awaitBytes", "streaming", "awaitMore",
         "awaitIo", "storing", "leaving", "settled"}

DownloadsInit ==
  /\ slots = NewSemaphore(Slots)
  /\ bytes = NewSemaphore(Budget)
  /\ io = NewSemaphore(1)
  /\ step = [d \in Downloads |-> "new"]
  /\ reserved = [d \in Downloads |-> 0]
  /\ bytesWritten = [d \in Downloads |-> 0]
  /\ aborted = [d \in Downloads |-> FALSE]

Goto(d, s) == step' = [step EXCEPT ![d] = s]

(* acquire asks for the signal only if it cannot take the permit at once.  *)
Start(d) ==
  /\ step[d] = "new"
  /\ \/ CanTake(slots, 1) /\ slots' = Take(slots, 1) /\ Goto(d, "slotted")
     \/ ~CanTake(slots, 1) /\ aborted[d] /\ slots' = slots /\ Goto(d, "settled")
     \/ ~CanTake(slots, 1) /\ ~aborted[d] /\ slots' = Wait(slots, d, 1) /\ Goto(d, "awaitSlot")
  /\ UNCHANGED <<bytes, io, reserved, bytesWritten, aborted>>

(* initialReservation *)
Reservation(d) == IF Announced[d] > 0 THEN Announced[d] ELSE Limit[d]

Reserve(d) ==
  /\ step[d] = "slotted"
  /\ \/ /\ CanTake(bytes, Reservation(d))
        /\ bytes' = Take(bytes, Reservation(d))
        /\ reserved' = [reserved EXCEPT ![d] = Reservation(d)]
        /\ Goto(d, "streaming")
     \/ /\ ~CanTake(bytes, Reservation(d)) /\ aborted[d]
        /\ Goto(d, "leaving")
        /\ UNCHANGED <<bytes, reserved>>
     \/ /\ ~CanTake(bytes, Reservation(d)) /\ ~aborted[d]
        /\ bytes' = Wait(bytes, d, Reservation(d))
        /\ Goto(d, "awaitBytes")
        /\ reserved' = reserved
  /\ UNCHANGED <<slots, io, bytesWritten, aborted>>

(* Mutant of WithinReservation: a stream may outgrow its reservation.      *)
WithinLimit(d) == bytesWritten[d] < Limit[d]

WithinReservation(d) == bytesWritten[d] < reserved[d]

(* Mutant of TooLong: one chunk beyond the limit passes.                   *)
TooLongByOne(d) == bytesWritten[d] > Limit[d]

TooLong(d) == bytesWritten[d] >= Limit[d]

(* A chunk: refused if aborted or beyond the limit; written within the     *)
(* reservation; or the reservation grows first.                            *)
TakeChunk(d) ==
  /\ step[d] = "streaming" /\ bytesWritten[d] < Length[d]
  /\ \/ /\ aborted[d] \/ TooLong(d)
        /\ Goto(d, "leaving")
        /\ UNCHANGED <<bytes, reserved, bytesWritten>>
     \/ /\ ~aborted[d] /\ ~TooLong(d) /\ WithinReservation(d)
        /\ bytesWritten' = [bytesWritten EXCEPT ![d] = @ + 1]
        /\ UNCHANGED <<bytes, reserved, step>>
     \/ /\ ~aborted[d] /\ ~TooLong(d) /\ ~WithinReservation(d) /\ CanTake(bytes, 1)
        /\ bytes' = Take(bytes, 1)
        /\ reserved' = [reserved EXCEPT ![d] = @ + 1]
        /\ bytesWritten' = [bytesWritten EXCEPT ![d] = @ + 1]
        /\ step' = step
     \/ /\ ~aborted[d] /\ ~TooLong(d) /\ ~WithinReservation(d) /\ ~CanTake(bytes, 1)
        /\ bytes' = Wait(bytes, d, 1)
        /\ Goto(d, "awaitMore")
        /\ UNCHANGED <<reserved, bytesWritten>>
  /\ UNCHANGED <<slots, io, aborted>>

(* The stream ends; the I/O slot is waited for without a signal.           *)
EndOfStream(d) ==
  /\ step[d] = "streaming" /\ bytesWritten[d] = Length[d]
  /\ IF CanTake(io, 1) THEN io' = Take(io, 1) /\ Goto(d, "storing")
     ELSE io' = Wait(io, d, 1) /\ Goto(d, "awaitIo")
  /\ UNCHANGED <<slots, bytes, reserved, bytesWritten, aborted>>

(* The stream or the disk fails. *)
Fail(d) ==
  /\ step[d] = "streaming"
  /\ Goto(d, "leaving")
  /\ UNCHANGED <<slots, bytes, io, reserved, bytesWritten, aborted>>

(* The file is put in place, or that fails; the I/O slot is handed on.     *)
StoreFile(d) ==
  /\ step[d] = "storing"
  /\ io' = Release(io, 1)
  /\ step' = [x \in Downloads |->
                IF x = d THEN "leaving"
                ELSE IF x \in Woken(io, 1) THEN "storing" ELSE step[x]]
  /\ UNCHANGED <<slots, bytes, reserved, bytesWritten, aborted>>

(* Mutant of Held: only the initial reservation is given back.             *)
HeldAtFirst(d) == IF reserved[d] = 0 THEN 0 ELSE Reservation(d)

Held(d) == reserved[d]

(* The finally clause: what is held goes to those who wait.                *)
Leave(d) ==
  LET fed == Woken(bytes, Held(d))
      let_in == Woken(slots, 1)
  IN  /\ step[d] = "leaving"
      /\ bytes' = Release(bytes, Held(d))
      /\ slots' = Release(slots, 1)
      /\ step' = [x \in Downloads |->
           IF x = d THEN "settled"
           ELSE IF x \in fed THEN "streaming"
           ELSE IF x \in let_in THEN "slotted" ELSE step[x]]
      /\ reserved' = [x \in Downloads |->
           IF x = d THEN 0
           ELSE IF x \notin fed THEN reserved[x]
           ELSE IF step[x] = "awaitBytes" THEN Reservation(x) ELSE reserved[x] + 1]
      /\ bytesWritten' = [x \in Downloads |->
           IF x \in fed /\ step[x] = "awaitMore" THEN bytesWritten[x] + 1 ELSE bytesWritten[x]]
      /\ UNCHANGED <<io, aborted>>

(* A timeout, or the provider stops. *)
Abort(d) ==
  /\ d \in Signalled /\ ~aborted[d] /\ step[d] # "settled"
  /\ aborted' = [aborted EXCEPT ![d] = TRUE]
  /\ slots' = IF step[d] = "awaitSlot" THEN GiveUp(slots, d) ELSE slots
  /\ bytes' = IF step[d] \in {"awaitBytes", "awaitMore"} THEN GiveUp(bytes, d) ELSE bytes
  /\ step' = [step EXCEPT ![d] =
                IF @ = "awaitSlot" THEN "settled"
                ELSE IF @ \in {"awaitBytes", "awaitMore"} THEN "leaving" ELSE @]
  /\ UNCHANGED <<io, reserved, bytesWritten>>

Proceed(d) ==
  \/ Start(d) \/ Reserve(d) \/ TakeChunk(d) \/ EndOfStream(d) \/ Fail(d)
  \/ StoreFile(d) \/ Leave(d)

DownloadsNext == \E d \in Downloads : Proceed(d) \/ Abort(d)

DownloadsSpec == DownloadsInit /\ [][DownloadsNext]_downloadsVars

(* Streams deliver, end or fail, and so does the disk.                     *)
FairSpec == DownloadsSpec /\ \A d \in Downloads : WF_downloadsVars(Proceed(d))

-----------------------------------------------------------------------------
Waiter == [who : Downloads, permits : 1..Budget]

Semaphores(capacity) == [free : 0..capacity, queue : Seq(Waiter)]

(* Every variable holds a value of its kind; no file outgrows its limit.   *)
TypeOK ==
  /\ slots \in Semaphores(Slots) /\ bytes \in Semaphores(Budget) /\ io \in Semaphores(1)
  /\ step \in [Downloads -> Step]
  /\ reserved \in [Downloads -> 0..Budget]
  /\ \A d \in Downloads : bytesWritten[d] \in 0..Limit[d]
  /\ aborted \in [Downloads -> BOOLEAN]

(* However downloads end, and whoever gives up waiting, every permit is    *)
(* free or held by a download that will give it back (semaphore.ts:69-89,  *)
(* MediaStorage.ts:110-121, 157-160).                                      *)
PermitsConserved ==
  /\ slots.free + Cardinality({d \in Downloads :
       step[d] \notin {"new", "awaitSlot", "settled"}}) = Slots
  /\ bytes.free + MapThenSumSet(LAMBDA d : reserved[d], Downloads) = Budget
  /\ io.free + Cardinality({d \in Downloads : step[d] = "storing"}) = 1

InLine(s) == {s.queue[i].who : i \in DOMAIN s.queue}

(* Whoever waits is in one queue, once, and nobody else is: a permit is    *)
(* never handed to a download that gave up.                                *)
WaitersQueued ==
  /\ InLine(slots) = {d \in Downloads : step[d] = "awaitSlot"}
  /\ InLine(bytes) = {d \in Downloads : step[d] \in {"awaitBytes", "awaitMore"}}
  /\ InLine(io) = {d \in Downloads : step[d] = "awaitIo"}
  /\ \A s \in {slots, bytes, io} : Cardinality(InLine(s)) = Len(s.queue)

(* What is on disk of unfinished downloads is covered by the byte budget,  *)
(* also if they outgrow their announcement (MediaStorage.ts:108-124).      *)
DiskWithinBudget ==
  \A d \in Downloads : step[d] # "settled" => bytesWritten[d] <= reserved[d]

(* Every download that is started is over in the end, and stays so: the    *)
(* permits it waits for come back although those before it may give up     *)
(* (semaphore.ts:38-91).                                                   *)
(* It holds where every reservation fits beside what a growing download    *)
(* holds; otherwise only an abort ends their wait for each other.          *)
DownloadsSettle ==
  <>[](\A d \in Downloads : step[d] \in {"new", "settled"})

(* What three counting semaphores promise of files that are stored at once *)
(* (semaphore.ts:38-91, MediaStorage.ts:108-160): no permit lost or made,  *)
(* none kept from a waiter or given to one that left, no byte unpaid for.  *)
BudgetKept == PermitsConserved /\ WaitersQueued /\ DiskWithinBudget
=============================================================================
