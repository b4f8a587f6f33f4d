---------------------------- MODULE IdPhotoBatch ----------------------------
(***************************************************************************)
(* The ID photo batches: a request creates a batch of people and hands it  *)
(* to a queue in the memory of the backend; one drain loop takes a batch   *)
(* at a time and makes one card at a time; a person can be asked for       *)
(* again, redone on its own or deleted at any moment; a watchdog closes    *)
(* the batches that lost their worker.  Nothing here runs in a             *)
(* transaction: every database call is a step of its own.                  *)
(*                                                                         *)
(* Source: src/src/modules/id-photo/id-photo-batch.worker.ts (drain loop   *)
(* and watchdog), id-photo-batch.service.ts (create, retry, remerge) and   *)
(* id-photo.service.ts (exportPdf, remergeOutfit, remove).                 *)
(*                                                                         *)
(* Abstractions.  An image is there or not; the pauses between two calls   *)
(* of the image service and after a rate limit take no step; a batch the   *)
(* watchdog may close has been left alone for any time, twelve minutes or  *)
(* less (Orphans says why that is enough).  An error of count() escapes    *)
(* the drain loop, whose promise nobody handles, and ends the process: it  *)
(* is one of the moments Crash covers.                                     *)
(***************************************************************************)
EXTENDS Integers, Sequences, FiniteSets

CONSTANTS
  Person,       \* people, numbered in the order their rows are created
  Batch,        \* batches
  BatchOf,      \* the batch a person belongs to
  NoBatch,
  Client,       \* requests that can be in flight at a time
  MaxTries,     \* length of RATE_LIMIT_BACKOFF_MS: calls repeated after a rate limit
  MaxAsks,      \* bound of the model on requests of users after the creation
  MaxFaults     \* bound of the model on database errors and crashes

NoPerson == 0

ASSUME PhotoAssumption ==
  /\ Person \subseteq Nat \ {NoPerson}
  /\ BatchOf \in [Person -> Batch]
  /\ NoBatch \notin Batch /\ IsFiniteSet(Batch)
  /\ MaxTries \in Nat /\ MaxAsks \in Nat /\ MaxFaults \in Nat

VARIABLES
  pstat,     \* IdPhotoHistory.status; "ABSENT" before the row, "GONE" after remove()
  image,     \* IdPhotoHistory.processed_image_data is there
  pdf,       \* IdPhotoHistory.pdf_url is there
  bstat,     \* IdPhotoBatchJob.status
  queue,     \* IdPhotoBatchWorker.queue; its head is the batch in work
  worker,    \* where drain() is: step, person in work, calls already repeated
  op,        \* where each request is
  cron,      \* where the watchdog is: the orphans it has left, the one in work
  asks,      \* requests made so far (bound)
  faults,    \* errors and crashes so far (bound)
  lost,      \* history: people a fault left waiting in a closed batch
  missed,    \* history: people the watchdog's second write closed the batch
             \* over, or created after the last count of its leftovers
  overtaken, \* history: people reset after exportPdf() read their card
  redone     \* history: people redone apart while they had no PDF

rows    == <<pstat, image, pdf>>
ghosts  == <<lost, missed, overtaken, redone>>
bounds  == <<asks, faults>>
photoVars == <<rows, bstat, queue, worker, op, cron, bounds, ghosts>>

Waiting == {"PENDING", "PROCESSING"}
Settled == {"SUCCESS", "FAILED"}
Open    == {"PENDING", "PROCESSING"}
Closed  == {"COMPLETED", "FAILED"}

PeopleOf(b) == {p \in Person : BatchOf[p] = b}
HasRow(p)   == pstat[p] \notin {"ABSENT", "GONE"}
First(S)    == CHOOSE p \in S : \A q \in S : p <= q

Off      == [step |-> "off", person |-> NoPerson, tries |-> 0]
At(s)    == [step |-> s, person |-> NoPerson, tries |-> 0]
With(p, s) == [step |-> s, person |-> p, tries |-> 0]
Idle     == [step |-> "idle", person |-> NoPerson, batch |-> NoBatch]
Asleep   == [todo |-> {}, batch |-> NoBatch]

PhotoInit ==
  /\ pstat = [p \in Person |-> "ABSENT"]
  /\ image = [p \in Person |-> FALSE]
  /\ pdf = [p \in Person |-> FALSE]
  /\ bstat = [b \in Batch |-> "ABSENT"]
  /\ queue = <<>>
  /\ worker = Off
  /\ op = [c \in Client |-> Idle]
  /\ cron = Asleep
  /\ asks = 0 /\ faults = 0
  /\ lost = {} /\ missed = {} /\ overtaken = {} /\ redone = {}

-----------------------------------------------------------------------------
(* What the steps share.                                                   *)

WriteJob(b, s) == bstat' = [bstat EXCEPT ![b] = s]

Tracked(b) == \E i \in DOMAIN queue : queue[i] = b

\* Mutant: a batch already queued is queued again.
BadEnqueue(b) ==
  /\ queue' = Append(queue, b)
  /\ worker' = IF worker.step = "off" THEN At("begin") ELSE worker

\* enqueue(): a batch already queued is left where it is, and a drain loop
\* already running picks it up by itself.
Enqueue(b) ==
  /\ queue' = IF Tracked(b) THEN queue ELSE Append(queue, b)
  /\ worker' = IF worker.step = "off" THEN At("begin") ELSE worker

\* The batch at the head leaves the queue and the loop goes on.
Leave ==
  /\ queue' = Tail(queue)
  /\ worker' = IF Tail(queue) = <<>> THEN Off ELSE At("begin")

InWork == queue[1]

\* Somebody will still bring batch b to its beginning: the loop, which has
\* not begun it or has yet to count its leftovers, or a request in flight.
\* An enqueue() that finds the batch in the queue brings nothing.
Served(b) ==
  \/ Tracked(b) /\ (b = InWork => worker.step \in {"begin", "count"})
  \/ \E c \in Client : op[c].batch = b /\ op[c].step = "touch"
  \/ ~ Tracked(b) /\ \E c \in Client : /\ op[c].batch = b
                                      /\ op[c].step \in {"items", "enqueue"}

\* People who wait in a closed batch that nobody will open again; the one
\* in work is settled all the same.
Stranded ==
  {p \in Person : /\ pstat[p] \in Waiting /\ p # worker.person
                  /\ bstat[BatchOf[p]] \in Closed
                  /\ ~ Served(BatchOf[p])}

\* What an error or a crash adds to the history: whom it strands.
Blame == lost' = lost \cup Stranded' /\ UNCHANGED <<missed, overtaken, redone>>

Faulty == faults < MaxFaults /\ faults' = faults + 1

-----------------------------------------------------------------------------
(* createBatch(): the parent row, the people one after the other, the      *)
(* queue.                                                                  *)

CreateBatch(c, b) ==
  /\ op[c] = Idle /\ bstat[b] = "ABSENT"
  /\ WriteJob(b, "PENDING")
  /\ op' = [op EXCEPT ![c] = [step |-> "items", person |-> NoPerson, batch |-> b]]
  /\ UNCHANGED <<rows, queue, worker, cron, bounds, ghosts>>

NotCreated(b) == {p \in PeopleOf(b) : pstat[p] = "ABSENT"}

CreateItem(c) ==
  LET b == op[c].batch
      p == First(NotCreated(b))
  IN
  /\ op[c].step = "items" /\ NotCreated(b) # {}
  /\ pstat' = [pstat EXCEPT ![p] = "PENDING"]
  /\ missed' = IF bstat[b] \in Closed /\ ~ Served(b) THEN missed \cup {p} ELSE missed
  /\ UNCHANGED <<image, pdf, bstat, queue, worker, op, cron, bounds, lost, overtaken, redone>>

CreateDone(c) ==
  /\ op[c].step = "items" /\ NotCreated(op[c].batch) = {}
  /\ Enqueue(op[c].batch)
  /\ op' = [op EXCEPT ![c] = Idle]
  /\ UNCHANGED <<rows, bstat, cron, bounds, ghosts>>

\* A row cannot be created: the batch becomes FAILED, unless that write
\* fails too; the people created so far keep their PENDING.
CreateFails(c) ==
  /\ op[c].step = "items" /\ NotCreated(op[c].batch) # {}
  /\ Faulty
  /\ WriteJob(op[c].batch, "FAILED") \/ UNCHANGED bstat
  /\ op' = [op EXCEPT ![c] = Idle]
  /\ UNCHANGED <<rows, queue, worker, cron, asks>>
  /\ Blame

-----------------------------------------------------------------------------
(* The requests about one person.                                          *)

Ask(c, p, s) ==
  /\ op[c] = Idle /\ asks < MaxAsks
  /\ asks' = asks + 1
  /\ op' = [op EXCEPT ![c] = [step |-> s, person |-> p, batch |-> BatchOf[p]]]
  /\ UNCHANGED <<rows, bstat, queue, worker, cron, faults, ghosts>>

\* requeuePerson(): retry takes a FAILED person, remerge a SUCCESS one; from
\* here on both do the same.
Requeue(c, p) == pstat[p] \in Settled /\ Ask(c, p, "reset")

\* remergeOutfit(): no look at the status; the image service is called next.
Remerge(c, p) == HasRow(p) /\ Ask(c, p, "remerge")

\* The person back to PENDING, the old card erased, whatever the row has
\* become since it was read.
ResetPerson(c) ==
  LET p == op[c].person IN
  /\ op[c].step = "reset" /\ HasRow(p)
  /\ pstat' = [pstat EXCEPT ![p] = "PENDING"]
  /\ image' = [image EXCEPT ![p] = FALSE]
  /\ pdf' = [pdf EXCEPT ![p] = FALSE]
  /\ overtaken' = IF worker.person = p /\ worker.step \in {"savePdf", "success"}
                    THEN overtaken \cup {p} ELSE overtaken \ {p}
  /\ lost' = lost \ {p} /\ missed' = missed \ {p} /\ redone' = redone \ {p}
  /\ op' = [op EXCEPT ![c].step = "touch"]
  /\ UNCHANGED <<bstat, queue, worker, cron, bounds>>

TouchBatch(c) ==
  /\ op[c].step = "touch"
  /\ WriteJob(op[c].batch, "PROCESSING")
  /\ op' = [op EXCEPT ![c].step = "enqueue"]
  /\ UNCHANGED <<rows, queue, worker, cron, bounds, ghosts>>

EnqueueBatch(c) ==
  /\ op[c].step = "enqueue"
  /\ Enqueue(op[c].batch)
  /\ op' = [op EXCEPT ![c] = Idle]
  /\ UNCHANGED <<rows, bstat, cron, bounds, ghosts>>

\* The new image comes with SUCCESS; the PDF address stays what it was.
SaveRemerge(c) ==
  LET p == op[c].person IN
  /\ op[c].step = "remerge" /\ HasRow(p)
  /\ pstat' = [pstat EXCEPT ![p] = "SUCCESS"]
  /\ image' = [image EXCEPT ![p] = TRUE]
  /\ redone' = IF pdf[p] THEN redone ELSE redone \cup {p}
  /\ op' = [op EXCEPT ![c] = Idle]
  /\ UNCHANGED <<pdf, bstat, queue, worker, cron, bounds, lost, missed, overtaken>>

\* The image service refuses, or no PDF can be built of its answer.
RemergeFails(c) ==
  /\ op[c].step = "remerge"
  /\ op' = [op EXCEPT ![c] = Idle]
  /\ UNCHANGED <<rows, bstat, queue, worker, cron, bounds, ghosts>>

\* An update of a row that remove() deleted throws.
RequestThrows(c) ==
  /\ op[c].step \in {"reset", "remerge"} /\ ~ HasRow(op[c].person)
  /\ op' = [op EXCEPT ![c] = Idle]
  /\ UNCHANGED <<rows, bstat, queue, worker, cron, bounds, ghosts>>

\* A write of the request fails; what it has written stays.
RequestFails(c) ==
  /\ op[c].step \in {"reset", "touch"}
  /\ Faulty
  /\ op' = [op EXCEPT ![c] = Idle]
  /\ UNCHANGED <<rows, bstat, queue, worker, cron, asks>>
  /\ Blame

\* remove(): no look at the status either.
Remove(p) ==
  /\ HasRow(p) /\ asks < MaxAsks
  /\ asks' = asks + 1
  /\ pstat' = [pstat EXCEPT ![p] = "GONE"]
  /\ UNCHANGED <<image, pdf, bstat, queue, worker, op, cron, faults, ghosts>>

-----------------------------------------------------------------------------
(* drain() and processBatch().                                             *)

Begin ==
  /\ worker.step = "begin"
  /\ WriteJob(InWork, "PROCESSING")
  /\ worker' = At("recover")
  /\ UNCHANGED <<rows, queue, op, cron, bounds, ghosts>>

\* People a crash left in PROCESSING wait again.
Recover ==
  /\ worker.step = "recover"
  /\ pstat' = [p \in Person |->
                 IF BatchOf[p] = InWork /\ pstat[p] = "PROCESSING"
                   THEN "PENDING" ELSE pstat[p]]
  /\ worker' = At("find")
  /\ UNCHANGED <<image, pdf, bstat, queue, op, cron, bounds, ghosts>>

Pending(b) == {p \in PeopleOf(b) : pstat[p] = "PENDING"}

Find ==
  /\ worker.step = "find"
  /\ worker' = IF Pending(InWork) = {} THEN At("close")
               ELSE With(First(Pending(InWork)), "mark")
  /\ UNCHANGED <<rows, bstat, queue, op, cron, bounds, ghosts>>

Mark ==
  /\ worker.step = "mark" /\ HasRow(worker.person)
  /\ pstat' = [pstat EXCEPT ![worker.person] = "PROCESSING"]
  /\ worker' = [worker EXCEPT !.step = "merge"]
  /\ UNCHANGED <<image, pdf, bstat, queue, op, cron, bounds, ghosts>>

Close ==
  /\ worker.step = "close"
  /\ WriteJob(InWork, "COMPLETED")
  /\ worker' = At("count")
  /\ UNCHANGED <<rows, queue, op, cron, bounds, ghosts>>

\* Mutant: nobody looks for leftovers before the batch leaves the queue.
BadCount ==
  /\ worker.step = "count"
  /\ worker' = At("leave")
  /\ UNCHANGED <<rows, bstat, queue, op, cron, bounds, ghosts>>

\* The count of the leftovers: a person may have been reset while the batch
\* was being closed.
Count ==
  /\ worker.step = "count"
  /\ worker' = IF Pending(InWork) = {} THEN At("leave") ELSE At("begin")
  /\ UNCHANGED <<rows, bstat, queue, op, cron, bounds, ghosts>>

\* Only with the answer of the count does the batch leave the queue,
\* whatever has become of its people meanwhile.
Shift ==
  /\ worker.step = "leave"
  /\ Leave
  /\ UNCHANGED <<rows, bstat, op, cron, bounds, ghosts>>

\* A database error of the loop, outside of one person's try: the batch
\* leaves the queue as it is.
LoopFails ==
  /\ worker.step \in {"begin", "recover", "find", "mark", "fail", "beat", "close"}
  /\ Faulty
  /\ Leave
  /\ UNCHANGED <<rows, bstat, op, cron, asks>>
  /\ Blame

\* So does the deletion of the person the loop is about to mark or to fail.
LoopThrows ==
  /\ worker.step \in {"mark", "fail"} /\ ~ HasRow(worker.person)
  /\ Leave
  /\ UNCHANGED <<rows, bstat, op, cron, bounds, ghosts>>

-----------------------------------------------------------------------------
(* processPerson().                                                        *)

PersonStep(from, to) ==
  /\ worker.step = from
  /\ worker' = [worker EXCEPT !.step = to]

Merge ==
  /\ PersonStep("merge", "saveImage") \/ PersonStep("merge", "fail")
  /\ UNCHANGED <<rows, bstat, queue, op, cron, bounds, ghosts>>

RateLimited ==
  /\ worker.step = "merge" /\ worker.tries < MaxTries
  /\ worker' = [worker EXCEPT !.tries = @ + 1]
  /\ UNCHANGED <<rows, bstat, queue, op, cron, bounds, ghosts>>

SaveImage ==
  /\ PersonStep("saveImage", "readCard") /\ HasRow(worker.person)
  /\ image' = [image EXCEPT ![worker.person] = TRUE]
  /\ UNCHANGED <<pstat, pdf, bstat, queue, op, cron, bounds, ghosts>>

\* Mutant: a card whose PDF cannot be built counts as finished.
BadPdfFails ==
  /\ PersonStep("readCard", "success")
  /\ UNCHANGED <<rows, bstat, queue, op, cron, bounds, ghosts>>

\* exportPdf(): it reads the row and refuses one without an image; then the
\* build of the PDF, which may fail; then its address.
ReadCard ==
  /\ PersonStep("readCard", "savePdf")
  /\ HasRow(worker.person) /\ image[worker.person]
  /\ UNCHANGED <<rows, bstat, queue, op, cron, bounds, ghosts>>

PdfFails ==
  /\ PersonStep("readCard", "fail")
  /\ UNCHANGED <<rows, bstat, queue, op, cron, bounds, ghosts>>

SavePdf ==
  /\ PersonStep("savePdf", "success") /\ HasRow(worker.person)
  /\ pdf' = [pdf EXCEPT ![worker.person] = TRUE]
  /\ UNCHANGED <<pstat, image, bstat, queue, op, cron, bounds, ghosts>>

Succeed ==
  /\ PersonStep("success", "beat") /\ HasRow(worker.person)
  /\ pstat' = [pstat EXCEPT ![worker.person] = "SUCCESS"]
  /\ UNCHANGED <<image, pdf, bstat, queue, op, cron, bounds, ghosts>>

\* A write of the person fails, for a database error or because the row is
\* gone: the catch of the loop over the attempts records the failure.
PersonWriteFails ==
  /\ worker.step \in {"saveImage", "savePdf", "success"}
  /\ IF HasRow(worker.person) THEN Faulty ELSE UNCHANGED faults
  /\ worker' = [worker EXCEPT !.step = "fail"]
  /\ UNCHANGED <<rows, bstat, queue, op, cron, asks, ghosts>>

FailPerson ==
  /\ PersonStep("fail", "beat") /\ HasRow(worker.person)
  /\ pstat' = [pstat EXCEPT ![worker.person] = "FAILED"]
  /\ UNCHANGED <<image, pdf, bstat, queue, op, cron, bounds, ghosts>>

\* bumpHeartbeat()
Beat ==
  /\ worker.step = "beat"
  /\ WriteJob(InWork, "PROCESSING")
  /\ worker' = At("find")
  /\ UNCHANGED <<rows, queue, op, cron, bounds, ghosts>>

-----------------------------------------------------------------------------
(* reconcileStuckIdPhotoBatchJobs(), time and crashes.                     *)

\* A request that has just written the row of the batch and will bring it
\* to the queue in less than twelve minutes.
JustWritten(b) ==
  \E c \in Client : op[c].batch = b /\ op[c].step \in {"items", "enqueue"}

\* Mutant: a batch nobody has begun is not looked for.
BadOrphans == {b \in Batch : bstat[b] = "PROCESSING" /\ ~ Tracked(b) /\ ~ JustWritten(b)}

\* The open batches without a write for twelve minutes that this process
\* does not hold.  The row of such a batch is written by nobody else: it may
\* be of any age.
Orphans == {b \in Batch : bstat[b] \in Open /\ ~ Tracked(b) /\ ~ JustWritten(b)}

Scan ==
  /\ cron = Asleep
  /\ \E old \in (SUBSET Orphans) \ {{}} : cron' = [todo |-> old, batch |-> NoBatch]
  /\ UNCHANGED <<rows, bstat, queue, worker, op, bounds, ghosts>>

\* One orphan at a time, whatever it has become since the scan: its people
\* first, then the batch.
FailItems(b) ==
  /\ cron.batch = NoBatch /\ b \in cron.todo
  /\ pstat' = [p \in Person |->
                 IF BatchOf[p] = b /\ pstat[p] \in Waiting THEN "FAILED" ELSE pstat[p]]
  /\ cron' = [todo |-> cron.todo \ {b}, batch |-> b]
  /\ UNCHANGED <<image, pdf, bstat, queue, worker, op, bounds, ghosts>>

\* Whoever waits in the batch by then came after the first of the two writes.
FailJob ==
  /\ cron.batch # NoBatch
  /\ IF bstat[cron.batch] \in Open
       THEN /\ WriteJob(cron.batch, "FAILED")
            /\ missed' = missed \cup {p \in PeopleOf(cron.batch) : pstat[p] \in Waiting}
       ELSE UNCHANGED <<bstat, missed>>
  /\ cron' = [cron EXCEPT !.batch = NoBatch]
  /\ UNCHANGED <<rows, queue, worker, op, bounds, lost, overtaken, redone>>

\* An error leaves the orphan to a later round.
ReconcileFails ==
  /\ \/ /\ cron.batch # NoBatch
        /\ cron' = [cron EXCEPT !.batch = NoBatch]
     \/ \E b \in cron.todo :
          /\ cron.batch = NoBatch
          /\ cron' = [cron EXCEPT !.todo = @ \ {b}]
  /\ Faulty
  /\ UNCHANGED <<rows, bstat, queue, worker, op, asks, ghosts>>

\* The process ends: the queue, the loop and what is in flight are gone.
Crash ==
  /\ Faulty
  /\ queue' = <<>>
  /\ worker' = Off
  /\ op' = [c \in Client |-> Idle]
  /\ cron' = Asleep
  /\ UNCHANGED <<rows, bstat, asks>>
  /\ Blame

-----------------------------------------------------------------------------

DrainStep ==
  \/ Begin \/ Recover \/ Find \/ Mark \/ Close \/ Count \/ Shift \/ LoopThrows
  \/ Merge \/ RateLimited \/ SaveImage \/ ReadCard \/ PdfFails \/ SavePdf
  \/ Succeed \/ PersonWriteFails \/ FailPerson \/ Beat

\* What a request in flight does next.
RequestStep(c) ==
  \/ CreateItem(c) \/ CreateDone(c)
  \/ ResetPerson(c) \/ TouchBatch(c) \/ EnqueueBatch(c)
  \/ SaveRemerge(c) \/ RemergeFails(c) \/ RequestThrows(c)

WatchdogStep ==
  \/ Scan \/ FailJob
  \/ \E b \in Batch : FailItems(b)

PhotoNext ==
  \/ DrainStep
  \/ WatchdogStep
  \/ \E c \in Client : RequestStep(c)
  \/ \E c \in Client, b \in Batch : CreateBatch(c, b)
  \/ \E c \in Client, p \in Person : Requeue(c, p) \/ Remerge(c, p)
  \/ \E p \in Person : Remove(p)
  \/ \E c \in Client : CreateFails(c) \/ RequestFails(c)
  \/ LoopFails \/ ReconcileFails \/ Crash

\* The drain loop and a request run on once started; the watchdog comes
\* round every two minutes.  Nothing says that a user asks, or
\* that anything fails.
PhotoFairness ==
  /\ WF_photoVars(DrainStep)
  /\ WF_photoVars(WatchdogStep)
  /\ \A c \in Client : WF_photoVars(RequestStep(c))

PhotoSpec == PhotoInit /\ [][PhotoNext]_photoVars /\ PhotoFairness

-----------------------------------------------------------------------------
(* Properties.                                                             *)

PhotoTypeOK ==
  /\ pstat \in [Person -> {"ABSENT", "GONE"} \cup Waiting \cup Settled]
  /\ image \in [Person -> BOOLEAN] /\ pdf \in [Person -> BOOLEAN]
  /\ bstat \in [Batch -> {"ABSENT"} \cup Open \cup Closed]
  /\ queue \in Seq(Batch) /\ Len(queue) <= Cardinality(Batch)
  /\ worker.step = "off" \/ queue # <<>>
  /\ op \in [Client -> [step : {"idle", "items", "reset", "touch", "enqueue", "remerge"},
                        person : Person \cup {NoPerson}, batch : Batch \cup {NoBatch}]]
  /\ cron \in [todo : SUBSET Batch, batch : Batch \cup {NoBatch}]

\* Nobody waits in a closed batch, where the watchdog does not look and a
\* retry is refused, unless the loop or a request will open it again.  The
\* closing of a batch, the retries, the redone cards and the deletions may
\* meet in any order: drain() counts the leftovers before a batch leaves the
\* queue, and a request that comes after the count opens the batch for the
\* watchdog.  Two things only break this: a crash or a database error, and
\* whoever comes to wait between the watchdog's two writes or is created
\* after the count.
ClosedBatchIsSettled == Stranded \subseteq lost \cup missed

\* A finished card has its image and its PDF: a failure at any step of
\* processPerson() ends in FAILED, a reset erases the old card, and one that
\* comes while the image is merged, saved or read costs the card its success.
\* Only a reset after exportPdf() has read the card goes unnoticed, and
\* remergeOutfit() finishes a card without looking for its PDF.
CardComplete ==
  \A p \in Person :
    pstat[p] = "SUCCESS" => /\ image[p] \/ p \in overtaken
                            /\ pdf[p] \/ p \in overtaken \cup redone

\* Whoever waits is served or fails in the end, through crashes, database
\* errors and deletions in mid-batch, or is among those the previous property
\* leaves out.
EverybodySettled ==
  \A p \in Person :
    pstat[p] \in Waiting ~> pstat[p] \notin Waiting \/ p \in lost \cup missed
=============================================================================
