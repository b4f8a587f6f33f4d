------------------------- MODULE IdPhotoBatchProofs -------------------------
(***************************************************************************)
(* Proofs about the ID photo batches of IdPhotoBatch, for any number of    *)
(* people, batches, requests in flight, repeated calls and faults.         *)
(***************************************************************************)
EXTENDS IdPhotoBatch, FiniteSetTheorems, WellFoundedInduction, TLAPS

PersonSteps == {"mark", "merge", "saveImage", "readCard", "savePdf", "success", "fail"}

Worker == [step : {"off", "begin", "recover", "find", "beat", "close", "count", "leave"} \cup PersonSteps,
           person : Person \cup {NoPerson}, tries : Nat]

Request == [step : {"idle", "items", "reset", "touch", "enqueue", "remerge"},
            person : Person \cup {NoPerson}, batch : Batch \cup {NoBatch}]

Rows == /\ pstat \in [Person -> {"ABSENT", "GONE"} \cup Waiting \cup Settled]
        /\ image \in [Person -> BOOLEAN] /\ pdf \in [Person -> BOOLEAN]
        /\ bstat \in [Batch -> {"ABSENT"} \cup Open \cup Closed]

\* A batch is queued once.
QueueOnce == /\ queue \in Seq(Batch)
             /\ \A i, j \in 1..Len(queue) : queue[i] = queue[j] => i = j

Loop == /\ worker \in Worker
        /\ worker.step # "off" => queue # <<>>
        /\ worker.step \in PersonSteps => worker.person \in Person

Requests ==
  /\ op \in [Client -> Request]
  /\ \A c \in Client :
       /\ op[c].step \in {"items", "touch", "enqueue"} => op[c].batch \in Batch
       /\ op[c].step \in {"reset", "touch", "enqueue", "remerge"} =>
            op[c].person \in Person /\ op[c].batch = BatchOf[op[c].person]

Watchdog == cron \in [todo : SUBSET Batch, batch : Batch \cup {NoBatch}]

PhotoTyped == Rows /\ QueueOnce /\ Loop /\ Requests /\ Watchdog

-----------------------------------------------------------------------------
(* The queue.                                                              *)

LEMMA FirstIsIn ==
  ASSUME NEW S \in SUBSET Person, S # {} PROVE First(S) \in S
<1> DEFINE Less == OpToRel(<, Nat)
<1>1. S \subseteq Nat
  BY PhotoAssumption
<1>2. PICK p \in S : \A q \in S : ~ (<<q, p>> \in Less)
  BY <1>1, NatLessThanWellFounded, WFMin
<1>3. ASSUME NEW q \in S, q < p PROVE FALSE
  <2>1. <<q, p>> \in Nat \X Nat /\ <<q, p>>[1] = q /\ <<q, p>>[2] = p
    BY <1>1
  <2>2. <<q, p>> \in Less
    BY <1>3, <2>1 DEF OpToRel
  <2> QED  BY <1>2, <2>2
<1>4. \A q \in S : p <= q
  BY <1>1, <1>3
<1> QED  BY <1>4 DEF First

LEMMA EnqueueEffect ==
  ASSUME QueueOnce, Loop, NEW b \in Batch, Enqueue(b)
  PROVE  /\ QueueOnce' /\ Loop' /\ queue' # <<>>
         /\ \A x : Tracked(x)' <=> Tracked(x) \/ x = b
         /\ queue # <<>> => queue'[1] = queue[1]
         /\ worker' = worker \/ (worker.step = "off" /\ worker' = At("begin"))
<1>1. worker' = worker \/ (worker.step = "off" /\ worker' = At("begin"))
  BY DEF Enqueue
<1>2. At("begin") \in Worker /\ At("begin").step = "begin"
  BY DEF At, Worker
<1>3. CASE Tracked(b)
  <2>1. queue' = queue /\ queue # <<>>
    BY <1>3 DEF Enqueue, Tracked, QueueOnce
  <2> QED  BY <1>1, <1>2, <1>3, <2>1 DEF Tracked, QueueOnce, Loop, PersonSteps
<1>4. CASE ~ Tracked(b)
  <2>1. queue' = Append(queue, b) /\ queue \in Seq(Batch)
    BY <1>4 DEF Enqueue, QueueOnce
  <2>2. /\ queue' \in Seq(Batch) /\ queue' # <<>> /\ Len(queue') = Len(queue) + 1
        /\ queue'[Len(queue) + 1] = b /\ \A i \in 1..Len(queue) : queue'[i] = queue[i]
        /\ Len(queue) \in Nat /\ DOMAIN queue = 1..Len(queue) /\ DOMAIN queue' = 1..Len(queue')
    BY <2>1
  <2>3. \A i \in 1..Len(queue) : queue[i] # b
    BY <1>4, <2>2 DEF Tracked
  <2>4. QueueOnce'
    BY <2>2, <2>3 DEF QueueOnce
  <2>5. \A x : Tracked(x)' <=> Tracked(x) \/ x = b
    BY <2>2 DEF Tracked
  <2>6. queue # <<>> => queue'[1] = queue[1]
    BY <2>2, <2>1
  <2> QED  BY <1>1, <1>2, <2>2, <2>4, <2>5, <2>6 DEF Loop, PersonSteps
<1> QED  BY <1>3, <1>4

LEMMA LeaveEffect ==
  ASSUME QueueOnce, queue # <<>>, Leave
  PROVE  /\ QueueOnce' /\ Loop'
         /\ \A x : Tracked(x) => Tracked(x)' \/ x = InWork
         /\ \A x : Tracked(x)' => Tracked(x)
         /\ worker' \in {Off, At("begin")} /\ (queue' # <<>> => worker' = At("begin"))
<1>1. At("begin") \in Worker /\ At("begin").step = "begin" /\ Off \in Worker /\ Off.step = "off"
  BY DEF At, Off, Worker
<1>2. /\ queue \in Seq(Batch) /\ queue' = Tail(queue)
      /\ worker' = IF queue' = <<>> THEN Off ELSE At("begin")
  BY DEF QueueOnce, Leave
<1>3. /\ queue' \in Seq(Batch) /\ Len(queue) \in Nat \ {0} /\ Len(queue') = Len(queue) - 1
      /\ \A i \in 1..Len(queue') : queue'[i] = queue[i + 1]
      /\ DOMAIN queue = 1..Len(queue) /\ DOMAIN queue' = 1..Len(queue')
  BY <1>2
<1>4. QueueOnce'
  BY <1>3 DEF QueueOnce
<1>5. \A x : Tracked(x) => Tracked(x)' \/ x = InWork
  <2> SUFFICES ASSUME NEW x, NEW i \in 1..Len(queue), queue[i] = x, x # queue[1]
               PROVE  \E j \in 1..Len(queue') : queue'[j] = x
    BY <1>3 DEF Tracked, InWork
  <2>1. i - 1 \in 1..Len(queue') /\ (i - 1) + 1 = i
    BY <1>3
  <2> QED  BY <1>3, <2>1
<1>6. \A x : Tracked(x)' => Tracked(x)
  <2>1. ASSUME NEW i \in 1..Len(queue') PROVE i + 1 \in 1..Len(queue)
    BY <1>3
  <2> QED  BY <1>3, <2>1 DEF Tracked
<1> QED  BY <1>1, <1>2, <1>4, <1>5, <1>6 DEF Loop, PersonSteps

LEMMA InWorkTracked ==
  ASSUME QueueOnce, queue # <<>> PROVE InWork \in Batch /\ Tracked(InWork)
<1>1. 1 \in DOMAIN queue /\ queue[1] \in Batch
  BY DEF QueueOnce
<1> QED  BY <1>1 DEF InWork, Tracked

LEMMA QueueFits == ASSUME QueueOnce PROVE Len(queue) <= Cardinality(Batch)
<1>1. Len(queue) \in Nat /\ queue \in [1..Len(queue) -> Batch]
  BY DEF QueueOnce
<1>2. queue \in Injection(1..Len(queue), Batch)
  BY <1>1 DEF QueueOnce, Injection, IsInjective
<1>3. Cardinality(1..Len(queue)) <= Cardinality(Batch)
  BY <1>2, FS_Injection, PhotoAssumption
<1>4. ASSUME NEW n \in Nat  PROVE Cardinality(1..n) = n
  BY FS_Interval
<1> QED  BY <1>1, <1>3, <1>4
-----------------------------------------------------------------------------
(* Types.                                                                  *)

\* The steps of processPerson(), which make one person's card.
PersonAction ==
  \/ Merge \/ RateLimited \/ SaveImage \/ ReadCard \/ PdfFails \/ SavePdf
  \/ Succeed \/ PersonWriteFails \/ FailPerson

LEMMA PersonActionEffect ==
  ASSUME PhotoTyped, PersonAction
  PROVE  /\ worker.step \in PersonSteps /\ queue # <<>> /\ worker.person \in Person
         /\ worker'.step \in PersonSteps \cup {"beat"} /\ worker'.person = worker.person
         /\ Loop' /\ UNCHANGED <<bstat, queue, op, cron>>
<1>1. worker \in Worker
  BY DEF PhotoTyped, Loop
<1>2. /\ worker.step \in PersonSteps /\ UNCHANGED <<bstat, queue, op, cron>>
      /\ \/ \E s \in PersonSteps \cup {"beat"} : worker' = [worker EXCEPT !.step = s]
         \/ worker' = [worker EXCEPT !.tries = @ + 1]
  BY DEF PersonAction, PersonStep, Merge, RateLimited, SaveImage, ReadCard, PdfFails, SavePdf,
         Succeed, PersonWriteFails, FailPerson, PersonSteps
<1>3. queue # <<>> /\ worker.person \in Person
  BY <1>2 DEF PhotoTyped, Loop, PersonSteps
<1>4. CASE \E s \in PersonSteps \cup {"beat"} : worker' = [worker EXCEPT !.step = s]
  BY <1>1, <1>2, <1>3, <1>4 DEF Worker, Loop
<1>5. CASE worker' = [worker EXCEPT !.tries = @ + 1]
  BY <1>1, <1>2, <1>3, <1>5 DEF Worker, Loop
<1> QED  BY <1>2, <1>3, <1>4, <1>5

LEMMA PersonActionTyped ==
  ASSUME PhotoTyped, PersonAction PROVE PhotoTyped'
<1>1. Loop' /\ UNCHANGED <<bstat, queue, op, cron>> /\ worker.person \in Person
  BY PersonActionEffect
<1>2. /\ pstat' \in [Person -> {"ABSENT", "GONE"} \cup Waiting \cup Settled]
      /\ image' \in [Person -> BOOLEAN] /\ pdf' \in [Person -> BOOLEAN]
  BY <1>1 DEF PhotoTyped, Rows, PersonAction, Merge, RateLimited, SaveImage, ReadCard, PdfFails,
              SavePdf, Succeed, PersonWriteFails, FailPerson, Settled, rows
<1> QED
  BY <1>1, <1>2 DEF PhotoTyped, Rows, QueueOnce, Requests, Watchdog

\* The steps of drain() and processBatch() that leave the queue alone.
BatchAction == Begin \/ Recover \/ Find \/ Mark \/ Close \/ Count \/ Beat

LEMMA BatchActionEffect ==
  ASSUME PhotoTyped, BatchAction
  PROVE  /\ worker.step \in {"begin", "recover", "find", "mark", "close", "count", "beat"}
         /\ queue # <<>> /\ Loop' /\ UNCHANGED <<queue, op, cron>>
<1>1. /\ worker.step \in {"begin", "recover", "find", "mark", "close", "count", "beat"}
      /\ UNCHANGED <<queue, op, cron>>
  BY DEF BatchAction, Begin, Recover, Find, Mark, Close, Count, Beat
<1>2. queue # <<>> /\ worker \in Worker /\ (worker.step = "mark" => worker.person \in Person)
  BY <1>1 DEF PhotoTyped, Loop, PersonSteps
<1>3. ASSUME NEW s \in {"begin", "recover", "find", "close", "count", "leave"}, worker' = At(s) PROVE Loop'
  BY <1>1, <1>2, <1>3 DEF Loop, At, Worker, PersonSteps
<1>4. ASSUME NEW p \in Person, worker' = With(p, "mark") PROVE Loop'
  BY <1>1, <1>2, <1>4 DEF Loop, With, Worker, PersonSteps
<1>5. ASSUME Find PROVE Loop'
  <2>1. Pending(InWork) \in SUBSET Person
    BY DEF Pending, PeopleOf
  <2> QED  BY <1>3, <1>4, <1>5, <2>1, FirstIsIn DEF Find
<1>6. ASSUME Mark PROVE Loop'
  BY <1>1, <1>2, <1>6 DEF Mark, Loop, Worker, PersonSteps
<1> QED  BY <1>1, <1>2, <1>3, <1>5, <1>6 DEF BatchAction, Begin, Recover, Close, Count, Beat

LEMMA BatchActionTyped ==
  ASSUME PhotoTyped, BatchAction PROVE PhotoTyped'
<1>1. Loop' /\ UNCHANGED <<queue, op, cron>> /\ queue # <<>>
  BY BatchActionEffect
<1>2. worker.step = "mark" => worker.person \in Person
  BY DEF PhotoTyped, Loop, PersonSteps
<1>3. pstat' \in [Person -> {"ABSENT", "GONE"} \cup Waiting \cup Settled]
  <2>1. CASE Recover
    BY <2>1 DEF Recover, PhotoTyped, Rows, Waiting
  <2>2. CASE Mark
    BY <1>2, <2>2 DEF Mark, PhotoTyped, Rows, Waiting
  <2> QED  BY <2>1, <2>2 DEF BatchAction, Begin, Find, Close, Count, Beat, PhotoTyped, Rows, rows
<1>4. image' = image /\ pdf' = pdf
  BY DEF BatchAction, Begin, Recover, Find, Mark, Close, Count, Beat, rows
<1>5. bstat' \in [Batch -> {"ABSENT"} \cup Open \cup Closed]
  <2>1. bstat' = bstat \/ WriteJob(InWork, "PROCESSING") \/ WriteJob(InWork, "COMPLETED")
    BY DEF BatchAction, Begin, Recover, Find, Mark, Close, Count, Beat
  <2> QED  BY <2>1 DEF WriteJob, PhotoTyped, Rows, Open, Closed
<1> QED
  BY <1>1, <1>3, <1>4, <1>5 DEF PhotoTyped, Rows, QueueOnce, Requests, Watchdog

\* A batch leaves the queue, or the crash takes them all.
LEMMA LeaveTyped ==
  ASSUME PhotoTyped, Shift \/ LoopThrows \/ LoopFails PROVE PhotoTyped'
<1>1. queue # <<>> /\ UNCHANGED <<rows, bstat, op, cron>> /\ Leave
  BY DEF Shift, LoopThrows, LoopFails, PhotoTyped, Loop
<1>2. QueueOnce' /\ Loop'
  BY <1>1, LeaveEffect DEF PhotoTyped
<1> QED  BY <1>1, <1>2 DEF PhotoTyped, Rows, rows, Requests, Watchdog

LEMMA CrashTyped ==
  ASSUME PhotoTyped, Crash PROVE PhotoTyped'
<1>1. /\ queue' = <<>> /\ worker' = Off /\ op' = [c \in Client |-> Idle] /\ cron' = Asleep
      /\ UNCHANGED <<rows, bstat>>
  BY DEF Crash
<1>2. QueueOnce' /\ Loop'
  BY <1>1 DEF QueueOnce, Loop, Off, Worker, PersonSteps
<1>3. Requests' /\ Watchdog'
  BY <1>1 DEF Requests, Request, Idle, Watchdog, Asleep
<1> QED  BY <1>1, <1>2, <1>3 DEF PhotoTyped, Rows, rows

LEMMA RequestEnds ==
  ASSUME Requests, NEW c \in Client, op' = [op EXCEPT ![c] = Idle] PROVE Requests'
<1>1. Idle \in Request /\ Idle.step = "idle"
  BY DEF Idle, Request
<1> QED  BY <1>1 DEF Requests

LEMMA RequestGoesOn ==
  ASSUME Requests, NEW c \in Client, op[c].step \in {"reset", "touch"},
         NEW s \in {"touch", "enqueue"}, op' = [op EXCEPT ![c].step = s]
  PROVE  Requests'
<1>1. op[c] \in Request /\ op[c].person \in Person /\ op[c].batch = BatchOf[op[c].person]
  BY DEF Requests
<1>2. /\ op'[c] \in Request /\ op'[c].step = s /\ op'[c].person = op[c].person
      /\ op'[c].batch = op[c].batch /\ op[c].batch \in Batch
  BY <1>1, PhotoAssumption DEF Requests, Request
<1> QED  BY <1>1, <1>2 DEF Requests

LEMMA RequestTyped ==
  ASSUME PhotoTyped, NEW c \in Client, RequestStep(c) PROVE PhotoTyped'
<1> USE DEF PhotoTyped
<1>1. CASE CreateItem(c)
  <2>1. /\ op[c].batch \in Batch /\ NotCreated(op[c].batch) \in SUBSET Person
        /\ NotCreated(op[c].batch) # {}
    BY <1>1 DEF CreateItem, Requests, NotCreated, PeopleOf
  <2>2. First(NotCreated(op[c].batch)) \in Person
    BY <2>1, FirstIsIn
  <2> QED
    BY <1>1, <2>2 DEF CreateItem, Rows, Waiting, QueueOnce, Loop, Requests, Watchdog
<1>2. CASE CreateDone(c) \/ EnqueueBatch(c)
  <2>1. /\ op[c].batch \in Batch /\ Enqueue(op[c].batch) /\ op' = [op EXCEPT ![c] = Idle]
        /\ UNCHANGED <<rows, bstat, cron>>
    BY <1>2 DEF CreateDone, EnqueueBatch, Requests
  <2> QED  BY <2>1, EnqueueEffect, RequestEnds DEF Rows, rows, Watchdog
<1>3. CASE ResetPerson(c)
  <2>1. op[c].person \in Person /\ Requests'
    BY <1>3, RequestGoesOn DEF ResetPerson, Requests
  <2> QED  BY <1>3, <2>1 DEF ResetPerson, Rows, Waiting, QueueOnce, Loop, Watchdog
<1>4. CASE TouchBatch(c)
  <2>1. Requests'
    BY <1>4, RequestGoesOn DEF TouchBatch
  <2> QED  BY <1>4, <2>1 DEF TouchBatch, WriteJob, Rows, rows, Open, QueueOnce, Loop, Watchdog
<1>5. CASE SaveRemerge(c)
  <2>1. op[c].person \in Person /\ Requests'
    BY <1>5, RequestEnds DEF SaveRemerge, Requests
  <2> QED  BY <1>5, <2>1 DEF SaveRemerge, Rows, Settled, QueueOnce, Loop, Watchdog
<1>6. CASE RemergeFails(c) \/ RequestThrows(c)
  BY <1>6, RequestEnds DEF RemergeFails, RequestThrows, Rows, rows, QueueOnce, Loop, Watchdog
<1> QED  BY <1>1, <1>2, <1>3, <1>4, <1>5, <1>6 DEF RequestStep

\* Requests that begin, and those an error ends.
LEMMA AskTyped ==
  ASSUME PhotoTyped, NEW c \in Client, NEW p \in Person, Requeue(c, p) \/ Remerge(c, p)
  PROVE  PhotoTyped'
<1>1. PICK s \in {"reset", "remerge"} : Ask(c, p, s)
  BY DEF Requeue, Remerge
<1>2. [step |-> s, person |-> p, batch |-> BatchOf[p]] \in Request
  BY PhotoAssumption DEF Request
<1>3. Requests'
  BY <1>1, <1>2 DEF Ask, PhotoTyped, Requests
<1> QED  BY <1>1, <1>3 DEF Ask, PhotoTyped, Rows, rows, QueueOnce, Loop, Watchdog

LEMMA CreateTyped ==
  ASSUME PhotoTyped, NEW c \in Client, NEW b \in Batch, CreateBatch(c, b) PROVE PhotoTyped'
<1>1. [step |-> "items", person |-> NoPerson, batch |-> b] \in Request
  BY DEF Request
<1>2. Requests'
  BY <1>1 DEF CreateBatch, PhotoTyped, Requests
<1> QED
  BY <1>2 DEF CreateBatch, WriteJob, PhotoTyped, Rows, rows, Open, QueueOnce, Loop, Watchdog

LEMMA RequestErrorTyped ==
  ASSUME PhotoTyped, NEW c \in Client, CreateFails(c) \/ RequestFails(c) PROVE PhotoTyped'
<1>1. Requests' /\ UNCHANGED <<rows, queue, worker, cron>>
  BY RequestEnds DEF CreateFails, RequestFails, PhotoTyped
<1>2. bstat' \in [Batch -> {"ABSENT"} \cup Open \cup Closed]
  BY DEF CreateFails, RequestFails, WriteJob, PhotoTyped, Rows, Closed
<1> QED  BY <1>1, <1>2 DEF PhotoTyped, Rows, rows, QueueOnce, Loop, Watchdog

LEMMA RemoveTyped ==
  ASSUME PhotoTyped, NEW p \in Person, Remove(p) PROVE PhotoTyped'
  BY DEF Remove, PhotoTyped, Rows, QueueOnce, Loop, Requests, Watchdog

LEMMA WatchdogTyped ==
  ASSUME PhotoTyped, WatchdogStep \/ ReconcileFails PROVE PhotoTyped'
<1>1. UNCHANGED <<image, pdf, queue, worker, op>>
  BY DEF WatchdogStep, Scan, FailItems, FailJob, ReconcileFails, rows
<1>2. pstat' \in [Person -> {"ABSENT", "GONE"} \cup Waiting \cup Settled]
  BY DEF WatchdogStep, Scan, FailItems, FailJob, ReconcileFails, rows, PhotoTyped, Rows, Settled
<1>3. bstat' \in [Batch -> {"ABSENT"} \cup Open \cup Closed]
  BY DEF WatchdogStep, Scan, FailItems, FailJob, ReconcileFails, WriteJob, PhotoTyped, Rows, Closed
<1>4. Watchdog'
  <2>1. Orphans \in SUBSET Batch
    BY DEF Orphans
  <2> QED
    BY <2>1 DEF WatchdogStep, Scan, FailItems, FailJob, ReconcileFails, PhotoTyped, Watchdog, Asleep
<1> QED  BY <1>1, <1>2, <1>3, <1>4 DEF PhotoTyped, Rows, QueueOnce, Loop, Requests

LEMMA InitTyped == ASSUME PhotoInit PROVE PhotoTyped
  BY DEF PhotoInit, PhotoTyped, Rows, QueueOnce, Loop, Off, Worker, PersonSteps, Requests, Request,
         Idle, Watchdog, Asleep

\* The parts of the next-state relation.
LEMMA PhotoSteps ==
  ASSUME PhotoNext
  PROVE  \/ PersonAction \/ BatchAction \/ Shift \/ LoopThrows \/ LoopFails
         \/ WatchdogStep \/ ReconcileFails \/ Crash
         \/ \E c \in Client : RequestStep(c) \/ CreateFails(c) \/ RequestFails(c)
         \/ \E c \in Client, b \in Batch : CreateBatch(c, b)
         \/ \E c \in Client, p \in Person : Requeue(c, p) \/ Remerge(c, p)
         \/ \E p \in Person : Remove(p)
  BY DEF PhotoNext, DrainStep, PersonAction, BatchAction

LEMMA StepTyped ==
  ASSUME PhotoTyped, [PhotoNext]_photoVars PROVE PhotoTyped'
<1>1. ASSUME UNCHANGED photoVars PROVE PhotoTyped'
  BY <1>1 DEF photoVars, PhotoTyped, Rows, rows, QueueOnce, Loop, Requests, Watchdog
<1> QED
  BY <1>1, PhotoSteps, PersonActionTyped, BatchActionTyped, LeaveTyped, CrashTyped, RequestTyped,
     AskTyped, CreateTyped, RequestErrorTyped, RemoveTyped, WatchdogTyped

(* The type invariant with what the proofs need of each step of the worker *)
(* and of each request.                                                    *)
THEOREM PhotosAlwaysTyped == PhotoSpec => []PhotoTyped
<1> QED  BY InitTyped, StepTyped, PTL DEF PhotoSpec

(* Every value keeps its type, no batch is queued twice, and a loop that   *)
(* runs has a batch to work on.                                            *)
THEOREM PhotosTyped == PhotoSpec => []PhotoTypeOK
<1>1. PhotoTyped => PhotoTypeOK
  BY QueueFits DEF PhotoTyped, Rows, QueueOnce, Loop, Requests, Request, Watchdog, PhotoTypeOK
<1> QED  BY <1>1, PhotosAlwaysTyped, PTL
-----------------------------------------------------------------------------
(* The cards.                                                              *)

\* The card in work has what the steps done so far have saved.
CardInv ==
  /\ CardComplete
  /\ \A p \in Person \ overtaken : worker.person = p =>
       /\ worker.step \in {"savePdf", "success"} => image[p]
       /\ worker.step = "success" => pdf[p]

LEMMA CardKept ==
  ASSUME PhotoTyped, CardInv, [PhotoNext]_photoVars PROVE CardInv'
<1> USE DEF CardInv, CardComplete
<1>1. /\ worker \in Worker /\ image \in [Person -> BOOLEAN] /\ pdf \in [Person -> BOOLEAN]
      /\ pstat \in [Person -> {"ABSENT", "GONE"} \cup Waiting \cup Settled]
  BY DEF PhotoTyped, Loop, Rows
<1>2. CASE UNCHANGED photoVars
  BY <1>2 DEF photoVars, rows, ghosts
<1>3. CASE PersonAction
  <2> DEFINE p == worker.person
  <2>1. p \in Person /\ p = worker'.person
    BY <1>3, PersonActionEffect
  <2>2. overtaken' = overtaken /\ redone' = redone
    BY <1>3 DEF PersonAction, Merge, RateLimited, SaveImage, ReadCard, PdfFails, SavePdf,
                Succeed, PersonWriteFails, FailPerson, ghosts
  <2>3. CASE SaveImage \/ ReadCard
    BY <1>1, <2>1, <2>2, <2>3 DEF SaveImage, ReadCard, PersonStep, Worker, rows
  <2>4. CASE SavePdf
    BY <1>1, <2>1, <2>2, <2>4 DEF SavePdf, PersonStep, Worker
  <2>5. CASE Succeed
    BY <1>1, <2>1, <2>2, <2>5 DEF Succeed, PersonStep, Worker
  <2>6. CASE Merge \/ RateLimited \/ PdfFails \/ PersonWriteFails
    BY <1>1, <2>1, <2>2, <2>6 DEF Merge, RateLimited, PdfFails, PersonWriteFails, PersonStep,
                                   Worker, rows
  <2>7. CASE FailPerson
    BY <1>1, <2>1, <2>2, <2>7 DEF FailPerson, PersonStep, Worker
  <2> QED  BY <1>3, <2>3, <2>4, <2>5, <2>6, <2>7 DEF PersonAction
<1>4. CASE BatchAction
  <2>1. UNCHANGED <<image, pdf, overtaken, redone>>
    BY <1>4 DEF BatchAction, Begin, Recover, Find, Mark, Close, Count, Beat, rows, ghosts
  <2>2. \A p \in Person : pstat'[p] = "SUCCESS" => pstat[p] = "SUCCESS"
    BY <1>1, <1>4 DEF BatchAction, Begin, Recover, Find, Mark, Close, Count, Beat, rows
  <2>3. worker'.step \notin {"savePdf", "success"}
    BY <1>1, <1>4 DEF BatchAction, Begin, Recover, Find, Mark, Close, Count, Beat, At, With, Worker
  <2> QED  BY <2>1, <2>2, <2>3
<1>5. CASE Shift \/ LoopThrows \/ LoopFails \/ Crash
  BY <1>5 DEF Shift, LoopThrows, LoopFails, Crash, Blame, Leave, At, Off, rows, ghosts
<1>6. ASSUME NEW c \in Client, RequestStep(c) PROVE CardInv'
  <2>1. CASE ResetPerson(c)
    <3>1. op[c].person \in Person
      BY <2>1 DEF ResetPerson, PhotoTyped, Requests
    <3> QED  BY <1>1, <2>1, <3>1 DEF ResetPerson
  <2>2. CASE SaveRemerge(c)
    <3>1. op[c].person \in Person
      BY <2>2 DEF SaveRemerge, PhotoTyped, Requests
    <3> QED  BY <1>1, <2>2, <3>1 DEF SaveRemerge
  <2>3. CASE CreateDone(c) \/ EnqueueBatch(c)
    <3>1. worker' = worker \/ worker' = At("begin")
      BY <2>3 DEF CreateDone, EnqueueBatch, Enqueue
    <3> QED  BY <2>3, <3>1 DEF CreateDone, EnqueueBatch, At, rows, ghosts
  <2>4. CASE CreateItem(c) \/ TouchBatch(c) \/ RemergeFails(c) \/ RequestThrows(c)
    BY <1>1, <2>4 DEF CreateItem, TouchBatch, RemergeFails, RequestThrows, rows, ghosts
  <2> QED  BY <1>6, <2>1, <2>2, <2>3, <2>4 DEF RequestStep
<1>7. CASE WatchdogStep \/ ReconcileFails
  <2>1. UNCHANGED <<image, pdf, worker, overtaken, redone>>
    BY <1>7 DEF WatchdogStep, Scan, FailItems, FailJob, ReconcileFails, rows, ghosts
  <2>2. \A p \in Person : pstat'[p] = "SUCCESS" => pstat[p] = "SUCCESS"
    BY <1>1, <1>7 DEF WatchdogStep, Scan, FailItems, FailJob, ReconcileFails, rows
  <2> QED  BY <2>1, <2>2
<1>8. ASSUME NEW c \in Client,
             \/ CreateFails(c) \/ RequestFails(c)
             \/ \E b \in Batch : CreateBatch(c, b)
             \/ \E p \in Person : Requeue(c, p) \/ Remerge(c, p)
      PROVE  CardInv'
  BY <1>8 DEF CreateFails, RequestFails, Blame, CreateBatch, Requeue, Remerge, Ask, rows, ghosts
<1>9. ASSUME NEW p \in Person, Remove(p) PROVE CardInv'
  BY <1>1, <1>9 DEF Remove, ghosts
<1> QED  BY <1>2, <1>3, <1>4, <1>5, <1>6, <1>7, <1>8, <1>9, PhotoSteps

(* A card that counts as finished is complete: no failure of a step of its *)
(* making is taken for a success, and a reset that comes before the card   *)
(* is read for its PDF costs it the success.                               *)
THEOREM CardsComplete == PhotoSpec => []CardComplete
<1>1. PhotoInit => CardInv
  BY DEF PhotoInit, CardInv, CardComplete, Off, NoPerson
<1>2. CardInv => CardComplete
  BY DEF CardInv
<1> QED  BY <1>1, <1>2, CardKept, PhotosAlwaysTyped, PTL DEF PhotoSpec
-----------------------------------------------------------------------------
(* Who waits in a closed batch is seen by somebody.                        *)

\* Of the batch in work only the person in work can be in PROCESSING.
AtWork(p) ==
  \/ worker.step \in {"begin", "recover"}
  \/ worker.step \in PersonSteps \ {"mark"} /\ worker.person = p

LoopInv ==
  /\ worker.person \in Person =>
       worker.step \in PersonSteps \cup {"beat"} /\ BatchOf[worker.person] = InWork
  /\ queue # <<>> =>
       \A p \in Person : pstat[p] = "PROCESSING" /\ BatchOf[p] = InWork => AtWork(p)

LEMMA Blamed == ASSUME Blame PROVE ClosedBatchIsSettled'
  BY DEF Blame, ClosedBatchIsSettled

\* Nobody is newly stranded and nobody leaves the histories.
LEMMA SettledStays ==
  ASSUME ClosedBatchIsSettled, UNCHANGED <<lost, missed>>, Stranded' \subseteq Stranded
  PROVE  ClosedBatchIsSettled'
  BY DEF ClosedBatchIsSettled

\* A step of the loop serves every other batch as before.
LEMMA StillServed ==
  ASSUME UNCHANGED <<queue, op>>, NEW b, b # InWork \/ worker.step \notin {"begin", "count"}
  PROVE  Served(b) => Served(b)'
  BY DEF Served, Tracked, InWork

LEMMA PersonActionSeen ==
  ASSUME PhotoTyped, ClosedBatchIsSettled, LoopInv, PersonAction
  PROVE  ClosedBatchIsSettled' /\ LoopInv'
<1> DEFINE p == worker.person
<1>1. /\ worker.step \in PersonSteps /\ queue # <<>> /\ p \in Person
      /\ worker'.step \in PersonSteps \cup {"beat"} /\ worker'.person = p
      /\ UNCHANGED <<bstat, queue, op, cron>>
  BY PersonActionEffect
<1>2. /\ UNCHANGED <<lost, missed>> /\ worker \in Worker
      /\ pstat \in [Person -> {"ABSENT", "GONE"} \cup Waiting \cup Settled]
      /\ worker.step # "mark"
  BY DEF PersonAction, Merge, RateLimited, SaveImage, ReadCard, PdfFails, SavePdf,
         Succeed, PersonWriteFails, FailPerson, PersonStep, ghosts, PhotoTyped, Loop, Rows
<1>3. /\ worker'.step # "mark"
      /\ \/ pstat' = pstat /\ worker'.step # "beat"
         \/ \E s \in Settled : pstat' = [pstat EXCEPT ![p] = s]
  BY <1>2 DEF PersonAction, Merge, RateLimited, SaveImage, ReadCard, PdfFails, SavePdf,
         Succeed, PersonWriteFails, FailPerson, PersonStep, Worker, Settled, rows
<1>4. /\ \A q \in Person : pstat'[q] \in Waiting => pstat[q] \in Waiting
      /\ \A q \in Person : pstat'[q] = "PROCESSING" => pstat[q] = "PROCESSING"
      /\ worker'.step = "beat" => pstat'[p] # "PROCESSING"
  BY <1>1, <1>2, <1>3 DEF Waiting, Settled
<1>5. ClosedBatchIsSettled'
  <2>1. \A b : Served(b) => Served(b)'
    BY <1>1, StillServed DEF PersonSteps
  <2>2. Stranded' \subseteq Stranded
    BY <1>1, <1>4, <2>1 DEF Stranded
  <2> QED  BY <1>2, <2>2, SettledStays
<1>6. LoopInv'
  <2>1. BatchOf[p] = InWork /\ InWork' = InWork
    BY <1>1 DEF LoopInv, InWork
  <2>2. \A q \in Person : pstat'[q] = "PROCESSING" /\ BatchOf[q] = InWork => q = p
    BY <1>1, <1>4 DEF LoopInv, AtWork, PersonSteps
  <2> QED  BY <1>1, <1>3, <1>4, <2>1, <2>2 DEF LoopInv, AtWork
<1> QED  BY <1>5, <1>6

\* Nobody of the batch in work is in PROCESSING between two people.
LEMMA NobodyProcessing ==
  ASSUME LoopInv, queue # <<>>, worker.step \in {"find", "mark", "close", "count", "leave", "beat"}
  PROVE  \A q \in Person : BatchOf[q] = InWork => pstat[q] # "PROCESSING"
  BY DEF LoopInv, AtWork, PersonSteps

LEMMA BatchActionLoop ==
  ASSUME PhotoTyped, LoopInv, BatchAction PROVE LoopInv'
<1>1. /\ queue # <<>> /\ UNCHANGED <<queue, op, cron>> /\ InWork' = InWork
  BY BatchActionEffect DEF InWork
<1>2. /\ worker \in Worker
      /\ pstat \in [Person -> {"ABSENT", "GONE"} \cup Waiting \cup Settled]
  BY DEF PhotoTyped, Loop, Rows
<1>3. NoPerson \notin Person
  BY PhotoAssumption
<1>4. CASE Mark
  <2>1. worker.person \in Person /\ BatchOf[worker.person] = InWork /\ worker.step = "mark"
    BY <1>4 DEF PhotoTyped, Loop, LoopInv, Mark, PersonSteps
  <2>2. /\ worker'.step = "merge" /\ worker'.person = worker.person
        /\ pstat' = [pstat EXCEPT ![worker.person] = "PROCESSING"]
    BY <1>2, <1>4 DEF Mark, Worker
  <2>3. \A q \in Person : BatchOf[q] = InWork => pstat[q] # "PROCESSING"
    BY <1>1, <2>1, NobodyProcessing
  <2> QED  BY <1>1, <1>2, <2>1, <2>2, <2>3 DEF LoopInv, AtWork, PersonSteps
<1>5. CASE Recover
  <2>1. worker'.person = NoPerson /\ \A q \in Person : BatchOf[q] = InWork => pstat'[q] # "PROCESSING"
    BY <1>5 DEF Recover, At
  <2> QED  BY <1>1, <1>3, <2>1 DEF LoopInv
<1>6. CASE Begin
  <2>1. worker'.step = "recover" /\ worker'.person = NoPerson
    BY <1>6 DEF Begin, At
  <2> QED  BY <1>1, <1>3, <2>1 DEF LoopInv, AtWork
<1>7. CASE Find \/ Close \/ Count \/ Beat
  <2>1. /\ pstat' = pstat /\ worker.step \in {"find", "close", "count", "beat"}
    BY <1>7 DEF Find, Close, Count, Beat, rows
  <2>2. \A q \in Person : BatchOf[q] = InWork => pstat[q] # "PROCESSING"
    BY <1>1, <2>1, NobodyProcessing
  <2>3. ASSUME worker'.person \in Person
        PROVE  worker'.step = "mark" /\ BatchOf[worker'.person] = InWork
    <3>1. Pending(InWork) # {} /\ worker' = With(First(Pending(InWork)), "mark")
      BY <1>3, <1>7, <2>3 DEF Find, Close, Count, Beat, At
    <3>2. First(Pending(InWork)) \in Pending(InWork)
      BY <3>1, FirstIsIn DEF Pending, PeopleOf
    <3> QED  BY <3>1, <3>2 DEF With, Pending, PeopleOf
  <2> QED  BY <1>1, <2>1, <2>2, <2>3 DEF LoopInv, PersonSteps
<1> QED  BY <1>4, <1>5, <1>6, <1>7 DEF BatchAction

LEMMA BatchActionSeen ==
  ASSUME PhotoTyped, ClosedBatchIsSettled, LoopInv, BatchAction PROVE ClosedBatchIsSettled'
<1>1. /\ queue # <<>> /\ UNCHANGED <<queue, op>> /\ InWork \in Batch /\ Tracked(InWork)
      /\ InWork' = InWork
  BY BatchActionEffect, InWorkTracked DEF PhotoTyped, InWork
<1>2. /\ worker \in Worker /\ bstat \in [Batch -> {"ABSENT"} \cup Open \cup Closed]
      /\ pstat \in [Person -> {"ABSENT", "GONE"} \cup Waiting \cup Settled]
      /\ UNCHANGED <<lost, missed>>
  BY DEF PhotoTyped, Loop, Rows, BatchAction, Begin, Recover, Find, Mark, Close, Count, Beat, ghosts
<1>3. \A b : b # InWork \/ worker.step \notin {"begin", "count"} => (Served(b) => Served(b)')
  BY <1>1, StillServed
<1>4. SUFFICES ASSUME NEW p \in Stranded' PROVE p \in Stranded
  BY <1>2, SettledStays
<1> DEFINE b == BatchOf[p]
<1>5. /\ p \in Person /\ b \in Batch /\ pstat'[p] \in Waiting /\ p # worker'.person
      /\ bstat'[b] \in Closed /\ ~ Served(b)'
  BY PhotoAssumption DEF Stranded
<1>6. CASE b # InWork
  <2>1. p # worker.person
    BY <1>5, <1>6 DEF LoopInv
  <2>2. pstat[p] \in Waiting
    <3>1. CASE Recover
      BY <1>5, <1>6, <3>1 DEF Recover
    <3>2. CASE Mark
      BY <1>2, <1>5, <2>1, <3>2 DEF Mark
    <3> QED  BY <1>5, <3>1, <3>2 DEF BatchAction, Begin, Find, Close, Count, Beat, rows
  <2>3. bstat[b] \in Closed
    BY <1>1, <1>2, <1>5, <1>6
       DEF BatchAction, Begin, Recover, Find, Mark, Close, Count, Beat, WriteJob
  <2> QED  BY <1>3, <1>5, <1>6, <2>1, <2>2, <2>3 DEF Stranded
<1>7. CASE b = InWork
  <2>1. CASE Begin \/ Beat
    BY <1>1, <1>2, <1>5, <1>7, <2>1 DEF Begin, Beat, WriteJob, Open, Closed
  <2>2. CASE Close
    <3>1. worker'.step = "count"
      BY <2>2 DEF Close, At
    <3>2. Tracked(b)'
      BY <1>1, <1>7 DEF Tracked
    <3> QED  BY <1>5, <3>1, <3>2 DEF Served
  <2>3. CASE Count
    <3>1. Tracked(b)' /\ worker.step = "count" /\ pstat' = pstat
      BY <1>1, <1>7, <2>3 DEF Tracked, Count, rows
    <3>2. pstat[p] = "PENDING"
      BY <1>1, <1>5, <1>7, <3>1, NobodyProcessing DEF Waiting
    <3>3. worker' = At("begin")
      BY <1>5, <1>7, <2>3, <3>2 DEF Count, Pending, PeopleOf
    <3> QED  BY <1>5, <3>1, <3>3 DEF Served, At
  <2>4. CASE Recover \/ Find \/ Mark
    <3>1. worker.step \in {"recover", "find", "mark"} /\ bstat' = bstat
      BY <2>4 DEF Recover, Find, Mark
    <3>2. pstat[p] \in Waiting /\ p # worker.person
      <4>1. CASE Recover \/ Find
        BY <1>5, <2>4, <4>1 DEF Recover, Find, Waiting, LoopInv, PersonSteps, rows
      <4>2. CASE Mark
        BY <1>2, <1>5, <4>2 DEF Mark, Worker
      <4> QED  BY <2>4, <4>1, <4>2
    <3> QED  BY <1>3, <1>5, <3>1, <3>2 DEF Stranded
  <2> QED  BY <2>1, <2>2, <2>3, <2>4 DEF BatchAction
<1> QED  BY <1>6, <1>7

\* The next batch begins.
LEMMA LeaveLoopInv ==
  ASSUME PhotoTyped, queue # <<>>, Leave PROVE LoopInv'
<1>1. queue' = Tail(queue) /\ worker' = IF queue' = <<>> THEN Off ELSE At("begin")
  BY DEF Leave
<1>2. NoPerson \notin Person
  BY PhotoAssumption
<1> QED  BY <1>1, <1>2 DEF LoopInv, AtWork, At, Off

\* A batch leaves the queue without a fault: at the end of its loop, or for
\* a person who is gone.
LEMMA LeaveSeen ==
  ASSUME PhotoTyped, ClosedBatchIsSettled, LoopInv, Shift \/ LoopThrows
  PROVE  ClosedBatchIsSettled' /\ LoopInv'
<1>1. /\ queue # <<>> /\ Leave /\ UNCHANGED <<pstat, bstat, op, lost, missed>>
      /\ worker.step \in {"leave", "mark", "fail"}
  BY DEF Shift, LoopThrows, PhotoTyped, Loop, rows, ghosts
<1>2. /\ \A x : Tracked(x) => Tracked(x)' \/ x = InWork
      /\ \A x : Tracked(x)' => Tracked(x)
      /\ queue' # <<>> => worker' = At("begin")
      /\ worker'.person = NoPerson
  BY <1>1, LeaveEffect DEF PhotoTyped, Off, At
<1>3. ASSUME NEW b, Served(b) PROVE Served(b)'
  <2>1. CASE Tracked(b) /\ b # InWork
    <3>1. Tracked(b)' /\ queue' \in Seq(Batch)
      BY <1>2, <2>1, <1>1, LeaveEffect DEF PhotoTyped, QueueOnce
    <3>2. queue' # <<>>
      BY <3>1 DEF Tracked
    <3> QED  BY <1>2, <3>1, <3>2 DEF Served, At
  <2>2. CASE ~ (Tracked(b) /\ b # InWork)
    BY <1>1, <1>2, <1>3, <2>2 DEF Served
  <2> QED  BY <2>1, <2>2
<1>4. ASSUME NEW p \in Person, pstat[p] \in Waiting PROVE p # worker.person
  <2>1. CASE Shift
    BY <2>1 DEF Shift, LoopInv, PersonSteps
  <2>2. CASE LoopThrows
    BY <1>4, <2>2 DEF LoopThrows, HasRow, Waiting
  <2> QED  BY <2>1, <2>2
<1>5. Stranded' \subseteq Stranded
  BY <1>1, <1>3, <1>4 DEF Stranded
<1> QED  BY <1>1, <1>5, SettledStays, LeaveLoopInv

LEMMA FaultSeen ==
  ASSUME PhotoTyped, LoopInv,
         \/ LoopFails \/ Crash
         \/ \E c \in Client : CreateFails(c) \/ RequestFails(c)
  PROVE  ClosedBatchIsSettled' /\ LoopInv'
<1>1. ClosedBatchIsSettled'
  BY Blamed DEF LoopFails, Crash, CreateFails, RequestFails
<1>2. CASE LoopFails
  <2>1. queue # <<>> /\ Leave
    BY <1>2 DEF LoopFails, PhotoTyped, Loop
  <2> QED  BY <1>1, <2>1, LeaveLoopInv
<1>3. CASE Crash
  <2>1. NoPerson \notin Person
    BY PhotoAssumption
  <2> QED  BY <1>1, <1>3, <2>1 DEF Crash, LoopInv, Off
<1>4. CASE \E c \in Client : CreateFails(c) \/ RequestFails(c)
  BY <1>1, <1>4 DEF CreateFails, RequestFails, LoopInv, AtWork, InWork, rows
<1> QED  BY <1>2, <1>3, <1>4

\* An enqueue() takes nobody who brings a batch to the loop away.
LEMMA EnqueueServes ==
  ASSUME PhotoTyped, NEW c \in Client, op[c].batch \in Batch, Enqueue(op[c].batch),
         op[c].step \in {"items", "enqueue"}, op' = [op EXCEPT ![c] = Idle], NEW x, Served(x)
  PROVE  Served(x)'
<1> DEFINE b == op[c].batch
<1>1. /\ \A y : Tracked(y)' <=> Tracked(y) \/ y = b
      /\ queue # <<>> => queue'[1] = queue[1]
      /\ worker' = worker \/ (worker.step = "off" /\ worker' = At("begin"))
  BY EnqueueEffect DEF PhotoTyped
<1>2. \A d \in Client \ {c} : op'[d] = op[d]
  BY DEF PhotoTyped, Requests
<1>3. CASE \E d \in Client : op[d].batch = x /\ op[d].step = "touch"
  BY <1>2, <1>3 DEF Served
<1>4. CASE Tracked(x) /\ (x = InWork => worker.step \in {"begin", "count"})
  <2>1. queue # <<>>
    BY <1>4 DEF Tracked, PhotoTyped, QueueOnce
  <2>2. Tracked(x)' /\ InWork' = InWork
    BY <1>1, <1>4, <2>1 DEF InWork
  <2> QED  BY <1>1, <1>4, <2>2 DEF Served, At
<1>5. CASE ~ Tracked(x) /\ x = b
  <2>1. Tracked(x)'
    BY <1>1, <1>5
  <2>2. CASE queue = <<>>
    <3>1. worker' = At("begin")
      BY <2>2 DEF Enqueue, PhotoTyped, Loop
    <3> QED  BY <2>1, <3>1 DEF Served, At
  <2>3. CASE queue # <<>>
    <3>1. InWork' = InWork /\ Tracked(InWork)
      BY <1>1, <2>3, InWorkTracked DEF InWork, PhotoTyped
    <3> QED  BY <1>5, <2>1, <3>1 DEF Served
  <2> QED  BY <2>2, <2>3
<1>6. CASE ~ Tracked(x) /\ x # b /\ \E d \in Client : /\ op[d].batch = x
                                                     /\ op[d].step \in {"items", "enqueue"}
  BY <1>1, <1>2, <1>6 DEF Served
<1> QED  BY <1>3, <1>4, <1>5, <1>6 DEF Served

LEMMA RequestLoop ==
  ASSUME PhotoTyped, LoopInv, NEW c \in Client, RequestStep(c) PROVE LoopInv'
<1>0. pstat \in [Person -> {"ABSENT", "GONE"} \cup Waiting \cup Settled]
  BY DEF PhotoTyped, Rows
<1>1. CASE CreateDone(c) \/ EnqueueBatch(c)
  <2> DEFINE b == op[c].batch
  <2>1. b \in Batch /\ Enqueue(b) /\ pstat' = pstat
    BY <1>1 DEF CreateDone, EnqueueBatch, rows, PhotoTyped, Requests
  <2> HIDE DEF b
  <2>2. CASE worker.step = "off"
    <3>1. worker' = At("begin") /\ NoPerson \notin Person
      BY <2>1, <2>2, PhotoAssumption DEF Enqueue
    <3> QED  BY <3>1 DEF LoopInv, AtWork, At
  <2>3. CASE worker.step # "off"
    <3>1. queue # <<>> /\ worker' = worker /\ queue'[1] = queue[1]
      BY <2>1, <2>3, EnqueueEffect DEF PhotoTyped, Loop
    <3>2. InWork' = InWork
      BY <3>1 DEF InWork
    <3>3. \A q \in Person : AtWork(q)' <=> AtWork(q)
      BY <3>1 DEF AtWork
    <3> QED  BY <2>1, <3>1, <3>2, <3>3 DEF LoopInv
  <2> QED  BY <2>2, <2>3
<1>2. CASE ~ (CreateDone(c) \/ EnqueueBatch(c))
  <2>1. /\ UNCHANGED <<queue, worker>>
        /\ \/ pstat' = pstat
           \/ \E p : pstat' = [pstat EXCEPT ![p] = "PENDING"]
           \/ \E p : pstat' = [pstat EXCEPT ![p] = "SUCCESS"]
    BY <1>2 DEF RequestStep, CreateItem, ResetPerson, TouchBatch, SaveRemerge, RemergeFails,
                RequestThrows, rows
  <2>2. \A q \in Person : pstat'[q] = "PROCESSING" => pstat[q] = "PROCESSING"
    BY <1>0, <2>1
  <2> QED  BY <2>1, <2>2 DEF LoopInv, AtWork, InWork
<1> QED  BY <1>1, <1>2

LEMMA RequestSeen ==
  ASSUME PhotoTyped, ClosedBatchIsSettled, LoopInv, NEW c \in Client, RequestStep(c)
  PROVE  ClosedBatchIsSettled'
<1>0. /\ pstat \in [Person -> {"ABSENT", "GONE"} \cup Waiting \cup Settled]
      /\ bstat \in [Batch -> {"ABSENT"} \cup Open \cup Closed]
      /\ op \in [Client -> Request] /\ BatchOf \in [Person -> Batch]
  BY PhotoAssumption DEF PhotoTyped, Rows, Requests
<1>1. CASE CreateItem(c)
  <2> DEFINE b == op[c].batch
             p == First(NotCreated(b))
  <2>1. /\ NotCreated(b) # {} /\ pstat' = [pstat EXCEPT ![p] = "PENDING"]
        /\ UNCHANGED <<bstat, queue, worker, op, lost>>
        /\ missed' = IF bstat[b] \in Closed /\ ~ Served(b) THEN missed \cup {p} ELSE missed
    BY <1>1 DEF CreateItem
  <2>2. p \in Person /\ BatchOf[p] = b
    BY <2>1, FirstIsIn DEF NotCreated, PeopleOf
  <2> HIDE DEF p, b
  <2>3. \A x : Served(x)' <=> Served(x)
    BY <2>1 DEF Served, Tracked, InWork
  <2> QED  BY <1>0, <2>1, <2>2, <2>3 DEF Stranded, ClosedBatchIsSettled
<1>2. CASE CreateDone(c) \/ EnqueueBatch(c)
  <2>1. /\ op[c].batch \in Batch /\ Enqueue(op[c].batch) /\ op' = [op EXCEPT ![c] = Idle]
        /\ op[c].step \in {"items", "enqueue"} /\ UNCHANGED <<pstat, bstat, lost, missed>>
    BY <1>2 DEF CreateDone, EnqueueBatch, rows, ghosts, PhotoTyped, Requests
  <2>2. \A x : Served(x) => Served(x)'
    BY <2>1, EnqueueServes
  <2>3. \A p \in Person : p # worker'.person => p # worker.person
    BY <2>1 DEF Enqueue, LoopInv, PersonSteps
  <2> QED  BY <2>1, <2>2, <2>3, SettledStays DEF Stranded
<1>3. CASE ResetPerson(c)
  <2>0. PICK p \in Person : p = op[c].person
    BY <1>3 DEF ResetPerson, PhotoTyped, Requests
  <2>1. /\ op[c].batch = BatchOf[p] /\ pstat' = [pstat EXCEPT ![p] = "PENDING"]
        /\ UNCHANGED <<bstat, queue, worker>> /\ op' = [op EXCEPT ![c].step = "touch"]
        /\ lost' = lost \ {p} /\ missed' = missed \ {p}
    BY <1>3, <2>0 DEF ResetPerson, PhotoTyped, Requests
  <2>2. /\ op'[c].step = "touch" /\ op'[c].batch = BatchOf[p] /\ op[c].step = "reset"
        /\ \A d \in Client \ {c} : op'[d] = op[d]
    BY <1>0, <1>3, <2>1 DEF Request, ResetPerson
  <2>3. \A x : Served(x) => Served(x)'
    BY <2>1, <2>2 DEF Served, Tracked, InWork
  <2>4. \E d \in Client : op'[d].batch = BatchOf[p] /\ op'[d].step = "touch"
    BY <2>2
  <2>5. Served(BatchOf[p])'
    BY <2>4 DEF Served
  <2>6. Stranded' \subseteq Stranded \ {p}
    BY <1>0, <2>1, <2>3, <2>5 DEF Stranded
  <2> QED  BY <2>1, <2>6 DEF ClosedBatchIsSettled
<1>4. CASE TouchBatch(c)
  <2> DEFINE b == op[c].batch
  <2>1. /\ bstat' = [bstat EXCEPT ![b] = "PROCESSING"] /\ op[c].step = "touch" /\ b \in Batch
        /\ UNCHANGED <<pstat, queue, worker, lost, missed>>
        /\ op' = [op EXCEPT ![c].step = "enqueue"]
    BY <1>4 DEF TouchBatch, WriteJob, rows, ghosts, PhotoTyped, Requests
  <2>2. \A d \in Client \ {c} : op'[d] = op[d]
    BY <1>0, <2>1
  <2>3. \A x : x # b => (Served(x) => Served(x)')
    BY <2>1, <2>2 DEF Served, Tracked, InWork
  <2> HIDE DEF b
  <2>4. Stranded' \subseteq Stranded
    BY <1>0, <2>1, <2>3 DEF Stranded, Closed
  <2> QED  BY <2>1, <2>4, SettledStays
<1>5. CASE SaveRemerge(c) \/ RemergeFails(c) \/ RequestThrows(c)
  <2>1. /\ op[c].step \in {"reset", "remerge"} /\ op' = [op EXCEPT ![c] = Idle]
        /\ UNCHANGED <<bstat, queue, worker, lost, missed>>
        /\ pstat' = pstat \/ pstat' = [pstat EXCEPT ![op[c].person] = "SUCCESS"]
    BY <1>5 DEF SaveRemerge, RemergeFails, RequestThrows, rows, ghosts
  <2>2. \A q \in Person : pstat'[q] \in Waiting => pstat[q] \in Waiting
    BY <1>0, <2>1 DEF Waiting
  <2>3. \A d \in Client \ {c} : op'[d] = op[d]
    BY <1>0, <2>1
  <2>4. \A x : Served(x) => Served(x)'
    BY <2>1, <2>3 DEF Served, Tracked, InWork
  <2> QED  BY <2>1, <2>2, <2>4, SettledStays DEF Stranded
<1> QED  BY <1>1, <1>2, <1>3, <1>4, <1>5 DEF RequestStep

LEMMA WatchdogSeen ==
  ASSUME PhotoTyped, ClosedBatchIsSettled, LoopInv, WatchdogStep \/ ReconcileFails
  PROVE  ClosedBatchIsSettled' /\ LoopInv'
<1>0. UNCHANGED <<queue, worker, op, lost>>
  BY DEF WatchdogStep, Scan, FailItems, FailJob, ReconcileFails, ghosts
<1>1. \A x : Served(x)' <=> Served(x)
  BY <1>0 DEF Served, Tracked, InWork
<1>2. CASE Scan \/ ReconcileFails
  <2>1. UNCHANGED <<pstat, bstat, missed>>
    BY <1>2 DEF Scan, ReconcileFails, rows, ghosts
  <2> QED  BY <1>0, <1>1, <2>1, SettledStays DEF Stranded, LoopInv, AtWork, InWork
<1>3. ASSUME NEW b \in Batch, FailItems(b) PROVE ClosedBatchIsSettled' /\ LoopInv'
  <2>1. /\ pstat' = [p \in Person |->
                       IF BatchOf[p] = b /\ pstat[p] \in Waiting THEN "FAILED" ELSE pstat[p]]
        /\ UNCHANGED <<bstat, missed>>
    BY <1>3 DEF FailItems, ghosts
  <2>2. \A p \in Person : /\ pstat'[p] \in Waiting => pstat[p] \in Waiting
                          /\ pstat'[p] = "PROCESSING" => pstat[p] = "PROCESSING"
    BY <2>1 DEF Waiting
  <2> QED  BY <1>0, <1>1, <2>1, <2>2, SettledStays DEF Stranded, LoopInv, AtWork, InWork
<1>4. CASE FailJob
  <2>1. /\ pstat' = pstat
        /\ \A b \in Batch : b # cron.batch => bstat'[b] = bstat[b]
        /\ \/ UNCHANGED <<bstat, missed>>
           \/ missed' = missed \cup {p \in PeopleOf(cron.batch) : pstat[p] \in Waiting}
    BY <1>4 DEF FailJob, WriteJob, rows, PhotoTyped, Rows
  <2>2. \A p \in Stranded' : p \in Stranded \/ p \in missed'
    BY <1>0, <1>1, <2>1, PhotoAssumption DEF Stranded, PeopleOf
  <2> QED  BY <1>0, <2>1, <2>2 DEF ClosedBatchIsSettled, LoopInv, AtWork, InWork
<1> QED  BY <1>2, <1>3, <1>4 DEF WatchdogStep

LEMMA AskSeen ==
  ASSUME PhotoTyped, ClosedBatchIsSettled, LoopInv,
         \/ \E c \in Client, b \in Batch : CreateBatch(c, b)
         \/ \E c \in Client, p \in Person : Requeue(c, p) \/ Remerge(c, p)
         \/ \E p \in Person : Remove(p)
  PROVE  ClosedBatchIsSettled' /\ LoopInv'
<1>0. /\ pstat \in [Person -> {"ABSENT", "GONE"} \cup Waiting \cup Settled]
      /\ bstat \in [Batch -> {"ABSENT"} \cup Open \cup Closed]
      /\ op \in [Client -> Request]
      /\ UNCHANGED <<queue, worker, lost, missed>>
  BY DEF PhotoTyped, Rows, Requests, CreateBatch, Requeue, Remerge, Ask, Remove, ghosts
<1>1. \A p \in Person : /\ pstat'[p] \in Waiting => pstat[p] \in Waiting
                        /\ pstat'[p] = "PROCESSING" => pstat[p] = "PROCESSING"
  BY <1>0 DEF CreateBatch, Requeue, Remerge, Ask, Remove, rows, Waiting
<1>2. \A b \in Batch : bstat'[b] \in Closed => bstat[b] \in Closed
  BY <1>0 DEF CreateBatch, Requeue, Remerge, Ask, Remove, WriteJob, Closed
<1>3. \A c \in Client : op'[c] = op[c] \/ op[c] = Idle
  BY <1>0 DEF CreateBatch, Requeue, Remerge, Ask, Remove
<1>4. \A x : Served(x) => Served(x)'
  BY <1>0, <1>3 DEF Served, Tracked, InWork, Idle
<1>5. Stranded' \subseteq Stranded
  BY <1>0, <1>1, <1>2, <1>4, PhotoAssumption DEF Stranded
<1> QED  BY <1>0, <1>1, <1>5, SettledStays DEF LoopInv, AtWork, InWork

(* No order of closing, retrying, redoing and deleting strands anybody in  *)
(* a closed batch: only a fault does, or the watchdog's second write over  *)
(* people who came after its first, or a row created after the count.      *)
THEOREM ClosedSettled == PhotoSpec => []ClosedBatchIsSettled
<1> DEFINE Inv == ClosedBatchIsSettled /\ LoopInv
<1>1. PhotoInit => Inv
  BY PhotoAssumption DEF PhotoInit, ClosedBatchIsSettled, Stranded, Waiting, LoopInv, Off
<1>2. ASSUME PhotoTyped, Inv, [PhotoNext]_photoVars PROVE Inv'
  <2>1. CASE UNCHANGED photoVars
    BY <1>2, <2>1 DEF photoVars, rows, ghosts, ClosedBatchIsSettled, Stranded, Served, Tracked,
                      LoopInv, AtWork, InWork
  <2> QED
    BY <1>2, <2>1, PhotoSteps, PersonActionSeen, BatchActionLoop, BatchActionSeen, LeaveSeen,
       FaultSeen, RequestLoop, RequestSeen, WatchdogSeen, AskSeen
<1> QED  BY <1>1, <1>2, PhotosAlwaysTyped, PTL DEF PhotoSpec
=============================================================================
