-------------------------- MODULE PublishOnceProofs --------------------------
(***************************************************************************)
(* What exclusive claims are good for: theorems about what PublishQueue    *)
(* puts on a platform, again for any number of posts, processes, slots,    *)
(* requests and faults.                                                    *)
(***************************************************************************)
EXTENDS PublishQueueProofs

-----------------------------------------------------------------------------
(* Faults are counted: what has not happened by now had not before. *)

LEMMA NoFaultBefore ==
  ASSUME HistoryOK, [Next]_vars, NEW K \in SUBSET FaultKind, NoFault(K)'
  PROVE  NoFault(K) /\ \A k \in K : ~ Fault(k)
<1>1. CASE UNCHANGED faults
  BY <1>1 DEF NoFault, HistoryOK, Fault
<1>2. ASSUME NEW k \in FaultKind, Fault(k)
      PROVE  NoFault(K) /\ \A l \in K : ~ Fault(l)
  BY <1>2 DEF NoFault, HistoryOK, Fault
<1> QED
  BY <1>1, <1>2, FaultsGrow

(* What a step does to the jobs that are not its own. *)
LEMMA OtherJobsKept ==
  ASSUME TypeOK, NEW j \in Job, EndJob(j) \/ \E step : Goto(j, step)
  PROVE  \A i \in Job : i # j => pc'[i] = pc[i] /\ snap'[i] = snap[i]
BY DEF EndJob, Goto, TypeOK, JobsOK

(* Launch starts jobs in free slots only. *)
LEMMA LaunchKeepsJobs ==
  ASSUME TypeOK, NEW w \in Worker, Launch(w)
  PROVE  \A j \in Job :
           \/ pc'[j] = pc[j] /\ snap'[j] = snap[j]
           \/ /\ pc[j] = "idle"
              /\ snap'[j] \in claimed[w] /\ pc'[j] = FirstStep(snap'[j])
<1>1. PICK slotOf \in [claimed[w] -> FreeSlots(w)] :
         \A j \in Job :
           \/ pc'[j] = pc[j] /\ snap'[j] = snap[j]
           \/ \E s \in claimed[w] :
                /\ j = <<w, slotOf[s]>>
                /\ snap'[j] = s
                /\ pc'[j] = FirstStep(s)
  BY LaunchedJobs
<1>2. \A s \in claimed[w] : pc[<<w, slotOf[s]>>] = "idle"
  BY DEF FreeSlots
<1> QED
  BY <1>1, <1>2

-----------------------------------------------------------------------------
(* A live post has its result *)

\* A live post without a result is one whose result is being written.
LiveIsRecorded ==
  \A p \in Post :
    published[p] > 0 /\ ~ result[p] => \E j \in Job : pc[j] = "save" /\ snap[j].post = p

Recordable == {"answer", "crash", "save"}

RecordInv == NoFault(Recordable) => LiveIsRecorded

LEMMA RecordKept ==
  ASSUME LiveIsRecorded, UNCHANGED <<published, result>>,
         \A j \in Job : pc[j] = "save" => pc'[j] = "save" /\ snap'[j] = snap[j]
  PROVE  LiveIsRecorded'
BY DEF LiveIsRecorded

LEMMA RecordJob ==
  ASSUME TypeOK, LiveIsRecorded, NEW j \in Job, JobStep(j)
  PROVE  LiveIsRecorded'
<1> DEFINE p == snap[j].post
<1>0. pc[j] # "idle"
  BY DEF JobStep, Resume, PublishSucceeds, PublishFails, SaveResult, Complete, Settle
<1>p. p \in Post
  BY <1>0, JobOnPost DEF TypeOK
<1>1. CASE PublishSucceeds(j)
  <2>1. /\ published' = [published EXCEPT ![p] = @ + 1]
        /\ pc' = [pc EXCEPT ![j] = "save"] /\ UNCHANGED <<snap, result>>
    BY <1>1 DEF PublishSucceeds, Goto, Reaches, row
  <2>2. pc'[j] = "save" /\ \A i \in Job : pc[i] = "save" => pc'[i] = "save"
    BY <2>1 DEF TypeOK, JobsOK
  <2>3. \A q \in Post : q # p => published'[q] = published[q]
    BY <2>1 DEF TypeOK, HistoryOK
  <2> QED
    BY <2>1, <2>2, <2>3 DEF LiveIsRecorded
<1>2. CASE SaveResult(j)
  <2>1. /\ result' = [result EXCEPT ![p] = TRUE]
        /\ UNCHANGED <<published, snap>>
        /\ \A i \in Job : i # j => pc'[i] = pc[i]
    BY <1>2, OtherJobsKept DEF SaveResult, Goto, history
  <2>2. result'[p] /\ \A q \in Post : q # p => result'[q] = result[q]
    BY <1>p, <2>1 DEF TypeOK, RowOK
  <2> QED
    BY <2>1, <2>2 DEF LiveIsRecorded
<1>3. CASE PublishFails(j) \/ Complete(j) \/ Settle(j) \/ Resume(j)
  <2>1. pc[j] # "save" /\ UNCHANGED <<published, result>>
    BY <1>3 DEF PublishFails, Complete, Settle, Resume, row, history
  <2>2. EndJob(j) \/ \E step : Goto(j, step)
    BY <1>3 DEF PublishFails, Complete, Settle, Resume
  <2> QED
    BY <2>1, <2>2, OtherJobsKept, RecordKept
<1> QED
  BY <1>1, <1>2, <1>3 DEF JobStep

LEMMA RecordStep == TypeOK /\ RecordInv /\ [Next]_vars => RecordInv'
<1> SUFFICES ASSUME TypeOK, RecordInv, [Next]_vars, NoFault(Recordable)'
             PROVE  LiveIsRecorded'
  BY DEF RecordInv
<1>1. LiveIsRecorded /\ ~ Fault("answer") /\ ~ Fault("crash") /\ ~ Fault("save")
  BY NoFaultBefore DEF RecordInv, Recordable, FaultKind, TypeOK
<1>2. CASE UNCHANGED vars
  BY <1>1, <1>2, RecordKept DEF vars, row, jobs, history
<1>3. CASE \E w \in Worker : WorkerStep(w)
  <2>1. PICK w \in Worker : WorkerStep(w)
    BY <1>3
  <2>2. UNCHANGED <<published, result>>
    BY <2>1 DEF WorkerStep, CountByPlatform, CountByAccount, FindDue, ClaimPost, Launch,
                Reconnect, row, history
  <2>3. CASE Launch(w)
    BY <1>1, <2>2, <2>3, LaunchKeepsJobs, RecordKept
  <2>4. CASE ~ Launch(w)
    <3>1. UNCHANGED jobs
      BY <2>1, <2>4 DEF WorkerStep, CountByPlatform, CountByAccount, FindDue, ClaimPost, Reconnect
    <3> QED
      BY <1>1, <2>2, <3>1, RecordKept DEF jobs
  <2> QED
    BY <2>3, <2>4
<1>4. CASE \E j \in Job : JobStep(j)
  BY <1>1, <1>4, RecordJob
<1>5. CASE FaultStep
  <2>1. CASE \/ \E w \in Worker : ClaimError(w)
             \/ \E p \in Post : BeatLost(p)
    BY <1>1, <2>1, RecordKept DEF ClaimError, BeatLost, row, jobs, history
  <2>2. ASSUME NEW j \in Job, CompleteError(j) \/ SettleError(j)
        PROVE  LiveIsRecorded'
    <3>1. pc[j] # "save" /\ UNCHANGED <<published, result>>
      BY <2>2 DEF CompleteError, SettleError, row, history
    <3>2. EndJob(j) \/ \E step : Goto(j, step)
      BY <2>2 DEF CompleteError, SettleError
    <3> QED
      BY <1>1, <3>1, <3>2, OtherJobsKept, RecordKept
  <2> QED
    BY <1>1, <1>5, <2>1, <2>2 DEF FaultStep, Crash, AnswerLost, SaveError
<1>6. CASE \/ \E p \in Post : Create(p) \/ Enqueue(p)
           \/ \E r \in Request : RequestStep(r)
           \/ \E r \in Request, kind \in RequestKind, p \in Post : ReadPost(r, kind, p)
           \/ \E p \in Post : BeatLands(p)
           \/ Tick
  <2>1. UNCHANGED <<published, result, pc, snap>>
    BY <1>6 DEF Create, Enqueue, Insert, RequestStep, Cancel, Update, Retry, ReadPost,
                BeatLands, Tick, row, jobs, history
  <2> QED
    BY <1>1, <2>1, RecordKept
<1> QED
  BY <1>2, <1>3, <1>4, <1>5, <1>6 DEF Next

THEOREM RecordCorrect == Spec => []RecordInv
<1>1. Init => RecordInv
  BY DEF Init, RecordInv, LiveIsRecorded
<1> QED
  BY <1>1, RecordStep, TypeCorrect, PTL DEF Spec

(* A live post that no job is handling has its result recorded. *)
THEOREM LiveHasResultCorrect == Spec => []LiveHasResult
<1>1. RecordInv => LiveHasResult
  BY DEF RecordInv, Recordable, LiveIsRecorded, LiveHasResult, JobsOf
<1> QED
  BY <1>1, RecordCorrect, PTL

-----------------------------------------------------------------------------
(* A post that may still be executed is not out *)

\* What holds while the platform answers, no process dies and no step 2
\* fails, in any number of processes.
NotOutYet ==
  /\ \A p \in Post : status[p] \in {"ABSENT", "FAILED"} => published[p] = 0
  /\ \A r \in Request :
       request[r].step = "read" /\ request[r].kind = "retry" =>
         published[request[r].post] = 0
  /\ \A w \in Worker : \A s \in claimed[w] : published[s.post] = 0
  /\ \A j \in Job : pc[j] \in {"publish", "fail", "reject"} => published[snap[j].post] = 0
  /\ \A p \in Post :
       published[p] > 0 /\ status[p] = "PENDING" =>
         \E j \in Job : pc[j] \in {"save", "complete"} /\ snap[j].post = p
  /\ \A p \in Post : published[p] <= 1

Answered == {"answer", "crash", "complete"}

FreshInv == ClaimsAreSafe /\ NoFault(Answered) => NotOutYet

(* A step that publishes nothing keeps it if whatever may be executed from   *)
(* now on could be before, or is not out.                                    *)
LEMMA FreshKept ==
  ASSUME TypeOK, NotOutYet, UNCHANGED published,
         \A p \in Post :
           \/ status'[p] = status[p] \/ published[p] = 0
           \/ status'[p] \notin {"ABSENT", "FAILED", "PENDING"},
         \A r \in Request :
           request'[r].step = "read" /\ request'[r].kind = "retry" =>
             request'[r] = request[r] \/ published[request'[r].post] = 0,
         \A w \in Worker : \A s \in claimed'[w] : s \in claimed[w] \/ published[s.post] = 0,
         \A j \in Job : pc'[j] \in {"publish", "fail", "reject"} =>
           \/ pc[j] \in {"publish", "fail", "reject"} /\ snap'[j] = snap[j]
           \/ published[snap'[j].post] = 0,
         \A j \in Job : pc[j] \in {"save", "complete"} =>
           \/ pc'[j] \in {"save", "complete"} /\ snap'[j] = snap[j]
           \/ status'[snap[j].post] # "PENDING"
  PROVE  NotOutYet'
<1>1. \A p \in Post : status'[p] \in {"ABSENT", "FAILED"} => published'[p] = 0
  BY DEF NotOutYet
<1>2. \A r \in Request :
        request'[r].step = "read" /\ request'[r].kind = "retry" =>
          published'[request'[r].post] = 0
  BY DEF NotOutYet
<1>3. \A w \in Worker : \A s \in claimed'[w] : published'[s.post] = 0
  BY DEF NotOutYet
<1>4. \A j \in Job : pc'[j] \in {"publish", "fail", "reject"} => published'[snap'[j].post] = 0
  BY DEF NotOutYet
<1>5. ASSUME NEW p \in Post, published'[p] > 0, status'[p] = "PENDING"
      PROVE  \E j \in Job : pc'[j] \in {"save", "complete"} /\ snap'[j].post = p
  <2>1. published[p] # 0 /\ status[p] = "PENDING"
    BY <1>5 DEF TypeOK, HistoryOK
  <2>2. PICK j \in Job : pc[j] \in {"save", "complete"} /\ snap[j].post = p
    BY <1>5, <2>1 DEF NotOutYet
  <2> QED
    BY <1>5, <2>2
<1> QED
  BY <1>1, <1>2, <1>3, <1>4, <1>5 DEF NotOutYet

(* A step that leaves jobs and claims alone. *)
LEMMA FreshQuiet ==
  ASSUME TypeOK, NotOutYet, UNCHANGED <<published, pc, snap, claimed>>,
         \A p \in Post :
           \/ status'[p] = status[p] \/ published[p] = 0
           \/ status'[p] \notin {"ABSENT", "FAILED", "PENDING"},
         \A r \in Request :
           request'[r].step = "read" /\ request'[r].kind = "retry" =>
             request'[r] = request[r] \/ published[request'[r].post] = 0
  PROVE  NotOutYet'
BY FreshKept

(* The platform takes the post of job j, which is in nobody else's hands. *)
LEMMA FreshPublished ==
  ASSUME TypeOK, Parts, NotOutYet, NEW j \in Job, PublishSucceeds(j)
  PROVE  NotOutYet'
<1> DEFINE p == snap[j].post
<1>p. p \in Post /\ InHand(p) /\ Running(j) /\ published[p] = 0
  BY HandTyped DEF PublishSucceeds, Running, NotOutYet
<1>1. /\ published' = [published EXCEPT ![p] = @ + 1]
      /\ pc' = [pc EXCEPT ![j] = "save"]
      /\ UNCHANGED <<snap, status, claimed, request>>
  BY DEF PublishSucceeds, Goto, Reaches, row, claiming
<1>2. published'[p] = 1 /\ \A q \in Post : q # p => published'[q] = published[q]
  BY <1>p, <1>1 DEF TypeOK, HistoryOK
<1>3. pc'[j] = "save" /\ \A i \in Job : i # j => pc'[i] = pc[i]
  BY <1>1 DEF TypeOK, JobsOK
<1>4. \A q \in Post : status[q] \in {"ABSENT", "FAILED"} => q # p
  BY <1>p DEF Parts, IdleIsFree
<1>5. \A r \in Request :
        request[r].step = "read" /\ request[r].kind = "retry" =>
          request[r].post \in Post /\ request[r].post # p
  BY <1>p DEF Parts, RetryIsFree, TypeOK, RequestOK
<1>6. \A w \in Worker : \A s \in claimed[w] : s.post \in Post /\ s.post # p
  BY <1>p, HandTyped DEF Parts, OneHolder
<1>7. \A i \in Job : i # j /\ pc[i] # "idle" => snap[i].post \in Post /\ snap[i].post # p
  BY <1>p, HandTyped DEF Parts, OneHolder, Running
<1> HIDE DEF p
<1>8. /\ \A q \in Post : status'[q] \in {"ABSENT", "FAILED"} => published'[q] = 0
      /\ \A r \in Request :
           request'[r].step = "read" /\ request'[r].kind = "retry" =>
             published'[request'[r].post] = 0
      /\ \A w \in Worker : \A s \in claimed'[w] : published'[s.post] = 0
      /\ \A i \in Job : pc'[i] \in {"publish", "fail", "reject"} => published'[snap'[i].post] = 0
  BY <1>1, <1>2, <1>3, <1>4, <1>5, <1>6, <1>7 DEF NotOutYet
<1>9. ASSUME NEW q \in Post, published'[q] > 0, status'[q] = "PENDING"
      PROVE  \E i \in Job : pc'[i] \in {"save", "complete"} /\ snap'[i].post = q
  <2>1. CASE q = p
    BY <1>1, <1>3, <2>1 DEF p
  <2>2. CASE q # p
    <3>1. PICK i \in Job : pc[i] \in {"save", "complete"} /\ snap[i].post = q
      BY <1>1, <1>2, <1>9, <2>2 DEF NotOutYet
    <3>2. i # j
      BY <2>2, <3>1 DEF p
    <3> QED
      BY <1>1, <1>3, <3>1, <3>2
  <2> QED
    BY <2>1, <2>2
<1>10. \A q \in Post : published'[q] <= 1
  BY <1>2 DEF NotOutYet
<1> QED
  BY <1>8, <1>9, <1>10 DEF NotOutYet

LEMMA FreshJob ==
  ASSUME TypeOK, Parts, NotOutYet, NEW j \in Job, JobStep(j)
  PROVE  NotOutYet'
<1> DEFINE p == snap[j].post
<1>p. pc[j] # "idle" /\ p \in Post
  BY JobOnPost DEF JobStep, Resume, PublishSucceeds, PublishFails, SaveResult, Complete,
                   Settle, TypeOK
<1>1. CASE PublishSucceeds(j)
  BY <1>1, FreshPublished
<1>2. CASE PublishFails(j) \/ SaveResult(j)
  <2>1. /\ \A i \in Job : i # j => pc'[i] = pc[i] /\ snap'[i] = snap[i]
        /\ snap'[j] = snap[j]
        /\ \/ pc[j] = "publish" /\ pc'[j] \in {"fail", "reject"}
           \/ pc[j] = "save" /\ pc'[j] = "complete"
    BY <1>2, OtherJobsKept DEF PublishFails, SaveResult, Goto, TypeOK, JobsOK
  <2>2. UNCHANGED <<published, status, request, claimed>>
    BY <1>2 DEF PublishFails, SaveResult, row, claiming, history
  <2> QED
    BY <2>1, <2>2, FreshKept
<1>3. CASE Resume(j) \/ Complete(j) \/ Settle(j)
  <2>1. /\ \A i \in Job : i # j => pc'[i] = pc[i] /\ snap'[i] = snap[i]
        /\ pc'[j] = "idle"
        /\ UNCHANGED <<published, request, claimed>>
    BY <1>3, OtherJobsKept DEF Resume, Complete, Settle, EndJob, claiming, history, TypeOK, JobsOK
  <2>2. /\ \A q \in Post : q # p => status'[q] = status[q]
        /\ \/ status'[p] = "COMPLETED"
           \/ pc[j] = "complete" /\ status'[p] = status[p] /\ status'[p] # "PENDING"
           \/ pc[j] \in {"fail", "reject"}
    BY <1>p, <1>3 DEF Resume, Complete, Settle, TypeOK, RowOK
  <2>3. pc[j] \in {"fail", "reject"} => published[p] = 0
    BY DEF NotOutYet
  <2>4. pc[j] \in {"save", "complete"} => status'[p] # "PENDING"
    BY <2>2
  <2> QED
    BY <2>1, <2>2, <2>3, <2>4, FreshKept
<1> QED
  BY <1>1, <1>2, <1>3 DEF JobStep

LEMMA FreshWorker ==
  ASSUME TypeOK, Parts, ClaimsAreSafe, NotOutYet, NEW w \in Worker, WorkerStep(w)
  PROVE  NotOutYet'
<1>1. UNCHANGED <<published, status, request>>
  BY DEF WorkerStep, CountByPlatform, CountByAccount, FindDue, ClaimPost, Launch, Reconnect,
         row, history
<1>2. CASE CountByPlatform(w) \/ CountByAccount(w) \/ FindDue(w) \/ Reconnect(w)
  <2>1. /\ UNCHANGED <<pc, snap>>
        /\ \A v \in Worker : claimed'[v] \subseteq claimed[v]
    BY <1>2 DEF CountByPlatform, CountByAccount, FindDue, Reconnect, EndPhase, jobs,
                TypeOK, ClaimingOK
  <2> QED
    BY <1>1, <2>1, FreshKept
<1>3. ASSUME NEW s \in due[w], ClaimPost(w, s)
      PROVE  NotOutYet'
  <2>1. /\ UNCHANGED <<pc, snap>>
        /\ \A v \in Worker : \A t \in claimed'[v] :
             t \in claimed[v] \/ (t = s /\ Claimable(s.post))
    BY <1>3 DEF ClaimPost, jobs, TypeOK, ClaimingOK
  <2>2. Claimable(s.post) => published[s.post] = 0
    <3>1. s.post \in Post
      BY SnapshotFacts DEF TypeOK, ClaimingOK
    <3>2. Claimable(s.post) => ~ InHand(s.post)
      BY <3>1, HeldIsClaimed DEF Claimable
    <3> QED
      BY <3>1, <3>2 DEF NotOutYet, InHand, Running, Claimable, TypeOK, HistoryOK
  <2> QED
    BY <1>1, <2>1, <2>2, FreshKept
<1>4. CASE Launch(w)
  <2>1. \A v \in Worker : claimed'[v] \subseteq claimed[v]
    BY <1>4 DEF Launch, EndPhase, TypeOK, ClaimingOK
  <2>2. \A j \in Job :
          \/ pc'[j] = pc[j] /\ snap'[j] = snap[j]
          \/ pc[j] = "idle" /\ published[snap'[j].post] = 0
    BY <1>4, LaunchKeepsJobs DEF NotOutYet
  <2> QED
    BY <1>1, <2>1, <2>2, FreshKept
<1> QED
  BY <1>2, <1>3, <1>4 DEF WorkerStep

LEMMA FreshStep == TypeOK /\ ClaimsExclusive /\ FreshInv /\ [Next]_vars => FreshInv'
<1> SUFFICES ASSUME TypeOK, ClaimsExclusive, FreshInv, [Next]_vars,
                    ClaimsAreSafe', NoFault(Answered)'
             PROVE  NotOutYet'
  BY DEF FreshInv
<1>0. ClaimsAreSafe /\ Parts
  BY FaultsGrow, SafeBefore DEF TypeOK, ClaimsExclusive, Parts
<1>1. NotOutYet /\ ~ Fault("answer") /\ ~ Fault("crash") /\ ~ Fault("complete")
  BY <1>0, NoFaultBefore DEF FreshInv, Answered, FaultKind, TypeOK
<1>2. CASE UNCHANGED vars
  BY <1>1, <1>2, FreshQuiet DEF vars, row, claiming, jobs, history
<1>3. CASE (\E w \in Worker : WorkerStep(w)) \/ (\E j \in Job : JobStep(j))
  BY <1>0, <1>1, <1>3, FreshWorker, FreshJob
<1>4. CASE FaultStep
  <2>1. ASSUME NEW w \in Worker, ClaimError(w)
        PROVE  NotOutYet'
    <3>1. /\ UNCHANGED <<pc, snap, published, status, request>>
          /\ \A v \in Worker : claimed'[v] \subseteq claimed[v]
      BY <2>1 DEF ClaimError, EndPhase, row, jobs, history, TypeOK, ClaimingOK
    <3> QED
      BY <1>1, <3>1, FreshKept
  <2>2. ASSUME NEW p \in Post, BeatLost(p)
        PROVE  NotOutYet'
    BY <1>1, <2>2, FreshQuiet DEF BeatLost, row, claiming, jobs, history
  <2>3. ASSUME NEW j \in Job, SaveError(j)
        PROVE  NotOutYet'
    <3>1. /\ \A i \in Job : i # j => pc'[i] = pc[i] /\ snap'[i] = snap[i]
          /\ snap'[j] = snap[j] /\ pc[j] = "save" /\ pc'[j] = "complete"
          /\ UNCHANGED <<published, status, request, claimed>>
      BY <2>3, OtherJobsKept DEF SaveError, Goto, row, claiming, history, TypeOK, JobsOK
    <3> QED
      BY <1>1, <3>1, FreshKept
  <2>4. ASSUME NEW j \in Job, SettleError(j)
        PROVE  NotOutYet'
    <3>1. /\ \A i \in Job : i # j => pc'[i] = pc[i] /\ snap'[i] = snap[i]
          /\ pc[j] \notin {"save", "complete"} /\ pc'[j] = "idle"
          /\ UNCHANGED <<published, status, request, claimed>>
      BY <2>4, OtherJobsKept DEF SettleError, EndJob, row, claiming, history, TypeOK, JobsOK
    <3> QED
      BY <1>1, <3>1, FreshKept
  <2> QED
    BY <1>1, <1>4, <2>1, <2>2, <2>3, <2>4 DEF FaultStep, Crash, AnswerLost, CompleteError
<1>5. ASSUME NEW p \in Post, Create(p) \/ Enqueue(p)
      PROVE  NotOutYet'
  <2>1. /\ UNCHANGED <<published, pc, snap, claimed, request>>
        /\ \A q \in Post : status'[q] = status[q] \/ (q = p /\ status[q] = "ABSENT")
    BY <1>5 DEF Create, Enqueue, Insert, claiming, jobs, history, TypeOK, RowOK
  <2>2. \A q \in Post : status[q] = "ABSENT" => published[q] = 0
    BY <1>1 DEF NotOutYet
  <2> QED
    BY <1>1, <2>1, <2>2, FreshQuiet
<1>6. ASSUME NEW r \in Request, NEW kind \in RequestKind, NEW p \in Post, ReadPost(r, kind, p)
      PROVE  NotOutYet'
  <2>1. /\ UNCHANGED <<published, pc, snap, claimed, status>>
        /\ \A q \in Request : q # r => request'[q] = request[q]
        /\ request'[r] = [step |-> "read", kind |-> kind, post |-> p]
        /\ kind = "retry" => status[p] = "FAILED"
    BY <1>6 DEF ReadPost, row, claiming, jobs, history, TypeOK, RequestOK
  <2>2. status[p] = "FAILED" => published[p] = 0
    BY <1>1 DEF NotOutYet
  <2> QED
    BY <1>1, <2>1, <2>2, FreshQuiet
<1>7. ASSUME NEW r \in Request, RequestStep(r)
      PROVE  NotOutYet'
  <2>1. NoNewRetry /\ request[r].step = "read" /\ request[r].post \in Post
    BY <1>7, AnswerIsNoRetry DEF RequestStep, Cancel, Update, Retry, TypeOK, RequestOK
  <2>2. /\ UNCHANGED <<published, pc, snap, claimed>>
        /\ \A q \in Post : q # request[r].post => status'[q] = status[q]
        /\ \/ status' = status \/ status'[request[r].post] = "CANCELLED"
           \/ request[r].kind = "retry"
    BY <1>7, <2>1 DEF RequestStep, Cancel, Update, Retry, Answer, row, claiming, jobs, history,
                      TypeOK, RowOK
  <2>3. request[r].kind = "retry" => published[request[r].post] = 0
    BY <1>1, <2>1 DEF NotOutYet
  <2> QED
    BY <1>1, <2>1, <2>2, <2>3, FreshQuiet DEF NoNewRetry
<1>8. CASE (\E p \in Post : BeatLands(p)) \/ Tick
  BY <1>1, <1>8, FreshQuiet DEF BeatLands, Tick, row, claiming, jobs, history
<1> QED
  BY <1>2, <1>3, <1>4, <1>5, <1>6, <1>7, <1>8 DEF Next

THEOREM FreshCorrect == Spec => []FreshInv
<1>1. Init => FreshInv
  BY DEF Init, FreshInv, NotOutYet, NewRequest
<1> QED
  BY <1>1, FreshStep, TypeCorrect, ExclusiveCorrect, PTL DEF Spec

(* A post shown as FAILED is not on the platform. *)
THEOREM FailedIsNotLiveCorrect == Spec => []FailedIsNotLive
<1>1. FreshInv => FailedIsNotLive
  BY DEF FreshInv, Answered, NotOutYet, FailedIsNotLive
<1> QED
  BY <1>1, FreshCorrect, PTL

-----------------------------------------------------------------------------
(* What one process has read of a post is still so when it claims the post *)

\* A post of the page of due ones: nobody has it, and its row is as it was.
DueIsIdle ==
  \A w \in Worker : \A s \in due[w] :
    /\ phase[w] = "claim"
    /\ status[s.post] \in {"PENDING", "CANCELLED"}
    /\ retryCount[s.post] = s.retryCount
    /\ \A j \in Job : Running(j) => snap[j].post # s.post
    /\ \A t \in claimed[w] : t.post # s.post
    /\ \A t \in due[w] : t.post = s.post => t = s
    /\ \A r \in Request :
         request[r].step = "read" /\ request[r].kind = "retry" => request[r].post # s.post
    /\ "update" \notin RequestKind => scheduledIn[s.post] = 0 /\ retryIn[s.post] = 0

DueInv == ClaimsAreSafe /\ SingleProcess => DueIsIdle

\* The columns of post p that a page of due posts depends on.
RowStill(p) ==
  /\ status'[p] = status[p] \/ status'[p] = "CANCELLED"
  /\ retryCount'[p] = retryCount[p]
  /\ "update" \notin RequestKind /\ scheduledIn[p] = 0 /\ retryIn[p] = 0
       => scheduledIn'[p] = 0 /\ retryIn'[p] = 0

\* The pages of due posts and the claims of a process only shrink.
PagesShrink ==
  \A w \in Worker :
    /\ due'[w] \subseteq due[w]
    /\ due'[w] # {} => phase'[w] = phase[w] /\ claimed'[w] \subseteq claimed[w]

LEMMA DueKept ==
  ASSUME DueIsIdle, PagesShrink,
         \A j \in Job : pc'[j] # "idle" => pc[j] # "idle" /\ snap'[j] = snap[j],
         \A r \in Request :
           request'[r].step = "read" /\ request'[r].kind = "retry" =>
             request'[r] = request[r] \/ status[request'[r].post] = "FAILED",
         \A w \in Worker : \A s \in due'[w] : RowStill(s.post)
  PROVE  DueIsIdle'
<1> SUFFICES ASSUME NEW w \in Worker, NEW s \in due'[w]
             PROVE  /\ phase'[w] = "claim"
                    /\ status'[s.post] \in {"PENDING", "CANCELLED"}
                    /\ retryCount'[s.post] = s.retryCount
                    /\ \A j \in Job : Running(j)' => snap'[j].post # s.post
                    /\ \A t \in claimed'[w] : t.post # s.post
                    /\ \A t \in due'[w] : t.post = s.post => t = s
                    /\ \A r \in Request :
                         request'[r].step = "read" /\ request'[r].kind = "retry" =>
                           request'[r].post # s.post
                    /\ "update" \notin RequestKind =>
                         scheduledIn'[s.post] = 0 /\ retryIn'[s.post] = 0
  BY DEF DueIsIdle
<1>1. /\ s \in due[w] /\ due'[w] \subseteq due[w]
      /\ phase'[w] = phase[w] /\ claimed'[w] \subseteq claimed[w]
  BY DEF PagesShrink
<1>2. RowStill(s.post)
  OBVIOUS
<1>3. \A r \in Request :
        request'[r].step = "read" /\ request'[r].kind = "retry" => request'[r].post # s.post
  BY <1>1 DEF DueIsIdle
<1>4. \A j \in Job : Running(j)' => snap'[j].post # s.post
  BY <1>1 DEF DueIsIdle, Running
<1> QED
  BY <1>1, <1>2, <1>3, <1>4 DEF DueIsIdle, RowStill

(* A step that leaves the claim phases and the jobs alone. *)
LEMMA DueQuiet ==
  ASSUME DueIsIdle, UNCHANGED <<due, phase, claimed, pc, snap>>,
         \A r \in Request :
           request'[r].step = "read" /\ request'[r].kind = "retry" =>
             request'[r] = request[r] \/ status[request'[r].post] = "FAILED",
         \A w \in Worker : \A s \in due[w] : RowStill(s.post)
  PROVE  DueIsIdle'
BY DueKept DEF PagesShrink

LEMMA DueTyped ==
  ASSUME TypeOK, NEW w \in Worker, NEW s \in due[w]
  PROVE  s \in Snapshot /\ s.post \in Post
BY SnapshotFacts DEF TypeOK, ClaimingOK

LEMMA DueFind ==
  ASSUME TypeOK, Parts, ClaimsAreSafe, DueIsIdle, NEW w \in Worker, FindDue(w)
  PROVE  DueIsIdle'
<1> DEFINE found == {p \in Post :
                       IsDue(p) /\ OnAccount(seenByAccount[w], p) < AccountConcurrency}
<1>1. UNCHANGED <<row, pc, snap, request>>
  BY DEF FindDue, jobs
<1>2. CASE found = {}
  <2>1. PagesShrink
    BY <1>2 DEF FindDue, EndPhase, PagesShrink, TypeOK, ClaimingOK
  <2> QED
    BY <1>1, <2>1, DueKept DEF RowStill, row
<1>3. CASE found # {}
  <2>1. /\ phase' = [phase EXCEPT ![w] = "claim"]
        /\ due' = [due EXCEPT ![w] = {SnapshotOf(p) : p \in found}]
        /\ UNCHANGED claimed /\ claimed[w] = {}
    BY <1>3 DEF FindDue, TypeOK, ClaimingOK
  <2>2. \A p \in found : IsDue(p) /\ p \in Post
    OBVIOUS
  <2> HIDE DEF found
  <2>3. ASSUME NEW p \in found
        PROVE  /\ SnapshotOf(p).post = p /\ SnapshotOf(p).retryCount = retryCount[p]
               /\ status[p] = "PENDING" /\ scheduledIn[p] = 0 /\ retryIn[p] = 0
               /\ ~ InHand(p)
               /\ \A r \in Request :
                    request[r].step = "read" /\ request[r].kind = "retry" => request[r].post # p
    <3>1. status[p] = "PENDING" /\ claimLeft[p] = 0 /\ p \in Post
      BY <2>2 DEF IsDue
    <3>2. ~ InHand(p)
      BY <3>1, HeldIsClaimed
    <3> QED
      BY <2>2, <3>1, <3>2 DEF SnapshotOf, IsDue, Parts, RetryIsFree
  <2>4. ASSUME NEW s \in due'[w]
        PROVE  /\ \E p \in found : s = SnapshotOf(p)
    BY <2>1 DEF TypeOK, ClaimingOK
  <2>5. ASSUME NEW v \in Worker, v # w
        PROVE  due'[v] = due[v] /\ phase'[v] = phase[v]
    BY <2>1, <2>5 DEF TypeOK, ClaimingOK
  <2>6. phase'[w] = "claim"
    BY <2>1 DEF TypeOK, ClaimingOK
  <2>7. ASSUME NEW s \in due'[w]
        PROVE  /\ status[s.post] = "PENDING"
               /\ retryCount[s.post] = s.retryCount
               /\ \A j \in Job : Running(j) => snap[j].post # s.post
               /\ \A t \in due'[w] : t.post = s.post => t = s
               /\ \A r \in Request :
                    request[r].step = "read" /\ request[r].kind = "retry" =>
                      request[r].post # s.post
               /\ scheduledIn[s.post] = 0 /\ retryIn[s.post] = 0
    <3>1. PICK p \in found : s = SnapshotOf(p)
      BY <2>4
    <3>2. s.post = p
      BY <2>3, <3>1
    <3>3. \A t \in due'[w] : t.post = p => t = s
      BY <2>3, <2>4, <3>1
    <3> QED
      BY <2>3, <3>1, <3>2, <3>3 DEF InHand
  <2>8. UNCHANGED <<status, retryCount, scheduledIn, retryIn>>
    BY <1>1 DEF row
  <2> QED
    BY <1>1, <2>1, <2>5, <2>6, <2>7, <2>8 DEF DueIsIdle, Running
<1> QED
  BY <1>2, <1>3

LEMMA DueWorker ==
  ASSUME TypeOK, Parts, ClaimsAreSafe, SingleProcess, DueIsIdle,
         NEW w \in Worker, WorkerStep(w)
  PROVE  DueIsIdle'
<1>1. /\ UNCHANGED <<status, retryCount, scheduledIn, retryIn, request>>
      /\ \A p \in Post : RowStill(p)
  BY DEF WorkerStep, CountByPlatform, CountByAccount, FindDue, ClaimPost, Launch, Reconnect,
         row, RowStill
<1>2. CASE CountByPlatform(w) \/ CountByAccount(w) \/ Reconnect(w)
  <2>1. UNCHANGED <<pc, snap, due, claimed>>
    BY <1>2 DEF CountByPlatform, CountByAccount, Reconnect, jobs
  <2>2. \A v \in Worker : due[v] # {} => phase'[v] = phase[v]
    BY <1>2 DEF CountByPlatform, CountByAccount, Reconnect, DueIsIdle, TypeOK, ClaimingOK
  <2>3. PagesShrink
    BY <2>1, <2>2 DEF PagesShrink
  <2> QED
    BY <1>1, <2>1, <2>3, DueKept, DueTyped
<1>3. CASE FindDue(w)
  BY <1>3, DueFind
<1>4. ASSUME NEW s \in due[w], ClaimPost(w, s)
      PROVE  DueIsIdle'
  <2>1. /\ due' = [due EXCEPT ![w] = @ \ {s}]
        /\ UNCHANGED <<phase, pc, snap>>
        /\ \A v \in Worker : \A t \in claimed'[v] : t \in claimed[v] \/ (v = w /\ t = s)
    BY <1>4 DEF ClaimPost, jobs, TypeOK, ClaimingOK
  <2>2. \A v \in Worker : due'[v] \subseteq due[v]
    BY <2>1 DEF TypeOK, ClaimingOK
  <2>3. s \notin due'[w]
    BY <2>1 DEF TypeOK, ClaimingOK
  <2> QED
    BY <1>1, <2>1, <2>2, <2>3 DEF DueIsIdle, Running
<1>5. CASE Launch(w)
  <2>1. due'[w] = {}
    BY <1>5 DEF Launch, EndPhase, TypeOK, ClaimingOK
  <2>2. \A v \in Worker : due'[v] = {}
    BY <2>1 DEF SingleProcess
  <2> QED
    BY <2>2 DEF DueIsIdle
<1> QED
  BY <1>2, <1>3, <1>4, <1>5 DEF WorkerStep

LEMMA DueJob ==
  ASSUME TypeOK, DueIsIdle, NEW j \in Job, JobStep(j)
  PROVE  DueIsIdle'
<1> DEFINE p == snap[j].post
<1>p. pc[j] # "idle" /\ p \in Post
  BY JobOnPost DEF JobStep, Resume, PublishSucceeds, PublishFails, SaveResult, Complete,
                   Settle, TypeOK
<1>1. UNCHANGED <<due, phase, claimed, request>>
  BY DEF JobStep, Resume, PublishSucceeds, PublishFails, SaveResult, Complete, Settle, claiming
<1>2. \A i \in Job : pc'[i] # "idle" => pc[i] # "idle" /\ snap'[i] = snap[i]
  <2>1. EndJob(j) \/ \E step : Goto(j, step)
    BY DEF JobStep, Resume, PublishSucceeds, PublishFails, SaveResult, Complete, Settle
  <2> QED
    BY <1>p, <2>1 DEF EndJob, Goto, TypeOK, JobsOK
<1>3. \A q \in Post : q # p => RowStill(q)
  BY DEF JobStep, Resume, PublishSucceeds, PublishFails, SaveResult, Complete, Settle, row,
         RowStill, TypeOK, RowOK
<1>4. \A w \in Worker : \A s \in due[w] : s.post \in Post /\ s.post # p
  BY <1>p, DueTyped DEF DueIsIdle, Running
<1> QED
  BY <1>1, <1>2, <1>3, <1>4, DueKept DEF PagesShrink

LEMMA DueFault ==
  ASSUME TypeOK, DueIsIdle, FaultStep
  PROVE  DueIsIdle'
<1>1. \A p \in Post : RowStill(p)
  BY DEF FaultStep, ClaimError, Crash, AnswerLost, SaveError, CompleteError, SettleError,
         BeatLost, row, RowStill
<1>2. UNCHANGED request
  BY DEF FaultStep, ClaimError, Crash, AnswerLost, SaveError, CompleteError, SettleError, BeatLost
<1>3. PagesShrink
  <2>1. CASE UNCHANGED claiming
    BY <2>1 DEF claiming, PagesShrink
  <2>2. ASSUME NEW w \in Worker, EndPhase(w)
        PROVE  PagesShrink
    BY <2>2 DEF EndPhase, PagesShrink, TypeOK, ClaimingOK
  <2> QED
    BY <2>1, <2>2 DEF FaultStep, ClaimError, Crash, AnswerLost, SaveError, CompleteError,
                      SettleError, BeatLost
<1>4. \A j \in Job : pc'[j] # "idle" => pc[j] # "idle" /\ snap'[j] = snap[j]
  BY DEF FaultStep, ClaimError, Crash, AnswerLost, SaveError, CompleteError, SettleError,
         BeatLost, jobs, Goto, EndJob, TypeOK, JobsOK
<1>5. \A w \in Worker : \A s \in due'[w] : s.post \in Post
  BY <1>3, DueTyped DEF PagesShrink
<1> QED
  BY <1>1, <1>2, <1>3, <1>4, <1>5, DueKept

LEMMA DueStep == TypeOK /\ ClaimsExclusive /\ DueInv /\ [Next]_vars => DueInv'
<1> SUFFICES ASSUME TypeOK, ClaimsExclusive, DueInv, [Next]_vars,
                    ClaimsAreSafe', SingleProcess
             PROVE  DueIsIdle'
  BY DEF DueInv, SingleProcess
<1>0. ClaimsAreSafe /\ Parts /\ DueIsIdle
  BY FaultsGrow, SafeBefore DEF TypeOK, ClaimsExclusive, Parts, DueInv
<1>1. CASE UNCHANGED vars
  BY <1>0, <1>1, DueQuiet DEF vars, row, claiming, jobs, RowStill
<1>2. CASE \/ \E w \in Worker : WorkerStep(w)
           \/ \E j \in Job : JobStep(j)
           \/ FaultStep
  BY <1>0, <1>2, DueWorker, DueJob, DueFault
<1>3. ASSUME NEW p \in Post, Create(p) \/ Enqueue(p)
      PROVE  DueIsIdle'
  <2>1. /\ status[p] = "ABSENT" /\ \A q \in Post : q # p => RowStill(q)
        /\ UNCHANGED <<due, phase, claimed, pc, snap, request>>
    BY <1>3 DEF Create, Enqueue, Insert, claiming, jobs, RowStill, TypeOK, RowOK
  <2>2. \A w \in Worker : \A s \in due[w] : s.post \in Post /\ s.post # p
    BY <1>0, <2>1, DueTyped DEF DueIsIdle
  <2> QED
    BY <1>0, <2>1, <2>2, DueQuiet
<1>4. ASSUME NEW r \in Request, NEW kind \in RequestKind, NEW p \in Post, ReadPost(r, kind, p)
      PROVE  DueIsIdle'
  <2>1. /\ UNCHANGED <<due, phase, claimed, pc, snap, row>>
        /\ \A q \in Request : q # r => request'[q] = request[q]
        /\ request'[r] = [step |-> "read", kind |-> kind, post |-> p]
        /\ kind = "retry" => status[p] = "FAILED"
    BY <1>4 DEF ReadPost, claiming, jobs, TypeOK, RequestOK
  <2> QED
    BY <1>0, <2>1, DueQuiet DEF RowStill, row
<1>5. ASSUME NEW r \in Request, RequestStep(r)
      PROVE  DueIsIdle'
  <2>1. NoNewRetry /\ request[r].step = "read" /\ request[r].post \in Post
        /\ (request[r].kind = "update" => "update" \in RequestKind)
    BY <1>5, AnswerIsNoRetry DEF RequestStep, Cancel, Update, Retry, TypeOK, RequestOK
  <2>2. /\ UNCHANGED <<due, phase, claimed, pc, snap>>
        /\ \A q \in Post : RowStill(q) \/ (q = request[r].post /\ request[r].kind = "retry")
    BY <1>5, <2>1 DEF RequestStep, Cancel, Update, Retry, Answer, claiming, jobs, RowStill,
                      TypeOK, RowOK
  <2>3. \A w \in Worker : \A s \in due[w] :
          s.post \in Post /\ ~ (s.post = request[r].post /\ request[r].kind = "retry")
    BY <1>0, <2>1, DueTyped DEF DueIsIdle
  <2>4. \A w \in Worker : \A s \in due[w] : RowStill(s.post)
    BY <2>2, <2>3
  <2> QED
    BY <1>0, <2>1, <2>2, <2>4, DueQuiet DEF NoNewRetry
<1>6. CASE (\E p \in Post : BeatLands(p)) \/ Tick
  <2>1. UNCHANGED <<due, phase, claimed, pc, snap, request>> /\ \A p \in Post : RowStill(p)
    BY <1>6 DEF BeatLands, Tick, Pred, claiming, jobs, RowStill
  <2> QED
    BY <1>0, <2>1, DueQuiet, DueTyped
<1> QED
  BY <1>1, <1>2, <1>3, <1>4, <1>5, <1>6 DEF Next

THEOREM DueCorrect == Spec => []DueInv
<1>1. Init => DueInv
  BY DEF Init, DueInv, DueIsIdle
<1> QED
  BY <1>1, DueStep, TypeCorrect, ExclusiveCorrect, PTL DEF Spec

(* One process claims only what is due: what it read is still so. *)
THEOREM ClaimsOnlyDueCorrect == Spec => ClaimsOnlyDue
<1>1. ASSUME TypeOK, DueInv, [Next]_vars, ClaimsAreSafe, SingleProcess,
             "update" \notin RequestKind,
             NEW w \in Worker, NEW s \in claimed'[w] \ claimed[w]
      PROVE  /\ status[s.post] = "PENDING" /\ retryCount[s.post] = s.retryCount
             /\ scheduledIn[s.post] = 0 /\ retryIn[s.post] = 0 /\ claimLeft[s.post] = 0
  <2>1. ~ UNCHANGED claimed
    BY <1>1
  <2>2. \A v \in Worker : ~ EndPhase(v)
    BY <1>1 DEF EndPhase, TypeOK, ClaimingOK
  <2>3. ~ UNCHANGED vars /\ ~ FaultStep
    BY <2>1, <2>2 DEF vars, claiming, FaultStep, ClaimError, Crash, AnswerLost, SaveError,
                      CompleteError, SettleError, BeatLost
  <2>4. ~ \E j \in Job : JobStep(j)
    BY <2>1 DEF JobStep, Resume, PublishSucceeds, PublishFails, SaveResult, Complete, Settle, claiming
  <2>5. ~ \E r \in Request : RequestStep(r)
    BY <2>1 DEF RequestStep, Cancel, Update, Retry, claiming
  <2>6. ~ \/ \E p \in Post : Create(p) \/ Enqueue(p)
          \/ \E r \in Request, kind \in RequestKind, p \in Post : ReadPost(r, kind, p)
          \/ \E p \in Post : BeatLands(p)
          \/ Tick
    BY <2>1 DEF Create, Enqueue, Insert, ReadPost, BeatLands, Tick, claiming
  <2>7. PICK v \in Worker : WorkerStep(v)
    BY <1>1, <2>3, <2>4, <2>5, <2>6 DEF Next
  <2>8. PICK t \in due[v] : ClaimPost(v, t)
    BY <2>1, <2>2, <2>7 DEF WorkerStep, CountByPlatform, CountByAccount, FindDue, Launch, Reconnect
  <2>9. s = t /\ v = w /\ Claimable(t.post)
    BY <1>1, <2>8 DEF ClaimPost, TypeOK, ClaimingOK
  <2> QED
    BY <1>1, <2>8, <2>9 DEF DueInv, DueIsIdle, Claimable
<1>2. TypeOK /\ DueInv /\ [Next]_vars =>
        [ ClaimsAreSafe /\ SingleProcess /\ "update" \notin RequestKind =>
            \A w \in Worker : \A s \in claimed'[w] \ claimed[w] :
              LET p == s.post IN
              /\ status[p] = "PENDING" /\ retryCount[p] = s.retryCount
              /\ scheduledIn[p] = 0 /\ retryIn[p] = 0 /\ claimLeft[p] = 0 ]_vars
  BY <1>1
<1> QED
  BY <1>2, TypeCorrect, DueCorrect, PTL DEF Spec, ClaimsOnlyDue

-----------------------------------------------------------------------------
(* A post goes live once *)

\* What one process keeps of the copies of rows it will act on, also when the
\* write of COMPLETED fails and the post is executed again.
CopiesAreFresh ==
  /\ \A w \in Worker : \A s \in due[w] \cup claimed[w] : published[s.post] > 0 => s.result
  /\ \A j \in Job : pc[j] = "publish" => published[snap[j].post] = 0
  /\ \A p \in Post : published[p] <= 1

OnceInv == ClaimsAreSafe /\ SingleProcess /\ NoFault(Recordable) => CopiesAreFresh

(* A step that publishes nothing and takes no new copy of a row. *)
LEMMA OnceKept ==
  ASSUME CopiesAreFresh, UNCHANGED published,
         \A w \in Worker : due'[w] \cup claimed'[w] \subseteq due[w] \cup claimed[w],
         \A j \in Job : pc'[j] = "publish" =>
           \/ pc[j] = "publish" /\ snap'[j] = snap[j]
           \/ published[snap'[j].post] = 0
  PROVE  CopiesAreFresh'
BY DEF CopiesAreFresh

LEMMA OnceWorker ==
  ASSUME TypeOK, Parts, ClaimsAreSafe, LiveIsRecorded, CopiesAreFresh,
         NEW w \in Worker, WorkerStep(w)
  PROVE  CopiesAreFresh'
<1>1. UNCHANGED <<published, result>>
  BY DEF WorkerStep, CountByPlatform, CountByAccount, FindDue, ClaimPost, Launch, Reconnect,
         row, history
<1>2. CASE CountByPlatform(w) \/ CountByAccount(w) \/ Reconnect(w)
  <2>1. UNCHANGED <<pc, snap, due, claimed>>
    BY <1>2 DEF CountByPlatform, CountByAccount, Reconnect, jobs
  <2> QED
    BY <1>1, <2>1, OnceKept
<1>3. CASE FindDue(w)
  <2> DEFINE found == {p \in Post :
                         IsDue(p) /\ OnAccount(seenByAccount[w], p) < AccountConcurrency}
  <2>1. UNCHANGED <<pc, snap>> /\ \A v \in Worker : claimed'[v] \subseteq claimed[v]
    BY <1>3 DEF FindDue, EndPhase, jobs, TypeOK, ClaimingOK
  <2>2. ASSUME NEW v \in Worker, NEW s \in due'[v], s \notin due[v]
        PROVE  published[s.post] > 0 => s.result
    <3>1. due'[w] # {} => due' = [due EXCEPT ![w] = {SnapshotOf(p) : p \in found}]
      BY <1>3 DEF FindDue, EndPhase, TypeOK, ClaimingOK
    <3>2. v = w /\ due'[w] = {SnapshotOf(p) : p \in found}
      BY <1>3, <2>2, <3>1 DEF FindDue, EndPhase, TypeOK, ClaimingOK
    <3>3. PICK p \in found : s = SnapshotOf(p)
      BY <2>2, <3>2
    <3>4. status[p] = "PENDING" /\ claimLeft[p] = 0 /\ p \in Post
      BY DEF IsDue
    <3>5. ~ InHand(p)
      BY <3>4, HeldIsClaimed
    <3>6. published[p] > 0 => result[p]
      BY <3>4, <3>5 DEF LiveIsRecorded, InHand, Running
    <3> QED
      BY <3>3, <3>6 DEF SnapshotOf
  <2> QED
    BY <1>1, <2>1, <2>2 DEF CopiesAreFresh
<1>4. ASSUME NEW s \in due[w], ClaimPost(w, s)
      PROVE  CopiesAreFresh'
  <2>1. /\ UNCHANGED <<pc, snap>>
        /\ \A v \in Worker : due'[v] \cup claimed'[v] \subseteq due[v] \cup claimed[v]
    BY <1>4 DEF ClaimPost, jobs, TypeOK, ClaimingOK
  <2> QED
    BY <1>1, <2>1, OnceKept
<1>5. CASE Launch(w)
  <2>1. \A v \in Worker : due'[v] \cup claimed'[v] \subseteq due[v] \cup claimed[v]
    BY <1>5 DEF Launch, EndPhase, TypeOK, ClaimingOK
  <2>2. ASSUME NEW j \in Job, pc'[j] = "publish"
        PROVE  \/ pc[j] = "publish" /\ snap'[j] = snap[j]
               \/ published[snap'[j].post] = 0
    <3>1. CASE pc'[j] = pc[j] /\ snap'[j] = snap[j]
      BY <2>2, <3>1
    <3>2. CASE snap'[j] \in claimed[w] /\ pc'[j] = FirstStep(snap'[j])
      <4>1. ~ snap'[j].result
        BY <2>2, <3>2 DEF FirstStep
      <4>2. snap'[j].post \in Post
        BY <3>2, HandTyped
      <4> QED
        BY <3>2, <4>1, <4>2 DEF CopiesAreFresh, TypeOK, HistoryOK
    <3> QED
      BY <1>5, <3>1, <3>2, LaunchKeepsJobs
  <2> QED
    BY <1>1, <2>1, <2>2, OnceKept
<1> QED
  BY <1>2, <1>3, <1>4, <1>5 DEF WorkerStep

(* The platform takes the post of job j: no copy of its row is left. *)
LEMMA OncePublished ==
  ASSUME TypeOK, Parts, DueIsIdle, CopiesAreFresh, NEW j \in Job, PublishSucceeds(j)
  PROVE  CopiesAreFresh'
<1> DEFINE p == snap[j].post
<1>p. p \in Post /\ Running(j) /\ published[p] = 0
  BY HandTyped DEF PublishSucceeds, Running, CopiesAreFresh
<1>1. /\ published' = [published EXCEPT ![p] = @ + 1]
      /\ pc' = [pc EXCEPT ![j] = "save"]
      /\ UNCHANGED <<snap, claimed, due>>
  BY DEF PublishSucceeds, Goto, Reaches, claiming
<1>2. published'[p] = 1 /\ \A q \in Post : q # p => published'[q] = published[q]
  BY <1>p, <1>1 DEF TypeOK, HistoryOK
<1>3. pc'[j] = "save" /\ \A i \in Job : i # j => pc'[i] = pc[i]
  BY <1>1 DEF TypeOK, JobsOK
<1>4. \A w \in Worker : \A s \in due[w] \cup claimed[w] : s.post \in Post /\ s.post # p
  BY <1>p, DueTyped, HandTyped DEF DueIsIdle, Parts, OneHolder
<1>5. \A i \in Job : i # j /\ pc[i] # "idle" => snap[i].post \in Post /\ snap[i].post # p
  BY <1>p, HandTyped DEF Parts, OneHolder, Running
<1> HIDE DEF p
<1> QED
  BY <1>1, <1>2, <1>3, <1>4, <1>5 DEF CopiesAreFresh

LEMMA OnceStep ==
  TypeOK /\ ClaimsExclusive /\ RecordInv /\ DueInv /\ OnceInv /\ [Next]_vars => OnceInv'
<1> SUFFICES ASSUME TypeOK, ClaimsExclusive, RecordInv, DueInv, OnceInv, [Next]_vars,
                    ClaimsAreSafe', SingleProcess, NoFault(Recordable)'
             PROVE  CopiesAreFresh'
  BY DEF OnceInv, SingleProcess
<1>0. ClaimsAreSafe /\ Parts /\ DueIsIdle
  BY FaultsGrow, SafeBefore DEF TypeOK, ClaimsExclusive, Parts, DueInv
<1>1. /\ CopiesAreFresh /\ LiveIsRecorded
      /\ ~ Fault("answer") /\ ~ Fault("crash") /\ ~ Fault("save")
  BY <1>0, NoFaultBefore DEF OnceInv, RecordInv, Recordable, FaultKind, TypeOK
<1>2. CASE UNCHANGED vars
  BY <1>1, <1>2, OnceKept DEF vars, claiming, jobs, history
<1>3. CASE \E w \in Worker : WorkerStep(w)
  BY <1>0, <1>1, <1>3, OnceWorker
<1>4. ASSUME NEW j \in Job, JobStep(j)
      PROVE  CopiesAreFresh'
  <2>1. CASE PublishSucceeds(j)
    BY <1>0, <1>1, <2>1, OncePublished
  <2>2. CASE ~ PublishSucceeds(j)
    <3>1. /\ UNCHANGED <<published, due, claimed>>
          /\ \A i \in Job : pc'[i] = "publish" => pc[i] = "publish" /\ snap'[i] = snap[i]
      BY <1>4, <2>2 DEF JobStep, Resume, PublishFails, SaveResult, Complete, Settle, Goto,
                        EndJob, claiming, history, TypeOK, JobsOK
    <3> QED
      BY <1>1, <3>1, OnceKept
  <2> QED
    BY <2>1, <2>2
<1>5. CASE FaultStep
  <2>1. /\ UNCHANGED published
        /\ \A i \in Job : pc'[i] = "publish" => pc[i] = "publish" /\ snap'[i] = snap[i]
    BY <1>1, <1>5 DEF FaultStep, ClaimError, Crash, AnswerLost, SaveError, CompleteError,
                      SettleError, BeatLost, Goto, EndJob, jobs, history, TypeOK, JobsOK
  <2>2. \A w \in Worker : due'[w] \cup claimed'[w] \subseteq due[w] \cup claimed[w]
    <3>1. CASE UNCHANGED claiming
      BY <3>1 DEF claiming
    <3>2. ASSUME NEW w \in Worker, EndPhase(w)
          PROVE  \A v \in Worker : due'[v] \cup claimed'[v] \subseteq due[v] \cup claimed[v]
      BY <3>2 DEF EndPhase, TypeOK, ClaimingOK
    <3> QED
      BY <1>5, <3>1, <3>2 DEF FaultStep, ClaimError, Crash, AnswerLost, SaveError,
                              CompleteError, SettleError, BeatLost
  <2> QED
    BY <1>1, <2>1, <2>2, OnceKept
<1>6. CASE \/ \E p \in Post : Create(p) \/ Enqueue(p)
           \/ \E r \in Request, kind \in RequestKind, p \in Post : ReadPost(r, kind, p)
           \/ \E r \in Request : RequestStep(r)
           \/ \E p \in Post : BeatLands(p)
           \/ Tick
  <2>1. UNCHANGED <<published, pc, snap, due, claimed>>
    BY <1>6 DEF Create, Enqueue, Insert, ReadPost, RequestStep, Cancel, Update, Retry,
                BeatLands, Tick, claiming, jobs, history
  <2> QED
    BY <1>1, <2>1, OnceKept
<1> QED
  BY <1>2, <1>3, <1>4, <1>5, <1>6 DEF Next

THEOREM OnceCorrect == Spec => []OnceInv
<1>1. Init => OnceInv
  BY DEF Init, OnceInv, CopiesAreFresh
<1> QED
  BY <1>1, OnceStep, TypeCorrect, ExclusiveCorrect, RecordCorrect, DueCorrect, PTL DEF Spec

(* A post goes live at most once, across retries by the worker and the user. *)
THEOREM PublishedOnceCorrect == Spec => []PublishedOnce
<1>1. OnceInv /\ FreshInv => PublishedOnce
  <2>1. ASSUME ClaimsAreSafe, NoFault({"answer", "crash", "save"}), SingleProcess, OnceInv
        PROVE  \A p \in Post : published[p] <= 1
    BY <2>1 DEF OnceInv, Recordable, CopiesAreFresh
  <2>2. ASSUME ClaimsAreSafe, NoFault({"answer", "crash", "save"}), NoFault({"complete"}), FreshInv
        PROVE  \A p \in Post : published[p] <= 1
    <3>1. NoFault(Answered)
      BY <2>2 DEF NoFault, Answered
    <3> QED
      BY <2>2, <3>1 DEF FreshInv, NotOutYet
  <2> QED
    BY <2>1, <2>2 DEF PublishedOnce
<1> QED
  BY <1>1, OnceCorrect, FreshCorrect, PTL

-----------------------------------------------------------------------------
(* The worker implements PostLifecycle *)

\* Processes that survive, a platform that answers, results that can be saved,
\* heartbeats that are not lost for a whole lease, and no cancellation; where
\* step 2 fails there is one process only.
Reliable ==
  /\ SingleProcess \/ MaxFaults["complete"] = 0
  /\ SerialRetry
  /\ "cancel" \notin RequestKind
  /\ MaxFaults["answer"] = 0 /\ MaxFaults["crash"] = 0 /\ MaxFaults["save"] = 0
  /\ MaxFaults["beat"] + 2 <= Lease

\* What a post in somebody's hands is, and what is known of its result.
Handled ==
  /\ \A p \in Post : status[p] # "CANCELLED"
  /\ \A p \in Post : InHand(p) => status[p] = "PENDING"
  /\ \A w \in Worker : \A s \in due[w] \cup claimed[w] : s.result => result[s.post]
  /\ \A j \in Job : pc[j] = "resume" => result[snap[j].post]
  /\ \A j \in Job : pc[j] \in {"save", "complete"} => published[snap[j].post] > 0

FaultsWithin == \A k \in FaultKind : faults[k] <= MaxFaults[k]

LifeInv == FaultsWithin /\ Handled

LEMMA WithinStep ==
  ASSUME HistoryOK, FaultsWithin, [Next]_vars
  PROVE  FaultsWithin'
<1>1. CASE UNCHANGED faults
  BY <1>1 DEF FaultsWithin
<1>2. ASSUME NEW k \in FaultKind, Fault(k)
      PROVE  FaultsWithin'
  <2>1. faults[k] \in Nat /\ MaxFaults[k] \in Nat /\ faults[k] < MaxFaults[k]
    BY <1>2, ConstantsAssumption DEF Fault, HistoryOK
  <2>2. faults'[k] = faults[k] + 1 /\ \A l \in FaultKind : l # k => faults'[l] = faults[l]
    BY <1>2 DEF Fault, HistoryOK
  <2> QED
    BY <2>1, <2>2 DEF FaultsWithin
<1> QED
  BY <1>1, <1>2, FaultsGrow

\* Where faults stay within their bounds the conditions of the invariants hold.
LEMMA ReliableIsSafe ==
  ASSUME Reliable, HistoryOK, FaultsWithin
  PROVE  /\ ClaimsAreSafe /\ NoFault(Recordable)
         /\ SingleProcess \/ NoFault(Answered)
         /\ \A k \in Recordable : ~ Fault(k)
<1>1. \A k \in Recordable \cup {"beat", "complete"} :
        faults[k] \in Nat /\ MaxFaults[k] \in Nat /\ faults[k] <= MaxFaults[k]
  BY ConstantsAssumption DEF HistoryOK, FaultsWithin, Recordable, FaultKind
<1>2. faults["beat"] + 2 <= Lease
  BY <1>1, ConstantsAssumption DEF Reliable
<1>3. \A k \in Recordable : faults[k] = 0 /\ MaxFaults[k] = 0
  BY <1>1 DEF Reliable, Recordable
<1>4. MaxFaults["complete"] = 0 => faults["complete"] = 0
  BY <1>1
<1> QED
  BY <1>2, <1>3, <1>4 DEF Reliable, ClaimsAreSafe, NoFault, Fault, Recordable, Answered

\* Who is about to publish a post is the first to do so.
GoesOutOnce ==
  /\ \A j \in Job : pc[j] = "publish" => published[snap[j].post] = 0
  /\ \A p \in Post : published[p] <= 1

\* The state in which each step of the refinement is taken.
LifeState ==
  /\ TypeOK /\ Parts /\ ClaimsAreSafe
  /\ LiveIsRecorded /\ GoesOutOnce /\ Handled
  /\ \A k \in Recordable : ~ Fault(k)

LEMMA LifeStateHolds ==
  ASSUME Reliable, TypeOK, ClaimsExclusive, RecordInv, FreshInv, OnceInv, LifeInv
  PROVE  LifeState
<1>1. GoesOutOnce
  BY ReliableIsSafe DEF GoesOutOnce, LifeInv, FreshInv, NotOutYet, OnceInv, CopiesAreFresh, TypeOK
<1> QED
  BY <1>1, ReliableIsSafe
  DEF LifeState, LifeInv, ClaimsExclusive, Parts, RecordInv, TypeOK

\* The post of a job is waiting, and its result is known once it is saved.
LEMMA JobKnows ==
  ASSUME LifeState, NEW j \in Job, Running(j)
  PROVE  LET p == snap[j].post IN
         /\ p \in Post /\ status[p] = "PENDING" /\ published[p] \in {0, 1}
         /\ pc[j] # "save" /\ published[p] = 1 => result[p]
         /\ pc[j] \in {"resume", "complete"} => result[p]
<1> DEFINE p == snap[j].post
<1>1. p \in Post /\ status[p] = "PENDING"
  BY HandTyped DEF LifeState, Handled
<1>2. published[p] \in {0, 1}
  BY <1>1 DEF LifeState, GoesOutOnce, TypeOK, HistoryOK
<1>3. ASSUME pc[j] # "save", published[p] > 0, ~ result[p]
      PROVE  FALSE
  <2>1. PICK i \in Job : pc[i] = "save" /\ snap[i].post = p
    BY <1>1, <1>3 DEF LifeState, LiveIsRecorded
  <2> QED
    BY <1>3, <2>1 DEF LifeState, Parts, OneHolder, Running
<1>4. pc[j] = "complete" => published[p] > 0
  BY DEF LifeState, Handled
<1>5. pc[j] = "resume" => result[p]
  BY DEF LifeState, Handled
<1> HIDE DEF p
<1>6. published[p] = 1 => published[p] > 0
  OBVIOUS
<1>7. pc[j] \in {"resume", "complete"} => result[p]
  BY <1>3, <1>4, <1>5
<1> QED
  BY <1>1, <1>2, <1>3, <1>6, <1>7 DEF p

(* A step that takes nothing in hand, reads no row and settles no post. *)
LEMMA HandledKept ==
  ASSUME Handled, UNCHANGED status, NothingTaken,
         \A p \in Post : (result[p] => result'[p]) /\ published'[p] = published[p],
         \A w \in Worker : due'[w] \subseteq due[w] /\ \A s \in due[w] \cup claimed[w] : s.post \in Post,
         \A j \in Job : pc'[j] # "idle" => snap[j].post \in Post,
         \A j \in Job : pc'[j] = "resume" => pc[j] = "resume",
         \A j \in Job : pc'[j] \in {"save", "complete"} => pc[j] \in {"save", "complete"}
  PROVE  Handled'
<1>1. \A p \in Post : InHand(p)' => InHand(p)
  BY DEF InHand, NothingTaken, Running, Posts
<1> QED
  BY <1>1 DEF Handled, NothingTaken

\* The posts of pages, claims and jobs, by type.
LEMMA LifeTyped ==
  ASSUME TypeOK
  PROVE  /\ \A w \in Worker : \A s \in due[w] \cup claimed[w] : s \in Snapshot /\ s.post \in Post
         /\ \A j \in Job : pc[j] # "idle" => snap[j].post \in Post
BY DueTyped, HandTyped, SnapshotFacts, JobOnPost DEF TypeOK, ClaimingOK, Running

LEMMA HandledWorker ==
  ASSUME LifeState, NEW w \in Worker, WorkerStep(w)
  PROVE  Handled'
<1> USE DEF LifeState
<1>1. UNCHANGED <<status, published, result>>
  BY DEF WorkerStep, CountByPlatform, CountByAccount, FindDue, ClaimPost, Launch, Reconnect,
         row, history
<1>2. CASE CountByPlatform(w) \/ CountByAccount(w) \/ Reconnect(w)
  <2>1. UNCHANGED <<pc, snap, due, claimed>>
    BY <1>2 DEF CountByPlatform, CountByAccount, Reconnect, jobs
  <2> QED
    BY <1>1, <2>1, LifeTyped, HandledKept DEF NothingTaken
<1>3. CASE FindDue(w)
  <2> DEFINE found == {p \in Post :
                         IsDue(p) /\ OnAccount(seenByAccount[w], p) < AccountConcurrency}
  <2>1. UNCHANGED <<pc, snap>> /\ \A v \in Worker : claimed'[v] \subseteq claimed[v]
    BY <1>3 DEF FindDue, EndPhase, jobs, TypeOK, ClaimingOK
  <2>2. \A v \in Worker : \A s \in due'[v] : s \in due[v] \/ \E p \in Post : s = SnapshotOf(p)
    <3>1. CASE EndPhase(w)
      BY <3>1 DEF EndPhase, TypeOK, ClaimingOK
    <3>2. CASE due' = [due EXCEPT ![w] = {SnapshotOf(p) : p \in found}]
      BY <3>2 DEF TypeOK, ClaimingOK
    <3> QED
      BY <1>3, <3>1, <3>2 DEF FindDue
  <2>3. \A v \in Worker : \A s \in due'[v] \cup claimed'[v] : s.result => result'[s.post]
    BY <1>1, <2>1, <2>2 DEF Handled, SnapshotOf
  <2>4. \A p \in Post : InHand(p)' => InHand(p)
    BY <2>1 DEF InHand, Running, Posts
  <2> QED
    BY <1>1, <2>1, <2>3, <2>4 DEF Handled
<1>4. ASSUME NEW s \in due[w], ClaimPost(w, s)
      PROVE  Handled'
  <2>1. /\ UNCHANGED <<pc, snap>>
        /\ \A v \in Worker : due'[v] \cup claimed'[v] \subseteq due[v] \cup claimed[v]
    BY <1>4 DEF ClaimPost, jobs, TypeOK, ClaimingOK
  <2>2. \A v \in Worker : \A t \in claimed'[v] : t \in claimed[v] \/ status[t.post] = "PENDING"
    BY <1>4 DEF ClaimPost, Claimable, TypeOK, ClaimingOK
  <2>3. \A p \in Post : InHand(p)' => InHand(p) \/ status[p] = "PENDING"
    BY <2>1, <2>2 DEF InHand, Running, Posts
  <2> QED
    BY <1>1, <2>1, <2>3 DEF Handled
<1>5. CASE Launch(w)
  <2>1. \A v \in Worker : due'[v] \cup claimed'[v] \subseteq due[v] \cup claimed[v]
    BY <1>5 DEF Launch, EndPhase, TypeOK, ClaimingOK
  <2>2. \A p \in Post : InHand(p)' => InHand(p)
    <3>1. \A v \in Worker : claimed'[v] \subseteq claimed[v]
      BY <1>5 DEF Launch, EndPhase, TypeOK, ClaimingOK
    <3>2. \A j \in Job : pc'[j] # "idle" =>
            \/ pc[j] # "idle" /\ snap'[j] = snap[j]
            \/ snap'[j] \in claimed[w]
      BY <1>5, LaunchKeepsJobs
    <3> QED
      BY <3>1, <3>2 DEF InHand, Running, Posts
  <2>3. \A j \in Job : pc'[j] = "resume" => result[snap'[j].post]
    <3>1. ASSUME NEW j \in Job, pc'[j] = "resume", pc'[j] = FirstStep(snap'[j]), snap'[j] \in claimed[w]
          PROVE  result[snap'[j].post]
      BY <3>1 DEF FirstStep, Handled
    <3> QED
      BY <1>5, <3>1, LaunchKeepsJobs DEF Handled
  <2>4. \A j \in Job : pc'[j] \in {"save", "complete"} => pc[j] = pc'[j] /\ snap'[j] = snap[j]
    BY <1>5, LaunchKeepsJobs DEF FirstStep
  <2> QED
    BY <1>1, <2>1, <2>2, <2>3, <2>4 DEF Handled
<1> QED
  BY <1>2, <1>3, <1>4, <1>5 DEF WorkerStep

LEMMA HandledJob ==
  ASSUME LifeState, NEW j \in Job, JobStep(j)
  PROVE  Handled'
<1> USE DEF LifeState
<1> DEFINE p == snap[j].post
<1>r. Running(j)
  BY DEF Running, JobStep, Resume, PublishSucceeds, PublishFails, SaveResult, Complete, Settle
<1>p. p \in Post
  BY <1>r, JobKnows
<1>0. UNCHANGED <<due, claimed>>
  BY DEF JobStep, Resume, PublishSucceeds, PublishFails, SaveResult, Complete, Settle, claiming
<1>1. CASE PublishSucceeds(j) \/ PublishFails(j) \/ SaveResult(j)
  <2>1. /\ UNCHANGED <<status, snap>>
        /\ \A i \in Job : i # j => pc'[i] = pc[i]
        /\ pc[j] # "idle" /\ pc'[j] \notin {"idle", "resume"}
    BY <1>1, OtherJobsKept DEF PublishSucceeds, PublishFails, SaveResult, Goto, row, TypeOK, JobsOK
  <2>2. /\ \A q \in Post : result[q] => result'[q]
        /\ \A q \in Post : published[q] > 0 => published'[q] > 0
    BY <1>1, <1>p DEF PublishSucceeds, PublishFails, SaveResult, Reaches, row, history,
                      TypeOK, RowOK, HistoryOK
  <2>3. pc'[j] \in {"save", "complete"} => published'[p] > 0
    <3>1. CASE PublishSucceeds(j)
      BY <1>p, <3>1 DEF PublishSucceeds, Reaches, TypeOK, HistoryOK
    <3>2. CASE SaveResult(j)
      BY <1>p, <2>2, <3>2 DEF SaveResult, Handled
    <3>3. CASE PublishFails(j)
      BY <3>3 DEF PublishFails, Goto, TypeOK, JobsOK
    <3> QED
      BY <1>1, <3>1, <3>2, <3>3
  <2>4. \A q \in Post : InHand(q)' => InHand(q)
    BY <1>0, <2>1 DEF InHand, Running, Posts
  <2>5. \A w \in Worker : \A s \in due'[w] \cup claimed'[w] : s.result => result'[s.post]
    BY <1>0, <2>2, LifeTyped DEF Handled
  <2>6. \A i \in Job : pc'[i] = "resume" => result'[snap'[i].post]
    BY <2>1, <2>2, LifeTyped DEF Handled
  <2>7. \A i \in Job : pc'[i] \in {"save", "complete"} => published'[snap'[i].post] > 0
    BY <2>1, <2>2, <2>3, LifeTyped DEF Handled
  <2> QED
    BY <2>1, <2>4, <2>5, <2>6, <2>7 DEF Handled
<1>2. CASE Resume(j) \/ Complete(j) \/ Settle(j)
  <2>1. /\ \A i \in Job : i # j => pc'[i] = pc[i] /\ snap'[i] = snap[i]
        /\ pc'[j] = "idle"
        /\ UNCHANGED <<published, result>>
    BY <1>2, OtherJobsKept DEF Resume, Complete, Settle, EndJob, row, history, TypeOK, JobsOK
  <2>2. /\ \A q \in Post : q # p => status'[q] = status[q]
        /\ status'[p] # "CANCELLED"
    BY <1>p, <1>2 DEF Resume, Complete, Settle, TypeOK, RowOK, Handled
  <2>3. \A q \in Post : InHand(q)' => InHand(q) /\ q # p
    <3>1. \A i \in Job : i # j /\ Running(i) => snap[i].post # p
      BY <1>r DEF Parts, OneHolder
    <3>2. \A w \in Worker : \A s \in claimed[w] : s.post # p
      BY <1>r DEF Parts, OneHolder
    <3>3. \A q \in Post : InHand(q)' => InHand(q)
      BY <1>0, <2>1 DEF InHand, Running, Posts
    <3> QED
      BY <1>0, <2>1, <3>1, <3>2, <3>3 DEF InHand, Running, Posts
  <2> QED
    BY <1>0, <2>1, <2>2, <2>3 DEF Handled
<1> QED
  BY <1>1, <1>2 DEF JobStep

LEMMA HandledStep ==
  ASSUME Reliable, LifeState, [Next]_vars
  PROVE  Handled'
<1> USE DEF LifeState
<1>1. CASE UNCHANGED vars
  BY <1>1 DEF vars, row, claiming, jobs, history, Handled, InHand, Running
<1>2. CASE \/ \E w \in Worker : WorkerStep(w)
           \/ \E j \in Job : JobStep(j)
  BY <1>2, HandledWorker, HandledJob
<1>3. ASSUME NEW p \in Post, Create(p) \/ Enqueue(p)
      PROVE  Handled'
  <2>1. /\ status' = [status EXCEPT ![p] = "PENDING"]
        /\ UNCHANGED <<result, published, due, claimed, pc, snap>>
    BY <1>3 DEF Create, Enqueue, Insert, claiming, jobs, history
  <2> QED
    BY <2>1 DEF Handled, InHand, Running, TypeOK, RowOK
<1>4. ASSUME NEW r \in Request, RequestStep(r)
      PROVE  Handled'
  <2>1. /\ ~ Cancel(r)
        /\ request[r].post \in Post
        /\ UNCHANGED <<result, published, due, claimed, pc, snap>>
    BY <1>4 DEF RequestStep, Cancel, Update, Retry, Answer, Reliable, TypeOK, RequestOK,
                claiming, jobs, history
  <2>2. \A p \in Post : status'[p] = status[p] \/ status'[p] = "PENDING"
    BY <1>4, <2>1 DEF RequestStep, Update, Retry, TypeOK, RowOK
  <2> QED
    BY <2>1, <2>2 DEF Handled, InHand, Running
<1>5. CASE \/ \E r \in Request, kind \in RequestKind, p \in Post : ReadPost(r, kind, p)
           \/ \E p \in Post : BeatLands(p)
           \/ Tick
  <2>1. UNCHANGED <<status, result, published, due, claimed, pc, snap>>
    BY <1>5 DEF ReadPost, BeatLands, Tick, row, claiming, jobs, history
  <2> QED
    BY <2>1 DEF Handled, InHand, Running
<1>6. CASE FaultStep
  <2>1. UNCHANGED <<status, result, published>>
    BY <1>6 DEF FaultStep, ClaimError, Crash, AnswerLost, SaveError, CompleteError, SettleError,
                BeatLost, Recordable, row, history
  <2>2. NothingTaken
    BY <1>6, OtherJobsKept DEF FaultStep, ClaimError, Crash, AnswerLost, SaveError, CompleteError,
         SettleError, BeatLost, Recordable, NothingTaken, Goto, EndJob, EndPhase, claiming, jobs,
         TypeOK, JobsOK, ClaimingOK
  <2>3. \A w \in Worker : due'[w] \subseteq due[w]
    BY <1>6 DEF FaultStep, ClaimError, Crash, AnswerLost, SaveError, CompleteError,
         SettleError, BeatLost, Recordable, EndPhase, claiming, TypeOK, ClaimingOK
  <2>4. \A j \in Job : /\ pc'[j] = "resume" => pc[j] = "resume"
                       /\ pc'[j] \in {"save", "complete"} => pc[j] \in {"save", "complete"}
    BY <1>6 DEF FaultStep, ClaimError, Crash, AnswerLost, SaveError, CompleteError,
         SettleError, BeatLost, Recordable, Goto, EndJob, jobs, TypeOK, JobsOK
  <2>5. \A j \in Job : pc'[j] # "idle" => snap[j].post \in Post
    BY <2>2, LifeTyped DEF NothingTaken
  <2> QED
    BY <2>1, <2>2, <2>3, <2>4, <2>5, LifeTyped, HandledKept
<1> QED
  BY <1>1, <1>2, <1>3, <1>4, <1>5, <1>6 DEF Next

THEOREM LifeCorrect ==
  ASSUME Reliable
  PROVE  Spec => []LifeInv
<1>1. Init => LifeInv
  BY ConstantsAssumption
  DEF Init, LifeInv, FaultsWithin, Handled, InHand, Running, Posts, NewRequest, NoSnapshot
<1>2. TypeOK /\ ClaimsExclusive /\ RecordInv /\ FreshInv /\ OnceInv /\ LifeInv /\ [Next]_vars
      => LifeInv'
  BY LifeStateHolds, HandledStep, WithinStep DEF LifeInv, TypeOK
<1> QED
  BY <1>1, <1>2, TypeCorrect, ExclusiveCorrect, RecordCorrect, FreshCorrect, OnceCorrect, PTL
  DEF Spec

(* A step that changes none of the three variables of PostLifecycle. *)
Unseen == UNCHANGED <<status, published, result>>

LEMMA JobImplements ==
  ASSUME LifeState, NEW j \in Job, JobStep(j)
  PROVE  [Lifecycle!Next]_(Lifecycle!vars)
<1> USE DEF LifeState
<1> DEFINE p == snap[j].post
<1>r. Running(j)
  BY DEF Running, JobStep, Resume, PublishSucceeds, PublishFails, SaveResult, Complete, Settle
<1>k. /\ p \in Post /\ status[p] = "PENDING" /\ published[p] \in {0, 1}
      /\ pc[j] # "save" /\ published[p] = 1 => result[p]
      /\ pc[j] \in {"resume", "complete"} => result[p]
  BY <1>r, JobKnows
<1>1. CASE PublishSucceeds(j)
  <2>1. pc[j] = "publish" /\ published' = [published EXCEPT ![p] = @ + 1]
        /\ UNCHANGED <<status, result>>
    BY <1>1 DEF PublishSucceeds, Reaches, row
  <2>2. published[p] = 0
    BY <2>1 DEF GoesOutOnce
  <2>3. published' = [published EXCEPT ![p] = 1]
    BY <2>1, <2>2
  <2>4. Lifecycle!GoLive(p)
    BY <1>k, <2>1, <2>2, <2>3 DEF Lifecycle!GoLive
  <2> QED
    BY <1>k, <2>4 DEF Lifecycle!Next
<1>2. CASE SaveResult(j)
  <2>1. pc[j] = "save" /\ result' = [result EXCEPT ![p] = TRUE]
        /\ UNCHANGED <<status, published>>
    BY <1>2 DEF SaveResult, history
  <2>2. CASE result[p]
    BY <2>1, <2>2 DEF Lifecycle!vars, TypeOK, RowOK
  <2>3. CASE ~ result[p]
    <3>1. published[p] > 0
      BY <2>1 DEF Handled
    <3>2. Lifecycle!Record(p)
      BY <1>k, <2>1, <2>3, <3>1 DEF Lifecycle!Record
    <3> QED
      BY <1>k, <3>2 DEF Lifecycle!Next
  <2> QED
    BY <2>2, <2>3
<1>3. CASE Resume(j) \/ Complete(j)
  <2>1. /\ pc[j] \in {"resume", "complete"}
        /\ status' = [status EXCEPT ![p] = "COMPLETED"]
        /\ UNCHANGED <<published, result>>
    BY <1>3, <1>k DEF Resume, Complete, history
  <2>2. Lifecycle!Finish(p)
    BY <1>k, <2>1 DEF Lifecycle!Finish, Lifecycle!Show
  <2> QED
    BY <1>k, <2>2 DEF Lifecycle!Next
<1>4. CASE Settle(j)
  <2>1. pc[j] \in {"fail", "reject"} /\ UNCHANGED <<published, result>>
    BY <1>4 DEF Settle, history
  <2>2. CASE UNCHANGED status
    BY <2>1, <2>2 DEF Lifecycle!vars
  <2>3. CASE status' = [status EXCEPT ![p] = "FAILED"]
    <3>1. Lifecycle!GiveUp(p)
      BY <1>k, <2>1, <2>3 DEF Lifecycle!GiveUp, Lifecycle!Show
    <3> QED
      BY <1>k, <3>1 DEF Lifecycle!Next
  <2> QED
    BY <1>4, <2>2, <2>3 DEF Settle
<1>5. CASE PublishFails(j)
  BY <1>5 DEF PublishFails, row, Lifecycle!vars
<1> QED
  BY <1>1, <1>2, <1>3, <1>4, <1>5 DEF JobStep

LEMMA StepImplements ==
  ASSUME Reliable, LifeState, [Next]_vars
  PROVE  [Lifecycle!Next]_(Lifecycle!vars)
<1> USE DEF LifeState
<1>0. Unseen => UNCHANGED Lifecycle!vars
  BY DEF Unseen, Lifecycle!vars
<1>1. CASE UNCHANGED vars
  BY <1>0, <1>1 DEF vars, row, history, Unseen
<1>2. CASE \E j \in Job : JobStep(j)
  BY <1>2, JobImplements
<1>3. CASE \E w \in Worker : WorkerStep(w)
  BY <1>0, <1>3 DEF WorkerStep, CountByPlatform, CountByAccount, FindDue, ClaimPost, Launch,
                    Reconnect, row, history, Unseen
<1>4. ASSUME NEW p \in Post, Create(p) \/ Enqueue(p)
      PROVE  [Lifecycle!Next]_(Lifecycle!vars)
  <2>1. Lifecycle!Submit(p)
    BY <1>4 DEF Create, Enqueue, Insert, history, Lifecycle!Submit, Lifecycle!Show
  <2> QED
    BY <2>1 DEF Lifecycle!Next
<1>5. ASSUME NEW r \in Request, RequestStep(r)
      PROVE  [Lifecycle!Next]_(Lifecycle!vars)
  <2> DEFINE p == request[r].post
  <2>1. ~ Cancel(r)
    BY <1>5 DEF Cancel, Answer, Reliable, TypeOK, RequestOK
  <2>2. CASE Update(r)
    BY <1>0, <2>2 DEF Update, history, Unseen
  <2>3. CASE Retry(r)
    <3>1. p \in Post /\ status[p] = "FAILED"
      BY <2>3 DEF Retry, Answer, Parts, RetryIsFree, Handled, TypeOK, RequestOK
    <3>2. Lifecycle!TryAgain(p)
      BY <2>3, <3>1 DEF Retry, Lifecycle!TryAgain, Lifecycle!Show
    <3> QED
      BY <3>1, <3>2 DEF Lifecycle!Next
  <2> QED
    BY <1>5, <2>1, <2>2, <2>3 DEF RequestStep
<1>6. CASE \/ \E r \in Request, kind \in RequestKind, p \in Post : ReadPost(r, kind, p)
           \/ \E p \in Post : BeatLands(p)
           \/ Tick
           \/ FaultStep
  BY <1>0, <1>6 DEF ReadPost, BeatLands, Tick, FaultStep, ClaimError, Crash, AnswerLost, SaveError,
                    CompleteError, SettleError, BeatLost, Recordable, row, history, Unseen
<1> QED
  BY <1>1, <1>2, <1>3, <1>4, <1>5, <1>6 DEF Next

(* The worker implements PostLifecycle: whatever claims, attempts, retries   *)
(* and failed writes come in between, a post goes out only while the user    *)
(* waits for it and only once, and is shown as done only when it is out and  *)
(* its link is known.                                                        *)
THEOREM LifecycleImplemented ==
  ASSUME Reliable
  PROVE  Spec => ImplementsLifecycle
<1>1. Init => Lifecycle!Init
  BY DEF Init, Lifecycle!Init
<1>2. /\ TypeOK /\ ClaimsExclusive /\ RecordInv /\ FreshInv /\ OnceInv /\ LifeInv
      /\ [Next]_vars
      => [Lifecycle!Next]_(Lifecycle!vars)
  BY LifeStateHolds, StepImplements
<1> QED
  BY <1>1, <1>2, TypeCorrect, ExclusiveCorrect, RecordCorrect, FreshCorrect, OnceCorrect,
     LifeCorrect, PTL
  DEF Spec, ImplementsLifecycle, Lifecycle!Spec

-----------------------------------------------------------------------------
(* The worker gives up *)

\* The attempts whose end was never written.
Unwritten == faults["crash"] + faults["settle"]

\* A post in somebody's hands is counted in the copy of its row, any other
\* one in the row.
Tallied ==
  /\ \A p \in Post : attempts[p] <= MaxRetries + Unwritten
  /\ \A p \in Post : status[p] = "ABSENT" => attempts[p] = 0
  /\ \A p \in Post :
       status[p] = "PENDING" /\ ~ InHand(p) => attempts[p] <= retryCount[p] + Unwritten
  /\ \A w \in Worker : \A s \in claimed[w] :
       /\ attempts[s.post] <= s.retryCount + Unwritten
       /\ status[s.post] = "PENDING" => retryCount[s.post] = s.retryCount
  /\ \A j \in Job :
       Running(j) =>
         /\ attempts[snap[j].post] <= snap[j].retryCount + 1 + Unwritten
         /\ pc[j] \in {"publish", "resume"} =>
              attempts[snap[j].post] <= snap[j].retryCount + Unwritten
         /\ status[snap[j].post] = "PENDING" => retryCount[snap[j].post] = snap[j].retryCount

TallyInv == ClaimsAreSafe /\ SingleProcess => Tallied

LEMMA UnwrittenGrows ==
  ASSUME HistoryOK, UNCHANGED faults \/ \E k \in FaultKind : Fault(k)
  PROVE  /\ Unwritten \in Nat /\ Unwritten' \in Nat /\ Unwritten' >= Unwritten
         /\ Fault("crash") \/ Fault("settle") => Unwritten' = Unwritten + 1
<1>0. faults["crash"] \in Nat /\ faults["settle"] \in Nat
  BY DEF HistoryOK, FaultKind
<1>1. CASE UNCHANGED faults
  BY <1>0, <1>1 DEF Unwritten, Fault, HistoryOK, FaultKind
<1>2. ASSUME NEW k \in FaultKind, Fault(k)
      PROVE  /\ Unwritten \in Nat /\ Unwritten' \in Nat /\ Unwritten' >= Unwritten
             /\ Fault("crash") \/ Fault("settle") => Unwritten' = Unwritten + 1
  <2>1. /\ faults'["crash"] = IF k = "crash" THEN faults["crash"] + 1 ELSE faults["crash"]
        /\ faults'["settle"] = IF k = "settle" THEN faults["settle"] + 1 ELSE faults["settle"]
    BY <1>2 DEF Fault, HistoryOK, FaultKind
  <2>2. Fault("crash") => faults'["crash"] = faults["crash"] + 1
    BY DEF Fault, HistoryOK, FaultKind
  <2>3. Fault("settle") => faults'["settle"] = faults["settle"] + 1
    BY DEF Fault, HistoryOK, FaultKind
  <2> QED
    BY <1>0, <2>1, <2>2, <2>3 DEF Unwritten
<1> QED
  BY <1>1, <1>2

\* What Tallied adds up.
LEMMA TallyTyped ==
  ASSUME TypeOK
  PROVE  /\ MaxRetries \in Nat
         /\ \A p \in Post : attempts[p] \in Nat /\ retryCount[p] \in Nat
         /\ \A w \in Worker : \A s \in claimed[w] :
              s.post \in Post /\ s.retryCount \in Nat /\ s.retryCount + 1 <= MaxRetries
         /\ \A j \in Job : Running(j) =>
              /\ snap[j].post \in Post /\ snap[j].retryCount \in Nat
              /\ snap[j].retryCount + 1 <= MaxRetries
<1>1. MaxRetries \in Nat /\ \A n \in 0..(MaxRetries - 1) : n \in Nat /\ n + 1 <= MaxRetries
  BY ConstantsAssumption
<1>2. \A p \in Post : attempts[p] \in Nat /\ retryCount[p] \in Nat
  BY <1>1 DEF TypeOK, RowOK, HistoryOK
<1>3. \A w \in Worker : \A s \in claimed[w] : s.post \in Post /\ s.retryCount \in 0..(MaxRetries - 1)
  BY SnapshotFacts DEF TypeOK, ClaimingOK
<1>4. \A j \in Job : Running(j) => snap[j].post \in Post /\ snap[j].retryCount \in 0..(MaxRetries - 1)
  BY JobOnPost DEF TypeOK, Running
<1> QED
  BY <1>1, <1>2, <1>3, <1>4

(* A step without an attempt, that takes nothing in hand; what it lets go is *)
(* counted in the row.                                                       *)
LEMMA TallyKept ==
  ASSUME TypeOK, Tallied, Unwritten \in Nat, Unwritten' \in Nat, Unwritten' >= Unwritten,
         UNCHANGED attempts, NothingTaken,
         \A p \in Post : status'[p] \in {"ABSENT", "PENDING"} => status'[p] = status[p],
         \A p \in Post : InHand(p)' => retryCount'[p] = retryCount[p],
         \A p \in Post :
           status'[p] = "PENDING" /\ ~ InHand(p)' =>
             \/ ~ InHand(p) /\ retryCount'[p] = retryCount[p]
             \/ attempts[p] <= retryCount'[p] + Unwritten',
         \A j \in Job :
           pc'[j] \in {"publish", "resume"} => pc[j] \in {"publish", "resume"},
         retryCount' \in [Post -> 0..MaxRetries]
  PROVE  Tallied'
<1>t. /\ MaxRetries \in Nat
      /\ \A p \in Post : attempts[p] \in Nat /\ retryCount[p] \in Nat /\ retryCount'[p] \in Nat
  BY TallyTyped
<1>1. \A p \in Post : attempts'[p] <= MaxRetries + Unwritten'
  BY <1>t DEF Tallied
<1>2. \A p \in Post : status'[p] = "ABSENT" => attempts'[p] = 0
  BY DEF Tallied
<1>3. \A p \in Post :
        status'[p] = "PENDING" /\ ~ InHand(p)' => attempts'[p] <= retryCount'[p] + Unwritten'
  BY <1>t DEF Tallied
<1>4. ASSUME NEW w \in Worker, NEW s \in claimed'[w]
      PROVE  /\ attempts'[s.post] <= s.retryCount + Unwritten'
             /\ status'[s.post] = "PENDING" => retryCount'[s.post] = s.retryCount
  <2>1. s \in claimed[w] /\ s.post \in Post /\ s.retryCount \in Nat
    BY <1>4, TallyTyped DEF NothingTaken
  <2>2. InHand(s.post)'
    BY <1>4 DEF InHand, Posts
  <2>3. attempts[s.post] <= s.retryCount + Unwritten
    BY <2>1 DEF Tallied
  <2>4. status[s.post] = "PENDING" => retryCount[s.post] = s.retryCount
    BY <2>1 DEF Tallied
  <2> QED
    BY <1>t, <2>1, <2>2, <2>3, <2>4
<1>5. ASSUME NEW j \in Job, Running(j)'
      PROVE  /\ attempts'[snap'[j].post] <= snap'[j].retryCount + 1 + Unwritten'
             /\ pc'[j] \in {"publish", "resume"} =>
                  attempts'[snap'[j].post] <= snap'[j].retryCount + Unwritten'
             /\ status'[snap'[j].post] = "PENDING" =>
                  retryCount'[snap'[j].post] = snap'[j].retryCount
  <2> DEFINE p == snap[j].post
             n == snap[j].retryCount
  <2>1. Running(j) /\ snap'[j] = snap[j] /\ p \in Post /\ n \in Nat
    BY <1>5, TallyTyped DEF NothingTaken, Running
  <2>2. InHand(p)'
    BY <1>5, <2>1 DEF InHand
  <2>3. /\ attempts[p] <= n + 1 + Unwritten
        /\ pc[j] \in {"publish", "resume"} => attempts[p] <= n + Unwritten
        /\ status[p] = "PENDING" => retryCount[p] = n
    BY <2>1 DEF Tallied
  <2>4. attempts[p] \in Nat /\ UNCHANGED attempts
    BY <1>t, <2>1
  <2>5. status'[p] = "PENDING" => retryCount'[p] = n
    BY <2>1, <2>2, <2>3
  <2> HIDE DEF p, n
  <2>6. /\ attempts[p] <= n + 1 + Unwritten'
        /\ pc'[j] \in {"publish", "resume"} => attempts[p] <= n + Unwritten'
    BY <2>1, <2>3, <2>4
  <2> QED
    BY <2>1, <2>5, <2>6 DEF p, n
<1> QED
  BY <1>1, <1>2, <1>3, <1>4, <1>5 DEF Tallied

(* A step that leaves attempts, rows and hands alone. *)
LEMMA TallyQuiet ==
  ASSUME TypeOK, Tallied, UNCHANGED faults \/ \E k \in FaultKind : Fault(k),
         UNCHANGED <<attempts, retryCount, claimed, snap>>,
         \A j \in Job : pc'[j] = "idle" <=> pc[j] = "idle",
         \A p \in Post : status'[p] \in {"ABSENT", "PENDING"} => status'[p] = status[p],
         \A j \in Job : pc'[j] \in {"publish", "resume"} => pc[j] \in {"publish", "resume"}
  PROVE  Tallied'
<1>1. NothingTaken
  BY DEF NothingTaken
<1>2. \A p \in Post : InHand(p)' <=> InHand(p)
  BY DEF InHand, Running, Posts
<1>3. retryCount' \in [Post -> 0..MaxRetries]
  BY DEF TypeOK, RowOK
<1>4. Unwritten \in Nat /\ Unwritten' \in Nat /\ Unwritten' >= Unwritten
  BY UnwrittenGrows DEF TypeOK
<1> QED
  BY <1>1, <1>2, <1>3, <1>4, TallyKept

LEMMA TallyClaim ==
  ASSUME TypeOK, Parts, ClaimsAreSafe, Tallied, DueIsIdle,
         NEW w \in Worker, NEW s \in due[w], ClaimPost(w, s)
  PROVE  Tallied'
<1> DEFINE p == s.post
<1>p. p \in Post
  BY DueTyped
<1>0. UNCHANGED <<attempts, retryCount, status, faults, pc, snap>>
  BY DEF ClaimPost, jobs, history
<1>1. CASE UNCHANGED claimed
  BY <1>0, <1>1, TallyQuiet
<1>2. CASE Claimable(p) /\ claimed' = [claimed EXCEPT ![w] = @ \cup {s}]
  <2>1. \A v \in Worker : \A t \in claimed'[v] : t \in claimed[v] \/ t = s
    BY <1>2 DEF TypeOK, ClaimingOK
  <2>2. status[p] = "PENDING" /\ ~ InHand(p)
    BY <1>2, <1>p, HeldIsClaimed DEF Claimable
  <2>3. retryCount[p] = s.retryCount
    BY DEF DueIsIdle
  <2>4. attempts[p] <= s.retryCount + Unwritten
    BY <1>p, <2>2, <2>3 DEF Tallied
  <2>5. \A q \in Post : InHand(q) => InHand(q)'
    BY <1>0, <1>2 DEF InHand, Running, Posts, TypeOK, ClaimingOK
  <2>6. Unwritten' = Unwritten
    BY <1>0 DEF Unwritten
  <2>7. \A v \in Worker : \A t \in claimed'[v] :
          /\ attempts'[t.post] <= t.retryCount + Unwritten'
          /\ status'[t.post] = "PENDING" => retryCount'[t.post] = t.retryCount
    BY <1>0, <2>1, <2>3, <2>4, <2>6 DEF Tallied
  <2>8. \A j \in Job :
          Running(j)' =>
            /\ attempts'[snap'[j].post] <= snap'[j].retryCount + 1 + Unwritten'
            /\ pc'[j] \in {"publish", "resume"} =>
                 attempts'[snap'[j].post] <= snap'[j].retryCount + Unwritten'
            /\ status'[snap'[j].post] = "PENDING" => retryCount'[snap'[j].post] = snap'[j].retryCount
    BY <1>0, <2>6 DEF Tallied, Running
  <2> QED
    BY <1>0, <2>5, <2>6, <2>7, <2>8 DEF Tallied
<1> QED
  BY <1>1, <1>2 DEF ClaimPost

LEMMA TallyLaunch ==
  ASSUME TypeOK, Parts, Tallied, NEW w \in Worker, Launch(w)
  PROVE  Tallied'
<1>0. UNCHANGED <<attempts, retryCount, status, faults>>
  BY DEF Launch, row, history
<1>1. Unwritten' = Unwritten /\ Unwritten \in Nat
  BY <1>0, UnwrittenGrows DEF Unwritten, TypeOK
<1>2. \A v \in Worker : claimed'[v] = IF v = w THEN {} ELSE claimed[v]
  BY DEF Launch, EndPhase, TypeOK, ClaimingOK
<1>3. PICK slotOf \in [claimed[w] -> FreeSlots(w)] :
         /\ \A s, t \in claimed[w] : slotOf[s] = slotOf[t] => s = t
         /\ \A j \in Job :
              \/ pc'[j] = pc[j] /\ snap'[j] = snap[j]
              \/ \E s \in claimed[w] :
                   /\ j = <<w, slotOf[s]>>
                   /\ snap'[j] = s
                   /\ pc'[j] = FirstStep(s)
         /\ \A s \in claimed[w] : /\ <<w, slotOf[s]>> \in Job
                                  /\ snap'[<<w, slotOf[s]>>] = s
                                  /\ pc'[<<w, slotOf[s]>>] = FirstStep(s)
  BY LaunchedJobs
<1>4. \A s \in claimed[w] : pc[<<w, slotOf[s]>>] = "idle"
  BY DEF FreeSlots
<1>5. \A p \in Post : InHand(p) => InHand(p)'
  <2>1. ASSUME NEW j \in Job, Running(j)
        PROVE  Running(j)' /\ snap'[j] = snap[j]
    BY <1>3, <1>4, <2>1 DEF Running
  <2>2. ASSUME NEW s \in claimed[w]
        PROVE  \E j \in Job : Running(j)' /\ snap'[j].post = s.post
    BY <1>3, <2>2 DEF Running, FirstStep
  <2> QED
    BY <1>2, <2>1, <2>2 DEF InHand, Posts
<1>6. \A j \in Job :
        Running(j)' =>
          /\ attempts'[snap'[j].post] <= snap'[j].retryCount + 1 + Unwritten'
          /\ pc'[j] \in {"publish", "resume"} =>
               attempts'[snap'[j].post] <= snap'[j].retryCount + Unwritten'
          /\ status'[snap'[j].post] = "PENDING" => retryCount'[snap'[j].post] = snap'[j].retryCount
  <2> SUFFICES ASSUME NEW j \in Job, Running(j)'
               PROVE  /\ attempts[snap'[j].post] <= snap'[j].retryCount + 1 + Unwritten
                      /\ pc'[j] \in {"publish", "resume"} =>
                           attempts[snap'[j].post] <= snap'[j].retryCount + Unwritten
                      /\ status[snap'[j].post] = "PENDING" =>
                           retryCount[snap'[j].post] = snap'[j].retryCount
    BY <1>0, <1>1
  <2>1. CASE pc'[j] = pc[j] /\ snap'[j] = snap[j]
    BY <2>1 DEF Tallied, Running
  <2>2. ASSUME NEW s \in claimed[w], snap'[j] = s
        PROVE  /\ attempts[s.post] <= s.retryCount + 1 + Unwritten
               /\ attempts[s.post] <= s.retryCount + Unwritten
               /\ status[s.post] = "PENDING" => retryCount[s.post] = s.retryCount
    <3>1. /\ attempts[s.post] \in Nat /\ s.retryCount \in Nat
      BY TallyTyped
    <3> QED
      BY <1>1, <3>1 DEF Tallied
  <2> QED
    BY <1>3, <2>1, <2>2
<1>7. \A v \in Worker : \A s \in claimed'[v] :
        /\ attempts'[s.post] <= s.retryCount + Unwritten'
        /\ status'[s.post] = "PENDING" => retryCount'[s.post] = s.retryCount
  BY <1>0, <1>1, <1>2 DEF Tallied
<1> QED
  BY <1>0, <1>1, <1>5, <1>6, <1>7 DEF Tallied

(* One more attempt at the post of job j, which nobody else has in hand. *)
LEMMA TallyAttempt ==
  ASSUME TypeOK, Parts, Tallied, NEW j \in Job, pc[j] = "publish",
         NEW step \in {"save", "fail", "reject"}, Goto(j, step), Attempted(snap[j].post),
         UNCHANGED <<retryCount, status, claimed>>,
         UNCHANGED faults \/ \E k \in FaultKind : Fault(k)
  PROVE  Tallied'
<1> DEFINE p == snap[j].post
           n == snap[j].retryCount
<1>1. Running(j) /\ p \in Post /\ n \in Nat /\ n + 1 <= MaxRetries /\ attempts[p] \in Nat
      /\ MaxRetries \in Nat
  BY TallyTyped DEF Running
<1>2. /\ attempts'[p] = attempts[p] + 1
      /\ \A q \in Post : q # p => attempts'[q] = attempts[q]
  BY <1>1 DEF Attempted, TypeOK, HistoryOK
<1>3. Unwritten \in Nat /\ Unwritten' \in Nat /\ Unwritten' >= Unwritten
  BY UnwrittenGrows DEF TypeOK
<1>4. attempts[p] <= n + Unwritten /\ (status[p] = "PENDING" => retryCount[p] = n)
  BY <1>1 DEF Tallied
<1>5. attempts'[p] <= n + 1 + Unwritten' /\ attempts'[p] <= MaxRetries + Unwritten'
  BY <1>1, <1>2, <1>3, <1>4
<1>6. /\ \A i \in Job : i # j => pc'[i] = pc[i] /\ snap'[i] = snap[i]
      /\ pc'[j] = step /\ snap'[j] = snap[j]
  BY OtherJobsKept DEF Goto, TypeOK, JobsOK
<1>7. \A q \in Post : InHand(q)' <=> InHand(q)
  BY <1>6, <1>1 DEF InHand, Running, Posts
<1>8. InHand(p) /\ status[p] \notin {"ABSENT"}
  BY <1>1, HandTyped DEF Parts, IdleIsFree
<1>9. \A i \in Job : i # j /\ Running(i) => snap[i].post \in Post /\ snap[i].post # p
  BY <1>1, HandTyped DEF Parts, OneHolder
<1>10. \A w \in Worker : \A s \in claimed[w] : s.post \in Post /\ s.post # p
  BY <1>1, HandTyped DEF Parts, OneHolder
<1> HIDE DEF p
<1>a. \A q \in Post : attempts[q] \in Nat /\ retryCount[q] \in Nat
  BY TallyTyped
<1>11. \A q \in Post : attempts'[q] <= MaxRetries + Unwritten'
  BY <1>1, <1>2, <1>3, <1>5, <1>a DEF Tallied
<1>12. \A q \in Post : status'[q] = "ABSENT" => attempts'[q] = 0
  BY <1>2, <1>8 DEF Tallied
<1>13. \A q \in Post :
         status'[q] = "PENDING" /\ ~ InHand(q)' => attempts'[q] <= retryCount'[q] + Unwritten'
  BY <1>2, <1>3, <1>7, <1>8, <1>a DEF Tallied
<1>14. ASSUME NEW w \in Worker, NEW s \in claimed'[w]
       PROVE  /\ attempts'[s.post] <= s.retryCount + Unwritten'
              /\ status'[s.post] = "PENDING" => retryCount'[s.post] = s.retryCount
  <2>1. s \in claimed[w] /\ s.post \in Post /\ s.post # p /\ s.retryCount \in Nat
    BY <1>10, TallyTyped
  <2>2. attempts[s.post] <= s.retryCount + Unwritten
        /\ (status[s.post] = "PENDING" => retryCount[s.post] = s.retryCount)
    BY <2>1 DEF Tallied
  <2> QED
    BY <1>2, <1>3, <1>a, <2>1, <2>2
<1>15. ASSUME NEW i \in Job, Running(i)', i # j
       PROVE  /\ attempts'[snap'[i].post] <= snap'[i].retryCount + 1 + Unwritten'
              /\ pc'[i] \in {"publish", "resume"} =>
                   attempts'[snap'[i].post] <= snap'[i].retryCount + Unwritten'
              /\ status'[snap'[i].post] = "PENDING" =>
                   retryCount'[snap'[i].post] = snap'[i].retryCount
  <2>1. Running(i) /\ snap[i].post \in Post /\ snap[i].post # p /\ snap[i].retryCount \in Nat
    BY <1>6, <1>9, <1>15, TallyTyped DEF Running
  <2>2. /\ attempts[snap[i].post] <= snap[i].retryCount + 1 + Unwritten
        /\ pc[i] \in {"publish", "resume"} =>
             attempts[snap[i].post] <= snap[i].retryCount + Unwritten
        /\ status[snap[i].post] = "PENDING" => retryCount[snap[i].post] = snap[i].retryCount
    BY <2>1 DEF Tallied
  <2> QED
    BY <1>2, <1>3, <1>6, <1>15, <1>a, <2>1, <2>2
<1>16. /\ attempts'[snap'[j].post] <= snap'[j].retryCount + 1 + Unwritten'
       /\ pc'[j] \notin {"publish", "resume"}
       /\ status'[snap'[j].post] = "PENDING" => retryCount'[snap'[j].post] = snap'[j].retryCount
  BY <1>4, <1>5, <1>6 DEF p, n
<1> QED
  BY <1>11, <1>12, <1>13, <1>14, <1>15, <1>16 DEF Tallied

(* A job is over: its count is in the row, or the post waits no longer. *)
LEMMA TallyEnd ==
  ASSUME TypeOK, TypeOK', Parts, Tallied, NEW j \in Job, Resume(j) \/ Complete(j) \/ Settle(j)
  PROVE  Tallied'
<1> DEFINE p == snap[j].post
           n == snap[j].retryCount
<1>1. Running(j) /\ p \in Post /\ n \in Nat
  BY TallyTyped DEF Running, Resume, Complete, Settle
<1>2. /\ \A i \in Job : i # j => pc'[i] = pc[i] /\ snap'[i] = snap[i]
      /\ pc'[j] = "idle"
      /\ UNCHANGED <<attempts, faults, claimed>>
  BY OtherJobsKept DEF Resume, Complete, Settle, EndJob, history, claiming, TypeOK, JobsOK
<1>3. /\ \A q \in Post : q # p => status'[q] = status[q] /\ retryCount'[q] = retryCount[q]
      /\ \/ status'[p] = "COMPLETED"
         \/ status'[p] = status[p] /\ status[p] # "PENDING"
         \/ status'[p] = "FAILED"
         \/ /\ pc[j] \in {"fail", "reject"} /\ status'[p] = status[p]
            /\ retryCount'[p] = n + 1
  BY <1>1 DEF Resume, Complete, Settle, TypeOK, RowOK
<1>4. Unwritten \in Nat /\ Unwritten' = Unwritten
  BY <1>2, UnwrittenGrows DEF Unwritten, TypeOK
<1>5. \A q \in Post : InHand(q)' => InHand(q) /\ q # p
  <2>1. \A i \in Job : i # j /\ Running(i) => snap[i].post # p
    BY <1>1 DEF Parts, OneHolder
  <2>2. \A w \in Worker : \A s \in claimed[w] : s.post # p
    BY <1>1 DEF Parts, OneHolder
  <2> QED
    BY <1>2, <2>1, <2>2 DEF InHand, Running, Posts
<1>6. \A q \in Post : InHand(q) /\ q # p => InHand(q)'
  BY <1>2 DEF InHand, Running, Posts
<1>7. ASSUME NEW q \in Post, status'[q] = "PENDING", ~ InHand(q)'
      PROVE  \/ ~ InHand(q) /\ retryCount'[q] = retryCount[q]
             \/ attempts[q] <= retryCount'[q] + Unwritten'
  <2>1. CASE q # p
    BY <1>3, <1>6, <1>7, <2>1
  <2>2. CASE q = p
    <3>1. retryCount'[p] = n + 1
      BY <1>3, <1>7, <2>2
    <3>2. attempts[p] <= n + 1 + Unwritten
      BY <1>1 DEF Tallied
    <3> QED
      BY <1>4, <2>2, <3>1, <3>2
  <2> QED
    BY <2>1, <2>2
<1>8. NothingTaken
  BY <1>2 DEF NothingTaken
<1>9. \A i \in Job : pc'[i] \in {"publish", "resume"} => pc[i] \in {"publish", "resume"}
  BY <1>2
<1>10. \A q \in Post : status'[q] \in {"ABSENT", "PENDING"} => status'[q] = status[q]
  BY <1>3
<1>11. \A q \in Post : InHand(q)' => retryCount'[q] = retryCount[q]
  BY <1>3, <1>5
<1>12. retryCount' \in [Post -> 0..MaxRetries] /\ Unwritten' >= Unwritten /\ Unwritten' \in Nat
  BY <1>4 DEF TypeOK, RowOK
<1> HIDE DEF p, n
<1> QED
  BY <1>2, <1>4, <1>7, <1>8, <1>9, <1>10, <1>11, <1>12, TallyKept

(* What a claim phase or a job drops without a write is counted in the row,  *)
(* but for the attempt of a job that dies.                                   *)
LEMMA TallyDropped ==
  ASSUME TypeOK, Tallied, UNCHANGED faults \/ \E k \in FaultKind : Fault(k),
         UNCHANGED <<attempts, retryCount, status>>, NothingTaken,
         \A j \in Job : pc'[j] \in {"publish", "resume"} => pc[j] \in {"publish", "resume"},
         (\A j \in Job : Running(j) => Running(j)') \/ Unwritten' = Unwritten + 1
  PROVE  Tallied'
<1>1. Unwritten \in Nat /\ Unwritten' \in Nat /\ Unwritten' >= Unwritten
  BY UnwrittenGrows DEF TypeOK
<1>2. ASSUME NEW p \in Post, status'[p] = "PENDING", InHand(p), ~ InHand(p)'
      PROVE  attempts[p] <= retryCount'[p] + Unwritten'
  <2>0. attempts[p] \in Nat /\ retryCount[p] \in Nat
    BY TallyTyped
  <2>1. ASSUME NEW w \in Worker, NEW s \in claimed[w], s.post = p
        PROVE  attempts[p] <= retryCount[p] + Unwritten
    BY <1>2, <2>1 DEF Tallied
  <2>2. ASSUME NEW j \in Job, Running(j), snap[j].post = p
        PROVE  attempts[p] <= retryCount[p] + Unwritten'
    <3>1. attempts[p] <= retryCount[p] + 1 + Unwritten
      BY <1>2, <2>2 DEF Tallied
    <3>2. ~ Running(j)'
      BY <1>2, <2>2 DEF InHand, NothingTaken, Running
    <3> QED
      BY <1>1, <2>0, <2>2, <3>1, <3>2
  <2> QED
    BY <1>1, <1>2, <2>0, <2>1, <2>2 DEF InHand, Posts
<1>3. retryCount' \in [Post -> 0..MaxRetries]
  BY DEF TypeOK, RowOK
<1> QED
  BY <1>1, <1>2, <1>3, TallyKept

LEMMA TallyFault ==
  ASSUME TypeOK, Parts, Tallied, FaultStep
  PROVE  Tallied'
<1>0. UNCHANGED faults \/ \E k \in FaultKind : Fault(k)
  BY DEF FaultStep, ClaimError, Crash, AnswerLost, SaveError, CompleteError, SettleError,
         BeatLost, FaultKind
<1>1. ASSUME NEW w \in Worker, ClaimError(w)
      PROVE  Tallied'
  <2>1. UNCHANGED <<attempts, retryCount, status, pc, snap>> /\ NothingTaken
    BY <1>1 DEF ClaimError, EndPhase, row, jobs, history, NothingTaken, TypeOK, ClaimingOK
  <2> QED
    BY <1>0, <2>1, TallyDropped DEF Running
<1>2. ASSUME NEW w \in Worker, Crash(w)
      PROVE  Tallied'
  <2>1. UNCHANGED <<attempts, retryCount, status>> /\ Fault("crash")
    BY <1>2 DEF Crash, row, history
  <2>2. /\ \A v \in Worker : claimed'[v] \subseteq claimed[v]
        /\ \A j \in Job : pc'[j] = "idle" \/ (pc'[j] = pc[j] /\ snap'[j] = snap[j])
    BY <1>2 DEF Crash, EndPhase, TypeOK, ClaimingOK
  <2>3. Unwritten' = Unwritten + 1
    BY <1>0, <2>1, UnwrittenGrows DEF TypeOK
  <2> QED
    BY <1>0, <2>1, <2>2, <2>3, TallyDropped DEF NothingTaken
<1>3. ASSUME NEW j \in Job, SettleError(j)
      PROVE  Tallied'
  <2>1. UNCHANGED <<attempts, retryCount, status, claimed>> /\ Fault("settle")
    BY <1>3 DEF SettleError, row, history, claiming
  <2>2. \A i \in Job : pc'[i] = "idle" \/ (pc'[i] = pc[i] /\ snap'[i] = snap[i])
    BY <1>3 DEF SettleError, EndJob, TypeOK, JobsOK
  <2>3. Unwritten' = Unwritten + 1
    BY <1>0, <2>1, UnwrittenGrows DEF TypeOK
  <2> QED
    BY <1>0, <2>1, <2>2, <2>3, TallyDropped DEF NothingTaken
<1>4. ASSUME NEW j \in Job, AnswerLost(j)
      PROVE  Tallied'
  BY <1>0, <1>4, TallyAttempt DEF AnswerLost, row, claiming
<1>5. ASSUME NEW j \in Job, SaveError(j) \/ CompleteError(j)
      PROVE  Tallied'
  <2>1. /\ UNCHANGED <<attempts, retryCount, status, claimed, snap>>
        /\ \A i \in Job : \/ pc'[i] = pc[i]
                          \/ pc[i] \in {"save", "complete"} /\ pc'[i] \in {"complete", "fail"}
    BY <1>5 DEF SaveError, CompleteError, Goto, row, history, claiming, TypeOK, JobsOK
  <2> QED
    BY <1>0, <2>1, TallyQuiet
<1>6. ASSUME NEW p \in Post, BeatLost(p)
      PROVE  Tallied'
  BY <1>0, <1>6, TallyQuiet DEF BeatLost, row, claiming, jobs, history
<1> QED
  BY <1>1, <1>2, <1>3, <1>4, <1>5, <1>6 DEF FaultStep

(* A post nobody has in hand starts again from nothing. *)
LEMMA TallyFresh ==
  ASSUME TypeOK, Tallied, NEW p \in Post, ~ InHand(p), attempts'[p] = 0,
         status'[p] # "ABSENT", retryCount'[p] \in Nat,
         \A q \in Post : q # p => /\ attempts'[q] = attempts[q]
                                  /\ status'[q] = status[q]
                                  /\ retryCount'[q] = retryCount[q],
         UNCHANGED <<claimed, pc, snap, faults>>
  PROVE  Tallied'
<1>1. Unwritten' = Unwritten /\ Unwritten \in Nat /\ MaxRetries \in Nat
  BY UnwrittenGrows, TallyTyped DEF Unwritten, TypeOK
<1>2. \A q \in Post : InHand(q)' <=> InHand(q)
  BY DEF InHand, Running, Posts
<1>3. \A w \in Worker : \A s \in claimed[w] : s.post \in Post /\ s.post # p
  BY TallyTyped DEF InHand, Posts
<1>4. \A j \in Job : Running(j) => snap[j].post \in Post /\ snap[j].post # p
  BY TallyTyped DEF InHand
<1>5. /\ \A q \in Post : attempts'[q] <= MaxRetries + Unwritten'
      /\ \A q \in Post : status'[q] = "ABSENT" => attempts'[q] = 0
      /\ \A q \in Post :
           status'[q] = "PENDING" /\ ~ InHand(q)' => attempts'[q] <= retryCount'[q] + Unwritten'
  BY <1>1, <1>2 DEF Tallied
<1>6. \A w \in Worker : \A s \in claimed'[w] :
        /\ attempts'[s.post] <= s.retryCount + Unwritten'
        /\ status'[s.post] = "PENDING" => retryCount'[s.post] = s.retryCount
  BY <1>1, <1>3 DEF Tallied
<1>7. \A j \in Job :
        Running(j)' =>
          /\ attempts'[snap'[j].post] <= snap'[j].retryCount + 1 + Unwritten'
          /\ pc'[j] \in {"publish", "resume"} =>
               attempts'[snap'[j].post] <= snap'[j].retryCount + Unwritten'
          /\ status'[snap'[j].post] = "PENDING" => retryCount'[snap'[j].post] = snap'[j].retryCount
  BY <1>1, <1>4 DEF Tallied, Running
<1> QED
  BY <1>5, <1>6, <1>7 DEF Tallied

LEMMA TallyStep ==
  TypeOK /\ TypeOK' /\ ClaimsExclusive /\ DueInv /\ TallyInv /\ [Next]_vars => TallyInv'
<1> SUFFICES ASSUME TypeOK, TypeOK', ClaimsExclusive, DueInv, TallyInv, [Next]_vars,
                    ClaimsAreSafe', SingleProcess
             PROVE  Tallied'
  BY DEF TallyInv, SingleProcess
<1>0. ClaimsAreSafe /\ Parts /\ DueIsIdle /\ Tallied
  BY FaultsGrow, SafeBefore DEF TypeOK, ClaimsExclusive, Parts, DueInv, TallyInv
<1>f. UNCHANGED faults \/ \E k \in FaultKind : Fault(k)
  BY FaultsGrow
<1>1. CASE UNCHANGED vars
  BY <1>0, <1>1, TallyQuiet DEF vars, row, claiming, jobs, history
<1>2. CASE FaultStep
  BY <1>0, <1>2, TallyFault
<1>3. ASSUME NEW w \in Worker, WorkerStep(w)
      PROVE  Tallied'
  <2>1. CASE CountByPlatform(w) \/ CountByAccount(w) \/ Reconnect(w)
    BY <1>0, <2>1, TallyQuiet DEF CountByPlatform, CountByAccount, Reconnect, row, jobs, history
  <2>2. CASE FindDue(w)
    <3>1. UNCHANGED <<attempts, retryCount, status, pc, snap, faults>>
          /\ \A v \in Worker : claimed'[v] \subseteq claimed[v]
      BY <2>2 DEF FindDue, EndPhase, row, jobs, history, TypeOK, ClaimingOK
    <3> QED
      BY <1>0, <3>1, TallyDropped DEF NothingTaken, Running
  <2> QED
    BY <1>0, <1>3, <2>1, <2>2, TallyClaim, TallyLaunch DEF WorkerStep
<1>4. ASSUME NEW j \in Job, JobStep(j)
      PROVE  Tallied'
  <2>1. CASE PublishSucceeds(j)
    BY <1>0, <2>1, TallyAttempt DEF PublishSucceeds, row, claiming
  <2>2. CASE PublishFails(j)
    BY <1>0, <2>2, TallyAttempt DEF PublishFails, row, claiming
  <2>3. CASE SaveResult(j)
    <3>1. /\ UNCHANGED <<attempts, retryCount, status, claimed, snap>>
          /\ \A i \in Job : pc'[i] = pc[i] \/ (pc[i] = "save" /\ pc'[i] = "complete")
      BY <2>3 DEF SaveResult, Goto, history, claiming, TypeOK, JobsOK
    <3> QED
      BY <1>0, <1>f, <3>1, TallyQuiet
  <2> QED
    BY <1>0, <1>4, <2>1, <2>2, <2>3, TallyEnd DEF JobStep
<1>5. ASSUME NEW p \in Post, Create(p) \/ Enqueue(p)
      PROVE  Tallied'
  <2>1. /\ status[p] = "ABSENT" /\ status' = [status EXCEPT ![p] = "PENDING"]
        /\ UNCHANGED <<attempts, retryCount, claimed, pc, snap, faults>>
    BY <1>5 DEF Create, Enqueue, Insert, claiming, jobs, history
  <2>2. ~ InHand(p) /\ attempts[p] = 0 /\ retryCount[p] \in Nat
    BY <1>0, <2>1, TallyTyped DEF Parts, IdleIsFree, Tallied
  <2> QED
    BY <1>0, <2>1, <2>2, TallyFresh DEF TypeOK, RowOK
<1>6. ASSUME NEW r \in Request, RequestStep(r)
      PROVE  Tallied'
  <2> DEFINE p == request[r].post
  <2>1. CASE Cancel(r) \/ Update(r)
    <3>1. /\ UNCHANGED <<attempts, retryCount, claimed, pc, snap, faults>>
          /\ \A q \in Post : status'[q] = status[q] \/ status'[q] = "CANCELLED"
      BY <2>1 DEF Cancel, Update, claiming, jobs, history, TypeOK, RowOK
    <3> QED
      BY <1>0, <1>f, <3>1, TallyQuiet
  <2>2. CASE Retry(r)
    <3>1. p \in Post /\ ~ InHand(p)
      BY <1>0, <2>2 DEF Retry, Answer, Parts, RetryIsFree, TypeOK, RequestOK
    <3>2. /\ attempts' = [attempts EXCEPT ![p] = 0]
          /\ retryCount' = [retryCount EXCEPT ![p] = 0]
          /\ status' = [status EXCEPT ![p] = "PENDING"]
          /\ UNCHANGED <<claimed, pc, snap, faults>>
      BY <2>2 DEF Retry, claiming, jobs
    <3>3. /\ attempts'[p] = 0 /\ retryCount'[p] = 0 /\ status'[p] = "PENDING"
          /\ \A q \in Post : q # p => /\ attempts'[q] = attempts[q]
                                      /\ status'[q] = status[q]
                                      /\ retryCount'[q] = retryCount[q]
      BY <3>1, <3>2 DEF TypeOK, RowOK, HistoryOK
    <3> HIDE DEF p
    <3> QED
      BY <1>0, <3>1, <3>2, <3>3, TallyFresh
  <2> QED
    BY <1>6, <2>1, <2>2 DEF RequestStep
<1>7. CASE \/ \E r \in Request, kind \in RequestKind, p \in Post : ReadPost(r, kind, p)
           \/ \E p \in Post : BeatLands(p)
           \/ Tick
  <2>1. UNCHANGED <<attempts, retryCount, status, claimed, pc, snap>>
    BY <1>7 DEF ReadPost, BeatLands, Tick, row, claiming, jobs, history
  <2> QED
    BY <1>0, <1>f, <2>1, TallyQuiet
<1> QED
  BY <1>1, <1>2, <1>3, <1>4, <1>5, <1>6, <1>7 DEF Next

THEOREM TallyCorrect == Spec => []TallyInv
<1>1. Init => TallyInv
  BY TypeInit, ConstantsAssumption
  DEF Init, TallyInv, Tallied, Unwritten, Running, InHand, Posts, FaultKind
<1> QED
  BY <1>1, TallyStep, TypeCorrect, ExclusiveCorrect, DueCorrect, PTL DEF Spec

(* The worker gives up after MAX_RETRIES attempts: only an attempt whose end *)
(* was never written comes on top.                                           *)
THEOREM AttemptsBoundedCorrect == Spec => []AttemptsBounded
<1>1. TypeOK /\ TallyInv => AttemptsBounded
  <2> SUFFICES ASSUME TypeOK, TallyInv, ClaimsAreSafe, SingleProcess, NEW p \in Post
               PROVE  attempts[p] <= MaxRetries + faults["crash"] + faults["settle"]
    BY DEF AttemptsBounded
  <2>1. attempts[p] <= MaxRetries + Unwritten
    BY DEF TallyInv, Tallied
  <2>2. /\ MaxRetries \in Nat /\ attempts[p] \in Nat
        /\ faults["crash"] \in Nat /\ faults["settle"] \in Nat
    BY TallyTyped DEF TypeOK, HistoryOK, FaultKind
  <2> QED
    BY <2>1, <2>2 DEF Unwritten
<1> QED
  BY <1>1, TypeCorrect, TallyCorrect, PTL

-----------------------------------------------------------------------------
(* The caps of a process *)

\* A job that counts: its post is still to be published.
Counts(j) == pc[j] # "idle" /\ status[snap[j].post] = "PENDING"

\* The slots of a process with such a job for a post of set C.
RunningSet(w, C) == {s \in Slot : Counts(<<w, s>>) /\ snap[<<w, s>>].post \in C}

\* The posts of set C that the process saw in flight or has claimed since.
Taken(seen, w, C) == Cardinality(seen \cap C) + Cardinality(Posts(claimed[w]) \cap C)

OfAccount(p)  == {q \in Post : AccountOf[q] = AccountOf[p]}
OfPlatform(p) == {q \in Post : PlatformOf[q] = PlatformOf[p]}

\* A claim phase has seen the posts its process is publishing, and keeps within
\* the caps of the accounts and platforms it claims posts of.
PhaseWithin(w) ==
  /\ phase[w] # "idle" =>
       \A s \in Slot : Counts(<<w, s>>) => snap[<<w, s>>].post \in seenByPlatform[w]
  /\ phase[w] \in {"find", "claim"} =>
       \A s \in Slot : Counts(<<w, s>>) => snap[<<w, s>>].post \in seenByAccount[w]
  /\ \A p \in Posts(claimed[w]) :
       /\ Taken(seenByPlatform[w], w, Post) <= GlobalConcurrency
       /\ Taken(seenByAccount[w], w, OfAccount(p)) <= AccountConcurrency
       /\ Taken(seenByPlatform[w], w, OfPlatform(p)) <= PlatformConcurrency[PlatformOf[p]]

JobsWithin(w) ==
  /\ RunningOn(w, Post) <= GlobalConcurrency
  /\ \A p \in Post :
       /\ RunningOn(w, OfAccount(p)) <= AccountConcurrency
       /\ RunningOn(w, OfPlatform(p)) <= PlatformConcurrency[PlatformOf[p]]

CapsInv == ClaimsAreSafe => \A w \in Worker : PhaseWithin(w) /\ JobsWithin(w)

\* A step after which no other jobs of the process count than before.
NoneStarted(w) ==
  \A s \in Slot : Counts(<<w, s>>)' => Counts(<<w, s>>) /\ snap'[<<w, s>>] = snap[<<w, s>>]

\* A step that leaves the claim phase of the process alone or ends it.
PhaseKept(w) ==
  \/ /\ phase'[w] = phase[w] /\ claimed'[w] = claimed[w]
     /\ seenByAccount'[w] = seenByAccount[w] /\ seenByPlatform'[w] = seenByPlatform[w]
  \/ phase'[w] = "idle" /\ claimed'[w] = {}

LEMMA RunningCounted ==
  ASSUME NEW w, NEW C
  PROVE  /\ RunningOn(w, C) = Cardinality(RunningSet(w, C))
         /\ IsFiniteSet(RunningSet(w, C)) /\ RunningOn(w, C) \in Nat
<1>1. RunningOn(w, C) = Cardinality(RunningSet(w, C))
  <2>1. RunningSet(w, C) = {s \in Slot : LET j == <<w, s>> IN
                 pc[j] # "idle" /\ snap[j].post \in C /\ status[snap[j].post] = "PENDING"}
    BY DEF RunningSet, Counts
  <2> QED
    BY <2>1 DEF RunningOn
<1>2. RunningSet(w, C) \in SUBSET Slot
  BY DEF RunningSet
<1>3. IsFiniteSet(RunningSet(w, C))
  BY <1>2, ConstantsAssumption, FS_Subset
<1> QED
  BY <1>1, <1>3, FS_CardinalityType

(* A step that starts nothing keeps what runs within the caps.               *)
LEMMA RunningShrinks ==
  ASSUME NEW w, NEW C, NoneStarted(w)
  PROVE  RunningOn(w, C)' <= RunningOn(w, C) /\ RunningOn(w, C)' \in Nat
<1>1. RunningSet(w, C)' \subseteq RunningSet(w, C)
  BY DEF RunningSet, NoneStarted
<1>2. RunningOn(w, C)' = Cardinality(RunningSet(w, C)')
  <2>1. RunningSet(w, C)' = {s \in Slot : LET j == <<w, s>> IN
                 pc'[j] # "idle" /\ snap'[j].post \in C /\ status'[snap'[j].post] = "PENDING"}
    BY DEF RunningSet, Counts
  <2> QED
    BY <2>1 DEF RunningOn
<1> QED
  BY <1>1, <1>2, RunningCounted, FS_Subset, FS_CardinalityType

LEMMA PostSetsFinite ==
  /\ \A S \in SUBSET Post : IsFiniteSet(S) /\ Cardinality(S) \in Nat
  /\ \A S \in SUBSET Post : \A C : IsFiniteSet(S \cap C) /\ Cardinality(S \cap C) \in Nat
<1>1. \A S \in SUBSET Post : IsFiniteSet(S) /\ Cardinality(S) \in Nat
  BY ConstantsAssumption, FS_Subset, FS_CardinalityType
<1> QED
  BY <1>1

(* An injection into a finite set counts its domain. *)
LEMMA Injected ==
  ASSUME NEW J, NEW S, IsFiniteSet(S), NEW f \in [J -> S],
         \A i, j \in J : f[i] = f[j] => i = j
  PROVE  /\ IsFiniteSet(J) /\ Cardinality(J) <= Cardinality(S)
         /\ Cardinality(J) \in Nat /\ Cardinality(S) \in Nat
<1>1. f \in Injection(J, S)
  BY DEF Injection, IsInjective
<1> QED
  BY <1>1, FS_Injection, FS_CardinalityType

(* A phase has as many claims as posts claimed.                              *)
LEMMA ClaimsCounted ==
  ASSUME TypeOK, OneHolder, NEW w \in Worker
  PROVE  /\ Posts(claimed[w]) \in SUBSET Post
         /\ Cardinality(Posts(claimed[w])) <= Cardinality(claimed[w])
         /\ Cardinality(Posts(claimed[w])) \in Nat /\ Cardinality(claimed[w]) \in Nat
<1> DEFINE S == claimed[w]
           f == [s \in S |-> s.post]
           g == [p \in Posts(S) |-> CHOOSE s \in S : s.post = p]
<1>1. f \in [S -> Post] /\ Posts(S) \in SUBSET Post
  BY LifeTyped DEF Posts
<1>2. \A s, t \in S : f[s] = f[t] => s = t
  BY DEF OneHolder
<1>3. \A p \in Posts(S) : g[p] \in S /\ g[p].post = p
  BY DEF Posts
<1>4. g \in [Posts(S) -> S] /\ \A p, q \in Posts(S) : g[p] = g[q] => p = q
  BY <1>3
<1> HIDE DEF f, g, S
<1>5. IsFiniteSet(S)
  BY <1>1, <1>2, ConstantsAssumption, Injected
<1> QED
  BY <1>1, <1>4, <1>5, Injected DEF S

\* The steps of users and of time touch no hands.
LEMMA OtherHands ==
  ASSUME \/ UNCHANGED vars
         \/ \E p \in Post : Create(p) \/ Enqueue(p)
         \/ \E r \in Request, kind \in RequestKind, p \in Post : ReadPost(r, kind, p)
         \/ \E r \in Request : RequestStep(r)
         \/ \E p \in Post : BeatLands(p)
         \/ Tick
  PROVE  UNCHANGED <<claiming, jobs>>
BY DEF vars, Create, Enqueue, Insert, ReadPost, RequestStep, Cancel, Update, Retry, BeatLands, Tick

LEMMA FaultHands ==
  ASSUME TypeOK, FaultStep
  PROVE  NothingTaken /\ UNCHANGED status
<1>1. UNCHANGED status
  BY DEF FaultStep, ClaimError, Crash, AnswerLost, SaveError, CompleteError, SettleError,
         BeatLost, row
<1>2. NothingTaken
  <2>1. ASSUME NEW w \in Worker, ClaimError(w) \/ Crash(w)
        PROVE  NothingTaken
    BY <2>1 DEF ClaimError, Crash, EndPhase, NothingTaken, jobs, TypeOK, ClaimingOK
  <2>2. ASSUME NEW j \in Job, AnswerLost(j) \/ SaveError(j) \/ CompleteError(j) \/ SettleError(j)
        PROVE  NothingTaken
    BY <2>2 DEF AnswerLost, SaveError, CompleteError, SettleError, Goto, EndJob, NothingTaken,
                claiming, TypeOK, JobsOK
  <2>3. ASSUME NEW p \in Post, BeatLost(p)
        PROVE  NothingTaken
    BY <2>3 DEF BeatLost, NothingTaken, claiming, jobs
  <2> QED
    BY <2>1, <2>2, <2>3 DEF FaultStep
<1> QED
  BY <1>1, <1>2

LEMMA JobHands ==
  ASSUME TypeOK, NEW j \in Job, JobStep(j)
  PROVE  /\ NothingTaken /\ UNCHANGED claiming
         /\ \A p \in Post : status'[p] = "PENDING" => status[p] = "PENDING"
<1>1. UNCHANGED claiming
  BY DEF JobStep, Resume, PublishSucceeds, PublishFails, SaveResult, Complete, Settle
<1>2. /\ \A i \in Job : i # j => pc'[i] = pc[i] /\ snap'[i] = snap[i]
      /\ pc'[j] = "idle" \/ (pc[j] # "idle" /\ snap'[j] = snap[j])
  BY OtherJobsKept DEF JobStep, Resume, PublishSucceeds, PublishFails, SaveResult, Complete,
     Settle, Goto, EndJob, TypeOK, JobsOK
<1>3. NothingTaken
  BY <1>1, <1>2 DEF NothingTaken, claiming
<1>4. \A p \in Post : status'[p] = "PENDING" => status[p] = "PENDING"
  BY DEF JobStep, Resume, PublishSucceeds, PublishFails, SaveResult, Complete, Settle, row,
         TypeOK, RowOK
<1> QED
  BY <1>1, <1>3, <1>4

(* Nobody makes a post PENDING that somebody has in hand.                    *)
LEMMA NotRevived ==
  ASSUME TypeOK, Parts, [Next]_vars, NEW p \in Post, InHand(p), status'[p] = "PENDING"
  PROVE  status[p] = "PENDING"
<1>1. CASE \E w \in Worker : WorkerStep(w)
  BY <1>1 DEF WorkerStep, CountByPlatform, CountByAccount, FindDue, ClaimPost, Launch, Reconnect, row
<1>2. CASE (\E j \in Job : JobStep(j)) \/ FaultStep
  BY <1>2, JobHands, FaultHands
<1>3. CASE \E q \in Post : Create(q) \/ Enqueue(q)
  BY <1>3 DEF Create, Enqueue, Insert, TypeOK, RowOK, Parts, IdleIsFree
<1>4. ASSUME NEW r \in Request, RequestStep(r)
      PROVE  status[p] = "PENDING"
  <2>1. request[r].post \in Post /\ (request[r].kind = "retry" => ~ InHand(request[r].post))
    BY <1>4 DEF RequestStep, Cancel, Update, Retry, Answer, TypeOK, RequestOK, Parts, RetryIsFree
  <2> QED
    BY <1>4, <2>1 DEF RequestStep, Cancel, Update, Retry, Answer, TypeOK, RowOK
<1>5. CASE \/ UNCHANGED vars
           \/ \E r \in Request, kind \in RequestKind, q \in Post : ReadPost(r, kind, q)
           \/ \E q \in Post : BeatLands(q)
           \/ Tick
  BY <1>5 DEF vars, row, ReadPost, BeatLands, Tick
<1> QED
  BY <1>1, <1>2, <1>3, <1>4, <1>5 DEF Next

LEMMA NothingTakenStarts ==
  ASSUME TypeOK, Parts, [Next]_vars, NEW w \in Worker,
         \A s \in Slot : pc'[<<w, s>>] # "idle" =>
           pc[<<w, s>>] # "idle" /\ snap'[<<w, s>>] = snap[<<w, s>>]
  PROVE  NoneStarted(w)
<1>1. \A s \in Slot : pc[<<w, s>>] # "idle" =>
        snap[<<w, s>>].post \in Post /\ InHand(snap[<<w, s>>].post)
  BY HandTyped DEF Running, Job
<1> QED
  BY <1>1, NotRevived DEF NoneStarted, Counts

(* Claiming one more post. *)
LEMMA TakeOne ==
  ASSUME TypeOK, NEW w \in Worker, NEW s \in due[w], s.post \notin Posts(claimed[w]),
         NEW seen \in SUBSET Post, NEW C \in SUBSET Post, NEW cap \in Nat,
         s.post \in C => Taken(seen, w, C) < cap,
         s.post \notin C => Taken(seen, w, C) <= cap
  PROVE  Cardinality(seen \cap C) + Cardinality(Posts(claimed[w] \cup {s}) \cap C) <= cap
<1> DEFINE mine == Posts(claimed[w]) \cap C
<1>1. mine \subseteq Post /\ s.post \in Post
  BY LifeTyped DEF Posts
<1>2. /\ Cardinality(seen \cap C) \in Nat
      /\ IsFiniteSet(mine) /\ Cardinality(mine) \in Nat
  BY <1>1, PostSetsFinite
<1>3. /\ s.post \in C => Posts(claimed[w] \cup {s}) \cap C = mine \cup {s.post}
      /\ s.post \notin C => Posts(claimed[w] \cup {s}) \cap C = mine
  BY DEF Posts
<1>4. s.post \notin mine
  OBVIOUS
<1>5. Taken(seen, w, C) = Cardinality(seen \cap C) + Cardinality(mine)
  BY DEF Taken
<1> HIDE DEF mine
<1>6. Cardinality(mine \cup {s.post}) = Cardinality(mine) + 1
  BY <1>2, <1>4, FS_AddElement
<1>7. CASE s.post \in C
  <2>1. Cardinality(Posts(claimed[w] \cup {s}) \cap C) = Cardinality(mine) + 1
    BY <1>3, <1>6, <1>7
  <2> QED
    BY <1>2, <1>5, <1>7, <2>1
<1>8. CASE s.post \notin C
  BY <1>3, <1>5, <1>8
<1> QED
  BY <1>7, <1>8

LEMMA FitsCounts ==
  ASSUME TypeOK, OneHolder, NEW w \in Worker, NEW p \in Post, Fits(w, p)
  PROVE  /\ Taken(seenByPlatform[w], w, Post) < GlobalConcurrency
         /\ Taken(seenByAccount[w], w, OfAccount(p)) < AccountConcurrency
         /\ Taken(seenByPlatform[w], w, OfPlatform(p)) < PlatformConcurrency[PlatformOf[p]]
<1>1. \A P \in SUBSET Post : /\ OnAccount(P, p) = Cardinality(P \cap OfAccount(p))
                             /\ OnPlatform(P, p) = Cardinality(P \cap OfPlatform(p))
                             /\ P \cap Post = P
  <2> TAKE P \in SUBSET Post
  <2>1. /\ {q \in P : AccountOf[q] = AccountOf[p]} = P \cap OfAccount(p)
        /\ {q \in P : PlatformOf[q] = PlatformOf[p]} = P \cap OfPlatform(p)
    BY DEF OfAccount, OfPlatform
  <2> QED
    BY <2>1 DEF OnAccount, OnPlatform
<1>2. /\ Posts(claimed[w]) \in SUBSET Post
      /\ seenByAccount[w] \in SUBSET Post /\ seenByPlatform[w] \in SUBSET Post
  BY ClaimsCounted DEF TypeOK, ClaimingOK
<1>3. Taken(seenByPlatform[w], w, Post) < GlobalConcurrency
  <2>1. Taken(seenByPlatform[w], w, Post)
          = Cardinality(seenByPlatform[w]) + Cardinality(Posts(claimed[w]))
    BY <1>1, <1>2 DEF Taken
  <2>2. Cardinality(seenByPlatform[w]) + Cardinality(claimed[w]) < GlobalConcurrency
    BY DEF Fits
  <2>3. Cardinality(seenByPlatform[w]) \in Nat /\ GlobalConcurrency \in Nat
    BY <1>2, PostSetsFinite, ConstantsAssumption
  <2> QED
    BY <2>1, <2>2, <2>3, ClaimsCounted
<1> QED
  BY <1>1, <1>2, <1>3 DEF Fits, Taken

LEMMA CapsClaim ==
  ASSUME TypeOK, Parts, ClaimsAreSafe, NEW w \in Worker, PhaseWithin(w),
         NEW s \in due[w], ClaimPost(w, s)
  PROVE  PhaseWithin(w)'
<1> DEFINE p == s.post
<1>p. p \in Post
  BY DueTyped
<1>0. UNCHANGED <<status, phase, seenByAccount, seenByPlatform, pc, snap>>
  BY DEF ClaimPost, jobs
<1>1. CASE UNCHANGED claimed
  BY <1>0, <1>1 DEF PhaseWithin, Counts, Taken
<1>2. CASE Claimable(p) /\ claimed' = [claimed EXCEPT ![w] = @ \cup {s}]
  <2>1. claimed'[w] = claimed[w] \cup {s}
    BY <1>2 DEF TypeOK, ClaimingOK
  <2>2. p \notin Posts(claimed[w])
    BY <1>2, <1>p, HeldIsClaimed DEF Claimable, InHand
  <2>3. /\ Taken(seenByPlatform[w], w, Post) < GlobalConcurrency
        /\ Taken(seenByAccount[w], w, OfAccount(p)) < AccountConcurrency
        /\ Taken(seenByPlatform[w], w, OfPlatform(p)) < PlatformConcurrency[PlatformOf[p]]
    BY <1>p, FitsCounts DEF ClaimPost, Parts
  <2>4. /\ seenByAccount[w] \in SUBSET Post /\ seenByPlatform[w] \in SUBSET Post
        /\ GlobalConcurrency \in Nat /\ AccountConcurrency \in Nat
        /\ \A q \in Post : PlatformConcurrency[PlatformOf[q]] \in Nat
    BY ConstantsAssumption DEF TypeOK, ClaimingOK
  <2>5. ASSUME NEW q \in Posts(claimed'[w])
        PROVE  /\ Taken(seenByPlatform[w], w, Post)' <= GlobalConcurrency
               /\ Taken(seenByAccount[w], w, OfAccount(q))' <= AccountConcurrency
               /\ Taken(seenByPlatform[w], w, OfPlatform(q))' <= PlatformConcurrency[PlatformOf[q]]
    <3>1. q \in Post /\ (q = p \/ q \in Posts(claimed[w]))
      BY <1>p, <2>1, LifeTyped DEF Posts
    <3>2. /\ OfAccount(q) \in SUBSET Post /\ OfPlatform(q) \in SUBSET Post
          /\ p \in OfAccount(q) => OfAccount(q) = OfAccount(p)
          /\ p \in OfPlatform(q) => /\ OfPlatform(q) = OfPlatform(p)
                                    /\ PlatformOf[q] = PlatformOf[p]
          /\ q \in OfAccount(q) /\ q \in OfPlatform(q)
      BY <3>1 DEF OfAccount, OfPlatform
    <3>3. Taken(seenByPlatform[w], w, Post)' <= GlobalConcurrency
      BY <1>0, <1>p, <2>1, <2>2, <2>3, <2>4, TakeOne DEF Taken
    <3>4. Taken(seenByAccount[w], w, OfAccount(q))' <= AccountConcurrency
      <4>1. p \in OfAccount(q) => Taken(seenByAccount[w], w, OfAccount(q)) < AccountConcurrency
        BY <2>3, <3>2
      <4>2. p \notin OfAccount(q) => Taken(seenByAccount[w], w, OfAccount(q)) <= AccountConcurrency
        BY <3>1, <3>2 DEF PhaseWithin
      <4>3. Cardinality(seenByAccount[w] \cap OfAccount(q))
              + Cardinality(Posts(claimed[w] \cup {s}) \cap OfAccount(q)) <= AccountConcurrency
        BY <2>2, <2>4, <3>2, <4>1, <4>2, TakeOne
      <4> QED
        BY <1>0, <2>1, <4>3 DEF Taken, OfAccount
    <3>5. Taken(seenByPlatform[w], w, OfPlatform(q))' <= PlatformConcurrency[PlatformOf[q]]
      <4>1. p \in OfPlatform(q) =>
              Taken(seenByPlatform[w], w, OfPlatform(q)) < PlatformConcurrency[PlatformOf[q]]
        BY <2>3, <3>2
      <4>2. p \notin OfPlatform(q) =>
              Taken(seenByPlatform[w], w, OfPlatform(q)) <= PlatformConcurrency[PlatformOf[q]]
        BY <3>1, <3>2 DEF PhaseWithin
      <4>3. PlatformConcurrency[PlatformOf[q]] \in Nat
        BY <2>4, <3>1
      <4>4. Cardinality(seenByPlatform[w] \cap OfPlatform(q))
              + Cardinality(Posts(claimed[w] \cup {s}) \cap OfPlatform(q))
              <= PlatformConcurrency[PlatformOf[q]]
        BY <2>2, <2>4, <3>2, <4>1, <4>2, <4>3, TakeOne
      <4> QED
        BY <1>0, <2>1, <4>4 DEF Taken, OfPlatform
    <3> QED
      BY <3>3, <3>4, <3>5
  <2> QED
    BY <1>0, <2>5 DEF PhaseWithin, Counts
<1> QED
  BY <1>1, <1>2 DEF ClaimPost

(* Launch keeps the jobs on the posts of C within their cap. *)
LEMMA LaunchWithin ==
  ASSUME TypeOK, OneHolder', NEW w \in Worker, Launch(w),
         NEW seen \in SUBSET Post, NEW C \in SUBSET Post, NEW cap \in Nat,
         \A s \in Slot : Counts(<<w, s>>) => snap[<<w, s>>].post \in seen,
         RunningOn(w, C) <= cap,
         Posts(claimed[w]) \cap C # {} => Taken(seen, w, C) <= cap
  PROVE  RunningOn(w, C)' <= cap
<1> DEFINE mine == Posts(claimed[w]) \cap C
           J == RunningSet(w, C)'
           S == (seen \cap C) \cup mine
           f == [s \in J |-> snap'[<<w, s>>].post]
<1>1. RunningOn(w, C)' = Cardinality(J) /\ RunningOn(w, C) = Cardinality(RunningSet(w, C))
  <2>1. J = {s \in Slot : LET j == <<w, s>> IN
                 pc'[j] # "idle" /\ snap'[j].post \in C /\ status'[snap'[j].post] = "PENDING"}
    BY DEF RunningSet, Counts
  <2> QED
    BY <2>1, RunningCounted DEF RunningOn
<1>2. \A s \in J : /\ s \in RunningSet(w, C) \/ snap'[<<w, s>>].post \in mine
                   /\ snap'[<<w, s>>].post \in S
  <2>1. UNCHANGED status
    BY DEF Launch, row
  <2>2. \A s \in Slot : <<w, s>> \in Job
    BY DEF Job
  <2> QED
    BY <2>1, <2>2, LaunchKeepsJobs DEF RunningSet, Counts, Posts
<1>3. CASE mine = {}
  <2>1. J \subseteq RunningSet(w, C)
    BY <1>2, <1>3
  <2>2. IsFiniteSet(RunningSet(w, C)) /\ RunningOn(w, C) \in Nat
    BY RunningCounted
  <2>3. Cardinality(J) <= Cardinality(RunningSet(w, C)) /\ Cardinality(J) \in Nat
    BY <2>1, <2>2, FS_Subset, FS_CardinalityType
  <2> HIDE DEF J
  <2> QED
    BY <1>1, <2>2, <2>3
<1>4. CASE mine # {}
  <2>1. f \in [J -> S]
    BY <1>2
  <2>2. \A s, t \in J : f[s] = f[t] => s = t
    <3>1. \A s, t \in J : /\ <<w, s>> \in Job /\ Running(<<w, s>>)'
                          /\ <<w, t>> \in Job /\ Running(<<w, t>>)'
      BY DEF RunningSet, Counts, Running, Job
    <3>2. \A s, t \in J : f[s] = f[t] => <<w, s>> = <<w, t>>
      BY <3>1 DEF OneHolder
    <3> QED
      BY <3>2
  <2>3. mine \in SUBSET Post
    BY LifeTyped DEF Posts
  <2>4. /\ IsFiniteSet(seen \cap C) /\ Cardinality(seen \cap C) \in Nat
        /\ IsFiniteSet(mine) /\ Cardinality(mine) \in Nat
        /\ Cardinality((seen \cap C) \cap mine) \in Nat
    BY <2>3, PostSetsFinite
  <2>5. Cardinality(seen \cap C) + Cardinality(mine) <= cap
    BY <1>4 DEF Taken
  <2> HIDE DEF mine, J
  <2> DEFINE A == seen \cap C
  <2>a. /\ IsFiniteSet(A) /\ Cardinality(A) \in Nat /\ Cardinality(A \cap mine) \in Nat
        /\ Cardinality(A) + Cardinality(mine) <= cap
    BY <2>4, <2>5
  <2> HIDE DEF A
  <2>b. /\ IsFiniteSet(A \cup mine)
        /\ Cardinality(A \cup mine) = Cardinality(A) + Cardinality(mine) - Cardinality(A \cap mine)
    BY <2>4, <2>a, FS_Union
  <2>c. Cardinality(A \cup mine) <= cap
    BY <2>4, <2>a, <2>b
  <2>6. IsFiniteSet(S) /\ Cardinality(S) <= cap
    BY <2>b, <2>c DEF A
  <2> HIDE DEF S, f
  <2>7. Cardinality(J) <= Cardinality(S) /\ Cardinality(J) \in Nat /\ Cardinality(S) \in Nat
    BY <2>1, <2>2, <2>6, Injected
  <2> QED
    BY <1>1, <2>6, <2>7
<1> QED
  BY <1>3, <1>4

LEMMA JobsWithinKept ==
  ASSUME NEW w \in Worker, JobsWithin(w), NoneStarted(w)
  PROVE  JobsWithin(w)'
<1>1. \A C : RunningOn(w, C)' <= RunningOn(w, C) /\ RunningOn(w, C)' \in Nat /\ RunningOn(w, C) \in Nat
  BY RunningShrinks, RunningCounted
<1>2. ASSUME NEW p \in Post
      PROVE  /\ RunningOn(w, OfAccount(p))' <= AccountConcurrency
             /\ RunningOn(w, OfPlatform(p))' <= PlatformConcurrency[PlatformOf[p]]
  <2>1. /\ RunningOn(w, OfAccount(p)) <= AccountConcurrency
        /\ RunningOn(w, OfPlatform(p)) <= PlatformConcurrency[PlatformOf[p]]
    BY DEF JobsWithin
  <2>2. AccountConcurrency \in Nat /\ PlatformConcurrency[PlatformOf[p]] \in Nat
    BY ConstantsAssumption
  <2>3. /\ RunningOn(w, OfAccount(p))' <= RunningOn(w, OfAccount(p))
        /\ RunningOn(w, OfPlatform(p))' <= RunningOn(w, OfPlatform(p))
        /\ RunningOn(w, OfAccount(p))' \in Nat /\ RunningOn(w, OfAccount(p)) \in Nat
        /\ RunningOn(w, OfPlatform(p))' \in Nat /\ RunningOn(w, OfPlatform(p)) \in Nat
    BY <1>1
  <2> QED
    BY <2>1, <2>2, <2>3
<1>3. RunningOn(w, Post)' <= GlobalConcurrency
  <2>1. RunningOn(w, Post) <= GlobalConcurrency /\ GlobalConcurrency \in Nat
    BY ConstantsAssumption DEF JobsWithin
  <2> QED
    BY <1>1, <2>1
<1>4. \A p \in Post : OfAccount(p)' = OfAccount(p) /\ OfPlatform(p)' = OfPlatform(p)
  BY DEF OfAccount, OfPlatform
<1> QED
  BY <1>2, <1>3, <1>4 DEF JobsWithin

LEMMA PhaseWithinKept ==
  ASSUME NEW w \in Worker, PhaseWithin(w), NoneStarted(w), PhaseKept(w)
  PROVE  PhaseWithin(w)'
<1>1. CASE phase'[w] = "idle" /\ claimed'[w] = {}
  BY <1>1 DEF PhaseWithin, Posts
<1>2. CASE /\ phase'[w] = phase[w] /\ claimed'[w] = claimed[w]
           /\ seenByAccount'[w] = seenByAccount[w] /\ seenByPlatform'[w] = seenByPlatform[w]
  <2>1. /\ phase'[w] # "idle" =>
             \A s \in Slot : Counts(<<w, s>>)' => snap'[<<w, s>>].post \in seenByPlatform'[w]
        /\ phase'[w] \in {"find", "claim"} =>
             \A s \in Slot : Counts(<<w, s>>)' => snap'[<<w, s>>].post \in seenByAccount'[w]
    BY <1>2 DEF PhaseWithin, NoneStarted
  <2>2. \A p \in Posts(claimed'[w]) :
          /\ Taken(seenByPlatform[w], w, Post)' <= GlobalConcurrency
          /\ Taken(seenByAccount[w], w, OfAccount(p))' <= AccountConcurrency
          /\ Taken(seenByPlatform[w], w, OfPlatform(p))' <= PlatformConcurrency[PlatformOf[p]]
    BY <1>2 DEF PhaseWithin, Taken, OfAccount, OfPlatform
  <2> QED
    BY <2>1, <2>2 DEF PhaseWithin
<1> QED
  BY <1>1, <1>2 DEF PhaseKept

(* A job that counts is in flight: its claim has not expired.                *)
LEMMA RunningInFlight ==
  ASSUME TypeOK, Parts, ClaimsAreSafe, NEW j \in Job, Counts(j)
  PROVE  snap[j].post \in InFlight
BY HandTyped, HeldIsClaimed DEF Counts, Running, InFlight

(* What a step of a process does to its own claim phase and jobs.            *)
LEMMA CapsWorker ==
  ASSUME TypeOK, Parts, OneHolder', ClaimsAreSafe,
         NEW w \in Worker, PhaseWithin(w), JobsWithin(w), WorkerStep(w)
  PROVE  PhaseWithin(w)' /\ JobsWithin(w)'
<1>0. UNCHANGED status /\ \A s \in Slot : <<w, s>> \in Job
  BY DEF WorkerStep, CountByPlatform, CountByAccount, FindDue, ClaimPost, Launch, Reconnect, row, Job
<1>1. ASSUME UNCHANGED <<pc, snap>>
      PROVE  NoneStarted(w) /\ JobsWithin(w)'
  <2>1. NoneStarted(w)
    BY <1>0, <1>1 DEF NoneStarted, Counts
  <2> QED
    BY <2>1, JobsWithinKept
<1>2. CASE CountByPlatform(w)
  <2>1. /\ UNCHANGED <<pc, snap, claimed>>
        /\ phase[w] = "idle" /\ phase'[w] = "account" /\ seenByPlatform'[w] = InFlight
    BY <1>2 DEF CountByPlatform, jobs, TypeOK, ClaimingOK
  <2>2. claimed[w] = {}
    BY <2>1 DEF TypeOK, ClaimingOK
  <2>3. \A s \in Slot : Counts(<<w, s>>)' => snap'[<<w, s>>].post \in seenByPlatform'[w]
    BY <1>0, <2>1, RunningInFlight DEF Counts
  <2> QED
    BY <1>1, <2>1, <2>2, <2>3 DEF PhaseWithin, Posts
<1>3. CASE CountByAccount(w)
  <2>1. /\ UNCHANGED <<pc, snap, claimed, seenByPlatform>>
        /\ phase[w] = "account" /\ phase'[w] = "find" /\ seenByAccount'[w] = InFlight
    BY <1>3 DEF CountByAccount, jobs, TypeOK, ClaimingOK
  <2>2. claimed[w] = {}
    BY <2>1 DEF TypeOK, ClaimingOK
  <2>3. \A s \in Slot : Counts(<<w, s>>)' => /\ snap'[<<w, s>>].post \in seenByAccount'[w]
                                             /\ snap'[<<w, s>>].post \in seenByPlatform'[w]
    BY <1>0, <2>1, RunningInFlight DEF Counts, PhaseWithin
  <2> QED
    BY <1>1, <2>1, <2>2, <2>3 DEF PhaseWithin, Posts
<1>4. CASE FindDue(w)
  <2>1. UNCHANGED <<pc, snap>> /\ phase[w] = "find" /\ claimed[w] = {}
    BY <1>4 DEF FindDue, jobs, TypeOK, ClaimingOK
  <2>2. CASE EndPhase(w)
    <3>1. PhaseKept(w)
      BY <2>2 DEF EndPhase, PhaseKept, TypeOK, ClaimingOK
    <3> QED
      BY <1>1, <2>1, <3>1, PhaseWithinKept
  <2>3. CASE UNCHANGED <<seenByPlatform, seenByAccount, claimed>>
    <3>1. \A s \in Slot : Counts(<<w, s>>)' => /\ snap'[<<w, s>>].post \in seenByAccount'[w]
                                               /\ snap'[<<w, s>>].post \in seenByPlatform'[w]
      BY <1>0, <2>1, <2>3 DEF PhaseWithin, Counts
    <3> QED
      BY <1>1, <2>1, <2>3, <3>1 DEF PhaseWithin, Posts
  <2> QED
    BY <1>4, <2>2, <2>3 DEF FindDue
<1>5. ASSUME NEW s \in due[w], ClaimPost(w, s)
      PROVE  PhaseWithin(w)' /\ JobsWithin(w)'
  <2>1. UNCHANGED <<pc, snap>>
    BY <1>5 DEF ClaimPost, jobs
  <2> QED
    BY <1>1, <1>5, <2>1, CapsClaim
<1>6. CASE Launch(w)
  <2>1. /\ phase[w] = "claim" /\ phase'[w] = "idle" /\ claimed'[w] = {}
    BY <1>6 DEF Launch, EndPhase, TypeOK, ClaimingOK
  <2>2. PhaseWithin(w)'
    BY <2>1 DEF PhaseWithin, Posts
  <2>3. \A s \in Slot : Counts(<<w, s>>) =>
          snap[<<w, s>>].post \in seenByPlatform[w] /\ snap[<<w, s>>].post \in seenByAccount[w]
    BY <2>1 DEF PhaseWithin
  <2>4. /\ GlobalConcurrency \in Nat /\ AccountConcurrency \in Nat
        /\ \A p \in Post : PlatformConcurrency[PlatformOf[p]] \in Nat
        /\ \A p \in Post : OfAccount(p) \in SUBSET Post /\ OfPlatform(p) \in SUBSET Post
        /\ seenByAccount[w] \in SUBSET Post /\ seenByPlatform[w] \in SUBSET Post
    BY ConstantsAssumption DEF OfAccount, OfPlatform, TypeOK, ClaimingOK
  <2>5. \A C \in SUBSET Post, cap \in Nat :
          RunningOn(w, C) <= cap /\ (Posts(claimed[w]) \cap C # {} => Taken(seenByAccount[w], w, C) <= cap)
            => RunningOn(w, C)' <= cap
    BY <1>6, <2>3, <2>4, LaunchWithin
  <2>6. \A C \in SUBSET Post, cap \in Nat :
          RunningOn(w, C) <= cap /\ (Posts(claimed[w]) \cap C # {} => Taken(seenByPlatform[w], w, C) <= cap)
            => RunningOn(w, C)' <= cap
    BY <1>6, <2>3, <2>4, LaunchWithin
  <2>7. ASSUME NEW p \in Post
        PROVE  /\ RunningOn(w, OfAccount(p))' <= AccountConcurrency
               /\ RunningOn(w, OfPlatform(p))' <= PlatformConcurrency[PlatformOf[p]]
    <3>1. /\ RunningOn(w, OfAccount(p)) <= AccountConcurrency
          /\ RunningOn(w, OfPlatform(p)) <= PlatformConcurrency[PlatformOf[p]]
      BY DEF JobsWithin
    <3>2. Posts(claimed[w]) \cap OfAccount(p) # {} =>
            Taken(seenByAccount[w], w, OfAccount(p)) <= AccountConcurrency
      <4> SUFFICES ASSUME NEW q \in Posts(claimed[w]), q \in OfAccount(p)
                   PROVE  Taken(seenByAccount[w], w, OfAccount(p)) <= AccountConcurrency
        OBVIOUS
      <4>1. OfAccount(q) = OfAccount(p)
        BY DEF OfAccount
      <4> QED
        BY <4>1 DEF PhaseWithin
    <3>3. Posts(claimed[w]) \cap OfPlatform(p) # {} =>
            Taken(seenByPlatform[w], w, OfPlatform(p)) <= PlatformConcurrency[PlatformOf[p]]
      <4> SUFFICES ASSUME NEW q \in Posts(claimed[w]), q \in OfPlatform(p)
                   PROVE  Taken(seenByPlatform[w], w, OfPlatform(p))
                            <= PlatformConcurrency[PlatformOf[p]]
        OBVIOUS
      <4>1. OfPlatform(q) = OfPlatform(p) /\ PlatformOf[q] = PlatformOf[p]
        BY DEF OfPlatform
      <4> QED
        BY <4>1 DEF PhaseWithin
    <3>4. RunningOn(w, OfAccount(p))' <= AccountConcurrency
      BY <2>4, <2>5, <3>1, <3>2
    <3>5. RunningOn(w, OfPlatform(p))' <= PlatformConcurrency[PlatformOf[p]]
      BY <2>4, <2>6, <3>1, <3>3
    <3> QED
      BY <3>4, <3>5
  <2>8. RunningOn(w, Post)' <= GlobalConcurrency
    <3>1. RunningOn(w, Post) <= GlobalConcurrency
      BY DEF JobsWithin
    <3>2. Posts(claimed[w]) \cap Post # {} => Taken(seenByPlatform[w], w, Post) <= GlobalConcurrency
      BY DEF PhaseWithin
    <3> QED
      BY <2>4, <2>6, <3>1, <3>2
  <2>9. JobsWithin(w)'
    BY <2>7, <2>8 DEF JobsWithin, OfAccount, OfPlatform
  <2> QED
    BY <2>2, <2>9
<1>7. CASE Reconnect(w)
  <2>1. UNCHANGED <<pc, snap>> /\ PhaseKept(w)
    BY <1>7 DEF Reconnect, jobs, PhaseKept
  <2> QED
    BY <1>1, <2>1, PhaseWithinKept
<1> QED
  BY <1>2, <1>3, <1>4, <1>5, <1>6, <1>7 DEF WorkerStep

(* What a step of one process is to another one.                             *)
LEMMA CapsOther ==
  ASSUME TypeOK, NEW w \in Worker, WorkerStep(w), NEW v \in Worker, v # w
  PROVE  /\ \A s \in Slot : pc'[<<v, s>>] = pc[<<v, s>>] /\ snap'[<<v, s>>] = snap[<<v, s>>]
         /\ PhaseKept(v)
<1>1. PhaseKept(v)
  BY DEF WorkerStep, CountByPlatform, CountByAccount, FindDue, ClaimPost, Launch, Reconnect,
         EndPhase, PhaseKept, TypeOK, ClaimingOK
<1>2. CASE Launch(w)
  <2>1. PICK slotOf \in [claimed[w] -> FreeSlots(w)] :
         \A j \in Job :
           \/ pc'[j] = pc[j] /\ snap'[j] = snap[j]
           \/ \E s \in claimed[w] :
                /\ j = <<w, slotOf[s]>>
                /\ snap'[j] = s
                /\ pc'[j] = FirstStep(s)
    BY <1>2, LaunchedJobs
  <2> QED
    BY <1>1, <2>1 DEF Job
<1>3. CASE ~ Launch(w)
  BY <1>1, <1>3 DEF WorkerStep, CountByPlatform, CountByAccount, FindDue, ClaimPost, Reconnect, jobs
<1> QED
  BY <1>2, <1>3

LEMMA CapsStep ==
  TypeOK /\ ClaimsExclusive /\ ClaimsExclusive' /\ CapsInv /\ [Next]_vars => CapsInv'
<1> SUFFICES ASSUME TypeOK, ClaimsExclusive, ClaimsExclusive', CapsInv, [Next]_vars, ClaimsAreSafe',
                    NEW v \in Worker
             PROVE  PhaseWithin(v)' /\ JobsWithin(v)'
  BY DEF CapsInv
<1>0. ClaimsAreSafe /\ Parts /\ OneHolder' /\ PhaseWithin(v) /\ JobsWithin(v)
  BY FaultsGrow, SafeBefore DEF TypeOK, ClaimsExclusive, Parts, CapsInv
<1>1. ASSUME PhaseKept(v),
             \A s \in Slot : pc'[<<v, s>>] # "idle" =>
               pc[<<v, s>>] # "idle" /\ snap'[<<v, s>>] = snap[<<v, s>>]
      PROVE  PhaseWithin(v)' /\ JobsWithin(v)'
  BY <1>0, <1>1, NothingTakenStarts, JobsWithinKept, PhaseWithinKept
<1>2. ASSUME PhaseKept(v), NothingTaken
      PROVE  PhaseWithin(v)' /\ JobsWithin(v)'
  BY <1>1, <1>2 DEF NothingTaken, Job
<1>3. ASSUME NEW w \in Worker, WorkerStep(w)
      PROVE  PhaseWithin(v)' /\ JobsWithin(v)'
  <2>1. CASE w = v
    BY <1>0, <1>3, <2>1, CapsWorker
  <2>2. CASE w # v
    BY <1>1, <1>3, <2>2, CapsOther
  <2> QED
    BY <2>1, <2>2
<1>4. ASSUME NEW j \in Job, JobStep(j)
      PROVE  PhaseWithin(v)' /\ JobsWithin(v)'
  BY <1>2, <1>4, JobHands DEF claiming, PhaseKept
<1>5. CASE FaultStep
  <2>1. PhaseKept(v)
    BY <1>5 DEF FaultStep, ClaimError, Crash, AnswerLost, SaveError, CompleteError, SettleError,
                BeatLost, EndPhase, claiming, PhaseKept, TypeOK, ClaimingOK
  <2> QED
    BY <1>2, <1>5, <2>1, FaultHands
<1>6. CASE \/ UNCHANGED vars
           \/ \E p \in Post : Create(p) \/ Enqueue(p)
           \/ \E r \in Request, kind \in RequestKind, p \in Post : ReadPost(r, kind, p)
           \/ \E r \in Request : RequestStep(r)
           \/ \E p \in Post : BeatLands(p)
           \/ Tick
  <2>1. UNCHANGED <<claiming, jobs>>
    BY <1>6, OtherHands
  <2> QED
    BY <1>2, <2>1 DEF NothingTaken, claiming, jobs, PhaseKept
<1> QED
  BY <1>3, <1>4, <1>5, <1>6 DEF Next

LEMMA CapsInit == Init => CapsInv
<1> SUFFICES ASSUME Init, NEW w \in Worker PROVE PhaseWithin(w) /\ JobsWithin(w)
  BY DEF CapsInv
<1>1. \A C : RunningOn(w, C) = 0
  <2> TAKE C
  <2>1. RunningSet(w, C) = {}
    BY DEF Init, RunningSet, Counts, Job
  <2> QED
    BY <2>1, RunningCounted, FS_EmptySet
<1>2. PhaseWithin(w)
  BY DEF Init, PhaseWithin, Posts
<1>3. JobsWithin(w)
  BY <1>1, ConstantsAssumption DEF JobsWithin
<1> QED
  BY <1>2, <1>3

THEOREM CapsCorrect == Spec => []CapsInv
BY CapsInit, CapsStep, TypeCorrect, ExclusiveCorrect, PTL DEF Spec

(* In every process, however many there are, no more posts are being         *)
(* published at once than allowed for an account, for a platform and in all. *)
THEOREM CapsRespectedCorrect == Spec => []CapsRespected
<1>1. CapsInv => CapsRespected
  BY DEF CapsInv, CapsRespected, JobsWithin, OfAccount, OfPlatform
<1> QED
  BY <1>1, CapsCorrect, PTL

-----------------------------------------------------------------------------
(* The slots of a process *)

\* A phase claims no more posts than it saw free slots, and those are free yet.
SlotsKept(w) ==
  /\ IsFiniteSet(claimed[w])
  /\ Cardinality(claimed[w]) <= maxSlots[w]
  /\ maxSlots[w] <= Cardinality(FreeSlots(w))

SlotInv == \A w \in Worker : SlotsKept(w)

LEMMA FreeSlotsGrow ==
  ASSUME NEW w \in Worker,
         \A s \in Slot : pc[<<w, s>>] = "idle" => pc'[<<w, s>>] = "idle"
  PROVE  /\ Cardinality(FreeSlots(w)) <= Cardinality(FreeSlots(w))'
         /\ Cardinality(FreeSlots(w)) \in Nat /\ Cardinality(FreeSlots(w))' \in Nat
<1>1. FreeSlots(w) \subseteq FreeSlots(w)' /\ FreeSlots(w)' \in SUBSET Slot
  BY DEF FreeSlots
<1>2. IsFiniteSet(FreeSlots(w)')
  BY <1>1, ConstantsAssumption, FS_Subset
<1> QED
  BY <1>1, <1>2, FS_Subset, FS_CardinalityType

LEMMA SlotsStay ==
  ASSUME TypeOK, NEW w \in Worker, SlotsKept(w),
         \A s \in Slot : pc[<<w, s>>] = "idle" => pc'[<<w, s>>] = "idle",
         claimed'[w] = claimed[w], maxSlots'[w] = maxSlots[w]
  PROVE  SlotsKept(w)'
<1>1. maxSlots[w] \in Nat
  BY DEF TypeOK, ClaimingOK
<1> QED
  BY <1>1, FreeSlotsGrow DEF SlotsKept

\* Whatever the jobs do, nothing is claimed when the phase is over.
LEMMA SlotsEnded ==
  ASSUME NEW w \in Worker, claimed'[w] = {}, maxSlots'[w] = 0
  PROVE  SlotsKept(w)'
<1>1. FreeSlots(w)' \in SUBSET Slot
  BY DEF FreeSlots
<1>2. Cardinality(FreeSlots(w)') \in Nat
  BY <1>1, ConstantsAssumption, FS_Subset, FS_CardinalityType
<1> QED
  BY <1>2, FS_EmptySet DEF SlotsKept

LEMMA SlotsWorker ==
  ASSUME TypeOK, NEW w \in Worker, SlotsKept(w), WorkerStep(w)
  PROVE  SlotsKept(w)'
<1>1. CASE CountByPlatform(w)
  <2>1. /\ UNCHANGED <<pc, claimed>> /\ claimed[w] = {}
        /\ maxSlots'[w] = Cardinality(FreeSlots(w))
    BY <1>1 DEF CountByPlatform, jobs, TypeOK, ClaimingOK
  <2>2. FreeSlots(w)' = FreeSlots(w)
    BY <2>1 DEF FreeSlots
  <2>3. Cardinality(FreeSlots(w)) \in Nat
    BY <2>1, FreeSlotsGrow
  <2> QED
    BY <2>1, <2>2, <2>3, FS_EmptySet DEF SlotsKept
<1>2. CASE EndPhase(w)
  BY <1>2, SlotsEnded DEF EndPhase, TypeOK, ClaimingOK
<1>3. ASSUME NEW s \in due[w], ClaimPost(w, s)
      PROVE  SlotsKept(w)'
  <2>1. /\ UNCHANGED <<pc, maxSlots>> /\ Cardinality(claimed[w]) < maxSlots[w]
        /\ claimed'[w] = claimed[w] \/ claimed'[w] = claimed[w] \cup {s}
    BY <1>3 DEF ClaimPost, Fits, jobs, TypeOK, ClaimingOK
  <2>2. FreeSlots(w)' = FreeSlots(w)
    BY <2>1 DEF FreeSlots
  <2>3. /\ Cardinality(claimed[w]) \in Nat /\ maxSlots[w] \in Nat
        /\ IsFiniteSet(claimed[w]) /\ IsFiniteSet(claimed[w] \cup {s})
        /\ Cardinality(claimed[w] \cup {s})
             = IF s \in claimed[w] THEN Cardinality(claimed[w]) ELSE Cardinality(claimed[w]) + 1
    BY FS_CardinalityType, FS_AddElement DEF SlotsKept, TypeOK, ClaimingOK
  <2>4. IsFiniteSet(claimed'[w]) /\ Cardinality(claimed'[w]) <= maxSlots[w]
    BY <2>1, <2>3
  <2> QED
    BY <2>1, <2>2, <2>4 DEF SlotsKept
<1>4. CASE CountByAccount(w) \/ Reconnect(w) \/ (FindDue(w) /\ ~ EndPhase(w))
  <2>1. UNCHANGED <<pc, maxSlots, claimed>>
    BY <1>4 DEF CountByAccount, Reconnect, FindDue, jobs
  <2> QED
    BY <2>1, SlotsStay
<1> QED
  BY <1>1, <1>2, <1>3, <1>4 DEF WorkerStep, Launch

LEMMA SlotStep == TypeOK /\ SlotInv /\ [Next]_vars => SlotInv'
<1> SUFFICES ASSUME TypeOK, SlotInv, [Next]_vars, NEW v \in Worker
             PROVE  SlotsKept(v)'
  BY DEF SlotInv
<1>0. SlotsKept(v) /\ \A s \in Slot : <<v, s>> \in Job
  BY DEF SlotInv, Job
<1>1. ASSUME NothingTaken, UNCHANGED claiming
      PROVE  SlotsKept(v)'
  BY <1>0, <1>1, SlotsStay DEF NothingTaken, claiming
<1>2. ASSUME NEW w \in Worker, WorkerStep(w)
      PROVE  SlotsKept(v)'
  <2>1. CASE w = v
    BY <1>0, <1>2, <2>1, SlotsWorker
  <2>2. CASE w # v
    <3>1. claimed'[v] = claimed[v] /\ maxSlots'[v] = maxSlots[v]
      BY <1>2, <2>2 DEF WorkerStep, CountByPlatform, CountByAccount, FindDue, ClaimPost, Launch,
                        Reconnect, EndPhase, TypeOK, ClaimingOK
    <3> QED
      BY <1>0, <1>2, <2>2, <3>1, CapsOther, SlotsStay
  <2> QED
    BY <2>1, <2>2
<1>3. ASSUME NEW j \in Job, JobStep(j)
      PROVE  SlotsKept(v)'
  BY <1>1, <1>3, JobHands
<1>4. CASE FaultStep
  <2>1. NothingTaken
    BY <1>4, FaultHands
  <2>2. \/ claimed'[v] = claimed[v] /\ maxSlots'[v] = maxSlots[v]
        \/ claimed'[v] = {} /\ maxSlots'[v] = 0
    BY <1>4 DEF FaultStep, ClaimError, Crash, AnswerLost, SaveError, CompleteError, SettleError,
                BeatLost, EndPhase, claiming, TypeOK, ClaimingOK
  <2> QED
    BY <1>0, <2>1, <2>2, SlotsStay, SlotsEnded DEF NothingTaken
<1>5. CASE \/ UNCHANGED vars
           \/ \E p \in Post : Create(p) \/ Enqueue(p)
           \/ \E r \in Request, kind \in RequestKind, p \in Post : ReadPost(r, kind, p)
           \/ \E r \in Request : RequestStep(r)
           \/ \E p \in Post : BeatLands(p)
           \/ Tick
  <2>1. UNCHANGED <<claiming, jobs>>
    BY <1>5, OtherHands
  <2> QED
    BY <1>1, <2>1 DEF NothingTaken, claiming, jobs
<1> QED
  BY <1>2, <1>3, <1>4, <1>5 DEF Next

(* A process never claims a post for which it has no free slot: no claimed   *)
(* post waits in memory while its lease runs.                                *)
THEOREM ClaimsHaveSlotsCorrect == Spec => []ClaimsHaveSlots
<1>1. Init => SlotInv
  BY FreeSlotsCounted, FS_EmptySet DEF Init, SlotInv, SlotsKept
<1>2. TypeOK /\ SlotInv => ClaimsHaveSlots
  <2> SUFFICES ASSUME TypeOK, SlotInv, NEW w \in Worker
               PROVE  Cardinality(claimed[w]) <= Cardinality(FreeSlots(w))
    BY DEF ClaimsHaveSlots
  <2>1. /\ Cardinality(claimed[w]) \in Nat /\ maxSlots[w] \in Nat
        /\ Cardinality(FreeSlots(w)) \in Nat
    BY FreeSlotsCounted, FS_CardinalityType DEF SlotInv, SlotsKept, TypeOK, ClaimingOK
  <2> QED
    BY <2>1 DEF SlotInv, SlotsKept
<1> QED
  BY <1>1, <1>2, SlotStep, TypeCorrect, PTL DEF Spec

-----------------------------------------------------------------------------
(* A saved result is final *)

\* Only a phase that is claiming has a page of due posts.
PagesOpen == \A w \in Worker : due[w] # {} => phase[w] = "claim"

\* Who is about to publish a post has read that it has no result.
HandsFresh ==
  /\ \A w \in Worker : \A s \in claimed[w] : result[s.post] => s.result
  /\ \A j \in Job : pc[j] = "publish" => ~ result[snap[j].post]

\* A copy that is out of date cannot be claimed.
ClaimsFresh ==
  \A w \in Worker : \A s \in due[w] : Claimable(s.post) /\ result[s.post] => s.result

\* Of one process no copy is out of date.
PagesFresh == \A w \in Worker : \A s \in due[w] : result[s.post] => s.result

\* A post that has a result is past its attempts, unless step 2 has failed.
PastAttempts ==
  /\ \A j \in Job : pc[j] \in {"publish", "save", "fail", "reject"} => ~ result[snap[j].post]
  /\ \A p \in Post : status[p] \in {"ABSENT", "FAILED"} => ~ result[p]
  /\ \A r \in Request :
       request[r].step = "read" /\ request[r].kind = "retry" => ~ result[request[r].post]

FinalInv ==
  /\ PagesOpen
  /\ ClaimsAreSafe =>
       /\ SingleProcess => HandsFresh /\ PagesFresh
       /\ NoFault({"complete"}) => HandsFresh /\ ClaimsFresh /\ PastAttempts

(* The result of a post is written by the one job that has the post.         *)
LEMMA ResultWritten ==
  ASSUME TypeOK, [Next]_vars
  PROVE  UNCHANGED result \/ \E j \in Job : SaveResult(j)
<1>1. CASE UNCHANGED vars
  BY <1>1 DEF vars, row
<1>2. CASE \E w \in Worker : WorkerStep(w)
  BY <1>2 DEF WorkerStep, CountByPlatform, CountByAccount, FindDue, ClaimPost, Launch, Reconnect, row
<1>3. CASE \E j \in Job : JobStep(j)
  BY <1>3 DEF JobStep, Resume, PublishSucceeds, PublishFails, Complete, Settle, row
<1>4. CASE FaultStep
  BY <1>4 DEF FaultStep, ClaimError, Crash, AnswerLost, SaveError, CompleteError, SettleError,
              BeatLost, row
<1>5. CASE \/ \E p \in Post : Create(p) \/ Enqueue(p)
           \/ \E r \in Request, kind \in RequestKind, p \in Post : ReadPost(r, kind, p)
           \/ \E r \in Request : RequestStep(r)
           \/ \E p \in Post : BeatLands(p)
           \/ Tick
  BY <1>5 DEF Create, Enqueue, Insert, ReadPost, RequestStep, Cancel, Update, Retry, BeatLands,
              Tick, row
<1> QED
  BY <1>1, <1>2, <1>3, <1>4, <1>5 DEF Next

\* How copies of rows move: into the page of due posts as the row is, from the
\* page to the claims if the post can be claimed, from the claims to a job.
CopiesMove ==
  /\ \A w \in Worker : \A s \in due'[w] :
       s \in due[w] \/ (\E p \in Post : s = SnapshotOf(p) /\ UNCHANGED row)
  /\ \A w \in Worker : \A s \in claimed'[w] :
       s \in claimed[w] \/ (s \in due[w] /\ Claimable(s.post) /\ UNCHANGED result)
  /\ \A j \in Job : pc'[j] = "publish" =>
       \/ pc[j] = "publish" /\ snap'[j] = snap[j]
       \/ /\ ~ snap'[j].result /\ UNCHANGED result
          /\ \E w \in Worker : snap'[j] \in claimed[w]

LEMMA CopiesStep ==
  ASSUME TypeOK, [Next]_vars
  PROVE  CopiesMove
<1>1. ASSUME UNCHANGED <<due, claimed>>,
             \A j \in Job : pc'[j] = "publish" => pc[j] = "publish" /\ snap'[j] = snap[j]
      PROVE  CopiesMove
  BY <1>1 DEF CopiesMove
<1>2. ASSUME NEW w \in Worker, EndPhase(w),
             \A j \in Job : pc'[j] = "publish" => pc[j] = "publish" /\ snap'[j] = snap[j]
      PROVE  CopiesMove
  BY <1>2 DEF CopiesMove, EndPhase, TypeOK, ClaimingOK
<1>3. ASSUME NEW w \in Worker, WorkerStep(w)
      PROVE  CopiesMove
  <2>1. CASE CountByPlatform(w) \/ CountByAccount(w) \/ Reconnect(w)
    BY <1>1, <2>1 DEF CountByPlatform, CountByAccount, Reconnect, jobs
  <2>2. CASE FindDue(w)
    <3> DEFINE found == {p \in Post :
                           IsDue(p) /\ OnAccount(seenByAccount[w], p) < AccountConcurrency}
    <3>1. UNCHANGED <<pc, snap, row>>
      BY <2>2 DEF FindDue, jobs
    <3>2. CASE EndPhase(w)
      BY <1>2, <3>1, <3>2
    <3>3. CASE due' = [due EXCEPT ![w] = {SnapshotOf(p) : p \in found}] /\ UNCHANGED claimed
      BY <3>1, <3>3 DEF CopiesMove, TypeOK, ClaimingOK
    <3> QED
      BY <2>2, <3>2, <3>3 DEF FindDue
  <2>3. ASSUME NEW s \in due[w], ClaimPost(w, s)
        PROVE  CopiesMove
    <3>1. /\ UNCHANGED <<pc, snap, result>> /\ \A v \in Worker : due'[v] \subseteq due[v]
          /\ \A v \in Worker : \A t \in claimed'[v] :
               t \in claimed[v] \/ (v = w /\ t = s /\ Claimable(s.post))
      BY <2>3 DEF ClaimPost, jobs, TypeOK, ClaimingOK
    <3> QED
      BY <3>1 DEF CopiesMove
  <2>4. CASE Launch(w)
    <3>1. /\ \A v \in Worker : due'[v] \subseteq due[v] /\ claimed'[v] \subseteq claimed[v]
          /\ UNCHANGED result
      BY <2>4 DEF Launch, EndPhase, row, TypeOK, ClaimingOK
    <3>2. \A j \in Job : pc'[j] = "publish" =>
            \/ pc[j] = "publish" /\ snap'[j] = snap[j]
            \/ ~ snap'[j].result /\ snap'[j] \in claimed[w]
      BY <2>4, LaunchKeepsJobs DEF FirstStep
    <3> QED
      BY <3>1, <3>2 DEF CopiesMove
  <2> QED
    BY <1>3, <2>1, <2>2, <2>3, <2>4 DEF WorkerStep
<1>4. ASSUME NEW j \in Job, JobStep(j)
      PROVE  CopiesMove
  <2>1. UNCHANGED <<due, claimed>>
    BY <1>4, JobHands DEF claiming
  <2>2. \A i \in Job : pc'[i] = "publish" => pc[i] = "publish" /\ snap'[i] = snap[i]
    BY <1>4 DEF JobStep, Resume, PublishSucceeds, PublishFails, SaveResult, Complete, Settle,
                Goto, EndJob, TypeOK, JobsOK
  <2> QED
    BY <1>1, <2>1, <2>2
<1>5. CASE FaultStep
  <2>1. \A i \in Job : pc'[i] = "publish" => pc[i] = "publish" /\ snap'[i] = snap[i]
    BY <1>5 DEF FaultStep, ClaimError, Crash, AnswerLost, SaveError, CompleteError, SettleError,
                BeatLost, Goto, EndJob, jobs, TypeOK, JobsOK
  <2> QED
    BY <1>1, <1>2, <1>5, <2>1 DEF FaultStep, ClaimError, Crash, AnswerLost, SaveError,
       CompleteError, SettleError, BeatLost, claiming
<1>6. CASE \/ UNCHANGED vars
           \/ \E p \in Post : Create(p) \/ Enqueue(p)
           \/ \E r \in Request, kind \in RequestKind, p \in Post : ReadPost(r, kind, p)
           \/ \E r \in Request : RequestStep(r)
           \/ \E p \in Post : BeatLands(p)
           \/ Tick
  BY <1>1, <1>6, OtherHands DEF claiming, jobs
<1> QED
  BY <1>3, <1>4, <1>5, <1>6 DEF Next

LEMMA PagesOpenStep ==
  ASSUME TypeOK, PagesOpen, [Next]_vars
  PROVE  PagesOpen'
<1>1. CASE UNCHANGED claiming
  BY <1>1 DEF PagesOpen, claiming
<1>2. ASSUME NEW w \in Worker, WorkerStep(w)
      PROVE  PagesOpen'
  BY <1>2 DEF WorkerStep, CountByPlatform, CountByAccount, FindDue, ClaimPost, Launch, Reconnect,
              EndPhase, PagesOpen, TypeOK, ClaimingOK
<1>3. CASE FaultStep
  BY <1>1, <1>3 DEF FaultStep, ClaimError, Crash, AnswerLost, SaveError, CompleteError,
                    SettleError, BeatLost, EndPhase, PagesOpen, TypeOK, ClaimingOK
<1> QED
  BY <1>1, <1>2, <1>3, JobHands, OtherHands DEF Next

(* A job that saves a result is the only one with a copy of the post.        *)
LEMMA SaverIsAlone ==
  ASSUME TypeOK, OneHolder, NEW j \in Job, SaveResult(j)
  PROVE  /\ \A q \in Post : q # snap[j].post => result'[q] = result[q]
         /\ \A w \in Worker : \A s \in claimed[w] : s.post \in Post /\ s.post # snap[j].post
         /\ \A i \in Job : i # j /\ pc[i] # "idle" => snap[i].post \in Post /\ snap[i].post # snap[j].post
         /\ Running(j) /\ pc'[j] = "complete" /\ UNCHANGED <<claiming, snap, status, request>>
         /\ \A i \in Job : i # j => pc'[i] = pc[i]
<1>1. Running(j)
  BY DEF SaveResult, Running
<1> QED
  BY <1>1, HandTyped DEF SaveResult, Goto, OneHolder, Running, TypeOK, RowOK, JobsOK

LEMMA HandsFreshStep ==
  ASSUME TypeOK, OneHolder, HandsFresh, ClaimsFresh, [Next]_vars
  PROVE  HandsFresh'
<1>1. CASE UNCHANGED result
  <2>1. \A w \in Worker : \A s \in claimed'[w] : result[s.post] => s.result
    BY CopiesStep DEF CopiesMove, HandsFresh, ClaimsFresh
  <2>2. ASSUME NEW j \in Job, pc'[j] = "publish"
        PROVE  ~ result[snap'[j].post]
    BY <2>2, CopiesStep DEF CopiesMove, HandsFresh
  <2> QED
    BY <1>1, <2>1, <2>2 DEF HandsFresh
<1>2. ASSUME NEW j \in Job, SaveResult(j)
      PROVE  HandsFresh'
  BY <1>2, SaverIsAlone DEF HandsFresh, claiming
<1> QED
  BY <1>1, <1>2, ResultWritten

LEMMA PagesFreshStep ==
  ASSUME TypeOK, OneHolder, DueIsIdle, PagesFresh, [Next]_vars
  PROVE  PagesFresh'
<1>1. CASE UNCHANGED result
  <2>1. \A p \in Post : SnapshotOf(p).post = p /\ SnapshotOf(p).result = result[p]
    BY DEF SnapshotOf
  <2> QED
    BY <1>1, <2>1, CopiesStep DEF CopiesMove, PagesFresh
<1>2. ASSUME NEW j \in Job, SaveResult(j)
      PROVE  PagesFresh'
  <2>1. \A w \in Worker : \A s \in due[w] : s.post \in Post /\ s.post # snap[j].post
    BY <1>2, SaverIsAlone, DueTyped DEF DueIsIdle
  <2> QED
    BY <1>2, <2>1, SaverIsAlone DEF PagesFresh, claiming
<1> QED
  BY <1>1, <1>2, ResultWritten

(* What makes a post claimable again that was not.                           *)
LEMMA BecomesClaimable ==
  ASSUME TypeOK, [Next]_vars, NEW p \in Post, Claimable(p)', ~ Claimable(p)
  PROVE  \/ status[p] = "ABSENT"
         \/ \E r \in Request : /\ request[r].step = "read" /\ request[r].kind = "retry"
                               /\ request[r].post = p
         \/ \E j \in Job : pc[j] \in {"fail", "reject"} /\ snap[j].post = p
         \/ Tick
<1> USE DEF Claimable
<1>1. CASE UNCHANGED vars
  BY <1>1 DEF vars, row
<1>2. CASE \E q \in Post : Create(q) \/ Enqueue(q)
  BY <1>2 DEF Create, Enqueue, Insert, TypeOK, RowOK
<1>3. ASSUME NEW w \in Worker, WorkerStep(w)
      PROVE  FALSE
  <2>1. CASE \E s \in due[w] : ClaimPost(w, s)
    BY <2>1 DEF ClaimPost, TypeOK, RowOK
  <2> QED
    BY <1>3, <2>1 DEF WorkerStep, CountByPlatform, CountByAccount, FindDue, Launch, Reconnect, row
<1>4. ASSUME NEW j \in Job, JobStep(j)
      PROVE  pc[j] \in {"fail", "reject"} /\ snap[j].post = p
  BY <1>4 DEF JobStep, Resume, PublishSucceeds, PublishFails, SaveResult, Complete, Settle, row,
              TypeOK, RowOK
<1>5. CASE FaultStep
  BY <1>5 DEF FaultStep, ClaimError, Crash, AnswerLost, SaveError, CompleteError, SettleError,
              BeatLost, row
<1>6. ASSUME NEW r \in Request, RequestStep(r)
      PROVE  request[r].step = "read" /\ request[r].kind = "retry" /\ request[r].post = p
  BY <1>6 DEF RequestStep, Cancel, Update, Retry, Answer, TypeOK, RowOK
<1>7. CASE \/ \E r \in Request, kind \in RequestKind, q \in Post : ReadPost(r, kind, q)
           \/ \E q \in Post : BeatLands(q)
  BY <1>7, ConstantsAssumption DEF ReadPost, BeatLands, row, TypeOK, RowOK
<1> QED
  BY <1>1, <1>2, <1>3, <1>4, <1>5, <1>6, <1>7 DEF Next

LEMMA ClaimsFreshStep ==
  ASSUME TypeOK, Parts, ClaimsAreSafe, PagesOpen, ClaimsFresh, PastAttempts, [Next]_vars
  PROVE  ClaimsFresh'
<1>1. CASE UNCHANGED result
  <2> SUFFICES ASSUME NEW w \in Worker, NEW s \in due'[w], Claimable(s.post)', result[s.post]
               PROVE  s.result
    BY <1>1 DEF ClaimsFresh
  <2>1. CASE \E p \in Post : s = SnapshotOf(p)
    BY <2>1 DEF SnapshotOf
  <2>2. CASE s \in due[w]
    <3>1. s.post \in Post /\ ~ Tick
      BY <2>2, DueTyped DEF PagesOpen, Tick
    <3>2. Claimable(s.post)
      BY <3>1, BecomesClaimable DEF PastAttempts
    <3> QED
      BY <2>2, <3>2 DEF ClaimsFresh
  <2> QED
    BY <2>1, <2>2, CopiesStep DEF CopiesMove
<1>2. ASSUME NEW j \in Job, SaveResult(j)
      PROVE  ClaimsFresh'
  <2> SUFFICES ASSUME NEW w \in Worker, NEW s \in due[w], Claimable(s.post)', result'[s.post]
               PROVE  s.result
    BY <1>2, SaverIsAlone DEF ClaimsFresh, claiming, Parts
  <2>1. Claimable(s.post) /\ s.post \in Post
    BY <1>2, DueTyped DEF SaveResult, Claimable
  <2>2. s.post # snap[j].post
    BY <1>2, <2>1, HandTyped, HeldIsClaimed, SaverIsAlone DEF Claimable, Parts
  <2> QED
    BY <1>2, <2>1, <2>2, SaverIsAlone DEF ClaimsFresh, Parts
<1> QED
  BY <1>1, <1>2, ResultWritten

(* Which jobs are at their attempts, which posts have failed and which are   *)
(* about to be retried after a step that saves no result.                    *)
LEMMA PastAttemptsKept ==
  ASSUME PastAttempts, UNCHANGED result,
         \A j \in Job : pc'[j] \in {"publish", "save", "fail", "reject"} =>
           \/ pc[j] \in {"publish", "save", "fail", "reject"} /\ snap'[j] = snap[j]
           \/ ~ result[snap'[j].post],
         \A p \in Post : status'[p] \in {"ABSENT", "FAILED"} =>
           status'[p] = status[p] \/ ~ result[p],
         \A r \in Request : request'[r].step = "read" /\ request'[r].kind = "retry" =>
           request'[r] = request[r] \/ ~ result[request'[r].post]
  PROVE  PastAttempts'
BY DEF PastAttempts

LEMMA PastAttemptsJob ==
  ASSUME TypeOK, Parts, PastAttempts, NEW j \in Job, JobStep(j)
  PROVE  PastAttempts'
<1> DEFINE p == snap[j].post
           trying == {"publish", "save", "fail", "reject"}
<1>1. CASE SaveResult(j)
  <2>1. p \in Post /\ InHand(p)
    BY <1>1, SaverIsAlone, HandTyped DEF Parts
  <2>2. /\ \A i \in Job : pc'[i] \in trying => ~ result'[snap'[i].post]
        /\ \A q \in Post : status'[q] \in {"ABSENT", "FAILED"} => ~ result'[q]
    BY <1>1, <2>1, SaverIsAlone DEF Parts, IdleIsFree, PastAttempts
  <2>3. \A r \in Request :
          request'[r].step = "read" /\ request'[r].kind = "retry" => ~ result'[request'[r].post]
    BY <1>1, <2>1, SaverIsAlone DEF Parts, RetryIsFree, PastAttempts, TypeOK, RequestOK
  <2> QED
    BY <2>2, <2>3 DEF PastAttempts
<1>2. CASE PublishSucceeds(j) \/ PublishFails(j)
  <2>1. /\ UNCHANGED <<result, status, request>>
        /\ \A i \in Job : pc'[i] \in trying => pc[i] \in trying /\ snap'[i] = snap[i]
    BY <1>2 DEF PublishSucceeds, PublishFails, Goto, row, TypeOK, JobsOK
  <2> QED
    BY <2>1, PastAttemptsKept
<1>3. CASE Resume(j) \/ Complete(j) \/ Settle(j)
  <2>1. /\ UNCHANGED <<result, request>>
        /\ \A i \in Job : pc'[i] \in trying => pc[i] \in trying /\ snap'[i] = snap[i]
    BY <1>3 DEF Resume, Complete, Settle, EndJob, TypeOK, JobsOK
  <2>2. \A q \in Post : status'[q] \in {"ABSENT", "FAILED"} =>
          status'[q] = status[q] \/ ~ result[q]
    BY <1>3 DEF Resume, Complete, Settle, TypeOK, RowOK, PastAttempts
  <2> QED
    BY <2>1, <2>2, PastAttemptsKept
<1> QED
  BY <1>1, <1>2, <1>3 DEF JobStep

LEMMA PastAttemptsStep ==
  ASSUME TypeOK, Parts, HandsFresh, HandsFresh', PastAttempts, ~ Fault("complete"), [Next]_vars
  PROVE  PastAttempts'
<1> DEFINE trying == {"publish", "save", "fail", "reject"}
           failed(p) == status[p] \in {"ABSENT", "FAILED"}
<1>1. CASE UNCHANGED vars
  BY <1>1, PastAttemptsKept DEF vars, row, jobs
<1>2. CASE \E j \in Job : JobStep(j)
  BY <1>2, PastAttemptsJob
<1>3. ASSUME NEW w \in Worker, WorkerStep(w)
      PROVE  PastAttempts'
  <2>1. UNCHANGED <<result, status, request>>
    BY <1>3 DEF WorkerStep, CountByPlatform, CountByAccount, FindDue, ClaimPost, Launch,
                Reconnect, row
  <2>2. \A j \in Job : pc'[j] \in trying =>
          (pc[j] \in trying /\ snap'[j] = snap[j]) \/ ~ result[snap'[j].post]
    <3>1. CASE Launch(w)
      BY <2>1, <3>1, LaunchKeepsJobs DEF FirstStep, HandsFresh
    <3> QED
      BY <1>3, <3>1 DEF WorkerStep, CountByPlatform, CountByAccount, FindDue, ClaimPost,
                        Reconnect, jobs
  <2> QED
    BY <2>1, <2>2, PastAttemptsKept
<1>4. CASE FaultStep
  <2>1. UNCHANGED <<result, status, request>>
    BY <1>4 DEF FaultStep, ClaimError, Crash, AnswerLost, SaveError, CompleteError, SettleError,
                BeatLost, row
  <2>2. \A j \in Job : pc'[j] \in trying => pc[j] \in trying /\ snap'[j] = snap[j]
    BY <1>4 DEF FaultStep, ClaimError, Crash, AnswerLost, SaveError, CompleteError, SettleError,
                BeatLost, Goto, EndJob, jobs, TypeOK, JobsOK
  <2> QED
    BY <2>1, <2>2, PastAttemptsKept
<1>5. CASE \/ \E p \in Post : Create(p) \/ Enqueue(p)
           \/ \E r \in Request, kind \in RequestKind, p \in Post : ReadPost(r, kind, p)
           \/ \E r \in Request : RequestStep(r)
           \/ \E p \in Post : BeatLands(p)
           \/ Tick
  <2>1. UNCHANGED <<result, jobs>>
    BY <1>5, OtherHands DEF Create, Enqueue, Insert, ReadPost, RequestStep, Cancel, Update, Retry,
                            BeatLands, Tick, row
  <2>2. \A p \in Post : failed(p)' => failed(p)
    BY <1>5 DEF Create, Enqueue, Insert, ReadPost, RequestStep, Cancel, Update, Retry, Answer,
                BeatLands, Tick, row, TypeOK, RowOK
  <2>3. \A r \in Request : request'[r].step = "read" /\ request'[r].kind = "retry" =>
          request'[r] = request[r] \/ ~ result[request'[r].post]
    <3>1. CASE \E r \in Request, kind \in RequestKind, p \in Post : ReadPost(r, kind, p)
      BY <3>1 DEF ReadPost, TypeOK, RequestOK, PastAttempts
    <3>2. CASE \E r \in Request : RequestStep(r)
      BY <3>2 DEF RequestStep, Cancel, Update, Retry, Answer, NewRequest, TypeOK, RequestOK
    <3>3. CASE UNCHANGED request
      BY <3>3
    <3> QED
      BY <1>5, <3>1, <3>2, <3>3 DEF Create, Enqueue, Insert, BeatLands, Tick
  <2> QED
    BY <2>1, <2>2, <2>3 DEF PastAttempts, jobs
<1> QED
  BY <1>1, <1>2, <1>3, <1>4, <1>5 DEF Next

LEMMA FinalStep ==
  TypeOK /\ ClaimsExclusive /\ DueInv /\ FinalInv /\ [Next]_vars => FinalInv'
<1> SUFFICES ASSUME TypeOK, ClaimsExclusive, DueInv, FinalInv, [Next]_vars, ClaimsAreSafe'
             PROVE  /\ SingleProcess => HandsFresh' /\ PagesFresh'
                    /\ NoFault({"complete"})' => HandsFresh' /\ ClaimsFresh' /\ PastAttempts'
  BY PagesOpenStep DEF FinalInv, SingleProcess
<1>1. ClaimsAreSafe /\ Parts /\ OneHolder
  BY FaultsGrow, SafeBefore DEF TypeOK, ClaimsExclusive, Parts
<1>2. ASSUME SingleProcess
      PROVE  HandsFresh' /\ PagesFresh'
  <2>1. HandsFresh /\ PagesFresh /\ ClaimsFresh /\ DueIsIdle
    BY <1>1, <1>2 DEF FinalInv, DueInv, PagesFresh, ClaimsFresh
  <2> QED
    BY <1>1, <2>1, HandsFreshStep, PagesFreshStep
<1>3. ASSUME NoFault({"complete"})'
      PROVE  HandsFresh' /\ ClaimsFresh' /\ PastAttempts'
  <2>1. NoFault({"complete"}) /\ ~ Fault("complete")
    BY <1>3, NoFaultBefore DEF TypeOK, FaultKind
  <2>2. HandsFresh /\ ClaimsFresh /\ PastAttempts /\ PagesOpen
    BY <1>1, <2>1 DEF FinalInv
  <2>3. HandsFresh'
    BY <1>1, <2>2, HandsFreshStep
  <2> QED
    BY <1>1, <2>1, <2>2, <2>3, ClaimsFreshStep, PastAttemptsStep
<1> QED
  BY <1>2, <1>3

THEOREM FinalCorrect == Spec => []FinalInv
<1>1. Init => FinalInv
  BY DEF Init, FinalInv, PagesOpen, HandsFresh, PagesFresh, ClaimsFresh, PastAttempts, NewRequest
<1> QED
  BY <1>1, FinalStep, TypeCorrect, ExclusiveCorrect, DueCorrect, PTL DEF Spec

(* Once the result of a post is saved, no execution and no retry takes the   *)
(* post to its platform again.                                               *)
THEOREM ResultIsFinalCorrect == Spec => ResultIsFinal
<1>1. ASSUME TypeOK, FinalInv, [Next]_vars, ClaimsAreSafe, SingleProcess \/ NoFault({"complete"}),
             NEW p \in Post, result[p]
      PROVE  published'[p] = published[p]
  <2>1. HandsFresh
    BY <1>1 DEF FinalInv
  <2>2. ASSUME NEW j \in Job, PublishSucceeds(j) \/ AnswerLost(j)
        PROVE  published'[p] = published[p]
    <3>1. pc[j] = "publish" /\ p # snap[j].post
      BY <1>1, <2>1, <2>2 DEF HandsFresh, PublishSucceeds, AnswerLost
    <3> QED
      BY <1>1, <2>2, <3>1 DEF PublishSucceeds, AnswerLost, Reaches, TypeOK, HistoryOK
  <2>3. (\A j \in Job : ~ PublishSucceeds(j) /\ ~ AnswerLost(j)) => UNCHANGED published
    <3>1. CASE \E w \in Worker : WorkerStep(w)
      BY <3>1 DEF WorkerStep, CountByPlatform, CountByAccount, FindDue, ClaimPost, Launch,
                  Reconnect, history
    <3>2. ASSUME NEW j \in Job, JobStep(j), ~ PublishSucceeds(j)
          PROVE  UNCHANGED published
      BY <3>2 DEF JobStep, Resume, PublishFails, SaveResult, Complete, Settle, history
    <3>3. ASSUME FaultStep, \A j \in Job : ~ AnswerLost(j)
          PROVE  UNCHANGED published
      BY <3>3 DEF FaultStep, ClaimError, Crash, SaveError, CompleteError, SettleError, BeatLost,
                  history
    <3>4. CASE \/ UNCHANGED vars
               \/ \E q \in Post : Create(q) \/ Enqueue(q)
               \/ \E r \in Request, kind \in RequestKind, q \in Post : ReadPost(r, kind, q)
               \/ \E r \in Request : RequestStep(r)
               \/ \E q \in Post : BeatLands(q)
               \/ Tick
      BY <3>4 DEF vars, Create, Enqueue, Insert, ReadPost, RequestStep, Cancel, Update, Retry,
                  BeatLands, Tick, history
    <3> QED
      BY <1>1, <3>1, <3>2, <3>3, <3>4 DEF Next
  <2> QED
    BY <2>2, <2>3
<1>2. TypeOK /\ FinalInv /\ [Next]_vars =>
        [ ClaimsAreSafe /\ (SingleProcess \/ NoFault({"complete"})) =>
            \A p \in Post : result[p] => published'[p] = published[p] ]_vars
  BY <1>1
<1> QED
  BY <1>2, TypeCorrect, FinalCorrect, PTL DEF Spec, ResultIsFinal
=============================================================================
