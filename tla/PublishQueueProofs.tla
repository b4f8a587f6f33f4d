------------------------- MODULE PublishQueueProofs -------------------------
(***************************************************************************)
(* Theorems about PublishQueue, for any number of posts, processes, slots, *)
(* requests and faults.                                                    *)
(***************************************************************************)
EXTENDS PublishQueue, FiniteSetTheorems, TLAPS

USE ConstantsAssumption

LEMMA SnapshotFacts ==
  /\ NoSnapshot \notin Snapshot
  /\ \A s \in Snapshot :
       /\ s.post \in Post
       /\ s.retryCount \in 0..(MaxRetries - 1)
       /\ s.result \in BOOLEAN
       /\ s.msg \in Nat
BY DEF Snapshot, NoSnapshot

LEMMA SnapshotOfTyped ==
  ASSUME RowOK, NEW p \in Post, status[p] = "PENDING"
  PROVE  SnapshotOf(p) \in Snapshot
BY DEF RowOK, SnapshotOf, Snapshot

LEMMA JobTyped ==
  ASSUME NEW w \in Worker, NEW s \in Slot
  PROVE  <<w, s>> \in Job
BY DEF Job

LEMMA FaultTyped ==
  ASSUME HistoryOK, NEW k \in FaultKind, Fault(k)
  PROVE  faults' \in [FaultKind -> Nat]
BY DEF HistoryOK, Fault

LEMMA FreeSlotsCounted ==
  ASSUME NEW w \in Worker
  PROVE  Cardinality(FreeSlots(w)) \in Nat
<1>1. FreeSlots(w) \subseteq Slot
  BY DEF FreeSlots
<1>2. IsFiniteSet(FreeSlots(w))
  BY <1>1, FS_Subset
<1> QED
  BY <1>2, FS_CardinalityType

LEMMA Counted ==
  ASSUME NEW S, NEW f \in [S -> Nat], NEW a \in S, NEW g, g = [f EXCEPT ![a] = @ + 1]
  PROVE  g \in [S -> Nat]
OBVIOUS

LEMMA Written ==
  ASSUME NEW S, NEW T, NEW f \in [S -> T], NEW a, NEW v \in T, NEW g, g = [f EXCEPT ![a] = v]
  PROVE  g \in [S -> T]
OBVIOUS

LEMMA PredTyped ==
  /\ \A n \in Nat : \A f \in [Post -> 0..n] : Pred(f) \in [Post -> 0..n]
  /\ \A f \in [Post -> Nat] : Pred(f) \in [Post -> Nat]
BY DEF Pred

(* The initial state is well typed. *)
LEMMA TypeInit == Init => TypeOK
<1> SUFFICES ASSUME Init PROVE TypeOK
  OBVIOUS
<1>1. RowOK
  BY DEF Init, RowOK
<1>2. ClaimingOK
  BY DEF Init, ClaimingOK
<1>3. JobsOK
  BY DEF Init, JobsOK, Beating
<1>4. RequestOK
  BY DEF Init, RequestOK, NewRequest
<1>5. HistoryOK
  BY DEF Init, HistoryOK
<1>6. beats \subseteq Post
  BY DEF Init
<1> QED
  BY <1>1, <1>2, <1>3, <1>4, <1>5, <1>6 DEF TypeOK

-----------------------------------------------------------------------------
(* The parts of the type invariant an action does not touch *)

LEMMA RowKept == RowOK /\ UNCHANGED row => RowOK'
BY DEF RowOK, row

LEMMA ClaimingKept == ClaimingOK /\ UNCHANGED claiming => ClaimingOK'
BY DEF ClaimingOK, claiming

LEMMA JobsKept == JobsOK /\ UNCHANGED jobs => JobsOK'
BY DEF JobsOK, jobs

LEMMA RequestKept == RequestOK /\ UNCHANGED request => RequestOK'
BY DEF RequestOK

LEMMA HistoryKept ==
  HistoryOK /\ UNCHANGED history /\ faults' \in [FaultKind -> Nat] => HistoryOK'
BY DEF HistoryOK, history

LEMMA FaultsKept == HistoryOK /\ UNCHANGED faults => faults' \in [FaultKind -> Nat]
BY DEF HistoryOK

LEMMA PhaseEnded ==
  ASSUME ClaimingOK, NEW w \in Worker, EndPhase(w), healthy' \in [Worker -> BOOLEAN]
  PROVE  ClaimingOK'
BY DEF ClaimingOK, EndPhase

LEMMA JobMoved ==
  ASSUME JobsOK, NEW j \in Job, pc[j] # "idle", NEW step \in Beating, Goto(j, step)
  PROVE  JobsOK'
BY DEF JobsOK, Goto

LEMMA JobEnded ==
  ASSUME JobsOK, NEW j \in Job, EndJob(j)
  PROVE  JobsOK'
BY SnapshotFacts DEF JobsOK, EndJob

LEMMA JobOnPost ==
  ASSUME JobsOK, NEW j \in Job, pc[j] # "idle"
  PROVE  /\ snap[j] \in Snapshot
         /\ snap[j].post \in Post
         /\ snap[j].retryCount \in 0..(MaxRetries - 1)
         /\ snap[j].msg \in Nat
BY SnapshotFacts DEF JobsOK

-----------------------------------------------------------------------------
(* Every action keeps the types *)

LEMMA TypeInsert ==
  ASSUME TypeOK, NEW p \in Post, NEW delay \in 0..MaxDelay, Insert(p, delay)
  PROVE  TypeOK'
<1> USE DEF TypeOK
<1>1. RowOK'
  BY DEF Insert, RowOK
<1> QED
  BY <1>1, ClaimingKept, JobsKept, RequestKept, HistoryKept, FaultsKept DEF Insert

LEMMA TypeClaimPhase ==
  ASSUME TypeOK, NEW w \in Worker,
         \/ CountByPlatform(w) \/ CountByAccount(w) \/ FindDue(w)
         \/ Reconnect(w) \/ \E s \in due[w] : ClaimPost(w, s)
  PROVE  TypeOK'
<1> USE DEF TypeOK
<1>1. CASE CountByPlatform(w)
  <2>1. ClaimingOK'
    BY <1>1, FreeSlotsCounted DEF CountByPlatform, ClaimingOK, InFlight
  <2> QED
    BY <1>1, <2>1, RowKept, JobsKept, RequestKept, HistoryKept, FaultsKept DEF CountByPlatform
<1>2. CASE CountByAccount(w)
  <2>1. ClaimingOK'
    BY <1>2 DEF CountByAccount, ClaimingOK, InFlight
  <2> QED
    BY <1>2, <2>1, RowKept, JobsKept, RequestKept, HistoryKept, FaultsKept DEF CountByAccount
<1>3. CASE FindDue(w)
  <2> DEFINE found == {p \in Post :
                         IsDue(p) /\ OnAccount(seenByAccount[w], p) < AccountConcurrency}
  <2>1. {SnapshotOf(p) : p \in found} \subseteq Snapshot
    BY SnapshotOfTyped DEF IsDue
  <2>2. CASE found = {}
    <3>1. EndPhase(w) /\ UNCHANGED healthy
      BY <1>3, <2>2 DEF FindDue
    <3>2. ClaimingOK'
      BY <3>1, PhaseEnded DEF ClaimingOK
    <3> QED
      BY <1>3, <3>2, RowKept, JobsKept, RequestKept, HistoryKept, FaultsKept DEF FindDue
  <2>3. CASE found # {}
    <3>1. /\ phase' = [phase EXCEPT ![w] = "claim"]
          /\ due' = [due EXCEPT ![w] = {SnapshotOf(p) : p \in found}]
          /\ UNCHANGED <<maxSlots, seenByPlatform, seenByAccount, claimed, healthy>>
      BY <1>3, <2>3 DEF FindDue
    <3> HIDE DEF found
    <3>2. ClaimingOK'
      BY <3>1, <2>1 DEF ClaimingOK
    <3> QED
      BY <1>3, <3>2, RowKept, JobsKept, RequestKept, HistoryKept, FaultsKept DEF FindDue
  <2> QED
    BY <2>2, <2>3
<1>4. CASE Reconnect(w)
  <2>1. ClaimingOK'
    BY <1>4 DEF Reconnect, ClaimingOK
  <2> QED
    BY <1>4, <2>1, RowKept, JobsKept, RequestKept, HistoryKept, FaultsKept DEF Reconnect
<1>5. CASE \E s \in due[w] : ClaimPost(w, s)
  <2>1. PICK s \in due[w] : ClaimPost(w, s)
    BY <1>5
  <2>2. s \in Snapshot /\ s.post \in Post
    BY SnapshotFacts DEF ClaimingOK
  <2>3. CASE Claimable(s.post)
    <3>1. RowOK'
      <4>1. claimLeft' = [claimLeft EXCEPT ![s.post] = Lease]
        BY <2>1, <2>3 DEF ClaimPost
      <4> QED
        BY <2>1, <2>2, <4>1 DEF ClaimPost, RowOK
    <3>2. ClaimingOK'
      <4>1. /\ claimed' = [claimed EXCEPT ![w] = @ \cup {s}]
            /\ due' = [due EXCEPT ![w] = @ \ {s}]
            /\ phase[w] = "claim"
            /\ UNCHANGED <<phase, maxSlots, seenByPlatform, seenByAccount, healthy>>
        BY <2>1, <2>3 DEF ClaimPost
      <4> QED
        BY <2>2, <4>1 DEF ClaimingOK
    <3> QED
      BY <2>1, <3>1, <3>2, JobsKept, RequestKept, HistoryKept, FaultsKept DEF ClaimPost
  <2>4. CASE ~ Claimable(s.post)
    <3>1. UNCHANGED row
      BY <2>1, <2>4 DEF ClaimPost, row
    <3>2. ClaimingOK'
      <4>1. /\ due' = [due EXCEPT ![w] = @ \ {s}]
            /\ UNCHANGED <<phase, maxSlots, seenByPlatform, seenByAccount, claimed, healthy>>
        BY <2>1, <2>4 DEF ClaimPost
      <4> QED
        BY <4>1 DEF ClaimingOK
    <3> QED
      BY <2>1, <3>1, <3>2, RowKept, JobsKept, RequestKept, HistoryKept, FaultsKept
      DEF ClaimPost
  <2> QED
    BY <2>3, <2>4
<1> QED
  BY <1>1, <1>2, <1>3, <1>4, <1>5

(* What Launch does to each job: it keeps it, or gives it a claimed post. *)
LEMMA LaunchedJobs ==
  ASSUME TypeOK, NEW w \in Worker, Launch(w)
  PROVE  \E slotOf \in [claimed[w] -> FreeSlots(w)] :
           /\ \A s, t \in claimed[w] : slotOf[s] = slotOf[t] => s = t
           /\ pc' \in [Job -> {"idle", "resume"} \cup Beating]
           /\ DOMAIN snap' = Job
           /\ \A j \in Job :
                \/ pc'[j] = pc[j] /\ snap'[j] = snap[j]
                \/ \E s \in claimed[w] :
                     /\ j = <<w, slotOf[s]>>
                     /\ snap'[j] = s
                     /\ pc'[j] = FirstStep(s)
           /\ \A s \in claimed[w] :
                /\ <<w, slotOf[s]>> \in Job
                /\ snap'[<<w, slotOf[s]>>] = s
                /\ pc'[<<w, slotOf[s]>>] = FirstStep(s)
<1>1. PICK slotOf \in [claimed[w] -> FreeSlots(w)] :
        LET given == {<<w, slotOf[s]>> : s \in claimed[w]}
            taken(j) == CHOOSE s \in claimed[w] : slotOf[s] = j[2]
        IN  /\ \A s, t \in claimed[w] : slotOf[s] = slotOf[t] => s = t
            /\ pc' = [j \in Job |-> IF j \in given THEN FirstStep(taken(j)) ELSE pc[j]]
            /\ snap' = [j \in Job |-> IF j \in given THEN taken(j) ELSE snap[j]]
  BY DEF Launch
<1> DEFINE given == {<<w, slotOf[s]>> : s \in claimed[w]}
           taken(j) == CHOOSE s \in claimed[w] : slotOf[s] = j[2]
<1>2. ASSUME NEW j \in given
      PROVE  taken(j) \in claimed[w] /\ j = <<w, slotOf[taken(j)]>>
  <2>1. PICK s \in claimed[w] : j = <<w, slotOf[s]>>
    BY <1>2
  <2>2. slotOf[s] = j[2]
    BY <2>1
  <2>3. taken(j) \in claimed[w] /\ slotOf[taken(j)] = j[2]
    BY <2>2
  <2> QED
    BY <2>1, <2>3
<1>3. \A j \in Job :
        \/ pc'[j] = pc[j] /\ snap'[j] = snap[j]
        \/ \E s \in claimed[w] :
             /\ j = <<w, slotOf[s]>>
             /\ snap'[j] = s
             /\ pc'[j] = FirstStep(s)
  <2> TAKE j \in Job
  <2>1. CASE j \in given
    BY <1>1, <1>2, <2>1
  <2>2. CASE j \notin given
    BY <1>1, <2>2
  <2> QED
    BY <2>1, <2>2
<1>4. pc' \in [Job -> {"idle", "resume"} \cup Beating]
  <2>1. pc \in [Job -> {"idle", "resume"} \cup Beating]
    BY DEF TypeOK, JobsOK
  <2>2. \A s : FirstStep(s) \in {"idle", "resume"} \cup Beating
    BY DEF FirstStep, Beating
  <2>3. pc' = [j \in Job |-> IF j \in given THEN FirstStep(taken(j)) ELSE pc[j]]
    BY <1>1
  <2> QED
    BY <2>1, <2>2, <2>3
<1>5. DOMAIN snap' = Job
  BY <1>1
<1>6. ASSUME NEW s \in claimed[w]
      PROVE  LET j == <<w, slotOf[s]>> IN
             j \in Job /\ snap'[j] = s /\ pc'[j] = FirstStep(s)
  <2> DEFINE j == <<w, slotOf[s]>>
  <2>1. j \in given /\ j \in Job
    BY <1>6 DEF Job, FreeSlots
  <2>2. taken(j) \in claimed[w] /\ j = <<w, slotOf[taken(j)]>>
    BY <1>2, <2>1
  <2>3. taken(j) = s
    BY <1>1, <1>6, <2>2
  <2> HIDE DEF taken, given
  <2> QED
    BY <1>1, <2>1, <2>3
<1> HIDE DEF given, taken
<1>7. \A s \in claimed[w] :
        /\ <<w, slotOf[s]>> \in Job
        /\ snap'[<<w, slotOf[s]>>] = s
        /\ pc'[<<w, slotOf[s]>>] = FirstStep(s)
  BY <1>6
<1>8. \A s, t \in claimed[w] : slotOf[s] = slotOf[t] => s = t
  BY <1>1
<1> QED
  BY <1>3, <1>4, <1>5, <1>7, <1>8

LEMMA TypeLaunch ==
  ASSUME TypeOK, NEW w \in Worker, Launch(w)
  PROVE  TypeOK'
<1> USE DEF TypeOK
<1>1. PICK slotOf \in [claimed[w] -> FreeSlots(w)] :
        /\ pc' \in [Job -> {"idle", "resume"} \cup Beating]
        /\ DOMAIN snap' = Job
        /\ \A j \in Job :
             \/ pc'[j] = pc[j] /\ snap'[j] = snap[j]
             \/ \E s \in claimed[w] :
                  /\ j = <<w, slotOf[s]>>
                  /\ snap'[j] = s
                  /\ pc'[j] = FirstStep(s)
  BY LaunchedJobs
<1>2. claimed[w] \subseteq Snapshot
  BY DEF ClaimingOK
<1>3. \A j \in Job : snap'[j] \in Snapshot \cup {NoSnapshot}
  BY <1>1, <1>2 DEF JobsOK
<1>4. \A j \in Job : pc'[j] # "idle" => snap'[j] \in Snapshot
  BY <1>1, <1>2 DEF JobsOK
<1>5. snap' = [j \in Job |-> snap'[j]]
  BY DEF Launch
<1>6. JobsOK'
  BY <1>1, <1>3, <1>4, <1>5 DEF JobsOK
<1>7. ClaimingOK'
  BY PhaseEnded DEF Launch, ClaimingOK
<1> QED
  BY <1>6, <1>7, RowKept, RequestKept, HistoryKept, FaultsKept DEF Launch

LEMMA TypeFault ==
  ASSUME TypeOK, FaultStep
  PROVE  TypeOK'
<1> USE DEF TypeOK
<1>1. CASE \E w \in Worker : ClaimError(w)
  <2>1. PICK w \in Worker : ClaimError(w)
    BY <1>1
  <2>2. faults' \in [FaultKind -> Nat]
    BY <2>1, FaultTyped DEF ClaimError, FaultKind
  <2>3. healthy' \in [Worker -> BOOLEAN] /\ EndPhase(w)
    BY <2>1 DEF ClaimError, ClaimingOK
  <2> QED
    BY <2>1, <2>2, <2>3, PhaseEnded, RowKept, JobsKept, RequestKept, HistoryKept DEF ClaimError
<1>2. CASE \E w \in Worker : Crash(w)
  <2>1. PICK w \in Worker : Crash(w)
    BY <1>2
  <2>2. faults' \in [FaultKind -> Nat]
    BY <2>1, FaultTyped DEF Crash, FaultKind
  <2>3. healthy' \in [Worker -> BOOLEAN] /\ EndPhase(w)
    BY <2>1 DEF Crash, ClaimingOK
  <2>4. JobsOK'
    BY <2>1, SnapshotFacts DEF Crash, JobsOK
  <2> QED
    BY <2>1, <2>2, <2>3, <2>4, PhaseEnded, RowKept, RequestKept, HistoryKept DEF Crash
<1>3. CASE \E j \in Job : AnswerLost(j)
  <2>1. PICK j \in Job : AnswerLost(j)
    BY <1>3
  <2>2. faults' \in [FaultKind -> Nat]
    BY <2>1, FaultTyped DEF AnswerLost, FaultKind
  <2>3. JobsOK'
    BY <2>1, JobMoved DEF AnswerLost, Beating
  <2>4. HistoryOK'
    <3> DEFINE p == snap[j].post
    <3>1. p \in Post /\ snap[j].msg \in Nat
      BY <2>1, JobOnPost DEF AnswerLost
    <3>2. /\ attempts' = [attempts EXCEPT ![p] = @ + 1]
          /\ published' = [published EXCEPT ![p] = @ + 1]
          /\ publishedMsg' = [publishedMsg EXCEPT ![p] = snap[j].msg]
      BY <2>1 DEF AnswerLost, Attempted, Reaches
    <3> HIDE DEF p
    <3>3. attempts' \in [Post -> Nat] /\ published' \in [Post -> Nat]
      BY <3>1, <3>2, Counted DEF HistoryOK
    <3>4. publishedMsg' \in [Post -> Nat]
      BY <3>1, <3>2 DEF HistoryOK
    <3> QED
      BY <2>2, <3>3, <3>4 DEF HistoryOK
  <2> QED
    BY <2>1, <2>3, <2>4, RowKept, ClaimingKept, RequestKept DEF AnswerLost
<1>4. CASE \E j \in Job : SaveError(j) \/ CompleteError(j)
  <2>1. PICK j \in Job : SaveError(j) \/ CompleteError(j)
    BY <1>4
  <2>2. faults' \in [FaultKind -> Nat]
    BY <2>1, FaultTyped DEF SaveError, CompleteError, FaultKind
  <2>3. JobsOK'
    BY <2>1, JobMoved DEF SaveError, CompleteError, Beating
  <2> QED
    BY <2>1, <2>2, <2>3, RowKept, ClaimingKept, RequestKept, HistoryKept
    DEF SaveError, CompleteError
<1>5. CASE \E j \in Job : SettleError(j)
  <2>1. PICK j \in Job : SettleError(j)
    BY <1>5
  <2>2. faults' \in [FaultKind -> Nat]
    BY <2>1, FaultTyped DEF SettleError, FaultKind
  <2>3. JobsOK'
    BY <2>1, JobEnded DEF SettleError
  <2> QED
    BY <2>1, <2>2, <2>3, RowKept, ClaimingKept, RequestKept, HistoryKept DEF SettleError
<1>6. CASE \E p \in Post : BeatLost(p)
  <2>1. PICK p \in Post : BeatLost(p)
    BY <1>6
  <2>2. faults' \in [FaultKind -> Nat]
    BY <2>1, FaultTyped DEF BeatLost, FaultKind
  <2> QED
    BY <2>1, <2>2, RowKept, ClaimingKept, JobsKept, RequestKept, HistoryKept DEF BeatLost
<1> QED
  BY <1>1, <1>2, <1>3, <1>4, <1>5, <1>6 DEF FaultStep

LEMMA TypeJob ==
  ASSUME TypeOK, NEW j \in Job, JobStep(j)
  PROVE  TypeOK'
<1> USE DEF TypeOK
<1> DEFINE p == snap[j].post
<1>0. pc[j] # "idle"
  BY DEF JobStep, Resume, PublishSucceeds, PublishFails, SaveResult, Complete, Settle
<1>p. p \in Post /\ snap[j].retryCount \in 0..(MaxRetries - 1) /\ snap[j].msg \in Nat
  BY <1>0, JobOnPost
<1>1. CASE Resume(j)
  <2>1. RowOK'
    <3>1. /\ status' = [status EXCEPT ![p] = "COMPLETED"]
          /\ claimLeft' = [claimLeft EXCEPT ![p] = 0]
          /\ UNCHANGED <<retryCount, scheduledIn, retryIn, result, msg>>
      BY <1>1 DEF Resume
    <3> HIDE DEF p
    <3>2. status' \in [Post -> {"ABSENT", "PENDING", "COMPLETED", "FAILED", "CANCELLED"}]
      BY <3>1 DEF RowOK
    <3>4. claimLeft' \in [Post -> 0..Lease]
      <4>1. claimLeft \in [Post -> 0..Lease] /\ 0 \in 0..Lease
        BY DEF RowOK
      <4> QED
        BY <3>1, <4>1, Written
    <3>3. \A q \in Post : status'[q] = status[q] \/ status'[q] = "COMPLETED"
      BY <3>1 DEF RowOK
    <3> QED
      BY <3>1, <3>2, <3>3, <3>4 DEF RowOK
  <2> QED
    BY <1>1, <2>1, JobEnded, ClaimingKept, RequestKept, HistoryKept, FaultsKept DEF Resume
<1>2. CASE PublishSucceeds(j)
  <2>1. HistoryOK'
    <3>1. /\ attempts' = [attempts EXCEPT ![p] = @ + 1]
          /\ published' = [published EXCEPT ![p] = @ + 1]
          /\ publishedMsg' = [publishedMsg EXCEPT ![p] = snap[j].msg]
          /\ UNCHANGED faults
      BY <1>2 DEF PublishSucceeds, Attempted, Reaches
    <3> HIDE DEF p
    <3>2. attempts' \in [Post -> Nat] /\ published' \in [Post -> Nat]
      BY <1>p, <3>1, Counted DEF HistoryOK
    <3>3. publishedMsg' \in [Post -> Nat]
      BY <1>p, <3>1 DEF HistoryOK
    <3> QED
      BY <3>1, <3>2, <3>3 DEF HistoryOK
  <2>2. JobsOK'
    BY <1>0, <1>2, JobMoved DEF PublishSucceeds, Beating
  <2> QED
    BY <1>2, <2>1, <2>2, RowKept, ClaimingKept, RequestKept DEF PublishSucceeds
<1>3. CASE PublishFails(j)
  <2>1. HistoryOK'
    <3>1. /\ attempts' = [attempts EXCEPT ![p] = @ + 1]
          /\ UNCHANGED <<published, publishedMsg, faults>>
      BY <1>3 DEF PublishFails, Attempted
    <3> HIDE DEF p
    <3> QED
      BY <1>p, <3>1 DEF HistoryOK
  <2>2. JobsOK'
    BY <1>0, <1>3, JobMoved DEF PublishFails, Beating
  <2> QED
    BY <1>3, <2>1, <2>2, RowKept, ClaimingKept, RequestKept DEF PublishFails
<1>4. CASE SaveResult(j)
  <2>1. RowOK'
    BY <1>4, <1>p DEF SaveResult, RowOK
  <2>2. JobsOK'
    BY <1>0, <1>4, JobMoved DEF SaveResult, Beating
  <2> QED
    BY <1>4, <2>1, <2>2, ClaimingKept, RequestKept, HistoryKept, FaultsKept DEF SaveResult
<1>5. CASE Complete(j)
  <2>1. RowOK'
    <3>1. CASE status[p] = "PENDING"
      <4>1. /\ status' = [status EXCEPT ![p] = "COMPLETED"]
            /\ retryCount' = [retryCount EXCEPT ![p] = 0]
            /\ retryIn' = [retryIn EXCEPT ![p] = 0]
            /\ claimLeft' = [claimLeft EXCEPT ![p] = 0]
            /\ UNCHANGED <<scheduledIn, result, msg>>
        BY <1>5, <3>1 DEF Complete
      <4> HIDE DEF p
      <4>2. 0 \in 0..MaxRetries /\ 0 \in 0..Lease
        BY ConstantsAssumption
      <4> QED
        BY <1>p, <4>1, <4>2 DEF RowOK
    <3>2. CASE status[p] # "PENDING"
      <4>1. UNCHANGED row
        BY <1>5, <3>2 DEF Complete, row
      <4> QED
        BY <4>1, RowKept
    <3> QED
      BY <3>1, <3>2
  <2> QED
    BY <1>5, <2>1, JobEnded, ClaimingKept, RequestKept, HistoryKept, FaultsKept DEF Complete
<1>6. CASE Settle(j)
  <2> DEFINE count == snap[j].retryCount + 1
             final == pc[j] = "reject" \/ Exhausted(count)
  <2>1. /\ status' = IF final THEN [status EXCEPT ![p] = "FAILED"] ELSE status
        /\ retryCount' = [retryCount EXCEPT ![p] = count]
        /\ retryIn' = [retryIn EXCEPT ![p] = IF final THEN 0 ELSE Backoff[count]]
        /\ claimLeft' = [claimLeft EXCEPT ![p] = 0]
        /\ UNCHANGED <<scheduledIn, result, msg>>
    BY <1>6 DEF Settle
  <2>2. count \in 1..MaxRetries /\ (~ final => count < MaxRetries)
    BY <1>p DEF Exhausted
  <2>3. Backoff[count] \in Nat
    BY <2>2
  <2>4. RowOK'
    <3> HIDE DEF p, count, final
    <3>0. count \in 0..MaxRetries /\ 0 \in 0..Lease
      BY <2>2
    <3>1. retryCount' \in [Post -> 0..MaxRetries] /\ claimLeft' \in [Post -> 0..Lease]
      BY <1>p, <2>1, <3>0 DEF RowOK
    <3>2. retryIn' \in [Post -> Nat]
      BY <2>1, <2>3 DEF RowOK
    <3>3. status' \in [Post -> {"ABSENT", "PENDING", "COMPLETED", "FAILED", "CANCELLED"}]
      BY <2>1 DEF RowOK
    <3>4. ASSUME NEW q \in Post, status'[q] \in {"ABSENT", "PENDING"}
          PROVE  retryCount'[q] < MaxRetries
      <4>1. CASE q = p
        BY <1>p, <2>1, <2>2, <3>4, <4>1 DEF RowOK
      <4>2. CASE q # p
        BY <2>1, <3>4, <4>2 DEF RowOK
      <4> QED
        BY <4>1, <4>2
    <3> QED
      BY <2>1, <3>1, <3>2, <3>3, <3>4 DEF RowOK
  <2> QED
    BY <1>6, <2>4, JobEnded, ClaimingKept, RequestKept, HistoryKept, FaultsKept DEF Settle
<1> QED
  BY <1>1, <1>2, <1>3, <1>4, <1>5, <1>6 DEF JobStep

LEMMA RequestAnswered ==
  ASSUME RequestOK, NEW r \in Request, NEW kind, Answer(r, kind)
  PROVE  RequestOK' /\ request[r].post \in Post
BY DEF RequestOK, Answer, NewRequest

LEMMA TypeRequest ==
  ASSUME TypeOK, NEW r \in Request,
         \/ RequestStep(r)
         \/ \E kind \in RequestKind, p \in Post : ReadPost(r, kind, p)
  PROVE  TypeOK'
<1> USE DEF TypeOK
<1> DEFINE p == request[r].post
<1>1. CASE Cancel(r)
  <2>1. RequestOK' /\ p \in Post
    BY <1>1, RequestAnswered DEF Cancel
  <2>2. RowOK'
    BY <1>1, <2>1 DEF Cancel, RowOK
  <2> QED
    BY <1>1, <2>1, <2>2, ClaimingKept, JobsKept, HistoryKept, FaultsKept DEF Cancel
<1>2. CASE Update(r)
  <2>1. RequestOK' /\ p \in Post
    BY <1>2, RequestAnswered DEF Update
  <2>2. PICK edited \in {0, 1}, delay \in 0..MaxDelay :
          /\ msg' = [msg EXCEPT ![p] = @ + edited]
          /\ scheduledIn' = [scheduledIn EXCEPT ![p] = IF delay > 0 THEN delay ELSE @]
          /\ retryIn' = [retryIn EXCEPT ![p] = IF delay > 0 THEN 0 ELSE @]
    BY <1>2 DEF Update
  <2>3. UNCHANGED <<status, retryCount, claimLeft, result>>
    BY <1>2 DEF Update
  <2>4. RowOK'
    <3> HIDE DEF p
    <3>1. scheduledIn' \in [Post -> Nat] /\ retryIn' \in [Post -> Nat]
      BY <2>1, <2>2 DEF RowOK
    <3>2. msg' \in [Post -> Nat]
      BY <2>1, <2>2 DEF RowOK
    <3> QED
      BY <2>3, <3>1, <3>2 DEF RowOK
  <2> QED
    BY <1>2, <2>1, <2>4, ClaimingKept, JobsKept, HistoryKept, FaultsKept DEF Update
<1>3. CASE Retry(r)
  <2>1. RequestOK' /\ p \in Post
    BY <1>3, RequestAnswered DEF Retry
  <2>2. RowOK'
    BY <1>3, <2>1 DEF Retry, RowOK
  <2>3. HistoryOK'
    BY <1>3, <2>1 DEF Retry, HistoryOK
  <2> QED
    BY <1>3, <2>1, <2>2, <2>3, ClaimingKept, JobsKept DEF Retry
<1>4. CASE \E kind \in RequestKind, q \in Post : ReadPost(r, kind, q)
  <2>1. RequestOK'
    BY <1>4 DEF ReadPost, RequestOK
  <2> QED
    BY <1>4, <2>1, RowKept, ClaimingKept, JobsKept, HistoryKept, FaultsKept DEF ReadPost
<1> QED
  BY <1>1, <1>2, <1>3, <1>4 DEF RequestStep

LEMMA TypeTime ==
  ASSUME TypeOK, Tick \/ \E p \in Post : BeatLands(p)
  PROVE  TypeOK'
<1> USE DEF TypeOK
<1>1. CASE Tick
  <2>1. RowOK'
    <3>1. claimLeft' \in [Post -> 0..Lease]
      BY <1>1, PredTyped DEF Tick, RowOK
    <3>2. scheduledIn' \in [Post -> Nat] /\ retryIn' \in [Post -> Nat]
      BY <1>1, PredTyped DEF Tick, RowOK
    <3> QED
      BY <1>1, <3>1, <3>2 DEF Tick, RowOK
  <2>2. beats' \subseteq Post
    BY <1>1 DEF Tick
  <2> QED
    BY <1>1, <2>1, <2>2, ClaimingKept, JobsKept, RequestKept, HistoryKept, FaultsKept DEF Tick
<1>2. CASE \E p \in Post : BeatLands(p)
  <2>1. RowOK'
    BY <1>2 DEF BeatLands, RowOK
  <2> QED
    BY <1>2, <2>1, ClaimingKept, JobsKept, RequestKept, HistoryKept, FaultsKept DEF BeatLands
<1> QED
  BY <1>1, <1>2

LEMMA TypeStep == TypeOK /\ [Next]_vars => TypeOK'
<1> SUFFICES ASSUME TypeOK, [Next]_vars PROVE TypeOK'
  OBVIOUS
<1>1. CASE UNCHANGED vars
  BY <1>1, RowKept, ClaimingKept, JobsKept, RequestKept, HistoryKept, FaultsKept
  DEF TypeOK, vars
<1>2. CASE Next
  BY <1>2, TypeInsert, TypeClaimPhase, TypeLaunch, TypeFault, TypeJob, TypeRequest, TypeTime
  DEF Next, WorkerStep, Create, Enqueue
<1> QED
  BY <1>1, <1>2

(* Every reachable state is well typed. *)
THEOREM TypeCorrect == Spec => []TypeOK
BY TypeInit, TypeStep, PTL DEF Spec

-----------------------------------------------------------------------------
(* Claims are exclusive *)

Parts == OneHolder /\ HolderKeepsClaim /\ IdleIsFree /\ RetryIsFree

(* The history of lost heartbeats only grows. *)
LEMMA FaultsCounted ==
  ASSUME HistoryOK, UNCHANGED faults \/ \E k \in FaultKind : Fault(k)
  PROVE  faults["beat"] \in Nat /\ faults'["beat"] \in Nat /\ faults["beat"] <= faults'["beat"]
<1>1. "beat" \in FaultKind /\ faults["beat"] \in Nat
  BY DEF HistoryOK, FaultKind
<1>2. CASE UNCHANGED faults
  BY <1>1, <1>2
<1>3. CASE \E k \in FaultKind : Fault(k)
  <2>1. PICK k \in FaultKind : faults' = [faults EXCEPT ![k] = @ + 1]
    BY <1>3 DEF Fault
  <2> QED
    BY <1>1, <2>1 DEF HistoryOK
<1> QED
  BY <1>2, <1>3

LEMMA SafeBefore ==
  ASSUME HistoryOK, ClaimsAreSafe', UNCHANGED faults \/ \E k \in FaultKind : Fault(k)
  PROVE  ClaimsAreSafe
BY FaultsCounted DEF ClaimsAreSafe

(* The claim of a post in hand has not expired. *)
LEMMA HeldIsClaimed ==
  ASSUME TypeOK, Parts, ClaimsAreSafe, NEW p \in Post, InHand(p), status[p] = "PENDING"
  PROVE  claimLeft[p] > 0
<1>1. claimLeft[p] \in Nat /\ faults["beat"] \in Nat
  BY DEF TypeOK, RowOK, HistoryOK, FaultKind
<1>2. CASE \E w \in Worker : p \in Posts(claimed[w])
  BY <1>1, <1>2 DEF Parts, HolderKeepsClaim, Posts
<1>3. CASE \E j \in Job : Running(j) /\ snap[j].post = p
  <2>1. claimLeft[p] + Owed(p) >= Lease
    BY <1>3 DEF Parts, HolderKeepsClaim
  <2>2. Owed(p) \in Nat /\ Owed(p) <= faults["beat"] + 1
    BY <1>1 DEF Owed
  <2>3. faults["beat"] + 2 <= Lease
    BY DEF ClaimsAreSafe
  <2> QED
    BY <1>1, <2>1, <2>2, <2>3
<1> QED
  BY <1>2, <1>3 DEF InHand

(* Nobody takes a post in hand. *)
NothingTaken ==
  /\ \A w \in Worker : claimed'[w] \subseteq claimed[w]
  /\ \A j \in Job : pc'[j] # "idle" => pc[j] # "idle" /\ snap'[j] = snap[j]

LEMMA HandsShrink ==
  ASSUME OneHolder, NothingTaken
  PROVE  OneHolder' /\ \A p \in Post : InHand(p)' => InHand(p)
<1>1. \A i, j \in Job :
        Running(i)' /\ Running(j)' /\ snap'[i].post = snap'[j].post => i = j
  BY DEF OneHolder, NothingTaken, Running
<1>2. \A j \in Job, w \in Worker : \A s \in claimed'[w] :
        Running(j)' => snap'[j].post # s.post
  BY DEF OneHolder, NothingTaken, Running
<1>3. \A v, w \in Worker : \A s \in claimed'[v], t \in claimed'[w] :
        s.post = t.post => v = w /\ s = t
  BY DEF OneHolder, NothingTaken
<1>4. \A p \in Post : InHand(p)' => InHand(p)
  BY DEF InHand, Posts, NothingTaken, Running
<1> QED
  BY <1>1, <1>2, <1>3, <1>4 DEF OneHolder

(* No new retry request is between its read and its write. *)
NoNewRetry ==
  \A r \in Request :
    request'[r].step = "read" /\ request'[r].kind = "retry" => request'[r] = request[r]

LEMMA AnswerIsNoRetry ==
  ASSUME RequestOK, NEW r \in Request, NEW kind, Answer(r, kind)
  PROVE  NoNewRetry /\ request'[r].step # "read" /\ request[r].step = "read"
         /\ request[r].kind = kind
         /\ \A q \in Request : q # r => request'[q] = request[q]
BY DEF RequestOK, NoNewRetry, Answer, NewRequest

(* A step that takes nothing in hand and leaves every claim alone. *)
LEMMA QuietStep ==
  ASSUME TypeOK, Parts, NothingTaken, NoNewRetry, UNCHANGED <<status, claimLeft, beats>>,
         UNCHANGED faults \/ \E k \in FaultKind : Fault(k)
  PROVE  Parts'
<1> USE DEF Parts
<1>1. OneHolder' /\ \A p \in Post : InHand(p)' => InHand(p)
  BY HandsShrink
<1>2. HolderKeepsClaim'
  <2>1. \A w \in Worker : \A s \in claimed'[w] :
          status'[s.post] = "PENDING" => claimLeft'[s.post] = Lease
    BY DEF HolderKeepsClaim, NothingTaken
  <2>2. ASSUME NEW j \in Job, Running(j)', status'[snap'[j].post] = "PENDING"
        PROVE  claimLeft'[snap'[j].post] + Owed(snap[j].post)' >= Lease
    <3>1. Running(j) /\ snap'[j] = snap[j] /\ snap[j].post \in Post
      BY <2>2, JobOnPost DEF NothingTaken, Running, TypeOK
    <3>2. claimLeft[snap[j].post] + Owed(snap[j].post) >= Lease
      BY <2>2, <3>1 DEF HolderKeepsClaim
    <3>3. claimLeft[snap[j].post] \in Nat
      BY <3>1 DEF TypeOK, RowOK
    <3>4. faults["beat"] \in Nat /\ faults'["beat"] \in Nat /\ faults["beat"] <= faults'["beat"]
      BY FaultsCounted DEF TypeOK
    <3> QED
      BY <3>1, <3>2, <3>3, <3>4 DEF Owed
  <2> QED
    BY <2>1, <2>2 DEF HolderKeepsClaim
<1>3. IdleIsFree'
  BY <1>1 DEF IdleIsFree
<1>4. RetryIsFree'
  <2>1. ASSUME NEW r \in Request, request'[r].step = "read", request'[r].kind = "retry"
        PROVE  /\ status'[request'[r].post] \in {"FAILED", "CANCELLED"}
               /\ ~ InHand(request[r].post)'
    <3>1. request'[r] = request[r]
      BY <2>1 DEF NoNewRetry
    <3>2. request[r].post \in Post
      BY <2>1, <3>1 DEF TypeOK, RequestOK
    <3> QED
      BY <1>1, <2>1, <3>1, <3>2 DEF RetryIsFree
  <2>2. ASSUME NEW q \in Request, request'[q].step = "read", request'[q].kind = "retry",
               NEW r \in Request, request'[r].step = "read", request'[r].kind = "retry",
               request'[q].post = request'[r].post
        PROVE  q = r
    BY <2>2 DEF NoNewRetry, RetryIsFree
  <2> QED
    BY <2>1, <2>2 DEF RetryIsFree
<1> QED
  BY <1>1, <1>2, <1>3, <1>4

LEMMA ExclusiveInit == Init => Parts
<1> SUFFICES ASSUME Init PROVE Parts
  OBVIOUS
<1>1. \A j \in Job : ~ Running(j)
  BY DEF Init, Running
<1>2. \A w \in Worker : claimed[w] = {}
  BY DEF Init
<1>3. \A p \in Post : ~ InHand(p)
  BY <1>1, <1>2 DEF InHand, Posts
<1>4. \A r \in Request : request[r].step # "read"
  BY DEF Init, NewRequest
<1>5. OneHolder
  BY <1>1, <1>2 DEF OneHolder
<1>6. HolderKeepsClaim
  BY <1>1, <1>2 DEF HolderKeepsClaim
<1>7. IdleIsFree /\ RetryIsFree
  BY <1>3, <1>4 DEF IdleIsFree, RetryIsFree
<1> QED
  BY <1>5, <1>6, <1>7 DEF Parts

LEMMA ExclusiveInsert ==
  ASSUME TypeOK, Parts, NEW p \in Post, NEW delay, Insert(p, delay)
  PROVE  Parts'
<1> USE DEF Parts
<1>1. NothingTaken /\ UNCHANGED request
  BY DEF Insert, NothingTaken, claiming, jobs
<1>2. OneHolder' /\ \A q \in Post : InHand(q)' => InHand(q)
  BY <1>1, HandsShrink
<1>3. ~ InHand(p)
  BY DEF IdleIsFree, Insert
<1>4. /\ \A q \in Post : q # p => status'[q] = status[q]
      /\ status'[p] = "PENDING"
      /\ UNCHANGED <<claimLeft, beats, claimed, pc, snap, faults>>
  BY DEF Insert, TypeOK, RowOK, claiming, jobs
<1>5. HolderKeepsClaim'
  <2>1. \A w \in Worker : \A s \in claimed[w] : s.post \in Post /\ s.post # p
    BY <1>3, SnapshotFacts DEF InHand, Posts, TypeOK, ClaimingOK
  <2>2. \A j \in Job : Running(j) => snap[j].post \in Post /\ snap[j].post # p
    BY <1>3, JobOnPost DEF InHand, Running, TypeOK
  <2> QED
    BY <1>4, <2>1, <2>2 DEF Parts, HolderKeepsClaim, Running, Owed
<1>6. IdleIsFree'
  BY <1>2, <1>4 DEF IdleIsFree
<1>7. RetryIsFree'
  <2>1. \A r \in Request :
          request[r].step = "read" /\ request[r].kind = "retry" =>
            request[r].post \in Post /\ request[r].post # p
    BY DEF RetryIsFree, Insert, TypeOK, RequestOK
  <2> QED
    BY <1>1, <1>2, <1>4, <2>1 DEF RetryIsFree
<1> QED
  BY <1>2, <1>5, <1>6, <1>7

(* What is in hand is an existing post. *)
LEMMA HandTyped ==
  ASSUME TypeOK
  PROVE  /\ \A w \in Worker : \A s \in claimed[w] : s.post \in Post /\ InHand(s.post)
         /\ \A j \in Job : Running(j) => snap[j].post \in Post /\ InHand(snap[j].post)
<1>1. \A w \in Worker : \A s \in claimed[w] : s.post \in Post
  BY SnapshotFacts DEF TypeOK, ClaimingOK
<1>2. \A j \in Job : Running(j) => snap[j].post \in Post
  BY JobOnPost DEF TypeOK, Running
<1> QED
  BY <1>1, <1>2 DEF InHand, Posts

LEMMA ExclusiveClaim ==
  ASSUME TypeOK, Parts, ClaimsAreSafe, NEW w \in Worker, NEW s \in due[w], ClaimPost(w, s)
  PROVE  Parts'
<1> DEFINE p == s.post
<1>p. p \in Post
  BY SnapshotFacts DEF TypeOK, ClaimingOK
<1>1. CASE ~ Claimable(p)
  <2>1. NothingTaken /\ NoNewRetry /\ UNCHANGED <<status, claimLeft, beats, faults>>
    BY <1>1 DEF ClaimPost, NothingTaken, NoNewRetry, jobs
  <2> QED
    BY <2>1, QuietStep
<1>2. CASE Claimable(p)
  <2>1. /\ \A v \in Worker : v # w => claimed'[v] = claimed[v]
        /\ claimed'[w] = claimed[w] \cup {s}
        /\ claimLeft' = [claimLeft EXCEPT ![p] = Lease]
        /\ UNCHANGED <<status, pc, snap, beats, request, faults>>
    BY <1>2 DEF ClaimPost, TypeOK, ClaimingOK, jobs
  <2>2. ~ InHand(p)
    BY <1>p, <1>2, HeldIsClaimed DEF Claimable
  <2>3. \A q : InHand(q)' => InHand(q) \/ q = p
    BY <2>1 DEF InHand, Posts, Running
  <2>4. OneHolder'
    <3>1. \A j \in Job : Running(j) => snap[j].post # p
      BY <2>2 DEF InHand
    <3>2. \A v \in Worker : \A t \in claimed[v] : t.post # p
      BY <2>2 DEF InHand, Posts
    <3>3. \A v \in Worker : \A t \in claimed'[v] : t \in claimed[v] \/ (v = w /\ t = s)
      BY <2>1
    <3> HIDE DEF p
    <3>4. \A i, j \in Job :
            Running(i)' /\ Running(j)' /\ snap'[i].post = snap'[j].post => i = j
      BY <2>1 DEF Parts, OneHolder, Running
    <3>5. \A j \in Job, v \in Worker : \A t \in claimed'[v] :
            Running(j)' => snap'[j].post # t.post
      BY <2>1, <3>1, <3>3 DEF p, Parts, OneHolder, Running
    <3>6. \A u, v \in Worker : \A a \in claimed'[u], b \in claimed'[v] :
            a.post = b.post => u = v /\ a = b
      BY <3>2, <3>3 DEF p, Parts, OneHolder
    <3> QED
      BY <3>4, <3>5, <3>6 DEF OneHolder
  <2>5. HolderKeepsClaim'
    <3>0. claimLeft \in [Post -> 0..Lease]
      BY DEF TypeOK, RowOK
    <3>1. \A v \in Worker : \A t \in claimed'[v] :
            status'[t.post] = "PENDING" => claimLeft'[t.post] = Lease
      <4> SUFFICES ASSUME NEW v \in Worker, NEW t \in claimed'[v], status'[t.post] = "PENDING"
                   PROVE  claimLeft'[t.post] = Lease
        OBVIOUS
      <4>0. status[t.post] = "PENDING"
        BY <2>1
      <4>1. CASE t = s
        BY <1>p, <2>1, <3>0, <4>1
      <4>2. CASE t # s
        <5>1. t \in claimed[v] /\ t.post \in Post /\ t.post # p
          BY <2>1, <2>2, <4>2, HandTyped
        <5> QED
          BY <2>1, <3>0, <4>0, <5>1 DEF Parts, HolderKeepsClaim
      <4> QED
        BY <4>1, <4>2
    <3>2. \A j \in Job : Running(j) => snap[j].post \in Post /\ snap[j].post # p
      BY <2>2, HandTyped
    <3>3. \A j \in Job : Running(j) =>
            claimLeft'[snap[j].post] = claimLeft[snap[j].post]
      BY <2>1, <3>0, <3>2
    <3> QED
      BY <2>1, <3>1, <3>3 DEF Parts, HolderKeepsClaim, Running, Owed
  <2>6. IdleIsFree'
    BY <1>2, <2>1, <2>3 DEF Parts, IdleIsFree, Claimable
  <2>7. RetryIsFree'
    BY <1>2, <2>1, <2>3 DEF Parts, RetryIsFree, Claimable
  <2> QED
    BY <2>4, <2>5, <2>6, <2>7 DEF Parts
<1> QED
  BY <1>1, <1>2

LEMMA ExclusiveLaunch ==
  ASSUME TypeOK, Parts, NEW w \in Worker, Launch(w)
  PROVE  Parts'
<1>1. PICK slotOf \in [claimed[w] -> FreeSlots(w)] :
        /\ \A s, t \in claimed[w] : slotOf[s] = slotOf[t] => s = t
        /\ pc' \in [Job -> {"idle", "resume"} \cup Beating]
        /\ DOMAIN snap' = Job
        /\ \A j \in Job :
             \/ pc'[j] = pc[j] /\ snap'[j] = snap[j]
             \/ \E s \in claimed[w] :
                  /\ j = <<w, slotOf[s]>>
                  /\ snap'[j] = s
                  /\ pc'[j] = FirstStep(s)
  BY LaunchedJobs
<1> DEFINE Kept(j) == pc'[j] = pc[j] /\ snap'[j] = snap[j]
           Started(j, s) == j = <<w, slotOf[s]>> /\ snap'[j] = s
<1>2. \A j \in Job : Kept(j) \/ \E s \in claimed[w] : Started(j, s)
  BY <1>1
<1>3. /\ \A v \in Worker : v # w => claimed'[v] = claimed[v]
      /\ claimed'[w] = {}
      /\ UNCHANGED <<status, claimLeft, beats, request, faults>>
  BY DEF Launch, EndPhase, TypeOK, ClaimingOK, row
<1>4. \A v \in Worker : claimed'[v] \subseteq claimed[v]
  BY <1>3
<1>5. \A i, j \in Job, s \in claimed[w] : Started(i, s) /\ Started(j, s) => i = j
  OBVIOUS
<1> HIDE DEF Started
<1>6. \A j \in Job, s \in claimed[w] : Started(j, s) => snap'[j] = s
  BY DEF Started
<1>7. OneHolder'
  <2>1. ASSUME NEW i \in Job, NEW j \in Job, Running(i)', Running(j)',
               snap'[i].post = snap'[j].post
        PROVE  i = j
    <3>1. CASE Kept(i) /\ Kept(j)
      BY <2>1, <3>1 DEF Parts, OneHolder, Running
    <3>2. CASE Kept(i) /\ \E s \in claimed[w] : Started(j, s)
      BY <1>6, <2>1, <3>2 DEF Parts, OneHolder, Running
    <3>3. CASE Kept(j) /\ \E s \in claimed[w] : Started(i, s)
      BY <1>6, <2>1, <3>3 DEF Parts, OneHolder, Running
    <3>4. ASSUME NEW s \in claimed[w], Started(i, s), NEW t \in claimed[w], Started(j, t)
          PROVE  i = j
      <4>1. s = t
        BY <1>6, <2>1, <3>4 DEF Parts, OneHolder
      <4> QED
        BY <1>5, <3>4, <4>1
    <3> QED
      BY <1>2, <3>1, <3>2, <3>3, <3>4
  <2>2. ASSUME NEW j \in Job, Running(j)', NEW v \in Worker, NEW t \in claimed'[v]
        PROVE  snap'[j].post # t.post
    <3>0. v # w /\ t \in claimed[v]
      BY <1>3, <2>2
    <3>1. CASE Kept(j)
      BY <2>2, <3>0, <3>1 DEF Parts, OneHolder, Running
    <3>2. CASE \E s \in claimed[w] : Started(j, s)
      BY <1>6, <3>0, <3>2 DEF Parts, OneHolder
    <3> QED
      BY <1>2, <3>1, <3>2
  <2>3. \A u, v \in Worker : \A s \in claimed'[u], t \in claimed'[v] :
          s.post = t.post => u = v /\ s = t
    BY <1>4 DEF Parts, OneHolder
  <2> QED
    BY <2>1, <2>2, <2>3 DEF OneHolder
<1>8. \A q : InHand(q)' => InHand(q)
  <2> SUFFICES ASSUME NEW q, InHand(q)' PROVE InHand(q)
    OBVIOUS
  <2>1. CASE \E v \in Worker : q \in Posts(claimed'[v])
    BY <1>4, <2>1 DEF InHand, Posts
  <2>2. ASSUME NEW j \in Job, Running(j)', snap'[j].post = q
        PROVE  InHand(q)
    <3>1. CASE Kept(j)
      BY <2>2, <3>1 DEF InHand, Running
    <3>2. CASE \E s \in claimed[w] : Started(j, s)
      BY <1>6, <2>2, <3>2 DEF InHand, Posts
    <3> QED
      BY <1>2, <3>1, <3>2
  <2> QED
    BY <2>1, <2>2 DEF InHand, Posts
<1>9. HolderKeepsClaim'
  <2>1. \A v \in Worker : \A s \in claimed'[v] :
          status'[s.post] = "PENDING" => claimLeft'[s.post] = Lease
    BY <1>3, <1>4 DEF Parts, HolderKeepsClaim
  <2>2. ASSUME NEW j \in Job, Running(j)', status'[snap'[j].post] = "PENDING"
        PROVE  claimLeft'[snap'[j].post] + Owed(snap[j].post)' >= Lease
    <3>1. CASE Kept(j)
      BY <1>3, <2>2, <3>1 DEF Parts, HolderKeepsClaim, Running, Owed
    <3>2. CASE \E s \in claimed[w] : Started(j, s)
      <4>1. claimLeft'[snap'[j].post] = Lease
        BY <1>3, <1>6, <2>2, <3>2 DEF Parts, HolderKeepsClaim
      <4>2. faults'["beat"] \in Nat
        BY <1>3 DEF TypeOK, HistoryOK, FaultKind
      <4> QED
        BY <4>1, <4>2 DEF Owed
    <3> QED
      BY <1>2, <3>1, <3>2
  <2> QED
    BY <2>1, <2>2 DEF HolderKeepsClaim
<1>10. IdleIsFree'
  BY <1>3, <1>8 DEF Parts, IdleIsFree
<1>11. RetryIsFree'
  BY <1>3, <1>8 DEF Parts, RetryIsFree
<1> QED
  BY <1>7, <1>9, <1>10, <1>11 DEF Parts

(* A running job ends, writing the row of its own post at most: the post is  *)
(* nobody's afterwards.                                                      *)
LEMMA ExclusiveEnd ==
  ASSUME TypeOK, Parts, NEW j \in Job, Running(j), EndJob(j),
         UNCHANGED <<claimed, beats, request, faults>>,
         \A q \in Post : q # snap[j].post =>
           status'[q] = status[q] /\ claimLeft'[q] = claimLeft[q]
  PROVE  Parts'
<1> DEFINE p == snap[j].post
<1>p. p \in Post /\ InHand(p)
  BY HandTyped
<1>1. /\ ~ Running(j)'
      /\ \A i \in Job : i # j => pc'[i] = pc[i] /\ snap'[i] = snap[i]
  BY DEF EndJob, Running, TypeOK, JobsOK
<1>2. NothingTaken
  BY <1>1 DEF NothingTaken, Running
<1>3. OneHolder' /\ \A q \in Post : InHand(q)' => InHand(q)
  BY <1>2, HandsShrink DEF Parts
<1>4. \A i \in Job : Running(i)' => snap'[i].post # p
  BY <1>1 DEF Parts, OneHolder, Running
<1>5. \A q \in Post : InHand(q)' => q # p
  BY <1>4 DEF Parts, OneHolder, InHand, Posts
<1>6. HolderKeepsClaim'
  <2>1. ASSUME NEW w \in Worker, NEW s \in claimed'[w], status'[s.post] = "PENDING"
        PROVE  claimLeft'[s.post] = Lease
    <3>1. s \in claimed[w] /\ s.post \in Post /\ s.post # p
      BY HandTyped DEF Parts, OneHolder
    <3> QED
      BY <2>1, <3>1 DEF Parts, HolderKeepsClaim
  <2>2. ASSUME NEW i \in Job, Running(i)', status'[snap'[i].post] = "PENDING"
        PROVE  claimLeft'[snap'[i].post] + Owed(snap[i].post)' >= Lease
    <3>1. Running(i) /\ snap'[i] = snap[i] /\ i # j
      BY <1>1, <2>2 DEF Running
    <3>2. snap[i].post \in Post /\ snap[i].post # p
      BY <3>1, HandTyped DEF Parts, OneHolder
    <3> QED
      BY <2>2, <3>1, <3>2 DEF Parts, HolderKeepsClaim, Owed
  <2> QED
    BY <2>1, <2>2 DEF HolderKeepsClaim
<1>7. IdleIsFree'
  BY <1>3, <1>5 DEF Parts, IdleIsFree
<1>8. RetryIsFree'
  <2>1. \A r \in Request : request[r].step = "read" /\ request[r].kind = "retry" =>
          request[r].post \in Post /\ request[r].post # p
    BY <1>p DEF Parts, RetryIsFree, TypeOK, RequestOK
  <2> QED
    BY <1>3, <2>1 DEF Parts, RetryIsFree
<1> QED
  BY <1>3, <1>6, <1>7, <1>8 DEF Parts

LEMMA ExclusiveJob ==
  ASSUME TypeOK, Parts, NEW j \in Job, JobStep(j)
  PROVE  Parts'
<1> DEFINE p == snap[j].post
<1>0. Running(j)
  BY DEF JobStep, Resume, PublishSucceeds, PublishFails, SaveResult, Complete, Settle, Running
<1>1. CASE PublishSucceeds(j) \/ PublishFails(j) \/ SaveResult(j)
  <2>1. /\ \E step : Goto(j, step)
        /\ UNCHANGED <<status, claimLeft, beats, request, claimed, faults>>
    BY <1>1 DEF PublishSucceeds, PublishFails, SaveResult, row, claiming
  <2>2. NothingTaken /\ NoNewRetry
    BY <1>0, <2>1 DEF NothingTaken, NoNewRetry, Goto, Running, TypeOK, JobsOK
  <2> QED
    BY <2>1, <2>2, QuietStep
<1>2. CASE Resume(j) \/ Complete(j) \/ Settle(j)
  <2>1. EndJob(j) /\ UNCHANGED <<claimed, beats, request, faults>>
    BY <1>2 DEF Resume, Complete, Settle, claiming
  <2>2. /\ status' = status \/ \E v : status' = [status EXCEPT ![p] = v]
        /\ claimLeft' = claimLeft \/ \E v : claimLeft' = [claimLeft EXCEPT ![p] = v]
    <3>1. CASE Resume(j)
      BY <3>1 DEF Resume
    <3>2. CASE Complete(j)
      BY <3>2 DEF Complete
    <3>3. CASE Settle(j)
      BY <3>3 DEF Settle
    <3> QED
      BY <1>2, <3>1, <3>2, <3>3
  <2>3. \A q \in Post : q # p => status'[q] = status[q] /\ claimLeft'[q] = claimLeft[q]
    BY <2>2 DEF TypeOK, RowOK
  <2> QED
    BY <1>0, <2>1, <2>3, ExclusiveEnd
<1> QED
  BY <1>1, <1>2 DEF JobStep

LEMMA ExclusiveFault ==
  ASSUME TypeOK, Parts, FaultStep
  PROVE  Parts'
<1>1. CASE \E p \in Post : BeatLost(p)
  <2>1. PICK p \in Post : BeatLost(p)
    BY <1>1
  <2>2. /\ NothingTaken
        /\ UNCHANGED <<status, claimLeft, claimed, pc, snap, request>>
    BY <2>1 DEF BeatLost, NothingTaken, row, claiming, jobs
  <2>3. OneHolder' /\ \A q \in Post : InHand(q)' => InHand(q)
    BY <2>2, HandsShrink DEF Parts
  <2>4. faults["beat"] \in Nat /\ faults'["beat"] = faults["beat"] + 1
    BY <2>1 DEF BeatLost, Fault, TypeOK, HistoryOK, FaultKind
  <2>5. HolderKeepsClaim'
    <3>1. ASSUME NEW j \in Job, Running(j), status[snap[j].post] = "PENDING"
          PROVE  claimLeft'[snap'[j].post] + Owed(snap[j].post)' >= Lease
      <4>0. snap[j].post \in Post
        BY <3>1, HandTyped
      <4>1. claimLeft[snap[j].post] \in Nat
        BY <4>0 DEF TypeOK, RowOK
      <4>2. claimLeft[snap[j].post] + Owed(snap[j].post) >= Lease
        BY <3>1 DEF Parts, HolderKeepsClaim
      <4>3. Owed(snap[j].post)' >= Owed(snap[j].post) /\ Owed(snap[j].post) \in Nat
            /\ Owed(snap[j].post)' \in Nat
        BY <2>1, <2>2, <2>4 DEF BeatLost, Owed
      <4> QED
        BY <2>2, <4>1, <4>2, <4>3
    <3> QED
      BY <2>2, <3>1 DEF Parts, HolderKeepsClaim, Running
  <2>6. IdleIsFree' /\ RetryIsFree'
    <3>1. \A r \in Request : request[r].step = "read" => request[r].post \in Post
      BY DEF TypeOK, RequestOK
    <3> QED
      BY <2>2, <2>3, <3>1 DEF Parts, IdleIsFree, RetryIsFree
  <2> QED
    BY <2>3, <2>5, <2>6 DEF Parts
<1>2. CASE \E w \in Worker : ClaimError(w)
  <2>1. PICK w \in Worker : ClaimError(w)
    BY <1>2
  <2>2. /\ NothingTaken /\ NoNewRetry /\ UNCHANGED <<status, claimLeft, beats>>
        /\ \E k \in FaultKind : Fault(k)
    BY <2>1 DEF ClaimError, FaultKind, EndPhase, NothingTaken, NoNewRetry, row, jobs, TypeOK, ClaimingOK
  <2> QED
    BY <2>2, QuietStep
<1>3. CASE \E w \in Worker : Crash(w)
  <2>1. PICK w \in Worker : Crash(w)
    BY <1>3
  <2>2. /\ NothingTaken /\ NoNewRetry /\ UNCHANGED <<status, claimLeft, beats>>
        /\ \E k \in FaultKind : Fault(k)
    BY <2>1 DEF Crash, FaultKind, EndPhase, NothingTaken, NoNewRetry, row, TypeOK, ClaimingOK
  <2> QED
    BY <2>2, QuietStep
<1>4. CASE \E j \in Job : AnswerLost(j) \/ SaveError(j) \/ CompleteError(j)
  <2>1. PICK j \in Job : AnswerLost(j) \/ SaveError(j) \/ CompleteError(j)
    BY <1>4
  <2>2. /\ NothingTaken /\ NoNewRetry /\ UNCHANGED <<status, claimLeft, beats>>
        /\ \E k \in FaultKind : Fault(k)
    BY <2>1 DEF AnswerLost, FaultKind, SaveError, CompleteError, Goto, NothingTaken, NoNewRetry,
                row, claiming, TypeOK, JobsOK
  <2> QED
    BY <2>2, QuietStep
<1>5. CASE \E j \in Job : SettleError(j)
  <2>1. PICK j \in Job : SettleError(j)
    BY <1>5
  <2>2. /\ NothingTaken /\ NoNewRetry /\ UNCHANGED <<status, claimLeft, beats>>
        /\ \E k \in FaultKind : Fault(k)
    BY <2>1 DEF SettleError, FaultKind, EndJob, NothingTaken, NoNewRetry, row, claiming, TypeOK, JobsOK
  <2> QED
    BY <2>2, QuietStep
<1> QED
  BY <1>1, <1>2, <1>3, <1>4, <1>5 DEF FaultStep

LEMMA ExclusiveRequest ==
  ASSUME TypeOK, Parts, NEW r \in Request, RequestStep(r)
  PROVE  Parts'
<1> DEFINE p == request[r].post
<1>1. NothingTaken /\ UNCHANGED <<claimed, pc, snap, beats, faults>>
  BY DEF RequestStep, Cancel, Update, Retry, NothingTaken, jobs, claiming
<1>2. \E kind : Answer(r, kind)
  BY DEF RequestStep, Cancel, Update, Retry
<1>3. NoNewRetry /\ request'[r].step # "read" /\ request[r].step = "read"
      /\ \A q \in Request : q # r => request'[q] = request[q]
  BY <1>2, AnswerIsNoRetry DEF TypeOK
<1>4. p \in Post
  BY <1>3 DEF TypeOK, RequestOK
<1>5. OneHolder' /\ \A q \in Post : InHand(q)' => InHand(q)
  BY <1>1, HandsShrink DEF Parts
<1>6. CASE Update(r)
  <2>1. UNCHANGED <<status, claimLeft, beats, faults>>
    BY <1>6 DEF Update
  <2> QED
    BY <1>1, <1>3, <2>1, QuietStep
<1>7. CASE Cancel(r)
  <2>1. /\ status'[p] = "CANCELLED"
        /\ \A q \in Post : q # p => status'[q] = status[q]
        /\ UNCHANGED claimLeft
    BY <1>4, <1>7 DEF Cancel, TypeOK, RowOK
  <2>2. HolderKeepsClaim'
    BY <1>1, <2>1, HandTyped DEF Parts, HolderKeepsClaim, Running, Owed
  <2>3. IdleIsFree'
    BY <1>5, <2>1 DEF Parts, IdleIsFree
  <2>4. RetryIsFree'
    <3>1. \A q \in Request : request'[q].step = "read" /\ request'[q].kind = "retry" =>
            /\ request'[q] = request[q]
            /\ request[q].post \in Post
      BY <1>3 DEF NoNewRetry, TypeOK, RequestOK
    <3>2. ASSUME NEW q \in Request, request'[q].step = "read", request'[q].kind = "retry"
          PROVE  (status[request[q].post] \in {"FAILED", "CANCELLED"} /\ ~ InHand(request[q].post))'
      <4>1. PICK o \in Post : o = request[q].post
        BY <3>1, <3>2
      <4>2. request'[q] = request[q]
        BY <3>1, <3>2
      <4>3. status[o] \in {"FAILED", "CANCELLED"} /\ ~ InHand(o)
        BY <3>2, <4>1, <4>2 DEF Parts, RetryIsFree
      <4>4. status'[o] \in {"FAILED", "CANCELLED"} /\ ~ InHand(o)'
        BY <1>5, <2>1, <4>3
      <4> QED
        BY <4>1, <4>2, <4>4
    <3>3. ASSUME NEW q \in Request, NEW o \in Request,
                 request'[q].step = "read", request'[q].kind = "retry",
                 request'[o].step = "read", request'[o].kind = "retry",
                 request'[q].post = request'[o].post
          PROVE  q = o
      BY <3>1, <3>3 DEF Parts, RetryIsFree
    <3> QED
      BY <3>2, <3>3 DEF RetryIsFree
  <2> QED
    BY <1>5, <2>2, <2>3, <2>4 DEF Parts
<1>8. CASE Retry(r)
  <2>1. /\ status'[p] = "PENDING"
        /\ \A q \in Post : q # p => status'[q] = status[q] /\ claimLeft'[q] = claimLeft[q]
    BY <1>4, <1>8 DEF Retry, TypeOK, RowOK
  <2>2. request[r].kind = "retry"
    BY <1>8 DEF Retry, Answer
  <2>3. ~ InHand(p)
    BY <1>3, <2>2 DEF Parts, RetryIsFree
  <2>4. HolderKeepsClaim'
    <3>1. \A w \in Worker : \A s \in claimed[w] : s.post \in Post /\ s.post # p
      BY <2>3, HandTyped
    <3>2. \A j \in Job : Running(j) => snap[j].post \in Post /\ snap[j].post # p
      BY <2>3, HandTyped
    <3> QED
      BY <1>1, <2>1, <3>1, <3>2 DEF Parts, HolderKeepsClaim, Running, Owed
  <2>5. IdleIsFree'
    BY <1>5, <2>1 DEF Parts, IdleIsFree
  <2>6. RetryIsFree'
    <3>1. \A q \in Request : request'[q].step = "read" /\ request'[q].kind = "retry" =>
            /\ request'[q] = request[q]
            /\ request[q].post \in Post
            /\ q # r
      BY <1>3 DEF NoNewRetry, TypeOK, RequestOK
    <3>2. \A q \in Request : request'[q].step = "read" /\ request'[q].kind = "retry" =>
            request[q].post # p
      BY <1>3, <2>2, <3>1 DEF Parts, RetryIsFree
    <3>3. ASSUME NEW q \in Request, request'[q].step = "read", request'[q].kind = "retry"
          PROVE  /\ status'[request'[q].post] \in {"FAILED", "CANCELLED"}
                 /\ ~ InHand(request[q].post)'
      <4>1. /\ request[q].step = "read" /\ request[q].kind = "retry"
            /\ request'[q].post = request[q].post
            /\ request[q].post \in Post /\ request[q].post # p
        BY <3>1, <3>2, <3>3
      <4>2. status[request[q].post] \in {"FAILED", "CANCELLED"} /\ ~ InHand(request[q].post)
        BY <4>1 DEF Parts, RetryIsFree
      <4>3. PICK z \in Post : z = request[q].post
        BY <4>1
      <4>4. ~ InHand(z)'
        BY <1>5, <4>2, <4>3
      <4>5. request'[q].post = z
        BY <4>1, <4>3
      <4>6. InHand(request[q].post)' <=> InHand(z)'
        BY <4>5 DEF InHand
      <4> QED
        BY <2>1, <4>1, <4>2, <4>3, <4>4, <4>5, <4>6
    <3>4. ASSUME NEW q \in Request, NEW z \in Request,
                 request'[q].step = "read", request'[q].kind = "retry",
                 request'[z].step = "read", request'[z].kind = "retry",
                 request'[q].post = request'[z].post
          PROVE  q = z
      BY <3>1, <3>4 DEF Parts, RetryIsFree
    <3> QED
      BY <3>3, <3>4 DEF RetryIsFree
  <2> QED
    BY <1>5, <2>4, <2>5, <2>6 DEF Parts
<1> QED
  BY <1>6, <1>7, <1>8 DEF RequestStep

LEMMA ExclusiveRead ==
  ASSUME TypeOK, Parts, ClaimsAreSafe,
         NEW r \in Request, NEW kind \in RequestKind, NEW p \in Post, ReadPost(r, kind, p)
  PROVE  Parts'
<1>1. NothingTaken /\ UNCHANGED <<status, claimLeft, beats, claimed, pc, snap, faults>>
  BY DEF ReadPost, NothingTaken, row, claiming, jobs
<1>2. /\ request'[r] = [step |-> "read", kind |-> kind, post |-> p]
      /\ \A q \in Request : q # r => request'[q] = request[q]
  BY DEF ReadPost, TypeOK, RequestOK
<1>3. CASE kind # "retry"
  <2>1. NoNewRetry
    BY <1>2, <1>3 DEF NoNewRetry
  <2> QED
    BY <1>1, <2>1, QuietStep
<1>4. CASE kind = "retry"
  <2>1. status[p] = "FAILED" /\ ~ RetryPending(p)
    BY <1>4 DEF ReadPost, ClaimsAreSafe
  <2>2. ~ InHand(p)
    BY <2>1 DEF Parts, IdleIsFree
  <2>3. OneHolder' /\ \A q \in Post : InHand(q)' => InHand(q)
    BY <1>1, HandsShrink DEF Parts
  <2>4. HolderKeepsClaim'
    BY <1>1 DEF Parts, HolderKeepsClaim, Running, Owed
  <2>5. IdleIsFree'
    BY <1>1, <2>3 DEF Parts, IdleIsFree
  <2>6. RetryIsFree'
    <3>1. \A q \in Request : request[q].step = "read" /\ request[q].kind = "retry" =>
            request[q].post # p
      <4> SUFFICES ASSUME NEW q \in Request, request[q].step = "read",
                          request[q].kind = "retry", request[q].post = p
                   PROVE  FALSE
        OBVIOUS
      <4>1. request[q] = [step |-> "read", kind |-> "retry", post |-> p]
        BY DEF TypeOK, RequestOK
      <4> QED
        BY <2>1, <4>1 DEF RetryPending
    <3>2. \A q \in Request : request'[q].step = "read" /\ request'[q].kind = "retry" =>
            \/ q = r /\ request'[q].post = p
            \/ q # r /\ request'[q] = request[q] /\ request[q].post \in Post
      BY <1>2 DEF TypeOK, RequestOK
    <3>3. ASSUME NEW q \in Request, request'[q].step = "read", request'[q].kind = "retry"
          PROVE  /\ status'[request'[q].post] \in {"FAILED", "CANCELLED"}
                 /\ ~ InHand(request[q].post)'
      <4>1. \A a \in Post : ~ InHand(a) => ~ InHand(a)'
        BY <2>3
      <4>2. request'[q].post \in Post /\ ~ InHand(request'[q].post)
        BY <2>2, <3>2, <3>3 DEF Parts, RetryIsFree
      <4>3. \A a \in Post : request'[q].post = a /\ ~ InHand(a)' => ~ InHand(request[q].post)'
        OBVIOUS
      <4>4. status'[request'[q].post] \in {"FAILED", "CANCELLED"}
        BY <1>1, <2>1, <3>2, <3>3 DEF Parts, RetryIsFree
      <4> QED
        BY <4>1, <4>2, <4>3, <4>4
    <3>4. ASSUME NEW a \in Request, request'[a].step = "read", request'[a].kind = "retry",
                 NEW b \in Request, request'[b].step = "read", request'[b].kind = "retry",
                 request'[a].post = request'[b].post
          PROVE  a = b
      BY <3>1, <3>2, <3>4 DEF Parts, RetryIsFree
    <3> QED
      BY <3>3, <3>4 DEF RetryIsFree
  <2> QED
    BY <2>3, <2>4, <2>5, <2>6 DEF Parts
<1> QED
  BY <1>3, <1>4

(* A heartbeat that lands gives its post the whole lease; a tick takes one   *)
(* interval of it and sends the heartbeat that will give it back.            *)
LEMMA ExclusiveTime ==
  ASSUME TypeOK, Parts, Tick \/ \E p \in Post : BeatLands(p)
  PROVE  Parts'
<1>1. NothingTaken /\ UNCHANGED <<status, claimed, pc, snap, request, faults>>
  BY DEF Tick, BeatLands, NothingTaken, claiming, jobs
<1>2. OneHolder' /\ \A q \in Post : InHand(q)' => InHand(q)
  BY <1>1, HandsShrink DEF Parts
<1>3. IdleIsFree'
  BY <1>1, <1>2 DEF Parts, IdleIsFree
<1>4. RetryIsFree'
  <2>1. \A r \in Request : request[r].step = "read" => request[r].post \in Post
    BY DEF TypeOK, RequestOK
  <2> QED
    BY <1>1, <1>2, <2>1 DEF Parts, RetryIsFree
<1>5. CASE Tick
  <2>1. \A w \in Worker : claimed'[w] = {}
    BY <1>1, <1>5 DEF Tick, TypeOK, ClaimingOK
  <2>2. \A j \in Job : Running(j) => pc[j] \in Beating
    BY <1>5 DEF Tick, Running, Beating
  <2>3. \A j \in Job : Running(j) => snap[j].post \in Post /\ snap[j].post \in beats'
    BY <1>5, <2>2, HandTyped DEF Tick, JobsOf, Running
  <2>4. ASSUME NEW j \in Job, Running(j), status[snap[j].post] = "PENDING"
        PROVE  claimLeft'[snap[j].post] + Owed(snap[j].post)' >= Lease
    <3>0. snap[j].post \in Post
      BY <2>4, HandTyped
    <3>1. snap[j].post \in Post /\ claimLeft[snap[j].post] \in Nat
      BY <3>0 DEF TypeOK, RowOK
    <3>2. /\ claimLeft'[snap[j].post] \in Nat
          /\ claimLeft'[snap[j].post] + 1 >= claimLeft[snap[j].post]
      BY <1>5, <3>1 DEF Tick, Pred
    <3>3. faults["beat"] \in Nat
      BY DEF TypeOK, HistoryOK, FaultKind
    <3>4. claimLeft[snap[j].post] + Owed(snap[j].post) >= Lease
      BY <2>4 DEF Parts, HolderKeepsClaim
    <3>5. Owed(snap[j].post) = faults["beat"]
      BY <1>5, <3>3 DEF Tick, Owed
    <3>6. Owed(snap[j].post)' = faults["beat"] + 1
      BY <1>1, <2>3, <2>4, <3>3 DEF Owed
    <3>7. claimLeft[snap[j].post] + faults["beat"] >= Lease
      BY <3>4, <3>5
    <3>8. \A a, b, c \in Nat : a + 1 >= b /\ b + c >= Lease => a + (c + 1) >= Lease
      BY ConstantsAssumption
    <3>9. claimLeft'[snap[j].post] + (faults["beat"] + 1) >= Lease
      BY <3>8, <3>1, <3>2, <3>3, <3>7
    <3> QED
      BY <3>6, <3>9
  <2>5. HolderKeepsClaim'
    BY <1>1, <2>1, <2>4 DEF HolderKeepsClaim, Running, Owed
  <2> QED
    BY <1>2, <1>3, <1>4, <2>5 DEF Parts
<1>6. CASE \E p \in Post : BeatLands(p)
  <2>1. PICK p \in Post : BeatLands(p)
    BY <1>6
  <2>2. /\ beats' = beats \ {p}
        /\ status[p] = "PENDING" => claimLeft'[p] = Lease
        /\ \A q \in Post : q # p => claimLeft'[q] = claimLeft[q]
    BY <2>1 DEF BeatLands, TypeOK, RowOK
  <2>3. HolderKeepsClaim'
    <3>1. \A w \in Worker : \A s \in claimed[w] :
            status[s.post] = "PENDING" => claimLeft'[s.post] = Lease
      BY <2>2, HandTyped DEF Parts, HolderKeepsClaim
    <3>2. ASSUME NEW j \in Job, Running(j), status[snap[j].post] = "PENDING"
          PROVE  claimLeft'[snap[j].post] + Owed(snap[j].post)' >= Lease
      <4>1. faults'["beat"] = faults["beat"] /\ faults["beat"] \in Nat
        BY <1>1 DEF TypeOK, HistoryOK, FaultKind
      <4>2. CASE snap[j].post = p
        BY <1>1, <2>2, <3>2, <4>1, <4>2 DEF Owed
      <4>3. CASE snap[j].post # p
        BY <1>1, <2>2, <3>2, <4>1, <4>3, HandTyped DEF Parts, HolderKeepsClaim, Owed
      <4> QED
        BY <4>2, <4>3
    <3> QED
      BY <1>1, <3>1, <3>2 DEF HolderKeepsClaim, Running, Owed
  <2> QED
    BY <1>2, <1>3, <1>4, <2>3 DEF Parts
<1> QED
  BY <1>5, <1>6

LEMMA ExclusiveClaimPhase ==
  ASSUME TypeOK, Parts, ClaimsAreSafe, NEW w \in Worker, WorkerStep(w)
  PROVE  Parts'
<1>1. CASE Launch(w) \/ \E s \in due[w] : ClaimPost(w, s)
  BY <1>1, ExclusiveClaim, ExclusiveLaunch
<1>2. CASE CountByPlatform(w) \/ CountByAccount(w) \/ FindDue(w) \/ Reconnect(w)
  <2>1. UNCHANGED jobs /\ (UNCHANGED claimed \/ EndPhase(w))
    BY <1>2 DEF CountByPlatform, CountByAccount, FindDue, Reconnect
  <2>3. NothingTaken
    BY <2>1 DEF EndPhase, NothingTaken, jobs, TypeOK, ClaimingOK
  <2>2. NoNewRetry /\ UNCHANGED <<status, claimLeft, beats, faults>>
    BY <1>2 DEF CountByPlatform, CountByAccount, FindDue, Reconnect, NoNewRetry, row
  <2> QED
    BY <2>2, <2>3, QuietStep
<1> QED
  BY <1>1, <1>2 DEF WorkerStep

LEMMA FaultsGrow ==
  ASSUME [Next]_vars
  PROVE  UNCHANGED faults \/ \E k \in FaultKind : Fault(k)
<1>1. CASE UNCHANGED vars
  BY <1>1 DEF vars
<1>2. CASE FaultStep
  BY <1>2 DEF FaultStep, ClaimError, Crash, AnswerLost, SaveError, CompleteError,
              SettleError, BeatLost, FaultKind
<1>3. CASE \E w \in Worker : WorkerStep(w)
  BY <1>3 DEF WorkerStep, CountByPlatform, CountByAccount, FindDue, ClaimPost, Launch, Reconnect
<1>4. CASE \E j \in Job : JobStep(j)
  BY <1>4 DEF JobStep, Resume, PublishSucceeds, PublishFails, SaveResult, Complete, Settle
<1>5. CASE \E r \in Request : RequestStep(r)
  BY <1>5 DEF RequestStep, Cancel, Update, Retry
<1>6. CASE \/ \E p \in Post : Create(p) \/ Enqueue(p)
           \/ \E r \in Request, kind \in RequestKind, p \in Post : ReadPost(r, kind, p)
           \/ \E p \in Post : BeatLands(p)
           \/ Tick
  BY <1>6 DEF Create, Enqueue, Insert, ReadPost, BeatLands, Tick
<1> QED
  BY <1>1, <1>2, <1>3, <1>4, <1>5, <1>6 DEF Next

LEMMA ExclusiveStep == TypeOK /\ ClaimsExclusive /\ [Next]_vars => ClaimsExclusive'
<1> SUFFICES ASSUME TypeOK, ClaimsExclusive, [Next]_vars, ClaimsAreSafe'
             PROVE  Parts'
  BY DEF ClaimsExclusive, Parts
<1>1. ClaimsAreSafe
  BY FaultsGrow, SafeBefore DEF TypeOK
<1>2. Parts
  BY <1>1 DEF ClaimsExclusive, Parts
<1>3. CASE UNCHANGED vars
  <2>1. NothingTaken /\ NoNewRetry /\ UNCHANGED <<status, claimLeft, beats, faults>>
    BY <1>3 DEF vars, row, claiming, jobs, NothingTaken, NoNewRetry
  <2> QED
    BY <1>2, <2>1, QuietStep
<1>4. CASE Next
  BY <1>1, <1>2, <1>4, ExclusiveInsert, ExclusiveClaimPhase, ExclusiveJob, ExclusiveRead,
     ExclusiveRequest, ExclusiveTime, ExclusiveFault
  DEF Next, Create, Enqueue
<1> QED
  BY <1>3, <1>4

(* Claims are exclusive: the inductive invariant holds in every state. *)
THEOREM ExclusiveCorrect == Spec => []ClaimsExclusive
<1>1. Init => ClaimsExclusive
  BY ExclusiveInit DEF ClaimsExclusive, Parts
<1> QED
  BY <1>1, ExclusiveStep, TypeCorrect, PTL DEF Spec

(* However many processes run, no post is executed by two jobs at once. *)
THEOREM OneExecutorCorrect == Spec => []AtMostOneExecutor
<1>1. ClaimsExclusive => AtMostOneExecutor
  BY DEF ClaimsExclusive, OneHolder, Running, AtMostOneExecutor
<1> QED
  BY <1>1, ExclusiveCorrect, PTL

(* However long an upload takes, the claim of its post does not expire. *)
THEOREM ClaimHeldCorrect == Spec => []ClaimHeldWhileAlive
<1>1. TypeOK /\ ClaimsExclusive => ClaimHeldWhileAlive
  <2> SUFFICES ASSUME TypeOK, ClaimsExclusive, ClaimsAreSafe,
                      NEW j \in Job, pc[j] # "idle", status[snap[j].post] = "PENDING"
               PROVE  claimLeft[snap[j].post] > 0
    BY DEF ClaimHeldWhileAlive
  <2>1. snap[j].post \in Post /\ InHand(snap[j].post)
    BY HandTyped DEF Running
  <2> QED
    BY <2>1, HeldIsClaimed DEF ClaimsExclusive, Parts
<1> QED
  BY <1>1, TypeCorrect, ExclusiveCorrect, PTL
=============================================================================
