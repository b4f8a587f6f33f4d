---------------------------- MODULE PublishQueue ----------------------------
(***************************************************************************)
(* The scheduled-publishing worker of the social-publishing module:        *)
(* schedule/schedule.service.ts with queue/queue.service.ts (enqueue).     *)
(*                                                                         *)
(* A row of the table social_posts is a Post.  Every process of the        *)
(* backend (Worker) runs checkAndExecute: it counts the posts in flight,   *)
(* reads the due ones, claims them one conditional UPDATE at a time and    *)
(* runs each claimed one in the background (a Slot of that process) from   *)
(* the copy of the row it read BEFORE claiming it.  A claim is a lease     *)
(* (claimed_until) that a running job renews every minute.  HTTP requests  *)
(* cancel, update and retry posts; each is a read followed by an UPDATE    *)
(* that does not repeat the read's conditions.                             *)
(*                                                                         *)
(* TIME.  One Tick is one HEARTBEAT_INTERVAL.  A timestamp column is kept  *)
(* as the number of ticks left until it passes: 0 stands for null and for  *)
(* any time not in the future, which the code never tells apart.  Only the *)
(* upload to the platform takes longer than a tick: a claim phase, the     *)
(* writes that end a job, the two database steps of a request and a        *)
(* heartbeat query are over (done or failed) before the next one.          *)
(*                                                                         *)
(* A column read by nobody here (error_msg, executed_at, thumb_url ...) is *)
(* left out; message and media_urls are one version number, msg.           *)
(***************************************************************************)
EXTENDS Naturals, FiniteSets

CONSTANTS
  Post,                \* rows of social_posts; all of one findMany page (take: 50)
  NoPost,              \* no row
  AccountOf,           \* account_id of each post
  PlatformOf,          \* platform of each post
  Worker,              \* backend processes
  Slot,                \* execution slots of one process: MAX_HEAVY_JOBS of them
  Request,             \* HTTP requests made to cancel, update or retry a post
  RequestKind,         \* the kinds of request the users make
  MaxRetries,          \* MAX_RETRIES
  Lease,               \* CLAIM_LEASE_MS in heartbeat intervals
  Backoff,             \* retryDelayMs by attempt, in heartbeat intervals
  AccountConcurrency,  \* ACCOUNT_CONCURRENCY
  PlatformConcurrency, \* PLATFORM_CONCURRENCY by platform
  GlobalConcurrency,   \* GLOBAL_CONCURRENCY
  MaxDelay,            \* bound: how far ahead a user schedules a post
  SerialRetry,         \* TRUE: no two retry requests of a post overlap
  MaxFaults            \* bound: how many faults of each kind happen

FaultKind == {"claim", "save", "complete", "settle", "beat", "answer", "crash"}

ASSUME ConstantsAssumption ==
  /\ NoPost \notin Post /\ IsFiniteSet(Post)
  /\ IsFiniteSet(Slot)
  /\ MaxRetries \in Nat \ {0}
  /\ Lease \in Nat /\ Lease >= 2
  /\ Backoff \in [1..MaxRetries -> Nat \ {0}]
  /\ AccountConcurrency \in Nat \ {0}
  /\ \A p \in Post : PlatformConcurrency[PlatformOf[p]] \in Nat \ {0}
  /\ GlobalConcurrency \in Nat \ {0}
  /\ MaxDelay \in Nat
  /\ RequestKind \subseteq {"cancel", "update", "retry"}
  /\ SerialRetry \in BOOLEAN
  /\ MaxFaults \in [FaultKind -> Nat]

Job == Worker \X Slot

\* The definitions named Bad... are mistakes this code could have had; no
\* action uses them.  Each property is shown to fail with one of them.

\* What findMany returns of a row, as far as its execution depends on it.
Snapshot ==
  [post : Post, retryCount : 0..(MaxRetries - 1), result : BOOLEAN, msg : Nat]

NoSnapshot == [post |-> NoPost, retryCount |-> 0, result |-> FALSE, msg |-> 0]

VARIABLES
  \* the columns of social_posts
  status, retryCount, scheduledIn, retryIn, claimLeft, result, msg,
  \* the claim phase of each process
  phase, maxSlots, seenByPlatform, seenByAccount, due, claimed, healthy,
  \* the executions of each process and the heartbeat queries on the wire
  pc, snap, beats,
  \* the HTTP requests
  request,
  \* history: what reached the platform, and what went wrong so far
  published, publishedMsg, attempts, faults

row      == <<status, retryCount, scheduledIn, retryIn, claimLeft, result, msg>>
claiming == <<phase, maxSlots, seenByPlatform, seenByAccount, due, claimed, healthy>>
jobs     == <<pc, snap>>
history  == <<published, publishedMsg, attempts>>
vars     == <<row, claiming, jobs, beats, request, history, faults>>

-----------------------------------------------------------------------------
(* Helpers *)

\* A fault of kind k happens, within the bound.
Fault(k) ==
  /\ faults[k] < MaxFaults[k]
  /\ faults' = [faults EXCEPT ![k] = @ + 1]

InFlight == {p \in Post : status[p] = "PENDING" /\ claimLeft[p] > 0}

BadIsDue(p) == status[p] = "PENDING" /\ scheduledIn[p] = 0 /\ claimLeft[p] = 0

IsDue(p) ==
  /\ status[p] = "PENDING"
  /\ scheduledIn[p] = 0
  /\ retryIn[p] = 0
  /\ claimLeft[p] = 0

\* How many posts of the set P share post p's platform, its account.
OnPlatform(P, p) == Cardinality({q \in P : PlatformOf[q] = PlatformOf[p]})
OnAccount(P, p)  == Cardinality({q \in P : AccountOf[q] = AccountOf[p]})

Posts(S) == {s.post : s \in S}

SnapshotOf(p) ==
  [post |-> p, retryCount |-> retryCount[p], result |-> result[p], msg |-> msg[p]]

FreeSlots(w) == {s \in Slot : pc[<<w, s>>] = "idle"}

BadBeating == {}

\* The steps of a job that has called startClaimHeartbeat.
Beating == {"publish", "save", "complete", "fail", "reject"}

JobsOf(p) == {j \in Job : pc[j] # "idle" /\ snap[j].post = p}

-----------------------------------------------------------------------------
(* Users: create and enqueue *)

Insert(p, delay) ==
  /\ status[p] = "ABSENT"
  /\ status' = [status EXCEPT ![p] = "PENDING"]
  /\ scheduledIn' = [scheduledIn EXCEPT ![p] = delay]
  /\ UNCHANGED <<retryCount, retryIn, claimLeft, result, msg,
                 claiming, jobs, beats, request, history, faults>>

\* A scheduled post has a time in the future; an enqueued one is due at once.
Create(p) == \E delay \in 1..MaxDelay : Insert(p, delay)

Enqueue(p) == Insert(p, 0)

-----------------------------------------------------------------------------
(* A process: checkAndExecute and _claimDuePosts *)

EndPhase(w) ==
  /\ phase' = [phase EXCEPT ![w] = "idle"]
  /\ maxSlots' = [maxSlots EXCEPT ![w] = 0]
  /\ seenByPlatform' = [seenByPlatform EXCEPT ![w] = {}]
  /\ seenByAccount' = [seenByAccount EXCEPT ![w] = {}]
  /\ due' = [due EXCEPT ![w] = {}]
  /\ claimed' = [claimed EXCEPT ![w] = {}]

\* The guards of checkAndExecute and the first query: in flight by platform.
CountByPlatform(w) ==
  /\ phase[w] = "idle"
  /\ healthy[w]
  /\ FreeSlots(w) # {}
  /\ Cardinality(InFlight) < GlobalConcurrency
  /\ phase' = [phase EXCEPT ![w] = "account"]
  /\ maxSlots' = [maxSlots EXCEPT ![w] = Cardinality(FreeSlots(w))]
  /\ seenByPlatform' = [seenByPlatform EXCEPT ![w] = InFlight]
  /\ UNCHANGED <<row, seenByAccount, due, claimed, healthy,
                 jobs, beats, request, history, faults>>

CountByAccount(w) ==
  /\ phase[w] = "account"
  /\ phase' = [phase EXCEPT ![w] = "find"]
  /\ seenByAccount' = [seenByAccount EXCEPT ![w] = InFlight]
  /\ UNCHANGED <<row, maxSlots, seenByPlatform, due, claimed, healthy,
                 jobs, beats, request, history, faults>>

\* The due posts, but for those of the accounts with no room left.
FindDue(w) ==
  /\ phase[w] = "find"
  /\ LET found == {p \in Post :
                     IsDue(p) /\ OnAccount(seenByAccount[w], p) < AccountConcurrency}
     IN  \/ /\ found = {}
            /\ EndPhase(w)
         \/ /\ found # {}
            /\ phase' = [phase EXCEPT ![w] = "claim"]
            /\ due' = [due EXCEPT ![w] = {SnapshotOf(p) : p \in found}]
            /\ UNCHANGED <<maxSlots, seenByPlatform, seenByAccount, claimed>>
  /\ UNCHANGED <<row, healthy, jobs, beats, request, history, faults>>

BadFits(w, p) ==
  /\ Cardinality(claimed[w]) < maxSlots[w]
  /\ OnPlatform(seenByPlatform[w], p) < PlatformConcurrency[PlatformOf[p]]
  /\ OnAccount(seenByAccount[w], p) < AccountConcurrency

\* The caps checked before a post is claimed.  What does not fit now never
\* fits later in this phase, so the loop may be left when nothing fits.
Fits(w, p) ==
  LET mine == Posts(claimed[w]) IN
  /\ Cardinality(claimed[w]) < maxSlots[w]
  /\ Cardinality(seenByPlatform[w]) + Cardinality(claimed[w]) < GlobalConcurrency
  /\ OnPlatform(seenByPlatform[w], p) + OnPlatform(mine, p)
       < PlatformConcurrency[PlatformOf[p]]
  /\ OnAccount(seenByAccount[w], p) + OnAccount(mine, p) < AccountConcurrency

BadClaimable(p) == status[p] = "PENDING"

\* The conditional UPDATE of one post: it looks at status and claim only.
Claimable(p) == status[p] = "PENDING" /\ claimLeft[p] = 0

ClaimPost(w, s) ==
  /\ phase[w] = "claim"
  /\ Fits(w, s.post)
  /\ due' = [due EXCEPT ![w] = @ \ {s}]
  /\ \/ /\ Claimable(s.post)
        /\ claimLeft' = [claimLeft EXCEPT ![s.post] = Lease]
        /\ claimed' = [claimed EXCEPT ![w] = @ \cup {s}]
     \/ /\ ~ Claimable(s.post)
        /\ UNCHANGED <<claimLeft, claimed>>
  /\ UNCHANGED <<status, retryCount, scheduledIn, retryIn, result, msg,
                 phase, maxSlots, seenByPlatform, seenByAccount, healthy,
                 jobs, beats, request, history, faults>>

BadFirstStep(s) == "publish"

\* A claimed post with a result was published by an earlier execution.
FirstStep(s) == IF s.result THEN "resume" ELSE "publish"

\* The phase is over: every claimed post gets a slot and starts executePost.
Launch(w) ==
  /\ phase[w] = "claim"
  /\ \A s \in due[w] : ~ Fits(w, s.post)
  /\ \E slotOf \in [claimed[w] -> FreeSlots(w)] :
       LET given == {<<w, slotOf[s]>> : s \in claimed[w]}
           taken(j) == CHOOSE s \in claimed[w] : slotOf[s] = j[2]
       IN  /\ \A s, t \in claimed[w] : slotOf[s] = slotOf[t] => s = t
           /\ pc' = [j \in Job |-> IF j \in given THEN FirstStep(taken(j)) ELSE pc[j]]
           /\ snap' = [j \in Job |-> IF j \in given THEN taken(j) ELSE snap[j]]
  /\ EndPhase(w)
  /\ UNCHANGED <<row, healthy, beats, request, history, faults>>

\* A query of the phase throws: what it had claimed stays claimed with no
\* job, and on a connection error the process stops claiming for a while.
ClaimError(w) ==
  /\ phase[w] # "idle"
  /\ Fault("claim")
  /\ EndPhase(w)
  /\ \E connectionError \in BOOLEAN :
       healthy' = [healthy EXCEPT ![w] = ~ connectionError]
  /\ UNCHANGED <<row, jobs, beats, request, history>>

BadReconnect(w) == FALSE

Reconnect(w) ==
  /\ ~ healthy[w]
  /\ healthy' = [healthy EXCEPT ![w] = TRUE]
  /\ UNCHANGED <<row, phase, maxSlots, seenByPlatform, seenByAccount, due, claimed,
                 jobs, beats, request, history, faults>>

\* The process dies and starts again with nothing in memory.
Crash(w) ==
  /\ Fault("crash")
  /\ EndPhase(w)
  /\ healthy' = [healthy EXCEPT ![w] = TRUE]
  /\ pc' = [j \in Job |-> IF j[1] = w THEN "idle" ELSE pc[j]]
  /\ snap' = [j \in Job |-> IF j[1] = w THEN NoSnapshot ELSE snap[j]]
  /\ UNCHANGED <<row, beats, request, history>>

-----------------------------------------------------------------------------
(* A job: executePost *)

Goto(j, step) ==
  /\ pc' = [pc EXCEPT ![j] = step]
  /\ UNCHANGED snap

EndJob(j) ==
  /\ pc' = [pc EXCEPT ![j] = "idle"]
  /\ snap' = [snap EXCEPT ![j] = NoSnapshot]

\* The copy of the row already has a result: COMPLETED, whatever its status.
Resume(j) ==
  LET p == snap[j].post IN
  /\ pc[j] = "resume"
  /\ status' = [status EXCEPT ![p] = "COMPLETED"]
  /\ claimLeft' = [claimLeft EXCEPT ![p] = 0]
  /\ EndJob(j)
  /\ UNCHANGED <<retryCount, scheduledIn, retryIn, result, msg,
                 claiming, beats, request, history, faults>>

\* executeScheduled: the platform takes the post as the job's copy has it.
Reaches(p, version) ==
  /\ published' = [published EXCEPT ![p] = @ + 1]
  /\ publishedMsg' = [publishedMsg EXCEPT ![p] = version]

Attempted(p) == attempts' = [attempts EXCEPT ![p] = @ + 1]

BadPublishSucceeds(j) ==
  /\ pc[j] = "publish"
  /\ Goto(j, "complete")
  /\ Attempted(snap[j].post)
  /\ Reaches(snap[j].post, snap[j].msg)
  /\ UNCHANGED <<row, claiming, beats, request, faults>>

PublishSucceeds(j) ==
  /\ pc[j] = "publish"
  /\ Goto(j, "save")
  /\ Attempted(snap[j].post)
  /\ Reaches(snap[j].post, snap[j].msg)
  /\ UNCHANGED <<row, claiming, beats, request, faults>>

\* A transient error ("fail") or a permanent one ("reject").
PublishFails(j) ==
  /\ pc[j] = "publish"
  /\ \E step \in {"fail", "reject"} : Goto(j, step)
  /\ Attempted(snap[j].post)
  /\ UNCHANGED <<row, claiming, beats, request, published, publishedMsg, faults>>

\* The platform took the post but its answer never came back.
AnswerLost(j) ==
  /\ pc[j] = "publish"
  /\ Fault("answer")
  /\ Goto(j, "fail")
  /\ Attempted(snap[j].post)
  /\ Reaches(snap[j].post, snap[j].msg)
  /\ UNCHANGED <<row, claiming, beats, request>>

\* Step 1: the result is written first; an error here is only logged.
SaveResult(j) ==
  /\ pc[j] = "save"
  /\ result' = [result EXCEPT ![snap[j].post] = TRUE]
  /\ Goto(j, "complete")
  /\ UNCHANGED <<status, retryCount, scheduledIn, retryIn, claimLeft, msg,
                 claiming, beats, request, history, faults>>

SaveError(j) ==
  /\ pc[j] = "save"
  /\ Fault("save")
  /\ Goto(j, "complete")
  /\ UNCHANGED <<row, claiming, beats, request, history>>

\* Step 2: COMPLETED, if the post is still PENDING.
Complete(j) ==
  LET p == snap[j].post IN
  /\ pc[j] = "complete"
  /\ \/ /\ status[p] = "PENDING"
        /\ status' = [status EXCEPT ![p] = "COMPLETED"]
        /\ retryCount' = [retryCount EXCEPT ![p] = 0]
        /\ retryIn' = [retryIn EXCEPT ![p] = 0]
        /\ claimLeft' = [claimLeft EXCEPT ![p] = 0]
     \/ /\ status[p] # "PENDING"
        /\ UNCHANGED <<status, retryCount, retryIn, claimLeft>>
  /\ EndJob(j)
  /\ UNCHANGED <<scheduledIn, result, msg, claiming, beats, request, history, faults>>

\* An error of step 2 is caught as if the publish had failed.
CompleteError(j) ==
  /\ pc[j] = "complete"
  /\ Fault("complete")
  /\ Goto(j, "fail")
  /\ UNCHANGED <<row, claiming, beats, request, history>>

BadExhausted(count) == count > MaxRetries

Exhausted(count) == count >= MaxRetries

\* The catch block: FAILED for good, or another attempt after a backoff,
\* counted from the job's copy and written whatever the post's status.
Settle(j) ==
  LET p == snap[j].post
      count == snap[j].retryCount + 1
      final == pc[j] = "reject" \/ Exhausted(count)
  IN
  /\ pc[j] \in {"fail", "reject"}
  /\ status' = IF final THEN [status EXCEPT ![p] = "FAILED"] ELSE status
  /\ retryCount' = [retryCount EXCEPT ![p] = count]
  /\ retryIn' = [retryIn EXCEPT ![p] = IF final THEN 0 ELSE Backoff[count]]
  /\ claimLeft' = [claimLeft EXCEPT ![p] = 0]
  /\ EndJob(j)
  /\ UNCHANGED <<scheduledIn, result, msg, claiming, beats, request, history, faults>>

\* The last write of a job fails: the job ends and leaves the row as it is.
SettleError(j) ==
  /\ pc[j] \in {"resume", "fail", "reject"}
  /\ Fault("settle")
  /\ EndJob(j)
  /\ UNCHANGED <<row, claiming, beats, request, history>>

-----------------------------------------------------------------------------
(* HTTP requests: cancel, update and retry *)

NewRequest == [step |-> "new", kind |-> "none", post |-> NoPost]

RetryPending(p) ==
  \E r \in Request : request[r] = [step |-> "read", kind |-> "retry", post |-> p]

\* The read: the post is one the request may change.
ReadPost(r, kind, p) ==
  /\ request[r] = NewRequest
  /\ \/ /\ kind \in {"cancel", "update"}
        /\ status[p] = "PENDING" /\ claimLeft[p] = 0
     \/ /\ kind = "retry"
        /\ status[p] = "FAILED"
        /\ SerialRetry => ~ RetryPending(p)
  /\ request' = [request EXCEPT ![r] = [step |-> "read", kind |-> kind, post |-> p]]
  /\ UNCHANGED <<row, claiming, jobs, beats, history, faults>>

Answer(r, kind) ==
  /\ request[r].step = "read"
  /\ request[r].kind = kind
  /\ request' = [request EXCEPT ![r] = [NewRequest EXCEPT !.step = "done"]]

\* The writes go by id alone.
Cancel(r) ==
  /\ Answer(r, "cancel")
  /\ status' = [status EXCEPT ![request[r].post] = "CANCELLED"]
  /\ UNCHANGED <<retryCount, scheduledIn, retryIn, claimLeft, result, msg,
                 claiming, jobs, beats, history, faults>>

\* A new message, a new time (which ends a backoff), or both.
Update(r) ==
  LET p == request[r].post IN
  /\ Answer(r, "update")
  /\ \E edited \in {0, 1}, delay \in 0..MaxDelay :
       /\ edited + delay > 0
       /\ msg' = [msg EXCEPT ![p] = @ + edited]
       /\ scheduledIn' = [scheduledIn EXCEPT ![p] = IF delay > 0 THEN delay ELSE @]
       /\ retryIn' = [retryIn EXCEPT ![p] = IF delay > 0 THEN 0 ELSE @]
  /\ UNCHANGED <<status, retryCount, claimLeft, result,
                 claiming, jobs, beats, history, faults>>

Retry(r) ==
  LET p == request[r].post IN
  /\ Answer(r, "retry")
  /\ status' = [status EXCEPT ![p] = "PENDING"]
  /\ retryCount' = [retryCount EXCEPT ![p] = 0]
  /\ scheduledIn' = [scheduledIn EXCEPT ![p] = 0]
  /\ retryIn' = [retryIn EXCEPT ![p] = 0]
  /\ claimLeft' = [claimLeft EXCEPT ![p] = 0]
  /\ attempts' = [attempts EXCEPT ![p] = 0]
  /\ UNCHANGED <<result, msg, claiming, jobs, beats, published, publishedMsg, faults>>

-----------------------------------------------------------------------------
(* Time and heartbeats *)

\* A heartbeat query reaches the database, which renews a PENDING post.
BeatLands(p) ==
  /\ p \in beats
  /\ beats' = beats \ {p}
  /\ claimLeft' = [claimLeft EXCEPT ![p] = IF status[p] = "PENDING" THEN Lease ELSE @]
  /\ UNCHANGED <<status, retryCount, scheduledIn, retryIn, result, msg,
                 claiming, jobs, request, history, faults>>

BeatLost(p) ==
  /\ p \in beats
  /\ Fault("beat")
  /\ beats' = beats \ {p}
  /\ UNCHANGED <<row, claiming, jobs, request, history>>

Pred(f) == [p \in Post |-> IF f[p] = 0 THEN 0 ELSE f[p] - 1]

\* One heartbeat interval passes: every deadline comes nearer and the timer
\* of every running job sends a heartbeat.
Tick ==
  /\ \A w \in Worker : phase[w] = "idle"
  /\ \A j \in Job : pc[j] \in {"idle", "publish"}
  /\ \A r \in Request : request[r].step # "read"
  /\ beats = {}
  /\ scheduledIn' = Pred(scheduledIn)
  /\ retryIn' = Pred(retryIn)
  /\ claimLeft' = Pred(claimLeft)
  /\ beats' = {p \in Post : \E j \in JobsOf(p) : pc[j] \in Beating}
  /\ UNCHANGED <<status, retryCount, result, msg,
                 claiming, jobs, request, history, faults>>

-----------------------------------------------------------------------------
(* Specification *)

Init ==
  /\ status = [p \in Post |-> "ABSENT"]
  /\ retryCount = [p \in Post |-> 0]
  /\ scheduledIn = [p \in Post |-> 0]
  /\ retryIn = [p \in Post |-> 0]
  /\ claimLeft = [p \in Post |-> 0]
  /\ result = [p \in Post |-> FALSE]
  /\ msg = [p \in Post |-> 0]
  /\ phase = [w \in Worker |-> "idle"]
  /\ maxSlots = [w \in Worker |-> 0]
  /\ seenByPlatform = [w \in Worker |-> {}]
  /\ seenByAccount = [w \in Worker |-> {}]
  /\ due = [w \in Worker |-> {}]
  /\ claimed = [w \in Worker |-> {}]
  /\ healthy = [w \in Worker |-> TRUE]
  /\ pc = [j \in Job |-> "idle"]
  /\ snap = [j \in Job |-> NoSnapshot]
  /\ beats = {}
  /\ request = [r \in Request |-> NewRequest]
  /\ published = [p \in Post |-> 0]
  /\ publishedMsg = [p \in Post |-> 0]
  /\ attempts = [p \in Post |-> 0]
  /\ faults = [k \in FaultKind |-> 0]

WorkerStep(w) ==
  \/ CountByPlatform(w)
  \/ CountByAccount(w)
  \/ FindDue(w)
  \/ \E s \in due[w] : ClaimPost(w, s)
  \/ Launch(w)
  \/ Reconnect(w)

JobStep(j) ==
  \/ Resume(j)
  \/ PublishSucceeds(j)
  \/ PublishFails(j)
  \/ SaveResult(j)
  \/ Complete(j)
  \/ Settle(j)

RequestStep(r) == Cancel(r) \/ Update(r) \/ Retry(r)

FaultStep ==
  \/ \E w \in Worker : ClaimError(w) \/ Crash(w)
  \/ \E j \in Job : AnswerLost(j) \/ SaveError(j) \/ CompleteError(j) \/ SettleError(j)
  \/ \E p \in Post : BeatLost(p)

Next ==
  \/ \E p \in Post : Create(p) \/ Enqueue(p)
  \/ \E w \in Worker : WorkerStep(w)
  \/ \E j \in Job : JobStep(j)
  \/ \E r \in Request, kind \in RequestKind, p \in Post : ReadPost(r, kind, p)
  \/ \E r \in Request : RequestStep(r)
  \/ \E p \in Post : BeatLands(p)
  \/ Tick
  \/ FaultStep

Spec == Init /\ [][Next]_vars

\* What the runtime guarantees: the cron fires every five seconds, a started
\* execution, query or request comes to an end, and time passes.
Fairness ==
  /\ \A w \in Worker : WF_vars(WorkerStep(w))
  /\ \A j \in Job : WF_vars(JobStep(j))
  /\ \A r \in Request : WF_vars(RequestStep(r))
  /\ \A p \in Post : WF_vars(BeatLands(p))
  /\ SF_vars(Tick)

FairSpec == Spec /\ Fairness

-----------------------------------------------------------------------------
(* Correctness *)

(* The type invariant. *)
RowOK ==
  /\ status \in [Post -> {"ABSENT", "PENDING", "COMPLETED", "FAILED", "CANCELLED"}]
  /\ retryCount \in [Post -> 0..MaxRetries]
  /\ \A p \in Post : status[p] \in {"ABSENT", "PENDING"} => retryCount[p] < MaxRetries
  /\ scheduledIn \in [Post -> Nat]
  /\ retryIn \in [Post -> Nat]
  /\ claimLeft \in [Post -> 0..Lease]
  /\ result \in [Post -> BOOLEAN]
  /\ msg \in [Post -> Nat]

ClaimingOK ==
  /\ phase \in [Worker -> {"idle", "account", "find", "claim"}]
  /\ maxSlots \in [Worker -> Nat]
  /\ seenByPlatform \in [Worker -> SUBSET Post]
  /\ seenByAccount \in [Worker -> SUBSET Post]
  /\ due \in [Worker -> SUBSET Snapshot]
  /\ claimed \in [Worker -> SUBSET Snapshot]
  /\ \A w \in Worker : phase[w] # "claim" => claimed[w] = {}
  /\ healthy \in [Worker -> BOOLEAN]

JobsOK ==
  /\ pc \in [Job -> {"idle", "resume"} \cup Beating]
  /\ snap \in [Job -> Snapshot \cup {NoSnapshot}]
  /\ \A j \in Job : pc[j] # "idle" => snap[j] \in Snapshot

RequestOK ==
  /\ request \in [Request -> [step : {"new", "read", "done"},
                              kind : {"none"} \cup RequestKind,
                              post : Post \cup {NoPost}]]
  /\ \A r \in Request : request[r].step = "read" => request[r].post \in Post

HistoryOK ==
  /\ published \in [Post -> Nat]
  /\ publishedMsg \in [Post -> Nat]
  /\ attempts \in [Post -> Nat]
  /\ faults \in [FaultKind -> Nat]

\* The types, with the two bounds that make them hold: a PENDING post has an
\* attempt left, and a process holds claims only while it is claiming.
TypeOK ==
  RowOK /\ ClaimingOK /\ JobsOK /\ beats \subseteq Post /\ RequestOK /\ HistoryOK

NoFault(K) == \A k \in K : faults[k] = 0

\* The conditions under which a claim is exclusive: the lost heartbeats do not
\* add up to a lease, and no two retry requests of one post overlapped.
ClaimsAreSafe == SerialRetry /\ faults["beat"] + 2 <= Lease

SingleProcess == \A v, w \in Worker : v = w

(* While a job of a PENDING post is alive the post stays claimed: "con song  *)
(* thi giu mai" (schedule.service.ts, the comment on CLAIM_LEASE_MS).  The   *)
(* lease is renewed in time however long the upload takes, and outlives the  *)
(* loss of all its heartbeats but two.                                       *)
ClaimHeldWhileAlive ==
  ClaimsAreSafe =>
    \A j \in Job : pc[j] # "idle" /\ status[snap[j].post] = "PENDING"
                     => claimLeft[snap[j].post] > 0

(* No post is executed by two jobs at once, in one process or in several,    *)
(* whatever crashes, failed queries, cancellations and edits interleave.     *)
AtMostOneExecutor ==
  ClaimsAreSafe =>
    \A i, j \in Job :
      pc[i] # "idle" /\ pc[j] # "idle" /\ snap[i].post = snap[j].post => i = j

(* A post goes live at most once, across retries by the worker and by the    *)
(* user, if the process survives, the platform answers and the result can be *)
(* saved.  One process also survives a failing step 2 (the saved result is   *)
(* found by the next execution); several processes do not.                   *)
PublishedOnce ==
  /\ ClaimsAreSafe
  /\ NoFault({"answer", "crash", "save"})
  /\ SingleProcess \/ NoFault({"complete"})
  => \A p \in Post : published[p] <= 1

(* A post that is live and that no job is handling has its result recorded,  *)
(* whatever its status: a retry of it will not publish it again.             *)
LiveHasResult ==
  NoFault({"answer", "crash", "save"}) =>
    \A p \in Post : published[p] > 0 /\ JobsOf(p) = {} => result[p]

(* A post shown as FAILED is not on the platform.                            *)
FailedIsNotLive ==
  ClaimsAreSafe /\ NoFault({"answer", "crash", "complete"}) =>
    \A p \in Post : status[p] = "FAILED" => published[p] = 0

(* The caps hold in each process, however many there are: of the posts that *)
(* are still to be published it executes no more at once than allowed for    *)
(* one account, for one platform and in all, crashes of others, slow         *)
(* uploads, edits and retries included.  A post that was cancelled while it  *)
(* ran is not counted any more, though its job goes on; and as processes     *)
(* count before they claim, n of them may together reach n times a limit.    *)
RunningOn(w, P) ==
  Cardinality({s \in Slot : LET j == <<w, s>> IN
                 pc[j] # "idle" /\ snap[j].post \in P /\ status[snap[j].post] = "PENDING"})

CapsRespected ==
  ClaimsAreSafe =>
    \A w \in Worker :
      /\ RunningOn(w, Post) <= GlobalConcurrency
      /\ \A p \in Post :
           /\ RunningOn(w, {q \in Post : AccountOf[q] = AccountOf[p]}) <= AccountConcurrency
           /\ RunningOn(w, {q \in Post : PlatformOf[q] = PlatformOf[p]})
                <= PlatformConcurrency[PlatformOf[p]]

(* A claimed post never waits for a slot: when the phase ends there is one   *)
(* for every post it has claimed (checkAndExecute takes at most as many as   *)
(* were free when it began, and nothing else starts jobs in the process).    *)
ClaimsHaveSlots ==
  \A w \in Worker : Cardinality(claimed[w]) <= Cardinality(FreeSlots(w))

(* The worker gives up after MAX_RETRIES attempts: only an attempt whose end *)
(* was never written (a crash, a failed last write) comes on top.            *)
AttemptsBounded ==
  ClaimsAreSafe /\ SingleProcess =>
    \A p \in Post : attempts[p] <= MaxRetries + faults["crash"] + faults["settle"]

(* One process claims a post only when its time has come, its backoff is    *)
(* over and nobody else holds it: what it read in _claimDuePosts is still so *)
(* at the moment of the claim, several queries and claims later.             *)
ClaimsOnlyDue ==
  [][ ClaimsAreSafe /\ SingleProcess /\ "update" \notin RequestKind =>
        \A w \in Worker : \A s \in claimed'[w] \ claimed[w] :
          LET p == s.post IN
          /\ status[p] = "PENDING" /\ retryCount[p] = s.retryCount
          /\ scheduledIn[p] = 0 /\ retryIn[p] = 0 /\ claimLeft[p] = 0 ]_vars

(* Once the result of a post is in the database no execution publishes the   *)
(* post again, whatever answers were lost and processes died before: one     *)
(* process survives failing final writes too, and several ones keep to it    *)
(* unless step 2 fails (ResultPreventsRepublish below).                      *)
ResultIsFinal ==
  [][ ClaimsAreSafe /\ (SingleProcess \/ NoFault({"complete"})) =>
        \A p \in Post : result[p] => published'[p] = published[p] ]_vars

(* Every post that is waiting to be published gets out of PENDING.           *)
EventuallySettled ==
  \A p \in Post : status[p] = "PENDING" ~> status[p] # "PENDING"

-----------------------------------------------------------------------------
(* The abstract specification *)

Lifecycle ==
  INSTANCE PostLifecycle WITH shown <- status, live <- published, recorded <- result

(* The worker implements PostLifecycle where no process dies, every result   *)
(* is saved, nobody cancels and, of several processes, none fails step 2:    *)
(* whatever failed attempts, failed writes, retries and edits come in        *)
(* between, a post goes out only while it is waiting and only once, and is   *)
(* shown as done only when it is out.                                        *)
ImplementsLifecycle == Lifecycle!Spec

-----------------------------------------------------------------------------
(* Why claims are exclusive: the inductive invariant *)

Running(j) == pc[j] # "idle"

\* Post p is in the hands of a job, or of a claim phase that will start one.
InHand(p) ==
  \/ \E j \in Job : Running(j) /\ snap[j].post = p
  \/ \E w \in Worker : p \in Posts(claimed[w])

\* At most one job or claim phase has a post in its hands.
OneHolder ==
  /\ \A i, j \in Job :
       Running(i) /\ Running(j) /\ snap[i].post = snap[j].post => i = j
  /\ \A j \in Job, w \in Worker : \A s \in claimed[w] :
       Running(j) => snap[j].post # s.post
  /\ \A v, w \in Worker : \A s \in claimed[v], t \in claimed[w] :
       s.post = t.post => v = w /\ s = t

\* The intervals of its lease a running post can be short of: one for every
\* heartbeat ever lost, and one for the heartbeat on its way.
Owed(p) == faults["beat"] + (IF p \in beats THEN 1 ELSE 0)

\* A PENDING post in somebody's hands has a full lease but for what is owed.
HolderKeepsClaim ==
  /\ \A w \in Worker : \A s \in claimed[w] :
       status[s.post] = "PENDING" => claimLeft[s.post] = Lease
  /\ \A j \in Job :
       Running(j) /\ status[snap[j].post] = "PENDING" =>
         claimLeft[snap[j].post] + Owed(snap[j].post) >= Lease

\* Nobody has a post in hand that does not exist or that failed.
IdleIsFree == \A p \in Post : status[p] \in {"ABSENT", "FAILED"} => ~ InHand(p)

\* A post about to be retried is still nobody's, and has one retry.
RetryIsFree ==
  /\ \A r \in Request :
       request[r].step = "read" /\ request[r].kind = "retry" =>
         /\ status[request[r].post] \in {"FAILED", "CANCELLED"}
         /\ ~ InHand(request[r].post)
  /\ \A q, r \in Request :
       /\ request[q].step = "read" /\ request[q].kind = "retry"
       /\ request[r].step = "read" /\ request[r].kind = "retry"
       /\ request[q].post = request[r].post
       => q = r

ClaimsExclusive ==
  ClaimsAreSafe => OneHolder /\ HolderKeepsClaim /\ IdleIsFree /\ RetryIsFree

-----------------------------------------------------------------------------
(* What comments of the code say, without the conditions above *)

(* "lan retry sau se thay result va khong dang lai": once the result of a    *)
(* post is in the database, no later execution publishes the post again.     *)
ResultPreventsRepublish ==
  [][ \A p \in Post : result[p] => published'[p] = published[p] ]_vars
=============================================================================
