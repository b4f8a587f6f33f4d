# Formal verification of AutomationGenVideo_BE

This directory holds TLA+ models of the parts of the backend where the order of
events decides whether the data stays right, the TLC configurations that check
them on small instances, and TLAPS proofs of the results that matter most.
Paths are relative to the repository root as seen from here: `src/src/...` is
the application, `src/prisma/...` the database schema.

| module | models | model checking | proofs |
|---|---|---|---|
| `PublishQueue` | the scheduled-publishing worker | `MCPublishQueue`, `publish_*.cfg` | `PublishQueueProofs`, `PublishOnceProofs` |
| `PostLifecycle` | what that worker promises of a post (abstract) | `publish_single.cfg` | `PublishOnceProofs` |
| `BorrowFlow` | the life of an equipment request | `MCBorrowFlow`, `borrow_*.cfg` | `BorrowFlowProofs`, `BorrowLoanProofs` |
| `LuckySpin` | a prize wheel: wins, awards, stock, undo | `MCLuckySpin`, `spin.cfg` | `LuckySpinProofs` |
| `IdPhotoBatch` | the queue of ID photo batches | `MCIdPhotoBatch`, `photos.cfg` | `IdPhotoBatchProofs` |
| `PublishedLinks` | the list of published links of a task | `MCPublishedLinks`, `links.cfg` | `PublishedLinksProofs` |
| `LinkTable` | what that list promises its writers (abstract); `LinkArrays` is what a change makes of an array | `links.cfg` | `PublishedLinksProofs` |
| `DailyPlans` | the suggestions of a daily plan and their tasks | `MCDailyPlans`, `plans.cfg` | `DailyPlansProofs` |

Run from this directory, for example:

    tlc -workers 2 -config borrow_loans.cfg MCBorrowFlow
    tlapm BorrowFlowProofs.tla

`PROJECT.json` lists the components, the runs, the source lines behind every
definition, the hazards and the properties aimed at each, and the theorems.

## 1. Inventory

The backend is a NestJS application on PostgreSQL (through Prisma). It runs as
one or more processes that share nothing but the database, so everything kept
in memory (flags, queues, semaphores, caches) is private to a process. Most of
its 46 modules are queries, permissions, formatting and clients of external
services. The parts that have a protocol of their own are these.

**Scheduled publishing** (`modules/social-publishing/schedule`, `queue`).
State: the rows of `social_posts` (status, retry_count, scheduled_at,
next_retry_at, claimed_until, result, text and media); per process the flag
isClaiming, a semaphore of MAX_HEAVY_JOBS slots and the running jobs. Operations:
create, enqueue, cancel, update, retry (HTTP); checkAndExecute (every 5 s): count
the posts in flight, read the due ones, claim them, run them; the heartbeat of a
running job; reconnection after a database error. It calls *publishing to a
platform* and is fed by uploads and drafts. Hard: several processes, leases that
expire under slow uploads, crashes, failing writes between a publication and its
record, users who edit a post while it runs. Correct: a post is executed by one
job at a time, goes live once, its result is kept, the limits per account and
platform hold, failures are retried a bounded number of times, and every post is
eventually settled.

**Publishing to a platform** (`social-publishing/publish`). A cache of downloaded
media and temporary files with delayed deletion; publishNow with de-duplication
of double clicks; retries of single calls. Correct: no file is deleted while a
job reads it, a double click publishes once.

**Equipment borrowing** (`modules/mems-borrow`). State: requests, lines,
reservations, approvals, handovers, returns, and the status of each unit.
Operations: create, approve, reject, cancel, assign units, hand over, take back;
each is one transaction at READ COMMITTED, and only some take an advisory lock
(create and assign by model, decide and cancel by request, handover and return
none). Hard: read, decide, write by id. Correct: no unit is promised twice, a
unit outside is on a request that follows it up, a request closes with its last
unit, a personal request gets two signatures of two people.

**Equipment catalogue** (`modules/mems-catalog`). Units and their status, edited
and deleted by hand, inspected after a return. Shares the units with borrowing.

**Lucky spin** (`modules/lucky-spin`). Who controls a wheel (a lease without a
condition on its write), rounds, winners, the stock of gifts. Hard: two people on
one wheel, a round confirmed twice, a history entry deleted while the stock
changes. Correct: a round is settled once, a member wins once, stock is never
negative and matches the awards.

**ID photo batches** (`modules/id-photo`). An in-memory queue of batches, one
worker per process, a heartbeat per person, a watchdog that fails stale batches,
retry of one person. Correct: every person ends SUCCESS or FAILED, a finished
batch has no PENDING person for ever, no person is processed by two workers.

**Links of a task** (`common/utils/task-published-links.util.ts` and its callers). One
JSON column written by forms, refreshers, the publishing worker and a matcher, kept
apart by an update conditional on `updated_at`. Correct: nobody's link is lost or
comes back, figures belong to the link they are shown at, a link is in a task once.

**Daily plans** (`task-auto/daily-plans`). A planner writes suggestions for every person
and day; clicking one makes a task of it, a search may make the same task; a claim
with a timeout (`used_at`) keeps clicks apart. Hard: double clicks, a rerun of the
planner in between, a failing step of the making. Correct: a suggestion has one
task, is not suggested twice, and nothing in use is taken away.

**Shared mechanisms.** `common/utils/semaphore.ts` (at most max tasks),
`common/cache/cache.service.ts` (two levels, fetch once, invalidate), `modules/auth`
(one refresh token per user, rotated), `common/prisma` (health flag and
reconnection).

**The rest** (most of tasks and KPI, teams and users, AI integration, reports,
scrapers, product images and videos, integrations, notifications) is listed in
`PROJECT.json` with the reason it is not modelled.

## 2. Plan

In order of importance.

1. `PublishQueue`: worker, leases, faults, user requests, liveness, and the
   invariant that makes claims exclusive. *Done.*
2. `BorrowFlow`: requests and units as interleaved transactions, the booking
   invariant. *Done.*
3. The proofs that rest on these two: published once, results kept, limits,
   signatures, locks, loans and promises. *Done.*
4. `PostLifecycle`, an abstract specification of what the worker promises of one
   post, with `PublishQueue` shown to implement it, by TLC and by proof. *Done.*
5. `LuckySpin`: rounds, winners, awards and stock. *Done.*
6. `IdPhotoBatch`: queue, worker, watchdog, retry, crashes; liveness of every
   person. *Done.*
7. `PublishedLinks`: the optimistic update of the links of a task. *Done.*
8. `LinkTable`, an abstract specification of the same list, which it implements, by TLC
   and by proof. *Done.*
9. `DailyPlans`: suggestions, the tasks made of them, the planner. *Done.*
10. Left: the catalogue's updateAsset and deleteAsset in `BorrowFlow`, which write a
   status they read outside their transaction (with edits, the instance of
   `borrow_loans` exceeds ten million states: it needs a smaller one that still has
   partial returns); the control of a wheel in
   `LuckySpin`; the monthly rollover of KPI with the automatic assignment of tasks
   (task-auto-assign, kpi-rollover), whose cron runs in every process; the media
   cache and de-duplication of publishNow; `Sessions`.

## 3. PublishQueue

### Model and code

A row of `social_posts` is a `Post`; its columns are the functions `status`,
`retryCount`, `scheduledIn`, `retryIn`, `claimLeft`, `result` and `msg`. A backend
process is a `Worker` with a set of `Slot`s. The claim phase of a process has one
step per query (`CountByPlatform`, `CountByAccount`, `FindDue`, one `ClaimPost` per
post, `Launch`) because other processes run between them. A job executes the copy
of the row that `FindDue` read, not the row: `snap`. Each database write of
`executePost` is a step that succeeds or throws (`SaveResult`/`SaveError`,
`Complete`/`CompleteError`, `Settle`/`SettleError`). `cancel`, `update` and `retry`
are a read and a later write (`ReadPost`, then `Cancel`, `Update`, `Retry`).

Time is counted in heartbeat intervals. A timestamp is the number of intervals
until it passes; 0 stands for null or past, which the code treats alike. A `Tick`
waits for the steps that are shorter than an interval: queries, final writes and
requests; only an upload may take any number of ticks. A heartbeat due at a tick
is a pending query (`beats`) that lands or is lost before the next one. This is
the one timing assumption of the model: a query or request in flight is over within a
minute.

External behaviour: a platform may take the post and answer, take it and not
answer, or refuse it (for now or for good). Faults (a failing query of each
kind, a lost heartbeat, a crash) are actions counted in `faults` and limited by
`MaxFaults`. `published` and `attempts` are history variables: what is on the
platform and how often an upload began.

### Runs

| run | instance | what it shows |
|---|---|---|
| `publish_single` | 1 process, 2 slots, 2 posts of one account, update and retry by 2 requests, a failing `Complete` and a failing `Settle` | types, bounded attempts, and that the worker implements `PostLifecycle` |
| `publish_two` | 2 processes, 1 post, 2 requests of all kinds, one crash, one lost result, one lost heartbeat, lease 3 | claims held while their job is alive, one executor, published once, live posts have their result, FAILED means not live |
| `publish_liveness` | 1 process, 2 slots, 2 posts of two accounts on a platform with limit 1, a failing claim phase, a crash, a lost answer | platform and account limits, claims only what is due, every post is settled |
| `publish_republish` | 2 processes, a failing `Complete` | finding: a saved result does not stop a process that read the row before |

*Bounds.* Two of everything that can race, because every conflict in the code is
between two actors on one row or two rows under one limit; `MaxRetries` 2 so that
there is a first, a last and no third attempt; `Backoff` of 1 and 2 intervals so
that attempts differ; a lease of 2 or 3 intervals, the smallest that survives none
or one lost heartbeat (the code has CLAIM_LEASE_MS and HEARTBEAT_INTERVAL_MS); one fault of each listed kind
at any place.

*Fairness* (`publish_liveness` only). Weak fairness of the steps of a process
(the cron fires every five seconds and the flag isClaiming is reset in a finally),
of a started job, of a request and of a heartbeat query; strong fairness of `Tick`
because `Tick` waits for short steps, which keep ending. No fairness of any fault.
`EventuallySettled` is checked without users who cancel or reschedule: they could
postpone a post for ever.

*Conditions in properties.* `ClaimsAreSafe` names what exclusive claims rest on:
the lost heartbeats do not add up to a lease, and no two retry requests of one post
overlap. `PublishedOnce` adds that nothing dies between the platform's success and
the record of it, which no client of such an API can close. `SingleProcess` marks
what the code promises for one process only: a post is claimed when due, and the
budget of attempts is kept. The limits per account and platform hold in each process;
several processes count before any of them claims, so n of them may together reach n
times a limit. A saved result stops every later attempt in one process, and in
several unless step 2 fails (`ResultIsFinal`); where both happen it does not
(`publish_republish`). A post that is
cancelled between the check of cancel() and its write runs and goes live all the
same.

### PostLifecycle

The abstract specification of one post: it is submitted, goes out at most once and
only while it is waiting, its link is recorded, it is shown as done only when it is
recorded and as failed only when it is not out or is recorded. There are no processes,
claims, retries, timeouts or backoffs in it. `PublishQueue` is mapped by
`shown <- status`, `live <- published`, `recorded <- result`; the property
`ImplementsLifecycle` says that every step of the worker is one of these or none. It
is promised without cancellation, where nothing dies between a publication and its
record, and with several processes where step 2 does not fail; failing final writes,
updates and retries are among the steps. That a failing `Complete` may show FAILED for a post that is out is why `GiveUp`
has the second case.

### Proofs

`PublishQueueProofs` proves, for every number of posts, processes, slots, requests,
retries and faults:

- `TypeCorrect`: `Spec => []TypeOK`.
- `ExclusiveCorrect`: `Spec => []ClaimsExclusive`, the inductive invariant. That
  no two jobs have one post (`OneHolder`) is not inductive: a claim succeeds when
  the lease is over, so one needs that a held post's lease is *not* over.
  `HolderKeepsClaim` says it with the right slack: lease left + heartbeats lost + the
  one on its way is at least a full lease. It holds only for PENDING posts, so
  `IdleIsFree` and `RetryIsFree` exclude that a post comes back to PENDING (created,
  retried) while somebody still holds it.
- `OneExecutorCorrect` and `ClaimHeldCorrect`: `AtMostOneExecutor` and
  `ClaimHeldWhileAlive` follow from it.

`PublishOnceProofs` builds on that invariant and proves, under the conditions each
property names, all the safety properties of the runs:

- `PublishedOnceCorrect`, `LiveHasResultCorrect`, `FailedIsNotLiveCorrect`: what the
  exclusive claim is good for. A job that has published is the only holder of its
  post until it has written the result, so a post that is live is either still in
  its hands or has its result, and no attempt starts with a row read before.
- `ClaimsOnlyDueCorrect`: what a process read in its page is still so when it claims,
  because with one process every writer that could change it needs the claim, or is a
  request whose write the conditional claim notices.
- `AttemptsBoundedCorrect`: `retry_count` counts every attempt but those whose end
  was never written, and a user's retry gives the budget once more.
- `CapsRespectedCorrect`: a counting argument. The posts of an account (of a
  platform) that a process has in hand and that are still PENDING are among those it
  counted and those it claimed since, and the claim phase claims at most what the limit
  leaves. It holds in each of any number of processes, with users who cancel.
- `ClaimsHaveSlotsCorrect`: a process never holds more claims than it has free slots,
  so no claimed post waits for a slot while its lease runs out.
- `ResultIsFinalCorrect`: the action property `ResultIsFinal`, the complement of the
  finding. Its invariant `FinalInv` says of every copy in the hands of a process (a
  claim, a job about to publish) that it shows the result if the row has one. Of one
  process this is so from the page on, since only its own jobs write results. Of several
  it is so when the claim succeeds, because a post whose result is saved stays with
  its job until it is DONE (`PastAttempts`), which is what a failing step 2 breaks.
- `LifecycleImplemented`: the refinement. Every step of the worker maps to one of
  `PostLifecycle` or to none. That a post goes out only once rests on the
  freshness of a single process' copies where step 2 may fail, and on the argument of
  `PublishedOnce` where it may not.

They assume, in `ConstantsAssumption`, finitely many posts and slots, positive limits,
a lease of at least two heartbeat intervals. `EventuallySettled` is a liveness
property and is left to TLC.

## 4. BorrowFlow

### Model and code

A `Request` is one submission of the form; owner, purpose, period and quantities
are constants, and `status[r]` is ABSENT until create() commits. Each of its lines is a
`Model` (a second line for a model is refused), the reservations of a line are
rows `reservation[r][m][c]` with a status and a unit. `lent` and `returned` count the handover
lines and the return lines of a unit on a request; `asset` is the status of a
unit, `repairs` the open maintenance records that inspection writes; `modelLock`
and `requestLock` are the advisory locks.

A `Txn` is a database transaction running one handler. `Begin...` is what the handler reads
before it waits or writes; `TakeModelLock` takes the next lock in the order of
model ids; `CheckAvailability` and `CheckAssign` are the reads made under the locks;
`Write...` is the commit: PostgreSQL shows the writes of a transaction to others at
once, so they are one step. What an UPDATE of the transaction *finds* is a step before
it: at READ COMMITTED the releases of cancel() and of a return find the rows that are
committed when they run (`FindCancelled`, `FindReturned`), keep them locked, and do not
see a reservation that assign() commits between them and the end of the transaction.
The release of a rejection is one step with its write (`WriteReject`): decide() rejects
a PENDING_APPROVAL request, and assign() begins on an approved one only. `Rollback` may end a transaction at any point. What a transaction
decided from its reads is kept in `tx[t]` and used at the write even if the rows
have changed since, as in the code: `WriteCancel` writes CANCELLED whatever the
status has become, `WriteAssign` updates the reservations whose ids it read first.

| action | code |
|---|---|
| `BeginCreate`, `CheckAvailability`, `WriteCreate` | `borrow-request.service.ts` create, `availability.service.ts` check |
| `BeginDecide`, `WriteApprove`, `WriteReject` | `approval.service.ts` decide, `approval-rules.ts` |
| `BeginCancel`, `FindCancelled`, `WriteCancel` | `borrow-request.service.ts` cancel |
| `BeginAssign`, `TakeModelLock`, `CheckAssign`, `WriteAssign` | `assignment.service.ts` assign |
| `BeginHandover`, `WriteHandover` | `handover.service.ts` create |
| `BeginReturn`, `FindReturned`, `WriteReturn` | `return.service.ts` create, `return-rules.ts` |
| `BeginInspect`, `WriteInspect` | `mems-catalog/inspection.service.ts` inspect |

*Abstractions.* A returned unit is good or suspect by a free choice (the
comparison of conditions is not modelled), and a unit's condition column is left
out: it only gives assign() one more reason to refuse. Photos, accessories, events,
incidents, departments and request codes are left out. The buffer is a number of
time units per model. *Environment:* `AtHand` says that the keeper hands over only
units that are in the warehouse, not in a borrower's or another keeper's hands; the
code cannot check that, and does not.

*Apart.* Handover, assign and return take no lock of the request, and cancel takes
one that they ignore, so any of them may overlap on one request. Some overlaps break
what the code promises. `Apart` is the set of pairs of handlers that never work on one
request at a time (`Alone`; the handlers of different requests always overlap), and a
property that needs a pair apart says so, `NeverBoth(a, b) => ...`:

| property | pairs that must not overlap on one request |
|---|---|
| `OverFreesUnits` | handover and assign; assign and cancel |
| `LoanIsTracked` | handover and assign; handover and cancel |
| `ClosesWithLastUnit` | handover and assign; two handovers; two returns |
| `PromisesKept` | assign and cancel; assign and handover |

Every other overlap is allowed, and none of these pairs can be left out: with
`Apart` set to the other pairs of its row, TLC finds the property violated on the
instance of `borrow_loans` (handover and cancel are the finding `borrow_cancel`; two
returns or two handovers, and an assignment beside a cancellation, are hazards that are
listed and open: the last leaves a CANCELLED request that pins a unit). `NoDoubleBooking`,
`SignedAsPlanned`, `SignatureMissing` and `NoCircularWait` need none.

### Runs

| run | instance | what it shows |
|---|---|---|
| `borrow_loans` | 1 model, 2 units, one request for both and one for either in adjacent periods that touch through the buffer, all handlers, 2 transactions that may overlap on one request but for the pairs above | no double booking, RESERVED lines fit the warehouse, loans are followed up, requests close with the last unit, ended requests free their units |
| `borrow_races` | 2 models with a unit each, 2 requests for both, one of them personal; create, decide, cancel, assign with 2 transactions on any request, 3 people | two signatures of two people although assign() may write over a cancellation, no stuck request, no circular wait for locks |
| `borrow_cancel` | as `borrow_loans`, transactions of a request may overlap | finding: a cancellation overwrites a handover, the units are out and untracked |
| `borrow_inspection` | as `borrow_loans`, no buffer, one transaction at a time | finding: a unit waiting for inspection is handed to the next borrower |

*Bounds.* Every conflict is between two transactions over one unit, model or
request; two requests and two units give the first and the last unit, a full and a
partial return, and a line that is told BACKORDERED. Two models are the least that
can be locked in two orders. A line has as many reservation ids
as the largest line asks for: two, and one in `borrow_races`, whose properties look at
signatures and locks (there a second assignment to a line that had no reservation
finds no id left and rolls back); the clock runs to the end of the second period (`MaxTime` 2) so that loans
become overdue. Transactions are symmetric. `CHECK_DEADLOCK FALSE`: when all
requests are over and the clock stands at its bound, nothing is left to do.

### Proofs

`BorrowFlowProofs` proves, for any number of requests, lines, units, models, people
and transactions, and whether or not transactions of a request overlap:

- `TypeCorrect`: `Spec => []TypeOK`, which includes who may hold which lock.
- `BookingCorrect`: `Spec => []NoDoubleBooking`. The invariant is
  `BookingInv == HoldsLocks /\ Checked /\ NoDoubleBooking`. Double booking is
  prevented by a check made some steps before the write, so the invariant must carry
  the result of the check to the write (`Checked`); that it survives the writes of
  others rests on two facts: every handler but assign() only releases units
  (`ShrinksStep`), and two assignments about to write have no unit in common, because each
  holds the lock of the unit's model since before its check (`HoldsLocks`,
  `AssignStep`).

`BorrowLoanProofs` proves the other properties of the runs.

- `NoCircularWaitCorrect`. `AscendInv`: the lock a transaction asks for next is above
  all it holds. In a set of transactions that all wait for each other, take the
  highest model one of them waits for: its holder waits for a higher one. The set
  of models is finite, so there is a highest one.
- `SignedCorrect`, `SignatureCorrect`. `SignInv`: the number of signatures a deciding
  transaction counted is still the number when it writes, because it holds the lock
  of the request; and a request that left PENDING_APPROVAL for anything but an end
  has all its signatures, even if assign() writes PREPARING over what came between.
- `OverCorrect`. Two invariants. `LoanInv`: what a request has lent is what its reservations name, so
  a handover that overlaps another writes the same units again; everything it still
  holds is unreturned; and a return that has begun has everything held or out in its
  list of unreturned units, so the one that finds nothing left really leaves
  nothing, whatever other returns wrote. An assignment would change what is
  named, hence the pair it excludes. That settles the rejected and the closed requests.
  `CancelInv` settles the cancelled ones: a cancellation about to write has found every
  reservation that names a unit, because only an assignment adds to them
  (`HoldingShrinks`), which is the other pair it excludes; after it, a handover or a
  return that writes late only takes away.
- `TrackedCorrect`. With `LoanInv`, a request that has lent something is on loan,
  partially returned, closed with nothing out, or cancelled; `TrackInv` excludes the
  last when handover and cancel are apart.
- `ClosesCorrect`. `CloseInv`: without a second handover every unit goes out once, and
  without a second return the unreturned units a return has read are those that are
  out, so it closes the request exactly when it takes the last of them.
- `PromisesCorrect`. `PromiseInv` carries the room that
  CheckAvailability found under the model locks to WriteCreate: nobody else can open a
  reservation of the model meanwhile (`OpensUnderLock`), and assign() on a promised
  line puts its units on exactly the reservations that are open (`AssignKeepsLive`),
  so it opens none, and two assignments of a request leave each other's list of open
  reservations true. A cancellation, or a handover followed by a return, would
  release reservations that a waiting assignment then brings back to life, after
  their room was promised to another: hence the two pairs. The rest is counting: at any time, the reservations promised
  before overlap the new request's period and are among those it counted.

The assumptions are `ConstantsAssumption` (types of the constants, periods that end
after they begin) and `FiniteAssumption` (finite tables; a line has an id for every
unit it asks for).
## 5. LuckySpin

### Model and code

`lucky-spin.service.ts` keeps the wheel in six tables. `standing` and `received`
are the rows of members and teams (ABSENT, ACTIVE, DONE; has a gift), `gifts`,
`total` and `remaining` the gifts, `wins` how many rows of the win history an
entry has, `awards` the rows of the award history, `round` the drawn rounds. A
`Tab` is a request in flight; one account may have several.

| action | code |
|---|---|
| `DrawWinners`, `DrawGift`, `CancelRound` | drawWinners, drawGift, cancelRound |
| `BeginConfirm`, `ReadWinner`, `RecordWin`, `Settle` | confirmRound, recordMemberWin, recordTeamWin |
| `BeginAward`, `Award` | awardGift: conditional decrement, recipient, history, one transaction |
| `BeginEdit`, `CommitEdit` | updateGift: reads, then writes both numbers |
| `BeginUndo`, `Restock`, `CommitUndo` | deleteHistoryEntry of an award: reads the gift in its transaction without a lock and writes back a number |
| `UndoWin`, `ClearWins`, `ClearAwards`, `ResetGifts`, `ResetStatuses` | the other operations of the history and the resets |
| `CreateGift`, `ReplaceGifts`, `DeleteGift`, `CreateEntry`, `ReplaceEntries`, `DeleteEntry` | the lists |
| `Fail` | a query throws or the process stops, anywhere |

Row locks are modelled where they order two transactions: an undo that has
updated its gift holds the row until it commits (`GiftFree`), and one that has
deleted its award row keeps others from deleting what the row refers to
(`NoUndoOf`). `did` is a history of the kinds of operations made; the properties name in
it what they do not survive. Three kinds are collisions, noted at the write that makes
them: `undoRace` (an award or an undo changes the stock of a gift after another undo has
read it and before that one writes), `editRace` (the same of an edit) and `recordRace` (a
win of an entry is recorded after another request has found that it may win, and
before that one records it). Overlaps short of these are in: two confirmations of a
round, undos of one gift for `StockWithinTotal`, an award during the undo of another gift.

### Run `spin`

Two members, one gift with a stock of at most two, one round, two tabs, five operations of
any kind: the least with which two people want the last gift, a round is confirmed
twice, and an award is undone during another. It checks the type invariant
(`SpinTypeOK`: the stock stays a natural number), `StockWithinTotal`,
`StockMatchesAwards`, `NobodyStuckOut` and `WinsOnce`. Teams take the same path as
members and are left out of the instance. No liveness: every request may fail, and
nothing waits for another one.

### Proofs

All five are proved for any number of entries, gifts, rounds, tabs and operations.
`StockMatchesAwards` is an argument about cardinalities: of the operations that
change a stock or a history, each changes both sides by the same amount; the
invariant carries what a request in flight knows about both (the row an undo has
locked is still in the history, `UndoRows`, and what it read is still so unless
somebody raced it, `UndoReads`). `StockWithinTotal` needs of this only that an undo holds
the gift's present total (`UndoTotals`): it caps what it writes, however old that is.
`WinsOnce` needs that an entry a request is about to record is still on the wheel
(`OnceInv`): only a record of the same entry could take it off, which is `recordRace`.

## 6. IdPhotoBatch

### Model and code

A batch is a parent row and a row per person; the queue, the drain loop and the
watchdog live in the memory of the process. `pstat`, `image` and `pdf` are the
columns of a person, `bstat` that of a batch, `queue` and `worker` the memory,
`op` the requests in flight, `cron` the watchdog. Nothing runs in a transaction:
every database call is an action.

| action | code |
|---|---|
| `CreateBatch`, `CreateItem`, `CreateDone`, `CreateFails` | createBatch |
| `Requeue`, `ResetPerson`, `TouchBatch`, `EnqueueBatch` | retryPerson, remergePerson |
| `Remerge`, `SaveRemerge`, `RemergeFails`; `Remove` | remergeOutfit; remove |
| `Begin`, `Recover`, `Find`, `Mark`, `Beat`, `Close`, `Count`, `Shift`, `LoopFails`, `LoopThrows` | drain and processBatch |
| `Merge`, `RateLimited`, `SaveImage`, `ReadCard`, `PdfFails`, `SavePdf`, `Succeed`, `FailPerson`, `PersonWriteFails` | processPerson, exportPdf |
| `Scan`, `FailItems`, `FailJob`, `ReconcileFails` | reconcileStuckIdPhotoBatchJobs |
| `Crash` | the process ends; all memory is lost |

`Count` asks for the leftovers and `Shift` takes the batch off the queue when the answer
is there; in between a request may reset a person, touch the batch and call enqueue(),
which does nothing.

Four histories name what the code does not promise. `lost` holds the people whom a
crash or a database error left waiting in a closed batch, where neither the queue nor the
watchdog will look; a deletion that makes the loop throw adds nobody to it. `missed`
holds those over whom the watchdog's second write closed the batch (they came to wait
after its first one), and those createBatch() adds after the count of the leftovers
while nobody works the batch. `overtaken` holds the people reset
after exportPdf() read their card, whom the SUCCESS write then finishes without an
image; a reset at any earlier step of the making is not set apart. `redone` holds the
people whom remergeOutfit() finished while they had no PDF.

### Run `photos`

One batch of two people, two requests after the creation, one rate limit, one
fault (a failing query or a crash, at any place). It checks `PhotoTypeOK`,
`ClosedBatchIsSettled`, `CardComplete` and the liveness `EverybodySettled`. 180 thousand
states. Two people are the least with a first and a last one of a batch; a second batch only
waits in the queue behind the first and shares no row with it.

*Fairness.* Weak fairness of the loop, of each request in flight and of the
watchdog: a started promise runs on, and the cron comes round every two minutes.
None of a user's request or of a fault. After a crash nothing restarts the loop;
the watchdog is what settles the people.

### Proofs

The three invariants are proved for any number of people, batches, requests and
faults. `LoopInv` ties the step of the loop to the rows it has just written,
`PhotoTyped` strengthens the types; `ClosedBatchIsSettled` rests on the count that
drain() makes before a batch leaves the queue: a request that reset a person
either is on its way to the queue, or finds the batch still in it before the count, or
has opened the batch again, so that it is not a closed one that leaves the queue with
somebody waiting.

## 7. PublishedLinks

### Model and code

The links of a task are one JSON column, written by the editor's form
(updatePublishedLinks), by three refreshers of the figures, by the publishing
worker (syncPublishedLinkToTask) and by the matcher of channel videos
(attachLink). All go through mutateTaskPublishedLinks: read, compute, write
WHERE updated_at is the one read, again after a miss, at most MAX_WRITE_ATTEMPTS
times. `links[t]` is the array, `op[r]` a writer with what it fetched (`fetched`), its
form, its last read (`seen`) and whether the row is still as read (`clean`, lowered
by every write of the row: `Overtake`). `Get`, `Put`, `Overtaken` are the loop;
`OpenForm`, `SubmitForm`, `CheckForm`, `Refresh`, `Sync`, `Match` what precedes it;
`OtherWrite` and `Remove` the rest of the system; `Abandon` ends any writer anywhere.

### Run `links`

Two tasks, three urls of which two lead to one video, two ids, two figures, two
writers at a time, three operations, two attempts: every pair of writers meets, an
update misses and succeeds, and misses for the last time. It checks `OncePerTask`,
`StatsMatchUrl`, the action properties `LinksHaveOwners` and `SaveKeepsStats`, and that
the loop implements `LinkTable` (`WritesAreAtomic`).
That a video is in one task only is checked by the form before it writes and by
nothing at the write: two forms saved at once put it in both, which is listed as a
hazard.

### LinkTable

The abstract specification has no reads, timestamps or attempts: a change is asked
for, takes effect in one step on the links as they are at that step, or is given up
without a trace. `PublishedLinks` is mapped by `asked <- Asked(op[r])`, what a writer
past its checks is about to do: `Put` is `Apply`, `Get` and a miss of the condition are
stutters, the last miss and `Abandon` are `GiveUp`. A loop that wrote its first
computation over a later row would have no step to map to.

### Proofs

`LinksTypeOK`, `OncePerTask`, `StatsMatchUrl`, both action properties and the
refinement (`LinksAtomic`) are proved for any number of tasks, urls, writers and attempts. The invariant `LinksInv` says
of every array a writer holds (its form, what it fetched, what it read) what holds of the
row, and that a writer whose row is `clean` has read what the row still is; it is
what turns a check on a copy into a fact about the row.

## 8. DailyPlans

### Model and code

One plan (a person, team, line and day) and its suggestions. `rows`, `material`,
`usedAge` (age of used_at) and `linked` (task_id) are the rows of
daily_line_plan_suggestions; `tasks`, `content` and `drafts` the tasks of the owner
and the contents they use; `req[q]` a click on *create* or on a find of the search,
`run[b]` a run of the planner.

| action | code |
|---|---|
| `StartQuick`, `Claim`, `Refuse` | quickCreate: the conditional claim of each suggestion |
| `FindContent`, `MakeContent` | findOrCreateVideoContent |
| `CreateTask`, `CreateTaskFails`, `CreateTaskUnanswered` | tasks.create |
| `Link`, `Release`, `DropContent` and their failures | the end of quickCreate and its catch block |
| `StartSearch`, `FindRecent`, `SeekSuggestion`, `Attach` | quickCreateFromSearch |
| `StartRun`, `ReadPlan`, `UpdatePlan`, `ClearRows`, `CreatePlan`, `AddRows`, `PrunePlans` | draftTeamPlans, persistTeamPlans |
| `RemoveTask` | remove of a task, whose foreign key sets task_id to null (`PlansTypeOK`: a suggestion is linked only to a task that exists) |

A request may stop for good at any step, which is how a process that died looks to
the others; so there is no crash action and no liveness here. `CreateTaskUnanswered`
is the connection lost after the row was written. Time is the age of claims in
ticks; a run of the planner takes at most `MaxRun`. Whether an older task falls in the
window of the double click is a free choice.

The histories name what the promises do not survive: `slow` (rows whose claim ended
before the task it was for was linked), `exposed` (tasks made with a draft that
another request may still take back), `raced` (a suggestion came into use while the
planner was replacing them, or two runs overlapped). Each is listed as a hazard.

### Run `plans`

One video to suggest, two requests, two runs, two rows, a claim of one tick, one
failing query. A video is the longer path: a content of a warehouse takes the same
steps but for finding or making the draft. 1.9 million states. It checks
`OneTaskEach`, `NoTwins`, `TaskKeepsContent` and the action property `KeptOnRerun`.

### Proofs

All five properties are proved for any number of materials, requests, runs and rows
and for any timeout. `OneTaskEach` follows from `OneInv`: the holder of a fresh claim
is unique, because a claim is taken by one conditional update and becomes void only
by its age (`slow`) or by its release. `TwinInv` and `KeepInv` carry what a run of the
planner read in step *read* to its deletion in step *clear*: the cutoff it computed is no
later than the one the rows are compared with.


## 9. What is checked, what is proved

Every module has `Bad...` operators beside its definitions: a dropped guard, a missing
reset, a swapped order, as a mistake of the code might be. No action uses them.
`PROJECT.json` names, for every property of every passing run, one of them with which
TLC finds the property violated: no property holds by the shape of the model.

Where the code does lose a race, the property about it either is a finding (a comment
promises otherwise) or leaves exactly that race out, by a hypothesis (`NeverBoth`,
`NoFault`) or a history variable, and the hazard says so in its note: the property
shows that nothing else goes wrong.

*Proved for all values of the constants:* the type invariant and every safety
and action property of the passing runs, that `PublishQueue` implements
`PostLifecycle` and `PublishedLinks` implements `LinkTable`. The proofs rest on the assumptions named in the modules and
on nothing else.

*Only model-checked:* the two liveness properties, `EventuallySettled` (every post
is settled) and `EverybodySettled` (every person of a batch ends), since the proof
system does not reason about fairness; and the three findings of section 10.

*Neither:* the hazards in `PROJECT.json` without a property. Most of them are races
the code loses: a property would be false, and no document of the repository says
otherwise.

## 10. Findings

Each is a run that TLC must find violated.

- `publish_republish` (`ResultPreventsRepublish`). The comment of `executePost` says that a
  post whose result is saved is not published again. The check reads the row as it was
  when the process selected it, not as it is: with two processes and a failing last
  write, the second one publishes again.
- `borrow_cancel` (`AlwaysTracked`). cancel() takes the request's lock, but handover takes
  none and cancel writes CANCELLED by id: a cancellation that read PREPARING before the
  handover committed leaves the units out on a request that nobody follows up.
- `borrow_inspection` (`InspectedBeforeLent`). A unit that came back suspect must be
  inspected before it is lent again. The check is made when the unit is assigned; a
  unit assigned ahead to a later request comes back suspect from the earlier one and is
  handed over without an inspection, because handover checks nothing of the unit.

## 11. Not modelled

The modelled parts are the ones with a protocol of their own. The largest files
of the repository are not among them: work-report, content-report, ai-integration, catalog,
kpi, sapo-integration, video matching, the scrapers, and most of tasks. They read
rows, compute, format, and call external services; a step of them is one query or one
request, and what could go wrong in them is arithmetic, text matching or an API's
answer, for which a model would be as long as the code and show nothing that a
unit test does not. Therefore the models stand for a few percent of the lines of the
repository, and the share would not grow much by modelling everything that remains
in the plan.

Of the modelled components, what is left out is named at the head of each module:
files and images, texts, permissions, views, notifications.
