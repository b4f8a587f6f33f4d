--------------------------- MODULE PublishedLinks ---------------------------
(***************************************************************************)
(* The links of published videos kept in a task's row as one JSON array.   *)
(* Four kinds of writers read the array, spend seconds on a platform's     *)
(* API, and write the whole array back: the editor's form, the refreshers  *)
(* of the figures (the button of a link, the morning cron, the KPI page),  *)
(* the publishing worker, and the matcher of channel videos.               *)
(* mutateTaskPublishedLinks() keeps them apart without a lock: the write   *)
(* is conditional on `updated_at`, and is computed again from a new read   *)
(* when anything has written the row in between.                           *)
(*                                                                         *)
(* Source: src/src/common/utils/task-published-links.util.ts and its       *)
(* callers in task-auto/tasks/tasks.service.ts, task-auto/kpi/             *)
(* kpi.service.ts, task-auto/video-matching/task-video-match.service.ts    *)
(* and social-publishing/schedule/schedule.service.ts.                     *)
(*                                                                         *)
(* Abstractions.  A url stands for a link of a valid form on its platform, *)
(* resolved from its short form; several urls may lead to one video, which *)
(* the form's check tells and the automatic writers do not; the figures of *)
(* a link are the url they were fetched for and which answer it was;       *)
(* `updated_at` is the flag `clean` of each reader, lowered by every write *)
(* of the row, so two writes are taken to fall in different milliseconds.  *)
(***************************************************************************)
EXTENDS LinkArrays, Integers, FiniteSets

CONSTANTS
  Task,
  VideoOf,       \* the video a url leads to (publishedVideoKey)
  Request,       \* requests, cron passes and jobs in flight at a time
  NoTask, NoUrl, NoLink,
  MaxAttempts,   \* MAX_WRITE_ATTEMPTS
  MaxOps         \* bound of the model on operations begun

ASSUME LinksAssumption ==
  /\ NoStats \notin Stats /\ NoLink \notin LinkId /\ NoTask \notin Task /\ NoUrl \notin Url
  /\ MaxAttempts \in Nat \ {0} /\ MaxOps \in Nat

VARIABLES
  status,   \* Task.status: "OPEN" (any but approved), "APPROVED", "GONE" once deleted
  links,    \* Task.published_links
  op,       \* where each request is
  ops       \* operations begun so far (bound)

linkVars == <<status, links, op, ops>>

IdleOp ==
  [step |-> "idle", kind |-> "none", task |-> NoTask,
   form |-> {}, fetched |-> {}, entry |-> [id |-> NoLink, url |-> NoUrl, stats |-> NoStats],
   seen |-> {}, clean |-> FALSE, attempt |-> 0]

LinksInit ==
  /\ status \in [Task -> {"OPEN", "APPROVED"}]
  /\ links = [t \in Task |-> {}]
  /\ op = [r \in Request |-> IdleOp]
  /\ ops = 0

-----------------------------------------------------------------------------
(* Requests                                                                *)

SameVideo(k, l) == VideoOf[k.url] = VideoOf[l.url]

Figures(S, n) == {[l EXCEPT !.stats = [of |-> l.url, take |-> n]] : l \in S}

\* A write of the row moves updated_at for everyone who has read it.
Overtake(ops1, t) ==
  [r \in Request |-> IF ops1[r].task = t THEN [ops1[r] EXCEPT !.clean = FALSE] ELSE ops1[r]]

Finish(r) == op' = [op EXCEPT ![r] = IdleOp]

-----------------------------------------------------------------------------
(* The operations begin.                                                   *)

Used == (UNION {{l.id : l \in links[t]} : t \in Task})
          \cup (UNION {{l.id : l \in op[r].form} : r \in Request})
          \cup {op[r].entry.id : r \in Request}

NewId(i) == i \in LinkId \ Used

Begin(r, o) ==
  /\ op[r] = IdleOp /\ ops < MaxOps /\ ops' = ops + 1
  /\ op' = [op EXCEPT ![r] = o]
  /\ UNCHANGED <<status, links>>

\* The editor's page shows the links of the task, to be edited and sent back
\* as a whole.
OpenForm(r, t) ==
  /\ status[t] # "GONE"
  /\ Begin(r, [IdleOp EXCEPT !.step = "form", !.kind = "save", !.task = t,
                             !.form = {Bare(l) : l \in links[t]}])

\* refreshPublishedLinkStats(), refreshMonthlyPublishedLinkStats() and
\* refreshPublishedLinksForMembers(): figures for one or more of the links
\* the row holds now.
Refresh(r, t) ==
  \E S \in (SUBSET links[t]) \ {{}}, n \in Take :
    Begin(r, [IdleOp EXCEPT !.step = "get", !.kind = "refresh", !.task = t,
                            !.fetched = Figures(S, n)])

\* syncPublishedLinkToTask(): the post just published, or published earlier.
Sync(r, t, u) ==
  /\ status[t] # "GONE"
  /\ \E i \in LinkId : /\ NewId(i)
                       /\ Begin(r, [IdleOp EXCEPT !.step = "get", !.kind = "attach", !.task = t,
                                      !.entry = [id |-> i, url |-> u, stats |-> NoStats]])

\* attachLink(): the first read only spares the fetch of the figures.
Match(r, t, u) ==
  /\ status[t] # "GONE" /\ ~ HasUrl(links[t], u)
  /\ \E i \in LinkId, n \in Take :
       /\ NewId(i)
       /\ Begin(r, [IdleOp EXCEPT !.step = "get", !.kind = "attach", !.task = t,
                      !.entry = [id |-> i, url |-> u, stats |-> [of |-> u, take |-> n]]])

-----------------------------------------------------------------------------
(* updatePublishedLinks(), up to the write.                                *)

\* The form as the editor leaves it: a link added, removed or pointed at
\* another url.
Edits(form) ==
  {form} \cup {form \ {l} : l \in form}
    \cup {form \cup {[id |-> i, url |-> u, stats |-> NoStats]} : i \in LinkId \ Used, u \in Url}
    \cup {(form \ {l}) \cup {[l EXCEPT !.url = u]} : l \in form, u \in Url}

\* The request reads the row: only an approved task takes links by hand.
SubmitForm(r) ==
  LET t == op[r].task IN
  /\ op[r].step = "form" /\ status[t] = "APPROVED"
  /\ \E form \in Edits(op[r].form) :
       op' = [op EXCEPT ![r] = [@ EXCEPT !.step = "check", !.form = form, !.seen = links[t]]]
  /\ UNCHANGED <<status, links, ops>>

\* assertVideosNotLinkedElsewhere(): the links the row did not hold must be
\* new to the form and to every other task.
Allowed(o) ==
  \A l \in o.form :
    HasKey(o.seen, l) \/ /\ \A k \in o.form : SameVideo(k, l) => k = l
                         /\ \A t \in Task \ {o.task} : \A k \in links[t] : ~ SameVideo(k, l)

\* The check, then the figures of the links that had none.
CheckForm(r) ==
  LET o == op[r] IN
  /\ o.step = "check" /\ Allowed(o)
  /\ \E n \in Take :
       op' = [op EXCEPT ![r] =
                [o EXCEPT !.step = "get",
                          !.fetched = Figures({l \in o.form : StatsIn(o.seen, l) = NoStats}, n)]]
  /\ UNCHANGED <<status, links, ops>>

\* The check refuses, the task is not approved, a fetch fails, the page is
\* closed, the process ends: nothing has been written yet.
Abandon(r) ==
  /\ op[r] # IdleOp
  /\ Finish(r)
  /\ UNCHANGED <<status, links, ops>>

-----------------------------------------------------------------------------
(* mutateTaskPublishedLinks()                                              *)

\* The read; a deleted task and a mutation without effect end here.
Get(r) ==
  LET o == op[r]  t == o.task IN
  /\ o.step = "get"
  /\ IF status[t] = "GONE" \/ NothingToWrite(o, links[t])
       THEN Finish(r)
       ELSE op' = [op EXCEPT ![r] = [@ EXCEPT !.step = "put", !.seen = links[t], !.clean = TRUE]]
  /\ UNCHANGED <<status, links, ops>>

\* Mutant: the write is not conditional.
BadPut(r) ==
  LET o == op[r] IN
  /\ o.step = "put"
  /\ links' = [links EXCEPT ![o.task] = Mutated(o, o.seen)]
  /\ op' = Overtake([op EXCEPT ![r] = IdleOp], o.task)
  /\ UNCHANGED <<status, ops>>

\* The row is as it was read: the array is written.
Put(r) ==
  LET o == op[r] IN
  /\ o.step = "put" /\ o.clean
  /\ links' = [links EXCEPT ![o.task] = Mutated(o, o.seen)]
  /\ op' = Overtake([op EXCEPT ![r] = IdleOp], o.task)
  /\ UNCHANGED <<status, ops>>

\* Mutant: no attempt is the last.
BadOvertaken(r) ==
  LET o == op[r] IN
  /\ o.step = "put" /\ ~ o.clean
  /\ op' = [op EXCEPT ![r] = [o EXCEPT !.step = "get", !.attempt = o.attempt + 1]]
  /\ UNCHANGED <<status, links, ops>>

\* Mutant: another attempt writes what was computed for the first.
BadRetry(r) ==
  LET o == op[r] IN
  /\ o.step = "put" /\ ~ o.clean
  /\ IF o.attempt + 1 < MaxAttempts
       THEN op' = [op EXCEPT ![r] = [o EXCEPT !.clean = TRUE, !.attempt = o.attempt + 1]]
       ELSE Finish(r)
  /\ UNCHANGED <<status, links, ops>>

\* The row has been written since: another attempt, or a conflict for the
\* caller after the last.
Overtaken(r) ==
  LET o == op[r] IN
  /\ o.step = "put" /\ ~ o.clean
  /\ IF o.attempt + 1 < MaxAttempts
       THEN op' = [op EXCEPT ![r] = [o EXCEPT !.step = "get", !.attempt = o.attempt + 1]]
       ELSE Finish(r)
  /\ UNCHANGED <<status, links, ops>>

-----------------------------------------------------------------------------
(* The rest of the system writes the row too.                              *)

\* Any other write: a review that approves the task, or one that leaves its
\* status here (an upload, a deadline, the mark of the content push).
OtherWrite(t) ==
  /\ status[t] # "GONE"
  /\ status' \in {status, [status EXCEPT ![t] = "APPROVED"]}
  /\ op' = Overtake(op, t)
  /\ UNCHANGED <<links, ops>>

\* remove()
Remove(t) ==
  /\ status[t] # "GONE" /\ ops < MaxOps /\ ops' = ops + 1
  /\ status' = [status EXCEPT ![t] = "GONE"]
  /\ links' = [links EXCEPT ![t] = {}]
  /\ op' = Overtake(op, t)

LinksNext ==
  \/ \E r \in Request, t \in Task : OpenForm(r, t)
  \/ \E r \in Request, t \in Task : Refresh(r, t)
  \/ \E r \in Request, t \in Task, u \in Url : Sync(r, t, u)
  \/ \E r \in Request, t \in Task, u \in Url : Match(r, t, u)
  \/ \E r \in Request : SubmitForm(r)
  \/ \E r \in Request : CheckForm(r)
  \/ \E r \in Request : Abandon(r)
  \/ \E r \in Request : Get(r)
  \/ \E r \in Request : Put(r)
  \/ \E r \in Request : Overtaken(r)
  \/ \E t \in Task : OtherWrite(t)
  \/ \E t \in Task : Remove(t)

LinksSpec == LinksInit /\ [][LinksNext]_linkVars

-----------------------------------------------------------------------------
(* The abstract specification: what every request past its checks is about *)
(* to do is asked of a table that does it in one step.                     *)

Asked(o) ==
  IF o.step \notin {"get", "put"} THEN NoChange
  ELSE CASE o.kind = "save"    -> [kind |-> "save", task |-> o.task, form |-> o.form,
                                   fetched |-> o.fetched]
         [] o.kind = "refresh" -> [kind |-> "refresh", task |-> o.task, fetched |-> o.fetched]
         [] o.kind = "attach"  -> [kind |-> "attach", task |-> o.task, entry |-> o.entry]

Table ==
  INSTANCE LinkTable WITH asked <- [r \in Request |-> Asked(op[r])],
                          gone <- {t \in Task : status[t] = "GONE"}

-----------------------------------------------------------------------------
(* Properties.                                                             *)

Op == [step : {"idle", "form", "check", "get", "put"},
       kind : {"none", "save", "refresh", "attach"},
       task : Task \cup {NoTask},
       form : SUBSET Link, fetched : SUBSET Link,
       entry : [id : LinkId \cup {NoLink}, url : Url \cup {NoUrl}, stats : Stats \cup {NoStats}],
       seen : SUBSET Link, clean : BOOLEAN, attempt : 0 .. MaxAttempts - 1]

LinksTypeOK ==
  /\ status \in [Task -> {"OPEN", "APPROVED", "GONE"}]
  /\ links \in [Task -> SUBSET Link]
  /\ op \in [Request -> Op]
  /\ ops \in 0 .. MaxOps

\* A task never holds a url twice, whoever adds it: each automatic writer
\* decides on the array it writes over, and the form is checked as a whole.
OncePerTask ==
  \A t \in Task : \A k, l \in links[t] : k.url = l.url => k = l

\* A link never carries the figures of another url: not of the one it had
\* before an edit made while the figures were being fetched.
StatsMatchUrl ==
  \A t \in Task : \A l \in links[t] : l.stats # NoStats => l.stats.of = l.url

\* The request whose write a step is.
WrittenBy(r, kind) == op[r].kind = kind /\ op[r].step = "put" /\ op'[r] = IdleOp

\* A link leaves the array of a task only because a form that does not have
\* it is saved, or with the task; it enters only by a form or an attachment.
\* So a refresh brings back nothing that was removed while it waited, and no
\* automatic writer loses what another wrote.
LinksHaveOwners ==
  [][\A t \in Task :
       /\ \A l \in links[t] :
            \/ HasKey(links'[t], l) \/ status'[t] = "GONE"
            \/ \E r \in Request : WrittenBy(r, "save") /\ op[r].task = t /\ ~ HasKey(op[r].form, l)
       /\ \A l \in links'[t] :
            \/ HasKey(links[t], l)
            \/ \E r \in Request : WrittenBy(r, "save") /\ op[r].task = t /\ HasKey(op[r].form, l)
            \/ \E r \in Request : WrittenBy(r, "attach") /\ op[r].task = t /\ op[r].entry = l
    ]_linkVars

\* Only a refresh replaces the figures of a link that has some: a form saved
\* later does not put back the ones it was opened with.
SaveKeepsStats ==
  [][\A t \in Task : \A k \in links[t], l \in links'[t] :
       Key(k) = Key(l) /\ k.stats # NoStats /\ k.stats # l.stats
         => \E r \in Request : WrittenBy(r, "refresh") /\ op[r].task = t /\ l \in op[r].fetched
    ]_linkVars

\* Every write has the effect it would have if the task were locked from the
\* read to the write: it changes the array as it is at that moment, by what
\* the request asked for and only once, and never the array of a deleted
\* task; a request that gives up has changed nothing.
WritesAreAtomic == Table!Spec
=============================================================================
