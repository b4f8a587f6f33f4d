----------------------------- MODULE DailyPlans -----------------------------
(***************************************************************************)
(* The suggestions of one daily plan (one person, team, line and day) and  *)
(* the tasks its owner makes of them.  A double click, two tabs, a search  *)
(* that finds what is already suggested, a run of the planner in the       *)
(* middle of it, a deleted task: none of them is under a lock.  What keeps *)
(* them apart is a claim, `used_at`, written by one conditional update     *)
(* before a task is made, given back when the making fails, and void after *)
(* SUGGESTION_CLAIM_TIMEOUT_MS when the request died with it.              *)
(*                                                                         *)
(* Source: src/src/modules/task-auto/daily-plans/daily-plans.service.ts    *)
(* (quickCreate, quickCreateFromSearch), daily-plan-builder.service.ts     *)
(* (draftTeamPlans, persistTeamPlans), and create() and remove() of        *)
(* tasks/tasks.service.ts as they call them.                               *)
(*                                                                         *)
(* Abstractions.  A material is a content of a warehouse, or a video of    *)
(* which a content (a draft) must first be made.  Time is the age of a     *)
(* claim, counted in ticks up to MaxAge.  The quotas, the ranking and the  *)
(* notices of the planner are left out: it suggests any materials the      *)
(* person has not used, and no draft.  A request runs once; its tasks and  *)
(* drafts are named after the request and the row they were made for.      *)
(***************************************************************************)
EXTENDS Integers

CONSTANTS
  Material, Video,   \* Video: the materials a draft must be made of first
  Request, Run, None,
  ClaimTimeout,      \* SUGGESTION_CLAIM_TIMEOUT_MS, in ticks
  MaxRun,            \* the ticks the planner takes for one team, at most
  MaxRows,           \* bound of the model on suggestions ever written
  MaxFaults          \* bound of the model on failing queries

Row    == 1 .. MaxRows
NoRow  == 0
Task   == Request \X (0 .. MaxRows)   \* also the name of the draft made for it
NotUsed == -1
MaxAge == ClaimTimeout + MaxRun + 1
Content == Material \cup Task

ASSUME PlansAssumption ==
  /\ Video \subseteq Material /\ Material \cap Task = {}
  /\ None \notin Material \cup Task \cup Run
  /\ ClaimTimeout \in Nat /\ MaxRun \in Nat
  /\ MaxRows \in Nat /\ MaxFaults \in Nat

VARIABLES
  plan,      \* the row of daily_line_plans: the run that made it, or None
  rows,      \* its rows of daily_line_plan_suggestions
  lastRow,   \* rows ever written
  material,  \* content_id or video_post_id of each row
  usedAge,   \* ticks since used_at; NotUsed for null
  linked,    \* task_id
  tasks,     \* the tasks of the owner
  content,   \* the content of each task; None also once the content is deleted
  drafts,    \* [task name -> video]: the contents made of videos; None for none
  req, run,  \* where each request and each run of the planner is
  faults,
  slow,      \* history: rows whose claim ended before the task it was for was linked
  exposed,   \* history: tasks made with a draft another request may still take back
  raced      \* history: a suggestion came into use while the planner was replacing them

plansVars == <<plan, rows, lastRow, material, usedAge, linked, tasks, content,
               drafts, req, run, faults, slow, exposed, raced>>

IdleReq == [pc |-> "idle", quick |-> FALSE, todo |-> {}, seen |-> {}, cur |-> NoRow,
            mat |-> None, content |-> None, made |-> FALSE, cand |-> NoRow]
IdleRun == [pc |-> "idle", elapsed |-> 0, plan |-> None, want |-> {}, used |-> {}]
OverReq == [IdleReq EXCEPT !.pc = "done"]
OverRun == [IdleRun EXCEPT !.pc = "done"]

PlansInit ==
  /\ plan = None /\ rows = {} /\ lastRow = 0
  /\ material = [s \in Row |-> None]
  /\ usedAge = [s \in Row |-> NotUsed]
  /\ linked = [s \in Row |-> None]
  /\ tasks = {}
  /\ content = [t \in Task |-> None]
  /\ drafts = [d \in Task |-> None]
  /\ req = [q \in Request |-> IdleReq]
  /\ run = [b \in Run |-> IdleRun]
  /\ faults = 0 /\ slow = {} /\ exposed = {} /\ raced = FALSE

-----------------------------------------------------------------------------
(* The conditions of the queries.                                          *)

\* Mutant: the claim does not look at used_at.
BadUnclaimed(s) == s \in rows /\ linked[s] = None

\* WHERE id AND task_id IS NULL AND (used_at IS NULL OR used_at < cutoff)
Claimable(s) ==
  /\ s \in rows /\ linked[s] = None
  /\ usedAge[s] = NotUsed \/ usedAge[s] > ClaimTimeout

\* inUse, with the cutoff run b computed when it began
InUse(b, s) ==
  /\ s \in rows
  /\ linked[s] # None \/ usedAge[s] \in 0 .. (ClaimTimeout + run[b].elapsed)

\* Mutant: the planner replaces everything that is not being made just now.
BadReplaceable(b, s) ==
  s \in rows /\ (usedAge[s] = NotUsed \/ usedAge[s] > ClaimTimeout + run[b].elapsed)

\* What the planner deletes: written out, and not as the negation of inUse.
Replaceable(b, s) ==
  /\ s \in rows /\ linked[s] = None
  /\ usedAge[s] = NotUsed \/ usedAge[s] > ClaimTimeout + run[b].elapsed

HasDraft(m) == \E d \in Task : drafts[d] = m

ContentExists(c) == c \in Material \/ (c \in Task /\ drafts[c] # None)

\* pickContentSuggestions, pickWinVideoSuggestions: nothing the person has a
\* task or a draft of.
Pickable == {m \in Material : ~ HasDraft(m) /\ \A t \in tasks : content[t] # m}

\* A request that has claimed row s, and has not linked or released it.
Holds(q, s) ==
  /\ req[q].quick /\ req[q].cur = s
  /\ req[q].pc \in {"find", "make", "task", "link", "release"}

\* A request that may still delete the draft it made.
MayDrop(q, c) ==
  /\ req[q].made /\ req[q].content = c
  /\ req[q].pc \in {"recent", "task", "release", "drop"}

\* The planner has read the rows in use, and not yet deleted the others.
Replacing(b) == run[b].pc \in {"update", "clear"}

ComesIntoUse(s) ==
  raced' = (raced \/ (s \in rows /\ \E b \in Run : Replacing(b) /\ material[s] \notin run[b].used))

-----------------------------------------------------------------------------
(* quickCreate(): one suggestion of the list after the other.              *)

planVars  == <<plan, rows, lastRow, material>>
taskVars  == <<tasks, content>>
history   == <<slow, exposed, raced>>

\* Next suggestion of the list, or the end of the request.
NextOf(r) ==
  IF r.todo \subseteq {r.cur} THEN OverReq
  ELSE [IdleReq EXCEPT !.pc = "claim", !.quick = TRUE, !.todo = r.todo \ {r.cur}, !.seen = r.seen]

Go(q, r) == req' = [req EXCEPT ![q] = r]

StartQuick(q, ids) ==
  /\ req[q].pc = "idle" /\ ids # {} /\ ids \subseteq rows
  /\ Go(q, [req[q] EXCEPT !.pc = "claim", !.quick = TRUE, !.todo = ids,
                          !.seen = {s \in ids : linked[s] # None}])
  /\ UNCHANGED <<planVars, usedAge, linked, taskVars, drafts, run, faults, history>>

Claim(q, s) ==
  /\ req[q].pc = "claim" /\ s \in req[q].todo \ req[q].seen
  /\ Claimable(s)
  /\ usedAge' = [usedAge EXCEPT ![s] = 0]
  /\ LET v == material[s] \in Video IN
     Go(q, [req[q] EXCEPT !.pc = IF v THEN "find" ELSE "task", !.cur = s, !.mat = material[s],
                          !.content = IF v THEN None ELSE material[s]])
  /\ slow' = IF usedAge[s] > ClaimTimeout /\ \E q2 \in Request : Holds(q2, s)
             THEN slow \cup {s} ELSE slow
  /\ ComesIntoUse(s)
  /\ UNCHANGED <<planVars, linked, taskVars, drafts, run, faults, exposed>>

\* "This suggestion has a task already."
Refuse(q, s) ==
  /\ req[q].pc = "claim" /\ s \in req[q].todo
  /\ s \in req[q].seen \/ ~ Claimable(s)
  /\ Go(q, NextOf([req[q] EXCEPT !.cur = s]))
  /\ UNCHANGED <<planVars, usedAge, linked, taskVars, drafts, run, faults, history>>

\* The search looks for a double click before it makes the task.
WithContent(r) == IF r.quick THEN "task" ELSE "recent"

\* Mutant: a draft that was found is taken for one that was made.
BadFound(r, d) == [r EXCEPT !.content = d, !.made = TRUE, !.pc = WithContent(r)]

Found(r, d) == [r EXCEPT !.content = d, !.pc = WithContent(r)]

\* findOrCreateVideoContent(), first half.
FindContent(q) ==
  /\ req[q].pc = "find"
  /\ IF HasDraft(req[q].mat)
     THEN \E d \in Task : drafts[d] = req[q].mat /\ Go(q, Found(req[q], d))
     ELSE Go(q, [req[q] EXCEPT !.pc = "make"])
  /\ UNCHANGED <<planVars, usedAge, linked, taskVars, drafts, run, faults, history>>

\* findOrCreateVideoContent(), second half.
MakeContent(q) ==
  LET d == <<q, req[q].cur>> IN
  /\ req[q].pc = "make"
  /\ drafts' = [drafts EXCEPT ![d] = req[q].mat]
  /\ Go(q, [req[q] EXCEPT !.content = d, !.made = TRUE, !.pc = WithContent(req[q])])
  /\ UNCHANGED <<planVars, usedAge, linked, taskVars, run, faults, history>>

\* tasks.create()
CreateTask(q) ==
  LET t == <<q, req[q].cur>> IN
  /\ req[q].pc = "task" /\ ContentExists(req[q].content)
  /\ tasks' = tasks \cup {t}
  /\ content' = [content EXCEPT ![t] = req[q].content]
  /\ exposed' = IF \E q2 \in Request \ {q} : MayDrop(q2, req[q].content)
                THEN exposed \cup {t} ELSE exposed
  /\ Go(q, [req[q] EXCEPT !.pc = IF req[q].quick THEN "link" ELSE "seek",
                          !.content = None, !.made = FALSE])
  /\ UNCHANGED <<planVars, usedAge, linked, drafts, run, faults, slow, raced>>

\* The catch block: quickCreate releases the claim first; both delete the
\* content they made.
AfterError(r) ==
  CASE r.quick              -> [r EXCEPT !.pc = "release"]
    [] ~ r.quick /\ r.made   -> [r EXCEPT !.pc = "drop"]
    [] ~ r.quick /\ ~ r.made -> OverReq

\* create() throws: it refuses (no member of the team, a line or a content
\* that is gone), or one of its queries fails before the row is written.
CreateTaskFails(q) ==
  /\ req[q].pc = "task"
  /\ Go(q, AfterError(req[q]))
  /\ UNCHANGED <<planVars, usedAge, linked, taskVars, drafts, run, faults, history>>

\* The row is written and the connection is lost before the answer: the
\* catch block takes it for a task that was not made.
CreateTaskUnanswered(q) ==
  LET t == <<q, req[q].cur>> IN
  /\ req[q].pc = "task" /\ ContentExists(req[q].content)
  /\ faults < MaxFaults /\ faults' = faults + 1
  /\ tasks' = tasks \cup {t}
  /\ content' = [content EXCEPT ![t] = req[q].content]
  /\ slow' = slow \cup {req[q].cur}
  /\ exposed' = exposed \cup {t}
  /\ Go(q, AfterError(req[q]))
  /\ UNCHANGED <<planVars, usedAge, linked, drafts, run, raced>>

\* updateMany where id; the foreign key refuses a task deleted meanwhile.
LinkedWith(s, t) == IF s \in rows /\ t \in tasks THEN [linked EXCEPT ![s] = t] ELSE linked

Link(q) ==
  LET s == req[q].cur IN
  /\ req[q].pc = "link"
  /\ linked' = LinkedWith(s, <<q, s>>)
  /\ ComesIntoUse(s)
  /\ Go(q, NextOf(req[q]))
  /\ UNCHANGED <<planVars, usedAge, taskVars, drafts, run, faults, slow, exposed>>

LinkFails(q) ==
  /\ req[q].pc = "link" /\ faults < MaxFaults /\ faults' = faults + 1
  /\ slow' = slow \cup {req[q].cur}
  /\ Go(q, NextOf(req[q]))
  /\ UNCHANGED <<planVars, usedAge, linked, taskVars, drafts, run, exposed, raced>>

AfterRelease(r) == IF r.made THEN [r EXCEPT !.pc = "drop"] ELSE NextOf(r)

\* updateMany where id AND task_id IS NULL
Release(q) ==
  LET s == req[q].cur IN
  /\ req[q].pc = "release"
  /\ usedAge' = IF s \in rows /\ linked[s] = None THEN [usedAge EXCEPT ![s] = NotUsed] ELSE usedAge
  /\ Go(q, AfterRelease(req[q]))
  /\ UNCHANGED <<planVars, linked, taskVars, drafts, run, faults, history>>

ReleaseFails(q) ==
  /\ req[q].pc = "release" /\ faults < MaxFaults /\ faults' = faults + 1
  /\ Go(q, AfterRelease(req[q]))
  /\ UNCHANGED <<planVars, usedAge, linked, taskVars, drafts, run, history>>

AfterDrop(r) == IF r.quick THEN NextOf(r) ELSE OverReq

\* editorContent.delete; the foreign key of a task is set to null.
DropContent(q) ==
  LET d == req[q].content IN
  /\ req[q].pc = "drop"
  /\ drafts' = [drafts EXCEPT ![d] = None]
  /\ content' = [t \in Task |-> IF content[t] = d THEN None ELSE content[t]]
  /\ Go(q, AfterDrop(req[q]))
  /\ UNCHANGED <<planVars, usedAge, linked, tasks, run, faults, history>>

DropFails(q) ==
  /\ req[q].pc = "drop" /\ faults < MaxFaults /\ faults' = faults + 1
  /\ Go(q, AfterDrop(req[q]))
  /\ UNCHANGED <<planVars, usedAge, linked, taskVars, drafts, run, history>>

-----------------------------------------------------------------------------
(* quickCreateFromSearch()                                                 *)

StartSearch(q, m) ==
  /\ req[q].pc = "idle" /\ plan # None
  /\ Go(q, [req[q] EXCEPT !.mat = m, !.pc = IF m \in Video THEN "find" ELSE "recent",
                          !.content = IF m \in Video THEN None ELSE m])
  /\ UNCHANGED <<planVars, usedAge, linked, taskVars, drafts, run, faults, history>>

\* A task made of the same content within SEARCH_DUPLICATE_WINDOW_MS is
\* taken for the first click; the age of a task is a free choice.
FindRecent(q) ==
  /\ req[q].pc = "recent"
  /\ \/ Go(q, [req[q] EXCEPT !.pc = "task"])
     \/ (\E t \in tasks : content[t] = req[q].content) /\ Go(q, OverReq)
  /\ UNCHANGED <<planVars, usedAge, linked, taskVars, drafts, run, faults, history>>

\* A suggestion of the plan for what the search found, if one has no task.
SeekSuggestion(q) ==
  LET S == {s \in rows : linked[s] = None /\ material[s] = req[q].mat} IN
  /\ req[q].pc = "seek"
  /\ IF S = {} THEN Go(q, OverReq)
     ELSE \E s \in S : Go(q, [req[q] EXCEPT !.cand = s, !.pc = "attach"])
  /\ UNCHANGED <<planVars, usedAge, linked, taskVars, drafts, run, faults, history>>

\* updateMany where id AND task_id IS NULL
Attach(q) ==
  LET s == req[q].cand
      t == <<q, NoRow>>
      hit == s \in rows /\ linked[s] = None /\ t \in tasks IN
  /\ req[q].pc = "attach"
  /\ linked' = IF hit THEN [linked EXCEPT ![s] = t] ELSE linked
  /\ usedAge' = IF hit THEN [usedAge EXCEPT ![s] = 0] ELSE usedAge
  /\ ComesIntoUse(s)
  /\ Go(q, OverReq)
  /\ UNCHANGED <<planVars, taskVars, drafts, run, faults, slow, exposed>>

AttachFails(q) ==
  /\ req[q].pc = "attach" /\ faults < MaxFaults /\ faults' = faults + 1
  /\ Go(q, OverReq)
  /\ UNCHANGED <<planVars, usedAge, linked, taskVars, drafts, run, history>>

\* Any other query throws: inside the try of quickCreate() it is a failed
\* suggestion; elsewhere the request ends and cleans up nothing.
QueryFails(q) ==
  /\ req[q].pc \in {"claim", "find", "make", "recent", "seek"}
  /\ faults < MaxFaults /\ faults' = faults + 1
  /\ Go(q, IF req[q].quick /\ req[q].pc # "claim" THEN [req[q] EXCEPT !.pc = "release"] ELSE OverReq)
  /\ UNCHANGED <<planVars, usedAge, linked, taskVars, drafts, run, history>>

\* Mutant: task_id is a plain column, and a deleted task stays linked.
BadRemoveTask(t) ==
  /\ t \in tasks
  /\ tasks' = tasks \ {t}
  /\ content' = [content EXCEPT ![t] = None]
  /\ UNCHANGED <<planVars, usedAge, linked, drafts, req, run, faults, history>>

\* remove(): the owner may delete a task he made; task_id is set to null.
RemoveTask(t) ==
  /\ t \in tasks
  /\ tasks' = tasks \ {t}
  /\ content' = [content EXCEPT ![t] = None]
  /\ linked' = [s \in Row |-> IF linked[s] = t THEN None ELSE linked[s]]
  /\ UNCHANGED <<planVars, usedAge, drafts, req, run, faults, history>>

-----------------------------------------------------------------------------
(* A run of the planner for the team: draftTeamPlans(), persistTeamPlans(). *)

reqVars == <<tasks, content, drafts, req>>
At(b, pc) == run' = [run EXCEPT ![b].pc = pc]
Over(b)   == run' = [run EXCEPT ![b] = OverRun]

\* The reads of the draft, up to the computation of the cutoff.  The owner
\* may have no quota any more (then the run keeps no plan of his).
StartRun(b, quota, want) ==
  /\ run[b].pc = "idle"
  /\ want \subseteq Pickable /\ (~ quota => want = {})
  /\ run' = [run EXCEPT ![b].pc = IF quota THEN "read" ELSE "prune", ![b].want = want]
  /\ UNCHANGED <<planVars, usedAge, linked, reqVars, faults, history>>

ReadPlan(b) ==
  /\ run[b].pc = "read"
  /\ run' = [run EXCEPT ![b].pc = IF plan = None THEN "create" ELSE "update",
                        ![b].plan = plan,
                        ![b].used = {material[s] : s \in {r \in rows : InUse(b, r)}}]
  /\ raced' = (raced \/ \E b2 \in Run \ {b} : run[b2].pc \notin {"idle", "read", "prune", "done"})
  /\ UNCHANGED <<planVars, usedAge, linked, reqVars, faults, slow, exposed>>

\* An update of a plan deleted meanwhile throws and ends the run.
UpdatePlan(b) ==
  /\ run[b].pc = "update"
  /\ IF plan = run[b].plan THEN At(b, "clear") ELSE Over(b)
  /\ UNCHANGED <<planVars, usedAge, linked, reqVars, faults, history>>

\* Rows that are no more say nothing.
Delete(S) ==
  /\ rows' = rows \ S
  /\ material' = [s \in Row |-> IF s \in S THEN None ELSE material[s]]
  /\ usedAge' = [s \in Row |-> IF s \in S THEN NotUsed ELSE usedAge[s]]

ClearRows(b) ==
  /\ run[b].pc = "clear"
  /\ Delete(IF plan = run[b].plan THEN {s \in rows : Replaceable(b, s)} ELSE {})
  /\ At(b, "add")
  /\ UNCHANGED <<plan, lastRow, linked, reqVars, faults, history>>

\* Two runs that both found no plan: the unique key refuses the second.
CreatePlan(b) ==
  /\ run[b].pc = "create"
  /\ IF plan = None
     THEN plan' = b /\ run' = [run EXCEPT ![b].pc = "add", ![b].plan = b]
     ELSE plan' = plan /\ Over(b)
  /\ UNCHANGED <<rows, lastRow, material, usedAge, linked, reqVars, faults, history>>

\* Mutant: what is in use is suggested again.
BadToAdd(b) == run[b].want

ToAdd(b) == run[b].want \ run[b].used

\* createMany; the foreign key refuses it when the plan is gone.
AddRows(b) ==
  /\ run[b].pc = "add"
  /\ \/ /\ plan = run[b].plan
        /\ \E n \in 0 .. (MaxRows - lastRow) :
             \E f \in [(lastRow + 1) .. (lastRow + n) -> ToAdd(b)] :
               /\ \A i, j \in DOMAIN f : f[i] = f[j] => i = j
               /\ \A m \in ToAdd(b) : \E i \in DOMAIN f : f[i] = m
               /\ material' = [s \in Row |-> IF s \in DOMAIN f THEN f[s] ELSE material[s]]
               /\ rows' = rows \cup DOMAIN f /\ lastRow' = lastRow + n
        /\ run' = [run EXCEPT ![b].pc = "prune", ![b].want = {}, ![b].used = {}]
     \/ /\ plan # run[b].plan
        /\ IF ToAdd(b) = {}
           THEN run' = [run EXCEPT ![b].pc = "prune", ![b].want = {}, ![b].used = {}] ELSE Over(b)
        /\ UNCHANGED <<material, rows, lastRow>>
  /\ UNCHANGED <<plan, usedAge, linked, reqVars, faults, history>>

\* Plans of the day that the run did not keep and nobody has a task of.
Prunable(b) == plan # None /\ plan # run[b].plan /\ \A s \in rows : linked[s] = None

PrunePlans(b) ==
  /\ run[b].pc = "prune"
  /\ plan' = IF Prunable(b) THEN None ELSE plan
  /\ Delete(IF Prunable(b) THEN rows ELSE {})
  /\ Over(b)
  /\ UNCHANGED <<lastRow, linked, reqVars, faults, history>>

RunFails(b) ==
  /\ run[b].pc \notin {"idle", "done"} /\ faults < MaxFaults /\ faults' = faults + 1
  /\ Over(b)
  /\ UNCHANGED <<planVars, usedAge, linked, reqVars, history>>

-----------------------------------------------------------------------------
\* MaxAge is past every limit the ages are compared with.
Older(age) == IF age < MaxAge THEN age + 1 ELSE age

Running(b) == run[b].pc \notin {"idle", "done"}

Tick ==
  /\ \A b \in Run : Running(b) => run[b].elapsed < MaxRun
  /\ usedAge' = [s \in Row |-> IF usedAge[s] = NotUsed THEN NotUsed ELSE Older(usedAge[s])]
  /\ run' = [b \in Run |-> IF Running(b) THEN [run[b] EXCEPT !.elapsed = @ + 1] ELSE run[b]]
  /\ UNCHANGED <<planVars, linked, tasks, content, drafts, req, faults, history>>

RequestStep(q) ==
  \/ \E ids \in SUBSET Row : StartQuick(q, ids)
  \/ \E s \in Row : Claim(q, s) \/ Refuse(q, s)
  \/ \E m \in Material : StartSearch(q, m)
  \/ FindContent(q) \/ MakeContent(q) \/ FindRecent(q)
  \/ CreateTask(q) \/ CreateTaskFails(q) \/ CreateTaskUnanswered(q)
  \/ Link(q) \/ LinkFails(q) \/ Release(q) \/ ReleaseFails(q)
  \/ DropContent(q) \/ DropFails(q)
  \/ SeekSuggestion(q) \/ Attach(q) \/ AttachFails(q)
  \/ QueryFails(q)

RunStep(b) ==
  \/ ReadPlan(b) \/ UpdatePlan(b) \/ ClearRows(b) \/ CreatePlan(b)
  \/ AddRows(b) \/ PrunePlans(b)

PlansNext ==
  \/ \E q \in Request : RequestStep(q)
  \/ \E t \in Task : RemoveTask(t)
  \/ \E b \in Run, quota \in BOOLEAN, want \in SUBSET Material : StartRun(b, quota, want)
  \/ \E b \in Run : RunStep(b) \/ RunFails(b)
  \/ Tick

\* A request may stop anywhere for good: that is how a process that died
\* looks to the others.
PlansSpec == PlansInit /\ [][PlansNext]_plansVars

-----------------------------------------------------------------------------
ReqPc == {"idle", "claim", "find", "make", "recent", "task", "link", "release", "drop",
          "seek", "attach", "done"}
RunPc == {"idle", "read", "update", "clear", "create", "add", "prune", "done"}

ReqState == [pc : ReqPc, quick : BOOLEAN, todo : SUBSET Row, seen : SUBSET Row,
             cur : Row \cup {NoRow}, mat : Material \cup {None},
             content : Content \cup {None}, made : BOOLEAN, cand : Row \cup {NoRow}]
RunState == [pc : RunPc, elapsed : 0 .. MaxRun, plan : Run \cup {None},
             want : SUBSET Material, used : SUBSET (Material \cup {None})]

\* Everything keeps its type: a suggestion is linked only to a task that is
\* still there, whenever the task was deleted, before or after the link.
PlansTypeOK ==
  /\ plan \in Run \cup {None}
  /\ rows \subseteq 1 .. lastRow /\ lastRow \in 0 .. MaxRows
  /\ material \in [Row -> Material \cup {None}]
  /\ usedAge \in [Row -> {NotUsed} \cup (0 .. MaxAge)]
  /\ linked \in [Row -> tasks \cup {None}]
  /\ tasks \subseteq Task
  /\ content \in [Task -> Content \cup {None}]
  /\ drafts \in [Task -> Video \cup {None}]
  /\ req \in [Request -> ReqState]
  /\ run \in [Run -> RunState]
  /\ faults \in 0 .. MaxFaults
  /\ slow \subseteq Row \cup {NoRow} /\ exposed \subseteq Task /\ raced \in BOOLEAN

\* However often a suggestion is clicked, in however many tabs, and whatever
\* the planner and the search do meanwhile, it has at most one task; unless
\* the making outlived the claim, or ended before the task was put in.
OneTaskEach ==
  \A q1, q2 \in Request, s \in Row \ slow :
    <<q1, s>> \in tasks /\ <<q2, s>> \in tasks => q1 = q2

\* The planner never suggests twice what is already suggested, unless a
\* suggestion came into use between its read of those in use and its
\* deletion of the others, or another run was replacing them too.
NoTwins ==
  raced \/ \A s1, s2 \in rows : material[s1] = material[s2] => s1 = s2

\* No request deletes the content under a task; unless the task took a draft
\* its maker was still busy with, or its maker never heard of it.
TaskKeepsContent == \A t \in tasks \ exposed : content[t] # None

\* A run of the planner takes away no suggestion that has a task, and none
\* that is being made a task of, except with its whole plan.
KeptOnRerun ==
  [][\A s \in rows \ rows' :
       linked[s] = None /\ (usedAge[s] \in 0 .. ClaimTimeout => plan' # plan)]_plansVars
=============================================================================
