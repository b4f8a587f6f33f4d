-------------------------- MODULE DailyPlansProofs --------------------------
(***************************************************************************)
(* Proofs about DailyPlans, for any number of requests, runs of the        *)
(* planner, materials, suggestions and failing queries, and any claim      *)
(* timeout:                                                                *)
(*   PlansTyped         the type invariant                                 *)
(*   OneTaskCorrect     a suggestion has at most one task                  *)
(*   NoTwinsCorrect     the planner suggests nothing twice                 *)
(*   ContentCorrect     no request deletes the content under a task        *)
(*   RerunCorrect       a run takes away nothing that is in use            *)
(* Each of the invariants is strengthened by what the requests or the runs *)
(* in the middle of their steps may rely on: OneInv by what a claim means, *)
(* TwinInv by what a run has read, KeepInv by what a draft's maker knows.  *)
(***************************************************************************)
EXTENDS DailyPlans, TLAPS

(* A request at each of its steps. *)
Shape(r) ==
  /\ r.pc = "idle" => r = IdleReq
  /\ r.pc \in {"claim", "link", "release"} => r.quick
  /\ r.pc \in {"recent", "seek", "attach"} => ~ r.quick
  /\ r.quick /\ r.pc # "claim" => r.cur \in Row
  /\ ~ r.quick \/ r.pc = "claim" => r.cur = NoRow
  /\ r.pc \in {"find", "make"} => r.mat \in Video
  /\ r.pc \in {"claim", "find", "make"} => ~ r.made
  /\ r.pc = "drop" => r.made
  /\ \A s \in r.todo : s <= lastRow
  /\ r.cur <= lastRow

Typed ==
  /\ PlansTypeOK
  /\ \A q \in Request : Shape(req[q])
  /\ \A t \in tasks : t[2] <= lastRow

(* A claim excludes other claims and other tasks, and lasts until the task *)
(* it was taken for is in its row. *)
ClaimsAreOne(s) ==
  \A q1, q2 \in Request : Holds(q1, s) /\ Holds(q2, s) => q1 = q2
ClaimsShow(s) ==
  \A q \in Request : Holds(q, s) => s \notin rows \/ usedAge[s] # NotUsed
TasksAreLinked(s) ==
  \A q \in Request : <<q, s>> \in tasks =>
    \/ Holds(q, s) /\ req[q].pc = "link"
    \/ s \notin rows
    \/ linked[s] = <<q, s>>
ClaimsAreFree(s) ==
  \A q1, q2 \in Request : Holds(q2, s) /\ <<q1, s>> \in tasks => q1 = q2

OneInv ==
  /\ OneTaskEach
  /\ \A s \in Row \ slow :
       ClaimsAreOne(s) /\ ClaimsShow(s) /\ TasksAreLinked(s) /\ ClaimsAreFree(s)

(* What a run between its read and its insertion relies on. *)
Active(b) == run[b].pc \in {"update", "clear", "create", "add"}

Distinct     == \A s1, s2 \in rows : material[s1] = material[s2] => s1 = s2
NoPlanNoRows == plan = None => rows = {}
OneActive    == \A b1, b2 \in Run : Active(b1) /\ Active(b2) => b1 = b2
PlansKnown   == \A b \in Run : Active(b) /\ run[b].pc # "create" => run[b].plan # None
ReadsHold    == \A b \in Run, s \in Row :
                  Replacing(b) /\ InUse(b, s) => material[s] \in run[b].used
AddsAreNew   == \A b \in Run : run[b].pc = "add" /\ plan = run[b].plan =>
                                 \A s \in rows : material[s] \in run[b].used
CreatesEmpty == \A b \in Run : run[b].pc = "create" => run[b].used = {}

RunsAgree ==
  /\ Distinct /\ NoPlanNoRows /\ OneActive /\ PlansKnown
  /\ ReadsHold /\ AddsAreNew /\ CreatesEmpty

TwinInv == raced \/ RunsAgree

(* What the request that made a draft may still do, and what it will name  *)
(* the drafts it has not made yet. *)
ToMake(q) ==
  LET r == req[q] IN
  CASE r.pc = "idle" -> 0 .. MaxRows
    [] r.pc \in {"find", "make"} -> r.todo \cup {r.cur}
    [] OTHER -> r.todo \ {r.cur}

KeepInv ==
  /\ \A t \in tasks \ exposed : ContentExists(content[t])
  /\ \A t \in tasks \ exposed, q \in Request : ~ MayDrop(q, content[t])
  /\ \A q \in Request : \A s \in ToMake(q) : drafts[<<q, s>>] = None

-----------------------------------------------------------------------------
(* Types.                                                                  *)

LEMMA Constants ==
  /\ MaxRows \in Nat /\ MaxFaults \in Nat /\ ClaimTimeout \in Nat /\ MaxRun \in Nat
  /\ Row = 1 .. MaxRows /\ NoRow = 0 /\ NotUsed = -1 /\ MaxAge = ClaimTimeout + MaxRun + 1
  /\ Task = Request \X (0 .. MaxRows) /\ Content = Material \cup Task
  /\ None \notin Material /\ None \notin Task /\ None \notin Run /\ Video \subseteq Material
  /\ \A c \in Material : c \notin Task
BY PlansAssumption DEF Row, NoRow, NotUsed, MaxAge, Task, Content

LEMMA IdleShape ==
  ASSUME lastRow \in Nat
  PROVE  /\ IdleReq \in ReqState /\ Shape(IdleReq) /\ OverReq \in ReqState /\ Shape(OverReq)
         /\ IdleRun \in RunState /\ OverRun \in RunState
<1>1. NoRow <= lastRow /\ 0 \in 0 .. MaxRun
  BY Constants
<1>2. IdleReq \in ReqState
  BY DEF IdleReq, ReqState, ReqPc
<1>3. OverReq \in ReqState
  BY <1>2 DEF OverReq, ReqState, ReqPc
<1>4. IdleRun \in RunState
  BY <1>1 DEF IdleRun, RunState, RunPc
<1>5. OverRun \in RunState
  BY <1>4 DEF OverRun, RunState, RunPc
<1>6. Shape(IdleReq) /\ Shape(OverReq)
  BY <1>1 DEF IdleReq, OverReq, Shape
<1> QED  BY <1>2, <1>3, <1>4, <1>5, <1>6

LEMMA NextShape ==
  ASSUME lastRow \in Nat, NEW r \in ReqState, \A s \in r.todo : s <= lastRow
  PROVE  NextOf(r) \in ReqState /\ Shape(NextOf(r))
<1>1. CASE r.todo \subseteq {r.cur}
  BY <1>1, IdleShape DEF NextOf
<1>2. CASE ~ (r.todo \subseteq {r.cur})
  <2> DEFINE n == [IdleReq EXCEPT !.pc = "claim", !.quick = TRUE, !.todo = r.todo \ {r.cur},
                                  !.seen = r.seen]
  <2>1. NextOf(r) = n
    BY <1>2 DEF NextOf
  <2>2. /\ n.pc = "claim" /\ n.quick /\ ~ n.made /\ n.cur = NoRow /\ n.todo \subseteq r.todo
    BY DEF IdleReq
  <2>4. n \in ReqState
    <3>1. r.todo \ {r.cur} \in SUBSET Row /\ r.seen \in SUBSET Row
      BY DEF ReqState
    <3> QED  BY <3>1 DEF IdleReq, ReqState, ReqPc
  <2> HIDE DEF n
  <2>3. Shape(n)
    BY <2>2, Constants DEF Shape
  <2> QED  BY <2>1, <2>3, <2>4
<1> QED  BY <1>1, <1>2

(* A request that has got its content. *)
LEMMA WithContentTyped ==
  ASSUME NEW r \in ReqState, NEW c \in Content \cup {None}, NEW p \in ReqPc
  PROVE  /\ [r EXCEPT !.content = c, !.pc = p] \in ReqState
         /\ [r EXCEPT !.content = c, !.made = TRUE, !.pc = p] \in ReqState
BY DEF ReqState

LEMMA ErrorShape ==
  ASSUME lastRow \in Nat, NEW r \in ReqState, Shape(r), r.pc \in {"task", "release", "drop"}
  PROVE  /\ r.pc = "task" => AfterError(r) \in ReqState /\ Shape(AfterError(r))
         /\ r.pc = "release" => AfterRelease(r) \in ReqState /\ Shape(AfterRelease(r))
         /\ r.pc = "drop" => AfterDrop(r) \in ReqState /\ Shape(AfterDrop(r))
<1>1. NextOf(r) \in ReqState /\ Shape(NextOf(r))
  BY NextShape DEF Shape
<1>2. OverReq \in ReqState /\ Shape(OverReq)
  BY IdleShape
<1>3. r.quick \in BOOLEAN /\ r.made \in BOOLEAN
  BY DEF ReqState
<1>4. ASSUME r.quick
      PROVE  [r EXCEPT !.pc = "release"] \in ReqState /\ Shape([r EXCEPT !.pc = "release"])
  BY <1>4 DEF ReqState, ReqPc, Shape
<1>5. ASSUME r.made
      PROVE  [r EXCEPT !.pc = "drop"] \in ReqState /\ Shape([r EXCEPT !.pc = "drop"])
  BY <1>5 DEF ReqState, ReqPc, Shape
<1> QED  BY <1>1, <1>2, <1>3, <1>4, <1>5 DEF AfterError, AfterRelease, AfterDrop

(* A step of one request. *)
LEMMA Goes ==
  ASSUME Typed, NEW q \in Request, NEW r \in ReqState, Shape(r), Go(q, r), lastRow' = lastRow
  PROVE  /\ req' \in [Request -> ReqState]
         /\ \A q2 \in Request : Shape(req[q2])'
         /\ req'[q] = r /\ \A q2 \in Request : q2 # q => req'[q2] = req[q2]
<1>1. req \in [Request -> ReqState]
  BY DEF Typed, PlansTypeOK
<1>2. /\ req' \in [Request -> ReqState] /\ req'[q] = r
      /\ \A q2 \in Request : q2 # q => req'[q2] = req[q2]
  BY <1>1 DEF Go
<1>3. ASSUME NEW q2 \in Request PROVE Shape(req'[q2])
  BY <1>2, <1>3 DEF Typed
<1>4. \A q2 \in Request : Shape(req[q2])'
  BY <1>3 DEF Shape
<1> QED  BY <1>2, <1>4

(* A step of one request that changes nothing but the request. *)
LEMMA GoesAlone ==
  ASSUME Typed, NEW q \in Request, NEW r \in ReqState, Shape(r), Go(q, r),
         UNCHANGED <<planVars, usedAge, linked, taskVars, drafts, run, history>>,
         faults' \in 0 .. MaxFaults
  PROVE  Typed'
BY Goes DEF Typed, PlansTypeOK, planVars, taskVars, history

LEMMA Here ==
  ASSUME Typed, NEW q \in Request
  PROVE  /\ req[q] \in ReqState /\ Shape(req[q]) /\ lastRow \in Nat
         /\ \A s \in req[q].todo : s <= lastRow
BY Constants DEF Typed, PlansTypeOK, Shape

LEMMA MoreFaults ==
  ASSUME Typed, faults < MaxFaults, faults' = faults + 1 PROVE faults' \in 0 .. MaxFaults
BY Constants DEF Typed, PlansTypeOK

LEMMA SameFaults == ASSUME Typed, faults' = faults PROVE faults' \in 0 .. MaxFaults
BY DEF Typed, PlansTypeOK

(* The steps of a request that write to no table. *)
LEMMA TypedQuiet ==
  ASSUME Typed, NEW q \in Request,
         \/ \E ids \in SUBSET Row : StartQuick(q, ids)
         \/ \E s \in Row : Refuse(q, s)
         \/ \E m \in Material : StartSearch(q, m)
         \/ FindContent(q) \/ CreateTaskFails(q)
         \/ ReleaseFails(q) \/ DropFails(q) \/ FindRecent(q)
         \/ SeekSuggestion(q) \/ AttachFails(q) \/ QueryFails(q)
  PROVE  Typed'
<1> DEFINE R == req[q]
<1>1. /\ R \in ReqState /\ Shape(R) /\ lastRow \in Nat
      /\ \A x \in R.todo : x <= lastRow
  BY Here
<1>2. OverReq \in ReqState /\ Shape(OverReq) /\ NextOf(R) \in ReqState /\ Shape(NextOf(R))
  BY <1>1, IdleShape, NextShape
<1>3. ASSUME NEW ids \in SUBSET Row, StartQuick(q, ids) PROVE Typed'
  <2> DEFINE seen == {x \in ids : linked[x] # None}
             r == [R EXCEPT !.pc = "claim", !.quick = TRUE, !.todo = ids, !.seen = seen]
  <2>1. /\ R = IdleReq /\ \A x \in ids : x <= lastRow
    <3>1. R = IdleReq /\ ids \subseteq rows
      BY <1>1, <1>3 DEF StartQuick, Shape
    <3>2. rows \subseteq 1 .. lastRow
      BY DEF Typed, PlansTypeOK
    <3>3. \A x \in ids : x \in 1 .. lastRow
      BY <3>1, <3>2
    <3> QED  BY <1>1, <3>1, <3>3
  <2>2. r \in ReqState
    <3>1. seen \in SUBSET Row
      OBVIOUS
    <3> HIDE DEF seen
    <3> QED  BY <1>1, <3>1 DEF ReqState, ReqPc
  <2>3. Shape(r)
    BY <1>1, <2>1, Constants DEF Shape, IdleReq
  <2> QED  BY <1>3, <2>2, <2>3, GoesAlone, SameFaults DEF StartQuick
<1>4. ASSUME NEW s \in Row, Refuse(q, s) PROVE Typed'
  <2>1. [R EXCEPT !.cur = s] \in ReqState /\ [R EXCEPT !.cur = s].todo = R.todo
    BY <1>1 DEF ReqState
  <2>2. /\ NextOf([R EXCEPT !.cur = s]) \in ReqState
        /\ Shape(NextOf([R EXCEPT !.cur = s]))
    BY <1>1, <2>1, NextShape
  <2> QED  BY <1>4, <2>2, GoesAlone, SameFaults DEF Refuse
<1>5. CASE FindContent(q)
  <2>1. ASSUME NEW d \in Task PROVE Found(R, d) \in ReqState /\ Shape(Found(R, d))
    <3>1. R.pc = "find" /\ WithContent(R) \in {"task", "recent"}
          /\ (WithContent(R) = "recent" => ~ R.quick)
      BY <1>5 DEF FindContent, WithContent
    <3>2. Found(R, d) \in ReqState
      <4>1. d \in Content \cup {None} /\ WithContent(R) \in ReqPc
        BY <3>1, Constants DEF ReqPc
      <4> QED  BY <1>1, <4>1, WithContentTyped DEF Found
    <3> QED  BY <1>1, <3>1, <3>2 DEF Found, Shape, ReqState
  <2>2. [R EXCEPT !.pc = "make"] \in ReqState /\ Shape([R EXCEPT !.pc = "make"])
    BY <1>1, <1>5 DEF FindContent, ReqState, ReqPc, Shape
  <2> QED  BY <1>5, <2>1, <2>2, GoesAlone, SameFaults DEF FindContent
<1>6. CASE CreateTaskFails(q)
  BY <1>1, <1>6, ErrorShape, GoesAlone, SameFaults DEF CreateTaskFails
<1>7. CASE ReleaseFails(q)
  BY <1>1, <1>7, ErrorShape, GoesAlone, MoreFaults DEF ReleaseFails
<1>8. CASE DropFails(q)
  BY <1>1, <1>8, ErrorShape, GoesAlone, MoreFaults DEF DropFails
<1>9. ASSUME NEW m \in Material, StartSearch(q, m) PROVE Typed'
  <2> DEFINE c == IF m \in Video THEN None ELSE m
             pc == IF m \in Video THEN "find" ELSE "recent"
             r == [R EXCEPT !.mat = m, !.pc = pc, !.content = c]
  <2>1. R = IdleReq
    BY <1>1, <1>9 DEF StartSearch, Shape
  <2>2. r \in ReqState
    <3>1. c \in Content \cup {None} /\ m \in Material \cup {None} /\ pc \in ReqPc
      BY Constants DEF ReqPc
    <3> HIDE DEF c, pc
    <3> QED  BY <1>1, <3>1 DEF ReqState
  <2>3. Shape(r)
    BY <1>1, <2>1, Constants DEF Shape, IdleReq
  <2> QED  BY <1>9, <2>2, <2>3, GoesAlone, SameFaults DEF StartSearch
<1>10. CASE FindRecent(q)
  <2>1. [R EXCEPT !.pc = "task"] \in ReqState /\ Shape([R EXCEPT !.pc = "task"])
    BY <1>1, <1>10 DEF FindRecent, ReqState, ReqPc, Shape
  <2> QED  BY <1>2, <1>10, <2>1, GoesAlone, SameFaults DEF FindRecent
<1>11. CASE SeekSuggestion(q)
  <2>1. ASSUME NEW x \in rows
        PROVE  /\ [R EXCEPT !.cand = x, !.pc = "attach"] \in ReqState
               /\ Shape([R EXCEPT !.cand = x, !.pc = "attach"])
    <3>1. x \in Row
      BY Constants DEF Typed, PlansTypeOK
    <3>2. R.pc = "seek" /\ ~ R.quick /\ R.cur = NoRow
      BY <1>1, <1>11 DEF SeekSuggestion, Shape
    <3> QED  BY <1>1, <3>1, <3>2, Constants DEF ReqState, ReqPc, Shape
  <2> QED  BY <1>2, <1>11, <2>1, GoesAlone, SameFaults DEF SeekSuggestion
<1>12. CASE AttachFails(q)
  BY <1>2, <1>12, GoesAlone, MoreFaults DEF AttachFails
<1>13. CASE QueryFails(q)
  <2>1. ASSUME R.quick, R.pc \in {"find", "make"}
        PROVE  [R EXCEPT !.pc = "release"] \in ReqState /\ Shape([R EXCEPT !.pc = "release"])
    BY <1>1, <2>1 DEF ReqState, ReqPc, Shape
  <2>2. R.quick /\ R.pc # "claim" => R.pc \in {"find", "make"}
    BY <1>1, <1>13 DEF QueryFails, Shape
  <2> QED  BY <1>2, <1>13, <2>1, <2>2, GoesAlone, MoreFaults DEF QueryFails
<1> QED  BY <1>3, <1>4, <1>5, <1>6, <1>7, <1>8, <1>9, <1>10, <1>11, <1>12, <1>13

(* The steps of a request that write to a table. *)
LEMMA TypedClaim ==
  ASSUME Typed, NEW q \in Request, NEW s \in Row, Claim(q, s) PROVE Typed'
<1> DEFINE R == req[q]
           pc == IF material[s] \in Video THEN "find" ELSE "task"
           c == IF material[s] \in Video THEN None ELSE material[s]
           r == [R EXCEPT !.pc = pc, !.cur = s, !.mat = material[s], !.content = c]
<1>1. /\ R \in ReqState /\ Shape(R) /\ lastRow \in Nat
      /\ \A x \in R.todo : x <= lastRow
  BY Here
<1>2. R.pc = "claim" /\ R.quick /\ ~ R.made /\ s \in R.todo
  BY <1>1 DEF Claim, Shape
<1>3. material[s] \in Material \cup {None} /\ s \in Row \cup {NoRow}
  BY DEF Typed, PlansTypeOK
<1>4. r \in ReqState
  <2>1. pc \in ReqPc /\ c \in Content \cup {None}
    BY <1>3, Constants DEF ReqPc
  <2> HIDE DEF pc, c
  <2> QED  BY <1>1, <1>3, <2>1 DEF ReqState
<1>5. Shape(r)
  BY <1>1, <1>2, <1>4 DEF Shape, ReqState
<1>6. Go(q, r) /\ lastRow' = lastRow
  BY DEF Claim, planVars
<1> HIDE DEF r
<1>7. req' \in [Request -> ReqState] /\ \A q2 \in Request : Shape(req[q2])'
  BY <1>4, <1>5, <1>6, Goes
<1>8. usedAge' \in [Row -> {NotUsed} \cup (0 .. MaxAge)]
  BY Constants DEF Typed, PlansTypeOK, Claim
<1>9. slow' \subseteq Row \cup {NoRow} /\ raced' \in BOOLEAN
  BY DEF Typed, PlansTypeOK, Claim, ComesIntoUse
<1> QED  BY <1>7, <1>8, <1>9 DEF Typed, PlansTypeOK, Claim, planVars, taskVars

LEMMA TypedMake ==
  ASSUME Typed, NEW q \in Request, MakeContent(q) PROVE Typed'
<1> DEFINE R == req[q]
           r == [R EXCEPT !.content = <<q, R.cur>>, !.made = TRUE, !.pc = WithContent(R)]
<1>1. R \in ReqState /\ Shape(R) /\ R.pc = "make" /\ R.mat \in Video /\ R.cur \in 0 .. MaxRows
  BY SMTT(30), Here, Constants DEF MakeContent, Shape, ReqState
<1>2. WithContent(R) \in {"task", "recent"} /\ (WithContent(R) = "recent" => ~ R.quick)
  BY DEF WithContent
<1>3. <<q, R.cur>> \in Task
  BY <1>1, Constants
<1>4. r \in ReqState
  <2>1. <<q, R.cur>> \in Content \cup {None} /\ WithContent(R) \in ReqPc
    BY <1>2, <1>3, Constants DEF ReqPc
  <2> QED  BY <1>1, <2>1, WithContentTyped
<1>5. Shape(r)
  BY <1>1, <1>2 DEF Shape, ReqState
<1>6. Go(q, r) /\ lastRow' = lastRow
  BY DEF MakeContent, planVars
<1> HIDE DEF r
<1>7. req' \in [Request -> ReqState] /\ \A q2 \in Request : Shape(req[q2])'
  BY <1>4, <1>5, <1>6, Goes
<1>8. drafts' \in [Task -> Video \cup {None}]
  BY <1>1, <1>3 DEF Typed, PlansTypeOK, MakeContent
<1> QED  BY <1>7, <1>8 DEF Typed, PlansTypeOK, MakeContent, planVars, taskVars, history

(* The task a request makes. *)
LEMMA NewTask ==
  ASSUME Typed, NEW q \in Request
  PROVE  /\ <<q, req[q].cur>> \in Task /\ <<q, req[q].cur>>[2] <= lastRow
         /\ req[q].cur \in Row \cup {NoRow}
<1>1. req[q] \in ReqState /\ Shape(req[q])
  BY Here
<1>2. req[q].cur \in 0 .. MaxRows /\ req[q].cur <= lastRow /\ req[q].cur \in Row \cup {NoRow}
  BY <1>1, Constants DEF ReqState, Shape
<1> QED  BY <1>2, Constants

LEMMA TypedTask ==
  ASSUME Typed, NEW q \in Request, CreateTask(q) \/ CreateTaskUnanswered(q) PROVE Typed'
<1> DEFINE R == req[q]
           t == <<q, R.cur>>
           r == [R EXCEPT !.pc = IF R.quick THEN "link" ELSE "seek",
                          !.content = None, !.made = FALSE]
<1>1. R \in ReqState /\ Shape(R) /\ R.pc = "task" /\ lastRow \in Nat
  BY Here DEF CreateTask, CreateTaskUnanswered
<1>2. t \in Task /\ t[2] <= lastRow /\ R.cur \in Row \cup {NoRow}
  BY NewTask
<1>3. r \in ReqState
  BY <1>1 DEF ReqState, ReqPc
<1>4. Shape(r)
  BY <1>1 DEF Shape, ReqState
<1>5. AfterError(R) \in ReqState /\ Shape(AfterError(R))
  BY <1>1, ErrorShape
<1>6. /\ tasks' = tasks \cup {t} /\ content' = [content EXCEPT ![t] = R.content]
      /\ UNCHANGED <<planVars, usedAge, linked, drafts, run, raced>>
      /\ exposed' \in {exposed, exposed \cup {t}} /\ slow' \in {slow, slow \cup {R.cur}}
      /\ Go(q, r) \/ Go(q, AfterError(R))
      /\ faults' = faults \/ (faults < MaxFaults /\ faults' = faults + 1)
  BY DEF CreateTask, CreateTaskUnanswered
<1> HIDE DEF r, t
<1>7. req' \in [Request -> ReqState] /\ \A q2 \in Request : Shape(req[q2])'
  BY <1>3, <1>4, <1>5, <1>6, Goes DEF planVars
<1>8. faults' \in 0 .. MaxFaults
  BY <1>6, MoreFaults, SameFaults
<1>9. content' \in [Task -> Content \cup {None}]
  BY <1>1, <1>6 DEF Typed, PlansTypeOK, ReqState
<1>10. linked' \in [Row -> tasks' \cup {None}] /\ tasks' \subseteq Task
       /\ exposed' \subseteq Task /\ slow' \subseteq Row \cup {NoRow}
       /\ \A x \in tasks' : x[2] <= lastRow'
  BY <1>2, <1>6 DEF Typed, PlansTypeOK, planVars
<1> QED  BY <1>6, <1>7, <1>8, <1>9, <1>10 DEF Typed, PlansTypeOK, planVars

LEMMA TypedLink ==
  ASSUME Typed, NEW q \in Request, Link(q) \/ LinkFails(q) PROVE Typed'
<1> DEFINE R == req[q]
<1>1. NextOf(R) \in ReqState /\ Shape(NextOf(R))
  BY Here, NextShape
<1>2. Go(q, NextOf(R)) /\ UNCHANGED <<planVars, usedAge, taskVars, drafts, run, exposed>>
  BY DEF Link, LinkFails
<1>3. req' \in [Request -> ReqState] /\ \A q2 \in Request : Shape(req[q2])'
  BY <1>1, <1>2, Goes DEF planVars
<1>4. linked' \in [Row -> tasks \cup {None}]
  BY DEF Typed, PlansTypeOK, Link, LinkFails, LinkedWith
<1>5. slow' \subseteq Row \cup {NoRow} /\ raced' \in BOOLEAN
  BY NewTask DEF Typed, PlansTypeOK, Link, LinkFails, ComesIntoUse
<1>6. faults' \in 0 .. MaxFaults
  BY MoreFaults, SameFaults DEF Link, LinkFails
<1> QED  BY <1>2, <1>3, <1>4, <1>5, <1>6 DEF Typed, PlansTypeOK, planVars, taskVars

LEMMA TypedUndo ==
  ASSUME Typed, NEW q \in Request, Release(q) \/ DropContent(q) PROVE Typed'
<1> DEFINE R == req[q]
<1>1. R \in ReqState /\ Shape(R) /\ lastRow \in Nat
  BY Here
<1>2. CASE Release(q)
  <2>1. req' \in [Request -> ReqState] /\ \A q2 \in Request : Shape(req[q2])'
    BY <1>1, <1>2, ErrorShape, Goes DEF Release, planVars
  <2>2. usedAge' \in [Row -> {NotUsed} \cup (0 .. MaxAge)]
    BY <1>2 DEF Release, Typed, PlansTypeOK
  <2> QED  BY <1>2, <2>1, <2>2 DEF Release, Typed, PlansTypeOK, planVars, taskVars, history
<1>3. CASE DropContent(q)
  <2>1. req' \in [Request -> ReqState] /\ \A q2 \in Request : Shape(req[q2])'
    BY <1>1, <1>3, ErrorShape, Goes DEF DropContent, planVars
  <2>2. drafts' \in [Task -> Video \cup {None}] /\ content' \in [Task -> Content \cup {None}]
    BY <1>3 DEF DropContent, Typed, PlansTypeOK
  <2> QED  BY <1>3, <2>1, <2>2 DEF DropContent, Typed, PlansTypeOK, planVars, history
<1> QED  BY <1>2, <1>3

LEMMA TypedAttach ==
  ASSUME Typed, NEW q \in Request, Attach(q) PROVE Typed'
<1>1. req' \in [Request -> ReqState] /\ \A q2 \in Request : Shape(req[q2])'
  BY Here, IdleShape, Goes DEF Attach, planVars
<1>2. 0 \in 0 .. MaxAge /\ raced' \in BOOLEAN
  BY Constants DEF Attach, Typed, PlansTypeOK, ComesIntoUse
<1>3. linked' \in [Row -> tasks \cup {None}]
  BY DEF Attach, Typed, PlansTypeOK
<1>4. usedAge' \in [Row -> {NotUsed} \cup (0 .. MaxAge)]
  BY <1>2 DEF Attach, Typed, PlansTypeOK
<1> QED  BY <1>1, <1>2, <1>3, <1>4 DEF Attach, Typed, PlansTypeOK, planVars, taskVars

LEMMA TypedRemove ==
  ASSUME Typed, NEW t \in Task, RemoveTask(t) PROVE Typed'
<1>1. tasks' \subseteq Task /\ content' \in [Task -> Content \cup {None}]
  BY DEF RemoveTask, Typed, PlansTypeOK
<1>2. linked' \in [Row -> tasks' \cup {None}]
  BY DEF RemoveTask, Typed, PlansTypeOK
<1>3. \A q2 \in Request : Shape(req[q2])'
  BY DEF RemoveTask, Typed, Shape, planVars
<1> QED  BY <1>1, <1>2, <1>3 DEF RemoveTask, Typed, PlansTypeOK, planVars, history

(* The planner. *)
LEMMA TypedRun ==
  ASSUME Typed, NEW b \in Run, NEW quota \in BOOLEAN, NEW want \in SUBSET Material,
         \/ StartRun(b, quota, want) \/ ReadPlan(b) \/ UpdatePlan(b) \/ CreatePlan(b)
         \/ RunFails(b)
  PROVE  Typed'
<1>1. \A q2 \in Request : Shape(req[q2])'
  BY DEF StartRun, ReadPlan, UpdatePlan, CreatePlan, RunFails, Typed, Shape, planVars, reqVars
<1>2. run \in [Run -> RunState] /\ OverRun \in RunState
  BY Constants, IdleShape DEF Typed, PlansTypeOK
<1>3. CASE StartRun(b, quota, want)
  <2> DEFINE pc == IF quota THEN "read" ELSE "prune"
  <2>1. pc \in RunPc /\ run' = [run EXCEPT ![b].pc = pc, ![b].want = want]
    BY <1>3 DEF StartRun, RunPc
  <2> HIDE DEF pc
  <2>2. [run[b] EXCEPT !.pc = pc, !.want = want] \in RunState
    BY <1>2, <2>1 DEF RunState
  <2>3. run' \in [Run -> RunState]
    BY <1>2, <2>1, <2>2
  <2> QED  BY <1>1, <1>3, <2>3 DEF StartRun, Typed, PlansTypeOK, planVars, reqVars, history
<1>4. CASE ReadPlan(b)
  <2> DEFINE used == {material[s] : s \in {r \in rows : InUse(b, r)}}
  <2>1. used \in SUBSET (Material \cup {None}) /\ plan \in Run \cup {None}
    BY Constants DEF Typed, PlansTypeOK
  <2> DEFINE pc == IF plan = None THEN "create" ELSE "update"
  <2>2. run' = [run EXCEPT ![b].pc = pc, ![b].plan = plan, ![b].used = used] /\ pc \in RunPc
    BY <1>4 DEF ReadPlan, RunPc
  <2> HIDE DEF used, pc
  <2>5. [run[b] EXCEPT !.pc = pc, !.plan = plan, !.used = used] \in RunState
    BY <1>2, <2>1, <2>2 DEF RunState
  <2>3. run' \in [Run -> RunState]
    BY <1>2, <2>2, <2>5
  <2>4. raced' \in BOOLEAN
    BY <1>4 DEF ReadPlan, Typed, PlansTypeOK
  <2> QED  BY <1>1, <1>4, <2>3, <2>4 DEF ReadPlan, Typed, PlansTypeOK, planVars, reqVars
<1>5. CASE UpdatePlan(b)
  <2>1. run' \in [Run -> RunState]
    BY <1>2, <1>5 DEF UpdatePlan, At, Over, RunState, RunPc
  <2> QED  BY <1>1, <1>5, <2>1 DEF UpdatePlan, Typed, PlansTypeOK, planVars, reqVars, history
<1>6. CASE CreatePlan(b)
  <2>1. run' \in [Run -> RunState] /\ plan' \in Run \cup {None}
    BY <1>2, <1>6 DEF CreatePlan, Over, RunState, RunPc, Typed, PlansTypeOK
  <2> QED  BY <1>1, <1>6, <2>1 DEF CreatePlan, Typed, PlansTypeOK, planVars, reqVars, history
<1>7. CASE RunFails(b)
  <2>1. run' \in [Run -> RunState] /\ faults' \in 0 .. MaxFaults
    BY <1>2, <1>7, MoreFaults DEF RunFails, Over
  <2> QED  BY <1>1, <1>7, <2>1 DEF RunFails, Typed, PlansTypeOK, planVars, reqVars, history
<1> QED  BY <1>3, <1>4, <1>5, <1>6, <1>7

LEMMA DeleteTyped ==
  ASSUME Typed, NEW S, Delete(S)
  PROVE  /\ rows' \subseteq 1 .. lastRow
         /\ material' \in [Row -> Material \cup {None}]
         /\ usedAge' \in [Row -> {NotUsed} \cup (0 .. MaxAge)]
BY DEF Delete, Typed, PlansTypeOK

LEMMA TypedDelete ==
  ASSUME Typed, NEW b \in Run, ClearRows(b) \/ PrunePlans(b) PROVE Typed'
<1>1. \A q2 \in Request : Shape(req[q2])'
  BY DEF ClearRows, PrunePlans, Typed, Shape, reqVars
<1>2. /\ rows' \subseteq 1 .. lastRow
      /\ material' \in [Row -> Material \cup {None}]
      /\ usedAge' \in [Row -> {NotUsed} \cup (0 .. MaxAge)]
  BY DeleteTyped DEF ClearRows, PrunePlans
<1>3. run \in [Run -> RunState] /\ OverRun \in RunState
  BY Constants, IdleShape DEF Typed, PlansTypeOK
<1>4. run' \in [Run -> RunState]
  BY <1>3 DEF ClearRows, PrunePlans, At, Over, RunState, RunPc
<1>5. plan' \in Run \cup {None}
  BY DEF ClearRows, PrunePlans, Typed, PlansTypeOK
<1> QED  BY <1>1, <1>2, <1>4, <1>5 DEF ClearRows, PrunePlans, Typed, PlansTypeOK, reqVars, history

(* What the planner adds: rows with new numbers, of different materials, *)
(* none of which it has seen in use. *)
LEMMA AddEffect ==
  ASSUME Typed, NEW b \in Run, AddRows(b)
  PROVE  /\ lastRow' \in Nat /\ lastRow <= lastRow' /\ lastRow' <= MaxRows
         /\ rows \subseteq rows' /\ rows' \subseteq 1 .. lastRow'
         /\ \A s \in rows' \ rows : s > lastRow /\ material'[s] \in run[b].want \ run[b].used
         /\ \A s \in rows : material'[s] = material[s]
         /\ \A s, t \in rows' \ rows : material'[s] = material'[t] => s = t
         /\ material' \in [Row -> Material \cup {None}]
         /\ rows' # rows => plan = run[b].plan
         /\ run' \in [Run -> RunState] /\ run'[b].pc \in {"prune", "done"}
         /\ \A b2 \in Run \ {b} : run'[b2] = run[b2]
<1>6. OverRun \in RunState /\ OverRun.pc = "done"
  BY Constants, IdleShape DEF Typed, PlansTypeOK, OverRun, IdleRun
<1>7. run \in [Run -> RunState] /\ run[b].want \subseteq Material
  BY DEF Typed, PlansTypeOK, RunState
<1>1. /\ lastRow \in 0 .. MaxRows /\ rows \subseteq 1 .. lastRow
      /\ material \in [Row -> Material \cup {None}] /\ MaxRows \in Nat
  BY Constants DEF Typed, PlansTypeOK
<1>2. run' = [run EXCEPT ![b].pc = "prune", ![b].want = {}, ![b].used = {}]
      \/ run' = [run EXCEPT ![b] = OverRun]
  BY DEF AddRows, Over
<1>3. /\ run' \in [Run -> RunState] /\ run'[b].pc \in {"prune", "done"}
      /\ \A b2 \in Run \ {b} : run'[b2] = run[b2]
  <2>1. [run[b] EXCEPT !.pc = "prune", !.want = {}, !.used = {}] \in RunState
    BY <1>7 DEF RunState, RunPc
  <2>2. \A x : run' = [run EXCEPT ![b] = x] =>
              run'[b] = x /\ \A b2 \in Run \ {b} : run'[b2] = run[b2]
    BY <1>7
  <2>3. [run[b] EXCEPT !.pc = "prune", !.want = {}, !.used = {}].pc = "prune"
    BY <1>7 DEF RunState
  <2>4. run' \in [Run -> RunState]
    BY <1>6, <1>7, <1>2, <2>1
  <2> QED  BY <1>6, <1>2, <2>2, <2>3, <2>4
<1>4. CASE UNCHANGED <<material, rows, lastRow>>
  BY <1>1, <1>3, <1>4
<1>5. CASE ~ UNCHANGED <<material, rows, lastRow>>
  <2>1. plan = run[b].plan
    BY <1>5 DEF AddRows
  <2>2. PICK n \in 0 .. (MaxRows - lastRow) :
          \E f \in [(lastRow + 1) .. (lastRow + n) -> ToAdd(b)] :
            /\ \A i, j \in DOMAIN f : f[i] = f[j] => i = j
            /\ material' = [s \in Row |-> IF s \in DOMAIN f THEN f[s] ELSE material[s]]
            /\ rows' = rows \cup DOMAIN f /\ lastRow' = lastRow + n
    BY <1>5 DEF AddRows
  <2>3. PICK f \in [(lastRow + 1) .. (lastRow + n) -> ToAdd(b)] :
          /\ \A i, j \in DOMAIN f : f[i] = f[j] => i = j
          /\ material' = [s \in Row |-> IF s \in DOMAIN f THEN f[s] ELSE material[s]]
          /\ rows' = rows \cup DOMAIN f /\ lastRow' = lastRow + n
    BY <2>2
  <2> DEFINE New == (lastRow + 1) .. (lastRow + n)
  <2>4. /\ DOMAIN f = New /\ \A s \in New : f[s] \in ToAdd(b)
        /\ \A s \in New : s > lastRow /\ s \in Row /\ s <= lastRow + n
        /\ \A s \in rows : s \notin New /\ s \in Row /\ s <= lastRow + n
    BY <1>1, <2>3, Constants
  <2>5. lastRow' \in Nat /\ lastRow <= lastRow' /\ lastRow' <= MaxRows
    BY <1>1, <2>3
  <2>6. rows' = rows \cup New /\ rows' \subseteq 1 .. lastRow'
    BY <1>1, <2>3, <2>4, Constants
  <2>7. \A s \in New : material'[s] = f[s] /\ material'[s] \in run[b].want \ run[b].used
    BY <2>3, <2>4 DEF ToAdd
  <2>8. \A s \in rows : material'[s] = material[s]
    BY <2>3, <2>4
  <2>9. material' \in [Row -> Material \cup {None}]
    BY <1>1, <1>7, <2>3, <2>4 DEF ToAdd
  <2>10. \A s, t \in rows' \ rows : material'[s] = material'[t] => s = t
    BY <2>3, <2>4, <2>6, <2>7
  <2> HIDE DEF New
  <2> QED  BY <1>3, <2>1, <2>4, <2>5, <2>6, <2>7, <2>8, <2>9, <2>10
<1> QED  BY <1>4, <1>5

LEMMA TypedAdd ==
  ASSUME Typed, NEW b \in Run, AddRows(b) PROVE Typed'
<1>1. /\ lastRow' \in Nat /\ lastRow <= lastRow' /\ lastRow' <= MaxRows
      /\ rows' \subseteq 1 .. lastRow'
      /\ material' \in [Row -> Material \cup {None}] /\ run' \in [Run -> RunState]
  BY AddEffect
<1>2. UNCHANGED <<plan, usedAge, linked, reqVars, faults, history>> /\ lastRow \in 0 .. MaxRows
  BY DEF AddRows, Typed, PlansTypeOK
<1>3. ASSUME NEW q \in Request PROVE Shape(req[q])'
  <2>1. \A s \in Row \cup {NoRow} : s <= lastRow => s <= lastRow'
    BY <1>1, <1>2, Constants
  <2>2. req[q] \in ReqState /\ Shape(req[q]) /\ req' = req
    BY <1>2, Here DEF reqVars
  <2> QED  BY <2>1, <2>2 DEF Shape, ReqState
<1>4. \A t \in tasks : t[2] <= lastRow'
  <2>1. \A t \in tasks : t[2] \in 0 .. MaxRows /\ t[2] <= lastRow
    BY Constants DEF Typed, PlansTypeOK
  <2> QED  BY <1>1, <1>2, <2>1, Constants
<1>5. lastRow' \in 0 .. MaxRows
  BY <1>1, Constants
<1> QED  BY <1>1, <1>2, <1>3, <1>4, <1>5 DEF Typed, PlansTypeOK, reqVars, history

(* Time. *)
LEMMA TickEffect ==
  ASSUME Typed, Tick
  PROVE  /\ usedAge' \in [Row -> {NotUsed} \cup (0 .. MaxAge)]
         /\ \A s \in Row : usedAge'[s] = NotUsed <=> usedAge[s] = NotUsed
         /\ run' \in [Run -> RunState]
         /\ \A b \in Run : /\ run'[b].pc = run[b].pc /\ run'[b].plan = run[b].plan
                           /\ run'[b].want = run[b].want /\ run'[b].used = run[b].used
                           /\ Running(b) => run'[b].elapsed = run[b].elapsed + 1
<1>1. ASSUME NEW age \in 0 .. MaxAge PROVE Older(age) \in 0 .. MaxAge
  BY <1>1, Constants DEF Older
<1>2. usedAge \in [Row -> {NotUsed} \cup (0 .. MaxAge)] /\ run \in [Run -> RunState]
  BY DEF Typed, PlansTypeOK
<1>3. NotUsed \notin 0 .. MaxAge
  BY Constants
<1>4. \A s \in Row : usedAge'[s] = IF usedAge[s] = NotUsed THEN NotUsed ELSE Older(usedAge[s])
  BY DEF Tick
<1>5. /\ usedAge' \in [Row -> {NotUsed} \cup (0 .. MaxAge)]
      /\ \A s \in Row : usedAge'[s] = NotUsed <=> usedAge[s] = NotUsed
  BY <1>1, <1>2, <1>3, <1>4 DEF Tick
<1>6. ASSUME NEW b \in Run
      PROVE  /\ run'[b] \in RunState /\ run'[b].pc = run[b].pc /\ run'[b].plan = run[b].plan
             /\ run'[b].want = run[b].want /\ run'[b].used = run[b].used
             /\ Running(b) => run'[b].elapsed = run[b].elapsed + 1
  <2>1. run[b] \in RunState /\ run[b].elapsed \in 0 .. MaxRun
    BY <1>2 DEF RunState
  <2>2. CASE Running(b)
    <3>1. run[b].elapsed + 1 \in 0 .. MaxRun
      <4>1. run[b].elapsed < MaxRun
        BY <2>2 DEF Tick
      <4> QED  BY <2>1, <4>1, Constants
    <3>2. run'[b] = [run[b] EXCEPT !.elapsed = run[b].elapsed + 1]
      BY <2>2 DEF Tick
    <3>3. [run[b] EXCEPT !.elapsed = run[b].elapsed + 1] \in RunState
      BY <2>1, <3>1 DEF RunState
    <3> QED  BY <2>1, <3>2, <3>3 DEF RunState
  <2>3. CASE ~ Running(b)
    BY <2>1, <2>3 DEF Tick
  <2> QED  BY <2>2, <2>3
<1>7. run' \in [Run -> RunState]
  BY <1>6 DEF Tick
<1> QED  BY <1>5, <1>6, <1>7

LEMMA TypedTick == ASSUME Typed, Tick PROVE Typed'
<1>1. \A q2 \in Request : Shape(req[q2])'
  BY DEF Tick, Typed, Shape, planVars
<1> QED  BY <1>1, TickEffect DEF Tick, Typed, PlansTypeOK, planVars, history

LEMMA TypedInit == PlansInit => Typed
<1> SUFFICES ASSUME PlansInit PROVE Typed
  OBVIOUS
<1>1. lastRow = 0 /\ 0 \in 0 .. MaxRows /\ 0 \in 0 .. MaxFaults
  BY Constants DEF PlansInit
<1>2. IdleReq \in ReqState /\ Shape(IdleReq) /\ IdleRun \in RunState
  BY <1>1, IdleShape
<1>3. \A q \in Request : req[q] = IdleReq
  BY DEF PlansInit
<1> QED  BY <1>1, <1>2, <1>3 DEF PlansInit, Typed, PlansTypeOK

LEMMA TypedStep == ASSUME Typed, [PlansNext]_plansVars PROVE Typed'
<1>1. CASE UNCHANGED plansVars
  BY <1>1 DEF plansVars, Typed, PlansTypeOK, Shape
<1>2. ASSUME NEW q \in Request, RequestStep(q) PROVE Typed'
  BY <1>2, TypedQuiet, TypedClaim, TypedMake, TypedTask, TypedLink, TypedUndo, TypedAttach
  DEF RequestStep
<1>3. ASSUME NEW t \in Task, RemoveTask(t) PROVE Typed'
  BY <1>3, TypedRemove
<1>4. ASSUME NEW b \in Run, NEW quota \in BOOLEAN, NEW want \in SUBSET Material,
             StartRun(b, quota, want) PROVE Typed'
  BY <1>4, TypedRun
<1>5. ASSUME NEW b \in Run, RunStep(b) \/ RunFails(b) PROVE Typed'
  BY <1>5, TypedRun, TypedDelete, TypedAdd DEF RunStep
<1> QED  BY <1>1, <1>2, <1>3, <1>4, <1>5, TypedTick DEF PlansNext

(* Everything keeps its type, for any number of requests, runs, rows and  *)
(* faults: property PlansTypeOK.                                           *)
THEOREM PlansTyped == PlansSpec => []PlansTypeOK
<1>1. Typed /\ [PlansNext]_plansVars => Typed'
  BY TypedStep
<1>2. Typed => PlansTypeOK
  BY DEF Typed
<1> QED  BY TypedInit, <1>1, <1>2, PTL DEF PlansSpec

-----------------------------------------------------------------------------
(* One task for each suggestion.                                           *)

HoldPc == {"find", "make", "task", "link", "release"}

LEMMA HoldsGo ==
  ASSUME Typed, NEW q \in Request, NEW r, Go(q, r)
  PROVE  /\ req'[q] = r /\ \A q2 \in Request \ {q} : req'[q2] = req[q2]
         /\ \A s \in Row : Holds(q, s)' <=> r.quick /\ r.cur = s /\ r.pc \in HoldPc
         /\ \A q2 \in Request \ {q}, s \in Row : Holds(q2, s)' <=> Holds(q2, s)
<1>1. /\ req'[q] = r /\ \A q2 \in Request \ {q} : req'[q2] = req[q2]
  BY DEF Typed, PlansTypeOK, Go
<1> QED  BY <1>1 DEF Holds, HoldPc

LEMMA NeverHeld ==
  ASSUME NEW r
  PROVE  /\ NextOf(r).pc \in {"claim", "done"} /\ NextOf(r).pc \notin HoldPc
         /\ OverReq.pc = "done" /\ OverReq.pc \notin HoldPc
BY DEF NextOf, OverReq, IdleReq, HoldPc

(* A step that makes no task and takes no claim. *)
LEMMA OneQuiet ==
  ASSUME Typed, OneInv,
         rows' \subseteq rows, tasks' \subseteq tasks, slow \subseteq slow',
         \A q \in Request, s \in Row : Holds(q, s)' => Holds(q, s),
         \A q \in Request, s \in Row \ slow' :
           Holds(q, s) /\ req[q].pc = "link" /\ <<q, s>> \in tasks' =>
             \/ Holds(q, s)' /\ req'[q].pc = "link"
             \/ s \notin rows' \/ linked'[s] = <<q, s>>,
         \A s \in rows' \ slow', q \in Request :
           Holds(q, s)' /\ usedAge[s] # NotUsed => usedAge'[s] # NotUsed,
         \A s \in rows' \ slow', q \in Request :
           <<q, s>> \in tasks' /\ linked[s] = <<q, s>> => linked'[s] = <<q, s>>
  PROVE  OneInv'
<1>1. OneTaskEach'
  BY DEF OneInv, OneTaskEach
<1>2. ASSUME NEW s \in Row \ slow'
      PROVE  ClaimsAreOne(s)' /\ ClaimsShow(s)' /\ TasksAreLinked(s)' /\ ClaimsAreFree(s)'
  <2>1. ClaimsAreOne(s) /\ ClaimsShow(s) /\ TasksAreLinked(s) /\ ClaimsAreFree(s)
    BY <1>2 DEF OneInv
  <2>2. ClaimsAreOne(s)'
    BY <2>1 DEF ClaimsAreOne
  <2>3. ClaimsShow(s)'
    BY <2>1, <1>2 DEF ClaimsShow
  <2>4. TasksAreLinked(s)'
    <3> SUFFICES ASSUME NEW q \in Request, <<q, s>> \in tasks', s \in rows'
                 PROVE  (Holds(q, s)' /\ req'[q].pc = "link") \/ linked'[s] = <<q, s>>
      BY DEF TasksAreLinked
    <3> QED  BY <2>1, <1>2 DEF TasksAreLinked
  <2>5. ClaimsAreFree(s)'
    BY <2>1 DEF ClaimsAreFree
  <2> QED  BY <2>2, <2>3, <2>4, <2>5
<1> QED  BY <1>1, <1>2 DEF OneInv

LEMMA OneGoes ==
  ASSUME Typed, OneInv, NEW q \in Request, NEW r, Go(q, r),
         UNCHANGED <<rows, usedAge, linked, tasks, slow>>,
         req[q].pc # "link",
         r.quick /\ r.pc \in HoldPc => req[q].quick /\ r.cur = req[q].cur /\ req[q].pc \in HoldPc
  PROVE  OneInv'
<1>1. \A q2 \in Request, s \in Row : Holds(q2, s)' => Holds(q2, s)
  BY HoldsGo DEF Holds, HoldPc
<1>2. \A q2 \in Request, s \in Row :
        Holds(q2, s) /\ req[q2].pc = "link" => Holds(q2, s)' /\ req'[q2].pc = "link"
  BY HoldsGo
<1> QED  BY <1>1, <1>2, OneQuiet

LEMMA OneRequest ==
  ASSUME Typed, OneInv, NEW q \in Request,
         \/ \E ids \in SUBSET Row : StartQuick(q, ids)
         \/ \E s \in Row : Refuse(q, s)
         \/ \E m \in Material : StartSearch(q, m)
         \/ FindContent(q) \/ MakeContent(q) \/ CreateTaskFails(q)
         \/ ReleaseFails(q) \/ DropContent(q) \/ DropFails(q) \/ FindRecent(q)
         \/ SeekSuggestion(q) \/ AttachFails(q) \/ QueryFails(q)
  PROVE  OneInv'
<1> USE DEF planVars, taskVars, history, HoldPc
<1>0. req[q] \in ReqState /\ Shape(req[q])
  BY Here
<1>1. ASSUME NEW ids \in SUBSET Row, StartQuick(q, ids) PROVE OneInv'
  <2>1. [req[q] EXCEPT !.pc = "claim", !.quick = TRUE, !.todo = ids,
                       !.seen = {s \in ids : linked[s] # None}].pc = "claim"
    BY <1>0 DEF ReqState
  <2> QED  BY <1>1, <2>1, OneGoes DEF StartQuick
<1>2. ASSUME NEW s \in Row, Refuse(q, s) PROVE OneInv'
  BY <1>2, OneGoes, NeverHeld DEF Refuse
<1>3. ASSUME NEW m \in Material, StartSearch(q, m) PROVE OneInv'
  <2> DEFINE r == [req[q] EXCEPT !.mat = m, !.pc = IF m \in Video THEN "find" ELSE "recent",
                                 !.content = IF m \in Video THEN None ELSE m]
  <2>1. req[q] = IdleReq
    BY <1>0, <1>3 DEF StartSearch, Shape
  <2>2. ~ r.quick
    BY <2>1 DEF IdleReq
  <2>3. Go(q, r) /\ req[q].pc # "link" /\ UNCHANGED <<rows, usedAge, linked, tasks, slow>>
    BY <1>3 DEF StartSearch
  <2> HIDE DEF r
  <2> QED  BY <2>2, <2>3, OneGoes
<1>4. CASE FindContent(q)
  <2>1. ASSUME NEW d \in Task
        PROVE  Found(req[q], d).quick = req[q].quick /\ Found(req[q], d).cur = req[q].cur
    BY <1>0 DEF Found, ReqState
  <2>2. [req[q] EXCEPT !.pc = "make"].cur = req[q].cur
        /\ [req[q] EXCEPT !.pc = "make"].quick = req[q].quick
    BY <1>0 DEF ReqState
  <2> QED  BY <1>4, <2>1, <2>2, OneGoes DEF FindContent
<1>5. CASE MakeContent(q)
  <2> DEFINE r == [req[q] EXCEPT !.content = <<q, req[q].cur>>, !.made = TRUE,
                                 !.pc = WithContent(req[q])]
  <2>1. r.cur = req[q].cur /\ r.quick = req[q].quick
    BY <1>0 DEF ReqState
  <2>2. Go(q, r) /\ req[q].pc = "make" /\ UNCHANGED <<rows, usedAge, linked, tasks, slow>>
    BY <1>5 DEF MakeContent
  <2> HIDE DEF r
  <2> QED  BY <2>1, <2>2, OneGoes
<1>6. ASSUME NEW r, Go(q, r), req[q].pc # "link", UNCHANGED <<rows, usedAge, linked, tasks, slow>>,
             r.pc \in {"claim", "drop", "seek", "attach", "recent", "done"}
      PROVE  OneInv'
  BY <1>6, OneGoes
<1>7. CASE CreateTaskFails(q)
  <2>1. req[q].quick \in BOOLEAN /\ AfterError(req[q]).pc \in {"release", "drop", "done"}
        /\ (AfterError(req[q]).pc = "release" =>
              req[q].quick /\ AfterError(req[q]).cur = req[q].cur)
    BY <1>0, NeverHeld DEF AfterError, ReqState
  <2> QED  BY <1>7, <2>1, OneGoes DEF CreateTaskFails
<1>8. CASE ReleaseFails(q)
  <2>1. AfterRelease(req[q]).pc \in {"claim", "drop", "done"}
    BY <1>0, NeverHeld DEF AfterRelease, ReqState
  <2> QED  BY <1>6, <1>8, <2>1 DEF ReleaseFails
<1>9. CASE DropContent(q) \/ DropFails(q)
  <2>1. AfterDrop(req[q]).pc \in {"claim", "done"}
    BY NeverHeld DEF AfterDrop
  <2> QED  BY <1>6, <1>9, <2>1 DEF DropContent, DropFails
<1>10. CASE FindRecent(q)
  <2>1. [req[q] EXCEPT !.pc = "task"].quick = req[q].quick /\ ~ req[q].quick
    BY <1>0, <1>10 DEF FindRecent, ReqState, Shape
  <2> QED  BY <1>10, <2>1, OneGoes, NeverHeld DEF FindRecent
<1>11. CASE SeekSuggestion(q)
  <2>1. \A s \in rows : [req[q] EXCEPT !.cand = s, !.pc = "attach"].pc = "attach"
    BY <1>0 DEF ReqState
  <2> QED  BY <1>6, <1>11, <2>1, NeverHeld DEF SeekSuggestion
<1>12. CASE AttachFails(q)
  BY <1>6, <1>12, NeverHeld DEF AttachFails
<1>13. CASE QueryFails(q)
  <2>1. /\ [req[q] EXCEPT !.pc = "release"].cur = req[q].cur
        /\ [req[q] EXCEPT !.pc = "release"].quick = req[q].quick
        /\ req[q].quick /\ req[q].pc # "claim" => req[q].pc \in {"find", "make"}
    BY <1>0, <1>13 DEF QueryFails, ReqState, Shape
  <2> QED  BY <1>13, <2>1, OneGoes, NeverHeld DEF QueryFails
<1> QED  BY <1>1, <1>2, <1>3, <1>4, <1>5, <1>7, <1>8, <1>9, <1>10, <1>11, <1>12, <1>13

(* A claim is taken of a row nobody holds, or its row is named in slow. *)
LEMMA OneClaim ==
  ASSUME Typed, OneInv, NEW q \in Request, NEW s \in Row, Claim(q, s) PROVE OneInv'
<1> DEFINE r == [req[q] EXCEPT !.pc = IF material[s] \in Video THEN "find" ELSE "task",
                               !.cur = s, !.mat = material[s],
                               !.content = IF material[s] \in Video THEN None ELSE material[s]]
<1>1. /\ req[q] \in ReqState /\ Shape(req[q]) /\ req[q].pc = "claim"
      /\ Go(q, r) /\ UNCHANGED <<rows, linked, tasks>> /\ slow \subseteq slow'
      /\ s \in rows /\ linked[s] = None
  BY Here DEF Claim, Claimable, planVars, taskVars
<1>2. r.quick /\ r.cur = s /\ r.pc \in {"find", "task"}
  BY <1>1 DEF Shape, ReqState
<1> HIDE DEF r
<1>3. /\ \A x \in Row : Holds(q, x)' <=> x = s
      /\ \A q2 \in Request \ {q}, x \in Row : Holds(q2, x)' <=> Holds(q2, x)
      /\ \A q2 \in Request \ {q} : req'[q2] = req[q2]
      /\ \A x \in Row : ~ Holds(q, x)
  BY <1>1, <1>2, HoldsGo DEF HoldPc, Holds
<1>4. usedAge'[s] = 0 /\ \A x \in Row \ {s} : usedAge'[x] = usedAge[x]
  BY DEF Claim, Typed, PlansTypeOK
<1>5. ASSUME s \notin slow' PROVE \A q2 \in Request : ~ Holds(q2, s)
  <2>1. usedAge[s] = NotUsed \/ usedAge[s] > ClaimTimeout
    BY DEF Claim, Claimable
  <2>2. usedAge[s] > ClaimTimeout => \A q2 \in Request : ~ Holds(q2, s)
    BY <1>5 DEF Claim
  <2>3. ClaimsShow(s)
    BY <1>1, <1>5 DEF OneInv
  <2> QED  BY <1>1, <2>1, <2>2, <2>3 DEF ClaimsShow
<1>6. ASSUME s \notin slow' PROVE \A q2 \in Request : <<q2, s>> \notin tasks
  <2>1. TasksAreLinked(s)
    BY <1>1, <1>6 DEF OneInv
  <2>2. \A q2 \in Request : <<q2, s>> \in tasks => linked[s] = <<q2, s>>
    BY <1>1, <1>5, <1>6, <2>1 DEF TasksAreLinked
  <2>3. \A q2 \in Request : <<q2, s>> \in tasks => <<q2, s>> # None
    BY Constants DEF Typed, PlansTypeOK
  <2> QED  BY <1>1, <2>2, <2>3
<1>7. OneTaskEach'
  BY <1>1 DEF OneInv, OneTaskEach
<1>8. ASSUME NEW x \in Row \ slow'
      PROVE  ClaimsAreOne(x)' /\ ClaimsShow(x)' /\ TasksAreLinked(x)' /\ ClaimsAreFree(x)'
  <2>1. ClaimsAreOne(x) /\ ClaimsShow(x) /\ TasksAreLinked(x) /\ ClaimsAreFree(x)
    BY <1>1, <1>8 DEF OneInv
  <2>2. CASE x = s
    <3>1. ClaimsAreOne(x)'
      BY <1>3, <1>5, <1>8, <2>2 DEF ClaimsAreOne
    <3>2. ClaimsShow(x)'
      BY <1>4, <2>2, Constants DEF ClaimsShow
    <3>3. TasksAreLinked(x)' /\ ClaimsAreFree(x)'
      BY <1>1, <1>6, <1>8, <2>2 DEF TasksAreLinked, ClaimsAreFree
    <3> QED  BY <3>1, <3>2, <3>3
  <2>3. CASE x # s
    <3>1. \A q2 \in Request : Holds(q2, x)' <=> Holds(q2, x)
      BY <1>3, <2>3
    <3>2. \A q2 \in Request : Holds(q2, x) => req'[q2] = req[q2]
      BY <1>3
    <3>3. ClaimsAreOne(x)' /\ ClaimsAreFree(x)'
      BY <1>1, <2>1, <3>1 DEF ClaimsAreOne, ClaimsAreFree
    <3>4. ClaimsShow(x)'
      BY <1>1, <1>4, <2>1, <2>3, <3>1 DEF ClaimsShow
    <3>5. TasksAreLinked(x)'
      BY <1>1, <2>1, <3>1, <3>2 DEF TasksAreLinked
    <3> QED  BY <3>3, <3>4, <3>5
  <2> QED  BY <2>2, <2>3
<1> QED  BY <1>7, <1>8 DEF OneInv

(* A task is made by the one holder of its row. *)
LEMMA OneCreate ==
  ASSUME Typed, OneInv, NEW q \in Request, CreateTask(q) PROVE OneInv'
<1> DEFINE r == [req[q] EXCEPT !.pc = IF req[q].quick THEN "link" ELSE "seek",
                               !.content = None, !.made = FALSE]
           c == req[q].cur
<1>1. /\ req[q] \in ReqState /\ Shape(req[q]) /\ req[q].pc = "task"
      /\ Go(q, r) /\ UNCHANGED <<rows, linked, usedAge, slow>> /\ tasks' = tasks \cup {<<q, c>>}
  BY Here DEF CreateTask, planVars
<1>2. r.quick = req[q].quick /\ r.cur = c /\ (req[q].quick => r.pc = "link")
      /\ (~ req[q].quick => r.pc = "seek")
  BY <1>1 DEF ReqState
<1>3. (req[q].quick => c \in Row) /\ (~ req[q].quick => c = NoRow) /\ NoRow \notin Row
  BY <1>1, Constants DEF Shape
<1> HIDE DEF r, c
<1>4. /\ \A q2 \in Request, x \in Row : Holds(q2, x)' <=> Holds(q2, x)
      /\ \A q2 \in Request \ {q} : req'[q2] = req[q2]
      /\ req'[q] = r
      /\ \A x \in Row : x = c => Holds(q, x) /\ req'[q].pc = "link"
  <2>1. \A x \in Row : Holds(q, x) <=> req[q].quick /\ x = c
    BY <1>1 DEF Holds, c
  <2>2. \A x \in Row : Holds(q, x)' <=> req[q].quick /\ x = c
    BY <1>1, <1>2, HoldsGo DEF HoldPc
  <2> QED  BY <1>1, <1>2, <1>3, <2>1, <2>2, HoldsGo
<1>5. ASSUME NEW x \in Row, NEW q2 \in Request
      PROVE  <<q2, x>> \in tasks' <=> <<q2, x>> \in tasks \/ (q2 = q /\ x = c)
  BY <1>1
<1>6. ASSUME NEW x \in Row \ slow'
      PROVE  ClaimsAreOne(x)' /\ ClaimsShow(x)' /\ TasksAreLinked(x)' /\ ClaimsAreFree(x)'
             /\ \A q1, q2 \in Request : <<q1, x>> \in tasks' /\ <<q2, x>> \in tasks' => q1 = q2
  <2>1. ClaimsAreOne(x) /\ ClaimsShow(x) /\ TasksAreLinked(x) /\ ClaimsAreFree(x)
        /\ \A q1, q2 \in Request : <<q1, x>> \in tasks /\ <<q2, x>> \in tasks => q1 = q2
    BY <1>1, <1>6 DEF OneInv, OneTaskEach
  <2>2. ClaimsAreOne(x)' /\ ClaimsShow(x)'
    BY <1>1, <1>4, <2>1 DEF ClaimsAreOne, ClaimsShow
  <2>3. ClaimsAreFree(x)'
    BY <1>4, <1>5, <2>1 DEF ClaimsAreFree, ClaimsAreOne
  <2>4. TasksAreLinked(x)'
    <3> SUFFICES ASSUME NEW q2 \in Request, <<q2, x>> \in tasks', x \in rows'
                 PROVE  (Holds(q2, x)' /\ req'[q2].pc = "link") \/ linked'[x] = <<q2, x>>
      BY DEF TasksAreLinked
    <3>1. CASE q2 = q /\ x = c
      BY <1>4, <3>1
    <3>2. CASE <<q2, x>> \in tasks /\ ~ (q2 = q /\ x = c)
      <4>1. (Holds(q2, x) /\ req[q2].pc = "link") \/ linked[x] = <<q2, x>>
        BY <1>1, <2>1, <3>2 DEF TasksAreLinked
      <4>2. Holds(q2, x) /\ req[q2].pc = "link" => q2 # q
        BY <1>1
      <4> QED  BY <1>1, <1>4, <4>1, <4>2
    <3> QED  BY <1>5, <3>1, <3>2
  <2>5. \A q1, q2 \in Request : <<q1, x>> \in tasks' /\ <<q2, x>> \in tasks' => q1 = q2
    BY <1>4, <1>5, <2>1 DEF ClaimsAreFree
  <2> QED  BY <2>2, <2>3, <2>4, <2>5
<1> QED  BY <1>6 DEF OneInv, OneTaskEach

LEMMA OneUnanswered ==
  ASSUME Typed, OneInv, NEW q \in Request, CreateTaskUnanswered(q) PROVE OneInv'
<1> DEFINE c == req[q].cur
<1>1. /\ req[q] \in ReqState /\ req[q].pc = "task" /\ Go(q, AfterError(req[q]))
      /\ UNCHANGED <<rows, linked, usedAge>> /\ tasks' = tasks \cup {<<q, c>>}
      /\ slow' = slow \cup {c}
  BY Here DEF CreateTaskUnanswered, planVars
<1>2. \A x \in Row \ slow', q2 \in Request :
        /\ <<q2, x>> \in tasks' <=> <<q2, x>> \in tasks
        /\ Holds(q2, x)' <=> Holds(q2, x)
        /\ Holds(q2, x) => req'[q2] = req[q2]
  <2>1. AfterError(req[q]).pc = "release" => AfterError(req[q]).cur = c
    BY <1>1, NeverHeld DEF AfterError, ReqState
  <2>2. AfterError(req[q]).pc \in {"release", "drop", "done"}
    BY <1>1, NeverHeld DEF AfterError, ReqState
  <2>3. \A x \in Row : x # c => ~ Holds(q, x) /\ ~ Holds(q, x)'
    BY <1>1, <2>1, <2>2, HoldsGo DEF Holds, HoldPc
  <2> HIDE DEF c
  <2> QED  BY <1>1, <2>3, HoldsGo
<1>3. OneTaskEach'
  BY <1>1, <1>2 DEF OneInv, OneTaskEach
<1>4. ASSUME NEW x \in Row \ slow'
      PROVE  ClaimsAreOne(x)' /\ ClaimsShow(x)' /\ TasksAreLinked(x)' /\ ClaimsAreFree(x)'
  <2>1. ClaimsAreOne(x) /\ ClaimsShow(x) /\ TasksAreLinked(x) /\ ClaimsAreFree(x)
    BY <1>1, <1>4 DEF OneInv
  <2>2. ClaimsAreOne(x)' /\ ClaimsShow(x)' /\ ClaimsAreFree(x)'
    BY <1>1, <1>2, <2>1 DEF ClaimsAreOne, ClaimsShow, ClaimsAreFree
  <2>3. TasksAreLinked(x)'
    BY <1>1, <1>2, <2>1 DEF TasksAreLinked
  <2> QED  BY <2>2, <2>3
<1> QED  BY <1>3, <1>4 DEF OneInv

LEMMA OneWrites ==
  ASSUME Typed, OneInv, NEW q \in Request,
         Link(q) \/ LinkFails(q) \/ Release(q) \/ Attach(q)
  PROVE  OneInv'
<1> DEFINE c == req[q].cur
<1>0. /\ req[q] \in ReqState /\ Shape(req[q])
      /\ linked \in [Row -> tasks \cup {None}] /\ usedAge \in [Row -> {NotUsed} \cup (0 .. MaxAge)]
      /\ rows \subseteq Row /\ tasks \subseteq Task
  BY Here, Constants DEF Typed, PlansTypeOK
<1>1. ASSUME NEW r, Go(q, r), r.pc \in {"claim", "drop", "done"}
      PROVE  /\ \A x \in Row : ~ Holds(q, x)'
             /\ \A q2 \in Request, x \in Row : Holds(q2, x)' => Holds(q2, x) /\ q2 # q
             /\ \A q2 \in Request \ {q} : req'[q2] = req[q2]
             /\ \A q2 \in Request \ {q}, x \in Row : Holds(q2, x) => Holds(q2, x)'
  BY <1>1, HoldsGo DEF HoldPc
<1>2. CASE Link(q)
  <2>1. /\ Go(q, NextOf(req[q])) /\ NextOf(req[q]).pc \in {"claim", "done"}
        /\ UNCHANGED <<rows, usedAge, tasks, slow>> /\ req[q].pc = "link"
        /\ linked' = LinkedWith(c, <<q, c>>)
    BY <1>2, NeverHeld DEF Link, planVars, taskVars
  <2>2. c \in Row /\ Holds(q, c) /\ \A x \in Row : Holds(q, x) => x = c
    BY <1>0, <2>1 DEF Shape, Holds
  <2> HIDE DEF c
  <2>3. /\ \A x \in Row \ {c} : linked'[x] = linked[x]
        /\ c \in rows /\ <<q, c>> \in tasks => linked'[c] = <<q, c>>
        /\ c \notin rows \/ <<q, c>> \notin tasks => linked' = linked
    BY <1>0, <2>1, <2>2 DEF LinkedWith
  <2>4. ASSUME NEW q2 \in Request, NEW x \in rows \ slow', <<q2, x>> \in tasks,
               linked[x] = <<q2, x>>
        PROVE  linked'[x] = <<q2, x>>
    <3>1. x = c => q2 = q
      <4>1. x \in Row \ slow
        BY <1>0, <2>1, <2>4
      <4>2. ClaimsAreFree(x)
        BY <4>1 DEF OneInv
      <4> QED  BY <2>2, <2>4, <4>2 DEF ClaimsAreFree
    <3> QED  BY <1>0, <2>3, <2>4, <3>1
  <2>5. \A q2 \in Request, x \in Row \ slow' :
           Holds(q2, x) /\ req[q2].pc = "link" /\ <<q2, x>> \in tasks' =>
             \/ Holds(q2, x)' /\ req'[q2].pc = "link"
             \/ x \notin rows' \/ linked'[x] = <<q2, x>>
    BY <1>1, <2>1, <2>2, <2>3
  <2>6. \A q2 \in Request, x \in Row : Holds(q2, x)' => Holds(q2, x)
    BY <1>1, <2>1
  <2> QED  BY <2>1, <2>4, <2>5, <2>6, OneQuiet
<1>3. CASE LinkFails(q)
  <2>1. /\ Go(q, NextOf(req[q])) /\ NextOf(req[q]).pc \in {"claim", "done"}
        /\ UNCHANGED <<rows, usedAge, tasks, linked>> /\ slow' = slow \cup {c}
    BY <1>3, NeverHeld DEF LinkFails, planVars, taskVars
  <2>2. \A x \in Row \ slow' : ~ Holds(q, x)
    BY <2>1 DEF Holds
  <2>3. \A q2 \in Request, x \in Row \ slow' :
           Holds(q2, x) /\ req[q2].pc = "link" => Holds(q2, x)' /\ req'[q2].pc = "link"
    BY <1>1, <2>1, <2>2
  <2>4. \A q2 \in Request, x \in Row : Holds(q2, x)' => Holds(q2, x)
    BY <1>1, <2>1
  <2> QED  BY <2>1, <2>3, <2>4, OneQuiet
<1>4. CASE Release(q)
  <2>1. /\ Go(q, AfterRelease(req[q])) /\ req[q].pc = "release"
        /\ UNCHANGED <<rows, linked, tasks, slow>>
        /\ \A x \in Row : x # c => usedAge'[x] = usedAge[x]
    BY <1>0, <1>4 DEF Release, planVars, taskVars, history
  <2>2. AfterRelease(req[q]).pc \in {"claim", "drop", "done"}
    BY <1>0, NeverHeld DEF AfterRelease, ReqState
  <2>3. c \in Row /\ Holds(q, c)
    BY <1>0, <2>1 DEF Shape, Holds
  <2> HIDE DEF c
  <2>4. ASSUME NEW x \in rows \ slow', NEW q2 \in Request, Holds(q2, x)', usedAge[x] # NotUsed
        PROVE  usedAge'[x] # NotUsed
    <3>1. Holds(q2, x) /\ q2 # q /\ x \in Row \ slow
      BY <1>0, <1>1, <2>1, <2>2, <2>4
    <3>2. ClaimsAreOne(x)
      BY <3>1 DEF OneInv
    <3>3. x # c
      BY <2>3, <3>1, <3>2 DEF ClaimsAreOne
    <3> QED  BY <2>1, <2>4, <3>1, <3>3
  <2>5. \A q2 \in Request, x \in Row :
           Holds(q2, x) /\ req[q2].pc = "link" => Holds(q2, x)' /\ req'[q2].pc = "link"
    BY <1>1, <2>1, <2>2
  <2>6. \A q2 \in Request, x \in Row : Holds(q2, x)' => Holds(q2, x)
    BY <1>1, <2>1, <2>2
  <2> QED  BY <2>1, <2>4, <2>5, <2>6, OneQuiet
<1>5. CASE Attach(q)
  <2>1. /\ Go(q, OverReq) /\ OverReq.pc = "done" /\ req[q].pc = "attach"
        /\ UNCHANGED <<rows, tasks, slow>>
    BY <1>5, NeverHeld DEF Attach, planVars, taskVars
  <2>2. \A x \in Row : linked'[x] = linked[x] \/ linked[x] = None
    BY <1>0, <1>5 DEF Attach
  <2>3. \A x \in Row : usedAge'[x] = usedAge[x] \/ usedAge'[x] = 0
    BY <1>0, <1>5 DEF Attach
  <2>4. None \notin tasks /\ 0 # NotUsed
    BY <1>0, Constants
  <2>5. \A q2 \in Request, x \in Row :
           Holds(q2, x) /\ req[q2].pc = "link" => Holds(q2, x)' /\ req'[q2].pc = "link"
    BY <1>1, <2>1
  <2>6. \A q2 \in Request, x \in Row : Holds(q2, x)' => Holds(q2, x)
    BY <1>1, <2>1
  <2>7. \A x \in rows, q2 \in Request :
          <<q2, x>> \in tasks /\ linked[x] = <<q2, x>> => linked'[x] = <<q2, x>>
    BY <1>0, <2>2, <2>4
  <2>8. \A x \in rows : usedAge[x] # NotUsed => usedAge'[x] # NotUsed
    BY <1>0, <2>3, <2>4
  <2> QED  BY <2>1, <2>5, <2>6, <2>7, <2>8, OneQuiet
<1> QED  BY <1>2, <1>3, <1>4, <1>5

(* Steps of no request. *)
LEMMA OneOthers ==
  ASSUME Typed, OneInv,
         \/ \E t \in Task : RemoveTask(t)
         \/ \E b \in Run, quota \in BOOLEAN, want \in SUBSET Material : StartRun(b, quota, want)
         \/ \E b \in Run : \/ ReadPlan(b) \/ UpdatePlan(b) \/ ClearRows(b) \/ CreatePlan(b)
                           \/ PrunePlans(b) \/ RunFails(b)
         \/ Tick
  PROVE  OneInv'
<1>0. rows \subseteq Row
  BY Constants DEF Typed, PlansTypeOK
<1>1. ASSUME NEW t \in Task, RemoveTask(t) PROVE OneInv'
  <2>1. /\ req' = req /\ rows' = rows /\ usedAge' = usedAge /\ slow' = slow
        /\ tasks' = tasks \ {t}
        /\ \A x \in Row : linked[x] # t => linked'[x] = linked[x]
    BY <1>1 DEF RemoveTask, planVars, history
  <2> QED  BY <1>0, <2>1, OneQuiet DEF Holds
<1>2. ASSUME req' = req, tasks' = tasks, slow' = slow, linked' = linked, rows' \subseteq rows,
             \A x \in rows' : usedAge[x] # NotUsed => usedAge'[x] # NotUsed
      PROVE  OneInv'
  BY <1>2, OneQuiet DEF Holds
<1>3. ASSUME NEW S, Delete(S)
      PROVE  rows' \subseteq rows /\ \A x \in rows' : usedAge'[x] = usedAge[x]
  BY <1>0, <1>3 DEF Delete
<1>4. ASSUME NEW b \in Run, NEW quota \in BOOLEAN, NEW want \in SUBSET Material,
             StartRun(b, quota, want)
      PROVE  OneInv'
  BY <1>2, <1>4 DEF StartRun, planVars, reqVars, history
<1>5. ASSUME NEW b \in Run, ReadPlan(b) \/ UpdatePlan(b) \/ CreatePlan(b) \/ RunFails(b)
      PROVE  OneInv'
  BY <1>2, <1>5 DEF ReadPlan, UpdatePlan, CreatePlan, RunFails, planVars, reqVars, history
<1>6. ASSUME NEW b \in Run, ClearRows(b) PROVE OneInv'
  BY <1>2, <1>3, <1>6 DEF ClearRows, reqVars, history
<1>7. ASSUME NEW b \in Run, PrunePlans(b) PROVE OneInv'
  BY <1>2, <1>3, <1>7 DEF PrunePlans, reqVars, history
<1>8. CASE Tick
  <2>1. \A x \in rows : usedAge'[x] = NotUsed <=> usedAge[x] = NotUsed
    BY <1>0, <1>8, TickEffect
  <2> QED  BY <1>2, <1>8, <2>1 DEF Tick, planVars, history
<1> QED  BY <1>1, <1>4, <1>5, <1>6, <1>7, <1>8

(* New rows have numbers no claim and no task knows. *)
LEMMA OneAdd ==
  ASSUME Typed, OneInv, NEW b \in Run, AddRows(b) PROVE OneInv'
<1>1. UNCHANGED <<req, tasks, linked, usedAge, slow>>
  BY DEF AddRows, reqVars, history
<1>2. \A x \in rows' \ rows : x > lastRow /\ x \in Row
  BY AddEffect, Constants
<1>3. ASSUME NEW x \in rows' \ rows, NEW q \in Request
      PROVE  ~ Holds(q, x) /\ <<q, x>> \notin tasks
  <2>1. req[q].cur <= lastRow /\ lastRow \in Nat
    BY Here DEF Shape
  <2>2. <<q, x>> \in tasks => <<q, x>>[2] <= lastRow
    BY DEF Typed
  <2> QED  BY <1>2, <2>1, <2>2, Constants DEF Holds
<1>4. ASSUME NEW x \in Row \ slow'
      PROVE  ClaimsAreOne(x)' /\ ClaimsShow(x)' /\ TasksAreLinked(x)' /\ ClaimsAreFree(x)'
  <2>1. ClaimsAreOne(x) /\ ClaimsShow(x) /\ TasksAreLinked(x) /\ ClaimsAreFree(x)
    BY <1>1, <1>4 DEF OneInv
  <2>2. \A q \in Request : Holds(q, x)' <=> Holds(q, x)
    BY <1>1 DEF Holds
  <2>3. ClaimsAreOne(x)' /\ ClaimsAreFree(x)'
    BY <1>1, <2>1, <2>2 DEF ClaimsAreOne, ClaimsAreFree
  <2>4. ClaimsShow(x)' /\ TasksAreLinked(x)'
    BY <1>1, <1>3, <2>1, <2>2 DEF ClaimsShow, TasksAreLinked
  <2> QED  BY <2>3, <2>4
<1> QED  BY <1>1, <1>4 DEF OneInv, OneTaskEach

LEMMA OneStep == ASSUME Typed, OneInv, [PlansNext]_plansVars PROVE OneInv'
<1>1. CASE UNCHANGED plansVars
  BY <1>1, OneQuiet DEF plansVars, Holds
<1>2. ASSUME NEW q \in Request, RequestStep(q) PROVE OneInv'
  BY <1>2, OneRequest, OneClaim, OneCreate, OneUnanswered, OneWrites DEF RequestStep
<1> QED  BY <1>1, <1>2, OneOthers, OneAdd DEF PlansNext, RunStep

LEMMA OneInit == PlansInit => OneInv
<1> SUFFICES ASSUME PlansInit PROVE OneInv
  OBVIOUS
<1>1. \A q \in Request : req[q].pc = "idle"
  BY DEF PlansInit, IdleReq
<1>2. \A q \in Request, s \in Row : ~ Holds(q, s)
  BY <1>1 DEF Holds
<1> QED  BY <1>2 DEF PlansInit, OneInv, OneTaskEach, ClaimsAreOne, ClaimsShow, TasksAreLinked, ClaimsAreFree

(* A suggestion has at most one task, for any number of clicks, tabs,     *)
(* searches and runs of the planner: property OneTaskEach.                 *)
THEOREM OneTaskCorrect == PlansSpec => []OneTaskEach
<1>1. Typed /\ OneInv /\ [PlansNext]_plansVars => (Typed /\ OneInv)'
  BY TypedStep, OneStep
<1>2. OneInv => OneTaskEach
  BY DEF OneInv
<1> QED  BY TypedInit, OneInit, <1>1, <1>2, PTL DEF PlansSpec

-----------------------------------------------------------------------------
(* Nothing suggested twice.                                                *)

(* A step that adds no row and moves no run. *)
LEMMA TwinQuiet ==
  ASSUME Typed, RunsAgree, plan' = plan, rows' \subseteq rows,
         \A s \in rows' : material'[s] = material[s],
         \A b \in Run : /\ run'[b].pc = run[b].pc /\ run'[b].plan = run[b].plan
                        /\ run'[b].used = run[b].used,
         \A b \in Run, s \in rows' :
           Replacing(b) /\ InUse(b, s)' => InUse(b, s) \/ material[s] \in run[b].used
  PROVE  RunsAgree'
<1>0. rows \subseteq Row
  BY Constants DEF Typed, PlansTypeOK
<1>1. Distinct' /\ NoPlanNoRows'
  BY DEF RunsAgree, Distinct, NoPlanNoRows
<1>2. OneActive' /\ PlansKnown' /\ CreatesEmpty'
  BY DEF RunsAgree, OneActive, PlansKnown, CreatesEmpty, Active
<1>3. ReadsHold'
  <2> SUFFICES ASSUME NEW b \in Run, NEW s \in Row, Replacing(b)', InUse(b, s)'
               PROVE  material'[s] \in run'[b].used
    BY DEF ReadsHold
  <2>1. s \in rows' /\ Replacing(b)
    BY DEF InUse, Replacing
  <2> QED  BY <1>0, <2>1 DEF RunsAgree, ReadsHold
<1>4. AddsAreNew'
  BY DEF RunsAgree, AddsAreNew
<1> QED  BY <1>1, <1>2, <1>3, <1>4 DEF RunsAgree

LEMMA TwinRequest ==
  ASSUME Typed, RunsAgree, ~ raced', NEW q \in Request, RequestStep(q) PROVE RunsAgree'
<1>0. /\ rows \subseteq Row
      /\ linked \in [Row -> tasks \cup {None}] /\ usedAge \in [Row -> {NotUsed} \cup (0 .. MaxAge)]
  BY Constants DEF Typed, PlansTypeOK
<1>1. ASSUME UNCHANGED <<planVars, run, linked, usedAge>> PROVE RunsAgree'
  BY <1>1, TwinQuiet DEF planVars, InUse
<1>2. ASSUME NEW s, ComesIntoUse(s), UNCHANGED <<planVars, run>>,
             \A x \in Row : x # s => linked'[x] = linked[x] /\ usedAge'[x] = usedAge[x]
      PROVE  RunsAgree'
  <2>1. ASSUME NEW b \in Run, NEW x \in rows', Replacing(b), InUse(b, x)'
        PROVE  InUse(b, x) \/ material[x] \in run[b].used
    <3>1. x = s => material[x] \in run[b].used
      BY <1>2, <2>1 DEF ComesIntoUse, planVars
    <3>2. x # s => InUse(b, x)
      BY <1>0, <1>2, <2>1 DEF InUse, planVars
    <3> QED  BY <3>1, <3>2
  <2> QED  BY <1>2, <2>1, TwinQuiet DEF planVars
<1>3. ASSUME NEW s \in Row, Claim(q, s) PROVE RunsAgree'
  BY <1>0, <1>2, <1>3 DEF Claim
<1>4. CASE Link(q)
  BY <1>0, <1>2, <1>4 DEF Link, LinkedWith
<1>5. CASE Attach(q)
  BY <1>0, <1>2, <1>5 DEF Attach
<1>6. CASE Release(q)
  <2>1. \A b \in Run, x \in rows' : InUse(b, x)' => InUse(b, x)
    <3>1. /\ linked' = linked /\ run' = run /\ rows' = rows
          /\ \A x \in Row : usedAge'[x] = usedAge[x] \/ usedAge'[x] = NotUsed
      BY <1>0, <1>6 DEF Release, planVars
    <3>2. \A b \in Run : NotUsed \notin 0 .. (ClaimTimeout + run[b].elapsed)
      BY Constants DEF Typed, PlansTypeOK, RunState
    <3> QED  BY <1>0, <3>1, <3>2 DEF InUse
  <2> QED  BY <1>6, <2>1, TwinQuiet DEF Release, planVars
<1>8. ASSUME NEW ids \in SUBSET Row, StartQuick(q, ids) PROVE RunsAgree'
  BY <1>1, <1>8 DEF StartQuick
<1>9. ASSUME NEW s \in Row, Refuse(q, s) PROVE RunsAgree'
  BY <1>1, <1>9 DEF Refuse
<1>10. ASSUME NEW m \in Material, StartSearch(q, m) PROVE RunsAgree'
  BY <1>1, <1>10 DEF StartSearch
<1>11. CASE \/ FindContent(q) \/ MakeContent(q) \/ FindRecent(q) \/ CreateTaskFails(q)
            \/ CreateTask(q) \/ CreateTaskUnanswered(q)
  BY <1>1, <1>11 DEF FindContent, MakeContent, FindRecent, CreateTaskFails, CreateTask,
       CreateTaskUnanswered
<1>12. CASE \/ LinkFails(q) \/ ReleaseFails(q) \/ DropContent(q) \/ DropFails(q)
            \/ SeekSuggestion(q) \/ AttachFails(q) \/ QueryFails(q)
  BY <1>1, <1>12 DEF LinkFails, ReleaseFails, DropContent, DropFails, SeekSuggestion,
       AttachFails, QueryFails
<1> QED  BY <1>3, <1>4, <1>5, <1>6, <1>8, <1>9, <1>10, <1>11, <1>12 DEF RequestStep

LEMMA TwinRemove ==
  ASSUME Typed, RunsAgree, NEW t \in Task, RemoveTask(t) PROVE RunsAgree'
<1>1. \A b \in Run, x \in rows' : InUse(b, x)' => InUse(b, x)
  <2>1. rows \subseteq Row
    BY Constants DEF Typed, PlansTypeOK
  <2>2. \A x \in Row : linked'[x] # None => linked[x] # None
    BY DEF RemoveTask
  <2> QED  BY <2>1, <2>2 DEF RemoveTask, InUse, planVars
<1> QED  BY <1>1, TwinQuiet DEF RemoveTask, planVars

(* Claims and runs grow old together, so nothing comes into use by time. *)
LEMMA TwinTick == ASSUME Typed, RunsAgree, Tick PROVE RunsAgree'
<1>1. ASSUME NEW b \in Run, NEW x \in rows', Replacing(b), InUse(b, x)' PROVE InUse(b, x)
  <2>1. /\ x \in rows /\ rows \subseteq Row /\ linked' = linked /\ Running(b)
    BY <1>1, Constants DEF Tick, planVars, Typed, PlansTypeOK, Replacing, Running
  <2>2. /\ usedAge[x] \in {NotUsed} \cup (0 .. MaxAge)
        /\ run[b].elapsed \in 0 .. MaxRun /\ run'[b].elapsed = run[b].elapsed + 1
        /\ run'[b].elapsed \in 0 .. MaxRun
    BY <2>1, TickEffect DEF Typed, PlansTypeOK, RunState
  <2>3. CASE linked[x] # None
    BY <2>1, <2>3 DEF InUse
  <2>4. CASE linked[x] = None
    <3>1. usedAge'[x] \in 0 .. (ClaimTimeout + run'[b].elapsed)
      BY <1>1, <2>1, <2>4 DEF InUse
    <3>2. usedAge'[x] = IF usedAge[x] = NotUsed THEN NotUsed ELSE Older(usedAge[x])
      BY <2>1 DEF Tick
    <3>3. usedAge[x] \in 0 .. (ClaimTimeout + run[b].elapsed)
      BY SMTT(30), <2>2, <3>1, <3>2, Constants DEF Older
    <3> QED  BY <2>1, <3>3 DEF InUse
  <2> QED  BY <2>3, <2>4
<1> QED  BY <1>1, TickEffect, TwinQuiet DEF Tick, planVars

(* What moves of a run, and that the others stay. *)
LEMMA RunMoves ==
  ASSUME Typed, NEW b \in Run,
         \/ ReadPlan(b) \/ UpdatePlan(b) \/ ClearRows(b) \/ CreatePlan(b)
         \/ AddRows(b) \/ PrunePlans(b) \/ RunFails(b)
         \/ \E quota \in BOOLEAN, want \in SUBSET Material : StartRun(b, quota, want)
  PROVE  /\ \A b2 \in Run \ {b} : run'[b2] = run[b2]
         /\ OverRun.pc = "done"
<1>1. run \in [Run -> RunState] /\ OverRun.pc = "done"
  BY DEF Typed, PlansTypeOK, OverRun, IdleRun
<1>2. CASE AddRows(b)
  BY <1>1, <1>2, AddEffect
<1>3. CASE ~ AddRows(b)
  BY <1>1, <1>3
  DEF StartRun, ReadPlan, UpdatePlan, ClearRows, CreatePlan, PrunePlans, RunFails, At, Over
<1> QED  BY <1>1, <1>2, <1>3

(* A run that ends, or has not begun, relies on nothing. *)
LEMMA TwinLeaves ==
  ASSUME Typed, RunsAgree, NEW b \in Run,
         \A b2 \in Run \ {b} : run'[b2] = run[b2],
         run'[b].pc \in {"read", "prune", "done"},
         plan' = plan \/ (plan' = None /\ rows' = {}),
         rows' \subseteq rows, \A s \in rows' : material'[s] = material[s],
         UNCHANGED linked, \A s \in rows' : usedAge'[s] = usedAge[s]
  PROVE  RunsAgree'
<1>0. rows \subseteq Row
  BY Constants DEF Typed, PlansTypeOK
<1>1. ~ Active(b)' /\ ~ Replacing(b)' /\ run'[b].pc \notin {"add", "create"}
  BY DEF Active, Replacing
<1>2. \A b2 \in Run \ {b} : Active(b2)' <=> Active(b2)
  BY DEF Active
<1>3. Distinct' /\ NoPlanNoRows'
  BY DEF RunsAgree, Distinct, NoPlanNoRows
<1>4. OneActive' /\ PlansKnown' /\ CreatesEmpty'
  BY <1>1, <1>2 DEF RunsAgree, OneActive, PlansKnown, CreatesEmpty
<1>5. ReadsHold'
  <2> SUFFICES ASSUME NEW b2 \in Run, NEW s \in Row, Replacing(b2)', InUse(b2, s)'
               PROVE  material'[s] \in run'[b2].used
    BY DEF ReadsHold
  <2>1. b2 # b /\ s \in rows' /\ run'[b2] = run[b2]
    BY <1>1 DEF InUse
  <2>2. Replacing(b2) /\ InUse(b2, s)
    BY <2>1 DEF Replacing, InUse
  <2> QED  BY <1>0, <2>1, <2>2 DEF RunsAgree, ReadsHold
<1>6. AddsAreNew'
  <2> SUFFICES ASSUME NEW b2 \in Run, run'[b2].pc = "add", plan' = run'[b2].plan, NEW s \in rows'
               PROVE  material'[s] \in run'[b2].used
    BY DEF AddsAreNew
  <2>1. b2 # b /\ run'[b2] = run[b2] /\ rows' # {}
    BY <1>1
  <2> QED  BY <2>1 DEF RunsAgree, AddsAreNew
<1> QED  BY <1>3, <1>4, <1>5, <1>6 DEF RunsAgree

LEMMA TwinRead ==
  ASSUME Typed, RunsAgree, ~ raced', NEW b \in Run, ReadPlan(b) PROVE RunsAgree'
<1> DEFINE used == {material[s] : s \in {r \in rows : InUse(b, r)}}
<1>1. /\ UNCHANGED <<plan, rows, material, usedAge, linked>>
      /\ \A b2 \in Run \ {b} : run'[b2] = run[b2] /\ ~ Active(b2)
      /\ run[b] \in RunState /\ rows \subseteq Row
      /\ \A b2 \in Run \ {b} : ~ Active(b2)' /\ ~ Replacing(b2)' /\ run'[b2].pc \notin {"add", "create"}
  <2>1. run[b] \in RunState /\ rows \subseteq Row
    BY Constants DEF Typed, PlansTypeOK
  <2>2. \A b2 \in Run \ {b} : run'[b2] = run[b2] /\ run[b2].pc \in {"idle", "read", "prune", "done"}
    BY RunMoves DEF ReadPlan
  <2>3. UNCHANGED <<plan, rows, material, usedAge, linked>>
    BY DEF ReadPlan, planVars
  <2> QED  BY <2>1, <2>2, <2>3 DEF Active, Replacing
<1>2. /\ run'[b] = [run[b] EXCEPT !.pc = IF plan = None THEN "create" ELSE "update",
                                  !.plan = plan, !.used = used]
  BY DEF ReadPlan, Typed, PlansTypeOK
<1>3. /\ run'[b].plan = plan /\ run'[b].used = used /\ run'[b].elapsed = run[b].elapsed
      /\ plan = None => run'[b].pc = "create"
      /\ plan # None => run'[b].pc = "update"
  BY <1>1, <1>2 DEF RunState
<1>4. Distinct' /\ NoPlanNoRows'
  BY <1>1 DEF RunsAgree, Distinct, NoPlanNoRows
<1>5. OneActive' /\ PlansKnown'
  BY <1>1, <1>3 DEF OneActive, PlansKnown
<1>6. \A s \in rows : InUse(b, s)' => InUse(b, s)
  BY <1>1, <1>3 DEF InUse
<1>7. ReadsHold'
  <2> SUFFICES ASSUME NEW b2 \in Run, NEW s \in Row, Replacing(b2)', InUse(b2, s)'
               PROVE  material'[s] \in run'[b2].used
    BY DEF ReadsHold
  <2>1. b2 = b /\ s \in rows /\ InUse(b, s)
    BY <1>1, <1>6 DEF InUse
  <2> QED  BY <1>1, <1>3, <2>1
<1>8. AddsAreNew'
  BY <1>1, <1>3 DEF AddsAreNew
<1>9. CreatesEmpty'
  <2>1. plan = None => used = {}
    BY DEF RunsAgree, NoPlanNoRows
  <2> HIDE DEF used
  <2> QED  BY <1>1, <1>3, <2>1 DEF CreatesEmpty
<1> QED  BY <1>4, <1>5, <1>7, <1>8, <1>9 DEF RunsAgree

LEMMA TwinWrites ==
  ASSUME Typed, RunsAgree, NEW b \in Run, UpdatePlan(b) \/ ClearRows(b) \/ CreatePlan(b)
  PROVE  RunsAgree'
<1>0. /\ \A b2 \in Run \ {b} : run'[b2] = run[b2]
      /\ run \in [Run -> RunState] /\ run[b] \in RunState /\ rows \subseteq Row
      /\ OverRun.pc = "done" /\ Active(b)
  <2>1. run \in [Run -> RunState] /\ rows \subseteq Row
    BY Constants DEF Typed, PlansTypeOK
  <2>2. Active(b)
    BY DEF UpdatePlan, ClearRows, CreatePlan, Active
  <2> QED  BY <2>1, <2>2, RunMoves
<1>1. \A b2 \in Run \ {b} : ~ Active(b2) /\ ~ Active(b2)' /\ ~ Replacing(b2)'
                            /\ run'[b2].pc \notin {"add", "create"}
  BY <1>0 DEF RunsAgree, OneActive, Active, Replacing
<1>2. CASE UpdatePlan(b) /\ plan = run[b].plan
  <2>1. /\ UNCHANGED <<plan, rows, material, usedAge, linked>>
        /\ run'[b].pc = "clear" /\ run'[b].plan = run[b].plan /\ run'[b].used = run[b].used
        /\ run'[b].elapsed = run[b].elapsed /\ run[b].pc = "update"
    BY <1>0, <1>2 DEF UpdatePlan, At, planVars, RunState
  <2>2. Distinct' /\ NoPlanNoRows' /\ OneActive' /\ CreatesEmpty' /\ AddsAreNew'
    BY <1>1, <2>1 DEF RunsAgree, Distinct, NoPlanNoRows, OneActive, CreatesEmpty, AddsAreNew
  <2>3. PlansKnown'
    BY <1>0, <1>1, <2>1 DEF RunsAgree, PlansKnown
  <2>4. ReadsHold'
    <3> SUFFICES ASSUME NEW b2 \in Run, NEW s \in Row, Replacing(b2)', InUse(b2, s)'
                 PROVE  material'[s] \in run'[b2].used
      BY DEF ReadsHold
    <3>1. b2 = b /\ Replacing(b) /\ InUse(b, s)
      BY <1>1, <2>1 DEF Replacing, InUse
    <3> QED  BY <2>1, <3>1 DEF RunsAgree, ReadsHold
  <2> QED  BY <2>2, <2>3, <2>4 DEF RunsAgree
<1>3. CASE (UpdatePlan(b) /\ plan # run[b].plan) \/ (CreatePlan(b) /\ plan # None)
  <2>1. run'[b].pc = "done"
    BY <1>0, <1>3 DEF UpdatePlan, CreatePlan, Over
  <2>2. UNCHANGED <<plan, rows, material, usedAge, linked>>
    BY <1>3 DEF UpdatePlan, CreatePlan, planVars
  <2> QED  BY <1>0, <2>1, <2>2, TwinLeaves
<1>4. CASE ClearRows(b)
  <2>1. /\ UNCHANGED <<plan, linked>> /\ rows' \subseteq rows
        /\ \A s \in rows' : material'[s] = material[s]
        /\ run'[b].pc = "add" /\ run'[b].plan = run[b].plan /\ run'[b].used = run[b].used
        /\ run[b].pc = "clear" /\ Replacing(b)
    BY <1>0, <1>4 DEF ClearRows, At, Delete, RunState, Replacing
  <2>2. Distinct' /\ NoPlanNoRows' /\ OneActive' /\ CreatesEmpty' /\ ReadsHold'
    BY <1>1, <2>1 DEF RunsAgree, Distinct, NoPlanNoRows, OneActive, CreatesEmpty, ReadsHold, Replacing
  <2>3. PlansKnown'
    BY <1>0, <1>1, <2>1 DEF RunsAgree, PlansKnown
  <2>4. AddsAreNew'
    <3> SUFFICES ASSUME plan = run[b].plan, NEW s \in rows' PROVE material[s] \in run[b].used
      BY <1>1, <2>1 DEF AddsAreNew
    <3>1. s \in rows /\ ~ Replaceable(b, s)
      BY <1>4 DEF ClearRows, Delete
    <3>2. usedAge[s] \in {NotUsed} \cup (0 .. MaxAge) /\ run[b].elapsed \in 0 .. MaxRun
      BY <1>0, <3>1 DEF Typed, PlansTypeOK, RunState
    <3>3. usedAge[s] = NotUsed \/ usedAge[s] \in 0 .. MaxAge
      BY <3>2
    <3>4. InUse(b, s)
      BY <3>1, <3>2, <3>3, Constants DEF Replaceable, InUse
    <3> QED  BY <1>0, <2>1, <3>1, <3>4 DEF RunsAgree, ReadsHold
  <2> QED  BY <2>2, <2>3, <2>4 DEF RunsAgree
<1>5. CASE CreatePlan(b) /\ plan = None
  <2>1. /\ plan' = b /\ UNCHANGED <<rows, material, usedAge, linked>> /\ rows = {} /\ b # None
        /\ run'[b].pc = "add" /\ run'[b].plan = b
    BY <1>0, <1>5, Constants DEF CreatePlan, RunState, RunsAgree, NoPlanNoRows
  <2>2. Distinct' /\ NoPlanNoRows' /\ AddsAreNew'
    BY <2>1 DEF Distinct, NoPlanNoRows, AddsAreNew
  <2>3. OneActive' /\ CreatesEmpty' /\ PlansKnown'
    BY <1>1, <2>1 DEF OneActive, CreatesEmpty, PlansKnown
  <2>4. ReadsHold'
    BY <1>1, <2>1 DEF ReadsHold, Replacing
  <2> QED  BY <2>2, <2>3, <2>4 DEF RunsAgree
<1> QED  BY <1>2, <1>3, <1>4, <1>5

LEMMA TwinAdd == ASSUME Typed, RunsAgree, NEW b \in Run, AddRows(b) PROVE RunsAgree'
<1>0. /\ \A b2 \in Run \ {b} : run'[b2] = run[b2] /\ run'[b].pc \in {"prune", "done"}
      /\ UNCHANGED <<plan, linked, usedAge>> /\ run[b].pc = "add" /\ Active(b)
      /\ rows \subseteq Row
  <2>1. rows \subseteq Row
    BY Constants DEF Typed, PlansTypeOK
  <2>2. UNCHANGED <<plan, linked, usedAge>> /\ run[b].pc = "add"
    BY DEF AddRows, reqVars, history
  <2> QED  BY <2>1, <2>2, AddEffect DEF Active
<1>1. \A b2 \in Run : ~ Active(b2)' /\ ~ Replacing(b2)' /\ run'[b2].pc \notin {"add", "create"}
  <2>1. \A b2 \in Run \ {b} : ~ Active(b2) /\ run'[b2] = run[b2]
    BY <1>0 DEF RunsAgree, OneActive
  <2>2. run'[b].pc \in {"prune", "done"}
    BY AddEffect
  <2> QED  BY <2>1, <2>2 DEF Active, Replacing
<1>2. Distinct'
  <2>1. ASSUME NEW s \in rows, NEW t \in rows' \ rows PROVE material'[s] # material'[t]
    <3>1. material'[s] = material[s] /\ material'[t] \notin run[b].used /\ plan = run[b].plan
      BY <2>1, AddEffect
    <3>2. material[s] \in run[b].used
      BY <1>0, <3>1 DEF RunsAgree, AddsAreNew
    <3> QED  BY <3>1, <3>2
  <2> QED  BY <2>1, AddEffect DEF Distinct, RunsAgree
<1>3. NoPlanNoRows'
  <2>1. run[b].plan # None
    BY <1>0 DEF RunsAgree, PlansKnown
  <2>2. rows' # rows => plan = run[b].plan
    BY AddEffect
  <2> QED  BY <1>0, <2>1, <2>2 DEF RunsAgree, NoPlanNoRows
<1> QED  BY <1>1, <1>2, <1>3
         DEF RunsAgree, OneActive, PlansKnown, ReadsHold, AddsAreNew, CreatesEmpty

LEMMA TwinEnds ==
  ASSUME Typed, RunsAgree, NEW b \in Run,
         \/ PrunePlans(b) \/ RunFails(b)
         \/ \E quota \in BOOLEAN, want \in SUBSET Material : StartRun(b, quota, want)
  PROVE  RunsAgree'
<1>0. /\ \A b2 \in Run \ {b} : run'[b2] = run[b2]
      /\ run \in [Run -> RunState] /\ run[b] \in RunState /\ rows \subseteq Row
      /\ OverRun.pc = "done"
  BY RunMoves, Constants DEF Typed, PlansTypeOK
<1>1. CASE PrunePlans(b)
  <2>1. /\ run'[b].pc = "done" /\ linked' = linked
        /\ plan' = plan \/ (plan' = None /\ rows' = {})
        /\ rows' \subseteq rows
    BY <1>0, <1>1 DEF PrunePlans, Over, Delete
  <2>2. \A s \in rows' : material'[s] = material[s] /\ usedAge'[s] = usedAge[s]
    BY <1>0, <1>1 DEF PrunePlans, Delete
  <2> QED  BY <1>0, <2>1, <2>2, TwinLeaves
<1>2. CASE RunFails(b)
  <2>1. run'[b].pc = "done" /\ UNCHANGED <<plan, rows, material, usedAge, linked>>
    BY <1>0, <1>2 DEF RunFails, Over, planVars
  <2> QED  BY <1>0, <2>1, TwinLeaves
<1>3. ASSUME NEW quota \in BOOLEAN, NEW want \in SUBSET Material, StartRun(b, quota, want)
      PROVE  RunsAgree'
  <2>1. /\ run'[b].pc \in {"read", "prune"} /\ UNCHANGED <<plan, rows, material, usedAge, linked>>
    BY <1>0, <1>3 DEF StartRun, planVars, RunState
  <2> QED  BY <1>0, <2>1, TwinLeaves
<1> QED  BY <1>1, <1>2, <1>3

LEMMA RacedStays == ASSUME [PlansNext]_plansVars, raced PROVE raced'
<1> USE DEF history, ComesIntoUse
<1>1. CASE UNCHANGED plansVars
  BY <1>1 DEF plansVars
<1>2. ASSUME NEW q \in Request, RequestStep(q) PROVE raced'
  <2>1. ASSUME NEW ids \in SUBSET Row, StartQuick(q, ids) PROVE raced'
    BY <2>1 DEF StartQuick
  <2>2. ASSUME NEW s \in Row, Claim(q, s) \/ Refuse(q, s) PROVE raced'
    BY <2>2 DEF Claim, Refuse
  <2>3. ASSUME NEW m \in Material, StartSearch(q, m) PROVE raced'
    BY <2>3 DEF StartSearch
  <2> QED  BY <1>2, <2>1, <2>2, <2>3
           DEF RequestStep, FindContent, MakeContent, FindRecent, CreateTask, CreateTaskFails,
               CreateTaskUnanswered, Link, LinkFails, Release, ReleaseFails, DropContent,
               DropFails, SeekSuggestion, Attach, AttachFails, QueryFails
<1>3. ASSUME NEW t \in Task, RemoveTask(t) PROVE raced'
  BY <1>3 DEF RemoveTask
<1>4. ASSUME NEW b \in Run, NEW quota \in BOOLEAN, NEW want \in SUBSET Material,
             StartRun(b, quota, want)
      PROVE  raced'
  BY <1>4 DEF StartRun
<1>5. ASSUME NEW b \in Run, RunStep(b) \/ RunFails(b) PROVE raced'
  BY <1>5 DEF RunStep, ReadPlan, UpdatePlan, ClearRows, CreatePlan, AddRows, PrunePlans, RunFails
<1>6. CASE Tick
  BY <1>6 DEF Tick
<1> QED  BY <1>1, <1>2, <1>3, <1>4, <1>5, <1>6 DEF PlansNext

LEMMA TwinStep == ASSUME Typed, TwinInv, [PlansNext]_plansVars PROVE TwinInv'
<1> SUFFICES ASSUME ~ raced' PROVE RunsAgree'
  BY DEF TwinInv
<1>1. RunsAgree
  BY RacedStays DEF TwinInv
<1>2. CASE UNCHANGED plansVars
  BY <1>1, <1>2, TwinQuiet DEF plansVars, InUse
<1>3. ASSUME NEW b \in Run, RunStep(b) PROVE RunsAgree'
  BY <1>1, <1>3, TwinRead, TwinWrites, TwinAdd, TwinEnds DEF RunStep
<1>4. ASSUME NEW b \in Run, NEW quota \in BOOLEAN, NEW want \in SUBSET Material,
             StartRun(b, quota, want)
      PROVE  RunsAgree'
  BY <1>1, <1>4, TwinEnds
<1>5. ASSUME NEW b \in Run, RunFails(b) PROVE RunsAgree'
  BY <1>1, <1>5, TwinEnds
<1> QED  BY <1>1, <1>2, <1>3, <1>4, <1>5, TwinRequest, TwinRemove, TwinTick DEF PlansNext

LEMMA TwinInit == PlansInit => TwinInv
<1> SUFFICES ASSUME PlansInit PROVE RunsAgree
  BY DEF TwinInv
<1>1. rows = {} /\ \A b \in Run : run[b].pc = "idle"
  BY DEF PlansInit, IdleRun
<1> QED  BY <1>1 DEF RunsAgree, Distinct, NoPlanNoRows, OneActive, PlansKnown, ReadsHold,
           AddsAreNew, CreatesEmpty, Active, Replacing

(* The planner suggests nothing twice, for any number of runs, requests   *)
(* and materials: property NoTwins.                                        *)
THEOREM NoTwinsCorrect == PlansSpec => []NoTwins
<1>1. Typed /\ TwinInv /\ [PlansNext]_plansVars => (Typed /\ TwinInv)'
  BY TypedStep, TwinStep
<1>2. TwinInv => NoTwins
  BY DEF TwinInv, RunsAgree, Distinct, NoTwins
<1> QED  BY TypedInit, TwinInit, <1>1, <1>2, PTL DEF PlansSpec

-----------------------------------------------------------------------------
(* The content under a task.                                               *)

(* A step that makes no draft and no task, and deletes no draft. *)
LEMMA KeepQuiet ==
  ASSUME Typed, KeepInv, tasks' \subseteq tasks, exposed \subseteq exposed', drafts' = drafts,
         \A t \in tasks' : content'[t] = content[t],
         \A q \in Request : \A c : MayDrop(q, c)' => MayDrop(q, c),
         \A q \in Request : ToMake(q)' \subseteq ToMake(q)
  PROVE  KeepInv'
BY DEF KeepInv, ContentExists

(* Becoming r, request q gets no draft to delete and no name for one. *)
Gains(q, r) ==
  \/ r.pc \notin ReqPc \ {"idle"}
  \/ ~ (r.todo \subseteq req[q].todo) /\ ~ (req[q].pc = "idle" /\ r.todo \subseteq Row)
  \/ /\ r.pc \in {"find", "make"}
     /\ ~ (req[q].pc = "idle" /\ r.cur = NoRow)
     /\ ~ (req[q].pc = "claim" /\ r.cur \in req[q].todo /\ req[q].cur \notin req[q].todo)
     /\ ~ (req[q].pc = "find" /\ r.cur = req[q].cur)
  \/ /\ r.cur # req[q].cur /\ ~ (r.todo \subseteq req[q].todo \ {req[q].cur})
     /\ req[q].pc # "idle"
     /\ ~ (req[q].pc = "claim" /\ req[q].cur \notin req[q].todo)
  \/ /\ r.made /\ r.pc \in {"recent", "task", "release", "drop"}
     /\ ~ (MayDrop(q, req[q].content) /\ r.content = req[q].content)

(* A step of one request, by what it becomes. *)
LEMMA KeepGoes ==
  ASSUME Typed, KeepInv, NEW q \in Request, NEW r, Go(q, r),
         UNCHANGED <<tasks, content, exposed, drafts>>, ~ Gains(q, r)
  PROVE  KeepInv'
<1>1. req'[q] = r /\ \A q2 \in Request \ {q} : req'[q2] = req[q2]
  BY HoldsGo
<1>2. ASSUME NEW q2 \in Request, NEW c, MayDrop(q2, c)' PROVE MayDrop(q2, c)
  BY <1>1, <1>2 DEF MayDrop, Gains
<1>3. ASSUME NEW q2 \in Request, q2 # q PROVE ToMake(q2)' = ToMake(q2)
  BY <1>1, <1>3 DEF ToMake
<1>4. ToMake(q)' \subseteq ToMake(q)
  <2>1. ToMake(q)' = IF r.pc \in {"find", "make"} THEN r.todo \cup {r.cur} ELSE r.todo \ {r.cur}
    <3>1. r.pc # "idle"
      BY DEF Gains
    <3> QED  BY <1>1, <3>1 DEF ToMake
  <2>2. /\ req[q].pc = "idle" => ToMake(q) = 0 .. MaxRows
        /\ req[q].pc \in {"find", "make"} => ToMake(q) = req[q].todo \cup {req[q].cur}
        /\ req[q].pc \notin {"idle", "find", "make"} => ToMake(q) = req[q].todo \ {req[q].cur}
    BY DEF ToMake
  <2>3. Row \subseteq 0 .. MaxRows /\ NoRow \in 0 .. MaxRows
    BY Constants
  <2>4. CASE req[q].pc = "idle"
    <3>1. r.todo \subseteq 0 .. MaxRows
      BY <2>3, <2>4, Here DEF Gains, ReqState
    <3> QED  BY <2>1, <2>2, <2>3, <2>4, <3>1 DEF Gains
  <2>5. CASE req[q].pc # "idle"
    BY <2>1, <2>2, <2>5 DEF Gains
  <2> QED  BY <2>4, <2>5
<1> QED  BY <1>2, <1>3, <1>4, KeepQuiet
LEMMA KeepRequest ==
  ASSUME Typed, KeepInv, NEW q \in Request,
         \/ \E ids \in SUBSET Row : StartQuick(q, ids)
         \/ \E s \in Row : Claim(q, s) \/ Refuse(q, s)
         \/ \E m \in Material : StartSearch(q, m)
         \/ FindContent(q) \/ CreateTaskFails(q) \/ Link(q) \/ LinkFails(q)
         \/ Release(q) \/ ReleaseFails(q) \/ DropFails(q) \/ FindRecent(q)
         \/ SeekSuggestion(q) \/ Attach(q) \/ AttachFails(q) \/ QueryFails(q)
  PROVE  KeepInv'
<1> USE DEF planVars, taskVars, history
<1>0. req[q] \in ReqState /\ Shape(req[q])
  BY Here
<1>1. ASSUME NEW r, Go(q, r), UNCHANGED <<tasks, content, exposed, drafts>>,
             r \in ReqState, r.pc \notin {"idle", "find", "make"}, ~ r.made,
             r.todo \subseteq req[q].todo, r.cur = req[q].cur \/ req[q].pc = "claim"
      PROVE  KeepInv'
  <2>1. r.pc \in ReqPc /\ (req[q].pc = "claim" => req[q].cur \notin req[q].todo)
    BY <1>0, <1>1, Constants DEF ReqState, Shape
  <2>9. ~ Gains(q, r)
    BY <1>1, <2>1 DEF Gains, ReqPc
  <2> QED  BY <1>1, <2>1, <2>9, KeepGoes
<1>2. ASSUME NEW r \in {NextOf(req[q]), OverReq}, Go(q, r), UNCHANGED <<tasks, content, exposed, drafts>>
      PROVE  KeepInv'
  <2>1. /\ r.pc \in {"claim", "done"} /\ ~ r.made
        /\ r.todo \subseteq req[q].todo \ {req[q].cur}
    BY <1>2 DEF NextOf, OverReq, IdleReq
  <2>9. ~ Gains(q, r)
    BY <1>2, <2>1 DEF Gains, ReqPc
  <2> QED  BY <1>2, <2>1, <2>9, KeepGoes
<1>3. ASSUME NEW pc \in {"release", "drop", "task"}, req[q].pc \in {"task", "release", "recent"},
             Go(q, [req[q] EXCEPT !.pc = pc]), UNCHANGED <<tasks, content, exposed, drafts>>
      PROVE  KeepInv'
  <2> DEFINE r == [req[q] EXCEPT !.pc = pc]
  <2>1. /\ r.pc = pc /\ r.made = req[q].made /\ r.content = req[q].content
        /\ r.todo = req[q].todo /\ r.cur = req[q].cur
    BY <1>0 DEF ReqState
  <2>2. r.made => MayDrop(q, req[q].content)
    BY <1>3, <2>1 DEF MayDrop
  <2>3. Go(q, r) /\ pc \in ReqPc \ {"idle", "find", "make"}
    BY <1>3 DEF ReqPc
  <2> HIDE DEF r
  <2>9. ~ Gains(q, r)
    BY <1>3, <2>1, <2>2, <2>3 DEF Gains, ReqPc
  <2> QED  BY <1>3, <2>1, <2>2, <2>3, <2>9, KeepGoes
<1>4. ASSUME NEW ids \in SUBSET Row, StartQuick(q, ids) PROVE KeepInv'
  <2> DEFINE r == [req[q] EXCEPT !.pc = "claim", !.quick = TRUE, !.todo = ids,
                                 !.seen = {s \in ids : linked[s] # None}]
  <2>1. req[q] = IdleReq
    BY <1>0, <1>4 DEF StartQuick, Shape
  <2>2. r.pc = "claim" /\ r.todo = ids /\ ~ r.made
    BY <2>1 DEF IdleReq
  <2>3. Go(q, r) /\ UNCHANGED <<tasks, content, exposed, drafts>> /\ req[q].pc = "idle"
    BY <1>4 DEF StartQuick
  <2> HIDE DEF r
  <2>9. ~ Gains(q, r)
    BY <2>2, <2>3 DEF Gains, ReqPc
  <2> QED  BY <2>2, <2>3, <2>9, KeepGoes
<1>5. ASSUME NEW s \in Row, Claim(q, s) PROVE KeepInv'
  <2> DEFINE r == [req[q] EXCEPT !.pc = IF material[s] \in Video THEN "find" ELSE "task",
                                 !.cur = s, !.mat = material[s],
                                 !.content = IF material[s] \in Video THEN None ELSE material[s]]
  <2>1. /\ r.pc \in {"find", "task"} /\ r.todo = req[q].todo /\ r.cur = s /\ r.made = req[q].made
    BY <1>0 DEF ReqState
  <2>2. /\ Go(q, r) /\ UNCHANGED <<tasks, content, exposed, drafts>> /\ req[q].pc = "claim"
        /\ s \in req[q].todo
    BY <1>5 DEF Claim
  <2>3. ~ req[q].made /\ req[q].cur \notin req[q].todo
    BY <1>0, <2>2, Constants DEF Shape, ReqState
  <2> HIDE DEF r
  <2>9. ~ Gains(q, r)
    BY <2>1, <2>2, <2>3 DEF Gains, ReqPc
  <2> QED  BY <2>2, <2>9, KeepGoes
<1>6. ASSUME NEW s \in Row, Refuse(q, s) PROVE KeepInv'
  <2> DEFINE r == NextOf([req[q] EXCEPT !.cur = s])
  <2>1. [req[q] EXCEPT !.cur = s].todo = req[q].todo
    BY <1>0 DEF ReqState
  <2>2. r.pc \in {"claim", "done"} /\ ~ r.made /\ r.todo \subseteq req[q].todo
    BY <2>1 DEF NextOf, OverReq, IdleReq
  <2>3. /\ Go(q, r) /\ UNCHANGED <<tasks, content, exposed, drafts>> /\ req[q].pc = "claim"
        /\ req[q].cur \notin req[q].todo
    BY <1>0, <1>6, Constants DEF Refuse, Shape, ReqState
  <2> HIDE DEF r
  <2>9. ~ Gains(q, r)
    BY <2>2, <2>3 DEF Gains, ReqPc
  <2> QED  BY <2>2, <2>3, <2>9, KeepGoes
<1>7. ASSUME NEW m \in Material, StartSearch(q, m) PROVE KeepInv'
  <2> DEFINE r == [req[q] EXCEPT !.mat = m, !.pc = IF m \in Video THEN "find" ELSE "recent",
                                 !.content = IF m \in Video THEN None ELSE m]
  <2>1. req[q] = IdleReq
    BY <1>0, <1>7 DEF StartSearch, Shape
  <2>2. r.pc \in {"find", "recent"} /\ r.todo = {} /\ ~ r.made /\ r.cur = NoRow
    BY <2>1 DEF IdleReq
  <2>3. Go(q, r) /\ UNCHANGED <<tasks, content, exposed, drafts>> /\ req[q].pc = "idle"
    BY <1>7 DEF StartSearch
  <2> HIDE DEF r
  <2>9. ~ Gains(q, r)
    BY <2>2, <2>3 DEF Gains, ReqPc
  <2> QED  BY <2>2, <2>3, <2>9, KeepGoes
<1>8. CASE FindContent(q)
  <2>1. ASSUME NEW d \in Task
        PROVE  /\ Found(req[q], d).pc \in {"task", "recent"} /\ ~ Found(req[q], d).made
               /\ Found(req[q], d).todo = req[q].todo /\ Found(req[q], d).cur = req[q].cur
    BY <1>0, <1>8 DEF FindContent, Found, WithContent, ReqState, Shape
  <2>2. /\ [req[q] EXCEPT !.pc = "make"].pc = "make" /\ ~ [req[q] EXCEPT !.pc = "make"].made
        /\ [req[q] EXCEPT !.pc = "make"].todo = req[q].todo
        /\ [req[q] EXCEPT !.pc = "make"].cur = req[q].cur
    BY <1>0, <1>8 DEF FindContent, ReqState, Shape
  <2>3. /\ UNCHANGED <<tasks, content, exposed, drafts>> /\ req[q].pc = "find"
        /\ Go(q, [req[q] EXCEPT !.pc = "make"]) \/ \E d \in Task : Go(q, Found(req[q], d))
    BY <1>8 DEF FindContent
  <2>4. ~ Gains(q, [req[q] EXCEPT !.pc = "make"])
    BY <2>2, <2>3 DEF Gains, ReqPc
  <2>5. \A d \in Task : ~ Gains(q, Found(req[q], d))
    BY <2>1, <2>3 DEF Gains, ReqPc
  <2> QED  BY <2>3, <2>4, <2>5, KeepGoes
<1>9. CASE CreateTaskFails(q)
  BY <1>0, <1>2, <1>3, <1>9 DEF CreateTaskFails, AfterError, ReqState
<1>10. CASE Release(q) \/ ReleaseFails(q)
  BY <1>2, <1>3, <1>10 DEF Release, ReleaseFails, AfterRelease
<1>11. CASE Link(q) \/ LinkFails(q) \/ DropFails(q) \/ Attach(q) \/ AttachFails(q)
  BY <1>2, <1>11 DEF Link, LinkFails, DropFails, AfterDrop, Attach, AttachFails
<1>12. CASE FindRecent(q)
  BY <1>2, <1>3, <1>12 DEF FindRecent
<1>13. CASE SeekSuggestion(q)
  <2>1. ASSUME NEW s \in rows, Go(q, [req[q] EXCEPT !.cand = s, !.pc = "attach"]) PROVE KeepInv'
    <3> DEFINE r == [req[q] EXCEPT !.cand = s, !.pc = "attach"]
    <3>1. r.pc = "attach" /\ r.todo = req[q].todo /\ r.cur = req[q].cur
      BY <1>0 DEF ReqState
    <3>2. Go(q, r) /\ UNCHANGED <<tasks, content, exposed, drafts>>
      BY <1>13, <2>1 DEF SeekSuggestion
    <3> HIDE DEF r
    <3>9. ~ Gains(q, r)
      BY <3>1, <3>2 DEF Gains, ReqPc
    <3> QED  BY <3>1, <3>2, <3>9, KeepGoes
  <2> QED  BY <1>2, <1>13, <2>1 DEF SeekSuggestion
<1>14. CASE QueryFails(q)
  <2> DEFINE r == [req[q] EXCEPT !.pc = "release"]
  <2>1. ASSUME Go(q, r), req[q].quick, req[q].pc # "claim" PROVE KeepInv'
    <3>1. req[q].pc \in {"find", "make"}
      BY <1>0, <1>14, <2>1 DEF QueryFails, Shape
    <3>2. r.pc = "release" /\ r.todo = req[q].todo /\ r.cur = req[q].cur /\ ~ r.made /\ r \in ReqState
      BY <1>0, <3>1 DEF ReqState, ReqPc, Shape
    <3> HIDE DEF r
    <3> QED  BY <1>1, <1>14, <2>1, <3>2 DEF QueryFails
  <2> QED  BY <1>2, <1>14, <2>1 DEF QueryFails
<1> QED  BY <1>4, <1>5, <1>6, <1>7, <1>8, <1>9, <1>10, <1>11, <1>12, <1>13, <1>14

(* A draft is new: no task has it. *)
LEMMA KeepMake == ASSUME Typed, KeepInv, NEW q \in Request, MakeContent(q) PROVE KeepInv'
<1> DEFINE d == <<q, req[q].cur>>
           r == [req[q] EXCEPT !.content = d, !.made = TRUE, !.pc = WithContent(req[q])]
<1>1. /\ req[q] \in ReqState /\ Shape(req[q]) /\ req[q].pc = "make" /\ req[q].mat \in Video
      /\ Go(q, r) /\ drafts' = [drafts EXCEPT ![d] = req[q].mat]
      /\ UNCHANGED <<tasks, content, exposed>>
  BY Here DEF MakeContent, Shape, taskVars, history
<1>2. /\ r.content = d /\ r.pc \in {"task", "recent"} /\ r.todo = req[q].todo
      /\ r.cur = req[q].cur
  BY <1>1 DEF ReqState, WithContent
<1>3. d \in Task /\ None \notin Video
  BY NewTask, Constants
<1>4. drafts[d] = None
  BY <1>1 DEF KeepInv, ToMake
<1> HIDE DEF r
<1>5. req'[q] = r /\ \A q2 \in Request \ {q} : req'[q2] = req[q2]
  BY <1>1, HoldsGo
<1>6. \A t \in tasks \ exposed : content[t] # d
  <2>1. d \notin Material
    BY <1>3, Constants
  <2> QED  BY <1>4, <2>1 DEF KeepInv, ContentExists
<1>7. \A x \in Task : x # d => drafts'[x] = drafts[x]
  BY <1>1 DEF Typed, PlansTypeOK
<1>8. drafts'[d] # None
  BY <1>1, <1>3 DEF Typed, PlansTypeOK
<1>9. ASSUME NEW t \in tasks' \ exposed'
      PROVE  ContentExists(content[t])' /\ \A q2 \in Request : ~ MayDrop(q2, content[t])'
  <2>1. ContentExists(content[t]) /\ content[t] # d /\ t \in tasks \ exposed
    BY <1>1, <1>6, <1>9 DEF KeepInv
  <2>2. ContentExists(content[t])'
    BY <1>1, <1>7, <2>1 DEF ContentExists
  <2>3. \A q2 \in Request : ~ MayDrop(q2, content[t])
    BY <2>1 DEF KeepInv
  <2> QED  BY <1>1, <1>2, <1>5, <2>1, <2>2, <2>3 DEF MayDrop
<1>10. ASSUME NEW q2 \in Request, NEW s \in ToMake(q2)' PROVE drafts'[<<q2, s>>] = None
  <2>1. CASE q2 # q
    <3>1. ToMake(q2)' = ToMake(q2)
      BY <1>5, <2>1 DEF ToMake
    <3> QED  BY <1>1, <1>10, <2>1, <3>1 DEF KeepInv, Typed, PlansTypeOK
  <2>2. CASE q2 = q
    <3>1. ToMake(q)' = req[q].todo \ {req[q].cur}
      BY <1>2, <1>5 DEF ToMake
    <3>2. s \in ToMake(q) /\ <<q, s>> # d
      BY <1>1, <1>10, <2>2, <3>1 DEF ToMake
    <3> QED  BY <1>1, <2>2, <3>2 DEF KeepInv, Typed, PlansTypeOK
  <2> QED  BY <2>1, <2>2
<1> QED  BY <1>9, <1>10 DEF KeepInv
(* A task is made with a content nobody else may delete, or it is named in *)
(* exposed; and its maker may not delete that content any more. *)
LEMMA KeepCreate ==
  ASSUME Typed, KeepInv, NEW q \in Request, CreateTask(q) \/ CreateTaskUnanswered(q)
  PROVE  KeepInv'
<1> DEFINE t0 == <<q, req[q].cur>>
           r == [req[q] EXCEPT !.pc = IF req[q].quick THEN "link" ELSE "seek",
                               !.content = None, !.made = FALSE]
<1>0. PICK c0 : c0 = req[q].content
  OBVIOUS
<1>1. /\ req[q] \in ReqState /\ req[q].pc = "task" /\ ContentExists(req[q].content)
      /\ tasks' = tasks \cup {t0} /\ content' = [content EXCEPT ![t0] = req[q].content]
      /\ drafts' = drafts /\ exposed \subseteq exposed'
      /\ CreateTaskUnanswered(q) => t0 \in exposed' /\ Go(q, AfterError(req[q]))
      /\ CreateTask(q) => Go(q, r)
      /\ CreateTask(q) /\ t0 \notin exposed' =>
           \A q2 \in Request \ {q} : ~ MayDrop(q2, req[q].content)
  BY Here DEF CreateTask, CreateTaskUnanswered
<1>2. r.pc \in {"link", "seek"} /\ r.todo = req[q].todo /\ r.cur = req[q].cur
  BY <1>1 DEF ReqState
<1>3. /\ AfterError(req[q]).pc \in {"release", "drop", "done"}
      /\ AfterError(req[q]).pc # "done" =>
           /\ AfterError(req[q]).todo = req[q].todo /\ AfterError(req[q]).cur = req[q].cur
           /\ AfterError(req[q]).made = req[q].made /\ AfterError(req[q]).content = req[q].content
      /\ AfterError(req[q]).pc = "done" => AfterError(req[q]).todo = {}
  BY <1>1 DEF AfterError, OverReq, IdleReq, ReqState
<1> HIDE DEF r
<1>4. /\ \A q2 \in Request \ {q} : req'[q2] = req[q2]
      /\ req'[q].pc \in {"link", "seek", "release", "drop", "done"}
      /\ req'[q].pc # "done" => req'[q].todo = req[q].todo /\ req'[q].cur = req[q].cur
      /\ req'[q].pc = "done" => req'[q].todo = {}
      /\ req'[q].pc \in {"release", "drop"} =>
           req'[q].made = req[q].made /\ req'[q].content = req[q].content
      /\ CreateTask(q) => req'[q].pc \in {"link", "seek"}
  <2>1. CASE CreateTask(q)
    <3>1. req'[q] = r /\ \A q2 \in Request \ {q} : req'[q2] = req[q2]
      BY <1>1, <2>1, HoldsGo
    <3> QED  BY <1>2, <3>1
  <2>2. CASE CreateTaskUnanswered(q)
    <3>1. req'[q] = AfterError(req[q]) /\ \A q2 \in Request \ {q} : req'[q2] = req[q2]
      BY <1>1, <2>2, HoldsGo
    <3>2. ~ CreateTask(q) \/ req'[q].pc \in {"link", "seek"}
      <4>1. CASE CreateTask(q)
        <5>1. req'[q] = r
          BY <1>1, <4>1, HoldsGo
        <5> QED  BY <1>2, <5>1
      <4> QED  BY <4>1
    <3> QED  BY <1>3, <3>1, <3>2
  <2> QED  BY <2>1, <2>2
<1>5. ASSUME NEW q2 \in Request, NEW c, MayDrop(q2, c)' PROVE MayDrop(q2, c)
  BY <1>1, <1>4, <1>5 DEF MayDrop
<1>6. ASSUME NEW q2 \in Request PROVE ToMake(q2)' \subseteq ToMake(q2)
  <2>1. CASE q2 # q
    BY <1>4, <2>1 DEF ToMake
  <2>2. CASE q2 = q
    <3>1. ToMake(q) = req[q].todo \ {req[q].cur}
      BY <1>1 DEF ToMake
    <3>2. ToMake(q)' = req'[q].todo \ {req'[q].cur}
      BY <1>4 DEF ToMake
    <3> QED  BY <1>4, <2>2, <3>1, <3>2
  <2> QED  BY <2>1, <2>2
<1>7. ASSUME NEW t \in tasks' \ exposed'
      PROVE  ContentExists(content[t])' /\ \A q2 \in Request : ~ MayDrop(q2, content[t])'
  <2>1. CASE t # t0
    <3>1. t \in tasks \ exposed /\ content'[t] = content[t]
      BY <1>1, <1>7, <2>1 DEF Typed, PlansTypeOK
    <3> QED  BY <1>1, <1>5, <3>1 DEF KeepInv, ContentExists
  <2>2. CASE t = t0
    <3>1. CreateTask(q) /\ content'[t] = c0
      BY <1>0, <1>1, <1>7, <2>2, NewTask DEF Typed, PlansTypeOK
    <3>2. \A q2 \in Request \ {q} : ~ MayDrop(q2, c0)'
      BY <1>0, <1>1, <1>5, <1>7, <2>2, <3>1
    <3>3. ~ MayDrop(q, c0)'
      BY <1>4, <3>1 DEF MayDrop
    <3>4. ContentExists(c0)'
      BY <1>0, <1>1 DEF ContentExists
    <3>5. \A q2 \in Request : ~ MayDrop(q2, content[t])'
      <4> SUFFICES ASSUME NEW q2 \in Request PROVE ~ MayDrop(q2, content[t])'
        OBVIOUS
      <4>1. MayDrop(q2, content[t])' <=> MayDrop(q2, c0)'
        BY <3>1 DEF MayDrop
      <4> QED  BY <3>2, <3>3, <4>1
    <3> QED  BY <3>1, <3>4, <3>5 DEF ContentExists
  <2> QED  BY <2>1, <2>2
<1> QED  BY <1>1, <1>6, <1>7 DEF KeepInv

(* The draft that is deleted is its maker's own, so no task has it. *)
LEMMA KeepDrop == ASSUME Typed, KeepInv, NEW q \in Request, DropContent(q) PROVE KeepInv'
<1>0. PICK d : d = req[q].content
  OBVIOUS
<1>1. /\ Shape(req[q]) /\ req[q].pc = "drop" /\ UNCHANGED <<tasks, exposed>>
      /\ drafts' = [drafts EXCEPT ![d] = None] /\ Go(q, AfterDrop(req[q]))
      /\ content' = [t \in Task |-> IF content[t] = d THEN None ELSE content[t]]
  BY <1>0, Here DEF DropContent, history
<1>2. MayDrop(q, d)
  BY <1>0, <1>1 DEF Shape, MayDrop
<1>3. AfterDrop(req[q]).pc \in {"claim", "done"} /\ ~ AfterDrop(req[q]).made
      /\ AfterDrop(req[q]).todo \subseteq req[q].todo \ {req[q].cur}
  BY DEF AfterDrop, NextOf, OverReq, IdleReq
<1>4. req'[q] = AfterDrop(req[q]) /\ \A q2 \in Request \ {q} : req'[q2] = req[q2]
  BY <1>1, HoldsGo
<1>5. \A q2 \in Request : \A c : MayDrop(q2, c)' => MayDrop(q2, c)
  BY <1>3, <1>4 DEF MayDrop
<1>6. \A q2 \in Request : ToMake(q2)' \subseteq ToMake(q2)
  <2>1. ToMake(q)' = req'[q].todo \ {req'[q].cur} /\ ToMake(q) = req[q].todo \ {req[q].cur}
    BY <1>1, <1>3, <1>4 DEF ToMake
  <2>2. \A q2 \in Request \ {q} : ToMake(q2)' = ToMake(q2)
    BY <1>4 DEF ToMake
  <2> QED  BY <1>3, <1>4, <2>1, <2>2
<1>7. ASSUME NEW t \in tasks' \ exposed'
      PROVE  ContentExists(content[t])' /\ \A q2 \in Request : ~ MayDrop(q2, content[t])'
  <2>1. ContentExists(content[t]) /\ \A q2 \in Request : ~ MayDrop(q2, content[t])
    BY <1>1, <1>7 DEF KeepInv
  <2>2. t \in Task /\ content[t] # d
    BY <1>1, <1>2, <1>7, <2>1 DEF Typed, PlansTypeOK
  <2>3. content'[t] = content[t]
    BY <1>1, <2>2
  <2>4. \A x \in Task : x # d => drafts'[x] = drafts[x]
    BY <1>1 DEF Typed, PlansTypeOK
  <2>5. ContentExists(content[t])'
    BY <2>1, <2>2, <2>3, <2>4 DEF ContentExists
  <2> QED  BY <1>5, <2>1, <2>3, <2>5
<1>8. \A x \in Task : drafts[x] = None => drafts'[x] = None
  BY <1>1 DEF Typed, PlansTypeOK
<1>9. \A q2 \in Request : \A s \in ToMake(q2)' : drafts'[<<q2, s>>] = None
  <2> SUFFICES ASSUME NEW q2 \in Request, NEW s \in ToMake(q2)' PROVE drafts'[<<q2, s>>] = None
    OBVIOUS
  <2>1. s \in ToMake(q2) /\ drafts[<<q2, s>>] = None
    BY <1>6 DEF KeepInv
  <2>2. s \in 0 .. MaxRows
    <3>1. req[q2] \in ReqState
      BY Here
    <3> QED  BY <2>1, <3>1, Constants DEF ToMake, ReqState
  <2>3. <<q2, s>> \in Task
    BY <2>2, Constants
  <2> QED  BY <1>8, <2>1, <2>3
<1> QED  BY <1>7, <1>9 DEF KeepInv

LEMMA KeepOthers ==
  ASSUME Typed, KeepInv,
         \/ \E t \in Task : RemoveTask(t)
         \/ \E b \in Run, quota \in BOOLEAN, want \in SUBSET Material : StartRun(b, quota, want)
         \/ \E b \in Run : RunStep(b) \/ RunFails(b)
         \/ Tick
  PROVE  KeepInv'
<1>1. ASSUME UNCHANGED <<tasks, content, exposed, drafts, req>> PROVE KeepInv'
  BY <1>1, KeepQuiet DEF MayDrop, ToMake
<1>2. ASSUME NEW t \in Task, RemoveTask(t) PROVE KeepInv'
  <2>1. /\ tasks' = tasks \ {t} /\ \A x \in tasks' : content'[x] = content[x]
        /\ UNCHANGED <<exposed, drafts, req>>
    BY <1>2 DEF RemoveTask, history, Typed, PlansTypeOK
  <2> QED  BY <2>1, KeepQuiet DEF MayDrop, ToMake
<1>3. ASSUME NEW b \in Run, NEW quota \in BOOLEAN, NEW want \in SUBSET Material,
             StartRun(b, quota, want)
      PROVE  KeepInv'
  BY <1>1, <1>3 DEF StartRun, reqVars, history
<1>4. ASSUME NEW b \in Run, RunStep(b) \/ RunFails(b) PROVE KeepInv'
  BY <1>1, <1>4 DEF RunStep, ReadPlan, UpdatePlan, ClearRows, CreatePlan, AddRows, PrunePlans,
                    RunFails, reqVars, history
<1>5. CASE Tick
  BY <1>1, <1>5 DEF Tick, history
<1> QED  BY <1>2, <1>3, <1>4, <1>5

LEMMA KeepStep == ASSUME Typed, KeepInv, [PlansNext]_plansVars PROVE KeepInv'
<1>1. CASE UNCHANGED plansVars
  BY <1>1, KeepQuiet DEF plansVars, MayDrop, ToMake
<1>2. ASSUME NEW q \in Request, RequestStep(q) PROVE KeepInv'
  BY <1>2, KeepRequest, KeepMake, KeepCreate, KeepDrop DEF RequestStep
<1> QED  BY <1>1, <1>2, KeepOthers DEF PlansNext

LEMMA KeepInit == PlansInit => KeepInv
<1> SUFFICES ASSUME PlansInit PROVE KeepInv
  OBVIOUS
<1>1. tasks = {} /\ \A q \in Request : req[q].pc = "idle"
  BY DEF PlansInit, IdleReq
<1>2. \A q \in Request : \A s \in ToMake(q) : drafts[<<q, s>>] = None
  BY <1>1, Constants DEF PlansInit, ToMake
<1> QED  BY <1>1, <1>2 DEF KeepInv

(* No request deletes the content under a task, for any number of        *)
(* requests: property TaskKeepsContent.                                    *)
THEOREM ContentCorrect == PlansSpec => []TaskKeepsContent
<1>1. Typed /\ KeepInv /\ [PlansNext]_plansVars => (Typed /\ KeepInv)'
  BY TypedStep, KeepStep
<1>2. Typed /\ KeepInv => TaskKeepsContent
  BY Constants DEF KeepInv, ContentExists, TaskKeepsContent
<1> QED  BY TypedInit, KeepInit, <1>1, <1>2, PTL DEF PlansSpec

-----------------------------------------------------------------------------
(* What a run of the planner takes away.                                   *)

RemovesUnused ==
  \A s \in rows \ rows' :
    linked[s] = None /\ (usedAge[s] \in 0 .. ClaimTimeout => plan' # plan)

LEMMA RowsLeave == ASSUME Typed, [PlansNext]_plansVars PROVE RemovesUnused
<1>1. CASE rows \subseteq rows'
  BY <1>1 DEF RemovesUnused
<1>2. ASSUME NEW b \in Run, ClearRows(b) PROVE RemovesUnused
  <2>1. \A s \in rows \ rows' : Replaceable(b, s)
    BY <1>2 DEF ClearRows, Delete
  <2>2. run[b].elapsed \in Nat /\ \A s \in rows : usedAge[s] \in {NotUsed} \cup (0 .. MaxAge)
    BY Constants DEF Typed, PlansTypeOK, RunState
  <2> QED  BY SMTT(30), <2>1, <2>2, Constants DEF Replaceable, RemovesUnused
<1>3. ASSUME NEW b \in Run, PrunePlans(b) PROVE RemovesUnused
  BY <1>3 DEF PrunePlans, Delete, Prunable, RemovesUnused
<1>4. ASSUME NEW b \in Run, AddRows(b) PROVE rows \subseteq rows'
  BY <1>4, AddEffect
<1>5. ASSUME NEW q \in Request, RequestStep(q) PROVE rows' = rows
  <2>1. ASSUME NEW ids \in SUBSET Row, StartQuick(q, ids) PROVE rows' = rows
    BY <2>1 DEF StartQuick, planVars
  <2>2. ASSUME NEW s \in Row, Claim(q, s) \/ Refuse(q, s) PROVE rows' = rows
    BY <2>2 DEF Claim, Refuse, planVars
  <2>3. ASSUME NEW m \in Material, StartSearch(q, m) PROVE rows' = rows
    BY <2>3 DEF StartSearch, planVars
  <2> QED  BY <1>5, <2>1, <2>2, <2>3
           DEF RequestStep, FindContent, MakeContent, FindRecent, CreateTask, CreateTaskFails,
               CreateTaskUnanswered, Link, LinkFails, Release, ReleaseFails, DropContent,
               DropFails, SeekSuggestion, Attach, AttachFails, QueryFails, planVars
<1>6. ASSUME NEW t \in Task, RemoveTask(t) PROVE rows' = rows
  BY <1>6 DEF RemoveTask, planVars
<1>7. ASSUME NEW b \in Run, NEW quota \in BOOLEAN, NEW want \in SUBSET Material,
             StartRun(b, quota, want)
      PROVE  rows' = rows
  BY <1>7 DEF StartRun, planVars
<1>8. ASSUME NEW b \in Run, ReadPlan(b) \/ UpdatePlan(b) \/ CreatePlan(b) \/ RunFails(b)
      PROVE  rows' = rows
  BY <1>8 DEF ReadPlan, UpdatePlan, CreatePlan, RunFails, planVars
<1>9. CASE Tick \/ UNCHANGED plansVars
  BY <1>1, <1>9 DEF Tick, planVars, plansVars
<1> QED  BY <1>1, <1>2, <1>3, <1>4, <1>5, <1>6, <1>7, <1>8, <1>9 DEF PlansNext, RunStep

(* A run of the planner takes away no suggestion in use, except one being  *)
(* made a task of with its whole plan: property KeptOnRerun.               *)
THEOREM RerunCorrect == PlansSpec => KeptOnRerun
<1>1. Typed /\ [PlansNext]_plansVars => [RemovesUnused]_plansVars
  BY RowsLeave
<1>2. Typed /\ [PlansNext]_plansVars => Typed'
  BY TypedStep
<1>3. KeptOnRerun <=> [][RemovesUnused]_plansVars
  BY PTL DEF KeptOnRerun, RemovesUnused
<1> QED  BY TypedInit, <1>1, <1>2, <1>3, PTL DEF PlansSpec
=============================================================================
