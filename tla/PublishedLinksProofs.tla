------------------------ MODULE PublishedLinksProofs ------------------------
(***************************************************************************)
(* Proofs about PublishedLinks, for any number of tasks, urls, links,      *)
(* answers, requests and attempts:                                         *)
(*   LinksTyped       the type invariant                                   *)
(*   LinksOnce        a task never holds a url twice                       *)
(*   FiguresCorrect   a link never carries the figures of another url      *)
(*   OwnersCorrect    links enter and leave an array by their owners only  *)
(*   FiguresKept      only a refresh replaces figures                      *)
(* The four others rest on LinksInv, whose heart is Current: a request     *)
(* about to write and not overtaken still sees the array as it is.         *)
(***************************************************************************)
EXTENDS PublishedLinks, TLAPS

Once(S)      == \A k, l \in S : k.url = l.url => k = l
Matching(S)  == \A l \in S : l.stats # NoStats => l.stats.of = l.url

(* What a request holds at each of its steps. *)
Placed(o) ==
  /\ o.step # "idle" => o.task \in Task
  /\ o.step \in {"form", "check"} => o.kind = "save"
  /\ o.step \in {"get", "put"} => o.kind \in {"save", "refresh", "attach"}
  /\ o.kind = "attach" => o.entry \in Link

Holds(o) ==
  /\ \A l \in o.form : l.stats = NoStats
  /\ o.step = "check" => Once(o.seen)
  /\ o.step \in {"get", "put"} /\ o.kind = "save" => Once(o.form)
  /\ \A l \in o.fetched : l.stats # NoStats
  /\ Matching(o.fetched)
  /\ o.entry.stats # NoStats => o.entry.stats.of = o.entry.url

Current(o) ==
  o.step = "put" /\ o.clean =>
    /\ o.seen = links[o.task]
    /\ ~ NothingToWrite(o, o.seen)
    /\ status[o.task] # "GONE"

LinksInv ==
  /\ LinksTypeOK
  /\ \A r \in Request : Placed(op[r]) /\ Holds(op[r]) /\ Current(op[r])
  /\ OncePerTask
  /\ StatsMatchUrl

-----------------------------------------------------------------------------
(* The functions of the array.                                             *)

(* The figures of a link in a set are those of a member with its key. *)
LEMMA StatsInMember ==
  ASSUME NEW S, NEW l, HasKey(S, l)
  PROVE  \E k \in S : Key(k) = Key(l) /\ StatsIn(S, l) = k.stats
<1>1. \E k \in S : Key(k) = Key(l)
  BY DEF HasKey
<1>2. /\ (CHOOSE k \in S : Key(k) = Key(l)) \in S
      /\ Key(CHOOSE k \in S : Key(k) = Key(l)) = Key(l)
  BY <1>1
<1> QED  BY <1>2 DEF StatsIn

LEMMA StatsInType ==
  ASSUME NEW S \in SUBSET Link, NEW l
  PROVE  StatsIn(S, l) \in Stats \cup {NoStats}
<1>1. CASE HasKey(S, l)
  BY <1>1, StatsInMember DEF Link
<1>2. CASE ~ HasKey(S, l)
  BY <1>2 DEF StatsIn
<1> QED  BY <1>1, <1>2

(* A link with other figures is a link with the same key. *)
LEMMA Restated ==
  ASSUME NEW l \in Link, NEW s \in Stats \cup {NoStats}
  PROVE  /\ [l EXCEPT !.stats = s] \in Link
         /\ [l EXCEPT !.stats = s].id = l.id
         /\ [l EXCEPT !.stats = s].url = l.url
         /\ [l EXCEPT !.stats = s].stats = s
         /\ Key([l EXCEPT !.stats = s]) = Key(l)
BY DEF Link, Key

(* Two links with the same key and figures are the same. *)
LEMMA KeyDecides ==
  ASSUME NEW k \in Link, NEW l \in Link, Key(k) = Key(l)
  PROVE  /\ k.id = l.id /\ k.url = l.url
         /\ k.stats = l.stats => k = l
BY DEF Link, Key

(* The figures fetched for links are figures of their urls. *)
LEMMA FiguresType ==
  ASSUME NEW S \in SUBSET Link, NEW n \in Take
  PROVE  /\ Figures(S, n) \in SUBSET Link
         /\ Matching(Figures(S, n))
         /\ \A l \in Figures(S, n) : l.stats # NoStats
<1>. USE LinksAssumption
<1> DEFINE Value(l) == [of |-> l.url, take |-> n]
           Image(l) == [l EXCEPT !.stats = Value(l)]
<1>1. ASSUME NEW l \in S
      PROVE  Value(l) \in Stats /\ Value(l) # NoStats /\ Value(l).of = l.url
  BY DEF Stats, Link
<1>2. ASSUME NEW l \in S
      PROVE  Image(l) \in Link /\ Image(l).url = l.url /\ Image(l).stats = Value(l)
  <2> HIDE DEF Value
  <2> QED  BY <1>1, Restated
<1>3. Figures(S, n) = {Image(l) : l \in S}
  BY DEF Figures
<1> HIDE DEF Value, Image
<1> QED  BY <1>1, <1>2, <1>3 DEF Matching

(* What a form's save writes: its own links, each with figures of its url. *)
LEMMA SavedProps ==
  ASSUME NEW form \in SUBSET Link, NEW fetched \in SUBSET Link, NEW cur \in SUBSET Link
  PROVE  /\ Saved(form, fetched, cur) \in SUBSET Link
         /\ \A x : HasKey(Saved(form, fetched, cur), x) <=> HasKey(form, x)
         /\ Once(form) => Once(Saved(form, fetched, cur))
         /\ Matching(cur) /\ Matching(fetched) => Matching(Saved(form, fetched, cur))
<1> DEFINE S == Saved(form, fetched, cur)
           Value(l) == IF StatsIn(cur, l) # NoStats THEN StatsIn(cur, l) ELSE StatsIn(fetched, l)
           Image(l) == [l EXCEPT !.stats = Value(l)]
<1>1. S = {Image(l) : l \in form}
  BY DEF Saved
<1>2. ASSUME NEW l \in form
      PROVE  /\ Image(l) \in Link /\ Image(l).url = l.url
             /\ Image(l).stats = Value(l) /\ Key(Image(l)) = Key(l)
  BY StatsInType, Restated
<1> HIDE DEF Image
<1>3. \A x : HasKey(S, x) <=> HasKey(form, x)
  BY <1>1, <1>2 DEF HasKey
<1>4. Once(form) => Once(S)
  BY <1>1, <1>2 DEF Once
<1>5. ASSUME Matching(cur), Matching(fetched) PROVE Matching(S)
  <2>1. ASSUME NEW l \in form, NEW T \in SUBSET Link, Matching(T), StatsIn(T, l) # NoStats
        PROVE  StatsIn(T, l).of = l.url
    <3>1. HasKey(T, l)
      BY <2>1 DEF StatsIn
    <3>2. PICK k \in T : Key(k) = Key(l) /\ StatsIn(T, l) = k.stats
      BY <3>1, StatsInMember
    <3>3. k.url = l.url
      BY <3>2, KeyDecides
    <3> QED  BY <2>1, <3>2, <3>3 DEF Matching
  <2>2. ASSUME NEW l \in form, Value(l) # NoStats PROVE Value(l).of = l.url
    <3>1. CASE StatsIn(cur, l) # NoStats
      BY <3>1, <2>1, <1>5
    <3>2. CASE StatsIn(cur, l) = NoStats
      BY <3>2, <2>1, <2>2, <1>5
    <3> QED  BY <3>1, <3>2
  <2> HIDE DEF Value
  <2> QED  BY <1>1, <1>2, <2>2 DEF Matching
<1> HIDE DEF Value
<1> QED  BY <1>1, <1>2, <1>3, <1>4, <1>5

(* What a refresh writes: the links it read, with figures of their urls. *)
LEMMA WithFetchedProps ==
  ASSUME NEW cur \in SUBSET Link, NEW fetched \in SUBSET Link
  PROVE  /\ WithFetched(cur, fetched) \in SUBSET Link
         /\ \A x : HasKey(WithFetched(cur, fetched), x) <=> HasKey(cur, x)
         /\ Once(cur) => Once(WithFetched(cur, fetched))
         /\ Matching(cur) /\ Matching(fetched) => Matching(WithFetched(cur, fetched))
<1> DEFINE S == WithFetched(cur, fetched)
           Value(l) == IF HasKey(fetched, l) THEN StatsIn(fetched, l) ELSE l.stats
           Image(l) == [l EXCEPT !.stats = Value(l)]
<1>1. S = {Image(l) : l \in cur}
  BY DEF WithFetched
<1>2. ASSUME NEW l \in cur
      PROVE  /\ Image(l) \in Link /\ Image(l).url = l.url
             /\ Image(l).stats = Value(l) /\ Key(Image(l)) = Key(l)
  <2>1. Value(l) \in Stats \cup {NoStats}
    BY StatsInType DEF Link
  <2> QED  BY <2>1, Restated
<1> HIDE DEF Image
<1>3. \A x : HasKey(S, x) <=> HasKey(cur, x)
  BY <1>1, <1>2 DEF HasKey
<1>4. Once(cur) => Once(S)
  BY <1>1, <1>2 DEF Once
<1>5. ASSUME Matching(cur), Matching(fetched) PROVE Matching(S)
  <2>1. ASSUME NEW l \in cur, Value(l) # NoStats PROVE Value(l).of = l.url
    <3>1. CASE HasKey(fetched, l)
      <4>1. PICK k \in fetched : Key(k) = Key(l) /\ StatsIn(fetched, l) = k.stats
        BY <3>1, StatsInMember
      <4>2. k.url = l.url
        BY <4>1, KeyDecides
      <4> QED  BY <2>1, <3>1, <4>1, <4>2, <1>5 DEF Matching
    <3>2. CASE ~ HasKey(fetched, l)
      BY <2>1, <3>2, <1>5 DEF Matching
    <3> QED  BY <3>1, <3>2
  <2> HIDE DEF Value
  <2> QED  BY <1>1, <1>2, <2>1 DEF Matching
<1> HIDE DEF Value
<1> QED  BY <1>1, <1>2, <1>3, <1>4, <1>5

-----------------------------------------------------------------------------
(* What the requests hold.                                                 *)

LEMMA IdleProps == IdleOp \in Op /\ Placed(IdleOp) /\ Holds(IdleOp) /\ Current(IdleOp)
BY LinksAssumption DEF IdleOp, Op, Placed, Holds, Current, Matching, Once

(* A step of one request that writes no row. *)
LEMMA Goes ==
  ASSUME LinksInv, NEW r \in Request, NEW o \in Op,
         Placed(o), Holds(o), Current(o),
         op' = [op EXCEPT ![r] = o],
         UNCHANGED <<status, links>>, ops' \in 0 .. MaxOps
  PROVE  LinksInv'
<1>1. LinksTypeOK'
  BY DEF LinksInv, LinksTypeOK
<1>2. ASSUME NEW q \in Request
      PROVE  Placed(op'[q]) /\ Holds(op'[q]) /\ Current(op[q])' /\ op'[q] = IF q = r THEN o ELSE op[q]
  BY DEF LinksInv, LinksTypeOK, Current
<1> QED  BY <1>1, <1>2 DEF LinksInv, OncePerTask, StatsMatchUrl

(* A write of one row. *)
LEMMA Writes ==
  ASSUME LinksInv, NEW t \in Task, NEW ops1 \in [Request -> Op],
         \A r \in Request : Placed(ops1[r]) /\ Holds(ops1[r]) /\ Current(ops1[r]),
         op' = Overtake(ops1, t),
         links' \in [Task -> SUBSET Link],
         \A u \in Task \ {t} : links'[u] = links[u] /\ status'[u] = status[u],
         Once(links'[t]), Matching(links'[t]),
         status' \in [Task -> {"OPEN", "APPROVED", "GONE"}], ops' \in 0 .. MaxOps
  PROVE  LinksInv'
<1>1. ASSUME NEW r \in Request
      PROVE  /\ op'[r] \in Op /\ Placed(op'[r]) /\ Holds(op'[r]) /\ Current(op[r])'
  <2>1. CASE ops1[r].task = t
    <3>1. op'[r] = [ops1[r] EXCEPT !.clean = FALSE] /\ ops1[r] \in Op
      BY <2>1 DEF Overtake
    <3>2. op'[r] \in Op /\ ~ op'[r].clean
      BY <3>1 DEF Op
    <3>3. Placed(op'[r]) /\ Holds(op'[r])
      BY <3>1 DEF Op, Placed, Holds
    <3> QED  BY <3>2, <3>3 DEF Current
  <2>2. CASE ops1[r].task # t
    <3>1. op'[r] = ops1[r]
      BY <2>2 DEF Overtake
    <3>2. ops1[r].step = "put" => ops1[r].task \in Task \ {t}
      BY <2>2 DEF Placed
    <3> QED  BY <3>1, <3>2 DEF Current
  <2> QED  BY <2>1, <2>2
<1>2. op' \in [Request -> Op]
  BY <1>1 DEF Overtake
<1>3. OncePerTask' /\ StatsMatchUrl'
  BY DEF LinksInv, OncePerTask, StatsMatchUrl, Once, Matching
<1> QED  BY <1>1, <1>2, <1>3 DEF LinksInv, LinksTypeOK

(* The new request of an operation that begins. *)
LEMMA Begins ==
  ASSUME LinksInv, NEW r \in Request, NEW o \in Op, Placed(o), Holds(o), Current(o), Begin(r, o)
  PROVE  LinksInv'
<1>1. ops' \in 0 .. MaxOps
  BY LinksAssumption DEF Begin, LinksInv, LinksTypeOK
<1> QED  BY <1>1, Goes DEF Begin

LEMMA Finishes ==
  ASSUME LinksInv, NEW r \in Request, Finish(r), UNCHANGED <<status, links, ops>>
  PROVE  LinksInv'
<1>1. ops' \in 0 .. MaxOps
  BY DEF LinksInv, LinksTypeOK
<1> QED  BY <1>1, IdleProps, Goes DEF Finish

LEMMA LinksInitInv == LinksInit => LinksInv
<1> SUFFICES ASSUME LinksInit PROVE LinksInv
  OBVIOUS
<1>1. LinksTypeOK
  BY LinksAssumption, IdleProps DEF LinksInit, LinksTypeOK
<1> QED  BY <1>1, IdleProps DEF LinksInit, LinksInv, OncePerTask, StatsMatchUrl

-----------------------------------------------------------------------------
(* The steps.                                                              *)

LEMMA OpenFormInv ==
  ASSUME LinksInv, NEW r \in Request, NEW t \in Task, OpenForm(r, t)
  PROVE  LinksInv'
<1> DEFINE form == {Bare(l) : l \in links[t]}
           o == [IdleOp EXCEPT !.step = "form", !.kind = "save", !.task = t, !.form = form]
<1>1. ASSUME NEW l \in links[t] PROVE Bare(l) \in Link /\ Bare(l).stats = NoStats
  BY Restated DEF Bare, LinksInv, LinksTypeOK
<1>2. form \in SUBSET Link /\ \A l \in form : l.stats = NoStats
  BY <1>1
<1> HIDE DEF form
<1>3. o \in Op
  BY <1>2, IdleProps DEF Op, IdleOp
<1>4. Placed(o) /\ Holds(o) /\ Current(o)
  BY <1>2, IdleProps DEF Placed, Holds, Current, IdleOp, Matching, Once
<1>5. Begin(r, o)
  BY DEF OpenForm, form
<1> HIDE DEF o
<1> QED  BY <1>3, <1>4, <1>5, Begins

LEMMA RefreshInv ==
  ASSUME LinksInv, NEW r \in Request, NEW t \in Task, Refresh(r, t)
  PROVE  LinksInv'
<1>1. PICK S \in (SUBSET links[t]) \ {{}}, n \in Take :
        Begin(r, [IdleOp EXCEPT !.step = "get", !.kind = "refresh", !.task = t,
                                !.fetched = Figures(S, n)])
  BY DEF Refresh
<1> DEFINE F == Figures(S, n)
           o == [IdleOp EXCEPT !.step = "get", !.kind = "refresh", !.task = t, !.fetched = F]
<1>2. F \in SUBSET Link /\ Matching(F) /\ \A l \in F : l.stats # NoStats
  <2>1. S \in SUBSET Link
    BY DEF LinksInv, LinksTypeOK
  <2> QED  BY <2>1, FiguresType
<1>3. Begin(r, o)
  BY <1>1
<1> HIDE DEF F
<1>4. o \in Op
  BY <1>2, IdleProps DEF Op, IdleOp
<1>5. Placed(o) /\ Holds(o) /\ Current(o)
  BY <1>2, IdleProps DEF Placed, Holds, Current, IdleOp, Once
<1> HIDE DEF o
<1> QED  BY <1>3, <1>4, <1>5, Begins

(* An attachment begins, by the publishing worker or by the matcher. *)
LEMMA AttachInv ==
  ASSUME LinksInv, NEW r \in Request, NEW t \in Task,
         NEW e \in Link, e.stats # NoStats => e.stats.of = e.url,
         Begin(r, [IdleOp EXCEPT !.step = "get", !.kind = "attach", !.task = t, !.entry = e])
  PROVE  LinksInv'
<1> DEFINE o == [IdleOp EXCEPT !.step = "get", !.kind = "attach", !.task = t, !.entry = e]
<1>1. o \in Op
  BY IdleProps DEF Op, IdleOp, Link
<1>2. Placed(o) /\ Holds(o) /\ Current(o)
  BY IdleProps DEF Placed, Holds, Current, IdleOp, Once, Matching
<1> HIDE DEF o
<1> QED  BY <1>1, <1>2, Begins DEF o

LEMMA SyncInv ==
  ASSUME LinksInv, NEW r \in Request, NEW t \in Task, NEW u \in Url, Sync(r, t, u)
  PROVE  LinksInv'
<1>1. PICK i \in LinkId :
        Begin(r, [IdleOp EXCEPT !.step = "get", !.kind = "attach", !.task = t,
                                !.entry = [id |-> i, url |-> u, stats |-> NoStats]])
  BY DEF Sync
<1>2. [id |-> i, url |-> u, stats |-> NoStats] \in Link
  BY DEF Link
<1> QED  BY <1>1, <1>2, AttachInv

LEMMA MatchInv ==
  ASSUME LinksInv, NEW r \in Request, NEW t \in Task, NEW u \in Url, Match(r, t, u)
  PROVE  LinksInv'
<1>1. PICK i \in LinkId, n \in Take :
        Begin(r, [IdleOp EXCEPT !.step = "get", !.kind = "attach", !.task = t,
                    !.entry = [id |-> i, url |-> u, stats |-> [of |-> u, take |-> n]]])
  BY DEF Match
<1>2. [id |-> i, url |-> u, stats |-> [of |-> u, take |-> n]] \in Link
  BY DEF Link, Stats
<1> QED  BY <1>1, <1>2, AttachInv

(* Whatever the editor does to the form, its links have no figures. *)
LEMMA EditsType ==
  ASSUME NEW form \in SUBSET Link, \A l \in form : l.stats = NoStats, NEW e \in Edits(form)
  PROVE  e \in SUBSET Link /\ \A l \in e : l.stats = NoStats
<1>1. ASSUME NEW i \in LinkId, NEW u \in Url
      PROVE  /\ [id |-> i, url |-> u, stats |-> NoStats] \in Link
             /\ [id |-> i, url |-> u, stats |-> NoStats].stats = NoStats
  BY DEF Link
<1>2. ASSUME NEW l \in form, NEW u \in Url
      PROVE  [l EXCEPT !.url = u] \in Link /\ [l EXCEPT !.url = u].stats = NoStats
  <2>1. l \in Link /\ l.stats = NoStats
    OBVIOUS
  <2> QED  BY <2>1 DEF Link
<1>3. CASE e = form
  BY <1>3
<1>4. CASE \E l \in form : e = form \ {l}
  BY <1>4
<1>5. CASE \E i \in LinkId, u \in Url : e = form \cup {[id |-> i, url |-> u, stats |-> NoStats]}
  BY <1>5, <1>1
<1>6. CASE \E l \in form, u \in Url : e = (form \ {l}) \cup {[l EXCEPT !.url = u]}
  BY <1>6, <1>2
<1> QED  BY <1>3, <1>4, <1>5, <1>6 DEF Edits

LEMMA SubmitFormInv ==
  ASSUME LinksInv, NEW r \in Request, SubmitForm(r)
  PROVE  LinksInv'
<1> DEFINE t == op[r].task
<1>1. PICK form \in Edits(op[r].form) :
        op' = [op EXCEPT ![r] = [@ EXCEPT !.step = "check", !.form = form, !.seen = links[t]]]
  BY DEF SubmitForm
<1> DEFINE o == [op[r] EXCEPT !.step = "check", !.form = form, !.seen = links[t]]
<1>2. op[r] \in Op /\ op[r].step = "form" /\ Placed(op[r]) /\ Holds(op[r]) /\ t \in Task
  BY DEF LinksInv, LinksTypeOK, SubmitForm, Placed
<1>3. form \in SUBSET Link /\ \A l \in form : l.stats = NoStats
  BY <1>2, EditsType DEF Op, Holds
<1>4. links[t] \in SUBSET Link /\ Once(links[t])
  BY <1>2 DEF LinksInv, LinksTypeOK, OncePerTask, Once
<1>5. o \in Op
  BY <1>2, <1>3, <1>4 DEF Op
<1>6. Placed(o) /\ Holds(o) /\ Current(o)
  BY <1>2, <1>3, <1>4 DEF Op, Placed, Holds, Current
<1>7. op' = [op EXCEPT ![r] = o] /\ UNCHANGED <<status, links>> /\ ops' \in 0 .. MaxOps
  BY <1>1 DEF SubmitForm, LinksInv, LinksTypeOK
<1> HIDE DEF o
<1> QED  BY <1>5, <1>6, <1>7, Goes

(* A form whose new links are new to it has each url once. *)
LEMMA CheckedOnce ==
  ASSUME NEW o \in Op, Once(o.seen), \A l \in o.form : l.stats = NoStats, Allowed(o)
  PROVE  Once(o.form)
<1> SUFFICES ASSUME NEW k \in o.form, NEW l \in o.form, k.url = l.url PROVE k = l
  BY DEF Once
<1>1. k \in Link /\ l \in Link /\ o.seen \in SUBSET Link
  BY DEF Op
<1>2. CASE HasKey(o.seen, k) /\ HasKey(o.seen, l)
  <2>1. PICK a \in o.seen, b \in o.seen : Key(a) = Key(k) /\ Key(b) = Key(l)
    BY <1>2 DEF HasKey
  <2>2. a.url = b.url
    BY <1>1, <2>1, KeyDecides
  <2>3. Key(k) = Key(l)
    BY <2>1, <2>2 DEF Once
  <2> QED  BY <1>1, <2>3, KeyDecides
<1>3. CASE ~ (HasKey(o.seen, k) /\ HasKey(o.seen, l))
  BY <1>3 DEF Allowed, SameVideo
<1> QED  BY <1>2, <1>3

LEMMA CheckFormInv ==
  ASSUME LinksInv, NEW r \in Request, CheckForm(r)
  PROVE  LinksInv'
<1> DEFINE S == {l \in op[r].form : StatsIn(op[r].seen, l) = NoStats}
<1>1. PICK n \in Take :
        op' = [op EXCEPT ![r] = [op[r] EXCEPT !.step = "get", !.fetched = Figures(S, n)]]
  BY DEF CheckForm
<1> DEFINE F == Figures(S, n)
           o == [op[r] EXCEPT !.step = "get", !.fetched = F]
<1>2. op[r] \in Op /\ op[r].step = "check" /\ Placed(op[r]) /\ Holds(op[r])
  BY DEF LinksInv, LinksTypeOK, CheckForm
<1>3. F \in SUBSET Link /\ Matching(F) /\ \A l \in F : l.stats # NoStats
  <2>1. S \in SUBSET Link
    BY <1>2 DEF Op
  <2> QED  BY <2>1, FiguresType
<1>4. Once(op[r].form)
  BY <1>2, CheckedOnce DEF CheckForm, Holds
<1>5. op' = [op EXCEPT ![r] = o] /\ UNCHANGED <<status, links>> /\ ops' \in 0 .. MaxOps
  BY <1>1 DEF CheckForm, LinksInv, LinksTypeOK
<1> HIDE DEF F, S
<1>6. o \in Op
  BY <1>2, <1>3 DEF Op
<1>7. Placed(o) /\ Holds(o) /\ Current(o)
  BY <1>2, <1>3, <1>4 DEF Op, Placed, Holds, Current
<1> HIDE DEF o
<1> QED  BY <1>5, <1>6, <1>7, Goes

LEMMA GetInv ==
  ASSUME LinksInv, NEW r \in Request, Get(r)
  PROVE  LinksInv'
<1> DEFINE t == op[r].task
           o == [op[r] EXCEPT !.step = "put", !.seen = links[t], !.clean = TRUE]
<1>1. op[r] \in Op /\ op[r].step = "get" /\ Placed(op[r]) /\ Holds(op[r]) /\ t \in Task
  BY DEF LinksInv, LinksTypeOK, Get, Placed
<1>2. CASE Finish(r)
  BY <1>2, Finishes DEF Get
<1>3. CASE /\ ~ NothingToWrite(op[r], links[t]) /\ status[t] # "GONE"
           /\ op' = [op EXCEPT ![r] = o]
  <2>1. links[t] \in SUBSET Link
    BY <1>1 DEF LinksInv, LinksTypeOK
  <2>2. o \in Op
    BY <1>1, <2>1 DEF Op
  <2>3. /\ o.step = "put" /\ o.seen = links[t] /\ o.task = t /\ o.kind = op[r].kind
        /\ o.fetched = op[r].fetched /\ o.entry = op[r].entry /\ o.form = op[r].form
    BY <1>1 DEF Op
  <2>4. Placed(o) /\ Holds(o) /\ Current(o)
    BY <1>1, <1>3, <2>3 DEF Placed, Holds, Current, NothingToWrite
  <2>5. UNCHANGED <<status, links>> /\ ops' \in 0 .. MaxOps
    BY DEF Get, LinksInv, LinksTypeOK
  <2> HIDE DEF o
  <2> QED  BY <1>3, <2>2, <2>4, <2>5, Goes
<1> QED  BY <1>2, <1>3 DEF Get

(* What a request writes when nobody has come between. *)
LEMMA MutatedProps ==
  ASSUME LinksInv, NEW r \in Request, op[r].step = "put", op[r].clean
  PROVE  /\ op[r].task \in Task /\ op[r].seen = links[op[r].task]
         /\ Mutated(op[r], op[r].seen) \in SUBSET Link
         /\ Once(Mutated(op[r], op[r].seen)) /\ Matching(Mutated(op[r], op[r].seen))
<1> DEFINE o == op[r]
<1>1. /\ o \in Op /\ Placed(o) /\ Holds(o) /\ o.task \in Task /\ o.seen = links[o.task]
      /\ ~ NothingToWrite(o, o.seen)
  BY DEF LinksInv, LinksTypeOK, Placed, Current
<1>2. /\ o.form \in SUBSET Link /\ o.fetched \in SUBSET Link /\ o.seen \in SUBSET Link
      /\ Once(o.seen) /\ Matching(o.seen) /\ Matching(o.fetched)
  BY <1>1 DEF Op, Holds, LinksInv, OncePerTask, StatsMatchUrl, Once, Matching
<1>3. CASE o.kind = "save"
  <2>1. Once(o.form)
    BY <1>1, <1>3 DEF Holds
  <2> QED  BY <1>1, <1>2, <1>3, <2>1, SavedProps DEF Mutated
<1>4. CASE o.kind = "refresh"
  BY <1>1, <1>2, <1>4, WithFetchedProps DEF Mutated
<1>5. CASE o.kind = "attach"
  <2>1. Mutated(o, o.seen) = o.seen \cup {o.entry}
    BY <1>5 DEF Mutated
  <2>2. o.entry \in Link /\ (o.entry.stats # NoStats => o.entry.stats.of = o.entry.url)
    BY <1>1, <1>5 DEF Placed, Holds
  <2>3. \A l \in o.seen : l.url # o.entry.url
    BY <1>1, <1>5 DEF NothingToWrite, HasUrl
  <2>4. Once(Mutated(o, o.seen))
    BY <1>2, <2>1, <2>3 DEF Once
  <2> QED  BY <1>1, <1>2, <2>1, <2>2, <2>4 DEF Matching
<1> QED  BY <1>1, <1>3, <1>4, <1>5 DEF Placed

LEMMA PutInv ==
  ASSUME LinksInv, NEW r \in Request, Put(r)
  PROVE  LinksInv'
<1> DEFINE t == op[r].task
           ops1 == [op EXCEPT ![r] = IdleOp]
<1>1. /\ op[r].step = "put" /\ op[r].clean
      /\ links' = [links EXCEPT ![t] = Mutated(op[r], op[r].seen)]
      /\ op' = Overtake(ops1, t)
      /\ UNCHANGED <<status, ops>>
  BY DEF Put
<1>2. /\ t \in Task
      /\ Mutated(op[r], op[r].seen) \in SUBSET Link
      /\ Once(Mutated(op[r], op[r].seen)) /\ Matching(Mutated(op[r], op[r].seen))
  BY <1>1, MutatedProps
<1>3. ops1 \in [Request -> Op]
  BY IdleProps DEF LinksInv, LinksTypeOK
<1>4. ASSUME NEW q \in Request
      PROVE  Placed(ops1[q]) /\ Holds(ops1[q]) /\ Current(ops1[q])
  <2>1. ops1[q] = IF q = r THEN IdleOp ELSE op[q]
    BY DEF LinksInv, LinksTypeOK
  <2> QED  BY <2>1, IdleProps DEF LinksInv
<1>5. /\ links' \in [Task -> SUBSET Link]
      /\ links'[t] = Mutated(op[r], op[r].seen)
      /\ \A u \in Task \ {t} : links'[u] = links[u]
  BY <1>1, <1>2 DEF LinksInv, LinksTypeOK
<1>6. status' \in [Task -> {"OPEN", "APPROVED", "GONE"}] /\ ops' \in 0 .. MaxOps
  BY <1>1 DEF LinksInv, LinksTypeOK
<1> HIDE DEF ops1
<1> QED  BY <1>1, <1>2, <1>3, <1>4, <1>5, <1>6, Writes

LEMMA OvertakenInv ==
  ASSUME LinksInv, NEW r \in Request, Overtaken(r)
  PROVE  LinksInv'
<1> DEFINE o == [op[r] EXCEPT !.step = "get", !.attempt = op[r].attempt + 1]
<1>1. op[r] \in Op /\ op[r].step = "put" /\ Placed(op[r]) /\ Holds(op[r])
  BY DEF LinksInv, LinksTypeOK, Overtaken
<1>2. CASE Finish(r)
  BY <1>2, Finishes DEF Overtaken
<1>3. CASE op[r].attempt + 1 < MaxAttempts /\ op' = [op EXCEPT ![r] = o]
  <2>1. op[r].attempt + 1 \in 0 .. MaxAttempts - 1
    BY <1>1, <1>3, LinksAssumption DEF Op
  <2>2. o \in Op
    BY <1>1, <2>1 DEF Op
  <2>3. /\ o.step = "get" /\ o.task = op[r].task /\ o.kind = op[r].kind
        /\ o.fetched = op[r].fetched /\ o.entry = op[r].entry /\ o.form = op[r].form
    BY <1>1 DEF Op
  <2>4. Placed(o) /\ Holds(o) /\ Current(o)
    BY <1>1, <2>3 DEF Placed, Holds, Current
  <2>5. UNCHANGED <<status, links>> /\ ops' \in 0 .. MaxOps
    BY DEF Overtaken, LinksInv, LinksTypeOK
  <2> HIDE DEF o
  <2> QED  BY <1>3, <2>2, <2>4, <2>5, Goes
<1> QED  BY <1>2, <1>3 DEF Overtaken

LEMMA OtherWriteInv ==
  ASSUME LinksInv, NEW t \in Task, OtherWrite(t) \/ Remove(t)
  PROVE  LinksInv'
<1>1. op \in [Request -> Op] /\ \A r \in Request : Placed(op[r]) /\ Holds(op[r]) /\ Current(op[r])
  BY DEF LinksInv, LinksTypeOK
<1>2. /\ op' = Overtake(op, t)
      /\ status' \in [Task -> {"OPEN", "APPROVED", "GONE"}] /\ ops' \in 0 .. MaxOps
  BY LinksAssumption DEF OtherWrite, Remove, LinksInv, LinksTypeOK
<1>3. /\ links' \in [Task -> SUBSET Link]
      /\ \A u \in Task \ {t} : links'[u] = links[u] /\ status'[u] = status[u]
      /\ Once(links'[t]) /\ Matching(links'[t])
  BY DEF OtherWrite, Remove, LinksInv, LinksTypeOK, OncePerTask, StatsMatchUrl, Once, Matching
<1> QED  BY <1>1, <1>2, <1>3, Writes

LEMMA LinksStep == LinksInv /\ [LinksNext]_linkVars => LinksInv'
<1> SUFFICES ASSUME LinksInv, [LinksNext]_linkVars PROVE LinksInv'
  OBVIOUS
<1>1. CASE UNCHANGED linkVars
  BY <1>1 DEF linkVars, LinksInv, LinksTypeOK, OncePerTask, StatsMatchUrl, Current
<1>2. ASSUME NEW r \in Request, Abandon(r) PROVE LinksInv'
  BY <1>2, Finishes DEF Abandon
<1> QED  BY <1>1, <1>2, OpenFormInv, RefreshInv, SyncInv, MatchInv, SubmitFormInv,
            CheckFormInv, GetInv, PutInv, OvertakenInv, OtherWriteInv DEF LinksNext

LEMMA LinksAlways == LinksSpec => []LinksInv
<1> QED  BY LinksInitInv, LinksStep, PTL DEF LinksSpec

-----------------------------------------------------------------------------
(* The theorems.                                                           *)

(* Every variable keeps its type; no request makes more than MaxAttempts   *)
(* attempts to write.                                                      *)
THEOREM LinksTyped == LinksSpec => []LinksTypeOK
<1>1. LinksInv => LinksTypeOK
  BY DEF LinksInv
<1> QED  BY <1>1, LinksAlways, PTL

(* A task never holds a url twice, whatever the worker, the matcher and    *)
(* the forms add at the same time.                                         *)
THEOREM LinksOnce == LinksSpec => []OncePerTask
<1>1. LinksInv => OncePerTask
  BY DEF LinksInv
<1> QED  BY <1>1, LinksAlways, PTL

(* A link never carries the figures fetched for another url.               *)
THEOREM FiguresCorrect == LinksSpec => []StatsMatchUrl
<1>1. LinksInv => StatsMatchUrl
  BY DEF LinksInv
<1> QED  BY <1>1, LinksAlways, PTL

(* Only Put and Remove change an array.                                    *)
LEMMA WhoWrites ==
  ASSUME LinksInv, [LinksNext]_linkVars, links' # links
  PROVE  (\E r \in Request : Put(r)) \/ (\E t \in Task : Remove(t))
BY DEF linkVars, LinksNext, OpenForm, Refresh, Sync, Match, Begin, SubmitForm, CheckForm,
       Abandon, Get, Overtaken, OtherWrite

(* What a write leaves, per kind of writer.                                *)
LEMMA PutEffect ==
  ASSUME LinksInv, NEW r \in Request, Put(r)
  PROVE  /\ op[r].step = "put" /\ op'[r] = IdleOp /\ op[r].task \in Task
         /\ \A t \in Task \ {op[r].task} : links'[t] = links[t]
         /\ links[op[r].task] \in SUBSET Link /\ links'[op[r].task] \in SUBSET Link
         /\ op[r].form \in SUBSET Link /\ op[r].fetched \in SUBSET Link
         /\ \/ /\ op[r].kind = "save"
               /\ links'[op[r].task] = Saved(op[r].form, op[r].fetched, links[op[r].task])
            \/ /\ op[r].kind = "refresh"
               /\ links'[op[r].task] = WithFetched(links[op[r].task], op[r].fetched)
            \/ /\ op[r].kind = "attach"
               /\ links'[op[r].task] = links[op[r].task] \cup {op[r].entry}
               /\ ~ HasUrl(links[op[r].task], op[r].entry.url)
<1>1. /\ op[r].step = "put" /\ op[r].clean
      /\ links' = [links EXCEPT ![op[r].task] = Mutated(op[r], op[r].seen)]
      /\ op' = Overtake([op EXCEPT ![r] = IdleOp], op[r].task)
  BY DEF Put
<1>2. /\ op[r].task \in Task /\ op[r].seen = links[op[r].task]
      /\ Mutated(op[r], op[r].seen) \in SUBSET Link
  BY <1>1, MutatedProps
<1>3. op'[r] = IdleOp
  <2>1. op'[r] = IF IdleOp.task = op[r].task THEN [IdleOp EXCEPT !.clean = FALSE] ELSE IdleOp
    BY <1>1 DEF Overtake, LinksInv, LinksTypeOK
  <2>2. IdleOp.task = NoTask
    BY DEF IdleOp
  <2> QED  BY <1>2, <2>1, <2>2, LinksAssumption
<1>4. links'[op[r].task] = Mutated(op[r], op[r].seen)
  BY <1>1, <1>2 DEF LinksInv, LinksTypeOK
<1>5. /\ op[r].kind \in {"save", "refresh", "attach"}
      /\ op[r].form \in SUBSET Link /\ op[r].fetched \in SUBSET Link
  BY <1>1 DEF LinksInv, LinksTypeOK, Placed, Op
<1>6. op[r].kind = "attach" => ~ HasUrl(links[op[r].task], op[r].entry.url)
  BY <1>1, <1>2 DEF LinksInv, Current, NothingToWrite
<1>7. links[op[r].task] \in SUBSET Link
      /\ \A t \in Task \ {op[r].task} : links'[t] = links[t]
  BY <1>1, <1>2 DEF LinksInv, LinksTypeOK
<1> QED  BY <1>1, <1>2, <1>3, <1>4, <1>5, <1>6, <1>7 DEF Mutated

(* A link leaves an array by a form without it or with the task, and       *)
(* enters by a form with it or as an attachment: no refresh and no         *)
(* automatic writer loses or brings back a link.                           *)
THEOREM OwnersCorrect == LinksSpec => LinksHaveOwners
<1> DEFINE Owned ==
      \A t \in Task :
        /\ \A l \in links[t] :
             \/ HasKey(links'[t], l) \/ status'[t] = "GONE"
             \/ \E r \in Request : WrittenBy(r, "save") /\ op[r].task = t /\ ~ HasKey(op[r].form, l)
        /\ \A l \in links'[t] :
             \/ HasKey(links[t], l)
             \/ \E r \in Request : WrittenBy(r, "save") /\ op[r].task = t /\ HasKey(op[r].form, l)
             \/ \E r \in Request : WrittenBy(r, "attach") /\ op[r].task = t /\ op[r].entry = l
<1>1. ASSUME LinksInv, [LinksNext]_linkVars PROVE Owned
  <2> SUFFICES ASSUME NEW t \in Task, links'[t] # links[t]
               PROVE  Owned!(t)
    BY DEF HasKey
  <2>1. ASSUME NEW r \in Request, Put(r) PROVE Owned!(t)
    <3>1. op[r].task = t
      BY <1>1, <2>1, PutEffect
    <3>2. CASE /\ op[r].kind = "save"
               /\ links'[t] = Saved(op[r].form, op[r].fetched, links[t])
      <4>0. /\ op[r].form \in SUBSET Link /\ op[r].fetched \in SUBSET Link
            /\ links[t] \in SUBSET Link
        BY <1>1, <2>1, <3>1, PutEffect
      <4>1. \A x : HasKey(links'[t], x) <=> HasKey(op[r].form, x)
        BY <4>0, <3>2, SavedProps
      <4>2. \A l \in links'[t] : HasKey(links'[t], l)
        BY DEF HasKey
      <4> QED  BY <1>1, <2>1, <3>1, <3>2, <4>1, <4>2, PutEffect DEF WrittenBy
    <3>3. CASE /\ op[r].kind = "refresh"
               /\ links'[t] = WithFetched(links[t], op[r].fetched)
      <4>1. \A x : HasKey(links'[t], x) <=> HasKey(links[t], x)
        BY <1>1, <2>1, <3>1, <3>3, PutEffect, WithFetchedProps
      <4>2. /\ \A l \in links'[t] : HasKey(links'[t], l)
            /\ \A l \in links[t] : HasKey(links[t], l)
        BY DEF HasKey
      <4> QED  BY <4>1, <4>2
    <3>4. CASE op[r].kind = "attach" /\ links'[t] = links[t] \cup {op[r].entry}
      <4>1. /\ \A l \in links[t] : HasKey(links'[t], l)
            /\ \A l \in links'[t] : HasKey(links[t], l) \/ l = op[r].entry
        BY <3>4 DEF HasKey
      <4> QED  BY <1>1, <2>1, <3>1, <3>4, <4>1, PutEffect DEF WrittenBy
    <3> QED  BY <1>1, <2>1, <3>1, <3>2, <3>3, <3>4, PutEffect
  <2>2. ASSUME NEW u \in Task, Remove(u) PROVE Owned!(t)
    BY <1>1, <2>2 DEF Remove, LinksInv, LinksTypeOK
  <2> QED  BY <1>1, <2>1, <2>2, WhoWrites
<1> QED  BY <1>1, LinksAlways, PTL DEF LinksHaveOwners, LinksSpec

(* Only a refresh replaces the figures of a link that has some: a form     *)
(* leaves the newest ones in place.                                        *)
THEOREM FiguresKept == LinksSpec => SaveKeepsStats
<1> DEFINE Kept ==
      \A t \in Task : \A k \in links[t], l \in links'[t] :
        Key(k) = Key(l) /\ k.stats # NoStats /\ k.stats # l.stats
          => \E r \in Request : WrittenBy(r, "refresh") /\ op[r].task = t /\ l \in op[r].fetched
<1>1. ASSUME LinksInv, [LinksNext]_linkVars PROVE Kept
  <2> SUFFICES ASSUME NEW t \in Task, NEW k \in links[t], NEW l \in links'[t],
                      Key(k) = Key(l), k.stats # NoStats, k.stats # l.stats
               PROVE  \E r \in Request : /\ WrittenBy(r, "refresh") /\ op[r].task = t
                                         /\ l \in op[r].fetched
    OBVIOUS
  <2>1. links[t] \in SUBSET Link /\ Once(links[t])
    BY <1>1 DEF LinksInv, LinksTypeOK, OncePerTask, Once
  <2>2. ASSUME NEW c \in links[t], Key(c) = Key(k) PROVE c = k
    <3>1. c.url = k.url
      BY <2>1, <2>2, KeyDecides
    <3> QED  BY <2>1, <3>1 DEF Once
  <2>3. links'[t] # links[t]
    BY <2>2
  <2>4. ASSUME NEW r \in Request, Put(r)
        PROVE  /\ WrittenBy(r, "refresh") /\ op[r].task = t
               /\ l \in op[r].fetched
    <3>1. op[r].task = t
      BY <1>1, <2>3, <2>4, PutEffect
    <3>2. CASE /\ op[r].kind = "save"
               /\ links'[t] = Saved(op[r].form, op[r].fetched, links[t])
      <4> DEFINE Value(f) == IF StatsIn(links[t], f) # NoStats THEN StatsIn(links[t], f)
                             ELSE StatsIn(op[r].fetched, f)
      <4>1. op[r].form \in SUBSET Link /\ op[r].fetched \in SUBSET Link
        BY <1>1, <2>4, PutEffect
      <4>2. PICK f \in op[r].form : l = [f EXCEPT !.stats = Value(f)]
        BY <3>2 DEF Saved
      <4>3. l.stats = Value(f) /\ Key(l) = Key(f)
        <5>1. Value(f) \in Stats \cup {NoStats}
          BY <2>1, <4>1, StatsInType
        <5> QED  BY <4>1, <4>2, <5>1, Restated
      <4>4. HasKey(links[t], f)
        BY <4>3 DEF HasKey
      <4>5. PICK c \in links[t] : Key(c) = Key(f) /\ StatsIn(links[t], f) = c.stats
        BY <4>4, StatsInMember
      <4>6. c = k
        BY <2>2, <4>3, <4>5
      <4> QED  BY <4>3, <4>5, <4>6
    <3>3. CASE /\ op[r].kind = "refresh"
               /\ links'[t] = WithFetched(links[t], op[r].fetched)
      <4> DEFINE Value(c) == IF HasKey(op[r].fetched, c) THEN StatsIn(op[r].fetched, c) ELSE c.stats
      <4>1. op[r].fetched \in SUBSET Link
        BY <1>1, <2>4, PutEffect
      <4>2. PICK c \in links[t] : l = [c EXCEPT !.stats = Value(c)]
        BY <3>3 DEF WithFetched
      <4>3. l.stats = Value(c) /\ Key(l) = Key(c) /\ l \in Link
        <5>1. Value(c) \in Stats \cup {NoStats}
          BY <2>1, <4>1, StatsInType DEF Link
        <5> QED  BY <2>1, <4>2, <5>1, Restated
      <4>4. c = k
        BY <2>2, <4>3
      <4>5. HasKey(op[r].fetched, c)
        BY <4>3, <4>4
      <4>6. PICK f \in op[r].fetched : Key(f) = Key(c) /\ StatsIn(op[r].fetched, c) = f.stats
        BY <4>5, StatsInMember
      <4>7. l = f
        BY <4>1, <4>3, <4>5, <4>6, KeyDecides
      <4> QED  BY <1>1, <2>4, <3>1, <3>3, <4>7, PutEffect DEF WrittenBy
    <3>4. CASE /\ op[r].kind = "attach" /\ links'[t] = links[t] \cup {op[r].entry}
               /\ ~ HasUrl(links[t], op[r].entry.url)
      <4>1. l = op[r].entry
        BY <2>2, <3>4
      <4>2. k \in Link /\ l \in Link
        BY <1>1, <2>1, <2>4, <3>1, PutEffect
      <4>3. k.url = l.url
        BY <4>2, KeyDecides
      <4> QED  BY <3>4, <4>1, <4>3 DEF HasUrl
    <3> QED  BY <1>1, <2>4, <3>1, <3>2, <3>3, <3>4, PutEffect
  <2>5. ASSUME NEW u \in Task, Remove(u) PROVE FALSE
    BY <1>1, <2>3, <2>5 DEF Remove, LinksInv, LinksTypeOK
  <2> QED  BY <1>1, <2>3, <2>4, <2>5, WhoWrites
<1> QED  BY <1>1, LinksAlways, PTL DEF SaveKeepsStats, LinksSpec

-----------------------------------------------------------------------------
(* The refinement of LinkTable.                                            *)

asked == [r \in Request |-> Asked(op[r])]
gone  == {t \in Task : status[t] = "GONE"}

(* A request asks for nothing until it is past its checks. *)
LEMMA AskedProps ==
  ASSUME NEW o \in Op, Placed(o)
  PROVE  /\ o.step \notin {"get", "put"} => Asked(o) = NoChange
         /\ o.step \in {"get", "put"} => /\ Asked(o) \in Table!Change
                                        /\ Asked(o) # NoChange
                                        /\ Asked(o).kind = o.kind
                                        /\ Asked(o).task = o.task
<1>1. CASE o.step \notin {"get", "put"}
  BY <1>1 DEF Asked
<1>2. CASE o.step \in {"get", "put"}
  <2>1. o.kind \in {"save", "refresh", "attach"} /\ o.task \in Task
    BY <1>2 DEF Placed
  <2>2. o.form \in SUBSET Link /\ o.fetched \in SUBSET Link /\ (o.kind = "attach" => o.entry \in Link)
    BY DEF Op, Placed
  <2>3. CASE o.kind = "save"
    BY <1>2, <2>1, <2>2, <2>3 DEF Asked, NoChange, Table!Change, Table!Link, Link, Table!Stats, Stats
  <2>4. CASE o.kind = "refresh"
    BY <1>2, <2>1, <2>2, <2>4 DEF Asked, NoChange, Table!Change, Table!Link, Link, Table!Stats, Stats
  <2>5. CASE o.kind = "attach"
    BY <1>2, <2>1, <2>2, <2>5 DEF Asked, NoChange, Table!Change, Table!Link, Link, Table!Stats, Stats
  <2> QED  BY <2>1, <2>3, <2>4, <2>5
<1> QED  BY <1>1, <1>2

(* A change of one request's record is a change of what it asks for.       *)
LEMMA AskedAlone ==
  ASSUME LinksInv, NEW r \in Request, NEW o \in Op, op' = [op EXCEPT ![r] = o]
  PROVE  asked' = [asked EXCEPT ![r] = Asked(o)]
BY DEF asked, LinksInv, LinksTypeOK

(* A write of a row changes nothing of what is asked for.                  *)
LEMMA AskedOvertaken ==
  ASSUME NEW ops1 \in [Request -> Op], NEW t, op' = Overtake(ops1, t),
         \A r \in Request : Placed(ops1[r])
  PROVE  asked' = [r \in Request |-> Asked(ops1[r])]
<1> SUFFICES ASSUME NEW r \in Request PROVE Asked(op'[r]) = Asked(ops1[r])
  BY DEF asked
<1>1. CASE ops1[r].task = t
  <2>1. op'[r] = [ops1[r] EXCEPT !.clean = FALSE] /\ ops1[r] \in Op
    BY <1>1 DEF Overtake
  <2>2. /\ op'[r].step = ops1[r].step /\ op'[r].kind = ops1[r].kind
        /\ op'[r].task = ops1[r].task /\ op'[r].form = ops1[r].form
        /\ op'[r].fetched = ops1[r].fetched /\ op'[r].entry = ops1[r].entry
    BY <2>1 DEF Op
  <2> QED  BY <2>2 DEF Asked, Placed
<1>2. CASE ops1[r].task # t
  BY <1>2 DEF Overtake
<1> QED  BY <1>1, <1>2

(* A request that leaves the rows alone asks for something, gives it up, or *)
(* does nothing that shows.                                                *)
LEMMA AskingStep ==
  ASSUME LinksInv, NEW r \in Request, NEW o \in Op, Placed(o),
         op' = [op EXCEPT ![r] = o], UNCHANGED <<status, links>>,
         Asked(o) \in {Asked(op[r]), NoChange} \/ Asked(op[r]) = NoChange
  PROVE  [Table!Next]_(Table!vars)
<1>1. gone' = gone /\ links' = links
  BY DEF gone
<1>2. asked' = [asked EXCEPT ![r] = Asked(o)] /\ asked[r] = Asked(op[r])
  BY AskedAlone DEF asked
<1>3. asked \in [Request -> {asked[q] : q \in Request}] /\ asked'[r] = Asked(o)
  BY <1>2 DEF asked
<1>4. CASE Asked(o) = Asked(op[r])
  <2>1. asked' = asked
    BY <1>2, <1>3, <1>4
  <2> QED  BY <1>1, <2>1 DEF Table!vars, asked, gone
<1>5. CASE Asked(o) = NoChange /\ Asked(op[r]) # NoChange
  <2>1. Table!GiveUp(r)
    BY <1>1, <1>2, <1>5 DEF Table!GiveUp, asked, gone, Table!NoChange, NoChange
  <2> QED  BY <2>1 DEF Table!Next
<1>6. CASE Asked(op[r]) = NoChange /\ Asked(o) # NoChange
  <2>1. Asked(o) \in Table!Change
    BY <1>6, AskedProps
  <2>2. Table!Ask(r)
    BY <1>1, <1>2, <1>3, <1>6, <2>1 DEF Table!Ask, asked, gone, Table!NoChange, NoChange
  <2> QED  BY <2>2 DEF Table!Next
<1> QED  BY <1>4, <1>5, <1>6

(* The attempts of one write ask for one and the same change.              *)
LEMMA SameAsked ==
  ASSUME NEW o \in Op, NEW o1 \in Op, Placed(o),
         o.step \in {"get", "put"}, o1.step \in {"get", "put"},
         o1.kind = o.kind, o1.task = o.task, o1.form = o.form,
         o1.fetched = o.fetched, o1.entry = o.entry
  PROVE  Asked(o1) = Asked(o)
BY DEF Asked, Placed

(* The functions of the table are the ones of the module.                  *)
LEMMA SameFunctions ==
  ASSUME NEW f, NEW g, NEW cur, NEW l, NEW u
  PROVE  /\ Table!HasKey(g, l) = HasKey(g, l) /\ Table!HasUrl(g, u) = HasUrl(g, u)
         /\ Table!Saved(f, g, cur) = Saved(f, g, cur)
         /\ Table!WithFetched(cur, g) = WithFetched(cur, g)
<1>1. \A S, k : Table!HasKey(S, k) = HasKey(S, k)
  BY DEF Table!HasKey, HasKey, Table!Key, Key
<1>2. \A S, k : Table!StatsIn(S, k) = StatsIn(S, k)
  BY DEF Table!StatsIn, StatsIn, Table!HasKey, HasKey, Table!Key, Key
<1>3. Table!HasUrl(g, u) = HasUrl(g, u)
  BY DEF Table!HasUrl, HasUrl
<1>4. Table!Saved(f, g, cur) = Saved(f, g, cur)
  BY <1>2 DEF Table!Saved, Saved
<1>5. Table!WithFetched(cur, g) = WithFetched(cur, g)
  BY <1>1, <1>2 DEF Table!WithFetched, WithFetched
<1> QED  BY <1>1, <1>3, <1>4, <1>5

(* A conditional write that goes through is the change that was asked for. *)
LEMMA PutApplies ==
  ASSUME LinksInv, NEW r \in Request, Put(r)
  PROVE  Table!Apply(r)
<1> DEFINE o == op[r]
           c == asked[r]
           t == o.task
<1>1. /\ o.step = "put" /\ o.clean
      /\ links' = [links EXCEPT ![t] = Mutated(o, o.seen)]
      /\ op' = Overtake([op EXCEPT ![r] = IdleOp], t)
      /\ UNCHANGED status
  BY DEF Put
<1>2. /\ o \in Op /\ Placed(o) /\ t \in Task /\ o.seen = links[t]
      /\ ~ NothingToWrite(o, links[t]) /\ status[t] # "GONE"
  BY <1>1 DEF LinksInv, LinksTypeOK, Placed, Current
<1>3. c = Asked(o) /\ c # NoChange /\ c.task = t /\ c.kind = o.kind
  BY <1>1, <1>2, AskedProps DEF asked
<1>4. o.kind \in {"save", "refresh", "attach"}
  BY <1>1, <1>2 DEF Placed
<1>5. /\ Table!Mutated(c, links[t]) = Mutated(o, o.seen)
      /\ ~ Table!NothingToWrite(c, links[t])
  <2>1. CASE o.kind = "save"
    <3>1. c = [kind |-> "save", task |-> t, form |-> o.form, fetched |-> o.fetched]
      BY <1>1, <1>3, <2>1 DEF Asked
    <3>2. c.kind = "save" /\ c.form = o.form /\ c.fetched = o.fetched
      BY <3>1
    <3>3. Table!Mutated(c, links[t]) = Table!Saved(o.form, o.fetched, links[t])
      BY <3>2 DEF Table!Mutated
    <3>4. Mutated(o, o.seen) = Saved(o.form, o.fetched, links[t])
      BY <1>2, <2>1 DEF Mutated
    <3> QED  BY <3>2, <3>3, <3>4, SameFunctions DEF Table!NothingToWrite
  <2>2. CASE o.kind = "refresh"
    <3>1. c = [kind |-> "refresh", task |-> t, fetched |-> o.fetched]
      BY <1>1, <1>3, <2>2 DEF Asked
    <3>2. c.kind = "refresh" /\ c.fetched = o.fetched
      BY <3>1
    <3>3. Table!Mutated(c, links[t]) = Table!WithFetched(links[t], o.fetched)
      BY <3>2 DEF Table!Mutated
    <3>4. Mutated(o, o.seen) = WithFetched(links[t], o.fetched)
      BY <1>2, <2>2 DEF Mutated
    <3>5. ~ \A l \in links[t] : ~ HasKey(o.fetched, l)
      BY <1>2, <2>2 DEF NothingToWrite
    <3> QED  BY <3>2, <3>3, <3>4, <3>5, SameFunctions DEF Table!NothingToWrite
  <2>3. CASE o.kind = "attach"
    <3>1. c = [kind |-> "attach", task |-> t, entry |-> o.entry]
      BY <1>1, <1>3, <2>3 DEF Asked
    <3>2. c.kind = "attach" /\ c.entry = o.entry
      BY <3>1
    <3>3. Table!Mutated(c, links[t]) = links[t] \cup {o.entry}
      BY <3>2 DEF Table!Mutated
    <3>4. Mutated(o, o.seen) = links[t] \cup {o.entry}
      BY <1>2, <2>3 DEF Mutated
    <3>5. ~ HasUrl(links[t], o.entry.url)
      BY <1>2, <2>3 DEF NothingToWrite
    <3> QED  BY <3>2, <3>3, <3>4, <3>5, SameFunctions DEF Table!NothingToWrite
  <2> QED  BY <1>4, <2>1, <2>2, <2>3
<1>6. asked' = [asked EXCEPT ![r] = NoChange]
  <2> DEFINE ops1 == [op EXCEPT ![r] = IdleOp]
  <2>1. /\ ops1 \in [Request -> Op]
        /\ \A q \in Request : Placed(ops1[q]) /\ ops1[q] = IF q = r THEN IdleOp ELSE op[q]
    BY IdleProps DEF LinksInv, LinksTypeOK
  <2>2. asked' = [q \in Request |-> Asked(ops1[q])]
    <3> HIDE DEF ops1
    <3> QED  BY <1>1, <2>1, AskedOvertaken DEF ops1
  <2>3. Asked(IdleOp) = NoChange
    BY IdleProps, AskedProps DEF IdleOp
  <2> QED  BY <2>1, <2>2, <2>3 DEF asked
<1>7. gone' = gone /\ t \notin gone
  BY <1>1, <1>2 DEF gone
<1> HIDE DEF o, t
<1> QED
  BY <1>1, <1>3, <1>5, <1>6, <1>7
  DEF Table!Apply, asked, gone, c, Table!NoChange, NoChange

LEMMA StepRefines ==
  ASSUME LinksInv, LinksInv', [LinksNext]_linkVars
  PROVE  [Table!Next]_(Table!vars)
<1>0. \A r \in Request : /\ op[r] \in Op /\ Placed(op[r]) /\ op'[r] \in Op /\ Placed(op'[r])
                         /\ op[r].step \notin {"get", "put"} => Asked(op[r]) = NoChange
                         /\ op'[r].step \notin {"get", "put"} => Asked(op'[r]) = NoChange
  BY AskedProps DEF LinksInv, LinksTypeOK
<1>i. IdleOp.step = "idle"
  BY DEF IdleOp
<1>1. CASE UNCHANGED linkVars
  BY <1>1 DEF linkVars, Table!vars
<1>2. ASSUME NEW r \in Request,
             (\E t \in Task : OpenForm(r, t) \/ Refresh(r, t) \/ \E u \in Url : Sync(r, t, u) \/ Match(r, t, u))
             \/ SubmitForm(r) \/ CheckForm(r)
      PROVE  [Table!Next]_(Table!vars)
  <2>1. op' = [op EXCEPT ![r] = op'[r]] /\ UNCHANGED <<status, links>>
    BY <1>2 DEF OpenForm, Refresh, Sync, Match, Begin, SubmitForm, CheckForm, LinksInv, LinksTypeOK
  <2>2. op[r].step \in {"idle", "form", "check"}
    BY <1>2, <1>i DEF OpenForm, Refresh, Sync, Match, Begin, SubmitForm, CheckForm
  <2>3. Asked(op[r]) = NoChange /\ op'[r] \in Op /\ Placed(op'[r])
    BY <1>0, <2>2
  <2> DEFINE o == op'[r]
  <2> HIDE DEF o
  <2>4. o \in Op /\ Placed(o) /\ op' = [op EXCEPT ![r] = o]
    BY <2>1, <2>3 DEF o
  <2> QED  BY <2>1, <2>3, <2>4, AskingStep
<1>3. ASSUME NEW r \in Request, Finish(r), UNCHANGED <<status, links>>
      PROVE  [Table!Next]_(Table!vars)
  <2>1. Asked(IdleOp) = NoChange
    BY <1>i, IdleProps, AskedProps
  <2> QED  BY <1>3, <2>1, IdleProps, AskingStep DEF Finish
<1>4. ASSUME NEW r \in Request, Get(r) \/ Overtaken(r)
      PROVE  [Table!Next]_(Table!vars)
  <2>1. UNCHANGED <<status, links>> /\ op[r] \in Op /\ op[r].step \in {"get", "put"}
    BY <1>0, <1>4 DEF Get, Overtaken
  <2>2. CASE Finish(r)
    BY <1>3, <2>1, <2>2
  <2>3. ASSUME NEW o \in Op, o = op'[r], op' = [op EXCEPT ![r] = o],
               o.step \in {"get", "put"}, o.kind = op[r].kind, o.task = op[r].task,
               o.form = op[r].form, o.fetched = op[r].fetched, o.entry = op[r].entry
        PROVE  [Table!Next]_(Table!vars)
    <3>1. Placed(o) /\ Placed(op[r])
      BY <1>0, <2>3
    <3>2. Asked(o) = Asked(op[r])
      BY <2>1, <2>3, <3>1, SameAsked
    <3> QED  BY <2>1, <2>3, <3>1, <3>2, AskingStep
  <2>4. op \in [Request -> Op]
    BY DEF LinksInv, LinksTypeOK
  <2>5. CASE Get(r) /\ ~ Finish(r)
    <3> DEFINE o == [op[r] EXCEPT !.step = "put", !.seen = links[op[r].task], !.clean = TRUE]
    <3>1. op' = [op EXCEPT ![r] = o] /\ op'[r] = o
      BY <2>4, <2>5 DEF Get
    <3>2. /\ o.step = "put" /\ o.kind = op[r].kind /\ o.task = op[r].task
          /\ o.form = op[r].form /\ o.fetched = op[r].fetched /\ o.entry = op[r].entry
      BY <2>1 DEF Op
    <3>3. o \in Op
      BY <1>0, <3>1
    <3> HIDE DEF o
    <3> QED  BY <2>3, <3>1, <3>2, <3>3
  <2>6. CASE Overtaken(r) /\ ~ Finish(r)
    <3> DEFINE o == [op[r] EXCEPT !.step = "get", !.attempt = op[r].attempt + 1]
    <3>1. op' = [op EXCEPT ![r] = o] /\ op'[r] = o
      BY <2>4, <2>6 DEF Overtaken
    <3>2. /\ o.step = "get" /\ o.kind = op[r].kind /\ o.task = op[r].task
          /\ o.form = op[r].form /\ o.fetched = op[r].fetched /\ o.entry = op[r].entry
      BY <2>1 DEF Op
    <3>3. o \in Op
      BY <1>0, <3>1
    <3> HIDE DEF o
    <3> QED  BY <2>3, <3>1, <3>2, <3>3
  <2> QED  BY <1>4, <2>2, <2>5, <2>6
<1>5. ASSUME NEW r \in Request, Put(r)
      PROVE  [Table!Next]_(Table!vars)
  BY <1>5, PutApplies DEF Table!Next
<1>6. ASSUME NEW t \in Task, OtherWrite(t) \/ Remove(t)
      PROVE  [Table!Next]_(Table!vars)
  <2>1. asked' = asked
    BY <1>6, AskedOvertaken DEF OtherWrite, Remove, asked, LinksInv, LinksTypeOK
  <2>2. CASE OtherWrite(t)
    <3>1. links' = links /\ gone' = gone
      BY <2>2 DEF OtherWrite, gone, LinksInv, LinksTypeOK
    <3> QED  BY <2>1, <3>1 DEF Table!vars, asked, gone
  <2>3. CASE Remove(t)
    <3>1. t \notin gone /\ gone' = gone \cup {t} /\ links' = [links EXCEPT ![t] = {}]
      BY <2>3 DEF Remove, gone, LinksInv, LinksTypeOK
    <3>2. Table!Delete(t)
      BY <2>1, <3>1 DEF Table!Delete, asked, gone
    <3> QED  BY <3>2 DEF Table!Next
  <2> QED  BY <1>6, <2>2, <2>3
<1> QED  BY <1>1, <1>2, <1>3, <1>4, <1>5, <1>6 DEF LinksNext, Abandon

(* Every write has its effect at once, on the links as they are then, as   *)
(* if the task had been locked since the read: the loop of conditional     *)
(* writes implements LinkTable.                                            *)
THEOREM LinksAtomic == LinksSpec => WritesAreAtomic
<1>1. LinksInit => Table!Init
  BY LinksAssumption DEF LinksInit, Table!Init, Asked, IdleOp, Table!NoChange, NoChange
<1>2. LinksInv /\ LinksInv' /\ [LinksNext]_linkVars => [Table!Next]_(Table!vars)
  BY StepRefines
<1> QED  BY <1>1, <1>2, LinksAlways, PTL DEF LinksSpec, WritesAreAtomic, Table!Spec
=============================================================================
