-------------------------- MODULE BorrowLoanProofs --------------------------
(***************************************************************************)
(* More proofs about BorrowFlow:                                           *)
(*   NoCircularWaitCorrect  transactions never wait in a circle            *)
(*   SignedCorrect          a personal request has both its signatures     *)
(*   SignatureCorrect       a waiting request can still be signed          *)
(*   TrackedCorrect         a unit that is out is followed up              *)
(*   ClosesCorrect          a request closes with its last unit            *)
(*   OverCorrect            a request that is over holds no unit           *)
(*   PromisesCorrect        reserved lines never ask for too many units    *)
(*                                                                         *)
(* Each part has its inductive invariant: AscendInv (a transaction waits   *)
(* above the locks it holds), SignInv (what the transaction that signs     *)
(* has read is still true under the lock), ApartInv (handlers that are     *)
(* kept apart are), LoanInv (what was handed over is what is pinned, and   *)
(* a return knows everything that is out), TrackInv (nobody cancels a      *)
(* request that has lent something), CloseInv (a unit goes out once),      *)
(* CancelInv (a cancellation releases every row that pins a unit) and      *)
(* PromiseInv (the room that a submission found under the model locks is   *)
(* still there when it writes, and an assignment has read all the open     *)
(* reservations of a promised line).  LoanInv needs that a handover and an *)
(* assignment of one request do not overlap; TrackInv, CloseInv, CancelInv *)
(* and PromiseInv each need one or two such pairs more, and no other.      *)
(* OverCorrect rests on LoanInv for the rejected and the closed requests   *)
(* and on CancelInv, where an assignment and a cancellation do not         *)
(* overlap, for the cancelled ones.                                        *)
(***************************************************************************)
EXTENDS BorrowFlowProofs, WellFoundedInduction

(* How a step changes the transaction that takes it, by kind of step. *)
LEMMA EndFrame ==
  ASSUME TypeOK, NEW t \in Txn, End(t)
  PROVE  /\ tx'[t] = Idle
         /\ \A s \in Txn \ {t} : tx'[s] = tx[s]
         /\ \A r \in Request : requestLock'[r] = IF requestLock[r] = t THEN NoTxn ELSE requestLock[r]
         /\ \A m \in Model : modelLock'[m] = IF modelLock[m] = t THEN NoTxn ELSE modelLock[m]
BY DEF End, TypeOK, TxOK

LEMMA CommitEnds ==
  ASSUME NEW t \in Txn, Commit(t) \/ Rollback(t)
  PROVE  End(t)
BY DEF Commit, Rollback, WriteCreate, WriteReject, WriteApprove, WriteCancel,
       WriteAssign, WriteHandover, WriteReturn, WriteInspect

LEMMA TxnTypes ==
  ASSUME TypeOK, NEW t \in Txn
  PROVE  /\ tx[t] \in Work
         /\ tx[t].kind \in Handlers \cup {"idle"}
         /\ tx[t].kind \in Handlers \ {"inspect"} => tx[t].req \in Request
BY DEF TypeOK, TxOK, Work

(* The steps between the first read and the commit. *)
LEMMA ContinueFrame ==
  ASSUME TypeOK, NEW t \in Txn, Continue(t)
  PROVE  \/ End(t) /\ UNCHANGED tables
         \/ /\ tx'[t].kind = tx[t].kind /\ tx'[t].req = tx[t].req
            /\ tx'[t].units = tx[t].units /\ tx'[t].out = tx[t].out
            /\ \/ tx[t].kind \in {"create", "assign"}
               \/ FindCancelled(t) /\ tx[t].kind = "cancel"
               \/ FindReturned(t) /\ tx[t].kind = "return"
            /\ \A s \in Txn \ {t} : tx'[s] = tx[s]
            /\ UNCHANGED <<tables, requestLock>>
<1>1. tx[t] \in Work /\ tx \in [Txn -> Work]
  BY DEF TypeOK, TxOK
<1>2. \A s \in Txn \ {t} : tx'[s] = tx[s]
  BY OneAtWork
<1>3. CASE TakeModelLock(t)
  <2>1. PICK m \in Model :
          tx' = [tx EXCEPT ![t] = [@ EXCEPT !.wants = tx[t].wants \ {m},
                   !.step = IF tx[t].wants \ {m} = {} THEN "check" ELSE "lock"]]
    BY <1>3 DEF TakeModelLock
  <2>2. /\ tx'[t].kind = tx[t].kind /\ tx'[t].req = tx[t].req
        /\ tx'[t].units = tx[t].units /\ tx'[t].out = tx[t].out
    BY <1>1, <2>1 DEF Work
  <2> QED  BY <1>2, <1>3, <2>2 DEF TakeModelLock, TypeOK, TxOK
<1>4. CASE CheckAvailability(t)
  <2>1. /\ tx'[t].kind = tx[t].kind /\ tx'[t].req = tx[t].req
        /\ tx'[t].units = tx[t].units /\ tx'[t].out = tx[t].out
    BY <1>1, <1>4 DEF CheckAvailability, Work
  <2> QED  BY <1>2, <1>4, <2>1 DEF CheckAvailability, locks
<1>5. CASE CheckAssign(t)
  <2>1. Goto(t, "write") =>
          /\ tx'[t].kind = tx[t].kind /\ tx'[t].req = tx[t].req
          /\ tx'[t].units = tx[t].units /\ tx'[t].out = tx[t].out
    BY <1>1 DEF Goto, Work
  <2> QED  BY <1>2, <1>5, <2>1 DEF CheckAssign, locks
<1>6. CASE FindCancelled(t) \/ FindReturned(t)
  <2>1. PICK rows : FindRows(t, rows)
    BY <1>6 DEF FindCancelled, FindReturned
  <2>2. /\ tx'[t].kind = tx[t].kind /\ tx'[t].req = tx[t].req
        /\ tx'[t].units = tx[t].units /\ tx'[t].out = tx[t].out
    BY <1>1, <2>1 DEF FindRows, Work
  <2>3. \/ FindCancelled(t) /\ tx[t].kind = "cancel"
        \/ FindReturned(t) /\ tx[t].kind = "return"
    BY <1>6 DEF FindCancelled, FindReturned
  <2> QED  BY <1>2, <2>1, <2>2, <2>3 DEF FindRows, locks
<1> QED  BY <1>3, <1>4, <1>5, <1>6 DEF Continue

(* What the UPDATE of a cancellation or a return finds is what it changes.   *)
LEMMA FindFrame ==
  ASSUME TypeOK, NEW t \in Txn, NEW rows, FindRows(t, rows)
  PROVE  tx'[t].rows = rows /\ tx'[t].step = "write" /\ UNCHANGED tables
BY TxnTypes DEF FindRows, TypeOK, TxOK, Work

-----------------------------------------------------------------------------
(* No circular wait *)

\* A transaction waits for a lock above all those it has.
Ascends(t) ==
  tx[t].step = "lock" =>
    /\ tx[t].wants # {}
    /\ \A m \in Model, n \in tx[t].wants : modelLock[m] = t => m < n

AscendInv == \A t \in Txn : Ascends(t)

LEMMA AscendInit == Init => AscendInv
BY DEF Init, AscendInv, Ascends, Idle

LEMMA AscendKept ==
  ASSUME TypeOK, AscendInv, NEW t \in Txn, NEW w, w.step # "lock",
         tx' = [tx EXCEPT ![t] = w],
         \A m \in Model, s \in Txn : modelLock'[m] = s => modelLock[m] = s
  PROVE  AscendInv'
BY DEF TypeOK, TxOK, AscendInv, Ascends

LEMMA AscendBegin ==
  ASSUME TypeOK, AscendInv, NEW t \in Txn, NEW w, tx[t] = Idle, w.wants # {},
         tx' = [tx EXCEPT ![t] = w], UNCHANGED modelLock
  PROVE  AscendInv'
<1>1. ASSUME NEW m \in Model, modelLock[m] = t  PROVE FALSE
  <2>1. t # NoTxn /\ tx[t].kind = "idle"
    BY ConstantsAssumption DEF Idle
  <2>2. modelLock[m] # NoTxn => tx[modelLock[m]].kind \in {"create", "assign"}
    BY DEF TypeOK, LocksOK
  <2> QED  BY <1>1, <2>1, <2>2
<1>2. ASSUME NEW s \in Txn  PROVE Ascends(s)'
  BY <1>1 DEF TypeOK, TxOK, AscendInv, Ascends
<1> QED  BY <1>2 DEF AscendInv

LEMMA AscendTake ==
  ASSUME TypeOK, AscendInv, NEW t \in Txn, TakeModelLock(t)
  PROVE  AscendInv'
<1>0. Model \subseteq Nat
  BY ConstantsAssumption
<1>1. PICK m \in Model :
        /\ NextLock(t, m) /\ Free(m)
        /\ modelLock' = [modelLock EXCEPT ![m] = t]
        /\ tx' = [tx EXCEPT ![t] = [@ EXCEPT !.wants = tx[t].wants \ {m},
              !.step = IF tx[t].wants \ {m} = {} THEN "check" ELSE "lock"]]
  BY DEF TakeModelLock
<1>2. /\ tx[t] \in Work /\ tx[t].step = "lock"
      /\ tx'[t].wants = tx[t].wants \ {m}
      /\ tx'[t].step = IF tx[t].wants \ {m} = {} THEN "check" ELSE "lock"
      /\ \A s \in Txn \ {t} : tx'[s] = tx[s]
  <2>1. tx[t] \in Work /\ tx[t].step = "lock" /\ tx \in [Txn -> Work]
    BY TxnTypes DEF TakeModelLock, TypeOK, TxOK
  <2> QED  BY <1>1, <2>1 DEF Work
<1>3. tx[t].wants \subseteq Model
  BY <1>2 DEF Work
<1>4. \A n \in Model : modelLock'[n] = IF n = m THEN t ELSE modelLock[n]
  BY <1>1 DEF TypeOK, LocksOK
<1>5. \A n \in tx'[t].wants : m < n
  BY <1>0, <1>1, <1>2, <1>3 DEF NextLock
<1>6. Ascends(t)'
  BY <1>2, <1>3, <1>4, <1>5 DEF AscendInv, Ascends
<1>7. ASSUME NEW s \in Txn \ {t}  PROVE Ascends(s)'
  BY <1>2, <1>4 DEF AscendInv, Ascends
<1> QED  BY <1>6, <1>7 DEF AscendInv

LEMMA AscendStep ==
  ASSUME TypeOK, AscendInv, [Next]_vars
  PROVE  AscendInv'
<1>0. NoTxn \notin Txn
  BY ConstantsAssumption
<1>1. ASSUME NEW t \in Txn, End(t)  PROVE AscendInv'
  <2>1. \A m \in Model, s \in Txn : modelLock'[m] = s => modelLock[m] = s
    BY <1>0, <1>1, EndFrame
  <2>2. tx' = [tx EXCEPT ![t] = Idle] /\ Idle.step # "lock"
    BY <1>1 DEF End, Idle
  <2> QED  BY <2>1, <2>2, AscendKept
<1>2. ASSUME NEW t \in Txn, Begin(t)  PROVE AscendInv'
  <2>1. CASE \E r \in Request : BeginCreate(t, r)
    <3>1. PICK r \in Request :
            /\ Lines(r) # {} /\ tx[t] = Idle /\ UNCHANGED modelLock
            /\ tx' = [tx EXCEPT ![t] = [Idle EXCEPT !.kind = "create", !.step = "lock",
                                                   !.req = r, !.wants = Lines(r)]]
      BY <2>1 DEF BeginCreate, Starts, locks
    <3> DEFINE w == [Idle EXCEPT !.kind = "create", !.step = "lock", !.req = r,
                                 !.wants = Lines(r)]
    <3>2. w.wants # {} /\ tx' = [tx EXCEPT ![t] = w]
      BY <3>1 DEF Idle
    <3> HIDE DEF w
    <3> QED  BY <3>1, <3>2, AscendBegin
  <2>2. CASE \E r \in Request, p \in Leader \cup Admin : BeginDecide(t, r, p)
    BY <2>2, AscendKept DEF BeginDecide, Idle
  <2>3. CASE \E r \in Request : BeginCancel(t, r)
    BY <2>3, AscendKept DEF BeginCancel, Idle
  <2>4. CASE \E r \in Request : BeginAssign(t, r)
    <3>1. PICK r \in Request, units \in (SUBSET Unit) \ {{}} :
            tx' = [tx EXCEPT ![t] = [Idle EXCEPT !.kind = "assign", !.step = "lock",
                     !.req = r, !.units = units, !.wants = {ModelOf[u] : u \in units},
                     !.rows = OpenRows(r)]]
      BY <2>4 DEF BeginAssign
    <3>2. UNCHANGED modelLock /\ tx[t] = Idle
      BY <2>4 DEF BeginAssign, Starts, locks
    <3> DEFINE wanted == {ModelOf[u] : u \in units}
               w == [Idle EXCEPT !.kind = "assign", !.step = "lock", !.req = r,
                       !.units = units, !.wants = wanted, !.rows = OpenRows(r)]
    <3>3. wanted # {}
      OBVIOUS
    <3>4. w.wants # {}
      <4> HIDE DEF wanted
      <4> QED  BY <3>3 DEF Idle
    <3>5. tx' = [tx EXCEPT ![t] = w]
      BY <3>1
    <3> HIDE DEF w
    <3> QED  BY <3>2, <3>4, <3>5, AscendBegin
  <2>5. CASE \E r \in Request : BeginHandover(t, r)
    BY <2>5, AscendKept DEF BeginHandover, locks, Idle
  <2>6. CASE \E r \in Request : BeginReturn(t, r)
    BY <2>6, AscendKept DEF BeginReturn, locks, Idle
  <2>7. CASE \E u \in Unit : BeginInspect(t, u)
    BY <2>7, AscendKept DEF BeginInspect, locks, Idle
  <2> QED  BY <1>2, <2>1, <2>2, <2>3, <2>4, <2>5, <2>6, <2>7 DEF Begin
<1>3. ASSUME NEW t \in Txn, CheckAvailability(t)  PROVE AscendInv'
  BY <1>3, TxnTypes, AscendKept DEF CheckAvailability, locks, Work
<1>4. ASSUME NEW t \in Txn, CheckAssign(t)  PROVE AscendInv'
  <2>1. CASE Goto(t, "write") /\ UNCHANGED modelLock
    BY <2>1, TxnTypes, AscendKept DEF Goto, Work
  <2> QED  BY <1>1, <1>4, <2>1 DEF CheckAssign, locks
<1>5. CASE Tick \/ UNCHANGED vars
  BY <1>5 DEF Tick, vars, locks, AscendInv, Ascends
<1>6. ASSUME NEW t \in Txn, FindCancelled(t) \/ FindReturned(t)  PROVE AscendInv'
  <2>1. PICK rows : FindRows(t, rows)
    BY <1>6 DEF FindCancelled, FindReturned
  <2> QED  BY <2>1, TxnTypes, AscendKept DEF FindRows, locks, Work
<1> QED
  BY <1>1, <1>2, <1>3, <1>4, <1>5, <1>6, AscendTake, CommitEnds DEF Next, Continue

\* The models above a given one; a longer wait leaves fewer of them.
Above(m) == {n \in Model : m < n}

(* Among transactions that all wait, the one that waits for the highest lock *)
(* waits for nobody that waits.                                              *)
LEMMA HighestWaits ==
  ASSUME TypeOK, AscendInv, NEW S \in SUBSET Txn, S # {}, \A t \in S : tx[t].step = "lock"
  PROVE  \E t \in S : WaitsFor(t) \cap S = {}
<1> DEFINE W == {Above(m) : m \in {n \in Model : \E t \in S : NextLock(t, n)}}
           R == StrictSubsetOrdering(Model)
<1>0. Model \subseteq Nat /\ IsFiniteSet(Model)
  BY ConstantsAssumption, FiniteAssumption
<1>1. SUFFICES ASSUME \A t \in S : WaitsFor(t) \cap S # {}  PROVE FALSE
  OBVIOUS
<1>2. ASSUME NEW t \in S
      PROVE  \E m \in Model, s \in S : NextLock(t, m) /\ modelLock[m] = s
  <2>1. PICK s \in S : s \in WaitsFor(t)
    BY <1>1
  <2>2. tx[t].wants \subseteq Model
    BY TxnTypes DEF Work
  <2> QED  BY <2>1, <2>2 DEF WaitsFor
<1>3. W # {} /\ W \subseteq SUBSET Model
  <2>1. PICK t \in S, m \in Model : NextLock(t, m)
    BY <1>2
  <2>2. Above(m) \in W
    BY <2>1
  <2> QED  BY <2>2 DEF Above
<1>4. FiniteSubsetsOf(Model) = SUBSET Model
  BY <1>0, FS_FiniteSubsetsOfFinite
<1>5. IsWellFoundedOn(R, SUBSET Model)
  BY <1>4, FS_StrictSubsetOrderingWellFounded
<1>6. \E X \in W : \A Y \in W : ~ (<<Y, X>> \in R)
  <2> HIDE DEF W, R
  <2> QED  BY <1>3, <1>5, WFMin
<1>7. PICK m \in Model, t \in S :
        NextLock(t, m) /\ \A Y \in W : ~ (<<Y, Above(m)>> \in R)
  BY <1>6
<1>8. PICK k \in Model, s \in S : NextLock(t, k) /\ modelLock[k] = s
  BY <1>2
<1>9. k = m
  BY <1>0, <1>7, <1>8 DEF NextLock
<1>10. PICK n \in Model, z \in S : NextLock(s, n)
  BY <1>2
<1>11. m < n
  BY <1>8, <1>9, <1>10 DEF AscendInv, Ascends, NextLock
<1>12. Above(n) \in W /\ <<Above(n), Above(m)>> \in R
  <2>1. Above(n) \in W
    BY <1>10
  <2>2. Above(n) \subseteq Above(m) /\ n \in Above(m) /\ n \notin Above(n)
    <3>1. m \in Nat /\ n \in Nat /\ \A j \in Model : j \in Nat
      BY <1>0
    <3>2. \A j \in Model : n < j => m < j
      BY <3>1, <1>11
    <3>3. Above(n) \subseteq Above(m)
      BY <3>2 DEF Above
    <3>4. n \in Above(m)
      BY <1>11 DEF Above
    <3>5. ~ (n < n)
      BY <3>1
    <3> QED  BY <3>3, <3>4, <3>5 DEF Above
  <2>3. Above(n) \subseteq Model /\ Above(m) \subseteq Model
    BY DEF Above
  <2> QED  BY <2>1, <2>2, <2>3 DEF StrictSubsetOrdering
<1> QED  BY <1>7, <1>12

(* The transactions that wait for a model lock never wait in a circle: each  *)
(* waits for a lock above those it holds, so along a chain of waits the      *)
(* models get higher and higher, and there are finitely many.                *)
THEOREM NoCircularWaitCorrect == Spec => []NoCircularWait
<1>1. TypeOK /\ AscendInv => NoCircularWait
  <2> SUFFICES ASSUME TypeOK, AscendInv, NEW S \in (SUBSET Txn) \ {{}},
                      \A t \in S : tx[t].step = "lock"
               PROVE  \E t \in S : WaitsFor(t) \cap S = {}
    BY DEF NoCircularWait
  <2> QED  BY HighestWaits
<1> QED  BY <1>1, AscendInit, AscendStep, TypeCorrect, PTL DEF Spec

-----------------------------------------------------------------------------
(* Signatures *)

\* Two people in the roles of the plan have signed.
FullySigned(r) ==
  \E a, b \in Approved(r) : a.by \in Leader /\ b.by \in Admin \ {Owner[r]} /\ a.by # b.by

\* What a transaction knows of its request from its first read on, although
\* others work on the same request.
SignTx(t) ==
  LET r == tx[t].req IN
  /\ tx[t].kind = "create" =>
       status[r] = "ABSENT" /\ \A s \in Txn \ {t} : tx[s].req # r
  /\ tx[t].kind = "decide" =>
       /\ status[r] = "PENDING_APPROVAL" /\ requestLock[r] = t
       /\ tx[t].signed = Cardinality(Approved(r)) /\ tx[t].signed < Len(Steps(r))
       /\ CanSign(r, tx[t].signed, tx[t].by) /\ ~ HasDecided(r, tx[t].by)
  /\ tx[t].kind = "cancel" => status[r] # "ABSENT" /\ requestLock[r] = t
  /\ tx[t].kind \in {"assign", "handover", "return"} =>
       /\ status[r] \notin {"ABSENT", "PENDING_APPROVAL"}
       /\ Purpose[r] = "PERSONAL" => FullySigned(r)
  /\ tx[t].kind \in {"idle", "inspect"} => r = NoRequest

SignRow(r) ==
  /\ status[r] = "ABSENT" => approvals[r] = {}
  /\ status[r] = "PENDING_APPROVAL" =>
       /\ Cardinality(Approved(r)) < Len(Steps(r))
       /\ Purpose[r] = "PERSONAL" => \A a \in Approved(r) : a.by \in Leader
  /\ Purpose[r] = "PERSONAL"
       /\ status[r] \notin {"ABSENT", "PENDING_APPROVAL", "REJECTED", "CANCELLED"}
       => FullySigned(r)

SignInv ==
  /\ \A t \in Txn : SignTx(t)
  /\ \A r \in Request : SignRow(r)

LEMMA SignInit == Init => SignInv
BY DEF Init, SignInv, SignTx, SignRow, Idle

(* What a transaction knows stays true while its row, its lock and the       *)
(* signatures stay.                                                          *)
LEMMA SignTxKept ==
  ASSUME NEW s \in Txn, NEW q, tx[s].req = q, SignTx(s), tx'[s] = tx[s],
         status'[q] = status[q], approvals'[q] = approvals[q],
         requestLock[q] = s => requestLock'[q] = s,
         tx[s].kind = "create" => \A z \in Txn \ {s} : tx'[z].req # q
  PROVE  SignTx(s)'
<1>1. FullySigned(q)' = FullySigned(q)
  BY DEF Approved, FullySigned
<1>2. CASE tx[s].kind \in {"create", "cancel", "idle", "inspect"}
  BY <1>2 DEF SignTx
<1>3. CASE tx[s].kind = "decide"
  <2> DEFINE by == tx[s].by
             signed == tx[s].signed
  <2>1. /\ status[q] = "PENDING_APPROVAL" /\ requestLock[q] = s
        /\ signed = Cardinality(Approved(q)) /\ signed < Len(Steps(q))
        /\ CanSign(q, signed, by) /\ ~ HasDecided(q, by)
    BY <1>3 DEF SignTx
  <2>2. {a \in approvals'[q] : a.decision = "APPROVED"} = Approved(q)
    BY DEF Approved
  <2>3. signed = Cardinality({a \in approvals'[q] : a.decision = "APPROVED"})
    BY <2>1, <2>2
  <2>4. tx'[s].req = q /\ tx'[s].signed = signed /\ tx'[s].by = by /\ tx'[s].kind = "decide"
    BY <1>3
  <2>5. status'[q] = "PENDING_APPROVAL" /\ requestLock'[q] = s /\ ~ \E a \in approvals'[q] : a.by = by
    BY <2>1 DEF HasDecided
  <2> HIDE DEF by, signed
  <2> QED  BY <2>1, <2>3, <2>4, <2>5 DEF SignTx, Approved, HasDecided
<1>4. CASE tx[s].kind \in {"assign", "handover", "return"}
  BY <1>1, <1>4 DEF SignTx, FullySigned, Approved
<1>5. CASE tx[s].kind \notin {"create", "cancel", "idle", "inspect", "decide",
                              "assign", "handover", "return"}
  BY <1>5 DEF SignTx
<1> QED  BY <1>2, <1>3, <1>4, <1>5

(* The first step of a handler, and those that only take locks and check. *)
LEMMA SignQuiet ==
  ASSUME TypeOK, SignInv, NEW t \in Txn, UNCHANGED <<status, approvals>>,
         \A s \in Txn \ {t} : tx'[s] = tx[s],
         tx'[t].kind = "create" => \A s \in Txn \ {t} : tx[s].req # tx'[t].req,
         \A r \in Request, s \in Txn \ {t} : requestLock[r] = s => requestLock'[r] = s,
         \A s \in Txn \ {t} : tx[s].kind = "create" => tx'[t].req # tx[s].req,
         SignTx(t)'
  PROVE  SignInv'
<1>1. ASSUME NEW s \in Txn \ {t}  PROVE SignTx(s)'
  <2>1. SignTx(s) /\ tx'[s] = tx[s]
    BY DEF SignInv
  <2>2. tx[s].kind \in {"decide", "cancel"} => tx[s].req \in Request
    BY TxnTypes DEF Handlers
  <2> QED  BY <2>1, <2>2 DEF SignTx, FullySigned, Approved, HasDecided
<1>2. ASSUME NEW r \in Request  PROVE SignRow(r)'
  BY DEF SignInv, SignRow, FullySigned, Approved
<1> QED  BY <1>1, <1>2 DEF SignInv

(* The end of a transaction that wrote nothing of the request but what the   *)
(* other transactions on it expect.                                          *)
LEMMA SignEnd ==
  ASSUME TypeOK, SignInv, NEW t \in Txn, End(t), NEW r \in Request,
         \A q \in Request \ {r} : status'[q] = status[q] /\ approvals'[q] = approvals[q],
         SignRow(r)',
         \A s \in Txn \ {t} : tx[s].req = r => SignTx(s)'
  PROVE  SignInv'
<1>0. NoRequest \notin Request
  BY ConstantsAssumption
<1>1. /\ tx'[t] = Idle
      /\ \A s \in Txn \ {t} : tx'[s] = tx[s]
      /\ \A q \in Request : requestLock'[q] = IF requestLock[q] = t THEN NoTxn ELSE requestLock[q]
  BY EndFrame
<1>2. SignTx(t)'
  BY <1>1 DEF SignTx, Idle
<1>3. ASSUME NEW s \in Txn \ {t}, tx[s].req # r  PROVE SignTx(s)'
  <2>1. SignTx(s) /\ tx'[s] = tx[s]
    BY <1>1 DEF SignInv
  <2>2. tx[s].kind \in Handlers \ {"inspect"} => tx[s].req \in Request \ {r}
    BY <1>3, TxnTypes
  <2>3. tx[s].kind \in {"create", "decide", "cancel", "assign", "handover", "return"} =>
          /\ status'[tx[s].req] = status[tx[s].req]
          /\ approvals'[tx[s].req] = approvals[tx[s].req]
          /\ requestLock[tx[s].req] = s => requestLock'[tx[s].req] = s
    BY <1>1, <2>2 DEF Handlers
  <2>4. tx[s].kind = "create" => \A z \in Txn \ {s} : tx[z].req # tx[s].req
    BY <2>1 DEF SignTx
  <2>5. \A z \in Txn \ {s} : tx[s].kind = "create" => tx'[z].req # tx[s].req
    <3>1. tx'[t].req \notin Request
      BY <1>0, <1>1 DEF Idle
    <3> QED  BY <1>1, <2>2, <2>4, <3>1 DEF Handlers
  <2>6. CASE tx[s].kind \in {"idle", "inspect"}
    BY <2>1, <2>6 DEF SignTx
  <2>7. CASE tx[s].kind \notin {"idle", "inspect"}
    <3>1. tx[s].kind \in {"create", "decide", "cancel", "assign", "handover", "return"}
      BY <2>7, TxnTypes DEF Handlers
    <3> QED  BY <2>1, <2>3, <2>5, <3>1, SignTxKept
  <2> QED  BY <2>6, <2>7
<1>4. ASSUME NEW q \in Request \ {r}  PROVE SignRow(q)'
  <2>1. SignRow(q) /\ status'[q] = status[q] /\ approvals'[q] = approvals[q]
    BY DEF SignInv
  <2> QED  BY <2>1 DEF SignRow, FullySigned, Approved
<1> QED  BY <1>2, <1>3, <1>4 DEF SignInv

(* The end of a transaction that wrote neither status nor signatures. *)
LEMMA SignDropped ==
  ASSUME TypeOK, SignInv, NEW t \in Txn, End(t), UNCHANGED <<status, approvals>>
  PROVE  SignInv'
<1>0. NoRequest \notin Request /\ NoTxn \notin Txn
  BY ConstantsAssumption
<1>1. /\ tx'[t] = Idle
      /\ \A s \in Txn \ {t} : tx'[s] = tx[s]
      /\ \A q \in Request : requestLock'[q] = IF requestLock[q] = t THEN NoTxn ELSE requestLock[q]
  BY EndFrame
<1>2. SignTx(t)'
  BY <1>1 DEF SignTx, Idle
<1>3. \A s \in Txn \ {t} : tx[s].kind = "create" => tx'[t].req # tx[s].req
  BY <1>0, <1>1, TxnTypes DEF Idle, Handlers
<1>4. tx'[t].kind # "create"
  BY <1>1 DEF Idle
<1> QED  BY <1>1, <1>2, <1>3, <1>4, SignQuiet

(* Creating a request, and deciding on it, is done by one transaction alone. *)
LEMMA SignAlone ==
  ASSUME TypeOK, SignInv, NEW t \in Txn, tx[t].kind \in {"create", "decide"}
  PROVE  \A s \in Txn \ {t} : tx[s].req # tx[t].req
<1>0. NoRequest \notin Request
  BY ConstantsAssumption
<1>1. CASE tx[t].kind = "create"
  BY <1>1 DEF SignInv, SignTx
<1>2. ASSUME tx[t].kind = "decide", NEW s \in Txn \ {t}, tx[s].req = tx[t].req  PROVE FALSE
  <2>1. tx[t].req \in Request
    BY <1>2, TxnTypes DEF Handlers
  <2>2. status[tx[t].req] = "PENDING_APPROVAL" /\ requestLock[tx[t].req] = t
    BY <1>2 DEF SignInv, SignTx
  <2>3. tx[s].kind \in {"create", "decide", "cancel", "assign", "handover", "return"}
    BY <1>0, <1>2, <2>1, TxnTypes DEF SignInv, SignTx, Handlers
  <2>4. SignTx(s)
    BY DEF SignInv
  <2> QED  BY <1>2, <2>2, <2>3, <2>4 DEF SignTx
<1> QED  BY <1>1, <1>2

LEMMA SignCreate ==
  ASSUME TypeOK, SignInv, NEW t \in Txn, WriteCreate(t)
  PROVE  SignInv'
<1>1. PICK r \in Request : r = tx[t].req
  BY TxnTypes DEF WriteCreate, Handlers
<1>2. status[r] = "ABSENT" /\ status'[r] = "PENDING_APPROVAL" /\ approvals' = approvals
  BY <1>1 DEF WriteCreate, SignInv, SignTx, TypeOK, TablesOK
<1>3. approvals[r] = {} /\ Approved(r)' = {}
  BY <1>2 DEF SignInv, SignRow, Approved
<1>4. Len(Steps(r)) \in {1, 2} /\ Steps(r)' = Steps(r)
  BY DEF Steps
<1>5. Cardinality({}) = 0
  BY FS_EmptySet
<1>6. SignRow(r)'
  BY <1>2, <1>3, <1>4, <1>5 DEF SignRow
<1>7. \A q \in Request \ {r} : status'[q] = status[q] /\ approvals'[q] = approvals[q]
  BY <1>1, <1>2 DEF WriteCreate, TypeOK, TablesOK
<1>8. \A s \in Txn \ {t} : tx[s].req # r
  BY <1>1, SignAlone DEF WriteCreate
<1> QED  BY <1>6, <1>7, <1>8, SignEnd DEF WriteCreate

LEMMA SignReject ==
  ASSUME TypeOK, SignInv, NEW t \in Txn, WriteReject(t)
  PROVE  SignInv'
<1>1. PICK r \in Request : r = tx[t].req
  BY TxnTypes DEF WriteReject, Handlers
<1>2. status'[r] = "REJECTED"
  BY <1>1 DEF WriteReject, TypeOK, TablesOK
<1>3. \A q \in Request \ {r} : status'[q] = status[q] /\ approvals'[q] = approvals[q]
  BY <1>1 DEF WriteReject, Decided, TypeOK, TablesOK
<1>4. \A s \in Txn \ {t} : tx[s].req # r
  BY <1>1, SignAlone DEF WriteReject
<1>5. SignRow(r)'
  BY <1>2 DEF SignRow
<1> QED  BY <1>3, <1>4, <1>5, SignEnd DEF WriteReject

(* One signature more. *)
LEMMA SignApprove ==
  ASSUME TypeOK, SignInv, NEW t \in Txn, WriteApprove(t)
  PROVE  SignInv'
<1>1. PICK r \in Request : r = tx[t].req
  BY TxnTypes DEF WriteApprove, Handlers
<1> DEFINE by == tx[t].by
           signed == tx[t].signed
           a == [by |-> by, level |-> signed + 1, decision |-> "APPROVED"]
<1>2. /\ status[r] = "PENDING_APPROVAL" /\ signed = Cardinality(Approved(r))
      /\ signed < Len(Steps(r)) /\ CanSign(r, signed, by) /\ ~ HasDecided(r, by)
  BY <1>1 DEF WriteApprove, SignInv, SignTx
<1>3. signed \in {0, 1} /\ signed \in Nat
  BY <1>2, SignedTypes
<1>4. approvals' = [approvals EXCEPT ![r] = approvals[r] \cup {a}]
  BY <1>1 DEF WriteApprove, Decided
<1>5. /\ approvals'[r] = approvals[r] \cup {a}
      /\ \A q \in Request \ {r} : approvals'[q] = approvals[q]
  BY <1>4 DEF TypeOK, TablesOK
<1>6. \A q \in Request \ {r} : status'[q] = status[q]
  BY <1>1 DEF WriteApprove, TypeOK, TablesOK
<1>7. \A s \in Txn \ {t} : tx[s].req # r
  BY <1>1, SignAlone DEF WriteApprove
<1>8. a.by = by /\ a.decision = "APPROVED"
  OBVIOUS
<1>9. Approved(r)' = Approved(r) \cup {a}
  <2> HIDE DEF a
  <2> QED  BY <1>5, <1>8 DEF Approved
<1>10. SignRow(r)
  BY DEF SignInv
<1>11. CASE signed + 1 < Len(Steps(r))
  <2>1. status'[r] = "PENDING_APPROVAL"
    BY <1>1, <1>2, <1>3, <1>11 DEF WriteApprove, Steps
  <2>2. IsFiniteSet(Approved(r)) /\ Cardinality(Approved(r)) \in Nat
    BY SignedTypes, FS_Subset DEF TypeOK, TablesOK, Approved
  <2>3. Cardinality(Approved(r) \cup {a}) <= signed + 1
    <3> HIDE DEF a
    <3>1. \/ Cardinality(Approved(r) \cup {a}) = Cardinality(Approved(r))
          \/ Cardinality(Approved(r) \cup {a}) = Cardinality(Approved(r)) + 1
      BY <2>2, FS_AddElement
    <3>2. signed = Cardinality(Approved(r))
      BY <1>2
    <3> HIDE DEF signed
    <3> QED  BY <1>3, <3>1, <3>2
  <2>4. Cardinality(Approved(r) \cup {a}) \in Nat
    <3> HIDE DEF a
    <3> QED  BY <2>2, FS_AddElement, FS_CardinalityType
  <2>5. Len(Steps(r)) \in {1, 2} /\ Steps(r)' = Steps(r)
    BY DEF Steps
  <2>6. Cardinality(Approved(r)') < Len(Steps(r))
    <3> HIDE DEF a, signed
    <3> QED  BY <1>3, <1>9, <1>11, <2>3, <2>4, <2>5
  <2>7. Purpose[r] = "PERSONAL" => \A b \in Approved(r) \cup {a} : b.by \in Leader
    <3>1. Purpose[r] = "PERSONAL" => by \in Leader
      <4>1. Purpose[r] = "PERSONAL" => signed = 0 /\ Steps(r)[signed + 1] = "LEADER"
        BY <1>3, <1>11 DEF Steps
      <4> QED  BY <1>2, <4>1 DEF CanSign
    <3> HIDE DEF a, by
    <3> QED  BY <1>2, <1>8, <1>10, <3>1 DEF SignRow
  <2>8. SignRow(r)'
    <3> HIDE DEF a
    <3> QED  BY <1>9, <2>1, <2>5, <2>6, <2>7 DEF SignRow
  <2> QED  BY <1>5, <1>6, <1>7, <2>8, SignEnd DEF WriteApprove
<1>12. CASE ~ (signed + 1 < Len(Steps(r)))
  <2>1. status'[r] = "APPROVED"
    BY <1>1, <1>3, <1>12 DEF WriteApprove, Steps, TypeOK, TablesOK
  <2>2. Purpose[r] = "PERSONAL" => FullySigned(r)'
    <3> SUFFICES ASSUME Purpose[r] = "PERSONAL"  PROVE FullySigned(r)'
      OBVIOUS
    <3>1. signed = 1 /\ Steps(r)[signed + 1] = "ADMIN"
      BY <1>2, <1>3, <1>12 DEF Steps
    <3>2. by \in Admin \ {Owner[r]}
      BY <1>2, <3>1 DEF CanSign
    <3>3. PICK b \in Approved(r) : TRUE
      <4>1. Cardinality(Approved(r)) # Cardinality({})
        BY <1>2, <3>1, FS_EmptySet
      <4> QED  BY <4>1
    <3>4. b.by \in Leader
      BY <1>2, <1>10, <3>3 DEF SignRow
    <3>5. b.by # by
      BY <1>2, <3>3 DEF HasDecided, Approved
    <3> HIDE DEF a, by
    <3>6. a \in Approved(r)' /\ b \in Approved(r)'
      BY <1>9, <3>3
    <3> QED  BY <1>8, <3>2, <3>4, <3>5, <3>6 DEF FullySigned
  <2>3. SignRow(r)'
    BY <2>1, <2>2 DEF SignRow
  <2> QED  BY <1>5, <1>6, <1>7, <2>3, SignEnd DEF WriteApprove
<1> QED  BY <1>11, <1>12

(* A transaction after the approval meets others that cancel or came after   *)
(* the approval too; whatever status it writes, they expect no more.         *)
LEMMA SignLater ==
  ASSUME TypeOK, SignInv, NEW t \in Txn, End(t), NEW r \in Request, r = tx[t].req,
         tx[t].kind \in {"cancel", "assign", "handover", "return"},
         UNCHANGED approvals,
         \A q \in Request \ {r} : status'[q] = status[q],
         status'[r] \notin {"ABSENT", "PENDING_APPROVAL"},
         tx[t].kind = "cancel" => status'[r] = "CANCELLED"
  PROVE  SignInv'
<1>0. NoRequest \notin Request
  BY ConstantsAssumption
<1>1. /\ \A s \in Txn \ {t} : tx'[s] = tx[s]
      /\ \A q \in Request : requestLock'[q] = IF requestLock[q] = t THEN NoTxn ELSE requestLock[q]
  BY EndFrame
<1>2. SignTx(t)
  BY DEF SignInv
<1>3. ASSUME NEW s \in Txn \ {t}, tx[s].req = r  PROVE SignTx(s)'
  <2>1. SignTx(s) /\ tx'[s] = tx[s]
    BY <1>1 DEF SignInv
  <2>2. tx[s].kind \in {"create", "decide", "cancel", "assign", "handover", "return"}
    BY <1>0, <1>3, <2>1, TxnTypes DEF SignTx, Handlers
  <2>3. tx[s].kind \notin {"create", "decide"}
    BY <1>3, SignAlone
  <2>4. CASE tx[s].kind = "cancel"
    BY <1>1, <1>3, <2>1, <2>4 DEF SignTx
  <2>5. CASE tx[s].kind \in {"assign", "handover", "return"}
    <3>1. Purpose[r] = "PERSONAL" => FullySigned(r)'
      BY <1>3, <2>1, <2>5 DEF SignTx, FullySigned, Approved
    <3> QED  BY <1>3, <2>1, <2>5, <3>1 DEF SignTx, FullySigned, Approved
  <2> QED  BY <2>2, <2>3, <2>4, <2>5
<1>4. SignRow(r)'
  <2>1. tx[t].kind # "cancel" /\ Purpose[r] = "PERSONAL" => FullySigned(r)'
    BY <1>2 DEF SignTx, FullySigned, Approved
  <2> QED  BY <2>1 DEF SignRow
<1> QED  BY <1>3, <1>4, SignEnd

LEMMA SignCommit ==
  ASSUME TypeOK, SignInv, NEW t \in Txn, Commit(t)
  PROVE  SignInv'
<1> DEFINE r == tx[t].req
<1>1. CASE WriteCancel(t)
  <2>1. r \in Request /\ tx[t].kind = "cancel"
    BY <1>1, TxnTypes DEF WriteCancel, Handlers
  <2>2. status'[r] = "CANCELLED" /\ \A q \in Request \ {r} : status'[q] = status[q]
    BY <1>1, <2>1 DEF WriteCancel, TypeOK, TablesOK
  <2> QED  BY <1>1, <2>1, <2>2, SignLater DEF WriteCancel
<1>2. CASE WriteAssign(t)
  <2>1. r \in Request /\ tx[t].kind = "assign"
    BY <1>2, TxnTypes DEF WriteAssign, Handlers
  <2>2. status'[r] = "PREPARING" /\ \A q \in Request \ {r} : status'[q] = status[q]
    BY <1>2, <2>1 DEF WriteAssign, TypeOK, TablesOK
  <2> QED  BY <1>2, <2>1, <2>2, SignLater DEF WriteAssign
<1>3. CASE WriteHandover(t)
  <2>1. r \in Request /\ tx[t].kind = "handover"
    BY <1>3, TxnTypes DEF WriteHandover, Handlers
  <2>2. status'[r] = "ON_LOAN" /\ \A q \in Request \ {r} : status'[q] = status[q]
    BY <1>3, <2>1 DEF WriteHandover, TypeOK, TablesOK
  <2> QED  BY <1>3, <2>1, <2>2, SignLater DEF WriteHandover
<1>4. CASE WriteReturn(t)
  <2>1. r \in Request /\ tx[t].kind = "return"
    BY <1>4, TxnTypes DEF WriteReturn, Handlers
  <2>2. /\ status'[r] \in {"CLOSED", "PARTIALLY_RETURNED"}
        /\ \A q \in Request \ {r} : status'[q] = status[q]
    BY <1>4, <2>1 DEF WriteReturn, TypeOK, TablesOK
  <2> QED  BY <1>4, <2>1, <2>2, SignLater DEF WriteReturn
<1>5. CASE WriteInspect(t)
  BY <1>5, SignDropped DEF WriteInspect
<1> QED
  BY <1>1, <1>2, <1>3, <1>4, <1>5, SignCreate, SignReject, SignApprove DEF Commit

(* A transaction that begins on a request that exists already. *)
LEMMA SignJoin ==
  ASSUME TypeOK, SignInv, NEW t \in Txn, NEW r \in Request,
         tx'[t].req = r, tx'[t].kind # "create", status[r] # "ABSENT",
         \A s \in Txn \ {t} : tx'[s] = tx[s],
         UNCHANGED <<status, approvals>>,
         \A q \in Request, s \in Txn \ {t} : requestLock[q] = s => requestLock'[q] = s,
         SignTx(t)'
  PROVE  SignInv'
<1>1. \A s \in Txn \ {t} : tx[s].kind = "create" => tx[s].req # r
  BY DEF SignInv, SignTx
<1> QED  BY <1>1, SignQuiet

(* A transaction that takes a step and keeps what it knows. *)
LEMMA SignOn ==
  ASSUME TypeOK, SignInv, NEW t \in Txn, tx[t].kind # "decide",
         tx'[t].req = tx[t].req, tx'[t].kind = tx[t].kind,
         \A s \in Txn \ {t} : tx'[s] = tx[s],
         UNCHANGED <<status, approvals, requestLock>>
  PROVE  SignInv'
<1>1. SignTx(t)
  BY DEF SignInv
<1>2. SignTx(t)'
  BY <1>1 DEF SignTx, FullySigned, Approved
<1>3. tx'[t].kind = "create" => \A s \in Txn \ {t} : tx[s].req # tx'[t].req
  BY <1>1 DEF SignTx
<1>4. \A s \in Txn \ {t} : tx[s].kind = "create" => tx'[t].req # tx[s].req
  BY DEF SignInv, SignTx
<1> QED  BY <1>2, <1>3, <1>4, SignQuiet

LEMMA SignBegin ==
  ASSUME TypeOK, SignInv, NEW t \in Txn, Begin(t)
  PROVE  SignInv'
<1>0. NoTxn \notin Txn /\ NoRequest \notin Request
  BY ConstantsAssumption
<1>1. \A s \in Txn \ {t} : tx'[s] = tx[s]
  BY OneAtWork
<1>2. ASSUME NEW r \in Request, BeginCreate(t, r)  PROVE SignInv'
  <2>1. /\ tx'[t].kind = "create" /\ tx'[t].req = r
        /\ \A s \in Txn \ {t} : tx'[s] = tx[s] /\ tx[s].req # r
        /\ UNCHANGED <<status, approvals, requestLock>> /\ status[r] = "ABSENT"
    BY <1>2 DEF BeginCreate, TypeOK, TxOK, Idle, tables, locks
  <2>2. SignTx(t)'
    BY <2>1 DEF SignTx
  <2> QED  BY <2>1, <2>2, SignQuiet
<1>3. ASSUME NEW r \in Request, NEW p \in Leader \cup Admin, BeginDecide(t, r, p)
      PROVE  SignInv'
  <2> DEFINE w == [Idle EXCEPT !.kind = "decide", !.step = "write", !.req = r, !.by = p,
                               !.signed = Cardinality(Approved(r))]
  <2>1. /\ w.kind = "decide" /\ w.req = r /\ w.by = p
        /\ w.signed = Cardinality(Approved(r))
    BY DEF Idle
  <2>2. tx' = [tx EXCEPT ![t] = w] /\ UNCHANGED <<status, approvals>>
    BY <1>3 DEF BeginDecide, tables
  <2> HIDE DEF w
  <2>3. /\ requestLock[r] = NoTxn /\ requestLock'[r] = t
        /\ \A q \in Request \ {r} : requestLock'[q] = requestLock[q]
    BY <1>3 DEF BeginDecide, RequestFree, TypeOK, LocksOK
  <2>4. \A q \in Request, s \in Txn \ {t} : requestLock[q] = s => requestLock'[q] = s
    BY <1>0, <2>3
  <2>5. /\ status[r] = "PENDING_APPROVAL" /\ ~ HasDecided(r, p)
        /\ w.signed < Len(Steps(r)) /\ CanSign(r, w.signed, p)
    BY <1>3, <2>1 DEF BeginDecide
  <2>6. tx'[t] = w
    BY <2>2 DEF TypeOK, TxOK
  <2>7. Approved(r)' = Approved(r)
    BY <2>2 DEF Approved
  <2>8. SignTx(t)'
    <3>1. /\ tx'[t].kind = "decide" /\ tx'[t].req = r /\ tx'[t].by = p
          /\ tx'[t].signed = w.signed
      BY <2>1, <2>6
    <3>2. w.signed = Cardinality({a \in approvals'[r] : a.decision = "APPROVED"})
      BY <2>1, <2>2 DEF Approved
    <3> QED  BY <2>2, <2>3, <2>5, <3>1, <3>2
             DEF SignTx, Approved, HasDecided, CanSign, Steps
  <2> QED  BY <1>1, <2>1, <2>2, <2>4, <2>5, <2>6, <2>8, SignJoin
<1>4. ASSUME NEW r \in Request, BeginCancel(t, r)  PROVE SignInv'
  <2> DEFINE w == [Idle EXCEPT !.kind = "cancel", !.step = "release", !.req = r]
  <2>1. w.kind = "cancel" /\ w.req = r
    BY DEF Idle
  <2>2. tx' = [tx EXCEPT ![t] = w] /\ UNCHANGED <<status, approvals>>
    BY <1>4 DEF BeginCancel, tables
  <2> HIDE DEF w
  <2>3. /\ requestLock[r] = NoTxn /\ requestLock'[r] = t
        /\ \A q \in Request \ {r} : requestLock'[q] = requestLock[q]
    BY <1>4 DEF BeginCancel, RequestFree, TypeOK, LocksOK
  <2>4. \A q \in Request, s \in Txn \ {t} : requestLock[q] = s => requestLock'[q] = s
    BY <1>0, <2>3
  <2>5. status[r] # "ABSENT"
    BY <1>4 DEF BeginCancel, Cancellable
  <2>6. tx'[t] = w
    BY <2>2 DEF TypeOK, TxOK
  <2>7. SignTx(t)'
    BY <2>1, <2>2, <2>3, <2>5, <2>6 DEF SignTx
  <2> QED  BY <1>1, <2>1, <2>2, <2>4, <2>5, <2>6, <2>7, SignJoin
<1>5. ASSUME NEW r \in Request, tx'[t].req = r,
             tx'[t].kind \in {"assign", "handover", "return"},
             status[r] \in {"APPROVED", "PREPARING", "ON_LOAN", "PARTIALLY_RETURNED"},
             UNCHANGED <<status, approvals, requestLock>>
      PROVE  SignInv'
  <2>1. Purpose[r] = "PERSONAL" => FullySigned(r)
    BY <1>5 DEF SignInv, SignRow
  <2>2. SignTx(t)'
    BY <1>5, <2>1 DEF SignTx, FullySigned, Approved
  <2> QED  BY <1>5, <1>1, <2>2, SignJoin
<1>6. ASSUME NEW r \in Request, BeginAssign(t, r)  PROVE SignInv'
  <2>1. tx'[t].req = r /\ tx'[t].kind = "assign"
    BY <1>6 DEF BeginAssign, Idle, TypeOK, TxOK
  <2> QED  BY <1>5, <1>6, <2>1 DEF BeginAssign, tables, locks
<1>7. ASSUME NEW r \in Request, BeginHandover(t, r)  PROVE SignInv'
  <2>1. tx'[t].req = r /\ tx'[t].kind = "handover"
    BY <1>7 DEF BeginHandover, Idle, TypeOK, TxOK
  <2> QED  BY <1>5, <1>7, <2>1 DEF BeginHandover, tables, locks
<1>8. ASSUME NEW r \in Request, BeginReturn(t, r)  PROVE SignInv'
  <2>1. tx'[t].req = r /\ tx'[t].kind = "return"
    BY <1>8 DEF BeginReturn, Idle, TypeOK, TxOK
  <2> QED  BY <1>5, <1>8, <2>1 DEF BeginReturn, tables, locks
<1>9. ASSUME NEW u \in Unit, BeginInspect(t, u)  PROVE SignInv'
  <2>1. /\ tx'[t].kind = "inspect" /\ tx'[t].req = NoRequest
        /\ \A s \in Txn \ {t} : tx'[s] = tx[s]
        /\ UNCHANGED <<status, approvals, requestLock>>
    BY <1>9 DEF BeginInspect, TypeOK, TxOK, Idle, tables, locks
  <2>2. SignTx(t)'
    BY <2>1 DEF SignTx
  <2>3. \A s \in Txn \ {t} : tx[s].kind = "create" => tx'[t].req # tx[s].req
    BY <1>0, <2>1, TxnTypes DEF Handlers
  <2> QED  BY <2>1, <2>2, <2>3, SignQuiet
<1> QED  BY <1>2, <1>3, <1>4, <1>6, <1>7, <1>8, <1>9 DEF Begin

LEMMA SignStep ==
  ASSUME TypeOK, SignInv, [Next]_vars
  PROVE  SignInv'
<1>1. ASSUME NEW t \in Txn, Continue(t)  PROVE SignInv'
  <2>1. CASE End(t) /\ UNCHANGED tables
    BY <2>1, SignDropped DEF tables
  <2> QED  BY <1>1, <2>1, ContinueFrame, SignOn DEF tables
<1>2. ASSUME NEW t \in Txn, Rollback(t)  PROVE SignInv'
  BY <1>2, SignDropped DEF Rollback, tables
<1>3. ASSUME Tick \/ UNCHANGED vars  PROVE SignInv'
  <2>1. UNCHANGED <<status, approvals, requestLock, tx>>
    BY <1>3 DEF Tick, vars, tables, locks
  <2>2. ASSUME NEW s \in Txn  PROVE SignTx(s)'
    <3>1. tx[s].kind = "create" => \A z \in Txn \ {s} : tx[z].req # tx[s].req
      BY DEF SignInv, SignTx
    <3> QED  BY <2>1, <3>1, SignTxKept DEF SignInv
  <2>3. ASSUME NEW r \in Request  PROVE SignRow(r)'
    BY <2>1 DEF SignInv, SignRow, FullySigned, Approved
  <2> QED  BY <2>2, <2>3 DEF SignInv
<1> QED  BY <1>1, <1>2, <1>3, SignBegin, SignCommit DEF Next

LEMMA SignCorrect == Spec => []SignInv
BY SignInit, SignStep, TypeCorrect, PTL DEF Spec

(* A personal request that is approved, or further on, was signed by a       *)
(* leader and by an administrator who is another person than the leader and  *)
(* than the borrower: the lock of decide() keeps the count of signatures and *)
(* the list of those who signed as they were read, and every later handler,  *)
(* even one that writes over a cancellation, began after the last signature. *)
THEOREM SignedCorrect == Spec => []SignedAsPlanned
<1>1. SignInv => SignedAsPlanned
  BY DEF SignInv, SignRow, SignedAsPlanned, FullySigned
<1> QED  BY <1>1, SignCorrect, PTL

(* A request that waits for a signature has room for it.                     *)
THEOREM SignatureCorrect == Spec => []SignatureMissing
<1>1. SignInv => SignatureMissing
  BY DEF SignInv, SignRow, SignatureMissing
<1> QED  BY <1>1, SignCorrect, PTL

-----------------------------------------------------------------------------
(* Who works on a request *)

\* One step of transaction t.
Acts(t) == Begin(t) \/ Continue(t) \/ Commit(t) \/ Rollback(t)

\* Handlers that are kept apart are never at work on one request together.
ApartInv ==
  \A s, t \in Txn :
    s # t /\ tx[s].req = tx[t].req /\ tx[t].req \in Request =>
      {tx[s].kind, tx[t].kind} \notin Apart

(* A transaction that begins finds nobody it is kept apart from. *)
LEMMA BeginsApart ==
  ASSUME TypeOK, NEW t \in Txn, Begin(t), NEW s \in Txn \ {t},
         tx[s].req = tx'[t].req, tx'[t].req \in Request
  PROVE  {tx[s].kind, tx'[t].kind} \notin Apart
<1>0. NoRequest \notin Request
  BY ConstantsAssumption
<1>1. ASSUME NEW r \in Request, NEW kind, Alone(r, kind), tx'[t].req = r, tx'[t].kind = kind
      PROVE  {tx[s].kind, tx'[t].kind} \notin Apart
  <2>1. {kind, tx[s].kind} = {tx[s].kind, tx'[t].kind}
    BY <1>1
  <2> QED  BY <1>1, <2>1 DEF Alone
<1>2. ASSUME NEW r \in Request, BeginCreate(t, r)  PROVE tx[s].req # tx'[t].req
  BY <1>2 DEF BeginCreate, TypeOK, TxOK, Idle
<1>3. ASSUME NEW r \in Request, NEW p \in Leader \cup Admin, BeginDecide(t, r, p)
      PROVE  Alone(r, "decide") /\ tx'[t].req = r /\ tx'[t].kind = "decide"
  BY <1>3 DEF BeginDecide, TypeOK, TxOK, Idle
<1>4. ASSUME NEW r \in Request, BeginCancel(t, r)
      PROVE  Alone(r, "cancel") /\ tx'[t].req = r /\ tx'[t].kind = "cancel"
  BY <1>4 DEF BeginCancel, TypeOK, TxOK, Idle
<1>5. ASSUME NEW r \in Request, BeginAssign(t, r)
      PROVE  Alone(r, "assign") /\ tx'[t].req = r /\ tx'[t].kind = "assign"
  BY <1>5 DEF BeginAssign, TypeOK, TxOK, Idle
<1>6. ASSUME NEW r \in Request, BeginHandover(t, r)
      PROVE  Alone(r, "handover") /\ tx'[t].req = r /\ tx'[t].kind = "handover"
  BY <1>6 DEF BeginHandover, TypeOK, TxOK, Idle
<1>7. ASSUME NEW r \in Request, BeginReturn(t, r)
      PROVE  Alone(r, "return") /\ tx'[t].req = r /\ tx'[t].kind = "return"
  BY <1>7 DEF BeginReturn, TypeOK, TxOK, Idle
<1>8. ASSUME NEW u \in Unit, BeginInspect(t, u)  PROVE tx'[t].req = NoRequest
  BY <1>8 DEF BeginInspect, TypeOK, TxOK, Idle
<1> QED  BY <1>0, <1>1, <1>2, <1>3, <1>4, <1>5, <1>6, <1>7, <1>8 DEF Begin

(* How a step changes the work of the one who takes it. *)
LEMMA WorkFrame ==
  ASSUME TypeOK, NEW t \in Txn, Acts(t)
  PROVE  /\ \A s \in Txn \ {t} : tx'[s] = tx[s]
         /\ \/ Begin(t)
            \/ tx'[t] = Idle
            \/ /\ tx'[t].kind = tx[t].kind /\ tx'[t].req = tx[t].req
               /\ tx'[t].units = tx[t].units /\ tx'[t].out = tx[t].out
               /\ \/ tx[t].kind \in {"create", "assign"}
                  \/ FindCancelled(t) /\ tx[t].kind = "cancel"
                  \/ FindReturned(t) /\ tx[t].kind = "return"
               /\ Continue(t)
         /\ Commit(t) \/ UNCHANGED tables
<1>1. Begin(t) => UNCHANGED tables
  BY DEF Begin, BeginCreate, BeginDecide, BeginCancel, BeginAssign, BeginHandover,
         BeginReturn, BeginInspect
<1>2. Rollback(t) => UNCHANGED tables
  BY DEF Rollback
<1>3. Continue(t) => UNCHANGED tables
  BY ContinueFrame
<1>4. Begin(t) \/ Continue(t) \/ Commit(t) \/ Rollback(t)
  BY DEF Acts
<1>5. \A s \in Txn \ {t} : tx'[s] = tx[s]
  BY <1>4, OneAtWork
<1>6. Commit(t) \/ Rollback(t) => tx'[t] = Idle
  BY CommitEnds, EndFrame
<1>7. Continue(t) =>
        \/ tx'[t] = Idle
        \/ /\ tx'[t].kind = tx[t].kind /\ tx'[t].req = tx[t].req
           /\ tx'[t].units = tx[t].units /\ tx'[t].out = tx[t].out
           /\ \/ tx[t].kind \in {"create", "assign"}
              \/ FindCancelled(t) /\ tx[t].kind = "cancel"
              \/ FindReturned(t) /\ tx[t].kind = "return"
  BY ContinueFrame, EndFrame
<1> QED  BY <1>1, <1>2, <1>3, <1>4, <1>5, <1>6, <1>7

LEMMA ApartInit == Init => ApartInv
<1>1. NoRequest \notin Request
  BY ConstantsAssumption
<1> QED  BY <1>1 DEF Init, ApartInv, Idle

LEMMA ApartStep ==
  ASSUME TypeOK, ApartInv, [Next]_vars
  PROVE  ApartInv'
<1>0. NoRequest \notin Request
  BY ConstantsAssumption
<1>1. ASSUME NEW t \in Txn, Acts(t)  PROVE ApartInv'
  <2>1. \A s \in Txn \ {t} : tx'[s] = tx[s]
    BY <1>1, WorkFrame
  <2>2. ASSUME NEW s \in Txn \ {t}, tx'[s].req = tx'[t].req, tx'[t].req \in Request
        PROVE  {tx'[s].kind, tx'[t].kind} \notin Apart
    <3>1. CASE Begin(t)
      BY <2>1, <2>2, <3>1, BeginsApart
    <3>2. CASE tx'[t] = Idle
      BY <1>0, <2>2, <3>2 DEF Idle
    <3>3. CASE tx'[t].kind = tx[t].kind /\ tx'[t].req = tx[t].req
      BY <2>1, <2>2, <3>3 DEF ApartInv
    <3> QED  BY <1>1, <3>1, <3>2, <3>3, WorkFrame
  <2>3. ASSUME NEW r \in Txn, NEW s \in Txn, r # s, tx'[r].req = tx'[s].req, tx'[s].req \in Request
        PROVE  {tx'[r].kind, tx'[s].kind} \notin Apart
    <3>1. CASE r # t /\ s # t
      BY <2>1, <2>3, <3>1 DEF ApartInv
    <3>2. CASE s = t
      BY <2>2, <2>3, <3>2
    <3>3. CASE r = t
      <4>1. {tx'[s].kind, tx'[r].kind} \notin Apart
        BY <2>2, <2>3, <3>3
      <4>2. {tx'[s].kind, tx'[r].kind} = {tx'[r].kind, tx'[s].kind}
        OBVIOUS
      <4> QED  BY <4>1, <4>2
    <3> QED  BY <3>1, <3>2, <3>3
  <2> QED  BY <2>3 DEF ApartInv
<1>2. ASSUME Tick \/ UNCHANGED vars  PROVE ApartInv'
  BY <1>2 DEF Tick, vars, ApartInv
<1> QED  BY <1>1, <1>2 DEF Next, Acts

(* A transaction writes rows of its own request only. *)
LEMMA OwnRows ==
  ASSUME TypeOK, NEW t \in Txn, Acts(t), NEW q \in Request, tx[t].req # q
  PROVE  /\ status'[q] = status[q] /\ reservation'[q] = reservation[q]
         /\ lent'[q] = lent[q] /\ returned'[q] = returned[q]
         /\ \A m : <<q, m>> \in promised' <=> <<q, m>> \in promised
<1>1. CASE UNCHANGED tables
  BY <1>1 DEF tables
<1>2. CASE Commit(t)
  <2>1. CASE WriteCreate(t)
    BY <2>1 DEF WriteCreate, TypeOK, TablesOK
  <2>2. CASE WriteReject(t)
    BY <2>2 DEF WriteReject, Release, TypeOK, TablesOK
  <2>3. CASE WriteApprove(t)
    BY <2>3 DEF WriteApprove, TypeOK, TablesOK
  <2>4. CASE WriteCancel(t)
    BY <2>4 DEF WriteCancel, Release, TypeOK, TablesOK
  <2>5. CASE WriteAssign(t)
    BY <2>5 DEF WriteAssign, TypeOK, TablesOK
  <2>6. CASE WriteHandover(t)
    BY <2>6 DEF WriteHandover, TypeOK, TablesOK
  <2>7. CASE WriteReturn(t)
    BY <2>7 DEF WriteReturn, TypeOK, TablesOK
  <2>8. CASE WriteInspect(t)
    BY <2>8 DEF WriteInspect
  <2> QED  BY <1>2, <2>1, <2>2, <2>3, <2>4, <2>5, <2>6, <2>7, <2>8 DEF Commit
<1> QED  BY <1>1, <1>2, WorkFrame

-----------------------------------------------------------------------------
(* Loans, when a handover does not overlap an assignment *)

\* The units that request r has handed over, once or more often.
Lent(r) == {u \in Unit : lent[r][u] > 0}

\* The units that the open reservations of request r name.
Held(r) ==
  {u \in Unit : \E m \in Model, c \in Copy :
                  Live(reservation[r][m][c]) /\ reservation[r][m][c].unit = u}

\* The reservations of request r that name one of these units.
Naming(r, units) ==
  {id \in Model \X Copy : reservation[r][id[1]][id[2]].unit \in units}

\* A handover records the pinned units, which stay pinned; a return was begun
\* when everything held, and everything out, had still to be received, and it
\* releases the reservations that name its units; and an assignment is made
\* before anything is handed over.
LoanTx(t) ==
  LET r == tx[t].req IN
  /\ tx[t].kind = "handover" => tx[t].units = Pinned(r) /\ Pinned(r) # {}
  /\ tx[t].kind = "return" =>
       /\ tx[t].units # {} /\ tx[t].units \subseteq Lent(r)
       /\ Held(r) \subseteq tx[t].out
       /\ \A u \in Unit : OutFor(r, u) => u \in tx[t].out
       /\ tx[t].step = "write" => tx[t].rows = Naming(r, tx[t].units)
  /\ tx[t].kind = "assign" => Lent(r) = {}

LoanRow(r) ==
  /\ Lent(r) # {} =>
       /\ status[r] \in {"ON_LOAN", "PARTIALLY_RETURNED", "CLOSED", "CANCELLED"}
       /\ Lent(r) = Pinned(r)
       /\ Held(r) \subseteq Unreturned(r)
  /\ \A u \in Unit : returned[r][u] > 0 => u \in Lent(r)
  /\ status[r] \in {"REJECTED", "CLOSED"} => Held(r) = {}
  /\ status[r] = "CLOSED" => \A u \in Unit : ~ OutFor(r, u)
  /\ \A m \in Model, c \in Copy :
       reservation[r][m][c].status = "none" => reservation[r][m][c].unit = NoUnit

LoanInv ==
  /\ \A t \in Txn : LoanTx(t)
  /\ \A r \in Request : LoanRow(r)

LEMMA LoanInit == Init => LoanInv
<1>1. \A r \in Request : Init => Lent(r) = {} /\ Held(r) = {}
  BY DEF Init, Lent, Held, Live, NoRow
<1>2. ASSUME Init, NEW t \in Txn  PROVE LoanTx(t)
  BY <1>2 DEF Init, LoanTx, Idle
<1>3. ASSUME Init, NEW r \in Request  PROVE LoanRow(r)
  BY <1>1, <1>3 DEF Init, LoanRow, NoRow
<1> QED  BY <1>2, <1>3 DEF LoanInv

\* The rows of request q that a loan is about.
SameRows(q) ==
  /\ status'[q] = status[q] /\ reservation'[q] = reservation[q]
  /\ lent'[q] = lent[q] /\ returned'[q] = returned[q]

LEMMA SameSets ==
  ASSUME NEW q \in Request, SameRows(q)
  PROVE  /\ Lent(q)' = Lent(q) /\ Held(q)' = Held(q) /\ Pinned(q)' = Pinned(q)
         /\ Unreturned(q)' = Unreturned(q)
         /\ \A u \in Unit : OutFor(q, u)' <=> OutFor(q, u)
         /\ \A units : Naming(q, units)' = Naming(q, units)
BY DEF SameRows, Lent, Held, Live, Pinned, Unreturned, OutFor, Naming

LEMMA LoanRowKept ==
  ASSUME NEW q \in Request, LoanRow(q), SameRows(q)
  PROVE  LoanRow(q)'
BY SameSets DEF LoanRow, SameRows

LEMMA LoanTxKept ==
  ASSUME NEW s \in Txn, LoanTx(s), NEW q \in Request, SameRows(q), tx[s].req = q,
         tx'[s].req = tx[s].req, tx'[s].kind = tx[s].kind, tx'[s].units = tx[s].units,
         tx'[s].kind = "return" =>
           tx'[s].out = tx[s].out /\ tx'[s].step = tx[s].step /\ tx'[s].rows = tx[s].rows
  PROVE  LoanTx(s)'
BY SameSets DEF LoanTx

(* A request that has lent nothing expects nothing. *)
LEMMA LoanUnlent ==
  ASSUME NEW r \in Request, LoanRow(r), Lent(r) = {}, lent'[r] = lent[r],
         returned'[r] = returned[r],
         status'[r] = "REJECTED" => Held(r)' = {},
         status'[r] # "CLOSED",
         \A m \in Model, c \in Copy :
           reservation'[r][m][c].status = "none" => reservation'[r][m][c].unit = NoUnit
  PROVE  LoanRow(r)'
<1>1. Lent(r)' = {}
  BY DEF Lent
<1>2. \A u \in Unit : ~ (returned'[r][u] > 0)
  BY DEF LoanRow
<1> QED  BY <1>1, <1>2 DEF LoanRow

(* What the writes do to the reservations of a request. *)
LEMMA ReleaseFrees ==
  ASSUME TypeOK, NEW r \in Request, NEW rows, Release(r, rows)
  PROVE  /\ Held(r)' \subseteq Held(r) /\ Pinned(r)' = Pinned(r)
         /\ OpenRows(r) \subseteq rows => Held(r)' = {}
         /\ \A m \in Model, c \in Copy :
              /\ reservation'[r][m][c].unit = reservation[r][m][c].unit
              /\ reservation'[r][m][c].status = "none" => reservation[r][m][c].status = "none"
<1>1. \A m \in Model, c \in Copy :
        reservation'[r][m][c] = IF <<m, c>> \in rows
                                THEN [reservation[r][m][c] EXCEPT !.status = "RELEASED"]
                                ELSE reservation[r][m][c]
  BY DEF Release, TypeOK, TablesOK
<1>2. ASSUME NEW m \in Model, NEW c \in Copy
      PROVE  /\ Live(reservation'[r][m][c]) =>
                  Live(reservation[r][m][c]) /\ <<m, c>> \notin rows
             /\ reservation'[r][m][c].unit = reservation[r][m][c].unit
             /\ reservation'[r][m][c].status = "none" => reservation[r][m][c].status = "none"
  <2>1. reservation[r][m][c] \in Row
    BY DEF TypeOK, TablesOK
  <2>2. CASE <<m, c>> \notin rows
    BY <1>1, <2>2
  <2>3. CASE <<m, c>> \in rows
    <3>1. reservation'[r][m][c] = [reservation[r][m][c] EXCEPT !.status = "RELEASED"]
      BY <1>1, <2>3
    <3> QED  BY <2>1, <3>1 DEF Row, Live
  <2> QED  BY <2>2, <2>3
<1>3. Held(r)' \subseteq Held(r)
  <2>1. ASSUME NEW u \in Held(r)'  PROVE u \in Held(r)
    <3>1. PICK m \in Model, c \in Copy :
            Live(reservation'[r][m][c]) /\ reservation'[r][m][c].unit = u
      BY DEF Held, Live
    <3>2. Live(reservation[r][m][c]) /\ reservation[r][m][c].unit = u
      BY <1>2, <3>1
    <3>3. u \in Unit
      BY DEF Held
    <3> QED  BY <3>2, <3>3 DEF Held
  <2> QED  BY <2>1
<1>4. ASSUME OpenRows(r) \subseteq rows  PROVE Held(r)' = {}
  <2>1. \A m \in Model, c \in Copy : Live(reservation[r][m][c]) => <<m, c>> \in rows
    BY <1>4 DEF OpenRows
  <2> QED  BY <1>2, <2>1 DEF Held, Live
<1>5. Pinned(r)' = Pinned(r)
  <2>1. \A m \in Model, c \in Copy : reservation'[r][m][c].unit = reservation[r][m][c].unit
    BY <1>2
  <2>2. \A u : u \in Pinned(r)' <=> u \in Pinned(r)
    BY <2>1 DEF Pinned
  <2> QED  BY <2>2
<1> QED  BY <1>2, <1>3, <1>4, <1>5

LEMMA ReturnFrees ==
  ASSUME TypeOK, NEW t \in Txn, WriteReturn(t), NEW r \in Request, tx[t].req = r, LoanTx(t)
  PROVE  /\ Held(r)' = Held(r) \ tx[t].units /\ Pinned(r)' = Pinned(r)
         /\ \A m \in Model, c \in Copy :
              /\ reservation'[r][m][c].unit = reservation[r][m][c].unit
              /\ reservation'[r][m][c].status = "none" => reservation[r][m][c].status = "none"
<1>0. \A m \in Model, c \in Copy :
        <<m, c>> \in tx[t].rows <=> reservation[r][m][c].unit \in tx[t].units
  <2>1. tx[t].rows = Naming(r, tx[t].units)
    BY DEF WriteReturn, LoanTx
  <2> QED  BY <2>1 DEF Naming
<1>1. \A m \in Model, c \in Copy :
        reservation'[r][m][c] = IF <<m, c>> \in tx[t].rows
                                THEN [reservation[r][m][c] EXCEPT !.status = "RELEASED"]
                                ELSE reservation[r][m][c]
  BY DEF WriteReturn, TypeOK, TablesOK
<1>2. ASSUME NEW m \in Model, NEW c \in Copy
      PROVE  /\ Live(reservation'[r][m][c]) <=>
                  Live(reservation[r][m][c]) /\ reservation[r][m][c].unit \notin tx[t].units
             /\ reservation'[r][m][c].unit = reservation[r][m][c].unit
             /\ reservation'[r][m][c].status = "none" => reservation[r][m][c].status = "none"
  <2>1. reservation[r][m][c] \in Row
    BY DEF TypeOK, TablesOK
  <2>2. CASE reservation[r][m][c].unit \notin tx[t].units
    <3>1. <<m, c>> \notin tx[t].rows
      BY <1>0, <2>2
    <3>2. reservation'[r][m][c] = reservation[r][m][c]
      BY <1>1, <3>1
    <3> QED  BY <2>2, <3>2
  <2>3. CASE reservation[r][m][c].unit \in tx[t].units
    <3>1. reservation'[r][m][c] = [reservation[r][m][c] EXCEPT !.status = "RELEASED"]
      BY <1>0, <1>1, <2>3
    <3> QED  BY <2>1, <2>3, <3>1 DEF Row, Live
  <2> QED  BY <2>2, <2>3
<1>3. Held(r)' = Held(r) \ tx[t].units
  <2>1. ASSUME NEW u \in Unit
        PROVE  u \in Held(r)' <=> u \in Held(r) /\ u \notin tx[t].units
    BY <1>2 DEF Held, Live
  <2>2. Held(r)' \subseteq Unit /\ Held(r) \subseteq Unit
    BY DEF Held
  <2> QED  BY <2>1, <2>2
<1>4. Pinned(r)' = Pinned(r)
  BY <1>2 DEF Pinned
<1> QED  BY <1>2, <1>3, <1>4

(* Handover and assignment are never at work on one request together. *)
LEMMA HandoverApart ==
  ASSUME NeverBoth("handover", "assign"), ApartInv, NEW s \in Txn, NEW t \in Txn,
         tx[s].req = tx[t].req, tx[t].req \in Request, tx[s].kind = "handover"
  PROVE  tx[t].kind # "assign"
<1> SUFFICES ASSUME tx[t].kind = "assign"  PROVE FALSE
  OBVIOUS
<1>1. s # t
  OBVIOUS
<1> QED  BY <1>1 DEF ApartInv, NeverBoth

(* What a handover and a return do to the loans of a request. *)
LEMMA HandoverLends ==
  ASSUME TypeOK, LoanInv, NEW t \in Txn, WriteHandover(t), NEW r \in Request, tx[t].req = r
  PROVE  /\ status'[r] = "ON_LOAN" /\ UNCHANGED <<reservation, returned>>
         /\ \A u \in Unit : lent'[r][u] = IF u \in Pinned(r) THEN lent[r][u] + 1 ELSE lent[r][u]
         /\ Pinned(r) # {} /\ Pinned(r) \subseteq Unit
         /\ Lent(r)' = Pinned(r)
         /\ Held(r)' = Held(r) /\ Held(r) \subseteq Pinned(r)
<1>1. tx[t].units = Pinned(r) /\ Pinned(r) # {}
  BY DEF WriteHandover, LoanInv, LoanTx
<1>2. /\ status'[r] = "ON_LOAN" /\ UNCHANGED <<reservation, returned>>
      /\ \A u \in Unit : lent'[r][u] = IF u \in Pinned(r) THEN lent[r][u] + 1 ELSE lent[r][u]
  BY <1>1 DEF WriteHandover, TypeOK, TablesOK
<1>3. Pinned(r) \subseteq Unit
  BY DEF Pinned, TypeOK, TablesOK, Row
<1>4. \A u \in Unit : lent[r][u] \in Nat
  BY DEF TypeOK, TablesOK
<1>5. Lent(r) = {} \/ Lent(r) = Pinned(r)
  BY DEF LoanInv, LoanRow
<1>6. \A u \in Unit : lent'[r][u] > 0 <=> u \in Pinned(r)
  BY <1>2, <1>4, <1>5 DEF Lent
<1>7. Lent(r)' = Pinned(r)
  BY <1>3, <1>6 DEF Lent
<1>8. Held(r)' = Held(r) /\ Held(r) \subseteq Pinned(r)
  <2>1. NoUnit \notin Unit
    BY ConstantsAssumption
  <2> QED  BY <1>2, <2>1 DEF Held, Live, Pinned
<1> QED  BY <1>1, <1>2, <1>3, <1>7, <1>8

LEMMA ReturnReceives ==
  ASSUME TypeOK, LoanInv, NEW t \in Txn, WriteReturn(t), NEW r \in Request, tx[t].req = r
  PROVE  /\ status'[r] = IF StillOut(t) = {} THEN "CLOSED" ELSE "PARTIALLY_RETURNED"
         /\ lent'[r] = lent[r] /\ Lent(r)' = Lent(r)
         /\ \A u \in Unit : returned'[r][u] = IF u \in tx[t].units THEN returned[r][u] + 1
                                              ELSE returned[r][u]
         /\ \A u \in Unit : OutFor(r, u)' <=> OutFor(r, u) /\ u \notin tx[t].units
         /\ tx[t].units \subseteq Lent(r) /\ Lent(r) # {} /\ Held(r) \subseteq tx[t].out
         /\ \A u \in Unit : OutFor(r, u) => u \in tx[t].out
<1>1. /\ status'[r] = IF StillOut(t) = {} THEN "CLOSED" ELSE "PARTIALLY_RETURNED"
      /\ UNCHANGED lent
      /\ \A u \in Unit : returned'[r][u] = IF u \in tx[t].units THEN returned[r][u] + 1
                                           ELSE returned[r][u]
  BY DEF WriteReturn, StillOut, TypeOK, TablesOK
<1>2. Lent(r)' = Lent(r)
  BY <1>1 DEF Lent
<1>3. \A u \in Unit : returned[r][u] \in Nat
  BY DEF TypeOK, TablesOK
<1>4. \A u \in Unit : OutFor(r, u)' <=> OutFor(r, u) /\ u \notin tx[t].units
  BY <1>1, <1>3 DEF OutFor
<1>5. /\ tx[t].units \subseteq Lent(r) /\ Lent(r) # {} /\ Held(r) \subseteq tx[t].out
      /\ \A u \in Unit : OutFor(r, u) => u \in tx[t].out
  BY DEF WriteReturn, LoanInv, LoanTx
<1> QED  BY <1>1, <1>2, <1>4, <1>5

(* What a transaction has read of its request survives the others at work. *)
LEMMA LoanOthers ==
  ASSUME NeverBoth("handover", "assign"), TypeOK, SignInv, ApartInv, LoanInv,
         NEW t \in Txn, Acts(t), NEW s \in Txn \ {t}
  PROVE  LoanTx(s)'
<1>1. tx'[s] = tx[s] /\ LoanTx(s)
  BY WorkFrame DEF LoanInv
<1>2. CASE tx[s].kind \notin {"handover", "return", "assign"}
  BY <1>1, <1>2 DEF LoanTx
<1>3. CASE tx[s].kind \in {"handover", "return", "assign"}
  <2>1. PICK r \in Request : tx[s].req = r
    BY <1>3, TxnTypes DEF Handlers
  <2>2. CASE SameRows(r)
    BY <1>1, <2>1, <2>2, LoanTxKept
  <2>3. CASE tx[t].req # r
    BY <2>2, <2>3, OwnRows DEF SameRows
  <2>4. LoanRow(r)
    BY DEF LoanInv
  <2>5. ASSUME Lent(r)' = Lent(r), Pinned(r)' = Pinned(r), Held(r)' \subseteq Held(r),
               \A u \in Unit : OutFor(r, u)' => OutFor(r, u),
               \A m \in Model, c \in Copy :
                 reservation'[r][m][c].unit = reservation[r][m][c].unit
        PROVE  LoanTx(s)'
    <3>1. Naming(r, tx[s].units)' = Naming(r, tx[s].units)
      BY <1>1, <2>5 DEF Naming
    <3> QED  BY <1>1, <2>1, <2>5, <3>1 DEF LoanTx
  <2>6. CASE tx[t].req = r /\ WriteCancel(t)
    <3>1. /\ Held(r)' \subseteq Held(r) /\ Pinned(r)' = Pinned(r)
          /\ \A m \in Model, c \in Copy :
               reservation'[r][m][c].unit = reservation[r][m][c].unit
      BY <2>6, ReleaseFrees DEF WriteCancel
    <3>2. UNCHANGED <<lent, returned>>
      BY <2>6 DEF WriteCancel
    <3> QED  BY <2>5, <3>1, <3>2 DEF Lent, OutFor
  <2>7. CASE tx[t].req = r /\ WriteAssign(t)
    <3>1. UNCHANGED lent /\ tx[t].kind = "assign" /\ Lent(r) = {}
      BY <2>7 DEF WriteAssign, LoanInv, LoanTx
    <3>2. tx[s].kind = "assign"
      BY <1>1, <1>3, <2>1, <2>7, <3>1, HandoverApart DEF LoanTx
    <3> QED  BY <1>1, <2>1, <3>1, <3>2 DEF LoanTx, Lent
  <2>8. CASE tx[t].req = r /\ WriteHandover(t)
    <3>1. /\ UNCHANGED <<reservation, returned>> /\ Lent(r)' = Pinned(r) /\ Held(r)' = Held(r)
      BY <2>8, HandoverLends
    <3>2. Pinned(r)' = Pinned(r)
      BY <3>1 DEF Pinned
    <3>3. tx[s].kind # "assign"
      BY <2>1, <2>8, HandoverApart DEF WriteHandover
    <3>4. CASE tx[s].kind = "handover"
      BY <1>1, <2>1, <3>2, <3>4 DEF LoanTx
    <3>5. CASE tx[s].kind = "return"
      <4>1. Lent(r) # {}
        BY <1>1, <2>1, <3>5 DEF LoanTx
      <4>2. Lent(r)' = Lent(r)
        BY <2>4, <3>1, <4>1 DEF LoanRow
      <4>3. \A u \in Unit : OutFor(r, u)' => OutFor(r, u)
        BY <3>1, <4>2 DEF OutFor, Lent
      <4> QED  BY <2>5, <3>1, <3>2, <4>2, <4>3
    <3> QED  BY <1>3, <3>3, <3>4, <3>5
  <2>9. CASE tx[t].req = r /\ WriteReturn(t)
    <3>1. /\ Held(r)' = Held(r) \ tx[t].units /\ Pinned(r)' = Pinned(r)
          /\ \A m \in Model, c \in Copy :
               reservation'[r][m][c].unit = reservation[r][m][c].unit
      BY <2>9, ReturnFrees DEF LoanInv
    <3>2. Lent(r)' = Lent(r) /\ \A u \in Unit : OutFor(r, u)' => OutFor(r, u)
      BY <2>9, ReturnReceives
    <3> QED  BY <2>5, <3>1, <3>2
  <2>10. CASE tx[t].req = r /\ (WriteCreate(t) \/ WriteReject(t) \/ WriteApprove(t))
    <3>1. tx[t].kind \in {"create", "decide"}
      BY <2>10 DEF WriteCreate, WriteReject, WriteApprove
    <3> QED  BY <2>1, <2>10, <3>1, SignAlone
  <2>11. UNCHANGED tables \/ WriteInspect(t) => SameRows(r)
    BY DEF tables, WriteInspect, SameRows
  <2> QED
    BY <2>2, <2>3, <2>6, <2>7, <2>8, <2>9, <2>10, <2>11, WorkFrame DEF Commit
<1> QED  BY <1>2, <1>3

(* The kind of its work tells how a transaction began. *)
LEMMA BeginKinds ==
  ASSUME TypeOK, NEW t \in Txn, Begin(t)
  PROVE  /\ tx'[t].kind = "create" => \E r \in Request : BeginCreate(t, r)
         /\ tx'[t].kind = "cancel" => \E r \in Request : BeginCancel(t, r)
         /\ tx'[t].kind = "assign" => \E r \in Request : BeginAssign(t, r)
         /\ tx'[t].kind = "handover" => \E r \in Request : BeginHandover(t, r)
         /\ tx'[t].kind = "return" => \E r \in Request : BeginReturn(t, r)
<1>1. ASSUME NEW r \in Request, BeginCreate(t, r)  PROVE tx'[t].kind = "create"
  BY <1>1 DEF BeginCreate, Idle, TypeOK, TxOK
<1>2. ASSUME NEW r \in Request, NEW p \in Leader \cup Admin, BeginDecide(t, r, p)
      PROVE  tx'[t].kind = "decide"
  BY <1>2 DEF BeginDecide, Idle, TypeOK, TxOK
<1>3. ASSUME NEW r \in Request, BeginCancel(t, r)  PROVE tx'[t].kind = "cancel"
  BY <1>3 DEF BeginCancel, Idle, TypeOK, TxOK
<1>4. ASSUME NEW r \in Request, BeginAssign(t, r)  PROVE tx'[t].kind = "assign"
  BY <1>4 DEF BeginAssign, Idle, TypeOK, TxOK
<1>5. ASSUME NEW r \in Request, BeginHandover(t, r)  PROVE tx'[t].kind = "handover"
  BY <1>5 DEF BeginHandover, Idle, TypeOK, TxOK
<1>6. ASSUME NEW r \in Request, BeginReturn(t, r)  PROVE tx'[t].kind = "return"
  BY <1>6 DEF BeginReturn, Idle, TypeOK, TxOK
<1>7. ASSUME NEW u \in Unit, BeginInspect(t, u)  PROVE tx'[t].kind = "inspect"
  BY <1>7 DEF BeginInspect, Idle, TypeOK, TxOK
<1> QED  BY <1>1, <1>2, <1>3, <1>4, <1>5, <1>6, <1>7 DEF Begin

(* What it has read when it begins is so. *)
LEMMA LoanActor ==
  ASSUME TypeOK, LoanInv, NEW t \in Txn, Acts(t)
  PROVE  LoanTx(t)'
<1>1. ASSUME tx'[t].kind \notin {"handover", "return", "assign"}  PROVE LoanTx(t)'
  BY <1>1 DEF LoanTx
<1>2. CASE tx'[t] = Idle
  BY <1>1, <1>2 DEF Idle
<1>3. CASE tx[t].kind \in {"create", "assign"} /\ Continue(t)
           /\ tx'[t].kind = tx[t].kind /\ tx'[t].req = tx[t].req /\ tx'[t].units = tx[t].units
  <2>1. UNCHANGED tables
    BY <1>3, ContinueFrame
  <2>2. PICK r \in Request : tx[t].req = r
    BY <1>3, TxnTypes DEF Handlers
  <2>3. SameRows(r)
    BY <2>1 DEF tables, SameRows
  <2>4. LoanTx(t)
    BY DEF LoanInv
  <2>5. tx'[t].kind # "return"
    BY <1>3
  <2> QED  BY <1>3, <2>2, <2>3, <2>4, <2>5, LoanTxKept
<1>5. CASE FindReturned(t) /\ tx[t].kind = "return"
           /\ tx'[t].kind = tx[t].kind /\ tx'[t].req = tx[t].req
           /\ tx'[t].units = tx[t].units /\ tx'[t].out = tx[t].out
  <2>1. PICK r \in Request : tx[t].req = r
    BY <1>5, TxnTypes DEF Handlers
  <2>2. FindRows(t, Naming(r, tx[t].units))
    BY <1>5, <2>1 DEF FindReturned, Naming
  <2>3. tx'[t].rows = Naming(r, tx[t].units) /\ UNCHANGED tables
    BY <2>2, FindFrame
  <2>4. SameRows(r)
    BY <2>3 DEF tables, SameRows
  <2>5. LoanTx(t)
    BY DEF LoanInv
  <2> QED  BY <1>5, <2>1, <2>3, <2>4, <2>5, SameSets DEF LoanTx
<1>4. CASE Begin(t)
  <2>1. ASSUME NEW r \in Request, BeginAssign(t, r)  PROVE LoanTx(t)'
    <3>1. tx'[t].kind = "assign" /\ tx'[t].req = r
      BY <2>1 DEF BeginAssign, Idle, TypeOK, TxOK
    <3>2. Lent(r) = {} /\ SameRows(r)
      BY <2>1 DEF BeginAssign, tables, SameRows, LoanInv, LoanRow
    <3>3. Lent(r)' = {}
      BY <3>2, SameSets
    <3> QED  BY <3>1, <3>3 DEF LoanTx
  <2>2. ASSUME NEW r \in Request, BeginHandover(t, r)  PROVE LoanTx(t)'
    <3>1. tx'[t].kind = "handover" /\ tx'[t].req = r /\ tx'[t].units = Pinned(r)
      BY <2>2 DEF BeginHandover, Idle, TypeOK, TxOK
    <3>2. Pinned(r) # {} /\ SameRows(r)
      BY <2>2 DEF BeginHandover, tables, SameRows
    <3>3. Pinned(r)' = Pinned(r)
      BY <3>2, SameSets
    <3> QED  BY <3>1, <3>2, <3>3 DEF LoanTx
  <2>3. ASSUME NEW r \in Request, BeginReturn(t, r)  PROVE LoanTx(t)'
    <3>1. PICK units \in (SUBSET {u \in Unit : OutFor(r, u)}) \ {{}} :
            tx' = [tx EXCEPT ![t] = [Idle EXCEPT !.kind = "return", !.step = "release",
                     !.req = r, !.units = units, !.out = Unreturned(r)]]
      BY <2>3 DEF BeginReturn
    <3>2. /\ tx'[t].kind = "return" /\ tx'[t].req = r /\ tx'[t].units = units
          /\ tx'[t].out = Unreturned(r) /\ tx'[t].step = "release"
      BY <3>1 DEF Idle, TypeOK, TxOK
    <3>3. units # {} /\ units \subseteq Lent(r)
      BY <3>1 DEF OutFor, Lent
    <3>4. Held(r) \subseteq Unreturned(r)
      BY <3>3 DEF LoanInv, LoanRow
    <3>5. \A u \in Unit : OutFor(r, u) => u \in Unreturned(r)
      BY DEF OutFor, Unreturned
    <3>6. SameRows(r)
      BY <2>3 DEF BeginReturn, tables, SameRows
    <3> QED  BY <3>2, <3>3, <3>4, <3>5, <3>6, SameSets DEF LoanTx
  <2> QED  BY <1>1, <1>4, <2>1, <2>2, <2>3, BeginKinds
<1> QED  BY <1>1, <1>2, <1>3, <1>4, <1>5, WorkFrame

(* What holds of a request while its units come and go. *)
LEMMA LoanRows ==
  ASSUME TypeOK, SignInv, LoanInv, NEW t \in Txn, Acts(t), NEW r \in Request
  PROVE  LoanRow(r)'
<1>1. LoanRow(r) /\ LoanTx(t) /\ SignTx(t)
  BY DEF LoanInv, SignInv
<1>2. CASE SameRows(r)
  BY <1>1, <1>2, LoanRowKept
<1>3. CASE tx[t].req # r
  BY <1>2, <1>3, OwnRows DEF SameRows
<1>4. \A m \in Model, c \in Copy : reservation[r][m][c] \in Row
  BY DEF TypeOK, TablesOK
<1>5. CASE tx[t].req = r /\ WriteCreate(t)
  <2>1. status[r] = "ABSENT"
    BY <1>1, <1>5 DEF WriteCreate, SignTx
  <2>2. Lent(r) = {}
    BY <1>1, <2>1 DEF LoanRow
  <2>3. status'[r] = "PENDING_APPROVAL" /\ UNCHANGED <<lent, returned>>
    BY <1>5 DEF WriteCreate, TypeOK, TablesOK
  <2>4. \A m \in Model, c \in Copy :
          reservation'[r][m][c].status = "none" => reservation'[r][m][c].unit = NoUnit
    BY <1>5 DEF WriteCreate, TypeOK, TablesOK, NoRow
  <2> QED  BY <1>1, <2>2, <2>3, <2>4, LoanUnlent
<1>6. CASE tx[t].req = r /\ WriteReject(t)
  <2>1. status[r] = "PENDING_APPROVAL"
    BY <1>1, <1>6 DEF WriteReject, SignTx
  <2>2. Lent(r) = {}
    BY <1>1, <2>1 DEF LoanRow
  <2>3. status'[r] = "REJECTED" /\ UNCHANGED <<lent, returned>>
    BY <1>6 DEF WriteReject, TypeOK, TablesOK
  <2>4. /\ Held(r)' = {}
        /\ \A m \in Model, c \in Copy :
             /\ reservation'[r][m][c].unit = reservation[r][m][c].unit
             /\ reservation'[r][m][c].status = "none" => reservation[r][m][c].status = "none"
    BY <1>6, ReleaseFrees DEF WriteReject
  <2>5. \A m \in Model, c \in Copy :
          reservation'[r][m][c].status = "none" => reservation'[r][m][c].unit = NoUnit
    BY <1>1, <2>4 DEF LoanRow
  <2> QED  BY <1>1, <2>2, <2>3, <2>4, <2>5, LoanUnlent
<1>7. CASE tx[t].req = r /\ WriteApprove(t)
  <2>1. status[r] = "PENDING_APPROVAL"
    BY <1>1, <1>7 DEF WriteApprove, SignTx
  <2>2. Lent(r) = {}
    BY <1>1, <2>1 DEF LoanRow
  <2>3. status'[r] \in {"PENDING_APPROVAL", "APPROVED"} /\ UNCHANGED <<lent, returned>>
    BY <1>7, <2>1 DEF WriteApprove, TypeOK, TablesOK
  <2>4. \A m \in Model, c \in Copy :
          \/ reservation'[r][m][c] = reservation[r][m][c]
          \/ reservation'[r][m][c] = Confirmed(reservation[r][m][c])
    BY <1>7 DEF WriteApprove, TypeOK, TablesOK
  <2>5. \A row \in Row : Confirmed(row).status = "none" => row.status = "none" /\ Confirmed(row) = row
    BY DEF Row, Confirmed
  <2>6. \A m \in Model, c \in Copy :
          reservation'[r][m][c].status = "none" => reservation'[r][m][c].unit = NoUnit
    BY <1>1, <1>4, <2>4, <2>5 DEF LoanRow
  <2> QED  BY <1>1, <2>2, <2>3, <2>6, LoanUnlent
<1>8. CASE tx[t].req = r /\ WriteCancel(t)
  <2>0. /\ Held(r)' \subseteq Held(r) /\ Pinned(r)' = Pinned(r)
        /\ \A m \in Model, c \in Copy :
             /\ reservation'[r][m][c].unit = reservation[r][m][c].unit
             /\ reservation'[r][m][c].status = "none" => reservation[r][m][c].status = "none"
    BY <1>8, ReleaseFrees DEF WriteCancel
  <2>1. \A m \in Model, c \in Copy :
          reservation'[r][m][c].status = "none" => reservation'[r][m][c].unit = NoUnit
    BY <1>1, <2>0 DEF LoanRow
  <2>2. status'[r] = "CANCELLED" /\ UNCHANGED <<lent, returned>>
    BY <1>8 DEF WriteCancel, TypeOK, TablesOK
  <2>3. Lent(r)' = Lent(r) /\ Unreturned(r)' = Unreturned(r)
    BY <2>2 DEF Lent, Unreturned
  <2> QED  BY <1>1, <2>0, <2>1, <2>2, <2>3 DEF LoanRow
<1>9. CASE tx[t].req = r /\ WriteAssign(t)
  <2>1. Lent(r) = {}
    BY <1>1, <1>9 DEF WriteAssign, LoanTx
  <2>2. status'[r] = "PREPARING" /\ UNCHANGED <<lent, returned>>
    BY <1>9 DEF WriteAssign, TypeOK, TablesOK
  <2>3. ASSUME NEW m \in Model, NEW c \in Copy
        PROVE  \/ reservation'[r][m][c] = reservation[r][m][c]
               \/ reservation'[r][m][c].status = "CONFIRMED"
    BY <1>9 DEF WriteAssign, TypeOK, TablesOK
  <2>4. \A m \in Model, c \in Copy :
          reservation'[r][m][c].status = "none" => reservation'[r][m][c].unit = NoUnit
    BY <1>1, <2>3 DEF LoanRow
  <2> QED  BY <1>1, <2>1, <2>2, <2>4, LoanUnlent
<1>10. CASE tx[t].req = r /\ WriteHandover(t)
  <2>1. /\ status'[r] = "ON_LOAN" /\ UNCHANGED <<reservation, returned>>
        /\ \A u \in Unit : lent'[r][u] = IF u \in Pinned(r) THEN lent[r][u] + 1 ELSE lent[r][u]
        /\ Pinned(r) \subseteq Unit /\ Lent(r)' = Pinned(r)
        /\ Held(r)' = Held(r) /\ Held(r) \subseteq Pinned(r)
    BY <1>10, HandoverLends
  <2>2. Pinned(r)' = Pinned(r)
    BY <2>1 DEF Pinned
  <2>3. \A u \in Unit : lent[r][u] \in Nat /\ returned[r][u] \in Nat
    BY DEF TypeOK, TablesOK
  <2>4. ASSUME NEW u \in Held(r)  PROVE u \in Unreturned(r)'
    <3>1. u \in Unit /\ lent'[r][u] = lent[r][u] + 1 /\ returned'[r][u] = returned[r][u]
      BY <2>1
    <3>2. returned[r][u] = 0 \/ lent[r][u] > 0
      BY <1>1, <2>3, <3>1 DEF LoanRow, Lent
    <3> QED  BY <2>3, <3>1, <3>2 DEF Unreturned
  <2>5. \A u \in Unit : returned'[r][u] > 0 => u \in Lent(r)'
    <3>1. Lent(r) \subseteq Pinned(r)
      BY <1>1 DEF LoanRow
    <3> QED  BY <1>1, <2>1, <3>1 DEF LoanRow
  <2> QED  BY <1>1, <2>1, <2>2, <2>4, <2>5 DEF LoanRow
<1>11. CASE tx[t].req = r /\ WriteReturn(t)
  <2>1. /\ status'[r] = IF StillOut(t) = {} THEN "CLOSED" ELSE "PARTIALLY_RETURNED"
        /\ lent'[r] = lent[r] /\ Lent(r)' = Lent(r)
        /\ \A u \in Unit : returned'[r][u] = IF u \in tx[t].units THEN returned[r][u] + 1
                                             ELSE returned[r][u]
        /\ \A u \in Unit : OutFor(r, u)' <=> OutFor(r, u) /\ u \notin tx[t].units
        /\ tx[t].units \subseteq Lent(r) /\ Lent(r) # {} /\ Held(r) \subseteq tx[t].out
        /\ \A u \in Unit : OutFor(r, u) => u \in tx[t].out
    BY <1>11, ReturnReceives
  <2>0. /\ Held(r)' = Held(r) \ tx[t].units /\ Pinned(r)' = Pinned(r)
        /\ \A m \in Model, c \in Copy :
             /\ reservation'[r][m][c].unit = reservation[r][m][c].unit
             /\ reservation'[r][m][c].status = "none" => reservation[r][m][c].status = "none"
    BY <1>1, <1>11, ReturnFrees
  <2>2. /\ Held(r)' = Held(r) \ tx[t].units /\ Pinned(r)' = Pinned(r)
        /\ \A m \in Model, c \in Copy :
             reservation'[r][m][c].status = "none" => reservation'[r][m][c].unit = NoUnit
    BY <1>1, <2>0 DEF LoanRow
  <2>3. Held(r)' \subseteq Unreturned(r)'
    <3>1. \A u \in Held(r)' : u \in Unreturned(r) /\ u \notin tx[t].units /\ u \in Unit
      BY <1>1, <2>1, <2>2 DEF LoanRow, Unreturned
    <3> QED  BY <2>1, <3>1 DEF Unreturned
  <2>4. \A u \in Unit : returned'[r][u] > 0 => u \in Lent(r)'
    BY <1>1, <2>1 DEF LoanRow
  <2>5. status'[r] = "CLOSED" => Held(r)' = {} /\ \A u \in Unit : ~ OutFor(r, u)'
    BY <2>1, <2>2 DEF StillOut
  <2>6. Lent(r)' = Pinned(r)'
    BY <1>1, <2>1, <2>2 DEF LoanRow
  <2> QED  BY <2>1, <2>2, <2>3, <2>4, <2>5, <2>6 DEF LoanRow
<1>12. UNCHANGED tables \/ WriteInspect(t) => SameRows(r)
  BY DEF tables, WriteInspect, SameRows
<1> QED
  BY <1>2, <1>3, <1>5, <1>6, <1>7, <1>8, <1>9, <1>10, <1>11, <1>12, WorkFrame DEF Commit

LEMMA LoanStep ==
  ASSUME NeverBoth("handover", "assign"), TypeOK, SignInv, ApartInv, LoanInv, [Next]_vars
  PROVE  LoanInv'
<1>1. ASSUME NEW t \in Txn, Acts(t)  PROVE LoanInv'
  BY <1>1, LoanOthers, LoanActor, LoanRows DEF LoanInv
<1>2. ASSUME Tick \/ UNCHANGED vars  PROVE LoanInv'
  <2>1. tx' = tx /\ \A r \in Request : SameRows(r)
    BY <1>2 DEF Tick, vars, tables, SameRows
  <2>2. ASSUME NEW s \in Txn  PROVE LoanTx(s)'
    <3>1. CASE tx[s].kind \in {"handover", "return", "assign"}
      <4>1. tx[s].req \in Request
        BY <3>1, TxnTypes DEF Handlers
      <4> QED  BY <2>1, <4>1, LoanTxKept DEF LoanInv
    <3>2. CASE tx[s].kind \notin {"handover", "return", "assign"}
      BY <2>1, <3>2 DEF LoanTx
    <3> QED  BY <3>1, <3>2
  <2>3. ASSUME NEW r \in Request  PROVE LoanRow(r)'
    BY <2>1, LoanRowKept DEF LoanInv
  <2> QED  BY <2>2, <2>3 DEF LoanInv
<1> QED  BY <1>1, <1>2 DEF Next, Acts

LEMMA ApartCorrect == Spec => []ApartInv
BY ApartInit, ApartStep, TypeCorrect, PTL DEF Spec

LEMMA LoanCorrect == Spec => [](NeverBoth("handover", "assign") => LoanInv)
<1>1. Init => (NeverBoth("handover", "assign") => LoanInv)
  BY LoanInit
<1>2. TypeOK /\ SignInv /\ ApartInv /\ (NeverBoth("handover", "assign") => LoanInv)
        /\ [Next]_vars => (NeverBoth("handover", "assign") => LoanInv)'
  BY LoanStep DEF NeverBoth
<1> QED  BY <1>1, <1>2, TypeCorrect, SignCorrect, ApartCorrect, PTL DEF Spec

-----------------------------------------------------------------------------
(* A cancelled request, when no assignment overlaps the cancellation *)

\* The reservations of request r that hold a unit.
HoldingRows(r) ==
  {id \in OpenRows(r) : reservation[r][id[1]][id[2]].unit # NoUnit}

\* A cancellation has found all the reservations that hold a unit, and a
\* cancelled request has none.
CancelInv ==
  /\ \A t \in Txn, r \in Request :
       tx[t].kind = "cancel" /\ tx[t].step = "write" /\ tx[t].req = r =>
         HoldingRows(r) \subseteq tx[t].rows
  /\ \A r \in Request : status[r] = "CANCELLED" => HoldingRows(r) = {}

LEMMA CancelInit == Init => CancelInv
<1>1. ASSUME Init, NEW r \in Request  PROVE HoldingRows(r) = {}
  BY <1>1 DEF Init, HoldingRows, OpenRows, Live, NoRow
<1> QED  BY <1>1 DEF Init, CancelInv, Idle

(* Nothing but a cancellation shows a request as cancelled. *)
LEMMA CancelsByCancel ==
  ASSUME TypeOK, NEW t \in Txn, Acts(t), NEW r \in Request,
         status'[r] = "CANCELLED", status[r] # "CANCELLED"
  PROVE  WriteCancel(t) /\ tx[t].req = r
<1>1. tx[t].req = r
  BY OwnRows
<1>2. ASSUME UNCHANGED tables \/ WriteInspect(t)  PROVE FALSE
  BY <1>2 DEF tables, WriteInspect
<1>3. ASSUME WriteCreate(t) \/ WriteReject(t) \/ WriteApprove(t)  PROVE FALSE
  BY <1>1, <1>3 DEF WriteCreate, WriteReject, WriteApprove, TypeOK, TablesOK
<1>4. ASSUME WriteAssign(t) \/ WriteHandover(t) \/ WriteReturn(t)  PROVE FALSE
  BY <1>1, <1>4 DEF WriteAssign, WriteHandover, WriteReturn, TypeOK, TablesOK
<1> QED  BY <1>1, <1>2, <1>3, <1>4, WorkFrame DEF Commit

(* Nobody but an assignment of the request adds to them. *)
LEMMA HoldingShrinks ==
  ASSUME NeverBoth("assign", "cancel"), TypeOK, ApartInv, NEW t \in Txn, Acts(t), [Next]_vars,
         NEW r \in Request, ~ (WriteAssign(t) /\ tx[t].req = r)
  PROVE  HoldingRows(r)' \subseteq HoldingRows(r)
<1>1. CASE tx[t].req # r
  BY <1>1, OwnRows DEF HoldingRows, OpenRows, Live
<1>2. CASE tx[t].req = r /\ ~ WriteAssign(t)
  <2>1. ASSUME NEW s \in Txn, WriteAssign(s)  PROVE FALSE
    <3>1. tx'[s] = Idle /\ tx[s] # Idle
      <4>1. End(s) /\ tx[s].kind = "assign"
        BY <2>1 DEF WriteAssign
      <4>2. tx'[s] = Idle
        BY <4>1, EndFrame
      <4> QED  BY <4>1, <4>2 DEF Idle
    <3>2. s = t
      BY <3>1, WorkFrame
    <3> QED  BY <1>2, <2>1, <3>2
  <2>2. Shrinks
    BY <2>1, ShrinksStep
  <2>3. \A id : id \in HoldingRows(r)' <=>
          /\ id \in Model \X Copy /\ Live(reservation'[r][id[1]][id[2]])
          /\ reservation'[r][id[1]][id[2]].unit # NoUnit
    BY DEF HoldingRows, OpenRows, Live
  <2>4. \A id : id \in HoldingRows(r) <=>
          /\ id \in Model \X Copy /\ Live(reservation[r][id[1]][id[2]])
          /\ reservation[r][id[1]][id[2]].unit # NoUnit
    BY DEF HoldingRows, OpenRows
  <2>5. ASSUME NEW id \in HoldingRows(r)'  PROVE id \in HoldingRows(r)
    <3>1. id[1] \in Model /\ id[2] \in Copy
      BY <2>3, <2>5
    <3> QED  BY <2>2, <2>3, <2>4, <2>5, <3>1 DEF Shrinks
  <2> QED  BY <2>5
<1> QED  BY <1>1, <1>2

LEMMA CancelStep ==
  ASSUME NeverBoth("assign", "cancel"), TypeOK, ApartInv, CancelInv, [Next]_vars
  PROVE  CancelInv'
<1>1. ASSUME NEW t \in Txn, Acts(t)  PROVE CancelInv'
  <2>1. ASSUME NEW s \in Txn, NEW r \in Request,
               tx'[s].kind = "cancel", tx'[s].step = "write", tx'[s].req = r
        PROVE  HoldingRows(r)' \subseteq tx'[s].rows
    <3>1. CASE s # t
      <4>1. tx'[s] = tx[s]
        BY <1>1, <3>1, WorkFrame
      <4>2. ~ (WriteAssign(t) /\ tx[t].req = r)
        <5>1. tx[t].req = tx[s].req => {tx[t].kind, tx[s].kind} \notin Apart
          BY <2>1, <3>1, <4>1 DEF ApartInv
        <5> QED  BY <2>1, <4>1, <5>1 DEF WriteAssign, NeverBoth
      <4>3. HoldingRows(r)' \subseteq HoldingRows(r)
        BY <1>1, <4>2, HoldingShrinks
      <4>4. HoldingRows(r) \subseteq tx[s].rows
        BY <2>1, <4>1 DEF CancelInv
      <4> QED  BY <4>1, <4>3, <4>4
    <3>2. CASE s = t
      <4>1. ~ Begin(t)
        <5>1. ASSUME Begin(t)  PROVE tx'[t].step = "release"
          <6>1. PICK q \in Request : BeginCancel(t, q)
            BY <2>1, <3>2, <5>1, BeginKinds
          <6> QED  BY <6>1 DEF BeginCancel, Idle, TypeOK, TxOK
        <5> QED  BY <2>1, <3>2, <5>1
      <4>2. FindCancelled(t) /\ tx'[t].req = tx[t].req
        BY <1>1, <2>1, <3>2, <4>1, WorkFrame DEF Idle
      <4>3. tx'[t].rows = OpenRows(r) /\ UNCHANGED tables
        BY <2>1, <3>2, <4>2, FindFrame DEF FindCancelled
      <4>4. HoldingRows(r)' \subseteq OpenRows(r)
        BY <4>3 DEF tables, HoldingRows, OpenRows, Live
      <4> QED  BY <3>2, <4>3, <4>4
    <3> QED  BY <3>1, <3>2
  <2>2. ASSUME NEW r \in Request, status'[r] = "CANCELLED"  PROVE HoldingRows(r)' = {}
    <3>1. ~ (WriteAssign(t) /\ tx[t].req = r)
      BY <2>2 DEF WriteAssign, TypeOK, TablesOK
    <3>2. HoldingRows(r)' \subseteq HoldingRows(r)
      BY <1>1, <3>1, HoldingShrinks
    <3>3. CASE status[r] = "CANCELLED"
      BY <3>2, <3>3 DEF CancelInv
    <3>4. CASE status[r] # "CANCELLED"
      <4>1. WriteCancel(t) /\ tx[t].req = r
        BY <1>1, <2>2, <3>4, CancelsByCancel
      <4>2. HoldingRows(r) \subseteq tx[t].rows /\ Release(r, tx[t].rows)
        BY <4>1 DEF WriteCancel, CancelInv
      <4>3. ASSUME NEW id \in HoldingRows(r)'  PROVE FALSE
        <5>1. PICK m \in Model, c \in Copy : id = <<m, c>>
          BY DEF HoldingRows, OpenRows
        <5>2. <<m, c>> \in tx[t].rows
          BY <3>2, <4>2, <4>3, <5>1
        <5>3. reservation'[r][m][c] = [reservation[r][m][c] EXCEPT !.status = "RELEASED"]
          BY <4>2, <5>2 DEF Release, TypeOK, TablesOK
        <5>4. reservation[r][m][c] \in Row
          BY DEF TypeOK, TablesOK
        <5>5. Live(reservation'[r][m][c])
          BY <4>3, <5>1 DEF HoldingRows, OpenRows, Live
        <5> QED  BY <5>3, <5>4, <5>5 DEF Row, Live
      <4> QED  BY <4>3
    <3> QED  BY <3>3, <3>4
  <2> QED  BY <2>1, <2>2 DEF CancelInv
<1>2. ASSUME Tick \/ UNCHANGED vars  PROVE CancelInv'
  <2>1. UNCHANGED <<tx, reservation, status>>
    BY <1>2 DEF Tick, vars, tables
  <2> QED  BY <2>1 DEF CancelInv, HoldingRows, OpenRows, Live
<1> QED  BY <1>1, <1>2 DEF Next, Acts

(* A request that is over holds no unit: a rejection and a return release    *)
(* all that is pinned, a return knowing what is still out; a cancellation    *)
(* has found whatever it must release, as long as no assignment adds to it   *)
(* before it ends, and after it a handover or a return only takes away.      *)
THEOREM OverCorrect == Spec => []OverFreesUnits
<1> DEFINE Clear == NeverBoth("assign", "cancel")
<1>1. Init => (Clear => CancelInv)
  BY CancelInit
<1>2. TypeOK /\ ApartInv /\ (Clear => CancelInv) /\ [Next]_vars => (Clear => CancelInv)'
  BY CancelStep DEF NeverBoth
<1>3. TypeOK /\ (NeverBoth("handover", "assign") => LoanInv) /\ (Clear => CancelInv)
        => OverFreesUnits
  <2> SUFFICES ASSUME TypeOK, LoanInv, CancelInv, NEW r \in Request,
                      status[r] \in {"REJECTED", "CANCELLED", "CLOSED"},
                      NEW m \in Model, NEW c \in Copy, Live(reservation[r][m][c])
               PROVE  reservation[r][m][c].unit = NoUnit
    BY DEF OverFreesUnits
  <2>1. reservation[r][m][c].unit \in Unit \cup {NoUnit}
    BY DEF TypeOK, TablesOK, Row
  <2>2. CASE status[r] \in {"REJECTED", "CLOSED"}
    <3>1. Held(r) = {}
      BY <2>2 DEF LoanInv, LoanRow
    <3> QED  BY <2>1, <3>1 DEF Held
  <2>3. CASE status[r] = "CANCELLED"
    <3>1. HoldingRows(r) = {}
      BY <2>3 DEF CancelInv
    <3>2. <<m, c>> \in OpenRows(r)
      BY DEF OpenRows
    <3>3. <<m, c>> \in HoldingRows(r) <=> reservation[r][m][c].unit # NoUnit
      BY <3>2 DEF HoldingRows
    <3> QED  BY <3>1, <3>3
  <2> QED  BY <2>2, <2>3
<1> QED
  BY <1>1, <1>2, <1>3, TypeCorrect, ApartCorrect, LoanCorrect, PTL DEF Spec

-----------------------------------------------------------------------------
(* Loans are followed up, when no handover overlaps a cancellation either *)

\* Nobody cancels a request that has lent something.
TrackInv ==
  /\ \A t \in Txn : tx[t].kind = "cancel" => Lent(tx[t].req) = {}
  /\ \A r \in Request : Lent(r) # {} => status[r] # "CANCELLED"

LEMMA TrackInit == Init => TrackInv
<1>1. ASSUME Init, NEW r \in Request  PROVE Lent(r) = {}
  BY <1>1 DEF Init, Lent
<1> QED  BY <1>1 DEF Init, TrackInv, Idle

(* Only a handover lends. *)
LEMMA LendsByHandover ==
  ASSUME TypeOK, LoanInv, NEW t \in Txn, Acts(t), NEW r \in Request
  PROVE  Lent(r)' = Lent(r) \/ (WriteHandover(t) /\ tx[t].req = r)
<1>1. CASE tx[t].req # r
  BY <1>1, OwnRows DEF Lent
<1>2. CASE WriteReturn(t)
  BY <1>2 DEF WriteReturn, Lent
<1>3. CASE UNCHANGED tables
  BY <1>3 DEF tables, Lent
<1>4. CASE WriteCreate(t) \/ WriteReject(t) \/ WriteApprove(t) \/ WriteCancel(t) \/ WriteAssign(t)
           \/ WriteInspect(t)
  BY <1>4 DEF WriteCreate, WriteReject, WriteApprove, WriteCancel, WriteAssign, WriteInspect, Lent
<1> QED  BY <1>1, <1>2, <1>3, <1>4, WorkFrame DEF Commit

LEMMA TrackStep ==
  ASSUME NeverBoth("handover", "cancel"), TypeOK, ApartInv, LoanInv, TrackInv, [Next]_vars
  PROVE  TrackInv'
<1>0. NoRequest \notin Request
  BY ConstantsAssumption
<1>1. ASSUME NEW t \in Txn, Acts(t)  PROVE TrackInv'
  <2>1. ASSUME NEW s \in Txn, tx'[s].kind = "cancel"  PROVE Lent(tx[s].req)' = {}
    <3>1. CASE s = t /\ Begin(t)
      <4>1. PICK r \in Request : BeginCancel(t, r)
        BY <2>1, <3>1, BeginKinds
      <4>2. tx'[t].req = r /\ UNCHANGED lent /\ status[r] \in Cancellable
        BY <4>1 DEF BeginCancel, Cancellable, tables, Idle, TypeOK, TxOK
      <4>3. Lent(r) = {}
        BY <4>2 DEF LoanInv, LoanRow, Cancellable
      <4> QED  BY <3>1, <4>2, <4>3 DEF Lent
    <3>2. CASE ~ (s = t /\ Begin(t))
      <4>1. tx[s].kind = "cancel" /\ tx'[s].req = tx[s].req
        BY <1>1, <2>1, <3>2, WorkFrame DEF Idle
      <4>2. PICK r \in Request : tx[s].req = r
        BY <4>1, TxnTypes DEF Handlers
      <4>3. Lent(r) = {}
        BY <4>1, <4>2 DEF TrackInv
      <4>4. ~ (WriteHandover(t) /\ tx[t].req = r)
        <5> SUFFICES ASSUME WriteHandover(t), tx[t].req = r  PROVE FALSE
          OBVIOUS
        <5>1. tx[t].kind = "handover" /\ s # t
          BY <4>1 DEF WriteHandover
        <5>2. {tx[t].kind, tx[s].kind} \notin Apart
          BY <4>2, <5>1 DEF ApartInv
        <5> QED  BY <4>1, <5>1, <5>2 DEF NeverBoth
      <4>5. Lent(r)' = Lent(r)
        BY <1>1, <4>4, LendsByHandover
      <4>6. tx'[s].req = r
        BY <4>1, <4>2
      <4> QED  BY <4>3, <4>5, <4>6 DEF Lent
    <3> QED  BY <3>1, <3>2
  <2>2. ASSUME NEW r \in Request, Lent(r)' # {}, status'[r] = "CANCELLED"  PROVE FALSE
    <3>1. CASE WriteHandover(t) /\ tx[t].req = r
      BY <2>2, <3>1, HandoverLends
    <3>2. CASE Lent(r)' = Lent(r)
      <4>1. status[r] # "CANCELLED"
        BY <2>2, <3>2 DEF TrackInv
      <4>2. WriteCancel(t) /\ tx[t].req = r
        BY <1>1, <2>2, <4>1, CancelsByCancel
      <4> QED  BY <2>2, <3>2, <4>2 DEF WriteCancel, TrackInv
    <3> QED  BY <1>1, <3>1, <3>2, LendsByHandover
  <2> QED  BY <2>1, <2>2 DEF TrackInv
<1>2. ASSUME Tick \/ UNCHANGED vars  PROVE TrackInv'
  <2>1. UNCHANGED <<tx, lent, status>>
    BY <1>2 DEF Tick, vars, tables
  <2> QED  BY <2>1 DEF TrackInv, Lent
<1> QED  BY <1>1, <1>2 DEF Next, Acts

(* A unit that is out belongs to a request that follows it up: who cancels,  *)
(* does so before anything is handed over, and a request is closed only      *)
(* when what its first handover recorded has come back, however many returns *)
(* and handovers of it overlap.                                              *)
THEOREM TrackedCorrect == Spec => []LoanIsTracked
<1> DEFINE Clear == NeverBoth("handover", "cancel") /\ NeverBoth("handover", "assign")
<1>1. Init => (Clear => TrackInv)
  BY TrackInit
<1>2. TypeOK /\ ApartInv /\ (NeverBoth("handover", "assign") => LoanInv) /\ (Clear => TrackInv)
        /\ [Next]_vars => (Clear => TrackInv)'
  BY TrackStep DEF NeverBoth
<1>3. (NeverBoth("handover", "assign") => LoanInv) /\ (Clear => TrackInv) => LoanIsTracked
  <2> SUFFICES ASSUME LoanInv, TrackInv, NEW r \in Request, NEW u \in Unit, OutFor(r, u)
               PROVE  status[r] \in {"ON_LOAN", "PARTIALLY_RETURNED"}
    BY DEF LoanIsTracked, Tracked
  <2>1. Lent(r) # {} /\ LoanRow(r)
    BY DEF LoanInv, OutFor, Lent
  <2> QED  BY <2>1 DEF LoanRow, TrackInv
<1> QED
  BY <1>1, <1>2, <1>3, TypeCorrect, ApartCorrect, LoanCorrect, PTL DEF Spec

-----------------------------------------------------------------------------
(* The last unit closes, when handovers and returns do not overlap their kind *)

\* A handover is the first of its request; a return receives units that are
\* out, and has read which others are.
CloseTx(t) ==
  LET r == tx[t].req IN
  /\ tx[t].kind = "handover" => Lent(r) = {}
  /\ tx[t].kind = "return" =>
       /\ \A u \in tx[t].units : OutFor(r, u)
       /\ \A u \in tx[t].out : u \in Unit /\ OutFor(r, u)

CloseRow(r) ==
  /\ \A u \in Unit : returned[r][u] <= lent[r][u] /\ lent[r][u] <= 1
  /\ status[r] \in {"ON_LOAN", "PARTIALLY_RETURNED"} => \E u \in Unit : OutFor(r, u)

CloseInv ==
  /\ \A t \in Txn : CloseTx(t)
  /\ \A r \in Request : CloseRow(r)

LEMMA CloseInit == Init => CloseInv
<1>1. ASSUME Init, NEW t \in Txn  PROVE CloseTx(t)
  BY <1>1 DEF Init, CloseTx, Idle
<1>2. ASSUME Init, NEW r \in Request  PROVE CloseRow(r)
  BY <1>2 DEF Init, CloseRow
<1> QED  BY <1>1, <1>2 DEF CloseInv

LEMMA CloseTxKept ==
  ASSUME NEW s \in Txn, CloseTx(s), tx'[s] = tx[s],
         NEW q \in Request, tx[s].req = q, lent'[q] = lent[q], returned'[q] = returned[q]
  PROVE  CloseTx(s)'
<1>1. Lent(q)' = Lent(q) /\ \A u \in Unit : OutFor(q, u)' <=> OutFor(q, u)
  BY DEF Lent, OutFor
<1>2. \A u : OutFor(q, u)' <=> OutFor(q, u)
  BY DEF OutFor
<1> QED  BY <1>1, <1>2 DEF CloseTx

(* Nothing but a handover and a return changes what a request has lent and   *)
(* received, and nothing else leaves it open.                                *)
LEMMA LoanWriters ==
  ASSUME TypeOK, NEW t \in Txn, Acts(t), NEW r \in Request,
         ~ (WriteHandover(t) /\ tx[t].req = r), ~ (WriteReturn(t) /\ tx[t].req = r)
  PROVE  /\ lent'[r] = lent[r] /\ returned'[r] = returned[r]
         /\ status'[r] \in {"ON_LOAN", "PARTIALLY_RETURNED", "CLOSED"} => status'[r] = status[r]
<1>1. CASE tx[t].req # r
  BY <1>1, OwnRows
<1>2. CASE UNCHANGED tables \/ WriteInspect(t)
  BY <1>2 DEF tables, WriteInspect
<1>3. CASE tx[t].req = r /\ (WriteCreate(t) \/ WriteReject(t) \/ WriteApprove(t))
  BY <1>3 DEF WriteCreate, WriteReject, WriteApprove, TypeOK, TablesOK
<1>4. CASE tx[t].req = r /\ (WriteCancel(t) \/ WriteAssign(t))
  BY <1>4 DEF WriteCancel, WriteAssign, TypeOK, TablesOK
<1> QED  BY <1>1, <1>2, <1>3, <1>4, WorkFrame DEF Commit

LEMMA CloseOthers ==
  ASSUME NeverBoth("handover", "handover"), NeverBoth("return", "return"),
         TypeOK, ApartInv, LoanInv, CloseInv, NEW t \in Txn, Acts(t), NEW s \in Txn \ {t}
  PROVE  CloseTx(s)'
<1>1. tx'[s] = tx[s] /\ CloseTx(s) /\ LoanTx(s)
  BY WorkFrame DEF CloseInv, LoanInv
<1>2. CASE tx[s].kind \notin {"handover", "return"}
  BY <1>1, <1>2 DEF CloseTx
<1>3. CASE tx[s].kind \in {"handover", "return"}
  <2>1. PICK r \in Request : tx[s].req = r
    BY <1>3, TxnTypes DEF Handlers
  <2>2. CASE ~ (WriteHandover(t) /\ tx[t].req = r) /\ ~ (WriteReturn(t) /\ tx[t].req = r)
    BY <1>1, <2>1, <2>2, LoanWriters, CloseTxKept
  <2>3. ASSUME tx[t].req = r, tx[t].kind \in {"handover", "return"}  PROVE tx[t].kind # tx[s].kind
    <3>1. {tx[s].kind, tx[t].kind} \notin Apart
      BY <2>1, <2>3 DEF ApartInv
    <3>2. {"handover"} \in Apart /\ {"return"} \in Apart
      <4>1. {"handover", "handover"} = {"handover"} /\ {"return", "return"} = {"return"}
        OBVIOUS
      <4> QED  BY <4>1 DEF NeverBoth
    <3> SUFFICES ASSUME tx[t].kind = tx[s].kind  PROVE FALSE
      OBVIOUS
    <3>3. {tx[s].kind, tx[t].kind} = {tx[t].kind}
      OBVIOUS
    <3> QED  BY <2>3, <3>1, <3>2, <3>3
  <2>4. ASSUME tx[t].req = r, \/ tx[s].kind = "return" /\ tx[t].kind = "handover"
                              \/ tx[s].kind = "handover" /\ tx[t].kind = "return"
        PROVE  FALSE
    <3>1. Lent(r) = {}
      BY <2>1, <2>4 DEF CloseInv, CloseTx
    <3>2. Lent(r) # {}
      BY <2>1, <2>4 DEF LoanInv, LoanTx
    <3> QED  BY <3>1, <3>2
  <2> QED  BY <1>3, <2>2, <2>3, <2>4 DEF WriteHandover, WriteReturn
<1> QED  BY <1>2, <1>3

LEMMA CloseActor ==
  ASSUME TypeOK, LoanInv, CloseInv, NEW t \in Txn, Acts(t)
  PROVE  CloseTx(t)'
<1>1. CASE tx'[t].kind \notin {"handover", "return"}
  BY <1>1 DEF CloseTx
<1>2. CASE Begin(t) /\ tx'[t].kind = "handover"
  <2>1. PICK r \in Request : BeginHandover(t, r)
    BY <1>2, BeginKinds
  <2>2. tx'[t].req = r /\ UNCHANGED lent
    BY <2>1 DEF BeginHandover, tables, Idle, TypeOK, TxOK
  <2>3. Lent(r) = {}
    BY <2>1 DEF BeginHandover, LoanInv, LoanRow
  <2> QED  BY <1>2, <2>2, <2>3 DEF CloseTx, Lent
<1>3. CASE Begin(t) /\ tx'[t].kind = "return"
  <2>1. PICK r \in Request : BeginReturn(t, r)
    BY <1>3, BeginKinds
  <2>2. PICK units \in (SUBSET {u \in Unit : OutFor(r, u)}) \ {{}} :
          tx' = [tx EXCEPT ![t] = [Idle EXCEPT !.kind = "return", !.step = "release",
                   !.req = r, !.units = units, !.out = Unreturned(r)]]
    BY <2>1 DEF BeginReturn
  <2>3. tx'[t].req = r /\ tx'[t].units = units /\ tx'[t].out = Unreturned(r)
    BY <2>2 DEF Idle, TypeOK, TxOK
  <2>4. UNCHANGED <<lent, returned>>
    BY <2>1 DEF BeginReturn, tables
  <2>5. \A u \in Unit : /\ lent[r][u] \in Nat /\ returned[r][u] \in Nat
                        /\ returned[r][u] <= lent[r][u] /\ lent[r][u] <= 1
    BY DEF TypeOK, TablesOK, CloseInv, CloseRow
  <2>6. \A u \in Unreturned(r) : u \in Unit /\ OutFor(r, u)
    BY <2>5 DEF Unreturned, OutFor
  <2>7. \A u : OutFor(r, u)' <=> OutFor(r, u)
    BY <2>4 DEF OutFor
  <2> QED  BY <1>3, <2>2, <2>3, <2>6, <2>7 DEF CloseTx
<1>4. tx'[t] = Idle => tx'[t].kind \notin {"handover", "return"}
  BY DEF Idle
<1>5. CASE FindReturned(t) /\ tx[t].kind = "return"
           /\ tx'[t].kind = tx[t].kind /\ tx'[t].req = tx[t].req
           /\ tx'[t].units = tx[t].units /\ tx'[t].out = tx[t].out
  <2>1. UNCHANGED <<lent, returned>>
    BY <1>5 DEF FindReturned, FindRows, tables
  <2>2. CloseTx(t)
    BY DEF CloseInv
  <2>3. \A r, u : OutFor(r, u)' <=> OutFor(r, u)
    BY <2>1 DEF OutFor
  <2> QED  BY <1>5, <2>1, <2>2, <2>3 DEF CloseTx
<1> QED  BY <1>1, <1>2, <1>3, <1>4, <1>5, WorkFrame

LEMMA CloseRows ==
  ASSUME TypeOK, LoanInv, CloseInv, NEW t \in Txn, Acts(t), NEW r \in Request
  PROVE  CloseRow(r)'
<1>1. CloseRow(r) /\ CloseTx(t) /\ LoanRow(r)
  BY DEF CloseInv, LoanInv
<1>2. \A u \in Unit : lent[r][u] \in Nat /\ returned[r][u] \in Nat
  BY DEF TypeOK, TablesOK
<1>3. CASE WriteHandover(t) /\ tx[t].req = r
  <2>1. /\ UNCHANGED returned
        /\ \A u \in Unit : lent'[r][u] = IF u \in Pinned(r) THEN lent[r][u] + 1 ELSE lent[r][u]
        /\ Pinned(r) # {} /\ Pinned(r) \subseteq Unit
    BY <1>3, HandoverLends
  <2>2. \A u \in Unit : lent[r][u] = 0 /\ returned[r][u] = 0
    <3>1. Lent(r) = {}
      BY <1>1, <1>3 DEF WriteHandover, CloseTx
    <3> QED  BY <1>1, <1>2, <3>1 DEF Lent, CloseRow
  <2>3. \A u \in Unit : returned'[r][u] = 0 /\ lent'[r][u] = IF u \in Pinned(r) THEN 1 ELSE 0
    BY <2>1, <2>2
  <2>4. \E u \in Unit : OutFor(r, u)'
    BY <2>1, <2>3 DEF OutFor
  <2> QED  BY <2>3, <2>4 DEF CloseRow
<1>4. CASE WriteReturn(t) /\ tx[t].req = r
  <2>1. /\ status'[r] = IF StillOut(t) = {} THEN "CLOSED" ELSE "PARTIALLY_RETURNED"
        /\ lent'[r] = lent[r]
        /\ \A u \in Unit : returned'[r][u] = IF u \in tx[t].units THEN returned[r][u] + 1
                                             ELSE returned[r][u]
        /\ \A u \in Unit : OutFor(r, u)' <=> OutFor(r, u) /\ u \notin tx[t].units
    BY <1>4, ReturnReceives
  <2>2. /\ \A u \in tx[t].units : OutFor(r, u)
        /\ \A u \in tx[t].out : u \in Unit /\ OutFor(r, u)
    BY <1>1, <1>4 DEF WriteReturn, CloseTx
  <2>3. \A u \in Unit : returned'[r][u] <= lent'[r][u] /\ lent'[r][u] <= 1
    BY <1>1, <1>2, <2>1, <2>2 DEF CloseRow, OutFor
  <2>4. StillOut(t) # {} => \E u \in Unit : OutFor(r, u)'
    BY <2>1, <2>2 DEF StillOut
  <2> QED  BY <2>1, <2>3, <2>4 DEF CloseRow
<1>5. CASE ~ (WriteHandover(t) /\ tx[t].req = r) /\ ~ (WriteReturn(t) /\ tx[t].req = r)
  <2>1. /\ lent'[r] = lent[r] /\ returned'[r] = returned[r]
        /\ status'[r] \in {"ON_LOAN", "PARTIALLY_RETURNED"} => status'[r] = status[r]
    BY <1>5, LoanWriters
  <2> QED  BY <1>1, <2>1 DEF CloseRow, OutFor
<1> QED  BY <1>3, <1>4, <1>5

LEMMA CloseStep ==
  ASSUME NeverBoth("handover", "handover"), NeverBoth("return", "return"),
         TypeOK, ApartInv, LoanInv, CloseInv, [Next]_vars
  PROVE  CloseInv'
<1>1. ASSUME NEW t \in Txn, Acts(t)  PROVE CloseInv'
  BY <1>1, CloseOthers, CloseActor, CloseRows DEF CloseInv
<1>2. ASSUME Tick \/ UNCHANGED vars  PROVE CloseInv'
  <2>1. UNCHANGED <<tx, status, lent, returned>>
    BY <1>2 DEF Tick, vars, tables
  <2> QED  BY <2>1 DEF CloseInv, CloseTx, CloseRow, Lent, OutFor
<1> QED  BY <1>1, <1>2 DEF Next, Acts

(* A request closes with the last of its units, and not before: when a       *)
(* handover is the only one and returns come one after the other, every unit *)
(* goes out once and is received once, however cancellations interfere.      *)
THEOREM ClosesCorrect == Spec => []ClosesWithLastUnit
<1> DEFINE Clear == /\ NeverBoth("handover", "assign")
                    /\ NeverBoth("handover", "handover") /\ NeverBoth("return", "return")
<1>1. Init => (Clear => CloseInv)
  BY CloseInit
<1>2. TypeOK /\ ApartInv /\ (NeverBoth("handover", "assign") => LoanInv) /\ (Clear => CloseInv)
        /\ [Next]_vars => (Clear => CloseInv)'
  BY CloseStep DEF NeverBoth
<1>3. (NeverBoth("handover", "assign") => LoanInv) /\ (Clear => CloseInv) => ClosesWithLastUnit
  BY DEF ClosesWithLastUnit, CloseInv, CloseRow, LoanInv, LoanRow
<1> QED
  BY <1>1, <1>2, <1>3, TypeCorrect, ApartCorrect, LoanCorrect, PTL DEF Spec

-----------------------------------------------------------------------------
(* Promises, when no assignment overlaps a cancellation or a handover *)

\* The open reservations of request r for model m.
LiveOf(r, m) == {c \in Copy : Live(reservation[r][m][c])}

\* A submission that locked its models found room for the lines it will tell
\* RESERVED.  An assignment has read the reservations that are still open of
\* every promised line, and its request still waits for its units.
PromiseTx(t) ==
  LET r == tx[t].req IN
  /\ tx[t].kind = "create" =>
       /\ \A m \in Lines(r) : modelLock[m] = t \/ (tx[t].step = "lock" /\ m \in tx[t].wants)
       /\ tx[t].step = "write" =>
            \A m \in tx[t].enough :
              /\ m \in Lines(r)
              /\ Cardinality(Busy(r, m)) + Quantity[r][m] <= Cardinality(UnitsOf(m))
  /\ tx[t].kind = "assign" =>
       /\ status[r] \in {"APPROVED", "PREPARING"}
       /\ \A m \in Model : <<r, m>> \in promised =>
            {c \in Copy : <<m, c>> \in tx[t].rows} = LiveOf(r, m)
       /\ \A m \in Model : (\E u \in tx[t].units : ModelOf[u] = m) =>
            Cardinality(tx[t].units \cap UnitsOf(m)) = Quantity[r][m]

\* Until its units are handed over, a promised line has as many open
\* reservations as it asks for.
PromiseRow(r) ==
  /\ status[r] = "ABSENT" => \A m \in Model : <<r, m>> \notin promised
  /\ status[r] \in {"PENDING_APPROVAL", "APPROVED", "PREPARING"} =>
       \A m \in Model : <<r, m>> \in promised => Cardinality(LiveOf(r, m)) = Quantity[r][m]

Fits ==
  \A m \in Model, time \in Nat : Cardinality(PromisedAt(m, time)) <= Cardinality(UnitsOf(m))

PromiseInv ==
  /\ \A t \in Txn : PromiseTx(t)
  /\ \A r \in Request : PromiseRow(r)
  /\ Fits

(* Everything that is counted is finite. *)
LEMMA PromiseFinite ==
  ASSUME NEW r \in Request, NEW m \in Model, NEW time
  PROVE  /\ IsFiniteSet(Busy(r, m)) /\ IsFiniteSet(PromisedAt(m, time))
         /\ IsFiniteSet(UnitsOf(m)) /\ IsFiniteSet(LiveOf(r, m))
         /\ Cardinality(Busy(r, m)) \in Nat /\ Cardinality(PromisedAt(m, time)) \in Nat
         /\ Cardinality(UnitsOf(m)) \in Nat /\ Cardinality(LiveOf(r, m)) \in Nat
<1>1. IsFiniteSet(Request \X Copy) /\ IsFiniteSet(Unit) /\ IsFiniteSet(Copy)
  BY FiniteAssumption, FS_Product
<1>2. Busy(r, m) \subseteq Request \X Copy /\ PromisedAt(m, time) \subseteq Request \X Copy
  BY DEF Busy, PromisedAt
<1>3. UnitsOf(m) \subseteq Unit /\ LiveOf(r, m) \subseteq Copy
  BY DEF UnitsOf, LiveOf
<1>4. /\ IsFiniteSet(Busy(r, m)) /\ IsFiniteSet(PromisedAt(m, time))
      /\ IsFiniteSet(UnitsOf(m)) /\ IsFiniteSet(LiveOf(r, m))
  BY <1>1, <1>2, <1>3, FS_Subset
<1> QED  BY <1>4, FS_CardinalityType

(* What availability found leaves room for the line among all units. *)
LEMMA EnoughRoom ==
  ASSUME TypeOK, NEW r \in Request, NEW m \in Model, Enough(r, m)
  PROVE  Cardinality(Busy(r, m)) + Quantity[r][m] <= Cardinality(UnitsOf(m))
<1> DEFINE Of(u) == {u} \X UnderRepair(u, r)
           F == {Of(u) : u \in UnitsOf(m)}
           f == [u \in UnitsOf(m) |-> Of(u)]
           out == Cardinality(UNION F)
<1>1. /\ IsFiniteSet(UnitsOf(m)) /\ Cardinality(UnitsOf(m)) \in Nat
      /\ Cardinality(Busy(r, m)) \in Nat
  BY PromiseFinite
<1>2. ASSUME NEW u \in UnitsOf(m)  PROVE IsFiniteSet(Of(u))
  <2>1. u \in Unit /\ repairs[u] \in Seq(Nat)
    BY <1>2 DEF UnitsOf, TypeOK, TablesOK
  <2>2. DOMAIN repairs[u] = 1..Len(repairs[u]) /\ Len(repairs[u]) \in Nat
    BY <2>1
  <2>3. IsFiniteSet(1..Len(repairs[u]))
    BY <2>2, FS_Interval
  <2>4. IsFiniteSet(UnderRepair(u, r))
    BY <2>2, <2>3, FS_Subset DEF UnderRepair
  <2> QED  BY <2>4, FS_Singleton, FS_Product
<1>3. f \in Surjection(UnitsOf(m), F)
  BY DEF Surjection
<1>4. IsFiniteSet(F)
  <2> HIDE DEF f, F
  <2> QED  BY <1>1, <1>3, FS_Surjection
<1>5. \A T \in F : IsFiniteSet(T)
  <2> HIDE DEF Of
  <2> QED  BY <1>2
<1>6. out \in Nat
  <2> HIDE DEF F
  <2> QED  BY <1>4, <1>5, FS_UNION, FS_CardinalityType
<1>7. Usable(m) \subseteq UnitsOf(m)
  BY DEF Usable
<1>8. Cardinality(Usable(m)) \in Nat /\ Cardinality(Usable(m)) <= Cardinality(UnitsOf(m))
  BY <1>1, <1>7, FS_Subset, FS_CardinalityType
<1>9. Cardinality(Busy(r, m)) + out + Quantity[r][m] <= Cardinality(Usable(m))
  BY DEF Enough
<1>10. Quantity[r][m] \in Nat
  BY ConstantsAssumption
<1> HIDE DEF out
<1> QED  BY <1>1, <1>6, <1>8, <1>9, <1>10

LEMMA PromiseInit == Init => PromiseInv
<1> SUFFICES ASSUME Init  PROVE PromiseInv
  OBVIOUS
<1>1. \A t \in Txn : PromiseTx(t)
  BY DEF Init, PromiseTx, Idle
<1>2. \A r \in Request : PromiseRow(r)
  BY DEF Init, PromiseRow
<1>3. ASSUME NEW m \in Model, NEW time \in Nat
      PROVE  Cardinality(PromisedAt(m, time)) <= Cardinality(UnitsOf(m))
  <2>1. PromisedAt(m, time) = {}
    BY DEF Init, PromisedAt
  <2>2. IsFiniteSet(UnitsOf(m))
    BY FiniteAssumption, FS_Subset DEF UnitsOf
  <2> QED  BY <2>1, <2>2, FS_EmptySet, FS_CardinalityType
<1> QED  BY <1>1, <1>2, <1>3 DEF PromiseInv, Fits

(* A lock stays with the transaction that has it while another one works. *)
LEMMA LockStays ==
  ASSUME TypeOK, NEW t \in Txn, Acts(t), NEW s \in Txn \ {t}, NEW m \in Model,
         modelLock[m] = s
  PROVE  modelLock'[m] = s
<1>0. NoTxn \notin Txn
  BY ConstantsAssumption
<1>1. CASE End(t)
  BY <1>1, EndFrame
<1>2. CASE TakeModelLock(t)
  BY <1>0, <1>2 DEF TakeModelLock, Free, TypeOK, LocksOK
<1>3. CASE UNCHANGED modelLock
  BY <1>3
<1>4. Begin(t) => UNCHANGED modelLock
  BY DEF Begin, BeginCreate, BeginDecide, BeginCancel, BeginAssign, BeginHandover,
         BeginReturn, BeginInspect, locks
<1>5. Continue(t) => TakeModelLock(t) \/ UNCHANGED modelLock \/ End(t)
  BY DEF Continue, CheckAvailability, CheckAssign, FindCancelled, FindReturned, FindRows, locks
<1> QED  BY <1>1, <1>2, <1>3, <1>4, <1>5, CommitEnds DEF Acts

(* Only create() and assign() open reservations, and only of models whose    *)
(* lock they hold.                                                           *)
LEMMA OpensUnderLock ==
  ASSUME TypeOK, HoldsLocks, PromiseInv, NEW t \in Txn, Acts(t),
         NEW q \in Request, NEW m \in Model, NEW c \in Copy,
         Live(reservation'[q][m][c]), ~ Live(reservation[q][m][c])
  PROVE  /\ tx[t].req = q /\ modelLock[m] = t
         /\ \/ WriteCreate(t) /\ m \in tx[t].enough /\ c <= Quantity[q][m]
            \/ WriteAssign(t) /\ \E u \in tx[t].units : ModelOf[u] = m
<1>1. tx[t].req = q
  BY OwnRows
<1>2. reservation[q][m][c] \in Row
  BY DEF TypeOK, TablesOK
<1>3. /\ ~ Live(NoRow)
      /\ \A row \in Row : /\ ~ Live([row EXCEPT !.status = "RELEASED"])
                          /\ Live(Confirmed(row)) => Live(row)
  BY DEF Row, Live, NoRow, Confirmed
<1>4. CASE UNCHANGED reservation
  BY <1>4 DEF Live
<1>5. CASE WriteReject(t) \/ WriteCancel(t)
  <2>1. \/ reservation'[q][m][c] = reservation[q][m][c]
        \/ reservation'[q][m][c] = [reservation[q][m][c] EXCEPT !.status = "RELEASED"]
    <3>1. PICK rows : Release(q, rows)
      BY <1>1, <1>5 DEF WriteReject, WriteCancel
    <3> QED  BY <3>1 DEF Release, TypeOK, TablesOK
  <2> QED  BY <1>2, <1>3, <2>1
<1>6. CASE WriteApprove(t)
  <2>1. reservation' # reservation =>
          reservation'[q][m][c] = Confirmed(reservation[q][m][c])
    BY <1>1, <1>6 DEF WriteApprove, TypeOK, TablesOK
  <2> QED  BY <1>2, <1>3, <1>4, <2>1
<1>7. CASE WriteReturn(t)
  <2>1. \/ reservation'[q][m][c] = reservation[q][m][c]
        \/ reservation'[q][m][c] = [reservation[q][m][c] EXCEPT !.status = "RELEASED"]
    BY <1>1, <1>7 DEF WriteReturn, TypeOK, TablesOK
  <2> QED  BY <1>2, <1>3, <2>1
<1>8. CASE WriteCreate(t)
  <2>1. reservation'[q][m][c] = IF m \in tx[t].enough /\ c <= Quantity[q][m]
                                THEN [status |-> "TENTATIVE", unit |-> NoUnit] ELSE NoRow
    BY <1>1, <1>8 DEF WriteCreate, TypeOK, TablesOK
  <2>2. m \in tx[t].enough /\ c <= Quantity[q][m]
    BY <1>3, <2>1
  <2>3. m \in Lines(q) /\ modelLock[m] = t
    BY <1>1, <1>8, <2>2 DEF WriteCreate, PromiseInv, PromiseTx
  <2> QED  BY <1>1, <1>8, <2>2, <2>3
<1>9. CASE WriteAssign(t)
  <2>1. /\ reservation'[q][m][c].unit \in tx[t].units
        /\ ModelOf[reservation'[q][m][c].unit] = m
    BY <1>9, Pins DEF Live
  <2>2. tx[t].kind = "assign" /\ tx[t].step = "write"
    BY <1>9 DEF WriteAssign
  <2>3. modelLock[m] = t
    BY <2>1, <2>2 DEF HoldsLocks
  <2> QED  BY <1>1, <1>9, <2>1, <2>3
<1>10. Begin(t) \/ Continue(t) \/ Rollback(t) => UNCHANGED reservation
  BY DEF Begin, BeginCreate, BeginDecide, BeginCancel, BeginAssign, BeginHandover,
         BeginReturn, BeginInspect, Continue, TakeModelLock, CheckAvailability,
         CheckAssign, FindCancelled, FindReturned, FindRows, Rollback, tables
<1>11. WriteHandover(t) \/ WriteInspect(t) => UNCHANGED reservation
  BY DEF WriteHandover, WriteInspect
<1> QED
  BY <1>4, <1>5, <1>6, <1>7, <1>8, <1>9, <1>10, <1>11 DEF Acts, Commit

(* An assignment puts its units on the open reservations of a promised line, *)
(* one unit on each: the line has neither more nor fewer open ones after it. *)
LEMMA AssignKeepsLive ==
  ASSUME TypeOK, PromiseInv, NEW t \in Txn, WriteAssign(t),
         NEW r \in Request, tx[t].req = r,
         NEW m \in Model, <<r, m>> \in promised
  PROVE  LiveOf(r, m)' = LiveOf(r, m)
<1>0. tx[t].kind = "assign" /\ tx[t].units \subseteq Unit /\ PromiseTx(t)
  BY TxnTypes DEF WriteAssign, PromiseInv, Work
<1>1. /\ tx[t].kind = "assign" /\ status[r] \in {"APPROVED", "PREPARING"}
      /\ {c \in Copy : <<m, c>> \in tx[t].rows} = LiveOf(r, m)
      /\ tx[t].units \subseteq Unit
  BY <1>0 DEF PromiseTx
<1>2. Cardinality(LiveOf(r, m)) = Quantity[r][m] /\ IsFiniteSet(LiveOf(r, m))
  BY <1>1, PromiseFinite DEF PromiseInv, PromiseRow
<1>3. PICK f \in Placements(t) :
        reservation' = [reservation EXCEPT ![tx[t].req] =
          [n \in Model |-> [d \in Copy |->
             IF \E u \in tx[t].units : ModelOf[u] = n /\ f[u] = d
             THEN [status |-> "CONFIRMED",
                   unit |-> CHOOSE u \in tx[t].units : ModelOf[u] = n /\ f[u] = d]
             ELSE reservation[tx[t].req][n][d]]]]
  BY DEF WriteAssign
<1>4. \A c \in Copy :
        reservation'[r][m][c] =
          IF \E u \in tx[t].units : ModelOf[u] = m /\ f[u] = c
          THEN [status |-> "CONFIRMED",
                unit |-> CHOOSE u \in tx[t].units : ModelOf[u] = m /\ f[u] = c]
          ELSE reservation[r][m][c]
  BY <1>3 DEF TypeOK, TablesOK
<1> DEFINE U == tx[t].units \cap UnitsOf(m)
           used == {f[u] : u \in U}
           g == [u \in U |-> f[u]]
<1>5. \A c \in Copy : Live(reservation'[r][m][c]) <=> c \in used \/ Live(reservation[r][m][c])
  <2>1. \A c \in Copy : (\E u \in tx[t].units : ModelOf[u] = m /\ f[u] = c) <=> c \in used
    BY <1>1 DEF UnitsOf
  <2>2. \A u : Live([status |-> "CONFIRMED", unit |-> u])
    BY DEF Live
  <2> HIDE DEF used
  <2> QED  BY <1>4, <2>1, <2>2 DEF Live
<1>6. CASE U = {}
  <2>1. LiveOf(r, m)' = LiveOf(r, m)
    BY <1>5, <1>6 DEF LiveOf, Live
  <2> QED  BY <2>1
<1>7. CASE U # {}
  <2>1. PICK u0 \in tx[t].units : ModelOf[u0] = m
    BY <1>7 DEF UnitsOf
  <2> DEFINE ids == {c \in Copy : <<m, c>> \in tx[t].rows}
             fresh == {c \in Copy : reservation[r][m][c].status = "none"}
  <2>2. /\ \A u, v \in U : f[u] = f[v] => u = v
        /\ used \subseteq ids \/ ids \subseteq used
        /\ f \in [tx[t].units -> Copy]
    <3>1. /\ f \in [tx[t].units -> Copy]
          /\ \A n \in {ModelOf[u] : u \in tx[t].units} :
               LET usedBy == {f[u] : u \in tx[t].units \cap UnitsOf(n)} IN
               /\ \A u, v \in tx[t].units \cap UnitsOf(n) : f[u] = f[v] => u = v
               /\ \/ usedBy \subseteq {c \in Copy : <<n, c>> \in tx[t].rows}
                  \/ {c \in Copy : <<n, c>> \in tx[t].rows} \subseteq usedBy
      BY <1>3 DEF Placements
    <3>2. m \in {ModelOf[u] : u \in tx[t].units}
      BY <2>1
    <3> QED  BY <3>1, <3>2
  <2>3. ids = LiveOf(r, m)
    BY <1>1
  <2>4. Cardinality(U) = Quantity[r][m]
    <3>1. \E u \in tx[t].units : ModelOf[u] = m
      BY <2>1
    <3> QED  BY <1>1, <3>1 DEF PromiseInv, PromiseTx
  <2>5. IsFiniteSet(U)
    BY PromiseFinite, FS_Subset
  <2>6. g \in Surjection(U, used) /\ g \in Injection(U, used)
    <3>1. g \in [U -> used]
      OBVIOUS
    <3>2. \A x \in used : \E u \in U : g[u] = x
      OBVIOUS
    <3>3. IsInjective(g)
      BY <2>2 DEF IsInjective
    <3> QED  BY <3>1, <3>2, <3>3 DEF Surjection, Injection
  <2>7. IsFiniteSet(used) /\ Cardinality(used) = Cardinality(U)
    <3> HIDE DEF g, used, U
    <3> QED  BY <2>5, <2>6, FS_Surjection
  <2>8. used = LiveOf(r, m)
    <3>1. used \subseteq LiveOf(r, m) \/ LiveOf(r, m) \subseteq used
      BY <2>2, <2>3
    <3>2. Cardinality(used) = Cardinality(LiveOf(r, m))
      BY <1>2, <2>4, <2>7
    <3> HIDE DEF used
    <3> QED  BY <1>2, <2>7, <3>1, <3>2, FS_Subset
  <2>9. \A c \in Copy : Live(reservation'[r][m][c]) <=> Live(reservation[r][m][c])
    <3>1. \A c \in Copy : c \in used <=> Live(reservation[r][m][c])
      BY <2>8 DEF LiveOf
    <3> HIDE DEF used
    <3> QED  BY <1>5, <3>1
  <2> QED  BY <2>9 DEF LiveOf, Live
<1> QED  BY <1>6, <1>7

(* An assignment at work is not disturbed while its request waits and keeps  *)
(* the open reservations of its promised lines.                              *)
LEMMA AssignUndisturbed ==
  ASSUME NEW s \in Txn, PromiseTx(s), tx[s].kind = "assign", NEW r, tx[s].req = r,
         tx'[s].kind = tx[s].kind, tx'[s].req = tx[s].req,
         tx'[s].units = tx[s].units, tx'[s].rows = tx[s].rows,
         status'[r] \in {"APPROVED", "PREPARING"},
         \A m \in Model : <<r, m>> \in promised' =>
           <<r, m>> \in promised /\ LiveOf(r, m)' = LiveOf(r, m)
  PROVE  PromiseTx(s)'
<1>1. \A m \in Model : <<r, m>> \in promised' =>
        {c \in Copy : <<m, c>> \in tx'[s].rows} = LiveOf(r, m)'
  BY DEF PromiseTx
<1>2. \A m \in Model : (\E u \in tx'[s].units : ModelOf[u] = m) =>
        Cardinality(tx'[s].units \cap UnitsOf(m)) = Quantity[r][m]
  BY DEF PromiseTx
<1> QED  BY <1>1, <1>2 DEF PromiseTx, UnitsOf

(* An assignment has its request to itself, but for other assignments. *)
LEMMA AssignApart ==
  ASSUME NeverBoth("assign", "cancel"), NeverBoth("assign", "handover"),
         TypeOK, SignInv, ApartInv, LoanInv, NEW s \in Txn, tx[s].kind = "assign",
         NEW t \in Txn \ {s}, tx[t].req = tx[s].req
  PROVE  tx[t].kind = "assign"
<1>0. NoRequest \notin Request
  BY ConstantsAssumption
<1>1. tx[s].req \in Request
  BY TxnTypes DEF Handlers
<1>2. {tx[s].kind, tx[t].kind} \notin Apart
  BY <1>1 DEF ApartInv
<1>3. tx[t].kind \notin {"cancel", "handover"}
  BY <1>2 DEF NeverBoth
<1>4. tx[t].kind \notin {"create", "decide"}
  BY SignAlone
<1>5. tx[t].kind # "return"
  BY DEF LoanInv, LoanTx
<1>6. tx[t].kind \notin {"idle", "inspect"}
  BY <1>0, <1>1 DEF SignInv, SignTx
<1> QED  BY <1>3, <1>4, <1>5, <1>6, TxnTypes DEF Handlers

(* The room that a submission found is still there while others work. *)
LEMMA PromiseOthers ==
  ASSUME NeverBoth("assign", "cancel"), NeverBoth("assign", "handover"),
         TypeOK, HoldsLocks, SignInv, ApartInv, LoanInv, PromiseInv,
         NEW t \in Txn, Acts(t), NEW s \in Txn \ {t}
  PROVE  PromiseTx(s)'
<1>1. tx'[s] = tx[s]
  BY OneAtWork DEF Acts
<1>2. PICK r : r = tx[s].req
  OBVIOUS
<1>3. PromiseTx(s)
  BY DEF PromiseInv
<1>4. CASE tx[s].kind = "create"
  <2>1. r \in Request /\ Lines(r) \subseteq Model
    BY <1>2, <1>4, TxnTypes DEF Handlers, Lines
  <2>2. \A m \in Lines(r) : modelLock'[m] = s \/ (tx[s].step = "lock" /\ m \in tx[s].wants)
    BY <1>2, <1>3, <1>4, <2>1, LockStays DEF PromiseTx
  <2>3. ASSUME tx[s].step = "write", NEW m \in tx[s].enough
        PROVE  /\ m \in Lines(r)
               /\ Cardinality(Busy(r, m)') + Quantity[r][m] <= Cardinality(UnitsOf(m))
    <3>1. /\ m \in Lines(r) /\ m \in Model
          /\ Cardinality(Busy(r, m)) + Quantity[r][m] <= Cardinality(UnitsOf(m))
      BY <1>2, <1>3, <1>4, <2>1, <2>3 DEF PromiseTx
    <3>2. modelLock[m] = s
      BY <1>2, <1>3, <1>4, <2>3, <3>1 DEF PromiseTx
    <3>3. ASSUME NEW q \in Request, NEW c \in Copy, Live(reservation'[q][m][c])
          PROVE  Live(reservation[q][m][c])
      BY <3>1, <3>2, <3>3, OpensUnderLock
    <3>4. Busy(r, m)' \subseteq Busy(r, m)
      BY <3>3 DEF Busy, Live, Overlaps
    <3>5. /\ IsFiniteSet(Busy(r, m)) /\ Cardinality(Busy(r, m)) \in Nat
          /\ Cardinality(UnitsOf(m)) \in Nat
      BY <2>1, <3>1, PromiseFinite
    <3>6. Cardinality(Busy(r, m)') <= Cardinality(Busy(r, m)) /\ Cardinality(Busy(r, m)') \in Nat
      BY <3>4, <3>5, FS_Subset, FS_CardinalityType
    <3>7. Quantity[r][m] \in Nat
      BY <2>1, <3>1, ConstantsAssumption
    <3> QED  BY <3>1, <3>5, <3>6, <3>7
  <2> QED  BY <1>1, <1>2, <1>4, <2>2, <2>3 DEF PromiseTx, Lines, UnitsOf
<1>5. CASE tx[s].kind = "assign"
  <2>1. r \in Request /\ status[r] \in {"APPROVED", "PREPARING"}
    BY <1>2, <1>3, <1>5, TxnTypes DEF Handlers, PromiseTx
  <2>2. ASSUME status'[r] \in {"APPROVED", "PREPARING"},
               \A m \in Model : <<r, m>> \in promised' =>
                 <<r, m>> \in promised /\ LiveOf(r, m)' = LiveOf(r, m)
        PROVE  PromiseTx(s)'
    BY <1>1, <1>2, <1>3, <1>5, <2>2, AssignUndisturbed
  <2>3. CASE tx[t].req # r
    BY <2>1, <2>2, <2>3, OwnRows DEF LiveOf
  <2>4. CASE UNCHANGED <<status, reservation, promised>>
    BY <2>1, <2>2, <2>4 DEF LiveOf, Live
  <2>5. CASE tx[t].req = r /\ WriteAssign(t)
    <3>1. status'[r] = "PREPARING" /\ UNCHANGED promised
      BY <2>1, <2>5 DEF WriteAssign, TypeOK, TablesOK
    <3> QED  BY <2>1, <2>2, <2>5, <3>1, AssignKeepsLive
  <2>6. CASE tx[t].req = r /\ Commit(t)
    <3>1. tx[t].kind = "assign"
      BY <1>2, <1>5, <2>6, AssignApart
    <3> QED
      BY <2>5, <2>6, <3>1 DEF Commit, WriteCreate, WriteReject, WriteApprove, WriteCancel,
         WriteHandover, WriteReturn, WriteInspect
  <2>7. UNCHANGED tables => UNCHANGED <<status, reservation, promised>>
    BY DEF tables
  <2> QED  BY <2>3, <2>4, <2>6, <2>7, WorkFrame
<1>6. CASE tx[s].kind \notin {"create", "assign"}
  BY <1>1, <1>6 DEF PromiseTx
<1> QED  BY <1>4, <1>5, <1>6

(* The acting transaction: what it is about to write, it has just read. *)
LEMMA PromiseActor ==
  ASSUME TypeOK, PromiseInv, NEW t \in Txn, Acts(t)
  PROVE  PromiseTx(t)'
<1>1. ASSUME tx'[t].kind \notin {"create", "assign"}  PROVE PromiseTx(t)'
  BY <1>1 DEF PromiseTx
<1>2. CASE End(t)
  BY <1>1, <1>2, EndFrame DEF Idle
<1>3. PromiseTx(t) /\ tx[t] \in Work
  BY TxnTypes DEF PromiseInv
<1>4. CASE Begin(t)
  <2>1. ASSUME NEW r \in Request, BeginCreate(t, r)  PROVE PromiseTx(t)'
    <3>1. /\ tx'[t].kind = "create" /\ tx'[t].step = "lock" /\ tx'[t].req = r
          /\ tx'[t].wants = Lines(r)
      BY <2>1 DEF BeginCreate, Idle, TypeOK, TxOK
    <3> QED  BY <3>1 DEF PromiseTx, Lines
  <2>2. ASSUME NEW r \in Request, BeginAssign(t, r)  PROVE PromiseTx(t)'
    <3>1. PICK units \in (SUBSET Unit) \ {{}} :
            /\ {ModelOf[u] : u \in units} \subseteq Lines(r)
            /\ \A m \in {ModelOf[u] : u \in units} :
                 Cardinality(units \cap UnitsOf(m)) = Quantity[r][m]
            /\ tx' = [tx EXCEPT ![t] = [Idle EXCEPT !.kind = "assign", !.step = "lock",
                        !.req = r, !.units = units, !.wants = {ModelOf[u] : u \in units},
                        !.rows = OpenRows(r)]]
      BY <2>2 DEF BeginAssign
    <3>2. /\ tx'[t].kind = "assign" /\ tx'[t].req = r /\ tx'[t].units = units
          /\ tx'[t].rows = OpenRows(r)
      BY <3>1 DEF Idle, TypeOK, TxOK
    <3>3. status'[r] \in {"APPROVED", "PREPARING"} /\ UNCHANGED reservation
      BY <2>2 DEF BeginAssign, tables
    <3>4. \A m \in Model : (\E u \in units : ModelOf[u] = m) =>
            Cardinality(units \cap UnitsOf(m)) = Quantity[r][m]
      BY <3>1
    <3>5. \A m \in Model : {c \in Copy : <<m, c>> \in OpenRows(r)} = LiveOf(r, m)'
      BY <3>3 DEF OpenRows, LiveOf, Live
    <3> QED  BY <3>2, <3>3, <3>4, <3>5 DEF PromiseTx, UnitsOf
  <2> QED  BY <1>1, <1>4, <2>1, <2>2, BeginKinds
<1>5. CASE TakeModelLock(t)
  <2>1. PICK m \in Model :
          /\ modelLock' = [modelLock EXCEPT ![m] = t]
          /\ tx' = [tx EXCEPT ![t] = [@ EXCEPT !.wants = tx[t].wants \ {m},
                !.step = IF tx[t].wants \ {m} = {} THEN "check" ELSE "lock"]]
    BY <1>5 DEF TakeModelLock
  <2>2. /\ tx'[t].kind = tx[t].kind /\ tx'[t].req = tx[t].req
        /\ tx'[t].units = tx[t].units /\ tx'[t].rows = tx[t].rows
        /\ tx'[t].wants = tx[t].wants \ {m}
        /\ tx'[t].step = IF tx[t].wants \ {m} = {} THEN "check" ELSE "lock"
    BY <1>3, <2>1 DEF TypeOK, TxOK, Work
  <2>3. \A n \in Model : modelLock'[n] = IF n = m THEN t ELSE modelLock[n]
    BY <2>1 DEF TypeOK, LocksOK
  <2>4. UNCHANGED reservation
    BY <1>5 DEF TakeModelLock, tables
  <2>5. CASE tx[t].kind = "create"
    <3>1. PICK r : r = tx[t].req
      OBVIOUS
    <3>2. \A n \in Lines(r) : n \in Model /\ (modelLock[n] = t \/ n \in tx[t].wants)
      BY <1>3, <2>5, <3>1 DEF PromiseTx, Lines
    <3>3. \A n \in Lines(r) : modelLock'[n] = t \/ (tx'[t].step = "lock" /\ n \in tx'[t].wants)
      BY <2>2, <2>3, <3>2
    <3> QED  BY <2>2, <2>5, <3>1, <3>3 DEF PromiseTx, Lines
  <2>6. CASE tx[t].kind = "assign"
    <3>1. PICK r : r = tx[t].req
      OBVIOUS
    <3>2. /\ status'[r] \in {"APPROVED", "PREPARING"} /\ UNCHANGED promised
          /\ \A n \in Model : LiveOf(r, n)' = LiveOf(r, n)
      BY <1>3, <1>5, <2>6, <3>1 DEF TakeModelLock, tables, LiveOf, Live, PromiseTx
    <3> QED  BY <1>3, <2>2, <2>6, <3>1, <3>2, AssignUndisturbed
  <2> QED  BY <1>1, <2>2, <2>5, <2>6
<1>6. CASE CheckAvailability(t)
  <2>1. PICK r \in Request : r = tx[t].req
    BY <1>6, TxnTypes DEF CheckAvailability, Handlers
  <2>2. /\ tx'[t].kind = "create" /\ tx'[t].req = r /\ tx[t].kind = "create"
        /\ tx[t].step = "check" /\ tx'[t].enough = {m \in Lines(r) : Enough(r, m)}
    BY <1>3, <1>6, <2>1 DEF CheckAvailability, TypeOK, TxOK, Work
  <2>3. UNCHANGED <<modelLock, reservation>>
    BY <1>6 DEF CheckAvailability, tables, locks
  <2>4. \A m \in Lines(r) : modelLock'[m] = t
    BY <1>3, <2>1, <2>2, <2>3 DEF PromiseTx
  <2>5. ASSUME NEW m \in tx'[t].enough
        PROVE  /\ m \in Lines(r)
               /\ Cardinality(Busy(r, m)') + Quantity[r][m] <= Cardinality(UnitsOf(m))
    <3>1. m \in Lines(r) /\ m \in Model /\ Enough(r, m)
      BY <2>2, <2>5 DEF Lines
    <3>2. Busy(r, m)' = Busy(r, m)
      BY <2>3 DEF Busy, Live, Overlaps
    <3> QED  BY <3>1, <3>2, EnoughRoom
  <2> QED  BY <2>2, <2>4, <2>5 DEF PromiseTx, Lines, UnitsOf
<1>7. CASE CheckAssign(t)
  <2>1. CASE Goto(t, "write") /\ UNCHANGED tables
    <3>1. /\ tx'[t].kind = tx[t].kind /\ tx'[t].req = tx[t].req
          /\ tx'[t].units = tx[t].units /\ tx'[t].rows = tx[t].rows
          /\ tx[t].kind = "assign"
      BY <1>3, <1>7, <2>1 DEF CheckAssign, Goto, TypeOK, TxOK, Work
    <3>2. PICK r : r = tx[t].req
      OBVIOUS
    <3>3. /\ status'[r] \in {"APPROVED", "PREPARING"} /\ UNCHANGED promised
          /\ \A m \in Model : LiveOf(r, m)' = LiveOf(r, m)
      BY <1>3, <2>1, <3>1, <3>2 DEF tables, LiveOf, Live, PromiseTx
    <3> QED  BY <1>3, <3>1, <3>2, <3>3, AssignUndisturbed
  <2> QED  BY <1>2, <1>7, <2>1 DEF CheckAssign
<1>8. CASE FindCancelled(t) \/ FindReturned(t)
  <2>1. PICK rows : FindRows(t, rows) /\ tx[t].kind \in {"cancel", "return"}
    BY <1>8 DEF FindCancelled, FindReturned
  <2>2. tx'[t].kind = tx[t].kind
    BY <1>3, <2>1 DEF FindRows, TypeOK, TxOK, Work
  <2> QED  BY <1>1, <2>1, <2>2
<1> QED  BY <1>2, <1>4, <1>5, <1>6, <1>7, <1>8, CommitEnds DEF Acts, Continue

(* The first n ids are n. *)
LEMMA FirstIds ==
  ASSUME NEW C, C \subseteq Nat \ {0}, NEW n \in Nat, 1..n \subseteq C
  PROVE  IsFiniteSet({c \in C : c <= n}) /\ Cardinality({c \in C : c <= n}) = n
<1> DEFINE ids == {c \in C : c <= n}
<1>1. ids \subseteq 1..n
  <2> SUFFICES ASSUME NEW c \in C, c <= n  PROVE c \in 1..n
    OBVIOUS
  <2>1. c \in Nat /\ c # 0
    OBVIOUS
  <2> QED  BY <2>1
<1>2. 1..n \subseteq ids
  OBVIOUS
<1>3. ids = 1..n
  <2> HIDE DEF ids
  <2> QED  BY <1>1, <1>2
<1>4. IsFiniteSet(1..n) /\ Cardinality(1..n) = n
  BY FS_Interval
<1> QED  BY <1>3, <1>4

(* What create() promises for a line is as many reservations as it asks for. *)
LEMMA CreateRow ==
  ASSUME TypeOK, SignInv, PromiseInv, NEW t \in Txn, WriteCreate(t),
         NEW r \in Request, tx[t].req = r
  PROVE  PromiseRow(r)'
<1>1. /\ status[r] = "ABSENT" /\ status'[r] = "PENDING_APPROVAL"
      /\ promised' = promised \cup ({r} \X tx[t].enough)
  BY DEF WriteCreate, SignInv, SignTx, TypeOK, TablesOK
<1>2. ASSUME NEW m \in Model, <<r, m>> \in promised'
      PROVE  Cardinality(LiveOf(r, m)') = Quantity[r][m]
  <2>1. m \in tx[t].enough
    BY <1>1, <1>2 DEF PromiseInv, PromiseRow
  <2>2. \A c \in Copy :
          reservation'[r][m][c] = IF c <= Quantity[r][m]
                                  THEN [status |-> "TENTATIVE", unit |-> NoUnit] ELSE NoRow
    BY <2>1 DEF WriteCreate, TypeOK, TablesOK
  <2>3. Quantity[r][m] \in Nat /\ Copy \subseteq Nat \ {0} /\ 1..Quantity[r][m] \subseteq Copy
    BY ConstantsAssumption, FiniteAssumption
  <2>4. \A c \in Copy : Live(reservation'[r][m][c]) <=> c <= Quantity[r][m]
    BY <2>2 DEF Live, NoRow
  <2>5. LiveOf(r, m)' = {c \in Copy : c <= Quantity[r][m]}
    BY <2>4 DEF LiveOf, Live
  <2>6. Cardinality({c \in Copy : c <= Quantity[r][m]}) = Quantity[r][m]
    BY <2>3, FirstIds
  <2> QED  BY <2>5, <2>6
<1> QED  BY <1>1, <1>2 DEF PromiseRow

LEMMA PromiseRows ==
  ASSUME TypeOK, HoldsLocks, SignInv, PromiseInv, NEW t \in Txn, Acts(t), NEW r \in Request
  PROVE  PromiseRow(r)'
<1>0. PromiseRow(r) /\ PromiseTx(t) /\ SignTx(t)
  BY DEF PromiseInv, SignInv
<1>1. ASSUME \/ status'[r] = status[r]
             \/ status'[r] # "ABSENT" /\ status[r] \in {"PENDING_APPROVAL", "APPROVED", "PREPARING"},
             \A m \in Model : <<r, m>> \in promised' => <<r, m>> \in promised,
             \A m \in Model : <<r, m>> \in promised => LiveOf(r, m)' = LiveOf(r, m)
      PROVE  PromiseRow(r)'
  <2>1. status'[r] = "ABSENT" => \A m \in Model : <<r, m>> \notin promised'
    BY <1>0, <1>1 DEF PromiseRow
  <2>2. ASSUME status'[r] \in {"PENDING_APPROVAL", "APPROVED", "PREPARING"},
               NEW m \in Model, <<r, m>> \in promised'
        PROVE  Cardinality(LiveOf(r, m)') = Quantity[r][m]
    <3>1. <<r, m>> \in promised /\ LiveOf(r, m)' = LiveOf(r, m)
      BY <1>1, <2>2
    <3>2. status[r] \in {"PENDING_APPROVAL", "APPROVED", "PREPARING"}
      BY <1>1, <2>2
    <3>3. Cardinality(LiveOf(r, m)) = Quantity[r][m]
      BY <1>0, <3>1, <3>2 DEF PromiseRow
    <3> QED  BY <3>1, <3>3
  <2> QED  BY <2>1, <2>2 DEF PromiseRow
<1>2. CASE tx[t].req # r
  <2>1. /\ status'[r] = status[r] /\ reservation'[r] = reservation[r]
        /\ \A m \in Model : <<r, m>> \in promised' => <<r, m>> \in promised
    BY <1>2, OwnRows
  <2>2. \A m \in Model : LiveOf(r, m)' = LiveOf(r, m)
    BY <2>1 DEF LiveOf, Live
  <2> QED  BY <1>1, <2>1, <2>2
<1>3. CASE tx[t].req = r /\ UNCHANGED <<status, reservation, promised>>
  BY <1>1, <1>3 DEF LiveOf, Live
<1>4. ASSUME tx[t].req = r, status'[r] \notin {"ABSENT", "PENDING_APPROVAL", "APPROVED", "PREPARING"}
      PROVE  PromiseRow(r)'
  BY <1>4 DEF PromiseRow
<1>5. CASE tx[t].req = r /\ (WriteReject(t) \/ WriteCancel(t) \/ WriteHandover(t) \/ WriteReturn(t))
  BY <1>4, <1>5 DEF WriteReject, WriteCancel, WriteHandover, WriteReturn, TypeOK, TablesOK
<1>6. CASE tx[t].req = r /\ WriteCreate(t)
  BY <1>6, CreateRow
<1>7. CASE tx[t].req = r /\ WriteApprove(t)
  <2>1. status[r] = "PENDING_APPROVAL" /\ status'[r] \in {"PENDING_APPROVAL", "APPROVED"}
    BY <1>0, <1>7 DEF WriteApprove, SignTx, TypeOK, TablesOK
  <2>2. UNCHANGED promised
    BY <1>7 DEF WriteApprove
  <2>3. ASSUME NEW m \in Model  PROVE LiveOf(r, m)' = LiveOf(r, m)
    <3>1. \A row \in Row : Live(Confirmed(row)) <=> Live(row)
      BY DEF Row, Live, Confirmed
    <3>2. \A c \in Copy : reservation[r][m][c] \in Row
      BY DEF TypeOK, TablesOK
    <3>3. \A c \in Copy : \/ reservation'[r][m][c] = reservation[r][m][c]
                          \/ reservation'[r][m][c] = Confirmed(reservation[r][m][c])
      BY <1>7 DEF WriteApprove, TypeOK, TablesOK
    <3>4. \A c \in Copy : Live(reservation'[r][m][c]) <=> Live(reservation[r][m][c])
      BY <3>1, <3>2, <3>3
    <3> QED  BY <3>4 DEF LiveOf, Live
  <2> QED  BY <1>1, <2>1, <2>2, <2>3
<1>8. CASE tx[t].req = r /\ WriteAssign(t)
  <2>1. status[r] \in {"APPROVED", "PREPARING"} /\ status'[r] = "PREPARING"
    BY <1>0, <1>8 DEF WriteAssign, PromiseTx, TypeOK, TablesOK
  <2>2. UNCHANGED promised
    BY <1>8 DEF WriteAssign
  <2> QED  BY <1>1, <1>8, <2>1, <2>2, AssignKeepsLive
<1>9. Begin(t) \/ Continue(t) \/ Rollback(t) \/ WriteInspect(t)
        => UNCHANGED <<status, reservation, promised>>
  BY DEF Begin, BeginCreate, BeginDecide, BeginCancel, BeginAssign, BeginHandover,
         BeginReturn, BeginInspect, Continue, TakeModelLock, CheckAvailability,
         CheckAssign, FindCancelled, FindReturned, FindRows, Rollback, WriteInspect, tables
<1> QED
  BY <1>2, <1>3, <1>5, <1>6, <1>7, <1>8, <1>9 DEF Acts, Commit

(* A step opens reservations on promised lines only by promising them. *)
LEMMA PromisesOpened ==
  ASSUME TypeOK, HoldsLocks, SignInv, PromiseInv, NEW t \in Txn, Acts(t),
         NEW q \in Request, NEW m \in Model, NEW c \in Copy,
         <<q, m>> \in promised', Live(reservation'[q][m][c])
  PROVE  \/ <<q, m>> \in promised /\ Live(reservation[q][m][c])
         \/ /\ WriteCreate(t) /\ tx[t].req = q
            /\ m \in tx[t].enough /\ c <= Quantity[q][m]
<1>1. CASE tx[t].req # q
  BY <1>1, OwnRows
<1>2. CASE WriteCreate(t) /\ tx[t].req = q
  <2>1. m \in tx[t].enough
    <3>1. status[q] = "ABSENT"
      BY <1>2 DEF WriteCreate, SignInv, SignTx
    <3>2. <<q, m>> \notin promised
      BY <3>1 DEF PromiseInv, PromiseRow
    <3> QED  BY <1>2, <3>2 DEF WriteCreate
  <2>2. reservation'[q][m][c] = IF m \in tx[t].enough /\ c <= Quantity[q][m]
                                THEN [status |-> "TENTATIVE", unit |-> NoUnit] ELSE NoRow
    BY <1>2 DEF WriteCreate, TypeOK, TablesOK
  <2>3. c <= Quantity[q][m]
    BY <2>2 DEF Live, NoRow
  <2> QED  BY <1>2, <2>1, <2>3
<1>3. CASE tx[t].req = q /\ ~ WriteCreate(t)
  <2>1. <<q, m>> \in promised
    BY <1>3 DEF Acts, Commit, WriteReject, WriteApprove, WriteCancel, WriteAssign,
         WriteHandover, WriteReturn, WriteInspect, Begin, BeginCreate, BeginDecide,
         BeginCancel, BeginAssign, BeginHandover, BeginReturn, BeginInspect, Continue,
         TakeModelLock, CheckAvailability, CheckAssign, FindCancelled, FindReturned,
         FindRows, Rollback, tables
  <2>2. ASSUME ~ Live(reservation[q][m][c])  PROVE FALSE
    <3>1. WriteAssign(t)
      BY <1>3, <2>2, OpensUnderLock
    <3>2. LiveOf(q, m)' = LiveOf(q, m)
      BY <1>3, <2>1, <3>1, AssignKeepsLive
    <3>3. c \in LiveOf(q, m)'
      BY DEF LiveOf
    <3> QED  BY <2>2, <3>2, <3>3 DEF LiveOf
  <2> QED  BY <2>1, <2>2
<1> QED  BY <1>1, <1>2, <1>3

(* The lines that a submission promises fit in with the ones promised before. *)
LEMMA PromiseFits ==
  ASSUME TypeOK, HoldsLocks, SignInv, PromiseInv, NEW t \in Txn, Acts(t),
         NEW m \in Model, NEW time \in Nat
  PROVE  Cardinality(PromisedAt(m, time)') <= Cardinality(UnitsOf(m))
<1>1. PICK r : r = tx[t].req
  OBVIOUS
<1> DEFINE old == PromisedAt(m, time)
           new == PromisedAt(m, time)'
<1>2. ASSUME new \subseteq old  PROVE Cardinality(new) <= Cardinality(UnitsOf(m))
  <2>1. Cardinality(old) <= Cardinality(UnitsOf(m))
    BY DEF PromiseInv, Fits
  <2>2. IsFiniteSet(old) /\ Cardinality(old) \in Nat /\ Cardinality(UnitsOf(m)) \in Nat
    <3>1. CASE Request = {}
      <4>1. old = {}
        BY <3>1 DEF PromisedAt
      <4>2. IsFiniteSet(UnitsOf(m))
        BY FiniteAssumption, FS_Subset DEF UnitsOf
      <4> QED  BY <4>1, <4>2, FS_EmptySet, FS_CardinalityType
    <3>2. CASE Request # {}
      BY <3>2, PromiseFinite
    <3> QED  BY <3>1, <3>2
  <2>3. Cardinality(new) <= Cardinality(old) /\ Cardinality(new) \in Nat
    <3> HIDE DEF new, old
    <3> QED  BY <1>2, <2>2, FS_Subset, FS_CardinalityType
  <2> HIDE DEF new, old
  <2> QED  BY <2>1, <2>2, <2>3
<1>3. \A id : id \in new <=>
        /\ id \in Request \X Copy
        /\ <<id[1], m>> \in promised' /\ Live(reservation'[id[1]][m][id[2]])
        /\ From[id[1]] <= time /\ time < To[id[1]] + Buffer[m]
  BY DEF PromisedAt, Live
<1>4. \A id : id \in old <=>
        /\ id \in Request \X Copy
        /\ <<id[1], m>> \in promised /\ Live(reservation[id[1]][m][id[2]])
        /\ From[id[1]] <= time /\ time < To[id[1]] + Buffer[m]
  BY DEF PromisedAt
<1>5. ASSUME NEW id \in new, id \notin old
      PROVE  /\ WriteCreate(t) /\ r \in Request /\ m \in tx[t].enough
             /\ From[r] <= time /\ time < To[r] + Buffer[m]
             /\ id[1] = r /\ id[2] \in {c \in Copy : c <= Quantity[r][m]}
  <2>1. /\ id[1] \in Request /\ id[2] \in Copy
        /\ <<id[1], m>> \in promised' /\ Live(reservation'[id[1]][m][id[2]])
        /\ From[id[1]] <= time /\ time < To[id[1]] + Buffer[m]
    BY <1>3, <1>5
  <2>2. ~ (<<id[1], m>> \in promised /\ Live(reservation[id[1]][m][id[2]]))
    BY <1>3, <1>4, <1>5
  <2>3. /\ WriteCreate(t) /\ tx[t].req = id[1]
        /\ m \in tx[t].enough /\ id[2] <= Quantity[id[1]][m]
    BY <2>1, <2>2, PromisesOpened
  <2> QED  BY <1>1, <2>1, <2>3
<1>6. CASE new \subseteq old
  BY <1>2, <1>6
<1>7. CASE ~ (new \subseteq old)
  <2> DEFINE n == Quantity[r][m]
             ids == {c \in Copy : c <= n}
             mine == {r} \X ids
             busy == Busy(r, m)
  <2>1. PICK id0 \in new : id0 \notin old
    BY <1>7
  <2>2. /\ WriteCreate(t) /\ r \in Request /\ m \in tx[t].enough
        /\ From[r] <= time /\ time < To[r] + Buffer[m]
    BY <1>5, <2>1
  <2>3. Cardinality(busy) + n <= Cardinality(UnitsOf(m))
    BY <1>1, <2>2 DEF WriteCreate, PromiseInv, PromiseTx
  <2>4. n \in Nat /\ Copy \subseteq Nat /\ 0 \notin Copy /\ 1..n \subseteq Copy
    BY <2>2, ConstantsAssumption, FiniteAssumption
  <2>5. IsFiniteSet(ids) /\ Cardinality(ids) = n
    <3>1. Copy \subseteq Nat \ {0}
      BY <2>4
    <3> HIDE DEF n
    <3> QED  BY <2>4, <3>1, FirstIds
  <2>6. IsFiniteSet(mine) /\ Cardinality(mine) = n
    <3>1. IsFiniteSet({r}) /\ Cardinality({r}) = 1
      BY FS_Singleton
    <3> HIDE DEF ids, n
    <3> QED  BY <2>4, <2>5, <3>1, FS_Product
  <2>7. IsFiniteSet(busy) /\ Cardinality(busy) \in Nat /\ Cardinality(UnitsOf(m)) \in Nat
    BY <2>2, PromiseFinite
  <2>8. old \subseteq busy
    <3>1. ASSUME NEW id \in old  PROVE id \in busy
      <4>1. /\ id \in Request \X Copy /\ Live(reservation[id[1]][m][id[2]])
            /\ From[id[1]] <= time /\ time < To[id[1]] + Buffer[m]
        BY <1>4, <3>1
      <4>2. Overlaps(id[1], r, m)
        BY <2>2, <4>1, ConstantsAssumption DEF Overlaps
      <4> QED  BY <4>1, <4>2 DEF Busy
    <3> QED  BY <3>1
  <2>9. new \subseteq busy \cup mine
    <3>1. ASSUME NEW id \in new, id \notin old  PROVE id \in mine
      <4>1. id \in Request \X Copy
        BY <1>3, <3>1
      <4>2. id[1] = r /\ id[2] \in ids
        BY <1>5, <3>1
      <4> HIDE DEF ids
      <4> QED  BY <4>1, <4>2
    <3> HIDE DEF old, new, mine, busy
    <3> QED  BY <2>8, <3>1
  <2>10. Cardinality(busy \cup mine) <= Cardinality(busy) + n /\ IsFiniteSet(busy \cup mine)
    <3>1. /\ IsFiniteSet(busy \cup mine)
          /\ Cardinality(busy \cup mine) =
               Cardinality(busy) + Cardinality(mine) - Cardinality(busy \cap mine)
      <4> HIDE DEF busy, mine
      <4> QED  BY <2>6, <2>7, FS_Union
    <3>2. Cardinality(busy \cap mine) \in Nat
      <4> HIDE DEF busy, mine
      <4> QED  BY <2>7, FS_Subset, FS_CardinalityType
    <3> HIDE DEF busy, mine, n
    <3> QED  BY <2>4, <2>6, <2>7, <3>1, <3>2
  <2>11. Cardinality(new) <= Cardinality(busy \cup mine) /\ Cardinality(new) \in Nat
         /\ Cardinality(busy \cup mine) \in Nat
    <3> HIDE DEF busy, mine, new
    <3> QED  BY <2>9, <2>10, FS_Subset, FS_CardinalityType
  <2>12. Cardinality(new) <= Cardinality(UnitsOf(m))
    <3> HIDE DEF busy, mine, new, n
    <3> QED  BY <2>3, <2>4, <2>7, <2>10, <2>11
  <2> QED  BY <2>12
<1> QED  BY <1>6, <1>7

LEMMA PromiseStep ==
  ASSUME NeverBoth("assign", "cancel"), NeverBoth("assign", "handover"),
         TypeOK, HoldsLocks, SignInv, ApartInv, LoanInv, PromiseInv, [Next]_vars
  PROVE  PromiseInv'
<1>1. ASSUME NEW t \in Txn, Acts(t)  PROVE PromiseInv'
  <2>1. \A s \in Txn : PromiseTx(s)'
    BY <1>1, PromiseActor, PromiseOthers
  <2>2. \A r \in Request : PromiseRow(r)'
    BY <1>1, PromiseRows
  <2>3. Fits'
    BY <1>1, PromiseFits DEF Fits, UnitsOf
  <2> QED  BY <2>1, <2>2, <2>3 DEF PromiseInv
<1>2. ASSUME Tick \/ UNCHANGED vars  PROVE PromiseInv'
  <2>1. UNCHANGED <<status, reservation, promised, modelLock, tx>>
    BY <1>2 DEF Tick, vars, tables, locks
  <2>2. ASSUME NEW s \in Txn  PROVE PromiseTx(s)'
    <3>1. PromiseTx(s)
      BY DEF PromiseInv
    <3>2. \A r, m : Busy(r, m)' = Busy(r, m) /\ LiveOf(r, m)' = LiveOf(r, m)
      BY <2>1 DEF Busy, Live, LiveOf, Overlaps
    <3> QED  BY <2>1, <3>1, <3>2 DEF PromiseTx, Lines, UnitsOf
  <2>3. ASSUME NEW r \in Request  PROVE PromiseRow(r)'
    BY <2>1 DEF PromiseInv, PromiseRow, LiveOf, Live
  <2>4. Fits'
    BY <2>1 DEF PromiseInv, Fits, PromisedAt, Live, UnitsOf
  <2> QED  BY <2>2, <2>3, <2>4 DEF PromiseInv
<1> QED  BY <1>1, <1>2 DEF Next, Acts

(* Reserved lines never ask for more units of a model than there are: a line *)
(* that was promised has as many open reservations as it asks for until its  *)
(* units are handed over, however assignments overlap.                       *)
THEOREM PromisesCorrect == Spec => []PromisesKept
<1> DEFINE Clear == NeverBoth("assign", "cancel") /\ NeverBoth("assign", "handover")
<1>0. Clear => NeverBoth("handover", "assign")
  <2>1. {"assign", "handover"} = {"handover", "assign"}
    OBVIOUS
  <2> QED  BY <2>1 DEF NeverBoth
<1>1. Init => BookingInv /\ (Clear => PromiseInv)
  BY BookingInit, PromiseInit
<1>2. TypeOK /\ BookingInv /\ [Next]_vars => BookingInv'
  BY BookingStep
<1>3. TypeOK /\ BookingInv /\ SignInv /\ ApartInv
        /\ (NeverBoth("handover", "assign") => LoanInv)
        /\ (Clear => PromiseInv) /\ [Next]_vars
        => (Clear => PromiseInv)'
  BY <1>0, PromiseStep DEF BookingInv, NeverBoth
<1>4. (Clear => PromiseInv) => PromisesKept
  BY DEF PromisesKept, PromiseInv, Fits
<1> QED
  BY <1>1, <1>2, <1>3, <1>4, TypeCorrect, SignCorrect, ApartCorrect, LoanCorrect, PTL DEF Spec

=============================================================================
