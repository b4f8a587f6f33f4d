-------------------------- MODULE BorrowFlowProofs --------------------------
(***************************************************************************)
(* Proofs about BorrowFlow, for any number of requests, models, units and  *)
(* transactions:                                                           *)
(*   TypeCorrect      the type invariant, with the ownership of the locks  *)
(*   BookingCorrect   no unit is promised twice for overlapping periods    *)
(* The first is inductive.  The second rests on it and on BookingInv: an   *)
(* assignment holds the locks of the models of its units from its check to *)
(* its commit, so what the check found is still so when it writes.         *)
(***************************************************************************)
EXTENDS BorrowFlow, FiniteSetTheorems, TLAPS

(* What a transaction leaves behind when it ends. *)
LEMMA EndTypes ==
  ASSUME TypeOK, NEW t \in Txn, End(t)
  PROVE  TxOK' /\ LocksOK' /\ now' = now
<1>. USE ConstantsAssumption
<1>1. Idle \in Work /\ Idle.kind = "idle" /\ Idle.step = "none"
  BY DEF Idle, Work
<1>2. TxOK'
  BY <1>1 DEF TypeOK, TxOK, End, Handlers
<1>3. LocksOK'
  BY DEF TypeOK, TxOK, LocksOK, End
<1> QED  BY <1>2, <1>3 DEF End

(* A transaction at work may go on to another step of the same handler. *)
LEMMA WorkTypes ==
  ASSUME TypeOK, NEW t \in Txn, NEW w \in Work, tx' = [tx EXCEPT ![t] = w],
         w.kind \in Handlers \ {"inspect"} => w.req \in Request,
         w.kind = "decide" => w.by \in Person,
         w.step \in {"lock", "check"} => w.kind \in {"create", "assign"}
  PROVE  TxOK'
BY DEF TypeOK, TxOK, Handlers

-----------------------------------------------------------------------------
(* Type correctness *)

LEMMA TypeInit == Init => TypeOK
<1>. SUFFICES ASSUME Init PROVE TypeOK
  OBVIOUS
<1>. USE ConstantsAssumption
<1>1. TablesOK
  <2>1. reservation \in [Request -> [Model -> [Copy -> Row]]]
    BY DEF Init, NoRow, Row
  <2>2. \A r \in Request : approvals[r] = {} /\ IsFiniteSet(approvals[r])
    BY FS_EmptySet DEF Init
  <2>3. repairs \in [Unit -> Seq(Nat)]
    BY DEF Init
  <2> QED  BY <2>1, <2>2, <2>3
           DEF Init, TablesOK, RequestStatus, LineStatus, AssetStatus
<1>2. TxOK /\ LocksOK
  BY DEF Init, TxOK, LocksOK, Idle, Work, Handlers
<1> QED  BY <1>1, <1>2 DEF TypeOK, Init

(* The number of signatures of a request that still misses one. *)
LEMMA SignedTypes ==
  ASSUME TypeOK, NEW r \in Request
  PROVE  /\ Cardinality(Approved(r)) \in Nat
         /\ Cardinality(Approved(r)) < Len(Steps(r)) => Cardinality(Approved(r)) \in {0, 1}
<1>1. IsFiniteSet(Approved(r))
  BY FS_Subset DEF TypeOK, TablesOK, Approved
<1>2. Len(Steps(r)) <= 2
  BY DEF Steps
<1> QED  BY <1>1, <1>2, FS_CardinalityType

LEMMA TablesKept ==
  ASSUME TypeOK, UNCHANGED tables
  PROVE  TablesOK'
BY DEF TypeOK, TablesOK, tables, Approval, Row, RequestStatus, LineStatus, AssetStatus, NotUsable

(* The first step of a handler. *)
LEMMA BeginTypes ==
  ASSUME TypeOK, NEW t \in Txn, Begin(t)
  PROVE  TypeOK'
<1>. USE ConstantsAssumption
<1>1. TablesOK' /\ now' \in Nat
  <2>1. UNCHANGED tables /\ UNCHANGED now
    BY DEF Begin, BeginCreate, BeginDecide, BeginCancel, BeginAssign, BeginHandover,
           BeginReturn, BeginInspect
  <2> QED  BY <2>1, TablesKept DEF TypeOK
<1>2. ASSUME NEW r \in Request, BeginCreate(t, r)  PROVE TxOK' /\ LocksOK'
  <2>1. [Idle EXCEPT !.kind = "create", !.step = "lock", !.req = r, !.wants = Lines(r)] \in Work
    BY DEF Idle, Work, Lines, Handlers
  <2>2. TxOK'
    BY <1>2, <2>1, WorkTypes DEF BeginCreate, Idle
  <2> QED  BY <1>2, <2>2 DEF BeginCreate, Starts, TypeOK, LocksOK, TxOK, Idle, locks
<1>3. ASSUME NEW r \in Request, NEW p \in Leader \cup Admin, BeginDecide(t, r, p)
      PROVE TxOK' /\ LocksOK'
  <2> DEFINE signed == Cardinality(Approved(r))
  <2>1. signed \in {0, 1}
    BY <1>3, SignedTypes DEF BeginDecide
  <2>2. [Idle EXCEPT !.kind = "decide", !.step = "write", !.req = r, !.by = p,
                     !.signed = signed] \in Work
    BY <2>1 DEF Idle, Work, Handlers
  <2>3. TxOK'
    BY <1>3, <2>2, WorkTypes DEF BeginDecide, Idle
  <2> QED  BY <1>3, <2>3
           DEF BeginDecide, RequestFree, Starts, TypeOK, LocksOK, TxOK, Idle
<1>4. ASSUME NEW r \in Request, BeginCancel(t, r)  PROVE TxOK' /\ LocksOK'
  <2>1. [Idle EXCEPT !.kind = "cancel", !.step = "release", !.req = r] \in Work
    BY DEF Idle, Work, Handlers
  <2>2. TxOK'
    BY <1>4, <2>1, WorkTypes DEF BeginCancel, Idle
  <2> QED  BY <1>4, <2>2
           DEF BeginCancel, RequestFree, Starts, TypeOK, LocksOK, TxOK, Idle
<1>5. ASSUME NEW r \in Request, BeginAssign(t, r)  PROVE TxOK' /\ LocksOK'
  <2>1. PICK units \in SUBSET Unit :
          tx' = [tx EXCEPT ![t] = [Idle EXCEPT !.kind = "assign", !.step = "lock",
                   !.req = r, !.units = units, !.wants = {ModelOf[u] : u \in units},
                   !.rows = OpenRows(r)]]
    BY <1>5 DEF BeginAssign
  <2>2. OpenRows(r) \in SUBSET (Model \X Copy) /\ {ModelOf[u] : u \in units} \in SUBSET Model
    BY DEF OpenRows
  <2>3. [Idle EXCEPT !.kind = "assign", !.step = "lock", !.req = r, !.units = units,
                     !.wants = {ModelOf[u] : u \in units}, !.rows = OpenRows(r)] \in Work
    BY <2>2 DEF Idle, Work, Handlers
  <2>4. TxOK'
    BY <2>1, <2>3, WorkTypes DEF Idle
  <2> QED  BY <1>5, <2>1, <2>4
           DEF BeginAssign, Starts, TypeOK, LocksOK, TxOK, Idle, locks
<1>6. ASSUME NEW r \in Request, BeginHandover(t, r)  PROVE TxOK' /\ LocksOK'
  <2>1. Pinned(r) \subseteq Unit
    BY DEF Pinned, TypeOK, TablesOK, Row
  <2>2. [Idle EXCEPT !.kind = "handover", !.step = "write", !.req = r,
                     !.units = Pinned(r)] \in Work
    BY <2>1 DEF Idle, Work, Handlers
  <2>3. TxOK'
    BY <1>6, <2>2, WorkTypes DEF BeginHandover, Idle
  <2> QED  BY <1>6, <2>3 DEF BeginHandover, Starts, TypeOK, LocksOK, TxOK, Idle, locks
<1>7. ASSUME NEW r \in Request, BeginReturn(t, r)  PROVE TxOK' /\ LocksOK'
  <2>1. PICK units \in SUBSET Unit :
          tx' = [tx EXCEPT ![t] = [Idle EXCEPT !.kind = "return", !.step = "release",
                   !.req = r, !.units = units, !.out = Unreturned(r)]]
    BY <1>7 DEF BeginReturn
  <2>2. [Idle EXCEPT !.kind = "return", !.step = "release", !.req = r, !.units = units,
                     !.out = Unreturned(r)] \in Work
    BY DEF Idle, Work, Handlers, Unreturned
  <2>3. TxOK'
    BY <2>1, <2>2, WorkTypes DEF Idle
  <2> QED  BY <1>7, <2>1, <2>3
           DEF BeginReturn, Starts, TypeOK, LocksOK, TxOK, Idle, locks
<1>8. ASSUME NEW u \in Unit, BeginInspect(t, u)  PROVE TxOK' /\ LocksOK'
  <2>1. [Idle EXCEPT !.kind = "inspect", !.step = "write", !.units = {u}] \in Work
    BY DEF Idle, Work, Handlers
  <2>2. TxOK'
    BY <1>8, <2>1, WorkTypes DEF BeginInspect, Idle
  <2> QED  BY <1>8, <2>2 DEF BeginInspect, Starts, TypeOK, LocksOK, TxOK, Idle, locks
<1> QED
  BY <1>1, <1>2, <1>3, <1>4, <1>5, <1>6, <1>7, <1>8 DEF Begin, TypeOK

(* Taking a lock, and the checks. *)
LEMMA ContinueTypes ==
  ASSUME TypeOK, NEW t \in Txn, Continue(t) \/ Rollback(t)
  PROVE  TypeOK'
<1>. USE ConstantsAssumption
<1>1. ASSUME UNCHANGED tables, End(t)  PROVE TypeOK'
  BY <1>1, EndTypes, TablesKept DEF TypeOK
<1>2. CASE TakeModelLock(t)
  <2>1. PICK m \in Model :
          /\ modelLock' = [modelLock EXCEPT ![m] = t]
          /\ tx' = [tx EXCEPT ![t] = [@ EXCEPT !.wants = tx[t].wants \ {m},
                !.step = IF tx[t].wants \ {m} = {} THEN "check" ELSE "lock"]]
    BY <1>2 DEF TakeModelLock
  <2> DEFINE w == [tx[t] EXCEPT !.wants = tx[t].wants \ {m},
                !.step = IF tx[t].wants \ {m} = {} THEN "check" ELSE "lock"]
  <2>2. tx[t] \in Work
    BY DEF TypeOK, TxOK
  <2>3. w \in Work /\ w.kind = tx[t].kind /\ w.req = tx[t].req
    BY <2>2 DEF Work
  <2>4. tx' = [tx EXCEPT ![t] = w]
    BY <2>1
  <2>5. tx[t].kind \in {"create", "assign"} /\ tx[t].req \in Request
    BY <1>2 DEF TakeModelLock, TypeOK, TxOK, Handlers
  <2> HIDE DEF w
  <2>6. TxOK'
    BY <2>3, <2>4, <2>5, WorkTypes
  <2>7. tx'[t].kind = tx[t].kind /\ tx'[t].req = tx[t].req
    BY <2>3, <2>4 DEF TypeOK, TxOK
  <2>8. LocksOK'
    BY <1>2, <2>1, <2>4, <2>5, <2>7 DEF TakeModelLock, TypeOK, LocksOK, TxOK
  <2> QED  BY <1>2, <2>6, <2>8, TablesKept DEF TypeOK, TakeModelLock
<1>3. CASE CheckAvailability(t)
  <2> DEFINE r == tx[t].req
             w == [tx[t] EXCEPT !.step = "write",
                                !.enough = {m \in Lines(r) : Enough(r, m)}]
  <2>1. tx[t] \in Work
    BY DEF TypeOK, TxOK
  <2>2. {m \in Lines(r) : Enough(r, m)} \in SUBSET Model
    BY DEF Lines
  <2>3. /\ w \in Work /\ w.kind = tx[t].kind /\ w.req = tx[t].req
        /\ w.by = tx[t].by /\ w.step = "write"
    BY <2>1, <2>2 DEF Work
  <2>4. tx' = [tx EXCEPT ![t] = w]
    BY <1>3 DEF CheckAvailability
  <2> HIDE DEF w
  <2>5. TxOK'
    BY <2>3, <2>4, WorkTypes DEF TypeOK, TxOK
  <2>6. LocksOK'
    BY <1>3, <2>3, <2>4 DEF CheckAvailability, TypeOK, TxOK, LocksOK, locks
  <2> QED  BY <1>3, <2>5, <2>6, TablesKept DEF TypeOK, CheckAvailability
<1>4. CASE CheckAssign(t)
  <2>1. CASE Goto(t, "write") /\ UNCHANGED <<tables, locks, now>>
    <3> DEFINE w == [tx[t] EXCEPT !.step = "write"]
    <3>1. tx[t] \in Work
      BY DEF TypeOK, TxOK
    <3>2. /\ w \in Work /\ w.kind = tx[t].kind /\ w.req = tx[t].req
          /\ w.by = tx[t].by /\ w.step = "write"
      BY <3>1 DEF Work
    <3>3. tx' = [tx EXCEPT ![t] = w]
      BY <2>1 DEF Goto
    <3> HIDE DEF w
    <3>4. TxOK'
      BY <3>2, <3>3, WorkTypes DEF TypeOK, TxOK
    <3>5. LocksOK'
      BY <2>1, <3>2, <3>3 DEF TypeOK, TxOK, LocksOK, locks
    <3> QED  BY <2>1, <3>4, <3>5, TablesKept DEF TypeOK
  <2>2. CASE End(t) /\ UNCHANGED tables
    BY <2>2, <1>1
  <2> QED  BY <1>4, <2>1, <2>2 DEF CheckAssign
<1>5. CASE Rollback(t)
  BY <1>1, <1>5 DEF Rollback
<1>6. CASE FindCancelled(t) \/ FindReturned(t)
  <2>1. PICK rows \in SUBSET (Model \X Copy) : FindRows(t, rows)
    BY <1>6 DEF FindCancelled, FindReturned, OpenRows
  <2> DEFINE w == [tx[t] EXCEPT !.rows = rows, !.step = "write"]
  <2>2. tx[t] \in Work
    BY DEF TypeOK, TxOK
  <2>3. /\ w \in Work /\ w.kind = tx[t].kind /\ w.req = tx[t].req
        /\ w.by = tx[t].by /\ w.step = "write"
    BY <2>2 DEF Work
  <2>4. tx' = [tx EXCEPT ![t] = w]
    BY <2>1 DEF FindRows
  <2> HIDE DEF w
  <2>5. TxOK'
    BY <2>3, <2>4, WorkTypes DEF TypeOK, TxOK
  <2>6. LocksOK'
    BY <2>1, <2>3, <2>4 DEF FindRows, TypeOK, TxOK, LocksOK, locks
  <2> QED  BY <2>1, <2>5, <2>6, TablesKept DEF TypeOK, FindRows
<1> QED  BY <1>2, <1>3, <1>4, <1>5, <1>6 DEF Continue

(* What the handlers do to a reservation. *)
LEMMA RowTypes ==
  /\ NoRow \in Row
  /\ \A row \in Row : [row EXCEPT !.status = "RELEASED"] \in Row /\ Confirmed(row) \in Row
BY DEF NoRow, Row, Confirmed

(* A write to the reservations or the lines of one request. *)
LEMMA ReservationTypes ==
  ASSUME TypeOK, NEW r \in Request, NEW f \in [Model -> [Copy -> Row]],
         reservation' = [reservation EXCEPT ![r] = f]
  PROVE  reservation' \in [Request -> [Model -> [Copy -> Row]]]
BY DEF TypeOK, TablesOK

LEMMA LineTypes ==
  ASSUME TypeOK, NEW r \in Request, NEW f \in [Model -> LineStatus],
         line' = [line EXCEPT ![r] = f]
  PROVE  line' \in [Request -> [Model -> LineStatus]]
BY DEF TypeOK, TablesOK

(* A signature is one more approval. *)
LEMMA DecidedTypes ==
  ASSUME TypeOK, NEW t \in Txn, tx[t].kind = "decide",
         NEW decision \in {"APPROVED", "REJECTED"}, Decided(t, decision)
  PROVE  /\ approvals' \in [Request -> SUBSET Approval]
         /\ \A r \in Request : IsFiniteSet(approvals'[r])
<1> DEFINE r == tx[t].req
           a == [by |-> tx[t].by, level |-> tx[t].signed + 1, decision |-> decision]
<1>1. r \in Request /\ tx[t].by \in Person /\ tx[t].signed \in {0, 1}
  BY DEF TypeOK, TxOK, Work, Handlers
<1>2. a \in Approval
  BY <1>1 DEF Approval
<1>3. approvals' = [approvals EXCEPT ![r] = approvals[r] \cup {a}]
  BY DEF Decided
<1>4. approvals[r] \subseteq Approval /\ IsFiniteSet(approvals[r])
  BY <1>1 DEF TypeOK, TablesOK
<1>5. approvals[r] \cup {a} \subseteq Approval /\ IsFiniteSet(approvals[r] \cup {a})
  BY <1>2, <1>4, FS_AddElement
<1> HIDE DEF r, a
<1> QED  BY <1>1, <1>3, <1>5 DEF TypeOK, TablesOK

(* Rejection and cancellation. *)
LEMMA ReleaseTypes ==
  ASSUME TypeOK, NEW r \in Request, NEW rows, Release(r, rows)
  PROVE  /\ reservation' \in [Request -> [Model -> [Copy -> Row]]]
         /\ line' \in [Request -> [Model -> LineStatus]]
<1>0. \A m \in Model, c \in Copy : reservation[r][m][c] \in Row
  BY DEF TypeOK, TablesOK
<1>1. [m \in Model |-> [c \in Copy |->
         IF <<m, c>> \in rows THEN [reservation[r][m][c] EXCEPT !.status = "RELEASED"]
         ELSE reservation[r][m][c]]]
         \in [Model -> [Copy -> Row]]
  BY <1>0, RowTypes
<1>2. [m \in Model |-> IF line[r][m] = "none" THEN "none" ELSE "CANCELLED"]
         \in [Model -> LineStatus]
  BY DEF LineStatus
<1> QED  BY <1>1, <1>2, ReservationTypes, LineTypes DEF Release

(* The last step of a handler. *)
LEMMA WriteTypes ==
  ASSUME TypeOK, NEW t \in Txn, Commit(t)
  PROVE  TypeOK'
<1>. USE ConstantsAssumption
<1> DEFINE r == tx[t].req
<1>0. End(t)
  BY DEF Commit, WriteCreate, WriteReject, WriteApprove, WriteCancel, WriteAssign,
         WriteHandover, WriteReturn, WriteInspect
<1>1. TxOK' /\ LocksOK' /\ now' = now
  BY <1>0, EndTypes
<1>. SUFFICES TablesOK'
  BY <1>1 DEF TypeOK
<1>2. tx[t] \in Work /\ (tx[t].kind \in Handlers \ {"inspect"} => r \in Request)
  BY DEF TypeOK, TxOK
<1>3. CASE WriteCreate(t)
  <2>1. r \in Request /\ tx[t].enough \subseteq Model
    BY <1>2, <1>3 DEF WriteCreate, Handlers, Work
  <2>2. reservation' \in [Request -> [Model -> [Copy -> Row]]]
    <3> DEFINE f == [m \in Model |-> [c \in Copy |->
                       IF m \in tx[t].enough /\ c <= Quantity[r][m]
                       THEN [status |-> "TENTATIVE", unit |-> NoUnit] ELSE NoRow]]
    <3>1. f \in [Model -> [Copy -> Row]]
      BY DEF Row, NoRow
    <3>2. reservation' = [reservation EXCEPT ![r] = f]
      BY <1>3 DEF WriteCreate
    <3> HIDE DEF f
    <3> QED  BY <2>1, <3>1, <3>2, ReservationTypes
  <2>3. line' \in [Request -> [Model -> LineStatus]]
    <3> DEFINE f == [m \in Model |-> IF m \notin Lines(r) THEN "none"
                       ELSE IF m \in tx[t].enough THEN "RESERVED" ELSE "BACKORDERED"]
    <3>1. f \in [Model -> LineStatus]
      BY DEF LineStatus
    <3>2. line' = [line EXCEPT ![r] = f]
      BY <1>3 DEF WriteCreate
    <3> HIDE DEF f
    <3> QED  BY <2>1, <3>1, <3>2, LineTypes
  <2>4. status' \in [Request -> RequestStatus]
    BY <1>3, <2>1 DEF WriteCreate, TypeOK, TablesOK, RequestStatus
  <2>5. promised' \subseteq Request \X Model
    BY <1>3, <2>1 DEF WriteCreate, TypeOK, TablesOK
  <2> QED  BY <1>3, <2>2, <2>3, <2>4, <2>5 DEF WriteCreate, TypeOK, TablesOK
<1>4. CASE WriteReject(t)
  <2>1. r \in Request
    BY <1>2, <1>4 DEF WriteReject, Handlers
  <2>2. status' \in [Request -> RequestStatus]
    BY <1>4, <2>1 DEF WriteReject, TypeOK, TablesOK, RequestStatus
  <2> QED  BY <1>4, <2>1, <2>2, ReleaseTypes, DecidedTypes DEF WriteReject, TypeOK, TablesOK
<1>5. CASE WriteApprove(t)
  <2>1. r \in Request
    BY <1>2, <1>5 DEF WriteApprove, Handlers
  <2>2. status' \in [Request -> RequestStatus]
    BY <1>5, <2>1 DEF WriteApprove, TypeOK, TablesOK, RequestStatus
  <2>3. [m \in Model |-> [c \in Copy |-> Confirmed(reservation[r][m][c])]]
          \in [Model -> [Copy -> Row]]
    <3> HIDE DEF r
    <3>1. \A m \in Model, c \in Copy : reservation[r][m][c] \in Row
      BY <2>1 DEF TypeOK, TablesOK
    <3>2. \A m \in Model, c \in Copy : Confirmed(reservation[r][m][c]) \in Row
      BY <3>1, RowTypes
    <3> QED  BY <3>2
  <2>4. reservation' \in [Request -> [Model -> [Copy -> Row]]]
    BY <1>5, <2>1, <2>3, ReservationTypes DEF WriteApprove, TypeOK, TablesOK
  <2> QED  BY <1>5, <2>1, <2>2, <2>4, DecidedTypes DEF WriteApprove, TypeOK, TablesOK
<1>6. CASE WriteCancel(t)
  <2>1. r \in Request
    BY <1>2, <1>6 DEF WriteCancel, Handlers
  <2>2. status' \in [Request -> RequestStatus]
    BY <1>6, <2>1 DEF WriteCancel, TypeOK, TablesOK, RequestStatus
  <2> QED  BY <1>6, <2>1, <2>2, ReleaseTypes DEF WriteCancel, TypeOK, TablesOK
<1>7. CASE WriteAssign(t)
  <2>1. r \in Request /\ tx[t].units \subseteq Unit
    BY <1>2, <1>7 DEF WriteAssign, Handlers, Work
  <2>2. status' \in [Request -> RequestStatus]
    BY <1>7, <2>1 DEF WriteAssign, TypeOK, TablesOK, RequestStatus
  <2>3. line' \in [Request -> [Model -> LineStatus]]
    <3> DEFINE f == [m \in Model |-> IF \E u \in tx[t].units : ModelOf[u] = m
                                     THEN "ALLOCATED" ELSE line[r][m]]
    <3>1. f \in [Model -> LineStatus]
      BY <2>1 DEF LineStatus, TypeOK, TablesOK
    <3>2. line' = [line EXCEPT ![r] = f]
      BY <1>7 DEF WriteAssign
    <3> HIDE DEF f
    <3> QED  BY <2>1, <3>1, <3>2, LineTypes
  <2>4. reservation' \in [Request -> [Model -> [Copy -> Row]]]
    <3>1. PICK f \in Placements(t) :
            reservation' = [reservation EXCEPT ![r] =
              [m \in Model |-> [c \in Copy |->
                 IF \E u \in tx[t].units : ModelOf[u] = m /\ f[u] = c
                 THEN [status |-> "CONFIRMED",
                       unit |-> CHOOSE u \in tx[t].units : ModelOf[u] = m /\ f[u] = c]
                 ELSE reservation[r][m][c]]]]
      BY <1>7 DEF WriteAssign
    <3> DEFINE At(m, c) == \E u \in tx[t].units : ModelOf[u] = m /\ f[u] = c
               the(m, c) == CHOOSE u \in tx[t].units : ModelOf[u] = m /\ f[u] = c
               g == [m \in Model |-> [c \in Copy |->
                       IF At(m, c) THEN [status |-> "CONFIRMED", unit |-> the(m, c)]
                       ELSE reservation[r][m][c]]]
    <3>2. \A m \in Model, c \in Copy : At(m, c) => the(m, c) \in Unit
      BY <2>1
    <3>3. reservation' = [reservation EXCEPT ![r] = g]
      BY <3>1
    <3> HIDE DEF At, the
    <3>4. g \in [Model -> [Copy -> Row]]
      BY <2>1, <3>2 DEF Row, TypeOK, TablesOK
    <3> HIDE DEF g
    <3> QED  BY <2>1, <3>3, <3>4, ReservationTypes
  <2> QED  BY <1>7, <2>2, <2>3, <2>4 DEF WriteAssign, TypeOK, TablesOK
<1>8. CASE WriteHandover(t)
  <2>1. r \in Request /\ tx[t].units \subseteq Unit
    BY <1>2, <1>8 DEF WriteHandover, Handlers, Work
  <2>2. status' \in [Request -> RequestStatus]
    BY <1>8, <2>1 DEF WriteHandover, TypeOK, TablesOK, RequestStatus
  <2>3. line' \in [Request -> [Model -> LineStatus]]
    <3> DEFINE f == [m \in Model |-> IF line[r][m] = "none" THEN "none" ELSE "ON_LOAN"]
    <3>1. f \in [Model -> LineStatus]
      BY DEF LineStatus
    <3>2. line' = [line EXCEPT ![r] = f]
      BY <1>8 DEF WriteHandover
    <3> HIDE DEF f
    <3> QED  BY <2>1, <3>1, <3>2, LineTypes
  <2>4. lent' \in [Request -> [Unit -> Nat]]
    <3> DEFINE f == [u \in Unit |-> IF u \in tx[t].units THEN lent[r][u] + 1
                                    ELSE lent[r][u]]
    <3>1. f \in [Unit -> Nat]
      BY <2>1 DEF TypeOK, TablesOK
    <3>2. lent' = [lent EXCEPT ![r] = f]
      BY <1>8 DEF WriteHandover
    <3> HIDE DEF f
    <3> QED  BY <2>1, <3>1, <3>2 DEF TypeOK, TablesOK
  <2>5. asset' \in [Unit -> AssetStatus]
    BY <1>8 DEF WriteHandover, TypeOK, TablesOK, AssetStatus
  <2> QED  BY <1>8, <2>2, <2>3, <2>4, <2>5 DEF WriteHandover, TypeOK, TablesOK
<1>9. CASE WriteReturn(t)
  <2>1. r \in Request
    BY <1>2, <1>9 DEF WriteReturn, Handlers
  <2>2. status' \in [Request -> RequestStatus]
    BY <1>9, <2>1 DEF WriteReturn, TypeOK, TablesOK, RequestStatus
  <2>3. returned' \in [Request -> [Unit -> Nat]]
    <3> DEFINE f == [u \in Unit |-> IF u \in tx[t].units THEN returned[r][u] + 1
                                    ELSE returned[r][u]]
    <3>1. f \in [Unit -> Nat]
      BY <2>1 DEF TypeOK, TablesOK
    <3>2. returned' = [returned EXCEPT ![r] = f]
      BY <1>9 DEF WriteReturn
    <3> HIDE DEF f
    <3> QED  BY <2>1, <3>1, <3>2 DEF TypeOK, TablesOK
  <2>4. asset' \in [Unit -> AssetStatus]
    BY <1>9 DEF WriteReturn, TypeOK, TablesOK, AssetStatus, NotUsable
  <2>5. reservation' \in [Request -> [Model -> [Copy -> Row]]]
    <3> DEFINE f == [m \in Model |-> [c \in Copy |->
                       IF <<m, c>> \in tx[t].rows
                       THEN [reservation[r][m][c] EXCEPT !.status = "RELEASED"]
                       ELSE reservation[r][m][c]]]
    <3>1. f \in [Model -> [Copy -> Row]]
      BY <2>1, RowTypes DEF TypeOK, TablesOK
    <3>2. reservation' = [reservation EXCEPT ![r] = f]
      BY <1>9 DEF WriteReturn
    <3> HIDE DEF f
    <3> QED  BY <2>1, <3>1, <3>2, ReservationTypes
  <2> QED  BY <1>9, <2>2, <2>3, <2>4, <2>5 DEF WriteReturn, TypeOK, TablesOK
<1>10. CASE WriteInspect(t)
  <2>1. tx[t].units \subseteq Unit /\ now \in Nat
    BY <1>2 DEF Work, TypeOK
  <2>2. PICK u \in tx[t].units, verdict \in {"AVAILABLE", "UNDER_MAINTENANCE", "BROKEN"} :
          /\ asset' = [asset EXCEPT ![u] = verdict]
          /\ repairs' = IF verdict = "UNDER_MAINTENANCE"
                        THEN [repairs EXCEPT ![u] = Append(repairs[u], now)] ELSE repairs
    BY <1>10 DEF WriteInspect
  <2>3. asset' \in [Unit -> AssetStatus]
    BY <2>1, <2>2 DEF TypeOK, TablesOK, AssetStatus, NotUsable
  <2>4. Append(repairs[u], now) \in Seq(Nat)
    BY <2>1, <2>2 DEF TypeOK, TablesOK
  <2>5. repairs' \in [Unit -> Seq(Nat)]
    BY <2>1, <2>2, <2>4 DEF TypeOK, TablesOK
  <2> QED  BY <1>10, <2>3, <2>5 DEF WriteInspect, TypeOK, TablesOK
<1> QED
  BY <1>3, <1>4, <1>5, <1>6, <1>7, <1>8, <1>9, <1>10 DEF Commit

LEMMA TypeStep ==
  ASSUME TypeOK, [Next]_vars
  PROVE  TypeOK'
<1>1. CASE UNCHANGED vars
  BY <1>1, TablesKept DEF vars, locks, TypeOK, TxOK, LocksOK, Work
<1>2. CASE Tick
  BY <1>2, TablesKept DEF Tick, locks, TypeOK, TxOK, LocksOK, Work
<1> QED
  BY <1>1, <1>2, BeginTypes, ContinueTypes, WriteTypes DEF Next

(* Every table, lock and transaction keeps its type, only the handlers that  *)
(* take a lock hold one, and none is held after the end of its transaction.  *)
THEOREM TypeCorrect == Spec => []TypeOK
BY TypeInit, TypeStep, PTL DEF Spec

-----------------------------------------------------------------------------
(* No double booking *)

\* An assignment has the locks of the models of its units, or still wants them.
HoldsLocks ==
  \A t \in Txn : tx[t].kind = "assign" =>
    /\ \A u \in tx[t].units : ModelOf[u] \in tx[t].wants \/ modelLock[ModelOf[u]] = t
    /\ tx[t].step \in {"check", "write"} => tx[t].wants = {}

\* What an assignment found free when it checked is free until it writes.
Checked ==
  \A t \in Txn : tx[t].kind = "assign" /\ tx[t].step = "write" =>
    \A u \in tx[t].units : ~ Clash(tx[t].req, u)

BookingInv == HoldsLocks /\ Checked /\ NoDoubleBooking

LEMMA BookingInit == Init => BookingInv
BY ConstantsAssumption
   DEF Init, BookingInv, HoldsLocks, Checked, NoDoubleBooking, Idle, NoRow, Live

(* The locks of a transaction stay with it while another one works. *)
LEMMA HoldsStep ==
  ASSUME TypeOK, HoldsLocks, [Next]_vars
  PROVE  HoldsLocks'
<1>. USE ConstantsAssumption
<1>0. \A s \in Txn : \A u \in tx[s].units : ModelOf[u] \in Model
  BY DEF TypeOK, TxOK, Work
<1>1. ASSUME NEW t \in Txn, End(t)  PROVE HoldsLocks'
  <2>1. tx'[t].kind = "idle" /\ \A s \in Txn \ {t} : tx'[s] = tx[s]
    BY <1>1 DEF End, Idle, TypeOK, TxOK
  <2>2. \A s \in Txn \ {t}, m \in Model : modelLock[m] = s => modelLock'[m] = s
    BY <1>1 DEF End
  <2> QED  BY <1>0, <2>1, <2>2 DEF HoldsLocks
<1>2. ASSUME NEW t \in Txn, NEW w, w.kind # "assign", tx' = [tx EXCEPT ![t] = w],
             UNCHANGED modelLock
      PROVE  HoldsLocks'
  BY <1>2 DEF HoldsLocks, TypeOK, TxOK
<1>3. ASSUME NEW t \in Txn, Begin(t)  PROVE HoldsLocks'
  <2>1. CASE \E r \in Request : BeginCreate(t, r)
    BY <2>1, <1>2 DEF BeginCreate, locks, Idle
  <2>2. CASE \E r \in Request, p \in Leader \cup Admin : BeginDecide(t, r, p)
    BY <2>2, <1>2 DEF BeginDecide, Idle
  <2>3. CASE \E r \in Request : BeginCancel(t, r)
    BY <2>3, <1>2 DEF BeginCancel, Idle
  <2>4. CASE \E r \in Request : BeginAssign(t, r)
    <3>1. PICK r \in Request, units \in SUBSET Unit :
            tx' = [tx EXCEPT ![t] = [Idle EXCEPT !.kind = "assign", !.step = "lock",
                     !.req = r, !.units = units, !.wants = {ModelOf[u] : u \in units},
                     !.rows = OpenRows(r)]]
      BY <2>4 DEF BeginAssign
    <3>2. UNCHANGED modelLock
      BY <2>4 DEF BeginAssign, locks
    <3> QED  BY <3>1, <3>2 DEF HoldsLocks, TypeOK, TxOK, Idle
  <2>5. CASE \E r \in Request : BeginHandover(t, r)
    BY <2>5, <1>2 DEF BeginHandover, locks, Idle
  <2>6. CASE \E r \in Request : BeginReturn(t, r)
    BY <2>6, <1>2 DEF BeginReturn, locks, Idle
  <2>7. CASE \E u \in Unit : BeginInspect(t, u)
    BY <2>7, <1>2 DEF BeginInspect, locks, Idle
  <2> QED  BY <1>3, <2>1, <2>2, <2>3, <2>4, <2>5, <2>6, <2>7 DEF Begin
<1>4. ASSUME NEW t \in Txn, TakeModelLock(t)  PROVE HoldsLocks'
  <2>1. PICK m \in Model :
          /\ Free(m)
          /\ modelLock' = [modelLock EXCEPT ![m] = t]
          /\ tx' = [tx EXCEPT ![t] = [@ EXCEPT !.wants = tx[t].wants \ {m},
                !.step = IF tx[t].wants \ {m} = {} THEN "check" ELSE "lock"]]
    BY <1>4 DEF TakeModelLock
  <2>2. /\ tx[t] \in Work
        /\ tx'[t].kind = tx[t].kind /\ tx'[t].units = tx[t].units
        /\ tx'[t].wants = tx[t].wants \ {m}
        /\ tx'[t].step = IF tx[t].wants \ {m} = {} THEN "check" ELSE "lock"
    BY <2>1 DEF TypeOK, TxOK, Work
  <2>3. ModelOf \in [Unit -> Model] /\ tx[t].units \subseteq Unit
    BY <2>2 DEF Work
  <2>4. tx[t].kind = "assign" =>
          /\ \A u \in tx'[t].units : ModelOf[u] \in tx'[t].wants \/ modelLock'[ModelOf[u]] = t
          /\ tx'[t].step \in {"check", "write"} => tx'[t].wants = {}
    BY <2>1, <2>2, <2>3 DEF HoldsLocks, TypeOK, LocksOK
  <2>5. ASSUME NEW s \in Txn \ {t}
        PROVE  tx'[s] = tx[s] /\ \A n \in Model : modelLock[n] = s => modelLock'[n] = s
    <3>1. tx'[s] = tx[s]
      BY <2>1 DEF TypeOK, TxOK
    <3>2. modelLock[m] = NoTxn /\ s # NoTxn
      BY <2>1 DEF Free
    <3>3. \A n \in Model \ {m} : modelLock'[n] = modelLock[n]
      BY <2>1 DEF TypeOK, LocksOK
    <3> QED  BY <3>1, <3>2, <3>3
  <2>6. ASSUME NEW s \in Txn \ {t}, tx'[s].kind = "assign"
        PROVE  /\ \A u \in tx'[s].units : ModelOf[u] \in tx'[s].wants \/ modelLock'[ModelOf[u]] = s
               /\ tx'[s].step \in {"check", "write"} => tx'[s].wants = {}
    <3>1. tx[s].kind = "assign"
      BY <2>5, <2>6
    <3>2. /\ \A u \in tx[s].units : ModelOf[u] \in tx[s].wants \/ modelLock[ModelOf[u]] = s
          /\ tx[s].step \in {"check", "write"} => tx[s].wants = {}
      BY <3>1 DEF HoldsLocks
    <3> QED  BY <1>0, <2>5, <3>2
  <2> QED  BY <2>2, <2>4, <2>6 DEF HoldsLocks
<1>5. ASSUME NEW t \in Txn, CheckAvailability(t)  PROVE HoldsLocks'
  <2>1. tx[t] \in Work
    BY DEF TypeOK, TxOK
  <2> QED  BY <1>2, <1>5, <2>1 DEF CheckAvailability, locks, Work
<1>6. ASSUME NEW t \in Txn, CheckAssign(t)  PROVE HoldsLocks'
  <2>1. CASE Goto(t, "write") /\ UNCHANGED modelLock
    <3>1. tx[t] \in Work
      BY DEF TypeOK, TxOK
    <3>2. /\ tx'[t].kind = tx[t].kind /\ tx'[t].units = tx[t].units
          /\ tx'[t].wants = tx[t].wants /\ tx[t].step = "check"
          /\ \A s \in Txn \ {t} : tx'[s] = tx[s]
      BY <1>6, <2>1, <3>1 DEF CheckAssign, Goto, TypeOK, TxOK, Work
    <3> QED  BY <2>1, <3>2 DEF HoldsLocks
  <2> QED  BY <1>1, <1>6, <2>1 DEF CheckAssign, locks
<1>7. CASE Tick \/ UNCHANGED vars
  BY <1>7 DEF Tick, vars, locks, HoldsLocks
<1>8. ASSUME NEW t \in Txn, FindCancelled(t) \/ FindReturned(t)  PROVE HoldsLocks'
  <2>1. PICK rows : FindRows(t, rows) /\ tx[t].kind \in {"cancel", "return"}
    BY <1>8 DEF FindCancelled, FindReturned
  <2>2. tx[t] \in Work
    BY DEF TypeOK, TxOK
  <2> QED  BY <1>2, <2>1, <2>2 DEF FindRows, locks, Work
<1> QED
  BY <1>1, <1>3, <1>4, <1>5, <1>6, <1>7, <1>8
     DEF Next, Continue, Commit, Rollback, WriteCreate, WriteReject, WriteApprove,
         WriteCancel, WriteAssign, WriteHandover, WriteReturn, WriteInspect

(* Which reservations a step may pin to which units. *)
Shrinks ==
  \A q \in Request, m \in Model, c \in Copy :
    Live(reservation'[q][m][c]) /\ reservation'[q][m][c].unit # NoUnit =>
      Live(reservation[q][m][c]) /\ reservation[q][m][c].unit = reservation'[q][m][c].unit

(* Every handler but assign() only ever releases units. *)
LEMMA ShrinksStep ==
  ASSUME TypeOK, [Next]_vars, \A t \in Txn : ~ WriteAssign(t)
  PROVE  Shrinks
<1>1. ASSUME UNCHANGED reservation  PROVE Shrinks
  BY <1>1 DEF Shrinks
<1>2. ASSUME NEW r \in Request, NEW rows, Release(r, rows)  PROVE Shrinks
  <2>1. \A row \in Row : ~ Live([row EXCEPT !.status = "RELEASED"])
    BY DEF Row, Live
  <2>2. \A q \in Request, m \in Model, c \in Copy :
          \/ reservation'[q][m][c] = reservation[q][m][c]
          \/ reservation'[q][m][c] = [reservation[q][m][c] EXCEPT !.status = "RELEASED"]
    BY <1>2 DEF Release, TypeOK, TablesOK
  <2>3. ASSUME NEW q \in Request, NEW m \in Model, NEW c \in Copy
        PROVE  reservation'[q][m][c] = reservation[q][m][c] \/ ~ Live(reservation'[q][m][c])
    <3>1. reservation[q][m][c] \in Row
      BY DEF TypeOK, TablesOK
    <3>2. ~ Live([reservation[q][m][c] EXCEPT !.status = "RELEASED"])
      BY <2>1, <3>1
    <3> QED  BY <2>2, <3>2
  <2> QED  BY <2>3 DEF Shrinks
<1>3. ASSUME NEW t \in Txn, WriteCreate(t)  PROVE Shrinks
  BY <1>3 DEF WriteCreate, Shrinks, TypeOK, TablesOK, NoRow, Live
<1>4. ASSUME NEW t \in Txn, WriteReject(t) \/ WriteCancel(t)  PROVE Shrinks
  <2>1. tx[t].req \in Request
    BY <1>4 DEF WriteReject, WriteCancel, TypeOK, TxOK, Handlers
  <2> QED  BY <1>2, <1>4, <2>1 DEF WriteReject, WriteCancel
<1>5. ASSUME NEW t \in Txn, WriteApprove(t)  PROVE Shrinks
  <2>1. CASE UNCHANGED reservation
    BY <1>1, <2>1
  <2>2. CASE reservation' = [reservation EXCEPT ![tx[t].req] =
               [m \in Model |-> [c \in Copy |-> Confirmed(reservation[tx[t].req][m][c])]]]
    <3>1. \A row \in Row : Live(Confirmed(row)) => Live(row) /\ Confirmed(row).unit = row.unit
      BY DEF Row, Live, Confirmed
    <3>2. \A q \in Request, m \in Model, c \in Copy : reservation[q][m][c] \in Row
      BY DEF TypeOK, TablesOK
    <3>3. \A q \in Request, m \in Model, c \in Copy :
            \/ reservation'[q][m][c] = reservation[q][m][c]
            \/ reservation'[q][m][c] = Confirmed(reservation[q][m][c])
      BY <2>2 DEF TypeOK, TablesOK
    <3> QED  BY <3>1, <3>2, <3>3 DEF Shrinks
  <2> QED  BY <1>5, <2>1, <2>2 DEF WriteApprove
<1>6. ASSUME NEW t \in Txn, WriteReturn(t)  PROVE Shrinks
  <2>1. \A q \in Request, m \in Model, c \in Copy : reservation[q][m][c] \in Row
    BY DEF TypeOK, TablesOK
  <2>2. \A row \in Row : ~ Live([row EXCEPT !.status = "RELEASED"])
    BY DEF Row, Live
  <2> DEFINE Ended(row) == [row EXCEPT !.status = "RELEASED"]
  <2>3. \A q \in Request, m \in Model, c \in Copy :
          \/ reservation'[q][m][c] = reservation[q][m][c]
          \/ reservation'[q][m][c] = Ended(reservation[q][m][c])
    BY <1>6 DEF WriteReturn, TypeOK, TablesOK
  <2>4. \A q \in Request, m \in Model, c \in Copy :
          \/ reservation'[q][m][c] = reservation[q][m][c]
          \/ ~ Live(reservation'[q][m][c])
    <3>1. \A row \in Row : ~ Live(Ended(row))
      BY <2>2
    <3> HIDE DEF Ended
    <3> QED  BY <2>1, <2>3, <3>1
  <2> QED  BY <2>4 DEF Shrinks
<1>7. ASSUME NEW t \in Txn, Begin(t) \/ Continue(t) \/ Rollback(t)  PROVE UNCHANGED reservation
  BY <1>7 DEF Begin, BeginCreate, BeginDecide, BeginCancel, BeginAssign, BeginHandover,
       BeginReturn, BeginInspect, Continue, TakeModelLock, CheckAvailability, CheckAssign,
       FindCancelled, FindReturned, FindRows,
       Rollback, tables
<1>8. ASSUME Tick \/ UNCHANGED vars  PROVE UNCHANGED reservation
  BY <1>8 DEF Tick, vars, tables
<1>9. ASSUME NEW t \in Txn, WriteHandover(t) \/ WriteInspect(t)  PROVE UNCHANGED reservation
  BY <1>9 DEF WriteHandover, WriteInspect
<1> QED
  BY <1>1, <1>3, <1>4, <1>5, <1>6, <1>7, <1>8, <1>9 DEF Next, Commit

(* While units are only released, what was found free stays free. *)
LEMMA ShrinksKeeps ==
  ASSUME TypeOK, NoDoubleBooking, Shrinks
  PROVE  /\ NoDoubleBooking'
         /\ \A r \in Request, u \in Unit : Clash(r, u)' => Clash(r, u)
<1>. USE ConstantsAssumption
<1>1. ASSUME NEW q \in Request, NEW r \in Request, NEW m \in Model, NEW c \in Copy, NEW d \in Copy,
             q # r, Live(reservation'[q][m][c]), Live(reservation'[r][m][d]),
             reservation'[q][m][c].unit = reservation'[r][m][d].unit,
             reservation'[q][m][c].unit # NoUnit
      PROVE  ~ Overlaps(q, r, m)
  <2>1. Live(reservation[q][m][c]) /\ reservation[q][m][c].unit = reservation'[q][m][c].unit
    BY <1>1 DEF Shrinks
  <2>2. Live(reservation[r][m][d]) /\ reservation[r][m][d].unit = reservation'[r][m][d].unit
    BY <1>1 DEF Shrinks
  <2> QED  BY <1>1, <2>1, <2>2 DEF NoDoubleBooking
<1>2. NoDoubleBooking'
  BY <1>1 DEF NoDoubleBooking, Live, Overlaps
<1>3. ASSUME NEW r \in Request, NEW u \in Unit, Clash(r, u)'  PROVE Clash(r, u)
  <2> DEFINE m == ModelOf[u]
  <2>1. PICK q \in Request \ {r}, c \in Copy :
          /\ Live(reservation'[q][m][c]) /\ reservation'[q][m][c].unit = u
          /\ Overlaps(q, r, m)
    BY <1>3 DEF Clash, Live, Overlaps
  <2>2. m \in Model /\ u # NoUnit
    OBVIOUS
  <2> HIDE DEF m
  <2>3. Live(reservation[q][m][c]) /\ reservation[q][m][c].unit = u
    BY <2>1, <2>2 DEF Shrinks
  <2> QED  BY <2>1, <2>3 DEF Clash, m
<1> QED  BY <1>2, <1>3

(* A step of one transaction leaves the others alone. *)
LEMMA OneAtWork ==
  ASSUME TypeOK, NEW t \in Txn, Begin(t) \/ Continue(t) \/ Commit(t) \/ Rollback(t)
  PROVE  \A s \in Txn \ {t} : tx'[s] = tx[s]
<1>1. Commit(t) \/ Rollback(t) => End(t)
  BY DEF Commit, Rollback, WriteCreate, WriteReject, WriteApprove, WriteCancel,
         WriteAssign, WriteHandover, WriteReturn, WriteInspect
<1>2. End(t) => \E w : tx' = [tx EXCEPT ![t] = w]
  BY DEF End
<1>3. Continue(t) => \E w : tx' = [tx EXCEPT ![t] = w]
  BY <1>2 DEF Continue, TakeModelLock, CheckAvailability, CheckAssign, Goto,
              FindCancelled, FindReturned, FindRows
<1>4. ASSUME Begin(t)  PROVE \E w : tx' = [tx EXCEPT ![t] = w]
  <2>1. ASSUME NEW r \in Request, BeginCreate(t, r) \/ BeginCancel(t, r) \/ BeginHandover(t, r)
        PROVE  \E w : tx' = [tx EXCEPT ![t] = w]
    BY <2>1 DEF BeginCreate, BeginCancel, BeginHandover
  <2>2. ASSUME NEW r \in Request, BeginAssign(t, r)
        PROVE  \E w : tx' = [tx EXCEPT ![t] = w]
    BY <2>2 DEF BeginAssign
  <2>3. ASSUME NEW r \in Request, BeginReturn(t, r)
        PROVE  \E w : tx' = [tx EXCEPT ![t] = w]
    BY <2>3 DEF BeginReturn
  <2>4. ASSUME NEW r \in Request, NEW p \in Leader \cup Admin, BeginDecide(t, r, p)
        PROVE  \E w : tx' = [tx EXCEPT ![t] = w]
    BY <2>4 DEF BeginDecide
  <2>5. ASSUME NEW u \in Unit, BeginInspect(t, u)
        PROVE  \E w : tx' = [tx EXCEPT ![t] = w]
    BY <2>5 DEF BeginInspect
  <2> QED  BY <1>4, <2>1, <2>2, <2>3, <2>4, <2>5 DEF Begin
<1>5. \E w : tx' = [tx EXCEPT ![t] = w]
  BY <1>1, <1>2, <1>3, <1>4
<1> QED  BY <1>5 DEF TypeOK, TxOK

(* Only the check of assign() brings a transaction to the write of assign(). *)
LEMMA WriteAfterCheck ==
  ASSUME TypeOK, [Next]_vars, NEW s \in Txn, tx'[s] # tx[s],
         tx'[s].kind = "assign", tx'[s].step = "write"
  PROVE  /\ \A u \in tx'[s].units : Assignable(tx[s].req, u)
         /\ tx'[s].req = tx[s].req
<1>0. tx[s] \in Work
  BY DEF TypeOK, TxOK
<1>1. Begin(s) \/ Continue(s) \/ Commit(s) \/ Rollback(s)
  BY OneAtWork DEF Next, Tick, vars
<1>2. ~ End(s)
  BY DEF End, Idle, TypeOK, TxOK
<1>3. ~ (Commit(s) \/ Rollback(s))
  BY <1>2 DEF Commit, Rollback, WriteCreate, WriteReject, WriteApprove, WriteCancel,
              WriteAssign, WriteHandover, WriteReturn, WriteInspect
<1>4. ~ Begin(s)
  <2>0. SUFFICES ASSUME Begin(s)  PROVE FALSE
    OBVIOUS
  <2>1. ASSUME NEW r \in Request, BeginCreate(s, r) \/ BeginCancel(s, r) \/ BeginHandover(s, r)
        PROVE  FALSE
    BY <2>1 DEF BeginCreate, BeginCancel, BeginHandover, Idle, TypeOK, TxOK
  <2>2. ASSUME NEW r \in Request, BeginAssign(s, r)  PROVE FALSE
    BY <2>2 DEF BeginAssign, Idle, TypeOK, TxOK
  <2>3. ASSUME NEW r \in Request, BeginReturn(s, r)  PROVE FALSE
    BY <2>3 DEF BeginReturn, Idle, TypeOK, TxOK
  <2>4. ASSUME NEW r \in Request, NEW p \in Leader \cup Admin, BeginDecide(s, r, p)
        PROVE  FALSE
    BY <2>4 DEF BeginDecide, Idle, TypeOK, TxOK
  <2>5. ASSUME NEW u \in Unit, BeginInspect(s, u)  PROVE FALSE
    BY <2>5 DEF BeginInspect, Idle, TypeOK, TxOK
  <2> QED  BY <2>0, <2>1, <2>2, <2>3, <2>4, <2>5 DEF Begin
<1>5. ~ TakeModelLock(s)
  <2>0. SUFFICES ASSUME TakeModelLock(s)  PROVE FALSE
    OBVIOUS
  <2>1. PICK m \in Model :
          tx' = [tx EXCEPT ![s] = [@ EXCEPT !.wants = tx[s].wants \ {m},
                !.step = IF tx[s].wants \ {m} = {} THEN "check" ELSE "lock"]]
    BY <2>0 DEF TakeModelLock
  <2>2. tx'[s].step \in {"check", "lock"}
    BY <1>0, <2>1 DEF TypeOK, TxOK, Work
  <2> QED  BY <2>2
<1>6. ~ CheckAvailability(s)
  <2>1. CheckAvailability(s) => tx'[s].kind = tx[s].kind /\ tx[s].kind = "create"
    BY <1>0 DEF CheckAvailability, TypeOK, TxOK, Work
  <2> QED  BY <2>1
<1>10. ~ FindCancelled(s) /\ ~ FindReturned(s)
  <2>1. ASSUME NEW rows, FindRows(s, rows)  PROVE tx'[s].kind = tx[s].kind
    BY <1>0, <2>1 DEF FindRows, TypeOK, TxOK, Work
  <2>2. FindCancelled(s) \/ FindReturned(s) => tx[s].kind # "assign"
    BY DEF FindCancelled, FindReturned
  <2> QED  BY <2>1, <2>2 DEF FindCancelled, FindReturned
<1>7. CheckAssign(s)
  BY <1>1, <1>3, <1>4, <1>5, <1>6, <1>10 DEF Continue
<1>8. /\ tx' = [tx EXCEPT ![s] = [@ EXCEPT !.step = "write"]]
      /\ \A u \in tx[s].units : Assignable(tx[s].req, u)
  BY <1>2, <1>7 DEF CheckAssign, Goto
<1>9. tx'[s].req = tx[s].req /\ tx'[s].units = tx[s].units
  BY <1>0, <1>8 DEF TypeOK, TxOK, Work
<1> QED  BY <1>8, <1>9

(* What assign() found free stays free while other handlers write. *)
LEMMA CheckedStep ==
  ASSUME TypeOK, Checked, NoDoubleBooking, [Next]_vars, \A t \in Txn : ~ WriteAssign(t)
  PROVE  Checked' /\ NoDoubleBooking'
<1>1. /\ NoDoubleBooking'
      /\ \A r \in Request, u \in Unit : Clash(r, u)' => Clash(r, u)
  BY ShrinksStep, ShrinksKeeps
<1>2. TypeOK'
  BY TypeStep
<1>3. ASSUME NEW s \in Txn, tx'[s].kind = "assign", tx'[s].step = "write",
             NEW u \in tx'[s].units
      PROVE  tx'[s].req \in Request /\ u \in Unit /\ ~ Clash(tx[s].req, u)
             /\ tx'[s].req = tx[s].req
  <2>1. tx'[s].req \in Request /\ u \in Unit
    BY <1>2, <1>3 DEF TypeOK, TxOK, Work, Handlers
  <2>2. CASE tx'[s] = tx[s]
    BY <1>3, <2>1, <2>2 DEF Checked
  <2>3. CASE tx'[s] # tx[s]
    BY <1>3, <2>1, <2>3, WriteAfterCheck DEF Assignable
  <2> QED  BY <2>2, <2>3
<1>4. Checked'
  BY <1>1, <1>3 DEF Checked
<1> QED  BY <1>1, <1>4

(* assign() pins units of its own, to reservations of their models. *)
LEMMA Pins ==
  ASSUME TypeOK, NEW t \in Txn, WriteAssign(t),
         NEW q \in Request, NEW m \in Model, NEW c \in Copy
  PROVE  \/ reservation'[q][m][c] = reservation[q][m][c]
         \/ /\ q = tx[t].req
            /\ reservation'[q][m][c].unit \in tx[t].units
            /\ ModelOf[reservation'[q][m][c].unit] = m
<1> DEFINE r == tx[t].req
<1>1. PICK f \in Placements(t) :
        reservation' = [reservation EXCEPT ![r] =
          [n \in Model |-> [d \in Copy |->
             IF \E u \in tx[t].units : ModelOf[u] = n /\ f[u] = d
             THEN [status |-> "CONFIRMED",
                   unit |-> CHOOSE u \in tx[t].units : ModelOf[u] = n /\ f[u] = d]
             ELSE reservation[r][n][d]]]]
  BY DEF WriteAssign
<1> DEFINE the == CHOOSE u \in tx[t].units : ModelOf[u] = m /\ f[u] = c
<1>2. CASE q # r
  BY <1>1, <1>2 DEF TypeOK, TablesOK
<1>3. CASE q = r /\ ~ \E u \in tx[t].units : ModelOf[u] = m /\ f[u] = c
  BY <1>1, <1>3 DEF TypeOK, TablesOK
<1>4. CASE q = r /\ \E u \in tx[t].units : ModelOf[u] = m /\ f[u] = c
  <2>1. reservation'[q][m][c] = [status |-> "CONFIRMED", unit |-> the]
    BY <1>1, <1>4 DEF TypeOK, TablesOK
  <2>2. the \in tx[t].units /\ ModelOf[the] = m
    BY <1>4
  <2> HIDE DEF the
  <2> QED  BY <1>4, <2>1, <2>2
<1> QED  BY <1>2, <1>3, <1>4

LEMMA OverlapsSymmetric ==
  ASSUME NEW q, NEW r, NEW m, Overlaps(q, r, m)
  PROVE  Overlaps(r, q, m)
BY DEF Overlaps

(* Two assignments that write have no unit in common: both hold its lock. *)
LEMMA AssignStep ==
  ASSUME TypeOK, BookingInv, NEW t \in Txn, WriteAssign(t)
  PROVE  Checked' /\ NoDoubleBooking'
<1>. USE ConstantsAssumption
<1> DEFINE r == tx[t].req
<1>1. /\ tx[t].kind = "assign" /\ tx[t].step = "write"
      /\ r \in Request /\ tx[t].units \subseteq Unit
  BY DEF WriteAssign, TypeOK, TxOK, Work, Handlers
<1>2. \A s \in Txn \ {t} : tx'[s] = tx[s]
  BY OneAtWork DEF Commit
<1>3. tx'[t].kind # "assign"
  BY DEF WriteAssign, End, Idle, TypeOK, TxOK
<1>4. ASSUME NEW s \in Txn \ {t}, tx[s].kind = "assign", tx[s].step = "write",
             NEW u \in tx[s].units
      PROVE  u \in Unit /\ u \notin tx[t].units
  <2>1. u \in Unit /\ tx[s].wants = {} /\ tx[t].wants = {}
    BY <1>1, <1>4 DEF TypeOK, TxOK, Work, BookingInv, HoldsLocks
  <2>2. modelLock[ModelOf[u]] = s
    BY <1>4, <2>1 DEF BookingInv, HoldsLocks
  <2>3. u \in tx[t].units => modelLock[ModelOf[u]] = t
    BY <1>1, <2>1 DEF BookingInv, HoldsLocks
  <2> QED  BY <2>1, <2>2, <2>3
<1>5. ASSUME NEW s \in Txn, tx'[s].kind = "assign", tx'[s].step = "write",
             NEW u \in tx'[s].units
      PROVE  tx'[s] = tx[s] /\ ~ Clash(tx[s].req, u)'
  <2>1. s # t /\ tx'[s] = tx[s]
    BY <1>2, <1>3, <1>5
  <2>2. u \in Unit /\ u \notin tx[t].units /\ ~ Clash(tx[s].req, u)
    BY <1>4, <1>5, <2>1 DEF BookingInv, Checked
  <2> DEFINE m == ModelOf[u]
  <2>3. m \in Model
    BY <2>2
  <2>4. ASSUME NEW q \in Request \ {tx[s].req}, NEW c \in Copy,
               Live(reservation'[q][m][c]), reservation'[q][m][c].unit = u,
               Overlaps(q, tx[s].req, m)
        PROVE  FALSE
    <3>1. \/ reservation'[q][m][c] = reservation[q][m][c]
          \/ reservation'[q][m][c].unit \in tx[t].units
      <4> HIDE DEF m
      <4> QED  BY <2>3, Pins
    <3>2. reservation'[q][m][c] = reservation[q][m][c]
      BY <2>2, <2>4, <3>1
    <3> QED  BY <2>2, <2>4, <3>2 DEF Clash
  <2> QED  BY <2>1, <2>4 DEF Clash, Live, Overlaps
<1>6. Checked'
  BY <1>5 DEF Checked
<1>7. ASSUME NEW p \in Request, NEW q \in Request, NEW m \in Model, NEW c \in Copy, NEW d \in Copy,
             p # q, Live(reservation'[p][m][c]), Live(reservation'[q][m][d]),
             reservation'[p][m][c].unit = reservation'[q][m][d].unit,
             reservation'[p][m][c].unit # NoUnit
      PROVE  ~ Overlaps(p, q, m)
  <2> DEFINE u == reservation'[p][m][c].unit
  <2>1. CASE reservation'[p][m][c] = reservation[p][m][c]
             /\ reservation'[q][m][d] = reservation[q][m][d]
    BY <1>7, <2>1 DEF BookingInv, NoDoubleBooking
  <2>2. CASE p = r /\ u \in tx[t].units /\ ModelOf[u] = m
    <3>1. reservation'[q][m][d] = reservation[q][m][d]
      <4>1. reservation'[q][m][d] = reservation[q][m][d] \/ q = tx[t].req
        BY <1>7, Pins
      <4> QED  BY <1>7, <2>2, <4>1
    <3>2. ~ Clash(p, u)
      BY <1>1, <2>2 DEF BookingInv, Checked
    <3>3. ~ Overlaps(q, p, m)
      BY <1>7, <2>2, <3>1, <3>2 DEF Clash
    <3> QED  BY <3>3, OverlapsSymmetric
  <2>3. CASE q = r /\ u \in tx[t].units /\ ModelOf[u] = m
    <3>1. reservation'[p][m][c] = reservation[p][m][c] \/ p = tx[t].req
      BY <1>7, Pins
    <3>2. ~ Clash(q, u)
      BY <1>1, <2>3 DEF BookingInv, Checked
    <3>3. Live(reservation[p][m][c]) /\ reservation[p][m][c].unit = u
      BY <1>7, <2>3, <3>1
    <3> HIDE DEF u
    <3> QED  BY <1>7, <2>3, <3>2, <3>3 DEF Clash
  <2>4. \/ reservation'[p][m][c] = reservation[p][m][c]
        \/ p = r /\ u \in tx[t].units /\ ModelOf[u] = m
    BY <1>7, Pins
  <2>5. \/ reservation'[q][m][d] = reservation[q][m][d]
        \/ q = r /\ u \in tx[t].units /\ ModelOf[u] = m
    <3>1. \/ reservation'[q][m][d] = reservation[q][m][d]
          \/ /\ q = tx[t].req
             /\ reservation'[q][m][d].unit \in tx[t].units
             /\ ModelOf[reservation'[q][m][d].unit] = m
      BY <1>7, Pins
    <3> QED  BY <1>7, <3>1
  <2> QED  BY <2>1, <2>2, <2>3, <2>4, <2>5
<1>8. NoDoubleBooking'
  BY <1>7 DEF NoDoubleBooking, Live, Overlaps
<1> QED  BY <1>6, <1>8

LEMMA BookingStep ==
  ASSUME TypeOK, BookingInv, [Next]_vars
  PROVE  BookingInv'
<1>1. CASE \E t \in Txn : WriteAssign(t)
  BY <1>1, HoldsStep, AssignStep DEF BookingInv
<1>2. CASE \A t \in Txn : ~ WriteAssign(t)
  BY <1>2, HoldsStep, CheckedStep DEF BookingInv
<1> QED  BY <1>1, <1>2

(* No unit is promised to two requests whose periods overlap: whatever runs  *)
(* between an assignment's check and its write, it took the locks first.     *)
THEOREM BookingCorrect == Spec => []NoDoubleBooking
<1>1. BookingInv => NoDoubleBooking
  BY DEF BookingInv
<1> QED  BY <1>1, BookingInit, BookingStep, TypeCorrect, PTL DEF Spec

=============================================================================
