----------------------------- MODULE BorrowFlow -----------------------------
(***************************************************************************)
(* The life of an equipment request in the module mems-borrow: creation,   *)
(* approval, cancellation, assignment of units, handover and return, with  *)
(* the inspection of units that came back (mems-catalog).                  *)
(*                                                                         *)
(* Every handler is one database transaction at READ COMMITTED.  A Txn     *)
(* runs one handler at a time: it begins with the first read, takes the    *)
(* advisory locks the handler asks for, checks, and commits.  Only a few   *)
(* handlers take locks; the others write what follows from a row that may  *)
(* have changed since they read it.  The writes of a transaction become    *)
(* visible together, so they are one step; but an UPDATE by a condition    *)
(* acts on the rows committed when it starts, and where another handler    *)
(* may add to them meanwhile, finding them is a step of its own.  A        *)
(* transaction may also be rolled back at any point (a lost connection,    *)
(* Prisma's time limit).                                                   *)
(*                                                                         *)
(* A Request of the model is one submission of the form: who borrows what, *)
(* when and why is constant, its row of mems_borrow_request is not there   *)
(* (ABSENT) before create() commits.  Each of its lines is one Model: a    *)
(* second line for a model is refused.                                     *)
(*                                                                         *)
(* Left out: photos, accessories, notes, events and incidents, which are   *)
(* written with the rows modelled here; the department and the code of a   *)
(* request; the condition of a unit, which only gives assign() one more    *)
(* reason to refuse.                                                       *)
(***************************************************************************)
EXTENDS Naturals, FiniteSets, Sequences

CONSTANTS
  Request,       \* submissions of the borrowing form
  Owner,         \* the person behind each request
  Purpose,       \* WORK or PERSONAL
  From, To,      \* the period of each request
  Quantity,      \* how many units of each model it asks for; 0: no such line
  Person, Leader, Admin,  \* leaders of the Media team, administrators
  Unit, ModelOf, \* the units in the warehouse
  Model,         \* models by rank in the order their ids are sorted in
  Buffer,        \* buffer_minutes of each model's category
  Copy,          \* bound: ids of the reservations of one line
  Txn,           \* bound: how many transactions run at a time
  Kind,          \* the handlers in use
  MaxTime,       \* bound: the clock stops there
  Apart,         \* pairs of handlers that never work on one request at a time
  NoTxn, NoUnit, NoRequest, NoPerson

Handlers == {"create", "decide", "cancel", "assign", "handover", "return", "inspect"}

ASSUME ConstantsAssumption ==
  /\ Owner \in [Request -> Person]
  /\ Purpose \in [Request -> {"WORK", "PERSONAL"}]
  /\ Model \subseteq Nat
  /\ From \in [Request -> Nat] /\ To \in [Request -> Nat]
  /\ \A r \in Request : From[r] < To[r]
  /\ Quantity \in [Request -> [Model -> Nat]]
  /\ Leader \subseteq Person /\ Admin \subseteq Person
  /\ ModelOf \in [Unit -> Model]
  /\ Buffer \in [Model -> Nat]
  /\ Copy \subseteq Nat
  /\ Kind \subseteq Handlers
  /\ Apart \subseteq SUBSET Handlers
  /\ NoTxn \notin Txn /\ NoUnit \notin Unit
  /\ NoRequest \notin Request /\ NoPerson \notin Person

\* The tables are finite, and a line has an id for each unit it asks for.
ASSUME FiniteAssumption ==
  /\ IsFiniteSet(Request) /\ IsFiniteSet(Model)
  /\ IsFiniteSet(Unit) /\ IsFiniteSet(Copy)
  /\ 0 \notin Copy
  /\ \A r \in Request, m \in Model : 1..Quantity[r][m] \subseteq Copy

VARIABLES
  status,       \* mems_borrow_request.status
  approvals,    \* mems_approval
  line,         \* mems_request_line.status
  reservation,  \* mems_reservation, by request, model and id
  lent,         \* how many handover lines a request has for a unit
  returned,     \* how many return lines the first of them has
  asset,        \* mems_asset.status
  repairs,      \* mems_maintenance: from_time of the open ones of each unit
  modelLock, requestLock,  \* the advisory locks
  tx,           \* what each transaction is doing and has read
  now,
  promised      \* history: the lines the user was told are reserved

tables == <<status, approvals, line, reservation, lent, returned, asset, repairs, promised>>
locks  == <<modelLock, requestLock>>
vars   == <<tables, locks, tx, now>>

\* The definitions named Bad... are mistakes this code could have had; no
\* action uses them.  Each property is shown to fail with one of them.

-----------------------------------------------------------------------------
(* Reservations and availability *)

Lines(r) == {m \in Model : Quantity[r][m] > 0}

UnitsOf(m) == {u \in Unit : ModelOf[u] = m}

BadOverlaps(q, r, m) ==
  From[q] < To[r] /\ From[r] < To[q]

\* The periods of two requests for model m, half open and with the buffer.
Overlaps(q, r, m) ==
  From[q] < To[r] + Buffer[m] /\ From[r] < To[q] + Buffer[m]

NoRow == [status |-> "none", unit |-> NoUnit]

Live(row) == row.status \in {"TENTATIVE", "CONFIRMED"}

NotUsable == {"PENDING_INSPECTION", "POST_RETURN_CHECK", "BROKEN", "LOST", "DISPOSED"}

Usable(m) == {u \in UnitsOf(m) : asset[u] \notin NotUsable}

\* The reservations of model m, by any request, that overlap request r's.
Busy(r, m) ==
  {id \in Request \X Copy :
     Live(reservation[id[1]][m][id[2]]) /\ Overlaps(id[1], r, m)}

\* An open maintenance keeps a unit for ever after it began.
UnderRepair(u, r) == {i \in DOMAIN repairs[u] : repairs[u][i] < To[r] + Buffer[ModelOf[u]]}

Enough(r, m) ==
  Cardinality(Busy(r, m))
    + Cardinality(UNION {{u} \X UnderRepair(u, r) : u \in UnitsOf(m)})
    + Quantity[r][m] <= Cardinality(Usable(m))

\* asset_id of the request's reservations, the released ones included.
Pinned(r) ==
  {reservation[r][m][c].unit : m \in Model, c \in Copy} \ {NoUnit}

\* A unit is with the borrower of request r; with anybody.
OutFor(r, u) == lent[r][u] > 0 /\ returned[r][u] = 0
Out(u) == \E r \in Request : OutFor(r, u)

-----------------------------------------------------------------------------
(* Transactions *)

Idle ==
  [kind |-> "idle", step |-> "none", req |-> NoRequest, by |-> NoPerson,
   units |-> {}, wants |-> {}, rows |-> {}, enough |-> {}, signed |-> 0, out |-> {}]

\* No transaction works on request r that this one is kept apart from.
Alone(r, kind) == \A s \in Txn : tx[s].req = r => {kind, tx[s].kind} \notin Apart

Starts(t, kind) == kind \in Kind /\ tx[t] = Idle

\* Transaction t goes on to its next step.
Goto(t, step) == tx' = [tx EXCEPT ![t] = [@ EXCEPT !.step = step]]

BadEnd(t) ==
  /\ tx' = [tx EXCEPT ![t] = Idle]
  /\ UNCHANGED <<locks, now>>

\* The end of a transaction, and of the advisory locks it holds.
End(t) ==
  /\ tx' = [tx EXCEPT ![t] = Idle]
  /\ modelLock' = [m \in Model |-> IF modelLock[m] = t THEN NoTxn ELSE modelLock[m]]
  /\ requestLock' = [r \in Request |-> IF requestLock[r] = t THEN NoTxn ELSE requestLock[r]]
  /\ UNCHANGED now

Rollback(t) ==
  /\ tx[t] # Idle
  /\ End(t)
  /\ UNCHANGED tables

BadNextLock(t, m) == m \in tx[t].wants

\* Locks are asked for in the order of the sorted ids.
NextLock(t, m) == m \in tx[t].wants /\ \A n \in tx[t].wants : m <= n

Free(m) == modelLock[m] = NoTxn

TakeModelLock(t) ==
  /\ tx[t].step = "lock"
  /\ \E m \in Model :
       /\ NextLock(t, m)
       /\ Free(m)
       /\ modelLock' = [modelLock EXCEPT ![m] = t]
       /\ LET rest == tx[t].wants \ {m} IN
          tx' = [tx EXCEPT ![t] = [@ EXCEPT !.wants = rest,
                                            !.step = IF rest = {} THEN "check" ELSE "lock"]]
  /\ UNCHANGED <<tables, requestLock, now>>

-----------------------------------------------------------------------------
(* create *)

BeginCreate(t, r) ==
  /\ Starts(t, "create")
  /\ status[r] = "ABSENT"
  /\ \A s \in Txn : tx[s].req # r
  /\ Lines(r) # {}
  /\ tx' = [tx EXCEPT ![t] = [Idle EXCEPT !.kind = "create", !.step = "lock",
                                          !.req = r, !.wants = Lines(r)]]
  /\ UNCHANGED <<tables, locks, now>>

CheckAvailability(t) ==
  /\ tx[t].kind = "create"
  /\ tx[t].step = "check"
  /\ LET r == tx[t].req IN
     tx' = [tx EXCEPT ![t] = [@ EXCEPT !.step = "write",
                                       !.enough = {m \in Lines(r) : Enough(r, m)}]]
  /\ UNCHANGED <<tables, locks, now>>

\* A line that cannot be reserved is accepted all the same, as BACKORDERED.
WriteCreate(t) ==
  LET r == tx[t].req IN
  /\ tx[t].kind = "create"
  /\ tx[t].step = "write"
  /\ status' = [status EXCEPT ![r] = "PENDING_APPROVAL"]
  /\ line' = [line EXCEPT ![r] =
       [m \in Model |-> IF m \notin Lines(r) THEN "none"
                        ELSE IF m \in tx[t].enough THEN "RESERVED" ELSE "BACKORDERED"]]
  /\ reservation' = [reservation EXCEPT ![r] =
       [m \in Model |-> [c \in Copy |->
          IF m \in tx[t].enough /\ c <= Quantity[r][m]
          THEN [status |-> "TENTATIVE", unit |-> NoUnit] ELSE NoRow]]]
  /\ promised' = promised \cup ({r} \X tx[t].enough)
  /\ End(t)
  /\ UNCHANGED <<approvals, lent, returned, asset, repairs>>

-----------------------------------------------------------------------------
(* approve, reject and cancel *)

\* The roles that sign a request, in order.
Steps(r) == IF Purpose[r] = "PERSONAL" THEN <<"LEADER", "ADMIN">> ELSE <<"LEADER">>

Approved(r) == {a \in approvals[r] : a.decision = "APPROVED"}

\* Person p may sign the next level of request r, of which `signed` are done.
CanSign(r, signed, p) ==
  \/ /\ Steps(r)[signed + 1] = "ADMIN"
     /\ p \in Admin /\ p # Owner[r]
  \/ /\ Steps(r)[signed + 1] = "LEADER"
     /\ p \in Leader \/ (p \in Admin /\ Purpose[r] = "WORK")

BadHasDecided(r, p) == FALSE

HasDecided(r, p) == \E a \in approvals[r] : a.by = p

BadRequestFree(r) == TRUE

RequestFree(r) == requestLock[r] = NoTxn

BeginDecide(t, r, p) ==
  LET signed == Cardinality(Approved(r)) IN
  /\ Starts(t, "decide") /\ Alone(r, "decide")
  /\ RequestFree(r)
  /\ status[r] = "PENDING_APPROVAL"
  /\ ~ HasDecided(r, p)
  /\ signed < Len(Steps(r))
  /\ CanSign(r, signed, p)
  /\ requestLock' = [requestLock EXCEPT ![r] = t]
  /\ tx' = [tx EXCEPT ![t] = [Idle EXCEPT !.kind = "decide", !.step = "write",
                                          !.req = r, !.by = p, !.signed = signed]]
  /\ UNCHANGED <<tables, modelLock, now>>

Decided(t, decision) ==
  approvals' = [approvals EXCEPT ![tx[t].req] = @ \cup
    {[by |-> tx[t].by, level |-> tx[t].signed + 1, decision |-> decision]}]

\* The ids of the reservations of request r that are not released.
OpenRows(r) ==
  {id \in Model \X Copy : Live(reservation[r][id[1]][id[2]])}

BadRelease(r, rows) ==
  /\ line' = [line EXCEPT ![r] =
       [m \in Model |-> IF line[r][m] = "none" THEN "none" ELSE "CANCELLED"]]
  /\ UNCHANGED reservation

\* Rejection and cancellation release the reservations they find and end
\* every line.
Release(r, rows) ==
  /\ reservation' = [reservation EXCEPT ![r] =
       [m \in Model |-> [c \in Copy |->
          IF <<m, c>> \in rows THEN [reservation[r][m][c] EXCEPT !.status = "RELEASED"]
          ELSE reservation[r][m][c]]]]
  /\ line' = [line EXCEPT ![r] =
       [m \in Model |-> IF line[r][m] = "none" THEN "none" ELSE "CANCELLED"]]

\* No transaction that adds reservations runs beside a rejection: assign()
\* begins only after the approval, which takes the lock decide() holds.
WriteReject(t) ==
  LET r == tx[t].req IN
  /\ tx[t].kind = "decide"
  /\ tx[t].step = "write"
  /\ Decided(t, "REJECTED")
  /\ Release(r, OpenRows(r))
  /\ status' = [status EXCEPT ![r] = "REJECTED"]
  /\ End(t)
  /\ UNCHANGED <<lent, returned, asset, repairs, promised>>

Confirmed(row) ==
  IF row.status = "TENTATIVE" THEN [row EXCEPT !.status = "CONFIRMED"] ELSE row

\* The last signature confirms the reservations and approves the request.
WriteApprove(t) ==
  LET r == tx[t].req IN
  /\ tx[t].kind = "decide"
  /\ tx[t].step = "write"
  /\ Decided(t, "APPROVED")
  /\ \/ /\ tx[t].signed + 1 < Len(Steps(r))
        /\ UNCHANGED <<status, reservation>>
     \/ /\ tx[t].signed + 1 >= Len(Steps(r))
        /\ status' = [status EXCEPT ![r] = "APPROVED"]
        /\ reservation' = [reservation EXCEPT ![r] =
             [m \in Model |-> [c \in Copy |-> Confirmed(reservation[r][m][c])]]]
  /\ End(t)
  /\ UNCHANGED <<line, lent, returned, asset, repairs, promised>>

BadCancellable == {"PENDING_APPROVAL", "APPROVED", "PREPARING", "ON_LOAN"}

Cancellable == {"PENDING_APPROVAL", "APPROVED", "PREPARING"}

\* The owner may cancel before the first approval is complete, a keeper of the
\* warehouse until the handover.
BeginCancel(t, r) ==
  /\ Starts(t, "cancel") /\ Alone(r, "cancel")
  /\ RequestFree(r)
  /\ \E p \in Person :
       \/ p = Owner[r] /\ status[r] = "PENDING_APPROVAL"
       \/ p \in Leader \cup Admin /\ status[r] \in Cancellable
  /\ requestLock' = [requestLock EXCEPT ![r] = t]
  /\ tx' = [tx EXCEPT ![t] = [Idle EXCEPT !.kind = "cancel", !.step = "release", !.req = r]]
  /\ UNCHANGED <<tables, modelLock, now>>

\* The UPDATE that releases finds these rows.  It waits for a transaction that
\* is changing one of them and releases it after that one's end; a row that is
\* inserted or revived meanwhile it does not see.
FindRows(t, rows) ==
  /\ tx[t].step = "release"
  /\ tx' = [tx EXCEPT ![t] = [@ EXCEPT !.rows = rows, !.step = "write"]]
  /\ UNCHANGED <<tables, locks, now>>

FindCancelled(t) == tx[t].kind = "cancel" /\ FindRows(t, OpenRows(tx[t].req))

WriteCancel(t) ==
  LET r == tx[t].req IN
  /\ tx[t].kind = "cancel"
  /\ tx[t].step = "write"
  /\ Release(r, tx[t].rows)
  /\ status' = [status EXCEPT ![r] = "CANCELLED"]
  /\ End(t)
  /\ UNCHANGED <<approvals, lent, returned, asset, repairs, promised>>

-----------------------------------------------------------------------------
(* assign *)

\* The keeper names as many units as each of the chosen lines asks for.
BeginAssign(t, r) ==
  /\ Starts(t, "assign") /\ Alone(r, "assign")
  /\ status[r] \in {"APPROVED", "PREPARING"}
  /\ \E units \in (SUBSET Unit) \ {{}} :
       LET chosen == {ModelOf[u] : u \in units} IN
       /\ chosen \subseteq Lines(r)
       /\ \A m \in chosen : Cardinality(units \cap UnitsOf(m)) = Quantity[r][m]
       /\ tx' = [tx EXCEPT ![t] = [Idle EXCEPT !.kind = "assign", !.step = "lock",
                   !.req = r, !.units = units, !.wants = chosen, !.rows = OpenRows(r)]]
  /\ UNCHANGED <<tables, locks, now>>

BadClash(r, u) == Out(u)

\* Unit u is pinned by another request in an overlapping period.
Clash(r, u) ==
  \E q \in Request \ {r}, c \in Copy :
    LET row == reservation[q][ModelOf[u]][c] IN
    Live(row) /\ row.unit = u /\ Overlaps(q, r, ModelOf[u])

\* Unit u is out with somebody who should have brought it back.
Overdue(u) ==
  \E q \in Request :
    To[q] < now /\ (IF returned[q][u] = 0 THEN lent[q][u] > 0 ELSE lent[q][u] > 1)

Assignable(r, u) ==
  /\ asset[u] \notin NotUsable
  /\ ~ Clash(r, u)
  /\ UnderRepair(u, r) = {}
  /\ ~ Overdue(u)

CheckAssign(t) ==
  /\ tx[t].kind = "assign"
  /\ tx[t].step = "check"
  /\ \/ /\ \A u \in tx[t].units : Assignable(tx[t].req, u)
        /\ Goto(t, "write")
        /\ UNCHANGED <<tables, locks, now>>
     \/ /\ \E u \in tx[t].units : ~ Assignable(tx[t].req, u)
        /\ End(t)
        /\ UNCHANGED tables

\* A reservation for every unit: one the transaction has read, while there is
\* one left, or else a new one.
Placements(t) ==
  LET r == tx[t].req
      ids(m) == {c \in Copy : <<m, c>> \in tx[t].rows}
      fresh(m) == {c \in Copy : reservation[r][m][c].status = "none"}
      units(m) == tx[t].units \cap UnitsOf(m)
  IN  {f \in [tx[t].units -> Copy] :
         \A m \in {ModelOf[u] : u \in tx[t].units} :
           LET used == {f[u] : u \in units(m)} IN
           /\ \A u, v \in units(m) : f[u] = f[v] => u = v
           /\ \/ used \subseteq ids(m)
              \/ ids(m) \subseteq used /\ used \subseteq ids(m) \cup fresh(m)
           /\ \A c \in used \cap fresh(m), d \in fresh(m) : d < c => d \in used}

\* By id alone, whatever became of the request and its reservations since.
WriteAssign(t) ==
  LET r == tx[t].req IN
  /\ tx[t].kind = "assign"
  /\ tx[t].step = "write"
  /\ \E f \in Placements(t) :
       reservation' = [reservation EXCEPT ![r] =
         [m \in Model |-> [c \in Copy |->
            IF \E u \in tx[t].units : ModelOf[u] = m /\ f[u] = c
            THEN [status |-> "CONFIRMED",
                  unit |-> CHOOSE u \in tx[t].units : ModelOf[u] = m /\ f[u] = c]
            ELSE reservation[r][m][c]]]]
  /\ line' = [line EXCEPT ![r] =
       [m \in Model |-> IF \E u \in tx[t].units : ModelOf[u] = m
                        THEN "ALLOCATED" ELSE line[r][m]]]
  /\ status' = [status EXCEPT ![r] = "PREPARING"]
  /\ End(t)
  /\ UNCHANGED <<approvals, lent, returned, asset, repairs, promised>>

-----------------------------------------------------------------------------
(* handover and return *)

\* What the keeper hands over is in the warehouse, and in nobody else's hands.
AtHand(r, u) ==
  /\ ~ Out(u)
  /\ \A s \in Txn : tx[s].kind = "handover" /\ u \in tx[s].units => tx[s].req = r

\* The record must list all the units pinned by the request and no other.
BeginHandover(t, r) ==
  /\ Starts(t, "handover") /\ Alone(r, "handover")
  /\ status[r] = "PREPARING"
  /\ Pinned(r) # {}
  /\ \A u \in Pinned(r) : AtHand(r, u)
  /\ tx' = [tx EXCEPT ![t] = [Idle EXCEPT !.kind = "handover", !.step = "write",
                                          !.req = r, !.units = Pinned(r)]]
  /\ UNCHANGED <<tables, locks, now>>

WriteHandover(t) ==
  LET r == tx[t].req IN
  /\ tx[t].kind = "handover"
  /\ tx[t].step = "write"
  /\ lent' = [lent EXCEPT ![r] =
       [u \in Unit |-> IF u \in tx[t].units THEN lent[r][u] + 1 ELSE lent[r][u]]]
  /\ asset' = [u \in Unit |-> IF u \in tx[t].units THEN "ON_LOAN" ELSE asset[u]]
  /\ line' = [line EXCEPT ![r] =
       [m \in Model |-> IF line[r][m] = "none" THEN "none" ELSE "ON_LOAN"]]
  /\ status' = [status EXCEPT ![r] = "ON_LOAN"]
  /\ End(t)
  /\ UNCHANGED <<approvals, reservation, returned, repairs, promised>>

\* The units of a request with a handover line that has no return line.
Unreturned(r) ==
  {u \in Unit : IF returned[r][u] = 0 THEN lent[r][u] > 0 ELSE lent[r][u] > 1}

BeginReturn(t, r) ==
  /\ Starts(t, "return") /\ Alone(r, "return")
  /\ status[r] \in {"ON_LOAN", "PARTIALLY_RETURNED"}
  /\ \E units \in (SUBSET {u \in Unit : OutFor(r, u)}) \ {{}} :
       tx' = [tx EXCEPT ![t] = [Idle EXCEPT !.kind = "return", !.step = "release",
                !.req = r, !.units = units, !.out = Unreturned(r)]]
  /\ UNCHANGED <<tables, locks, now>>

\* The reservations that name a unit of the form, whatever their status.
FindReturned(t) ==
  /\ tx[t].kind = "return"
  /\ FindRows(t, {id \in Model \X Copy :
                    reservation[tx[t].req][id[1]][id[2]].unit \in tx[t].units})

BadStillOut(t) == tx[t].out

StillOut(t) == tx[t].out \ tx[t].units

\* A unit that came back in worse condition, or without all of its parts, must
\* be inspected.
WriteReturn(t) ==
  LET r == tx[t].req IN
  /\ tx[t].kind = "return"
  /\ tx[t].step = "write"
  /\ returned' = [returned EXCEPT ![r] =
       [u \in Unit |-> IF u \in tx[t].units THEN returned[r][u] + 1 ELSE returned[r][u]]]
  /\ \E suspect \in SUBSET tx[t].units :
       asset' = [u \in Unit |-> IF u \in suspect THEN "POST_RETURN_CHECK"
                                ELSE IF u \in tx[t].units THEN "AVAILABLE" ELSE asset[u]]
  /\ reservation' = [reservation EXCEPT ![r] =
       [m \in Model |-> [c \in Copy |->
          IF <<m, c>> \in tx[t].rows
          THEN [reservation[r][m][c] EXCEPT !.status = "RELEASED"]
          ELSE reservation[r][m][c]]]]
  /\ status' = [status EXCEPT ![r] =
       IF StillOut(t) = {} THEN "CLOSED" ELSE "PARTIALLY_RETURNED"]
  /\ End(t)
  /\ UNCHANGED <<approvals, line, lent, repairs, promised>>

-----------------------------------------------------------------------------
(* inspect *)

BeginInspect(t, u) ==
  /\ Starts(t, "inspect")
  /\ asset[u] \in {"PENDING_INSPECTION", "POST_RETURN_CHECK"}
  /\ tx' = [tx EXCEPT ![t] = [Idle EXCEPT !.kind = "inspect", !.step = "write",
                                          !.units = {u}]]
  /\ UNCHANGED <<tables, locks, now>>

\* A unit under maintenance is unavailable through an open maintenance record.
WriteInspect(t) ==
  /\ tx[t].kind = "inspect"
  /\ tx[t].step = "write"
  /\ \E u \in tx[t].units, verdict \in {"AVAILABLE", "UNDER_MAINTENANCE", "BROKEN"} :
       /\ asset' = [asset EXCEPT ![u] = verdict]
       /\ repairs' = IF verdict = "UNDER_MAINTENANCE"
                     THEN [repairs EXCEPT ![u] = Append(@, now)] ELSE repairs
  /\ End(t)
  /\ UNCHANGED <<status, approvals, line, reservation, lent, returned, promised>>

Tick ==
  /\ now < MaxTime
  /\ now' = now + 1
  /\ UNCHANGED <<tables, locks, tx>>

-----------------------------------------------------------------------------
(* Specification *)

Init ==
  /\ status = [r \in Request |-> "ABSENT"]
  /\ approvals = [r \in Request |-> {}]
  /\ line = [r \in Request |-> [m \in Model |-> "none"]]
  /\ reservation = [r \in Request |-> [m \in Model |-> [c \in Copy |-> NoRow]]]
  /\ lent = [r \in Request |-> [u \in Unit |-> 0]]
  /\ returned = [r \in Request |-> [u \in Unit |-> 0]]
  /\ asset = [u \in Unit |-> "AVAILABLE"]
  /\ repairs = [u \in Unit |-> <<>>]
  /\ promised = {}
  /\ modelLock = [m \in Model |-> NoTxn]
  /\ requestLock = [r \in Request |-> NoTxn]
  /\ tx = [t \in Txn |-> Idle]
  /\ now = 0

Begin(t) ==
  \/ \E r \in Request :
       \/ BeginCreate(t, r)
       \/ \E p \in Leader \cup Admin : BeginDecide(t, r, p)
       \/ BeginCancel(t, r)
       \/ BeginAssign(t, r)
       \/ BeginHandover(t, r)
       \/ BeginReturn(t, r)
  \/ \E u \in Unit : BeginInspect(t, u)

Continue(t) ==
  \/ TakeModelLock(t)
  \/ CheckAvailability(t)
  \/ CheckAssign(t)
  \/ FindCancelled(t)
  \/ FindReturned(t)

Commit(t) ==
  \/ WriteCreate(t)
  \/ WriteReject(t)
  \/ WriteApprove(t)
  \/ WriteCancel(t)
  \/ WriteAssign(t)
  \/ WriteHandover(t)
  \/ WriteReturn(t)
  \/ WriteInspect(t)

Next ==
  \/ \E t \in Txn : Begin(t) \/ Continue(t) \/ Commit(t) \/ Rollback(t)
  \/ Tick

Spec == Init /\ [][Next]_vars

-----------------------------------------------------------------------------
(* Correctness *)

RequestStatus ==
  {"ABSENT", "PENDING_APPROVAL", "APPROVED", "PREPARING", "ON_LOAN",
   "PARTIALLY_RETURNED", "CLOSED", "REJECTED", "CANCELLED"}

LineStatus == {"none", "RESERVED", "BACKORDERED", "ALLOCATED", "ON_LOAN", "CANCELLED"}

AssetStatus ==
  NotUsable \cup {"AVAILABLE", "ON_LOAN", "UNDER_MAINTENANCE"}

Row == [status : {"none", "TENTATIVE", "CONFIRMED", "RELEASED"}, unit : Unit \cup {NoUnit}]

Approval == [by : Person, level : {1, 2}, decision : {"APPROVED", "REJECTED"}]

Work ==
  [kind : Handlers \cup {"idle"}, step : {"none", "lock", "check", "release", "write"},
   req : Request \cup {NoRequest}, by : Person \cup {NoPerson}, units : SUBSET Unit,
   wants : SUBSET Model, rows : SUBSET (Model \X Copy), enough : SUBSET Model,
   signed : {0, 1}, out : SUBSET Unit]

TablesOK ==
  /\ status \in [Request -> RequestStatus]
  /\ approvals \in [Request -> SUBSET Approval]
  /\ \A r \in Request : IsFiniteSet(approvals[r])
  /\ line \in [Request -> [Model -> LineStatus]]
  /\ reservation \in [Request -> [Model -> [Copy -> Row]]]
  /\ lent \in [Request -> [Unit -> Nat]]
  /\ returned \in [Request -> [Unit -> Nat]]
  /\ asset \in [Unit -> AssetStatus]
  /\ repairs \in [Unit -> Seq(Nat)]
  /\ promised \subseteq Request \X Model

\* A transaction that works on a request has one, and one that signs knows who
\* does; only create and assign wait for locks and check.
TxOK ==
  /\ tx \in [Txn -> Work]
  /\ \A t \in Txn :
       /\ tx[t].kind \in Handlers \ {"inspect"} => tx[t].req \in Request
       /\ tx[t].kind = "decide" => tx[t].by \in Person
       /\ tx[t].step \in {"lock", "check"} => tx[t].kind \in {"create", "assign"}

\* A lock is held by a transaction at work, and only until its end.
LocksOK ==
  /\ modelLock \in [Model -> Txn \cup {NoTxn}]
  /\ requestLock \in [Request -> Txn \cup {NoTxn}]
  /\ \A m \in Model : modelLock[m] # NoTxn => tx[modelLock[m]].kind \in {"create", "assign"}
  /\ \A r \in Request : requestLock[r] # NoTxn =>
       tx[requestLock[r]].kind \in {"decide", "cancel"} /\ tx[requestLock[r]].req = r

TypeOK == TablesOK /\ TxOK /\ LocksOK /\ now \in Nat

(* No unit is promised to two requests at the same time: the two keepers who *)
(* prepare two requests "cung doc thay chiec cuoi la ranh neu khong khoa"    *)
(* (assignment.service.ts).  However transactions interleave, and whatever   *)
(* is cancelled and reassigned meanwhile.                                    *)
NoDoubleBooking ==
  \A q, r \in Request, m \in Model, c, d \in Copy :
    LET one == reservation[q][m][c]
        other == reservation[r][m][d]
    IN  /\ q # r /\ Live(one) /\ Live(other)
        /\ one.unit = other.unit /\ one.unit # NoUnit
        => ~ Overlaps(q, r, m)

\* These two handlers never work on one request at a time.  The code does not
\* see to it; four properties hold only where it is so for the pairs they name.
NeverBoth(a, b) == {a, b} \in Apart

(* At no time are more units of a model reserved for lines their owners were *)
(* told are RESERVED than the warehouse has, however the requests race.      *)
PromisedAt(m, time) ==
  {id \in Request \X Copy :
     /\ <<id[1], m>> \in promised /\ Live(reservation[id[1]][m][id[2]])
     /\ From[id[1]] <= time /\ time < To[id[1]] + Buffer[m]}

PromisesKept ==
  NeverBoth("assign", "cancel") /\ NeverBoth("assign", "handover") =>
    \A m \in Model, time \in 0..MaxTime :
      Cardinality(PromisedAt(m, time)) <= Cardinality(UnitsOf(m))

(* A unit that is with a borrower belongs to a request that follows it up    *)
(* until it is back ("khong con phieu nao theo doi chung").                  *)
Tracked(r) ==
  (\E u \in Unit : OutFor(r, u)) => status[r] \in {"ON_LOAN", "PARTIALLY_RETURNED"}

LoanIsTracked ==
  NeverBoth("handover", "cancel") /\ NeverBoth("handover", "assign") =>
    \A r \in Request : Tracked(r)

(* A request closes when its last unit is back, and not before; then every   *)
(* unit was received once ("Phieu chi dong khi may cuoi cung ve toi kho").   *)
ClosesWithLastUnit ==
  /\ NeverBoth("handover", "assign")
  /\ NeverBoth("handover", "handover") /\ NeverBoth("return", "return")
  => \A r \in Request :
       /\ status[r] \in {"ON_LOAN", "PARTIALLY_RETURNED"} => \E u \in Unit : OutFor(r, u)
       /\ status[r] = "CLOSED" => \A u \in Unit : ~ OutFor(r, u)
       /\ \A u \in Unit : returned[r][u] <= lent[r][u] /\ lent[r][u] <= 1

(* A request that is over holds nothing: the units it pinned are free, also  *)
(* where a cancellation overwrites a handover or a return.  An assignment at *)
(* the same time as the handover or the cancellation pins units nobody frees *)
(* again: assign() adds its reservations after cancel() has looked for them. *)
OverFreesUnits ==
  NeverBoth("handover", "assign") /\ NeverBoth("assign", "cancel") =>
    \A r \in Request :
      status[r] \in {"REJECTED", "CANCELLED", "CLOSED"} =>
        \A m \in Model, c \in Copy :
          Live(reservation[r][m][c]) => reservation[r][m][c].unit = NoUnit

(* A personal request is approved by a leader and by an administrator who is *)
(* another person than the leader and than the borrower, however the two     *)
(* click at the same time.                                                   *)
SignedAsPlanned ==
  \A r \in Request :
    /\ Purpose[r] = "PERSONAL"
    /\ status[r] \notin {"ABSENT", "PENDING_APPROVAL", "REJECTED", "CANCELLED"}
    => \E a, b \in Approved(r) :
         a.by \in Leader /\ b.by \in Admin \ {Owner[r]} /\ a.by # b.by

(* A request that waits for a signature can still get one: signatures never  *)
(* fill it up while it stays PENDING_APPROVAL.                               *)
SignatureMissing ==
  \A r \in Request :
    status[r] = "PENDING_APPROVAL" => Cardinality(Approved(r)) < Len(Steps(r))

(* The transactions that wait for a model lock never wait in a circle.       *)
WaitsFor(t) == {modelLock[m] : m \in {n \in tx[t].wants : NextLock(t, n)}}

NoCircularWait ==
  \A S \in (SUBSET Txn) \ {{}} :
    \E t \in S : tx[t].step # "lock" \/ WaitsFor(t) \cap S = {}

(* "BR-42 bat buoc di qua day": a unit that must be inspected is not handed  *)
(* to the next borrower before it was.                                       *)
InspectedBeforeLent ==
  [][ \A u \in Unit : asset'[u] = "ON_LOAN" => asset[u] \notin NotUsable ]_vars

(* A request follows its units up, also when its transactions overlap.       *)
AlwaysTracked == \A r \in Request : Tracked(r)
=============================================================================
