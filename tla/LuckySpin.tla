------------------------------ MODULE LuckySpin ------------------------------
(***************************************************************************)
(* A prize wheel: lucky-spin.service.ts.                                   *)
(*                                                                         *)
(* The members and teams on the wheel (Entry) win rounds and are taken off *)
(* the wheel; gifts have a stock that awards draw from; deleting a line of *)
(* the history undoes it.  A request (Tab: the same account may act from   *)
(* several tabs) reads, decides and writes in separate queries.  Queries   *)
(* that are one transaction, or one statement, are one step, but for the   *)
(* undo of an award, which reads the gift without a lock inside its        *)
(* transaction and writes back what it computed.                           *)
(*                                                                         *)
(* A workspace belongs to one account, so assertControl never refuses one  *)
(* of its own tabs: control of the wheel is left out.  So are names, the   *)
(* team of a member, the odds of a draw and the order of the winners,      *)
(* which the code shuffles.                                                *)
(***************************************************************************)
EXTENDS Naturals, FiniteSets

CONSTANTS
  Entry,     \* ids of members and teams
  KindOf,    \* "member" or "team"
  Gift,      \* ids of gifts
  Round,     \* ids of rounds, each drawn once
  Tab,       \* requests in flight at a time
  None,      \* no entry, no gift, no round
  MaxDraw,   \* MAX_DRAW_COUNT
  MaxTotal,  \* bound: the largest stock of a gift
  AwardRow,  \* bound: ids of the rows of the award history
  MaxWins,   \* bound: how many rows of the win history an entry has
  MaxOps     \* bound: how many operations are made

ASSUME SpinAssumption ==
  /\ None \notin Entry \cup Gift \cup Round
  /\ KindOf \in [Entry -> {"member", "team"}]
  /\ MaxDraw \in Nat /\ MaxTotal \in Nat /\ MaxWins \in Nat /\ MaxOps \in Nat
  /\ IsFiniteSet(AwardRow)

VARIABLES
  standing,   \* of each entry: no row, or its status
  received,   \* gift_received of each entry
  gifts,      \* the gifts that have a row
  total, remaining,
  wins,       \* rows of the win history by entry
  awards,     \* the award history: recipient and gift of each row
  round,      \* what was drawn, and whether settled_at is set
  op,         \* the request of each tab
  did,        \* history: which kinds of disruptive operations were made
  made        \* how many operations were made

spinVars == <<standing, received, gifts, total, remaining, wins, awards, round, op, did, made>>

stock   == <<gifts, total, remaining>>
people  == <<standing, received>>
log     == <<wins, awards>>

\* A row of spin_rounds.
Drawn == [state : {"new", "open", "settled"},
          winners : SUBSET Entry, gift : Gift \cup {None}, recipient : Entry \cup {None}]

NotDrawn == [state |-> "new", winners |-> {}, gift |-> None, recipient |-> None]

\* A row of the award history; one without both ids undoes nothing, and is
\* taken for no row at all.
AwardEntry == [to : Entry \cup {None}, gift : Gift \cup {None}]
NoAward == [to |-> None, gift |-> None]

Steps == {"idle", "winner", "record", "award", "restock", "commit", "edit"}

Op == [step : Steps, round : Round \cup {None}, todo : SUBSET Entry,
       entry : Entry \cup {None}, gift : Gift \cup {None}, remove : BOOLEAN,
       row : AwardRow \cup {None}, total : Nat, remaining : Nat, last : BOOLEAN]

NoOp == [step |-> "idle", round |-> None, todo |-> {}, entry |-> None, gift |-> None,
         remove |-> FALSE, row |-> None, total |-> 0, remaining |-> 0, last |-> FALSE]

Disruption == {"clear", "reset", "edit", "keep", "recordRace", "undoRace", "editRace"}

-----------------------------------------------------------------------------
(* Helpers *)

Idle(t) == op[t].step = "idle"
Undoing(t) == op[t].step \in {"restock", "commit"}

Start(t, o) ==
  /\ Idle(t)
  /\ op' = [op EXCEPT ![t] = o]

End(t) == op' = [op EXCEPT ![t] = NoOp]

Note(k) == did' = did \cup {k}

\* An operation begins, within the bound.
Operation == made < MaxOps /\ made' = made + 1

\* A request of tab t writes the stock of gift g after an undo of another tab
\* has read it and before that one writes back what it computed.
Race(kind, t, g) ==
  IF g # None /\ \E u \in Tab \ {t} : Undoing(u) /\ op[u].gift = g THEN {kind} ELSE {}

\* Tab t records a win of e after another tab has read that e may win.
RecordRace(t, e) ==
  IF \E u \in Tab \ {t} : op[u].step = "record" /\ op[u].entry = e
  THEN {"recordRace"} ELSE {}

\* The rows of the wheel.
On(e) == standing[e] # "ABSENT"
Pool(kind) == {e \in Entry : KindOf[e] = kind /\ standing[e] = "ACTIVE"}

\* The award rows of gift g, of recipient e.
AwardsOf(g) == {a \in AwardRow : awards[a].gift = g}
AwardsTo(e) == {a \in AwardRow : awards[a].to = e}

\* The undo that has updated gift g in its transaction holds the row.
GiftFree(g) == \A t \in Tab : ~ (op[t].step = "commit" /\ op[t].gift = g)

Smaller(a, b) == IF a <= b THEN a ELSE b

\* Deleting rows sets the ids in the history to null (onDelete: SetNull).
Forget(E, G) ==
  [a \in AwardRow |->
     [to   |-> IF awards[a].to \in E THEN None ELSE awards[a].to,
      gift |-> IF awards[a].gift \in G THEN None ELSE awards[a].gift]]

-----------------------------------------------------------------------------
(* Rounds *)

DrawWinners(r, kind, W) ==
  /\ Operation
  /\ round[r].state = "new"
  /\ Cardinality(Pool(kind)) >= 2
  /\ W \subseteq Pool(kind) /\ Cardinality(W) \in 1..MaxDraw
  /\ round' = [round EXCEPT ![r] = [NotDrawn EXCEPT !.state = "open", !.winners = W]]
  /\ UNCHANGED <<people, stock, log, op, did>>

DrawGift(r, g, e) ==
  /\ Operation
  /\ round[r].state = "new"
  /\ g \in gifts /\ remaining[g] > 0
  /\ round' = [round EXCEPT ![r] =
                 [NotDrawn EXCEPT !.state = "open", !.gift = g, !.recipient = e]]
  /\ UNCHANGED <<people, stock, log, op, did>>

\* confirmRound reads the round.  A gift round needs a recipient.
BeginConfirm(t, r, remove) ==
  /\ Operation
  /\ round[r].state = "open"
  /\ LET o == [NoOp EXCEPT !.round = r, !.remove = remove]
     IN  IF round[r].gift = None
         THEN Start(t, [o EXCEPT !.step = "winner", !.todo = round[r].winners])
         ELSE /\ round[r].recipient # None
              /\ Start(t, [o EXCEPT !.step = "award", !.gift = round[r].gift,
                                    !.entry = round[r].recipient])
  /\ UNCHANGED <<people, stock, log, round, did>>

\* recordMemberWin and recordTeamWin, called for one entry without a round.
BeginRecord(t, e, remove) ==
  /\ Operation
  /\ Start(t, [NoOp EXCEPT !.step = "winner", !.todo = {e}, !.remove = remove])
  /\ UNCHANGED <<people, stock, log, round, did>>

BadMayWin(e) == On(e)

MayWin(e) == standing[e] = "ACTIVE"

\* The check of the next winner; one who is gone or DONE ends the request.
ReadWinner(t) ==
  /\ op[t].step = "winner"
  /\ \E e \in op[t].todo :
       IF MayWin(e)
       THEN op' = [op EXCEPT ![t].step = "record", ![t].entry = e]
       ELSE End(t)
  /\ UNCHANGED <<people, stock, log, round, did, made>>

\* The transaction that takes a winner off the wheel and records the win.
RecordWin(t) ==
  LET e == op[t].entry
      left == op[t].todo \ {e}
  IN
  /\ op[t].step = "record"
  /\ \/ /\ On(e)
        /\ wins[e] < MaxWins
        /\ wins' = [wins EXCEPT ![e] = @ + 1]
        /\ standing' = IF op[t].remove THEN [standing EXCEPT ![e] = "DONE"] ELSE standing
        /\ IF left = {} /\ op[t].round = None
           THEN End(t)
           ELSE op' = [op EXCEPT ![t].step = "winner", ![t].todo = left, ![t].entry = None]
        /\ did' = did \cup RecordRace(t, e) \cup (IF op[t].remove THEN {} ELSE {"keep"})
     \/ /\ ~ On(e)
        /\ End(t)
        /\ UNCHANGED <<wins, standing, did>>
  /\ UNCHANGED <<received, stock, awards, round, made>>

\* All winners are recorded: the round is closed, whatever became of it.
Settle(t) ==
  /\ op[t].step = "winner" /\ op[t].todo = {} /\ op[t].round # None
  /\ round' = [round EXCEPT ![op[t].round].state = "settled"]
  /\ End(t)
  /\ UNCHANGED <<people, stock, log, did, made>>

CancelRound(r) ==
  /\ Operation
  /\ round[r].state = "open"
  /\ round' = [round EXCEPT ![r].state = "settled"]
  /\ UNCHANGED <<people, stock, log, op, did>>

-----------------------------------------------------------------------------
(* Gifts: awardGift, the stock and its edits *)

BeginAward(t, g, e) ==
  /\ Operation
  /\ g \in gifts
  /\ Start(t, [NoOp EXCEPT !.step = "award", !.gift = g, !.entry = e])
  /\ UNCHANGED <<people, stock, log, round, did>>

BadInStock(g) == g \in gifts

\* The WHERE of the decrement.
InStock(g) == g \in gifts /\ remaining[g] > 0

BadLeftAfterAward(g, e) == IF InStock(g) THEN remaining[g] - 1 ELSE remaining[g]

\* The decrement is rolled back when the recipient turns out to be gone.
LeftAfterAward(g, e) == IF InStock(g) /\ On(e) THEN remaining[g] - 1 ELSE remaining[g]

\* Stock, recipient and history in one transaction; a refusal changes nothing.
\* A round that was confirmed this way is settled by a later query.
Award(t) ==
  LET g == op[t].gift
      e == op[t].entry
  IN
  /\ op[t].step = "award"
  /\ GiftFree(g)
  /\ remaining' = [remaining EXCEPT ![g] = LeftAfterAward(g, e)]
  /\ \/ /\ InStock(g) /\ On(e)
        /\ \E a \in AwardRow :
             /\ awards[a] = NoAward
             /\ awards' = [awards EXCEPT ![a] = [to |-> e, gift |-> g]]
        /\ received' = [received EXCEPT ![e] = TRUE]
        /\ IF op[t].round = None
           THEN End(t)
           ELSE op' = [op EXCEPT ![t] = [NoOp EXCEPT !.step = "winner", !.round = op[t].round]]
        /\ did' = did \cup Race("undoRace", t, g)
     \/ /\ ~ (InStock(g) /\ On(e))
        /\ End(t)
        /\ UNCHANGED <<received, awards, did>>
  /\ UNCHANGED <<standing, gifts, total, wins, round, made>>

BeginEdit(t, g) ==
  /\ Operation
  /\ g \in gifts
  /\ Start(t, [NoOp EXCEPT !.step = "edit", !.gift = g,
                           !.total = total[g], !.remaining = remaining[g]])
  /\ UNCHANGED <<people, stock, log, round, did>>

BadCapped(n, limit) == n

Capped(n, limit) == Smaller(n, limit)

\* updateGift writes the numbers it was given, or else those it read.
CommitEdit(t) ==
  LET g == op[t].gift IN
  /\ op[t].step = "edit"
  /\ GiftFree(g)
  /\ \/ /\ g \in gifts
        /\ \E n \in (0..MaxTotal) \cup {op[t].total},
              m \in (0..MaxTotal) \cup {op[t].remaining} :
             /\ total' = [total EXCEPT ![g] = n]
             /\ remaining' = [remaining EXCEPT ![g] = Capped(m, n)]
        /\ did' = did \cup {"edit"} \cup Race("editRace", t, g)
     \/ /\ g \notin gifts
        /\ UNCHANGED <<total, remaining, did>>
  /\ End(t)
  /\ UNCHANGED <<people, gifts, log, round, made>>

\* createGift, and bulkCreateGifts, which replaces every gift there was.
CreateGift(g, n) ==
  /\ Operation
  /\ g \notin gifts
  /\ gifts' = gifts \cup {g}
  /\ total' = [total EXCEPT ![g] = n]
  /\ remaining' = [remaining EXCEPT ![g] = n]
  /\ UNCHANGED <<people, log, round, op, did>>

\* An undo holds the award row that a deletion of its gift or recipient needs.
NoUndoOf(E, G) ==
  \A t \in Tab : Undoing(t) => op[t].entry \notin E /\ op[t].gift \notin G

ReplaceGifts(G, n) ==
  /\ Operation
  /\ G # {} /\ G \cap gifts = {}
  /\ NoUndoOf({}, gifts)
  /\ gifts' = G
  /\ total' = [g \in Gift |-> IF g \in G THEN n ELSE 0]
  /\ remaining' = total'
  /\ awards' = Forget({}, gifts)
  /\ UNCHANGED <<people, wins, round, op, did>>

DeleteGift(g) ==
  /\ Operation
  /\ g \in gifts
  /\ NoUndoOf({}, {g})
  /\ gifts' = gifts \ {g}
  /\ total' = [total EXCEPT ![g] = 0]
  /\ remaining' = [remaining EXCEPT ![g] = 0]
  /\ awards' = Forget({}, {g})
  /\ UNCHANGED <<people, wins, round, op, did>>

\* The statement waits for the row of a gift that is being undone.
ResetGifts ==
  /\ Operation
  /\ \A g \in gifts : GiftFree(g)
  /\ remaining' = total
  /\ received' = [e \in Entry |-> FALSE]
  /\ Note("reset")
  /\ UNCHANGED <<standing, gifts, total, log, round, op>>

-----------------------------------------------------------------------------
(* Entries *)

CreateEntry(e) ==
  /\ Operation
  /\ ~ On(e)
  /\ standing' = [standing EXCEPT ![e] = "ACTIVE"]
  /\ UNCHANGED <<received, stock, log, round, op, did>>

\* The rows of E go; what the history says of them is kept without their ids.
Remove(E, created) ==
  /\ NoUndoOf(E, {})
  /\ standing' = [e \in Entry |-> IF e \in created THEN "ACTIVE"
                                  ELSE IF e \in E THEN "ABSENT" ELSE standing[e]]
  /\ received' = [e \in Entry |-> received[e] /\ e \notin E]
  /\ wins' = [e \in Entry |-> IF e \in E THEN 0 ELSE wins[e]]
  /\ awards' = Forget(E, {})
  /\ UNCHANGED <<stock, round, op, did>>

DeleteEntry(e) == Operation /\ On(e) /\ Remove({e}, {})

\* bulkCreateMembers: all members and teams go, new ones come.
ReplaceEntries(E) ==
  /\ Operation
  /\ E # {} /\ \A e \in E : ~ On(e)
  /\ Remove({e \in Entry : On(e)}, E)

ResetStatuses(kind) ==
  /\ Operation
  /\ standing' = [e \in Entry |-> IF On(e) /\ KindOf[e] = kind THEN "ACTIVE" ELSE standing[e]]
  /\ Note("reset")
  /\ UNCHANGED <<received, stock, log, round, op>>

-----------------------------------------------------------------------------
(* The history: deleting a line undoes it *)

BadRestored(e) == standing[e]

Restored(e) == "ACTIVE"

UndoWin(e) ==
  /\ Operation
  /\ wins[e] > 0
  /\ wins' = [wins EXCEPT ![e] = @ - 1]
  /\ standing' = [standing EXCEPT ![e] = Restored(e)]
  /\ UNCHANGED <<received, stock, awards, round, op, did>>

\* The award row is deleted (and locked), and the gift read without a lock.
BeginUndo(t, a) ==
  LET e == awards[a].to
      g == awards[a].gift
  IN
  /\ Operation
  /\ awards[a] # NoAward
  /\ \A u \in Tab : Undoing(u) => op[u].row # a
  /\ Start(t, [NoOp EXCEPT !.step = "restock", !.row = a, !.entry = e, !.gift = g,
                 !.total = IF g = None THEN 0 ELSE total[g],
                 !.remaining = IF g = None THEN 0 ELSE remaining[g]])
  /\ UNCHANGED <<people, stock, log, round, did>>

\* The gift is updated, which locks its row, and the recipient's other
\* awards are counted, as far as they are committed.
Restock(t) ==
  LET e == op[t].entry
      g == op[t].gift
  IN
  /\ op[t].step = "restock"
  /\ g # None => GiftFree(g)
  /\ op' = [op EXCEPT ![t].step = "commit",
                      ![t].last = e # None /\ AwardsTo(e) = {op[t].row}]
  /\ UNCHANGED <<people, stock, log, round, did, made>>

\* What the transaction computed becomes visible.
CommitUndo(t) ==
  LET e == op[t].entry
      g == op[t].gift
  IN
  /\ op[t].step = "commit"
  /\ awards' = [awards EXCEPT ![op[t].row] = NoAward]
  /\ remaining' = IF g = None THEN remaining
                  ELSE [remaining EXCEPT ![g] = Capped(op[t].remaining + 1, op[t].total)]
  /\ received' = IF op[t].last THEN [received EXCEPT ![e] = FALSE] ELSE received
  /\ did' = did \cup Race("undoRace", t, g)
  /\ End(t)
  /\ UNCHANGED <<standing, gifts, total, wins, round, made>>

\* A query throws, or the process stops: the request ends where it is.
Fail(t) ==
  /\ ~ Idle(t)
  /\ End(t)
  /\ UNCHANGED <<people, stock, log, round, did, made>>

ClearWins(kind) ==
  /\ Operation
  /\ wins' = [e \in Entry |-> IF KindOf[e] = kind THEN 0 ELSE wins[e]]
  /\ Note("clear")
  /\ UNCHANGED <<people, stock, awards, round, op>>

ClearAwards ==
  /\ Operation
  /\ \A t \in Tab : ~ Undoing(t)
  /\ awards' = [a \in AwardRow |-> NoAward]
  /\ Note("clear")
  /\ UNCHANGED <<people, stock, wins, round, op>>

-----------------------------------------------------------------------------
(* Specification *)

\* A wheel with any entries and gifts on it, and no history.
SpinInit ==
  /\ standing \in [Entry -> {"ABSENT", "ACTIVE"}]
  /\ received = [e \in Entry |-> FALSE]
  /\ gifts \in SUBSET Gift
  /\ total \in [Gift -> 0..MaxTotal]
  /\ \A g \in Gift : total[g] = 0 <=> g \notin gifts
  /\ remaining = total
  /\ wins = [e \in Entry |-> 0]
  /\ awards = [a \in AwardRow |-> NoAward]
  /\ round = [r \in Round |-> NotDrawn]
  /\ op = [t \in Tab |-> NoOp]
  /\ did = {}
  /\ made = 0

DrawStep ==
  \E r \in Round :
    \/ \E kind \in {"member", "team"}, W \in SUBSET Entry : DrawWinners(r, kind, W)
    \/ \E g \in Gift, e \in Entry \cup {None} : DrawGift(r, g, e)
    \/ CancelRound(r)

RecordStep(t) ==
  \/ \E r \in Round, remove \in BOOLEAN : BeginConfirm(t, r, remove)
  \/ \E e \in Entry, remove \in BOOLEAN : BeginRecord(t, e, remove)
  \/ ReadWinner(t)
  \/ RecordWin(t)
  \/ Settle(t)

StockStep(t) ==
  \/ \E g \in Gift, e \in Entry : BeginAward(t, g, e)
  \/ Award(t)
  \/ \E g \in Gift : BeginEdit(t, g)
  \/ CommitEdit(t)
  \/ \E a \in AwardRow : BeginUndo(t, a)
  \/ Restock(t)
  \/ CommitUndo(t)
  \/ Fail(t)

GiftStep ==
  \/ \E g \in Gift : DeleteGift(g)
  \/ \E g \in Gift, n \in 1..MaxTotal : CreateGift(g, n)
  \/ \E G \in SUBSET Gift, n \in 1..MaxTotal : ReplaceGifts(G, n)
  \/ ResetGifts
  \/ ClearAwards

EntryStep ==
  \/ \E e \in Entry : CreateEntry(e) \/ DeleteEntry(e) \/ UndoWin(e)
  \/ \E E \in SUBSET Entry : ReplaceEntries(E)
  \/ \E kind \in {"member", "team"} : ResetStatuses(kind) \/ ClearWins(kind)

SpinNext ==
  \/ DrawStep
  \/ \E t \in Tab : RecordStep(t) \/ StockStep(t)
  \/ GiftStep
  \/ EntryStep

SpinSpec == SpinInit /\ [][SpinNext]_spinVars

-----------------------------------------------------------------------------
(* Correctness *)

(* The type invariant; that the stock is a natural number is the promise of  *)
(* awardGift: of two people who confirm the last gift, one gets it.          *)
SpinTypeOK ==
  /\ standing \in [Entry -> {"ABSENT", "ACTIVE", "DONE"}]
  /\ received \in [Entry -> BOOLEAN]
  /\ gifts \subseteq Gift
  /\ total \in [Gift -> Nat]
  /\ remaining \in [Gift -> Nat]
  /\ wins \in [Entry -> Nat]
  /\ awards \in [AwardRow -> AwardEntry]
  /\ round \in [Round -> Drawn]
  /\ op \in [Tab -> Op]
  /\ did \subseteq Disruption
  /\ made \in 0..MaxOps

(* What is left of a gift never exceeds its total, whatever awards, edits,   *)
(* resets and undos interleave, also when undos of one gift overlap and write *)
(* back what they had read: unless the gift is edited between the read and   *)
(* the write of an undo of it, which then caps at the total there was.       *)
StockWithinTotal ==
  "editRace" \notin did => \A g \in gifts : remaining[g] <= total[g]

(* Every gift that has left the stock is in the history, and the other way   *)
(* round, also when awards overlap each other or undos of other gifts: until *)
(* somebody edits or resets the stock, clears the history, or an award or an *)
(* undo changes the stock that an undo of this gift has read.                *)
StockMatchesAwards ==
  did \cap {"edit", "reset", "clear", "undoRace"} = {} =>
    \A g \in gifts : remaining[g] + Cardinality(AwardsOf(g)) = total[g]

(* Whoever is off the wheel has a line in the history whose deletion puts    *)
(* them back ("vẫn nằm ngoài vòng quay và không ai hiểu vì sao", the comment *)
(* on deleteHistoryEntry): true of all interleavings, until it is cleared.   *)
NobodyStuckOut ==
  "clear" \notin did => \A e \in Entry : standing[e] = "DONE" => wins[e] > 0

(* Nobody wins twice: of the lines that take their winner off the wheel an   *)
(* entry has one at a time, also when a round is confirmed twice at the same *)
(* moment: unless two requests have both found that the same entry may win   *)
(* before either records it.                                                 *)
WinsOnce ==
  did \cap {"reset", "keep", "recordRace"} = {} => \A e \in Entry : wins[e] <= 1
=============================================================================
