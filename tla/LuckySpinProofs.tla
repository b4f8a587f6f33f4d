-------------------------- MODULE LuckySpinProofs --------------------------
(***************************************************************************)
(* Proofs that the prize wheel of LuckySpin keeps its books, for any       *)
(* number of entries, gifts, requests in flight and operations.            *)
(***************************************************************************)
EXTENDS LuckySpin, FiniteSetTheorems, TLAPS

(* What the helpers return.                                                *)

LEMMA ForgetType ==
  ASSUME NEW E, NEW G, awards \in [AwardRow -> AwardEntry]
  PROVE  Forget(E, G) \in [AwardRow -> AwardEntry]
  BY DEF Forget, AwardEntry

LEMMA CappedType ==
  ASSUME NEW m \in Nat, NEW n \in Nat
  PROVE  /\ Capped(m, n) \in Nat /\ Capped(m, n) <= n
         /\ (m <= n => Capped(m, n) = m)
  BY DEF Capped, Smaller

LEMMA RacesAreDisruptions ==
  ASSUME NEW t, NEW x
  PROVE  /\ Race("undoRace", t, x) \subseteq Disruption
         /\ Race("editRace", t, x) \subseteq Disruption
         /\ RecordRace(t, x) \subseteq Disruption
  BY DEF Race, RecordRace, Disruption

-----------------------------------------------------------------------------
(* Types: a request carries what its next step needs.                      *)

Carried(o) ==
  /\ o.step = "record" => o.entry \in o.todo
  /\ o.step = "award" => o.gift \in Gift /\ o.entry \in Entry
  /\ o.step = "edit" => o.gift \in Gift
  /\ o.step \in {"restock", "commit"} => o.row \in AwardRow

CarriedOp == {o \in Op : Carried(o)}

SpinTyped == SpinTypeOK /\ op \in [Tab -> CarriedOp]

LEMMA NoOpType == NoOp \in CarriedOp
  BY SpinAssumption DEF NoOp, CarriedOp, Carried, Op, Steps

LEMMA CarriedOpType == CarriedOp \subseteq Op
  BY DEF CarriedOp

LEMMA EndType ==
  ASSUME NEW t \in Tab, op \in [Tab -> CarriedOp], End(t)
  PROVE  op' \in [Tab -> CarriedOp] /\ op' \in [Tab -> Op]
  BY NoOpType, CarriedOpType DEF End

LEMMA StartType ==
  ASSUME NEW t \in Tab, op \in [Tab -> CarriedOp], NEW o \in CarriedOp, Start(t, o)
  PROVE  op' \in [Tab -> CarriedOp] /\ op' \in [Tab -> Op]
  BY CarriedOpType DEF Start

LEMMA OperationType ==
  ASSUME made \in 0..MaxOps, Operation PROVE made' \in 0..MaxOps
  BY SpinAssumption DEF Operation

(* Only awards take from the stock, and only what is there.                *)
LEMMA LeftType ==
  ASSUME remaining \in [Gift -> Nat], NEW g \in Gift, NEW e
  PROVE  LeftAfterAward(g, e) \in Nat /\ LeftAfterAward(g, e) <= remaining[g]
  BY DEF LeftAfterAward, InStock

LEMMA DrawTypes ==
  ASSUME SpinTyped, DrawStep PROVE SpinTyped'
<1> USE DEF SpinTyped, SpinTypeOK
<1>1. PICK r \in Round :
        \/ \E kind \in {"member", "team"}, W \in SUBSET Entry : DrawWinners(r, kind, W)
        \/ \E g \in Gift, e \in Entry \cup {None} : DrawGift(r, g, e)
        \/ CancelRound(r)
  BY DEF DrawStep
<1>2. ASSUME NEW kind \in {"member", "team"}, NEW W \in SUBSET Entry, DrawWinners(r, kind, W)
      PROVE  SpinTyped'
  <2>1. [NotDrawn EXCEPT !.state = "open", !.winners = W] \in Drawn
    BY DEF NotDrawn, Drawn
  <2> QED  BY <1>2, <2>1, OperationType DEF DrawWinners, people, stock, log
<1>3. ASSUME NEW g \in Gift, NEW e \in Entry \cup {None}, DrawGift(r, g, e)
      PROVE  SpinTyped'
  <2>1. [NotDrawn EXCEPT !.state = "open", !.gift = g, !.recipient = e] \in Drawn
    BY DEF NotDrawn, Drawn
  <2> QED  BY <1>3, <2>1, OperationType DEF DrawGift, people, stock, log
<1>4. ASSUME CancelRound(r) PROVE SpinTyped'
  <2>1. [round[r] EXCEPT !.state = "settled"] \in Drawn
    BY DEF Drawn
  <2> QED  BY <1>4, <2>1, OperationType DEF CancelRound, people, stock, log
<1> QED  BY <1>1, <1>2, <1>3, <1>4

LEMMA RecordTypes ==
  ASSUME SpinTyped, NEW t \in Tab, RecordStep(t) PROVE SpinTyped'
<1> USE DEF SpinTyped, SpinTypeOK
<1>0. op[t] \in CarriedOp /\ op[t] \in Op
  OBVIOUS
<1>1. ASSUME NEW r \in Round, NEW remove \in BOOLEAN, BeginConfirm(t, r, remove)
      PROVE  SpinTyped'
  <2> DEFINE o == [NoOp EXCEPT !.round = r, !.remove = remove]
             winning == [o EXCEPT !.step = "winner", !.todo = round[r].winners]
             giving == [o EXCEPT !.step = "award", !.gift = round[r].gift,
                                 !.entry = round[r].recipient]
  <2>1. /\ round[r] \in Drawn
        /\ round[r].winners \in SUBSET Entry /\ round[r].gift \in Gift \cup {None}
        /\ round[r].recipient \in Entry \cup {None}
    BY DEF Drawn
  <2>2. NoOp \in Op
    BY NoOpType, CarriedOpType
  <2>3. winning \in CarriedOp
    BY <2>1, <2>2 DEF Op, Steps, CarriedOp, Carried
  <2>4. round[r].gift # None /\ round[r].recipient # None => giving \in CarriedOp
    BY <2>1, <2>2 DEF Op, Steps, CarriedOp, Carried
  <2> HIDE DEF winning, giving
  <2>5. \/ round[r].gift = None /\ Start(t, winning)
        \/ /\ round[r].gift # None /\ round[r].recipient # None
           /\ Start(t, giving)
    BY <1>1 DEF BeginConfirm, winning, giving
  <2>6. op' \in [Tab -> CarriedOp] /\ op' \in [Tab -> Op]
    BY <2>3, <2>4, <2>5, StartType
  <2>7. UNCHANGED <<people, stock, log, round, did>> /\ Operation
    BY <1>1 DEF BeginConfirm
  <2> QED  BY <2>6, <2>7, OperationType DEF people, stock, log
<1>2. ASSUME NEW e \in Entry, NEW remove \in BOOLEAN, BeginRecord(t, e, remove)
      PROVE  SpinTyped'
  <2>1. [NoOp EXCEPT !.step = "winner", !.todo = {e}, !.remove = remove] \in CarriedOp
    BY NoOpType DEF Op, Steps, CarriedOp, Carried
  <2>2. op' \in [Tab -> CarriedOp] /\ op' \in [Tab -> Op]
    BY <1>2, <2>1, StartType DEF BeginRecord
  <2> QED  BY <1>2, <2>2, OperationType, RacesAreDisruptions DEF BeginRecord, people, stock, log
<1>3. ASSUME ReadWinner(t) PROVE SpinTyped'
  <2>1. \/ End(t)
        \/ \E e \in op[t].todo : op' = [op EXCEPT ![t] = [op[t] EXCEPT !.step = "record", !.entry = e]]
    BY <1>3 DEF ReadWinner
  <2>2. ASSUME NEW e \in op[t].todo
        PROVE  [op[t] EXCEPT !.step = "record", !.entry = e] \in CarriedOp
    <3>1. e \in Entry
      BY <1>0 DEF Op
    <3> QED  BY <1>0, <3>1 DEF Op, Steps, CarriedOp, Carried
  <2>3. op' \in [Tab -> CarriedOp] /\ op' \in [Tab -> Op]
    BY <2>1, <2>2, EndType, CarriedOpType
  <2> QED  BY <1>3, <2>3 DEF ReadWinner, people, stock, log
<1>4. ASSUME RecordWin(t) PROVE SpinTyped'
  <2> DEFINE next == [op[t] EXCEPT !.step = "winner", !.todo = op[t].todo \ {op[t].entry},
                                   !.entry = None]
  <2>1. next \in CarriedOp /\ op[t].round \in Round \cup {None} /\ op[t].entry \in Entry
    BY <1>0, <1>4 DEF Op, Steps, CarriedOp, Carried, RecordWin
  <2>2. End(t) \/ op' = [op EXCEPT ![t] = next]
    BY <1>4 DEF RecordWin
  <2>3. op' \in [Tab -> CarriedOp] /\ op' \in [Tab -> Op]
    BY <2>1, <2>2, EndType, CarriedOpType
  <2>4. /\ standing' \in [Entry -> {"ABSENT", "ACTIVE", "DONE"}]
        /\ wins' \in [Entry -> Nat]
    BY <1>4 DEF RecordWin
  <2>5. did' \subseteq Disruption
    BY <1>4, RacesAreDisruptions DEF RecordWin, Disruption
  <2> QED  BY <1>4, <2>3, <2>4, <2>5 DEF RecordWin, stock
<1>5. ASSUME Settle(t) PROVE SpinTyped'
  <2>1. op[t].round \in Round
    BY <1>0, <1>5 DEF Settle, Op
  <2>2. op' \in [Tab -> CarriedOp] /\ op' \in [Tab -> Op]
    BY <1>5, EndType DEF Settle
  <2>3. [round[op[t].round] EXCEPT !.state = "settled"] \in Drawn
    BY <2>1 DEF Drawn
  <2> QED  BY <1>5, <2>1, <2>2, <2>3 DEF Settle, people, stock, log
<1> QED  BY <1>1, <1>2, <1>3, <1>4, <1>5 DEF RecordStep

LEMMA StockTypes ==
  ASSUME SpinTyped, NEW t \in Tab, StockStep(t) PROVE SpinTyped'
<1> USE DEF SpinTyped, SpinTypeOK
<1>0. op[t] \in CarriedOp /\ op[t] \in Op
  OBVIOUS
<1>1. ASSUME NEW g \in Gift, NEW e \in Entry, BeginAward(t, g, e) PROVE SpinTyped'
  <2>1. [NoOp EXCEPT !.step = "award", !.gift = g, !.entry = e] \in CarriedOp
    BY NoOpType DEF Op, Steps, CarriedOp, Carried
  <2>2. op' \in [Tab -> CarriedOp] /\ op' \in [Tab -> Op]
    BY <1>1, <2>1, StartType DEF BeginAward
  <2> QED  BY <1>1, <2>2, OperationType DEF BeginAward, people, stock, log
<1>2. ASSUME Award(t) PROVE SpinTyped'
  <2> DEFINE g == op[t].gift
             e == op[t].entry
             next == [NoOp EXCEPT !.step = "winner", !.round = op[t].round]
  <2>0. g \in Gift /\ e \in Entry /\ op[t].round \in Round \cup {None} /\ NoOp \in Op
    BY <1>0, <1>2, NoOpType, CarriedOpType DEF Op, CarriedOp, Carried, Award
  <2>a. next \in CarriedOp
    BY <2>0 DEF Op, Steps, CarriedOp, Carried
  <2>1. g \in Gift /\ e \in Entry /\ next \in CarriedOp
    BY <2>0, <2>a
  <2>2. End(t) \/ op' = [op EXCEPT ![t] = next]
    BY <1>2 DEF Award
  <2>3. op' \in [Tab -> CarriedOp] /\ op' \in [Tab -> Op]
    BY <2>1, <2>2, EndType, CarriedOpType
  <2>4. remaining' \in [Gift -> Nat]
    BY <1>2, <2>1, LeftType DEF Award
  <2>5. received' \in [Entry -> BOOLEAN]
    BY <1>2, <2>1 DEF Award
  <2>6. awards' \in [AwardRow -> AwardEntry]
    <3>1. [to |-> e, gift |-> g] \in AwardEntry
      BY <2>1 DEF AwardEntry
    <3> QED  BY <1>2, <3>1 DEF Award
  <2>7. did' \subseteq Disruption
    BY <1>2, RacesAreDisruptions DEF Award
  <2> QED  BY <1>2, <2>3, <2>4, <2>5, <2>6, <2>7 DEF Award
<1>3. ASSUME NEW g \in Gift, BeginEdit(t, g) PROVE SpinTyped'
  <2>1. [NoOp EXCEPT !.step = "edit", !.gift = g, !.total = total[g],
                     !.remaining = remaining[g]] \in CarriedOp
    BY NoOpType DEF Op, Steps, CarriedOp, Carried
  <2>2. op' \in [Tab -> CarriedOp] /\ op' \in [Tab -> Op]
    BY <1>3, <2>1, StartType DEF BeginEdit
  <2> QED  BY <1>3, <2>2, OperationType DEF BeginEdit, people, stock, log
<1>4. ASSUME CommitEdit(t) PROVE SpinTyped'
  <2>1. op[t].total \in Nat /\ op[t].remaining \in Nat
    BY <1>0 DEF Op
  <2>2. op' \in [Tab -> CarriedOp] /\ op' \in [Tab -> Op]
    BY <1>4, EndType DEF CommitEdit
  <2>3. total' \in [Gift -> Nat] /\ remaining' \in [Gift -> Nat]
    <3>1. CASE op[t].gift \in gifts
      <4>1. PICK n \in (0..MaxTotal) \cup {op[t].total},
                 m \in (0..MaxTotal) \cup {op[t].remaining} :
              /\ total' = [total EXCEPT ![op[t].gift] = n]
              /\ remaining' = [remaining EXCEPT ![op[t].gift] = Capped(m, n)]
        BY <1>4, <3>1 DEF CommitEdit
      <4>2. n \in Nat /\ m \in Nat
        BY <2>1, SpinAssumption
      <4>3. Capped(m, n) \in Nat
        BY <4>2, CappedType
      <4> QED  BY <4>1, <4>2, <4>3
    <3>2. CASE op[t].gift \notin gifts
      BY <1>4, <3>2 DEF CommitEdit
    <3> QED  BY <3>1, <3>2
  <2>4. did' \subseteq Disruption
    BY <1>4, RacesAreDisruptions DEF CommitEdit, Disruption
  <2> QED  BY <1>4, <2>2, <2>3, <2>4 DEF CommitEdit, people, log
<1>5. ASSUME NEW a \in AwardRow, BeginUndo(t, a) PROVE SpinTyped'
  <2> DEFINE e == awards[a].to
             g == awards[a].gift
  <2>1. e \in Entry \cup {None} /\ g \in Gift \cup {None}
    BY DEF AwardEntry
  <2>2. /\ (IF g = None THEN 0 ELSE total[g]) \in Nat
        /\ (IF g = None THEN 0 ELSE remaining[g]) \in Nat
    BY <2>1
  <2>3. [NoOp EXCEPT !.step = "restock", !.row = a, !.entry = e, !.gift = g,
                 !.total = IF g = None THEN 0 ELSE total[g],
                 !.remaining = IF g = None THEN 0 ELSE remaining[g]] \in CarriedOp
    <3>1. NoOp \in Op
      BY NoOpType, CarriedOpType
    <3>2. ASSUME NEW x \in Nat, NEW y \in Nat
          PROVE  [NoOp EXCEPT !.step = "restock", !.row = a, !.entry = e, !.gift = g,
                              !.total = x, !.remaining = y] \in CarriedOp
      <4> HIDE DEF e, g
      <4> QED  BY <2>1, <3>1 DEF Op, Steps, CarriedOp, Carried
    <3> QED  BY <2>2, <3>2
  <2>4. op' \in [Tab -> CarriedOp] /\ op' \in [Tab -> Op]
    BY <1>5, <2>3, StartType DEF BeginUndo
  <2> QED  BY <1>5, <2>4, OperationType DEF BeginUndo, people, stock, log
<1>6. ASSUME Restock(t) PROVE SpinTyped'
  <2>1. \E last \in BOOLEAN : op' = [op EXCEPT ![t] = [op[t] EXCEPT !.step = "commit", !.last = last]]
    BY <1>6 DEF Restock
  <2>2. ASSUME NEW last \in BOOLEAN
        PROVE  [op[t] EXCEPT !.step = "commit", !.last = last] \in CarriedOp
    BY <1>0, <1>6 DEF Op, Steps, CarriedOp, Carried, Restock
  <2>3. op' \in [Tab -> CarriedOp] /\ op' \in [Tab -> Op]
    BY <2>1, <2>2, CarriedOpType
  <2> QED  BY <1>6, <2>3 DEF Restock, people, stock, log
<1>7. ASSUME CommitUndo(t) PROVE SpinTyped'
  <2>0. op[t].total \in Nat /\ op[t].remaining + 1 \in Nat
    BY <1>0 DEF Op
  <2>1. Capped(op[t].remaining + 1, op[t].total) \in Nat
    BY <2>0, CappedType
  <2>2. op' \in [Tab -> CarriedOp] /\ op' \in [Tab -> Op]
    BY <1>7, EndType DEF CommitUndo
  <2>3. NoAward \in AwardEntry
    BY DEF NoAward, AwardEntry
  <2>4. did' \subseteq Disruption
    BY <1>7, RacesAreDisruptions DEF CommitUndo
  <2>5. remaining' \in [Gift -> Nat] /\ received' \in [Entry -> BOOLEAN]
    BY <1>7, <2>1 DEF CommitUndo
  <2>6. awards' \in [AwardRow -> AwardEntry]
    BY <1>7, <2>3 DEF CommitUndo
  <2> QED  BY <1>7, <2>2, <2>4, <2>5, <2>6 DEF CommitUndo
<1>8. ASSUME Fail(t) PROVE SpinTyped'
  BY <1>8, EndType DEF Fail, people, stock, log
<1> QED  BY <1>1, <1>2, <1>3, <1>4, <1>5, <1>6, <1>7, <1>8 DEF StockStep

LEMMA GiftTypes ==
  ASSUME SpinTyped, GiftStep PROVE SpinTyped'
<1> USE DEF SpinTyped, SpinTypeOK
<1>1. ASSUME NEW g \in Gift, DeleteGift(g) PROVE SpinTyped'
  BY <1>1, OperationType, ForgetType DEF DeleteGift, people
<1>2. ASSUME NEW g \in Gift, NEW n \in 1..MaxTotal, CreateGift(g, n) PROVE SpinTyped'
  BY <1>2, OperationType, SpinAssumption DEF CreateGift, people, log
<1>3. ASSUME NEW G \in SUBSET Gift, NEW n \in 1..MaxTotal, ReplaceGifts(G, n) PROVE SpinTyped'
  <2>1. total' \in [Gift -> Nat] /\ remaining' \in [Gift -> Nat]
    BY <1>3, SpinAssumption DEF ReplaceGifts
  <2> QED  BY <1>3, <2>1, OperationType, ForgetType DEF ReplaceGifts, people
<1>4. ASSUME ResetGifts PROVE SpinTyped'
  BY <1>4, OperationType DEF ResetGifts, Note, Disruption, log
<1>5. ASSUME ClearAwards PROVE SpinTyped'
  BY <1>5, OperationType DEF ClearAwards, Note, Disruption, NoAward, AwardEntry, people, stock
<1> QED  BY <1>1, <1>2, <1>3, <1>4, <1>5 DEF GiftStep

LEMMA RemoveTypes ==
  ASSUME SpinTyped, NEW E \in SUBSET Entry, NEW created \in SUBSET Entry,
         Remove(E, created), Operation
  PROVE  SpinTyped'
  BY OperationType, ForgetType DEF SpinTyped, SpinTypeOK, Remove, stock

LEMMA EntryTypes ==
  ASSUME SpinTyped, EntryStep PROVE SpinTyped'
<1>1. ASSUME NEW e \in Entry, CreateEntry(e) PROVE SpinTyped'
  BY <1>1, OperationType DEF SpinTyped, SpinTypeOK, CreateEntry, stock, log
<1>2. ASSUME NEW e \in Entry, DeleteEntry(e) PROVE SpinTyped'
  BY <1>2, RemoveTypes DEF DeleteEntry
<1>3. ASSUME NEW e \in Entry, UndoWin(e) PROVE SpinTyped'
  BY <1>3, OperationType DEF SpinTyped, SpinTypeOK, UndoWin, Restored, stock
<1>4. ASSUME NEW E \in SUBSET Entry, ReplaceEntries(E) PROVE SpinTyped'
  BY <1>4, RemoveTypes DEF ReplaceEntries
<1>5. ASSUME NEW kind \in {"member", "team"}, ResetStatuses(kind) PROVE SpinTyped'
  BY <1>5, OperationType DEF SpinTyped, SpinTypeOK, ResetStatuses, Note, Disruption, stock, log
<1>6. ASSUME NEW kind \in {"member", "team"}, ClearWins(kind) PROVE SpinTyped'
  BY <1>6, OperationType DEF SpinTyped, SpinTypeOK, ClearWins, Note, Disruption, people, stock
<1> QED  BY <1>1, <1>2, <1>3, <1>4, <1>5, <1>6 DEF EntryStep

LEMMA InitTyped ==
  ASSUME SpinInit PROVE SpinTyped
<1>1. total \in [Gift -> Nat] /\ gifts \subseteq Gift
      /\ standing \in [Entry -> {"ABSENT", "ACTIVE", "DONE"}]
  BY SpinAssumption DEF SpinInit
<1>2. NoAward \in AwardEntry /\ NotDrawn \in Drawn
  BY DEF NoAward, AwardEntry, NotDrawn, Drawn
<1> QED
  BY <1>1, <1>2, NoOpType, CarriedOpType, SpinAssumption DEF SpinInit, SpinTyped, SpinTypeOK

(* Every value keeps its type; the stock of a gift is never negative.      *)
THEOREM TypesHold == SpinSpec => []SpinTyped
<1>1. ASSUME SpinTyped, UNCHANGED spinVars PROVE SpinTyped'
  BY <1>1 DEF SpinTyped, SpinTypeOK, spinVars
<1>2. ASSUME SpinTyped, [SpinNext]_spinVars PROVE SpinTyped'
  BY <1>1, <1>2, DrawTypes, RecordTypes, StockTypes, GiftTypes, EntryTypes DEF SpinNext
<1> QED  BY <1>2, InitTyped, PTL DEF SpinSpec

(* The type invariant the run checks.                                      *)
THEOREM WheelTyped == SpinSpec => []SpinTypeOK
  BY TypesHold, PTL DEF SpinTyped
-----------------------------------------------------------------------------
(* Who is on the wheel, and what the history says of them.                 *)

\* What is noted is never forgotten: a property that holds until something
\* is noted was so in every state before.
LEMMA NotesStay ==
  ASSUME [SpinNext]_spinVars PROVE did \subseteq did'
<1>1. ASSUME DrawStep PROVE did \subseteq did'
  BY <1>1 DEF DrawStep, DrawWinners, DrawGift, CancelRound
<1>2. ASSUME NEW t \in Tab, RecordStep(t) PROVE did \subseteq did'
  BY <1>2 DEF RecordStep, BeginConfirm, BeginRecord, ReadWinner, RecordWin, Settle, Note
<1>3. ASSUME NEW t \in Tab, StockStep(t) PROVE did \subseteq did'
  BY <1>3 DEF StockStep, BeginAward, Award, BeginEdit, CommitEdit, BeginUndo, Restock,
              CommitUndo, Fail
<1>4. ASSUME GiftStep PROVE did \subseteq did'
  BY <1>4 DEF GiftStep, DeleteGift, CreateGift, ReplaceGifts, ResetGifts, ClearAwards, Note
<1>5. ASSUME EntryStep PROVE did \subseteq did'
  BY <1>5 DEF EntryStep, CreateEntry, DeleteEntry, ReplaceEntries, Remove, UndoWin,
              ResetStatuses, ClearWins, Note
<1> QED  BY <1>1, <1>2, <1>3, <1>4, <1>5 DEF SpinNext, spinVars

\* Only a recorded win and the operations on entries and their history
\* change who is on the wheel and what the history says.
LEMMA WheelSteps ==
  ASSUME [SpinNext]_spinVars
  PROVE  \/ UNCHANGED <<standing, wins>>
         \/ \E t \in Tab : RecordWin(t)
         \/ EntryStep
<1>1. ASSUME DrawStep PROVE UNCHANGED <<standing, wins>>
  BY <1>1 DEF DrawStep, DrawWinners, DrawGift, CancelRound, people, log
<1>2. ASSUME NEW t \in Tab, RecordStep(t) PROVE UNCHANGED <<standing, wins>> \/ RecordWin(t)
  BY <1>2 DEF RecordStep, BeginConfirm, BeginRecord, ReadWinner, Settle, people, log
<1>3. ASSUME NEW t \in Tab, StockStep(t) PROVE UNCHANGED <<standing, wins>>
  BY <1>3 DEF StockStep, BeginAward, Award, BeginEdit, CommitEdit, BeginUndo, Restock,
              CommitUndo, Fail, people, log
<1>4. ASSUME GiftStep PROVE UNCHANGED <<standing, wins>>
  BY <1>4 DEF GiftStep, DeleteGift, CreateGift, ReplaceGifts, ResetGifts, ClearAwards, people, log
<1> QED  BY <1>1, <1>2, <1>3, <1>4 DEF SpinNext, spinVars

\* What an operation on entries does to entry e.
Moved(e) ==
  \/ UNCHANGED <<standing[e], wins[e]>>
  \/ standing'[e] = "ACTIVE" /\ standing[e] = "ABSENT" /\ wins'[e] = wins[e]
  \/ standing'[e] \in {"ABSENT", "ACTIVE"} /\ wins'[e] = 0
  \/ wins[e] > 0 /\ wins'[e] = wins[e] - 1 /\ standing'[e] = "ACTIVE"
  \/ "reset" \in did' /\ standing'[e] = "ACTIVE" /\ wins'[e] = wins[e]
  \/ "clear" \in did' /\ standing'[e] = standing[e] /\ wins'[e] = 0

LEMMA EntryStepEffect ==
  ASSUME SpinTyped, EntryStep, NEW e \in Entry
  PROVE  Moved(e) /\ op' = op
<1> USE DEF SpinTyped, SpinTypeOK, Moved
<1>1. ASSUME NEW x \in Entry, CreateEntry(x) \/ UndoWin(x) PROVE Moved(e) /\ op' = op
  BY <1>1 DEF CreateEntry, UndoWin, Restored, On, log
<1>2. ASSUME NEW x \in Entry, DeleteEntry(x) PROVE Moved(e) /\ op' = op
  BY <1>2 DEF DeleteEntry, Remove, On
<1>3. ASSUME NEW E \in SUBSET Entry, ReplaceEntries(E) PROVE Moved(e) /\ op' = op
  BY <1>3 DEF ReplaceEntries, Remove, On
<1>4. ASSUME NEW kind \in {"member", "team"}, ResetStatuses(kind) \/ ClearWins(kind)
      PROVE  Moved(e) /\ op' = op
  BY <1>4 DEF ResetStatuses, ClearWins, Note, On, people, log
<1> QED  BY <1>1, <1>2, <1>3, <1>4 DEF EntryStep

\* What a recorded win does to the entry, and to the request.
LEMMA WinEffect ==
  ASSUME SpinTyped, NEW t \in Tab, RecordWin(t), NEW e \in Entry
  PROVE  \/ UNCHANGED <<standing[e], wins[e]>>
         \/ /\ e = op[t].entry /\ wins'[e] = wins[e] + 1
            /\ standing'[e] = "DONE" \/ (standing'[e] = standing[e] /\ "keep" \in did')
  BY DEF SpinTyped, SpinTypeOK, RecordWin, Note

(* Whoever is off the wheel has a line whose deletion puts them back.      *)
THEOREM NobodyStuck == SpinSpec => []NobodyStuckOut
<1>1. ASSUME SpinInit PROVE NobodyStuckOut
  BY <1>1 DEF SpinInit, NobodyStuckOut
<1>2. ASSUME SpinTyped, NobodyStuckOut, [SpinNext]_spinVars PROVE NobodyStuckOut'
  <2>1. SUFFICES ASSUME "clear" \notin did', NEW e \in Entry, standing'[e] = "DONE"
                 PROVE  wins'[e] > 0
    BY DEF NobodyStuckOut
  <2>2. wins[e] \in Nat /\ (standing[e] = "DONE" => wins[e] > 0)
    BY <1>2, <2>1, NotesStay DEF NobodyStuckOut, SpinTyped, SpinTypeOK
  <2>3. ASSUME NEW t \in Tab, RecordWin(t) PROVE wins'[e] > 0
    BY <1>2, <2>1, <2>2, <2>3, WinEffect
  <2>4. ASSUME EntryStep PROVE wins'[e] > 0
    BY <1>2, <2>1, <2>2, <2>4, EntryStepEffect DEF Moved
  <2> QED  BY <1>2, <2>1, <2>2, <2>3, <2>4, WheelSteps
<1> QED  BY <1>1, <1>2, TypesHold, PTL DEF SpinSpec

-----------------------------------------------------------------------------
(* One win at a time.                                                      *)

Orderly == did \cap {"reset", "keep", "recordRace"} = {}

\* Nobody on the wheel has a win, and what a request has read of the winner it
\* is about to record still holds: whoever recorded that one meanwhile would
\* have done so after the read.
OnceInv ==
  Orderly =>
    /\ \A e \in Entry : wins[e] <= 1 /\ (standing[e] # "DONE" => wins[e] = 0)
    /\ \A t \in Tab : op[t].step = "record" => standing[op[t].entry] # "DONE"

\* How one step moves the request of tab t: to a step that records nobody, to
\* the next winner, to the record of one it has read, or to the first one.
OpMoved(t) ==
  /\ \A u \in Tab \ {t} : op'[u] = op[u]
  /\ \/ op'[t].step \notin {"winner", "record"}
     \/ op'[t].step = "winner" /\ op'[t].todo = {}
     \/ /\ op[t].step = "record" /\ op'[t].step = "winner"
        /\ op'[t].todo = op[t].todo \ {op[t].entry}
     \/ /\ op[t].step = "winner" /\ op'[t].step = "record" /\ op'[t].todo = op[t].todo
        /\ op'[t].entry \in op[t].todo /\ standing[op'[t].entry] = "ACTIVE"
        /\ UNCHANGED <<standing, wins>>
     \/ /\ op'[t].step = "winner" /\ UNCHANGED <<standing, wins>>

LEMMA StockMoves ==
  ASSUME SpinTyped, NEW t \in Tab, StockStep(t) PROVE OpMoved(t)
<1> USE DEF SpinTyped, SpinTypeOK, OpMoved
<1>1. ASSUME End(t) PROVE OpMoved(t)
  BY <1>1 DEF End, NoOp
<1>2. ASSUME NEW g \in Gift, NEW e \in Entry, BeginAward(t, g, e) PROVE OpMoved(t)
  BY <1>2 DEF BeginAward, Start, NoOp
<1>3. ASSUME Award(t) PROVE OpMoved(t)
  <2>1. CASE op' = [op EXCEPT ![t] = [NoOp EXCEPT !.step = "winner", !.round = op[t].round]]
    BY <2>1 DEF NoOp
  <2> QED  BY <1>1, <1>3, <2>1 DEF Award
<1>4. ASSUME NEW g \in Gift, BeginEdit(t, g) PROVE OpMoved(t)
  BY <1>4 DEF BeginEdit, Start, NoOp
<1>5. ASSUME NEW a \in AwardRow, BeginUndo(t, a) PROVE OpMoved(t)
  BY <1>5 DEF BeginUndo, Start, NoOp
<1>6. ASSUME Restock(t) PROVE OpMoved(t)
  <2>1. PICK last : op' = [op EXCEPT ![t] = [op[t] EXCEPT !.step = "commit", !.last = last]]
    BY <1>6 DEF Restock
  <2>2. op[t] \in Op
    OBVIOUS
  <2> QED  BY <2>1, <2>2 DEF Op
<1> QED
  BY <1>1, <1>2, <1>3, <1>4, <1>5, <1>6 DEF StockStep, CommitEdit, CommitUndo, Fail

LEMMA RecordMoves ==
  ASSUME SpinTyped, NEW t \in Tab, RecordStep(t) PROVE OpMoved(t)
<1> USE DEF SpinTyped, SpinTypeOK, OpMoved
<1>0. op[t] \in Op
  OBVIOUS
<1>1. ASSUME End(t) PROVE OpMoved(t)
  BY <1>1 DEF End, NoOp
<1>2. ASSUME NEW r \in Round, NEW remove \in BOOLEAN, BeginConfirm(t, r, remove)
      PROVE  OpMoved(t)
  <2> DEFINE o == [NoOp EXCEPT !.round = r, !.remove = remove]
  <2>1. CASE op' = [op EXCEPT ![t] = [o EXCEPT !.step = "winner", !.todo = round[r].winners]]
    BY <1>2, <2>1 DEF NoOp, BeginConfirm, people, log
  <2>2. CASE op' = [op EXCEPT ![t] = [o EXCEPT !.step = "award", !.gift = round[r].gift,
                                               !.entry = round[r].recipient]]
    BY <2>2 DEF NoOp
  <2> QED  BY <1>2, <2>1, <2>2 DEF BeginConfirm, Start
<1>3. ASSUME NEW e \in Entry, NEW remove \in BOOLEAN, BeginRecord(t, e, remove)
      PROVE  OpMoved(t)
  BY <1>3 DEF BeginRecord, Start, NoOp, people, log
<1>4. ASSUME ReadWinner(t) PROVE OpMoved(t)
  <2>1. \/ End(t)
        \/ \E e \in op[t].todo :
             /\ op' = [op EXCEPT ![t] = [op[t] EXCEPT !.step = "record", !.entry = e]]
             /\ standing[e] = "ACTIVE"
    BY <1>4 DEF ReadWinner, MayWin
  <2>2. ASSUME NEW e \in op[t].todo, standing[e] = "ACTIVE",
               op' = [op EXCEPT ![t] = [op[t] EXCEPT !.step = "record", !.entry = e]]
        PROVE  OpMoved(t)
    BY <1>0, <1>4, <2>2 DEF Op, ReadWinner, people, log
  <2> QED  BY <1>1, <2>1, <2>2
<1>5. ASSUME RecordWin(t) PROVE OpMoved(t)
  <2> DEFINE next == [op[t] EXCEPT !.step = "winner", !.todo = op[t].todo \ {op[t].entry},
                                   !.entry = None]
  <2>1. End(t) \/ op' = [op EXCEPT ![t] = next]
    BY <1>5 DEF RecordWin
  <2>2. CASE op' = [op EXCEPT ![t] = next]
    BY <1>0, <1>5, <2>2 DEF Op, RecordWin
  <2> QED  BY <1>1, <2>1, <2>2
<1> QED  BY <1>1, <1>2, <1>3, <1>4, <1>5 DEF RecordStep, Settle

LEMMA OpMoves ==
  ASSUME SpinTyped, [SpinNext]_spinVars
  PROVE  op' = op \/ \E t \in Tab : OpMoved(t)
<1>1. ASSUME DrawStep \/ GiftStep \/ EntryStep \/ UNCHANGED spinVars PROVE op' = op
  BY <1>1 DEF DrawStep, DrawWinners, DrawGift, CancelRound, GiftStep, DeleteGift, CreateGift,
              ReplaceGifts, ResetGifts, ClearAwards, EntryStep, CreateEntry, DeleteEntry,
              ReplaceEntries, Remove, UndoWin, ResetStatuses, ClearWins, spinVars
<1> QED  BY <1>1, StockMoves, RecordMoves DEF SpinNext

\* A record ends the request or goes on to the next winner.
LEMMA RecordLeaves ==
  ASSUME SpinTyped, NEW t \in Tab, RecordWin(t) PROVE op'[t].step # "record"
<1> DEFINE next == [op[t] EXCEPT !.step = "winner", !.todo = op[t].todo \ {op[t].entry},
                                 !.entry = None]
<1>1. op[t] \in Op /\ op \in [Tab -> Op]
  BY DEF SpinTyped, SpinTypeOK
<1>2. End(t) \/ op' = [op EXCEPT ![t] = next]
  BY DEF RecordWin
<1>3. CASE End(t)
  BY <1>1, <1>3 DEF End, NoOp
<1>4. CASE op' = [op EXCEPT ![t] = next]
  BY <1>1, <1>4 DEF Op
<1> QED  BY <1>2, <1>3, <1>4

LEMMA OnceKept ==
  ASSUME SpinTyped, SpinTyped', OnceInv, [SpinNext]_spinVars PROVE OnceInv'
<1> SUFFICES ASSUME Orderly' PROVE OnceInv'
  BY DEF OnceInv
<1>1. /\ Orderly
      /\ \A e \in Entry : wins[e] <= 1 /\ (standing[e] # "DONE" => wins[e] = 0)
      /\ \A t \in Tab : op[t].step = "record" => standing[op[t].entry] # "DONE"
  BY NotesStay DEF OnceInv, Orderly
<1>2. \A t \in Tab : /\ op[t] \in Op /\ op[t].todo \in SUBSET Entry
                     /\ op[t].step = "record" => op[t].entry \in op[t].todo
  BY DEF SpinTyped, CarriedOp, Carried, Op
<1>3. \A e \in Entry : wins[e] \in Nat /\ standing[e] \in {"ABSENT", "ACTIVE", "DONE"}
  BY DEF SpinTyped, SpinTypeOK
<1>4. \A e \in Entry : wins'[e] <= 1 /\ (standing'[e] # "DONE" => wins'[e] = 0)
  <2> SUFFICES ASSUME NEW e \in Entry
               PROVE  wins'[e] <= 1 /\ (standing'[e] # "DONE" => wins'[e] = 0)
    OBVIOUS
  <2>1. ASSUME NEW t \in Tab, RecordWin(t)
        PROVE  wins'[e] <= 1 /\ (standing'[e] # "DONE" => wins'[e] = 0)
    <3>1. op[t].step = "record" /\ "keep" \notin did'
      BY <2>1 DEF RecordWin, Orderly
    <3> QED  BY <1>1, <1>3, <2>1, <3>1, WinEffect
  <2>2. ASSUME EntryStep
        PROVE  wins'[e] <= 1 /\ (standing'[e] # "DONE" => wins'[e] = 0)
    BY <1>1, <1>3, <2>2, EntryStepEffect DEF Moved, Orderly
  <2> QED  BY <1>1, <2>1, <2>2, WheelSteps
<1>5. \A t \in Tab : op'[t].step = "record" => standing'[op'[t].entry] # "DONE"
  <2> SUFFICES ASSUME NEW t \in Tab, op'[t].step = "record"
               PROVE  standing'[op'[t].entry] # "DONE"
    OBVIOUS
  <2>1. CASE op'[t] # op[t]
    <3>1. OpMoved(t)
      BY <2>1, OpMoves DEF OpMoved
    <3> QED  BY <2>1, <3>1 DEF OpMoved
  <2>2. CASE op'[t] = op[t]
    <3> DEFINE e == op[t].entry
    <3>1. e \in Entry /\ op[t].step = "record" /\ standing[e] # "DONE"
      BY <1>1, <1>2, <2>2
    <3>2. ASSUME NEW u \in Tab, RecordWin(u) PROVE standing'[e] # "DONE"
      <4>1. u # t
        <5>1. op'[u].step # "record"
          BY <3>2, RecordLeaves
        <5> QED  BY <2>2, <3>1, <5>1
      <4>2. CASE op[u].entry = e
        <5>1. RecordRace(u, e) = {"recordRace"}
          BY <3>1, <4>1 DEF RecordRace
        <5>2. standing'[e] = standing[e]
          BY <3>2, <4>2, <5>1 DEF RecordWin, Orderly
        <5> QED  BY <3>1, <5>2
      <4>3. CASE op[u].entry # e
        BY <3>1, <3>2, <4>3 DEF RecordWin, SpinTyped, SpinTypeOK
      <4> QED  BY <4>2, <4>3
    <3>3. ASSUME EntryStep PROVE standing'[e] # "DONE"
      BY <3>1, <3>3, EntryStepEffect DEF Moved
    <3> QED  BY <2>2, <3>1, <3>2, <3>3, WheelSteps
  <2> QED  BY <2>1, <2>2
<1> QED  BY <1>4, <1>5 DEF OnceInv

(* Until wins are kept on the wheel, statuses are reset or two requests    *)
(* have found that the same entry may win, nobody wins twice.              *)
THEOREM NobodyWinsTwice == SpinSpec => []WinsOnce
<1>1. ASSUME SpinInit PROVE OnceInv
  BY <1>1 DEF SpinInit, OnceInv, NoOp
<1>2. OnceInv => WinsOnce
  BY DEF OnceInv, WinsOnce, Orderly
<1> QED  BY <1>1, <1>2, OnceKept, TypesHold, PTL DEF SpinSpec
-----------------------------------------------------------------------------
(* The stock and the history of awards.                                    *)

\* The awards that are undone are those the history holds, each by one undo.
UndoRows ==
  \A t \in Tab : Undoing(t) =>
    /\ \A u \in Tab : Undoing(u) /\ op[u].row = op[t].row => u = t
    /\ op[t].row \in AwardRow /\ awards[op[t].row] # NoAward
    /\ awards[op[t].row] = [to |-> op[t].entry, gift |-> op[t].gift]

\* What an undo has read of its gift, and still holds.
UndoTotals ==
  "editRace" \notin did =>
    \A t \in Tab : Undoing(t) /\ op[t].gift # None => op[t].total = total[op[t].gift]

Balanced == did \cap {"edit", "reset", "clear", "undoRace"} = {}

UndoReads ==
  Balanced =>
    \A t \in Tab : Undoing(t) /\ op[t].gift # None =>
      op[t].total = total[op[t].gift] /\ op[t].remaining = remaining[op[t].gift]

HistoryOfGifts == \A a \in AwardRow : awards[a].gift \in gifts \cup {None}

BooksInv ==
  /\ HistoryOfGifts /\ UndoRows /\ UndoTotals /\ UndoReads
  /\ StockWithinTotal /\ StockMatchesAwards

\* A step that leaves the books alone: no undo begins and none is written.
Quiet ==
  /\ UNCHANGED <<gifts, total, remaining, awards>>
  /\ \A t \in Tab : Undoing(t)' =>
       /\ Undoing(t)
       /\ op'[t].row = op[t].row /\ op'[t].entry = op[t].entry /\ op'[t].gift = op[t].gift
       /\ op'[t].total = op[t].total /\ op'[t].remaining = op[t].remaining

LEMMA QuietKeepsBooks ==
  ASSUME SpinTyped, BooksInv, Quiet, did \subseteq did' PROVE BooksInv'
<1>1. HistoryOfGifts'
  BY DEF BooksInv, HistoryOfGifts, Quiet
<1>2. UndoRows' /\ UndoTotals'
  BY DEF BooksInv, UndoRows, UndoTotals, Quiet
<1>3. UndoReads'
  BY DEF BooksInv, UndoReads, Balanced, Quiet
<1>4. StockWithinTotal'
  BY DEF BooksInv, StockWithinTotal, Quiet
<1>5. StockMatchesAwards'
  <2>1. \A g : AwardsOf(g)' = AwardsOf(g)
    BY DEF Quiet, AwardsOf
  <2> QED  BY <2>1 DEF BooksInv, StockMatchesAwards, Quiet
<1> QED  BY <1>1, <1>2, <1>3, <1>4, <1>5 DEF BooksInv

\* A request that ends, or moves on without undoing anything.
LEMMA OthersKeepUndos ==
  ASSUME SpinTyped, NEW t \in Tab, OpMoved(t), ~ Undoing(t)', NEW u \in Tab, Undoing(u)'
  PROVE  u # t /\ op'[u] = op[u] /\ Undoing(u)
  BY DEF OpMoved, Undoing

LEMMA BookSteps ==
  ASSUME SpinTyped, [SpinNext]_spinVars
  PROVE  \/ Quiet
         \/ \E t \in Tab : Award(t) \/ CommitEdit(t) \/ CommitUndo(t)
         \/ \E t \in Tab, a \in AwardRow : BeginUndo(t, a)
         \/ GiftStep
         \/ \E E \in SUBSET Entry, created \in SUBSET Entry : Remove(E, created)
<1>1. ASSUME DrawStep \/ UNCHANGED spinVars PROVE Quiet
  BY <1>1 DEF DrawStep, DrawWinners, DrawGift, CancelRound, stock, log, spinVars, Quiet, Undoing
<1>2. ASSUME NEW t \in Tab, RecordStep(t) PROVE Quiet
  <2>1. UNCHANGED <<gifts, total, remaining, awards>>
    BY <1>2 DEF RecordStep, BeginConfirm, BeginRecord, ReadWinner, RecordWin, Settle, stock, log
  <2>2. OpMoved(t) /\ op'[t].step \notin {"restock", "commit"}
    <3>1. ASSUME End(t) PROVE op'[t].step \notin {"restock", "commit"}
      BY <3>1 DEF End, NoOp, SpinTyped, SpinTypeOK
    <3>2. ASSUME NEW r \in Round, NEW remove \in BOOLEAN, BeginConfirm(t, r, remove)
          PROVE  op'[t].step \notin {"restock", "commit"}
      <4> DEFINE o == [NoOp EXCEPT !.round = r, !.remove = remove]
      <4>1. \/ op' = [op EXCEPT ![t] = [o EXCEPT !.step = "winner", !.todo = round[r].winners]]
            \/ op' = [op EXCEPT ![t] = [o EXCEPT !.step = "award", !.gift = round[r].gift,
                                                 !.entry = round[r].recipient]]
        BY <3>2 DEF BeginConfirm, Start
      <4>2. /\ [o EXCEPT !.step = "winner", !.todo = round[r].winners].step = "winner"
            /\ [o EXCEPT !.step = "award", !.gift = round[r].gift,
                         !.entry = round[r].recipient].step = "award"
        BY DEF NoOp
      <4> HIDE DEF o
      <4>3. op'[t].step \in {"winner", "award"}
        BY <4>1, <4>2 DEF SpinTyped
      <4> QED  BY <4>3
    <3>3. ASSUME NEW e \in Entry, NEW remove \in BOOLEAN, BeginRecord(t, e, remove)
          PROVE  op'[t].step \notin {"restock", "commit"}
      BY <3>3 DEF BeginRecord, Start, NoOp, SpinTyped, SpinTypeOK
    <3>4. ASSUME ReadWinner(t), ~ End(t) PROVE op'[t].step \notin {"restock", "commit"}
      <4>1. PICK e : op' = [op EXCEPT ![t] = [op[t] EXCEPT !.step = "record", !.entry = e]]
        BY <3>4 DEF ReadWinner
      <4>2. op[t] \in Op
        BY DEF SpinTyped, SpinTypeOK
      <4> QED  BY <4>1, <4>2 DEF Op, SpinTyped, SpinTypeOK
    <3>5. ASSUME RecordWin(t), ~ End(t) PROVE op'[t].step \notin {"restock", "commit"}
      <4>1. op' = [op EXCEPT ![t] = [op[t] EXCEPT !.step = "winner",
                                       !.todo = op[t].todo \ {op[t].entry}, !.entry = None]]
        BY <3>5 DEF RecordWin
      <4>2. op[t] \in Op
        BY DEF SpinTyped, SpinTypeOK
      <4> QED  BY <4>1, <4>2 DEF Op, SpinTyped, SpinTypeOK
    <3> QED  BY <1>2, <3>1, <3>2, <3>3, <3>4, <3>5, RecordMoves DEF RecordStep, Settle
  <2> QED  BY <2>1, <2>2, OthersKeepUndos DEF Quiet, Undoing
<1>3. ASSUME NEW t \in Tab, NEW g \in Gift,
             (\E e \in Entry : BeginAward(t, g, e)) \/ BeginEdit(t, g)
      PROVE  Quiet
  <2>1. UNCHANGED <<gifts, total, remaining, awards>>
    BY <1>3 DEF BeginAward, BeginEdit, stock, log
  <2>2. ASSUME NEW e \in Entry, BeginAward(t, g, e) PROVE op'[t].step = "award"
    BY <2>2 DEF BeginAward, Start, NoOp, SpinTyped
  <2>3. ASSUME BeginEdit(t, g) PROVE op'[t].step = "edit"
    BY <2>3 DEF BeginEdit, Start, NoOp, SpinTyped
  <2>4. OpMoved(t)
    BY <1>3, StockMoves DEF StockStep
  <2> QED  BY <1>3, <2>1, <2>2, <2>3, <2>4, OthersKeepUndos DEF Quiet, Undoing
<1>4. ASSUME NEW t \in Tab, Restock(t) PROVE Quiet
  <2>1. PICK last : op' = [op EXCEPT ![t] = [op[t] EXCEPT !.step = "commit", !.last = last]]
    BY <1>4 DEF Restock
  <2>2. op[t] \in Op /\ op \in [Tab -> Op]
    BY DEF SpinTyped, SpinTypeOK
  <2> QED  BY <1>4, <2>1, <2>2 DEF Op, Restock, Quiet, Undoing, stock, log
<1>5. ASSUME NEW t \in Tab, Fail(t) PROVE Quiet
  BY <1>5 DEF Fail, End, NoOp, Quiet, Undoing, SpinTyped, SpinTypeOK, stock, log
<1>6. ASSUME EntryStep
      PROVE  Quiet \/ \E E \in SUBSET Entry, created \in SUBSET Entry : Remove(E, created)
  <2>1. ASSUME NEW e \in Entry, CreateEntry(e) \/ UndoWin(e) PROVE Quiet
    BY <2>1 DEF CreateEntry, UndoWin, Quiet, Undoing, stock, log
  <2>2. ASSUME NEW kind \in {"member", "team"}, ResetStatuses(kind) \/ ClearWins(kind) PROVE Quiet
    BY <2>2 DEF ResetStatuses, ClearWins, Quiet, Undoing, stock, log
  <2>3. ASSUME NEW e \in Entry, DeleteEntry(e)
        PROVE  \E E \in SUBSET Entry, created \in SUBSET Entry : Remove(E, created)
    BY <2>3 DEF DeleteEntry
  <2>4. ASSUME NEW E \in SUBSET Entry, ReplaceEntries(E)
        PROVE  \E F \in SUBSET Entry, created \in SUBSET Entry : Remove(F, created)
    <3>1. {e \in Entry : On(e)} \in SUBSET Entry
      OBVIOUS
    <3> QED  BY <2>4, <3>1 DEF ReplaceEntries
  <2> QED  BY <1>6, <2>1, <2>2, <2>3, <2>4 DEF EntryStep
<1> QED  BY <1>1, <1>2, <1>3, <1>4, <1>5, <1>6 DEF SpinNext, StockStep

\* A request that notes its race with the undos of gift g leaves none of them
\* in flight, unless there was one.
LEMMA NoUndoLeft ==
  ASSUME SpinTyped, NEW t \in Tab, NEW g, g # None, OpMoved(t), ~ Undoing(t)',
         NEW kind, Race(kind, t, g) \subseteq did', kind \notin did',
         NEW u \in Tab, Undoing(u)'
  PROVE  op'[u].gift # g
  BY OthersKeepUndos DEF Race

LEMMA AwardsFinite ==
  ASSUME NEW g PROVE IsFiniteSet(AwardsOf(g)) /\ Cardinality(AwardsOf(g)) \in Nat
<1>1. AwardsOf(g) \subseteq AwardRow
  BY DEF AwardsOf
<1> QED  BY <1>1, SpinAssumption, FS_Subset, FS_CardinalityType

LEMMA AwardKeepsBooks ==
  ASSUME SpinTyped, BooksInv, NEW t \in Tab, Award(t) PROVE BooksInv'
<1> DEFINE g == op[t].gift
           e == op[t].entry
<1>0. g \in Gift /\ e \in Entry /\ None \notin Gift
  BY SpinAssumption DEF SpinTyped, CarriedOp, Carried, Award
<1>1. remaining \in [Gift -> Nat] /\ total \in [Gift -> Nat] /\ awards \in [AwardRow -> AwardEntry]
      /\ gifts \subseteq Gift
  BY DEF SpinTyped, SpinTypeOK
<1>2. OpMoved(t) /\ ~ Undoing(t)' /\ ~ Undoing(t)
  <2>1. End(t) \/ op' = [op EXCEPT ![t] = [NoOp EXCEPT !.step = "winner", !.round = op[t].round]]
    BY DEF Award
  <2>2. ~ Undoing(t)'
    <3>1. CASE End(t)
      BY <3>1 DEF End, NoOp, Undoing, SpinTyped
    <3>2. CASE op' = [op EXCEPT ![t] = [NoOp EXCEPT !.step = "winner", !.round = op[t].round]]
      BY <3>2 DEF NoOp, Undoing, SpinTyped
    <3> QED  BY <2>1, <3>1, <3>2
  <2> QED  BY <2>2, StockMoves DEF StockStep, Award, Undoing
<1>3. CASE ~ (InStock(g) /\ On(e))
  <2>1. UNCHANGED <<gifts, total, remaining, awards, did>>
    BY <1>0, <1>1, <1>3 DEF Award, LeftAfterAward
  <2> QED  BY <1>2, <2>1, QuietKeepsBooks, OthersKeepUndos DEF Quiet
<1>4. CASE InStock(g) /\ On(e)
  <2>1. PICK a \in AwardRow : awards[a] = NoAward /\ awards' = [awards EXCEPT ![a] = [to |-> e, gift |-> g]]
    BY <1>4 DEF Award
  <2>2. /\ remaining' = [remaining EXCEPT ![g] = remaining[g] - 1] /\ remaining[g] > 0
        /\ g \in gifts /\ UNCHANGED <<gifts, total>> /\ did' = did \cup Race("undoRace", t, g)
    BY <1>4 DEF Award, LeftAfterAward, InStock
  <2>3. HistoryOfGifts'
    BY <1>1, <2>1, <2>2 DEF BooksInv, HistoryOfGifts
  <2>4. UndoRows' /\ UndoTotals' /\ UndoReads'
    <3>1. ASSUME NEW u \in Tab, Undoing(u)'
          PROVE  /\ u # t /\ op'[u] = op[u] /\ Undoing(u)
                 /\ op[u].row # a
      BY <1>2, <2>1, <3>1, OthersKeepUndos DEF BooksInv, UndoRows
    <3>2. UndoRows'
      BY <1>1, <2>1, <3>1 DEF BooksInv, UndoRows
    <3>3. UndoTotals'
      BY <2>2, <3>1 DEF BooksInv, UndoTotals, Race
    <3>4. UndoReads'
      <4> SUFFICES ASSUME Balanced', NEW u \in Tab, Undoing(u)', op'[u].gift # None
                   PROVE  /\ op'[u].total = total'[op'[u].gift]
                          /\ op'[u].remaining = remaining'[op'[u].gift]
        BY DEF UndoReads
      <4>1. op[u].gift # g
        BY <1>0, <1>2, <2>2, <3>1, NoUndoLeft DEF Balanced
      <4>2. Balanced
        BY <2>2 DEF Balanced
      <4>3. op[u].total = total[op[u].gift] /\ op[u].remaining = remaining[op[u].gift]
        BY <3>1, <4>2 DEF BooksInv, UndoReads
      <4>4. op[u].gift \in Gift
        BY <3>1 DEF SpinTyped, SpinTypeOK, Op
      <4> QED  BY <1>1, <2>2, <3>1, <4>1, <4>3, <4>4
    <3> QED  BY <3>2, <3>3, <3>4
  <2>5. StockWithinTotal'
    <3> SUFFICES ASSUME "editRace" \notin did', NEW h \in gifts PROVE remaining'[h] <= total[h]
      BY <2>2 DEF StockWithinTotal
    <3>1. remaining[h] <= total[h]
      BY <2>2 DEF BooksInv, StockWithinTotal
    <3>2. remaining[h] \in Nat /\ total[h] \in Nat /\ h \in Gift
      BY <1>1
    <3> HIDE DEF g
    <3> QED  BY <1>0, <1>1, <2>2, <3>1, <3>2
  <2>6. StockMatchesAwards'
    <3> SUFFICES ASSUME did' \cap {"edit", "reset", "clear", "undoRace"} = {}, NEW h \in gifts
                 PROVE  remaining'[h] + Cardinality(AwardsOf(h)') = total[h]
      BY <2>2 DEF StockMatchesAwards
    <3>1. remaining[h] + Cardinality(AwardsOf(h)) = total[h]
      BY <2>2 DEF BooksInv, StockMatchesAwards
    <3>2. CASE h = g
      <4>1. AwardsOf(h)' = AwardsOf(h) \cup {a} /\ a \notin AwardsOf(h)
        BY <1>0, <1>1, <2>1, <3>2 DEF AwardsOf, NoAward
      <4>2. Cardinality(AwardsOf(h)') = Cardinality(AwardsOf(h)) + 1
        <5>1. IsFiniteSet(AwardsOf(h))
          BY AwardsFinite
        <5>2. Cardinality(AwardsOf(h) \cup {a}) = Cardinality(AwardsOf(h)) + 1
          BY <4>1, <5>1, FS_AddElement
        <5> QED  BY <4>1, <5>2
      <4> QED  BY <1>0, <1>1, <2>2, <3>1, <3>2, <4>2, AwardsFinite
    <3>3. CASE h # g
      <4>1. AwardsOf(h)' = AwardsOf(h)
        BY <1>0, <1>1, <2>1, <3>3 DEF AwardsOf, NoAward
      <4> QED  BY <1>1, <2>2, <3>1, <3>3, <4>1
    <3> QED  BY <3>2, <3>3
  <2> QED  BY <2>3, <2>4, <2>5, <2>6 DEF BooksInv
<1> QED  BY <1>3, <1>4

LEMMA EditKeepsBooks ==
  ASSUME SpinTyped, BooksInv, NEW t \in Tab, CommitEdit(t) PROVE BooksInv'
<1>0. /\ op[t].gift \in Gift /\ op[t].total \in Nat /\ op[t].remaining \in Nat
      /\ remaining \in [Gift -> Nat] /\ total \in [Gift -> Nat] /\ gifts \subseteq Gift
  BY DEF SpinTyped, SpinTypeOK, CarriedOp, Carried, Op, CommitEdit
<1>1. OpMoved(t) /\ ~ Undoing(t)' /\ UNCHANGED <<gifts, awards>>
  BY StockMoves DEF StockStep, CommitEdit, End, NoOp, Undoing, SpinTyped, log
<1>2. CASE op[t].gift \notin gifts
  <2>1. UNCHANGED <<total, remaining, did>>
    BY <1>2 DEF CommitEdit
  <2> QED  BY <1>1, <2>1, QuietKeepsBooks, OthersKeepUndos DEF Quiet
<1>3. CASE op[t].gift \in gifts
  <2>1. PICK n \in (0..MaxTotal) \cup {op[t].total}, m \in (0..MaxTotal) \cup {op[t].remaining} :
          /\ total' = [total EXCEPT ![op[t].gift] = n]
          /\ remaining' = [remaining EXCEPT ![op[t].gift] = Capped(m, n)]
    BY <1>3 DEF CommitEdit
  <2>2. did' = did \cup {"edit"} \cup Race("editRace", t, op[t].gift)
    BY <1>3 DEF CommitEdit
  <2>3. n \in Nat /\ m \in Nat
    BY <1>0, SpinAssumption
  <2>4. Capped(m, n) <= n
    BY <2>3, CappedType
  <2>5. HistoryOfGifts'
    BY <1>1 DEF BooksInv, HistoryOfGifts
  <2>6. UndoRows' /\ UndoTotals' /\ UndoReads'
    <3>1. ASSUME NEW u \in Tab, Undoing(u)'
          PROVE  u # t /\ op'[u] = op[u] /\ Undoing(u)
      BY <1>1, <3>1, OthersKeepUndos
    <3>2. UndoRows'
      BY <1>1, <3>1 DEF BooksInv, UndoRows
    <3>3. UndoTotals'
      <4> SUFFICES ASSUME "editRace" \notin did', NEW u \in Tab, Undoing(u)', op'[u].gift # None
                   PROVE  op'[u].total = total'[op'[u].gift]
        BY DEF UndoTotals
      <4>1. op[u].gift # op[t].gift
        BY <1>0, <1>1, <2>2, <3>1, NoUndoLeft, SpinAssumption
      <4>2. op[u].total = total[op[u].gift]
        BY <2>2, <3>1 DEF BooksInv, UndoTotals
      <4>3. op[u].gift \in Gift
        BY <3>1 DEF SpinTyped, SpinTypeOK, Op
      <4> QED  BY <1>0, <2>1, <3>1, <4>1, <4>2, <4>3
    <3>4. UndoReads'
      BY <2>2 DEF UndoReads, Balanced
    <3> QED  BY <3>2, <3>3, <3>4
  <2>7. StockWithinTotal'
    BY <1>0, <1>1, <2>1, <2>2, <2>4 DEF BooksInv, StockWithinTotal
  <2>8. StockMatchesAwards'
    BY <2>2 DEF StockMatchesAwards
  <2> QED  BY <2>5, <2>6, <2>7, <2>8 DEF BooksInv
<1> QED  BY <1>2, <1>3

LEMMA UndoBegins ==
  ASSUME SpinTyped, BooksInv, NEW t \in Tab, NEW a \in AwardRow, BeginUndo(t, a)
  PROVE  BooksInv'
<1> DEFINE e == awards[a].to
           g == awards[a].gift
           o == [NoOp EXCEPT !.step = "restock", !.row = a, !.entry = e, !.gift = g,
                   !.total = IF g = None THEN 0 ELSE total[g],
                   !.remaining = IF g = None THEN 0 ELSE remaining[g]]
<1>1. /\ UNCHANGED <<gifts, total, remaining, awards, did>>
      /\ awards[a] # NoAward /\ ~ Undoing(t)
      /\ \A u \in Tab : Undoing(u) => op[u].row # a
  BY DEF BeginUndo, stock, log, Start, Idle, Undoing
<1>2. /\ op'[t].row = a /\ op'[t].entry = e /\ op'[t].gift = g
      /\ g # None => op'[t].total = total[g] /\ op'[t].remaining = remaining[g]
      /\ \A u \in Tab \ {t} : op'[u] = op[u]
  <2>1. op' = [op EXCEPT ![t] = o]
    BY DEF BeginUndo, Start
  <2> QED  BY <2>1 DEF NoOp, SpinTyped
<1>3. awards[a] = [to |-> e, gift |-> g]
  BY DEF SpinTyped, SpinTypeOK, AwardEntry
<1>4. UndoRows'
  BY <1>1, <1>2, <1>3 DEF BooksInv, UndoRows, Undoing
<1>5. UndoTotals' /\ UndoReads'
  BY <1>1, <1>2 DEF BooksInv, UndoTotals, UndoReads, Balanced, Undoing
<1>6. HistoryOfGifts' /\ StockWithinTotal'
  BY <1>1 DEF BooksInv, HistoryOfGifts, StockWithinTotal
<1>7. StockMatchesAwards'
  <2>1. \A h : AwardsOf(h)' = AwardsOf(h)
    BY <1>1 DEF AwardsOf
  <2> QED  BY <1>1, <2>1 DEF BooksInv, StockMatchesAwards
<1> QED  BY <1>4, <1>5, <1>6, <1>7 DEF BooksInv

\* The undo gives back one piece, which it takes out of the history.
LEMMA UndoKeepsBooks ==
  ASSUME SpinTyped, BooksInv, NEW t \in Tab, CommitUndo(t) PROVE BooksInv'
<1> DEFINE g == op[t].gift
           row == op[t].row
           back == Capped(op[t].remaining + 1, op[t].total)
<1>0. /\ g \in Gift \cup {None} /\ row \in AwardRow
      /\ op[t].total \in Nat /\ op[t].remaining \in Nat
      /\ remaining \in [Gift -> Nat] /\ total \in [Gift -> Nat] /\ gifts \subseteq Gift
      /\ awards \in [AwardRow -> AwardEntry] /\ None \notin Gift
  BY SpinAssumption DEF SpinTyped, SpinTypeOK, CarriedOp, Carried, Op, CommitUndo
<1>1. /\ OpMoved(t) /\ ~ Undoing(t)' /\ Undoing(t) /\ UNCHANGED <<gifts, total>>
      /\ did' = did \cup Race("undoRace", t, g)
      /\ awards' = [awards EXCEPT ![row] = NoAward]
      /\ remaining' = IF g = None THEN remaining ELSE [remaining EXCEPT ![g] = back]
  BY StockMoves DEF StockStep, CommitUndo, End, NoOp, Undoing, SpinTyped
<1>2. back \in Nat /\ back <= op[t].total
      /\ (op[t].remaining + 1 <= op[t].total => back = op[t].remaining + 1)
  <2>1. op[t].remaining + 1 \in Nat
    BY <1>0
  <2> QED  BY <1>0, <2>1, CappedType
<1>3. HistoryOfGifts'
  BY <1>0, <1>1 DEF BooksInv, HistoryOfGifts, NoAward
<1>4. UndoRows' /\ UndoTotals' /\ UndoReads'
  <2>1. ASSUME NEW u \in Tab, Undoing(u)'
        PROVE  u # t /\ op'[u] = op[u] /\ Undoing(u) /\ op[u].row # row
    BY <1>1, <2>1, OthersKeepUndos DEF BooksInv, UndoRows
  <2>2. UndoRows'
    BY <1>0, <1>1, <2>1 DEF BooksInv, UndoRows
  <2>3. UndoTotals'
    BY <1>1, <2>1 DEF BooksInv, UndoTotals
  <2>4. UndoReads'
    <3> SUFFICES ASSUME Balanced', NEW u \in Tab, Undoing(u)', op'[u].gift # None
                 PROVE  /\ op'[u].total = total'[op'[u].gift]
                        /\ op'[u].remaining = remaining'[op'[u].gift]
      BY DEF UndoReads
    <3>1. op[u].gift # g
      BY <1>1, <2>1, NoUndoLeft DEF Balanced
    <3>2. op[u].total = total[op[u].gift] /\ op[u].remaining = remaining[op[u].gift]
      BY <1>1, <2>1 DEF BooksInv, UndoReads, Balanced
    <3>3. op[u].gift \in Gift
      BY <2>1 DEF SpinTyped, SpinTypeOK, Op
    <3> QED  BY <1>0, <1>1, <2>1, <3>1, <3>2, <3>3
  <2> QED  BY <2>2, <2>3, <2>4
<1> HIDE DEF back
<1>5. awards[row] = [to |-> op[t].entry, gift |-> g]
  BY <1>1 DEF BooksInv, UndoRows
<1>6. StockWithinTotal'
  <2> SUFFICES ASSUME "editRace" \notin did, NEW h \in gifts PROVE remaining'[h] <= total[h]
    BY <1>1 DEF StockWithinTotal
  <2>1. remaining[h] <= total[h]
    BY DEF BooksInv, StockWithinTotal
  <2>2. CASE h = g
    <3>1. op[t].total = total[h]
      BY <1>0, <1>1, <2>2 DEF BooksInv, UndoTotals
    <3> QED  BY <1>0, <1>1, <1>2, <2>2, <3>1
  <2>3. CASE h # g
    BY <1>0, <1>1, <2>1, <2>3
  <2> QED  BY <2>2, <2>3
<1>7. StockMatchesAwards'
  <2> SUFFICES ASSUME did \cap {"edit", "reset", "clear", "undoRace"} = {}, NEW h \in gifts
               PROVE  remaining'[h] + Cardinality(AwardsOf(h)') = total[h]
    BY <1>1 DEF StockMatchesAwards
  <2>1. remaining[h] + Cardinality(AwardsOf(h)) = total[h]
    BY DEF BooksInv, StockMatchesAwards
  <2>2. CASE h = g
    <3>1. AwardsOf(h)' = AwardsOf(h) \ {row} /\ row \in AwardsOf(h)
      BY <1>0, <1>1, <1>5, <2>2 DEF AwardsOf, NoAward
    <3>2. Cardinality(AwardsOf(h)') = Cardinality(AwardsOf(h)) - 1
      <4>1. IsFiniteSet(AwardsOf(h))
        BY AwardsFinite
      <4>2. Cardinality(AwardsOf(h) \ {row}) = Cardinality(AwardsOf(h)) - 1
        BY <3>1, <4>1, FS_RemoveElement
      <4> QED  BY <3>1, <4>2
    <3>3. Cardinality(AwardsOf(h)) # 0
      BY <3>1, AwardsFinite, FS_EmptySet
    <3>4. op[t].remaining = remaining[h] /\ op[t].total = total[h]
      BY <1>0, <1>1, <2>2 DEF BooksInv, UndoReads, Balanced
    <3>5. remaining'[h] = remaining[h] + 1
      BY <1>0, <1>1, <1>2, <2>1, <2>2, <3>3, <3>4, AwardsFinite
    <3> QED  BY <1>0, <2>1, <3>2, <3>5, AwardsFinite
  <2>3. CASE h # g
    <3>1. AwardsOf(h)' = AwardsOf(h)
      BY <1>0, <1>1, <1>5, <2>3 DEF AwardsOf, NoAward
    <3> QED  BY <1>0, <1>1, <2>1, <2>3, <3>1
  <2> QED  BY <2>2, <2>3
<1> QED  BY <1>3, <1>4, <1>6, <1>7 DEF BooksInv

LEMMA GiftsKeepBooks ==
  ASSUME SpinTyped, BooksInv, GiftStep PROVE BooksInv'
<1>0. /\ remaining \in [Gift -> Nat] /\ total \in [Gift -> Nat] /\ gifts \subseteq Gift
      /\ awards \in [AwardRow -> AwardEntry] /\ None \notin Gift
  BY SpinAssumption DEF SpinTyped, SpinTypeOK
\* Gifts come or go with the awards that name them.
<1>1. ASSUME NEW G \in SUBSET Gift, awards' = Forget({}, G), NoUndoOf({}, G),
             did' = did, op' = op,
             gifts' \in SUBSET Gift, gifts \ G \subseteq gifts',
             \A h \in gifts \ G : total'[h] = total[h] /\ remaining'[h] = remaining[h],
             \A h \in gifts' : h \in gifts \ G \/ (h \notin gifts \ G /\ total'[h] \in Nat /\ remaining'[h] = total'[h])
      PROVE  BooksInv'
  <2>1. \A a \in AwardRow : /\ awards'[a].gift = IF awards[a].gift \in G THEN None ELSE awards[a].gift
                            /\ awards'[a].gift \in (gifts \ G) \cup {None}
    BY <1>0, <1>1 DEF BooksInv, HistoryOfGifts, Forget
  <2>2. HistoryOfGifts'
    BY <1>1, <2>1 DEF HistoryOfGifts
  <2>3. \A t \in Tab : Undoing(t) =>
          op[t].gift \notin G /\ (op[t].row \in AwardRow => awards'[op[t].row] =
             [to |-> awards[op[t].row].to,
              gift |-> IF awards[op[t].row].gift \in G THEN None ELSE awards[op[t].row].gift])
    BY <1>1 DEF NoUndoOf, Forget
  <2>4. \A t \in Tab : Undoing(t)' <=> Undoing(t)
    BY <1>1 DEF Undoing
  <2>5. ASSUME NEW t \in Tab, Undoing(t)
        PROVE  /\ awards'[op[t].row] = awards[op[t].row]
               /\ op[t].gift # None => op[t].gift \in gifts \ G
    <3>1. /\ op[t].row \in AwardRow /\ awards[op[t].row] = [to |-> op[t].entry, gift |-> op[t].gift]
      BY <2>5 DEF BooksInv, UndoRows
    <3>2. awards[op[t].row].gift = op[t].gift /\ awards[op[t].row].to = op[t].entry
      BY <3>1
    <3>3. op[t].gift \notin G
      BY <2>3, <2>5
    <3>4. awards'[op[t].row] = awards[op[t].row]
      BY <2>3, <2>5, <3>1, <3>2, <3>3
    <3>5. op[t].gift \in gifts \cup {None}
      BY <3>1, <3>2 DEF BooksInv, HistoryOfGifts
    <3> QED  BY <3>3, <3>4, <3>5
  <2>6. UndoRows' /\ UndoTotals'
    BY <1>1, <2>4, <2>5 DEF BooksInv, UndoRows, UndoTotals
  <2>7. UndoReads'
    <3> SUFFICES ASSUME Balanced, NEW t \in Tab, Undoing(t), op[t].gift # None
                 PROVE  /\ op[t].total = total'[op[t].gift]
                        /\ op[t].remaining = remaining'[op[t].gift]
      BY <1>1, <2>4 DEF UndoReads, Balanced
    <3> QED  BY <1>1, <2>5 DEF BooksInv, UndoReads
  <2>8. StockWithinTotal'
    BY <1>0, <1>1 DEF BooksInv, StockWithinTotal
  <2>9. StockMatchesAwards'
    <3> SUFFICES ASSUME did \cap {"edit", "reset", "clear", "undoRace"} = {}, NEW h \in gifts'
                 PROVE  remaining'[h] + Cardinality(AwardsOf(h)') = total'[h]
      BY <1>1 DEF StockMatchesAwards
    <3>1. h # None
      BY <1>0, <1>1
    <3>2. CASE h \in gifts \ G
      <4>1. AwardsOf(h)' = AwardsOf(h)
        BY <2>1, <3>1, <3>2 DEF AwardsOf
      <4> QED  BY <1>1, <3>2, <4>1 DEF BooksInv, StockMatchesAwards
    <3>3. CASE h \notin gifts \ G
      <4>1. AwardsOf(h)' = {}
        BY <2>1, <3>1, <3>3 DEF AwardsOf
      <4> QED  BY <1>1, <3>3, <4>1, FS_EmptySet
    <3> QED  BY <3>2, <3>3
  <2> QED  BY <2>2, <2>6, <2>7, <2>8, <2>9 DEF BooksInv
<1>2. ASSUME NEW g \in Gift, DeleteGift(g) PROVE BooksInv'
  <2>1. /\ awards' = Forget({}, {g}) /\ NoUndoOf({}, {g}) /\ gifts' = gifts \ {g}
        /\ total' = [total EXCEPT ![g] = 0] /\ remaining' = [remaining EXCEPT ![g] = 0]
        /\ op' = op /\ did' = did
    BY <1>2 DEF DeleteGift
  <2> QED  BY <1>0, <1>1, <2>1
<1>3. ASSUME NEW g \in Gift, NEW n \in 1..MaxTotal, CreateGift(g, n) PROVE BooksInv'
  <2>1. /\ g \notin gifts /\ gifts' = gifts \cup {g} /\ awards' = awards
        /\ total' = [total EXCEPT ![g] = n] /\ remaining' = [remaining EXCEPT ![g] = n]
        /\ op' = op /\ did' = did
    BY <1>3 DEF CreateGift, log
  <2>2. Forget({}, {}) = awards
    BY <1>0 DEF Forget, AwardEntry
  <2>3. NoUndoOf({}, {}) /\ n \in Nat
    BY SpinAssumption DEF NoUndoOf
  <2> QED  BY <1>0, <1>1, <2>1, <2>2, <2>3
<1>4. ASSUME NEW G \in SUBSET Gift, NEW n \in 1..MaxTotal, ReplaceGifts(G, n) PROVE BooksInv'
  <2>1. /\ G \cap gifts = {} /\ awards' = Forget({}, gifts) /\ NoUndoOf({}, gifts) /\ gifts' = G
        /\ total' = [g \in Gift |-> IF g \in G THEN n ELSE 0] /\ remaining' = total'
        /\ op' = op /\ did' = did
    BY <1>4 DEF ReplaceGifts
  <2>2. n \in Nat
    BY SpinAssumption
  <2> QED  BY <1>0, <1>1, <2>1, <2>2
<1>5. ASSUME ResetGifts PROVE BooksInv'
  <2>1. /\ UNCHANGED <<gifts, total, awards, op>> /\ remaining' = total /\ "reset" \in did'
        /\ did \subseteq did'
    BY <1>5 DEF ResetGifts, Note, log
  <2>2. \A g \in gifts : remaining'[g] <= total'[g]
    BY <1>0, <2>1
  <2> QED
    BY <2>1, <2>2 DEF BooksInv, HistoryOfGifts, UndoRows, UndoTotals, UndoReads, Balanced,
                      StockWithinTotal, StockMatchesAwards, Undoing
<1>6. ASSUME ClearAwards PROVE BooksInv'
  <2>1. /\ UNCHANGED <<gifts, total, remaining, op>> /\ "clear" \in did' /\ did \subseteq did'
        /\ \A t \in Tab : ~ Undoing(t)
        /\ \A a \in AwardRow : awards'[a] = NoAward
    BY <1>6 DEF ClearAwards, Note, stock
  <2> QED
    BY <2>1 DEF BooksInv, HistoryOfGifts, UndoRows, UndoTotals, UndoReads, Balanced,
                StockWithinTotal, StockMatchesAwards, Undoing, NoAward
<1> QED  BY <1>2, <1>3, <1>4, <1>5, <1>6 DEF GiftStep

LEMMA RemoveKeepsBooks ==
  ASSUME SpinTyped, BooksInv, NEW E \in SUBSET Entry, NEW created, Remove(E, created)
  PROVE  BooksInv'
<1>1. /\ UNCHANGED <<gifts, total, remaining, op, did>> /\ awards' = Forget(E, {})
      /\ \A t \in Tab : Undoing(t) => op[t].entry \notin E
  BY DEF Remove, stock, NoUndoOf
<1>2. \A a \in AwardRow :
        /\ awards'[a] = [to |-> IF awards[a].to \in E THEN None ELSE awards[a].to,
                         gift |-> awards[a].gift]
        /\ awards[a] = [to |-> awards[a].to, gift |-> awards[a].gift]
  BY <1>1 DEF Forget, SpinTyped, SpinTypeOK, AwardEntry
<1>7. \A a \in AwardRow : awards'[a].gift = awards[a].gift
  BY <1>1 DEF Forget
<1>3. HistoryOfGifts'
  BY <1>1, <1>7 DEF BooksInv, HistoryOfGifts
<1>4. UndoRows'
  <2> SUFFICES ASSUME NEW t \in Tab, Undoing(t)
               PROVE  awards'[op[t].row] = awards[op[t].row]
    BY <1>1 DEF BooksInv, UndoRows, Undoing
  <2>1. op[t].row \in AwardRow /\ awards[op[t].row] = [to |-> op[t].entry, gift |-> op[t].gift]
    BY DEF BooksInv, UndoRows
  <2>2. awards[op[t].row].to = op[t].entry
    BY <2>1
  <2> QED  BY <1>1, <1>2, <2>1, <2>2
<1>5. UndoTotals' /\ UndoReads' /\ StockWithinTotal'
  BY <1>1 DEF BooksInv, UndoTotals, UndoReads, Balanced, StockWithinTotal, Undoing
<1>6. StockMatchesAwards'
  <2>1. \A h : AwardsOf(h)' = AwardsOf(h)
    BY <1>7 DEF AwardsOf
  <2> QED  BY <1>1, <2>1 DEF BooksInv, StockMatchesAwards
<1> QED  BY <1>3, <1>4, <1>5, <1>6 DEF BooksInv

LEMMA InitBooks == ASSUME SpinInit PROVE BooksInv
<1>1. \A g : AwardsOf(g) = {} \/ g = None
  BY DEF SpinInit, AwardsOf, NoAward
<1>2. \A t \in Tab : ~ Undoing(t)
  BY DEF SpinInit, Undoing, NoOp
<1>3. total \in [Gift -> Nat] /\ remaining = total /\ gifts \subseteq Gift
  BY SpinAssumption DEF SpinInit
<1>4. StockMatchesAwards
  BY <1>1, <1>3, FS_EmptySet, SpinAssumption DEF StockMatchesAwards
<1>5. HistoryOfGifts
  BY DEF SpinInit, HistoryOfGifts, NoAward
<1> QED
  BY <1>2, <1>3, <1>4, <1>5 DEF BooksInv, UndoRows, UndoTotals, UndoReads, StockWithinTotal

(* The books: what the history says of a gift and what an undo carries in  *)
(* its request account for the stock.                                      *)
THEOREM BooksKept == SpinSpec => []BooksInv
<1>1. ASSUME SpinTyped, BooksInv, [SpinNext]_spinVars PROVE BooksInv'
  BY <1>1, BookSteps, NotesStay, QuietKeepsBooks, AwardKeepsBooks, EditKeepsBooks, UndoBegins,
     UndoKeepsBooks, GiftsKeepBooks, RemoveKeepsBooks
<1> QED  BY <1>1, InitBooks, TypesHold, PTL DEF SpinSpec

(* No interleaving of awards, edits, resets and undos puts more of a gift  *)
(* in stock than there is, unless an undo overlaps an edit of its gift.    *)
THEOREM StockWithin == SpinSpec => []StockWithinTotal
  BY BooksKept, PTL DEF BooksInv

(* What has left the stock is in the history, until somebody edits, resets *)
(* or clears either, or the stock an undo has read changes before it writes. *)
THEOREM StockMatches == SpinSpec => []StockMatchesAwards
  BY BooksKept, PTL DEF BooksInv
=============================================================================
