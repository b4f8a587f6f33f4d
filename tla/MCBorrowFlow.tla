---------------------------- MODULE MCBorrowFlow ----------------------------
(* Small instances of BorrowFlow for TLC. *)
EXTENDS BorrowFlow, TLC

CONSTANTS r1, r2, u1, u2, user, leader, chief

OwnedByUser == [r \in Request |-> user]

ForWork == [r \in Request |-> "WORK"]
FirstForMyself == [r \in Request |-> IF r = r1 THEN "PERSONAL" ELSE "WORK"]

\* r1 and r2 one after the other, with no time between them.
FirstFrom == [r \in Request |-> IF r = r1 THEN 0 ELSE 1]
FirstTo == [r \in Request |-> IF r = r1 THEN 1 ELSE 2]

\* One model, u1 and u2 are units of it; r1 wants both, r2 one of them.
OneModel == [u \in Unit |-> 1]
BothAndOne == [r \in Request |-> [m \in Model |-> IF r = r1 THEN 2 ELSE 1]]

\* Two models with one unit each; both requests want both.
TwoModels == [u \in Unit |-> IF u = u1 THEN 1 ELSE 2]
OneOfEach == [r \in Request |-> [m \in Model |-> 1]]

NoBuffer == [m \in Model |-> 0]
BufferOfOne == [m \in Model |-> 1]

\* All the overlaps that a property excludes; other handlers may overlap.
Conflicts ==
  {{"handover", "cancel"}, {"handover", "assign"}, {"assign", "cancel"},
   {"handover"}, {"return"}}

TxnSymmetry == Permutations(Txn)
=============================================================================
