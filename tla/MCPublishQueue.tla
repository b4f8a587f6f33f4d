--------------------------- MODULE MCPublishQueue ---------------------------
(* Small instances of PublishQueue for TLC. *)
EXTENDS PublishQueue, TLC

CONSTANTS p1, p2, p3, page1, page2, facebook, FacebookLimit

\* p1 and p2 go to the same account, p3 to another one of the same platform.
MCAccountOf == [p \in Post |-> IF p \in {p1, p2} THEN page1 ELSE page2]

MCPlatformOf == [p \in Post |-> facebook]

MCPlatformConcurrency == facebook :> FacebookLimit

MCBackoff == [attempt \in 1..MaxRetries |-> attempt]

Once(kinds) == [k \in FaultKind |-> IF k \in kinds THEN 1 ELSE 0]

StepTwoFails     == Once({"complete"})
WritesFail       == Once({"complete", "settle"})
ProcessesLost    == Once({"crash", "save", "beat"})
ProcessTrouble   == Once({"claim", "crash", "answer"})

SlotSymmetry == Permutations(Slot)

WorkerSymmetry == Permutations(Worker)
=============================================================================
