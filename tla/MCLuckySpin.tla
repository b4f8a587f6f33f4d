---------------------------- MODULE MCLuckySpin ----------------------------
(* A small instance of LuckySpin: a wheel with members only. *)
EXTENDS LuckySpin, TLC

MCKindOf == [e \in Entry |-> "member"]

SpinSymmetry == Permutations(Tab) \cup Permutations(AwardRow)
=============================================================================
