----------------------------- MODULE MCDailyPlans -----------------------------
(* A small instance of DailyPlans: one video to suggest. *)
EXTENDS DailyPlans, TLC

PlansSymmetry == Permutations(Request) \cup Permutations(Run)
=============================================================================
