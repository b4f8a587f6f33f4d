-------------------------- MODULE MCPublishedLinks --------------------------
(* A small instance of PublishedLinks: the first two urls lead to one video. *)
EXTENDS PublishedLinks, TLC

CONSTANTS u1, u2, u3

MCVideoOf == [u \in Url |-> IF u \in {u1, u2} THEN "v1" ELSE "v2"]

LinksSymmetry ==
  Permutations(Request) \cup Permutations(LinkId) \cup Permutations({u1, u2}) \cup Permutations(Task)
=============================================================================
