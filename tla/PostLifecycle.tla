---------------------------- MODULE PostLifecycle ----------------------------
(***************************************************************************)
(* What scheduled publishing promises of every post, without saying how:   *)
(* no workers, claims, retries or timeouts.  PublishQueue implements it    *)
(* where nothing dies between a publication and its record.                *)
(***************************************************************************)
CONSTANT Post

VARIABLES
  shown,     \* the status the user sees
  live,      \* how often the post went out to the platform
  recorded   \* its link on the platform is known

vars == <<shown, live, recorded>>

Show(p, s) == shown' = [shown EXCEPT ![p] = s]

Submit(p) ==
  /\ shown[p] = "ABSENT"
  /\ Show(p, "PENDING")
  /\ UNCHANGED <<live, recorded>>

\* Only a post the user still waits for goes out, and only once.
GoLive(p) ==
  /\ shown[p] = "PENDING"
  /\ live[p] = 0
  /\ live' = [live EXCEPT ![p] = 1]
  /\ UNCHANGED <<shown, recorded>>

Record(p) ==
  /\ live[p] = 1
  /\ ~ recorded[p]
  /\ recorded' = [recorded EXCEPT ![p] = TRUE]
  /\ UNCHANGED <<shown, live>>

\* A post shown as done is on the platform and its link is known.
Finish(p) ==
  /\ shown[p] = "PENDING"
  /\ recorded[p]
  /\ Show(p, "COMPLETED")
  /\ UNCHANGED <<live, recorded>>

\* A post is given up only while it is not out, or when it is out and known.
GiveUp(p) ==
  /\ shown[p] = "PENDING"
  /\ live[p] = 1 => recorded[p]
  /\ Show(p, "FAILED")
  /\ UNCHANGED <<live, recorded>>

TryAgain(p) ==
  /\ shown[p] = "FAILED"
  /\ Show(p, "PENDING")
  /\ UNCHANGED <<live, recorded>>

Init ==
  /\ shown = [p \in Post |-> "ABSENT"]
  /\ live = [p \in Post |-> 0]
  /\ recorded = [p \in Post |-> FALSE]

Next ==
  \E p \in Post :
    \/ Submit(p)
    \/ GoLive(p)
    \/ Record(p)
    \/ Finish(p)
    \/ GiveUp(p)
    \/ TryAgain(p)

Spec == Init /\ [][Next]_vars
=============================================================================
