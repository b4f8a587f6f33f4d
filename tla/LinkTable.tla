------------------------------ MODULE LinkTable -----------------------------
(***************************************************************************)
(* What mutateTaskPublishedLinks() promises its callers, without saying    *)
(* how: a change that is asked for takes effect in one step, on the links  *)
(* as they are at that step, or not at all.  No reads, no timestamps, no   *)
(* attempts.  PublishedLinks implements it.                                *)
(***************************************************************************)
EXTENDS LinkArrays

CONSTANTS Task, Request

VARIABLES
  links,   \* the array of every task
  gone,    \* the tasks that were deleted
  asked    \* the change every request has asked for

vars == <<links, gone, asked>>

\* The editor's form with the figures fetched for it, figures for links of the
\* array, or one more link.
Change ==
  [kind : {"save"}, task : Task, form : SUBSET Link, fetched : SUBSET Link]
    \cup [kind : {"refresh"}, task : Task, fetched : SUBSET Link]
    \cup [kind : {"attach"}, task : Task, entry : Link]

Ask(r) ==
  /\ asked[r] = NoChange
  /\ asked'[r] \in Change
  /\ asked' = [asked EXCEPT ![r] = asked'[r]]
  /\ UNCHANGED <<links, gone>>

\* It takes effect, but for an automatic change that has become pointless.
Apply(r) ==
  LET c == asked[r] IN
  /\ c # NoChange
  /\ c.task \notin gone
  /\ ~ NothingToWrite(c, links[c.task])
  /\ links' = [links EXCEPT ![c.task] = Mutated(c, links[c.task])]
  /\ asked' = [asked EXCEPT ![r] = NoChange]
  /\ UNCHANGED gone

\* It is given up without a trace.
GiveUp(r) ==
  /\ asked[r] # NoChange
  /\ asked' = [asked EXCEPT ![r] = NoChange]
  /\ UNCHANGED <<links, gone>>

Delete(t) ==
  /\ t \notin gone
  /\ gone' = gone \cup {t}
  /\ links' = [links EXCEPT ![t] = {}]
  /\ UNCHANGED asked

Init ==
  /\ links = [t \in Task |-> {}]
  /\ gone = {}
  /\ asked = [r \in Request |-> NoChange]

Next ==
  \/ \E r \in Request : Ask(r) \/ Apply(r) \/ GiveUp(r)
  \/ \E t \in Task : Delete(t)

Spec == Init /\ [][Next]_vars
=============================================================================
