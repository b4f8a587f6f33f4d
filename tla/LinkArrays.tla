----------------------------- MODULE LinkArrays -----------------------------
(***************************************************************************)
(* The array of published links of one task, a set of links, and what each *)
(* kind of writer makes of it: the pure functions that PublishedLinks and  *)
(* its abstract specification LinkTable have in common.                    *)
(***************************************************************************)
CONSTANTS
  Url, LinkId,
  Take,      \* answers an API may give for one url
  NoStats

Stats == [of : Url, take : Take]
Link  == [id : LinkId, url : Url, stats : Stats \cup {NoStats}]

\* Mutant: figures are recognised by the link's id alone.
BadKey(l) == l.id

\* publishedLinkKey()
Key(l) == <<l.id, l.url>>

HasKey(S, l) == \E k \in S : Key(k) = Key(l)
HasUrl(S, u) == \E l \in S : l.url = u

StatsIn(S, l) ==
  IF HasKey(S, l) THEN (CHOOSE k \in S : Key(k) = Key(l)).stats ELSE NoStats

Bare(l) == [l EXCEPT !.stats = NoStats]

\* Mutant: the figures fetched for the form win over newer ones in the row.
BadSaved(form, fetched, cur) ==
  {[l EXCEPT !.stats = IF HasKey(fetched, l) THEN StatsIn(fetched, l) ELSE StatsIn(cur, l)]
     : l \in form}

\* The form's list; a link keeps the figures it has in the row, and only a
\* link without any takes the ones just fetched.
Saved(form, fetched, cur) ==
  {[l EXCEPT !.stats = IF StatsIn(cur, l) # NoStats THEN StatsIn(cur, l)
                       ELSE StatsIn(fetched, l)] : l \in form}

\* withFetchedStats(): a link removed or edited meanwhile matches no key.
WithFetched(cur, fetched) ==
  {[l EXCEPT !.stats = IF HasKey(fetched, l) THEN StatsIn(fetched, l) ELSE l.stats]
     : l \in cur}

\* What the writer c makes of the array cur (`mutate`).
Mutated(c, cur) ==
  CASE c.kind = "save"    -> Saved(c.form, c.fetched, cur)
    [] c.kind = "refresh" -> WithFetched(cur, c.fetched)
    [] c.kind = "attach"  -> cur \cup {c.entry}

\* Mutant: an automatic link is attached whatever the row holds by now.
BadNothingToWrite(c, cur) ==
  c.kind = "refresh" /\ \A l \in cur : ~ HasKey(c.fetched, l)

\* `mutate` returns null.
NothingToWrite(c, cur) ==
  \/ c.kind = "refresh" /\ \A l \in cur : ~ HasKey(c.fetched, l)
  \/ c.kind = "attach" /\ HasUrl(cur, c.entry.url)

\* No change is asked for.
NoChange == [kind |-> "none"]
=============================================================================
