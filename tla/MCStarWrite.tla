---------------------------- MODULE MCStarWrite ----------------------------
(* StarWrite with two tabs, two operations and two repositories.           *)
EXTENDS StarWrite, TLC

CONSTANTS t1, t2, o1, o2

MCTabs == {t1, t2}
MCOps == {o1, o2}
Symmetric == Permutations(MCTabs) \cup Permutations(MCOps)

\* Two operations on A alone, or one on either repository: the counter that
\* the two share needs no second write, a race of writes no second repository.
OnlyA ==
  /\ row["B"] = NoRow /\ star["B"] = "starred"
  /\ \A t \in Tabs : tab[t].repo = "A"
  /\ \A o \in Ops : click[o].repo = "A"
OneOperation == NextRevision <= 4 /\ \E o \in Ops : click[o] = NoClick /\ \A t \in Tabs : tab[t].op # o
Explored == OnlyA \/ OneOperation
=============================================================================
