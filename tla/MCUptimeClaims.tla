--------------------------- MODULE MCUptimeClaims ---------------------------
(* Model checking of UptimeClaims: two products of one site, two home        *)
(* instances and a probe.  Three kinds of behaviours are looked at, each     *)
(* wide where its question is and narrow elsewhere.                          *)
EXTENDS UptimeClaims, TLC

CONSTANTS p1, p2, site, m3, mini, osaka

MCOriginOf == [p \in Products |-> site]
Symmetry == Permutations(Products)

\* A token matters only by being, or no longer being, the one of the row.
View ==
  <<control, version, [p \in Products |-> [claim[p] EXCEPT !.token = claim[p].token = NoToken]],
    health, breaker, job, picked, seen,
    [o \in Owners |-> [p \in Products |->
      IF ticket[o][p] = NoTicket THEN "none" ELSE <<ticket[o][p].token = claim[p].token, ticket[o][p].result>>]]>>

Untouched(p) == claim[p].token = NoToken /\ version[p] = 1 /\ claim[p].due /\ health[p].failures = 0
                /\ \A o \in Owners : p \notin picked[o].rows /\ ticket[o][p] = NoTicket
OneProduct == \E p \in Products : Untouched(p)
OneHome ==
  /\ job = m3 /\ breaker[mini] = Closed /\ picked[mini] = NoClaim
  /\ \A p \in Products : ticket[mini][p] = NoTicket /\ claim[p].owner # mini
Unedited == control.epoch = 1 /\ \A p \in Products : version[p] = 1 /\ seen[p] <= 1
Seen(results) == \A o \in Owners, p \in Products : ticket[o][p].result \in results /\ claim[p].result \in results

\* Both products, whose checks fail.
Sites == OneHome /\ Unedited /\ Seen({"none", "failed"})
\* One product, which is edited or whose policy changes.
Edits == OneHome /\ OneProduct /\ (control.epoch = 1 \/ \A p \in Products : version[p] = 1)
\* One product, and homes that take turns at the job.
Turns == OneProduct /\ Unedited /\ Seen({"none", "failed"})
Explored == Sites \/ Edits \/ Turns
=============================================================================
