---------------------------- MODULE MCRoleLeader ----------------------------
(* Model checking of RoleLeader: one primary and one standby.                *)
EXTENDS RoleLeader, TLC

CONSTANTS p, s, r, q, PrimaryBoots, StandbyBoots

MCBoots == (p :> PrimaryBoots) @@ (s :> StandbyBoots)

\* Either the primary comes back as another boot, or the standby competes.
\* The primary may come with another release than the standby's, while no
\* operator closes the role.
Explored ==
  /\ cand[p].boot > 1 => cand[s].boot = 0
  /\ cand[s].release = r
  /\ lease.epoch = 0 => lease.release = r
  /\ q \in {lease.release, cand[p].release} => cand[p].boot <= 1 /\ Open

\* The elections of earlier boots are not read when no other boot comes.
View == <<fence, mode, lease, quarantine, token, seen, cand, late,
          IF cand[s].boot > 0 THEN NoBoots ELSE boots>>
=============================================================================
