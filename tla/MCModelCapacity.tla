-------------------------- MODULE MCModelCapacity --------------------------
(* ModelCapacity with two or three requests in three settings.             *)
EXTENDS ModelCapacity, TLC

CONSTANTS r1, r2, r3

Engine == [limit |-> 1, cap |-> 1, reserve |-> 0, rank |-> (r1 :> 2) @@ (r2 :> 2) @@ (r3 :> 2),
           members |-> (r1 :> {"x"}) @@ (r2 :> {"x"}) @@ (r3 :> {"z"}),
           steps |-> {}, waiters |-> {}, drills |-> {}, revisions |-> 1]

\* Two attempts at one step, and a request that waits for its slot.
Attempts == [Engine EXCEPT !.steps = {r1, r2}, !.waiters = {r3}]

\* Two requests of two roles under an operator who drains, fences, renames
\* the engine's group and appends routes.
Policies == [Engine EXCEPT !.rank = r1 :> 2 @@ r2 :> 2 @@ r3 :> 1,
                           !.drills = {"draining", "open", "fence"}, !.revisions = 3]

\* An engine of two slots, one in reserve; a batch of its own role shares a
\* member with another role's request.
Shares == [Engine EXCEPT !.limit = 2, !.reserve = 1, !.rank = r1 :> 2 @@ r2 :> 2 @@ r3 :> 1,
                         !.members = r1 :> {"x"} @@ r2 :> {"y"} @@ r3 :> {"y", "z"}]

MCSettings == {Attempts, Policies, Shares}

\* The operator's requests are two; he fences before the last policy.
Explored ==
  /\ revision = 1 => group = "g"
  /\ setting = Policies => rows[r2] = Absent /\ caller[r2] = "idle"
  /\ fenced => revision < MaxRevision
=============================================================================
