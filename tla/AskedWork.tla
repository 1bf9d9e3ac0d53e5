----------------------------- MODULE AskedWork -----------------------------
(***************************************************************************)
(* What a queue of this program promises to those who ask it for work: the *)
(* jobs table to requestJob (JobRunner), the crawl frontier to requeue and *)
(* to the review stages (FetchFrontier).                                   *)
(*                                                                         *)
(* An ask that comes while somebody works is not answered by that work,    *)
(* which may have read its input before; only one who began after the      *)
(* newest ask answers, and until then the queue goes on offering the work. *)
(* Asks that come together are answered together.  Workers may fail, stop  *)
(* or be cut off at any time; that answers nothing and asks for nothing.   *)
(***************************************************************************)
CONSTANT Workers

VARIABLES
  pending,   \* the queue offers the work
  working,   \* those who have begun and not ended
  informed   \* those of them who began after the newest ask

vars == <<pending, working, informed>>

Init == pending \in BOOLEAN /\ working = {} /\ informed = {}

\* Somebody asks, perhaps a worker at its end.
Ask ==
  /\ pending' /\ informed' = {}
  /\ working' \subseteq working

\* A worker takes what is asked for, or begins unasked.
Begin(w) ==
  /\ w \notin working
  /\ pending'
  /\ working' = working \cup {w}
  /\ informed' = informed \cup {w}

\* The only way to satisfy those who asked.
Answer(w) ==
  /\ w \in informed
  /\ ~pending'
  /\ working' = working \ {w}
  /\ informed' = informed \ {w}

\* Workers end without an answer.
Setback ==
  /\ pending' = pending
  /\ working' \subseteq working
  /\ informed' = informed \cap working'

Next ==
  \/ Ask \/ Setback
  \/ \E w \in Workers : Begin(w) \/ Answer(w)

Spec == Init /\ [][Next]_vars
=============================================================================
