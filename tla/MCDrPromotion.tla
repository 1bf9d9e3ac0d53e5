--------------------------- MODULE MCDrPromotion ---------------------------
(* DrPromotion with three databases, two workers the plans name and one    *)
(* they forget.  Explored keeps to three kinds of behaviours.              *)
EXTENDS DrPromotion, TLC

CONSTANTS w1, w2, w3

MCWorkers == {w1, w2, w3}
MCDeclared == {w1, w2}
Symmetric == Permutations(MCDeclared)

Used == {d \in DBs : db[d].made \/ db[d].gone}
Idle(w) == worker[w].state = "off"
NoJobs == \A d \in DBs : db[d].lease = Fresh.lease
NoCalls == \A w \in MCWorkers : worker[w].call = "none"
NoRows == \A d \in DBs : db[d].rows = {}
Whole == \A d \in DBs : db[d].reachable
Unfenced == \A d \in DBs \ {First} : ~(db[d].fence = "operator" /\ db[d].home = d)
Shut == \A d \in DBs : db[d].promo.state # "none" => db[d].open = {}
\* The clock stops when a worker stopped at once is drained.
Wait == Deadline + Skew
Drain == now <= Wait /\ \A d \in DBs : db[d].promo.window \in {Never, Wait}

\* Stops are not reported too late, which only lengthens the wait.
Early == \A d \in DBs, w \in MCDeclared : db[d].promo.stop[w] <= worker[w].stopped

\* Promotions one after the other, a forgotten worker's jobs among them.
Sites ==
  /\ Idle(w1) \/ Idle(w2)
  /\ NoCalls /\ NoRows /\ Shut /\ Drain
  /\ \A w \in MCWorkers : worker[w].stopped = 0
  /\ \A d \in DBs : db[d].wrote <= 0 /\ \A w \in MCWorkers : db[d].promo.stop[w] <= 0
  /\ now \in 1..(Wait - 1) => Underway

\* One promotion and the calls of two workers.
Calls == Whole /\ Unfenced /\ "Q" \notin Used /\ Idle(w3) /\ NoJobs /\ Drain /\ Early

\* One promotion and the results stored before it.
Results == Whole /\ "Q" \notin Used /\ Idle(w3) /\ NoCalls /\ NoRows /\ Shut

Explored == Sites \/ Calls \/ Results
=============================================================================
