----------------------------- MODULE MCJobBatch -----------------------------
(* Two instances of JobBatch: the source jobs, which take the most rows, and *)
(* the translation jobs, which run alone in the versioned batch.             *)
EXTENDS JobBatch

CONSTANTS t1, t2

MCTxs == {t1, t2}

\* A token matters only by being, or no longer being, the one in the row, and
\* the two transactions are alike.
TxView(t) ==
  LET u == tx[t] IN
  [kind |-> u.kind, role |-> u.role, job |-> u.job, held |-> u.held, seen |-> u.seen, busy |-> u.busy,
   roleToken |-> u.roleToken = role[u.role].token, jobToken |-> u.jobToken = job[u.job].token,
   sourceToken |-> u.sourceToken = source.token]
View ==
  <<batch, [r \in Roles |-> [role[r] EXCEPT !.token = role[r].token = None]],
    [j \in Jobs |-> [job[j] EXCEPT !.token = job[j].token = None]],
    [source EXCEPT !.token = source.token = None, !.jobToken = source.jobToken = job[source.job].token],
    {TxView(t) : t \in Txs}>>

\* product-evidence-refresh, product-tagline-ko and product-translate: the last
\* two move from the role text to the role translation.
MCPlace == [j \in Jobs |-> CASE j = "evidence" -> 1 [] j = "tagline-ko" -> 2 [] j = "translate" -> 3]
MCRolePlace == [r \in Roles |-> CASE r = "crawler" -> 1 [] r = "text" -> 2 [] r = "translation" -> 3]
MCLegacy == [j \in Jobs |-> IF j = "evidence" THEN "crawler" ELSE "text"]
MCNew == [j \in Jobs |-> IF j = "evidence" THEN "crawler" ELSE "translation"]

\* The source job and the translation jobs share the batch row, the scheduler
\* and the transition and nothing else.  A behaviour that is looked at leases
\* those of one side only, and on the side of the texts in fewer kinds of
\* transactions.
MCKinds == AllKinds
Texts == {"tagline-ko", "translate"}
OnlyEvidence ==
  /\ \A r \in {"text", "translation"} : role[r] = NoRole
  /\ \A j \in Texts : job[j] = Free
  /\ \A t \in Txs : tx[t].kind # "none" =>
       /\ tx[t].role = "crawler" \/ tx[t].role = NoTx.role
       /\ tx[t].job = "evidence" \/ tx[t].job = NoTx.job
       /\ tx[t].kind # "due"
OnlyTexts ==
  /\ role["crawler"] = NoRole /\ job["evidence"] = Free /\ source = NoSource
  /\ \A t \in Txs : tx[t].kind \in {"none", "elect", "claim", "beat", "due", "drain", "complete"}
  /\ \A t \in Txs : tx[t].kind = "beat" => tx[t].job = "translate" /\ batch.mode = "versioned"
OneSide == OnlyEvidence \/ OnlyTexts
=============================================================================
