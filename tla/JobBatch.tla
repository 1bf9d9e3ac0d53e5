------------------------------ MODULE JobBatch ------------------------------
(***************************************************************************)
(* The batch of lib/jobs/batch-repository.ts: which set of jobs and roles  *)
(* the fleet runs (legacy or versioned), and the transition between them,  *)
(* which drains, waits for every role, job and source lease to end, and    *)
(* then raises the batch epoch.                                            *)
(*                                                                         *)
(* What makes it hard are row locks.  A transaction takes its locks one by *)
(* one, in the order of its code, keeps them to its end, and may wait in   *)
(* between; the transition checks the leases only when it has every lock.  *)
(* Each transaction is a start, which fixes now() and what the caller      *)
(* brings along, one step per lock, and a commit.                          *)
(*                                                                         *)
(* A lease is live until Expire.  A lease read with clock_timestamp() is   *)
(* read at the commit, one read with now() is read at the start.           *)
(***************************************************************************)
EXTENDS Integers, FiniteSets, Functions

CONSTANTS
  Jobs,         \* job names
  Place,        \* of each job in JOB_CATALOG, whose order is also that of names
  Roles,        \* role names
  RolePlace,    \* of each role in the order of names
  LegacyRole,   \* role of each job in the legacy batch
  NewRole,      \* role of each job in the versioned batch
  NewJobs,      \* jobs with batchVersion 1: in the versioned batch only
  SourceJobs,   \* the jobs that collect sources
  Exclusive,    \* roles that run one job at a time (translation)
  Kinds,        \* bound: the transactions of this instance
  Txs,          \* transactions at one time
  MaxToken,     \* bound: lease tokens told apart in one table
  MaxEpoch      \* bound: batch epochs

ASSUME CatalogAssumption ==
  /\ IsFiniteSet(Jobs) /\ Jobs # {} /\ Place \in Injection(Jobs, 1..Cardinality(Jobs))
  /\ IsFiniteSet(Roles) /\ Roles # {} /\ RolePlace \in Injection(Roles, 1..Cardinality(Roles))
ASSUME RolesAssumption ==
  /\ LegacyRole \in [Jobs -> Roles] /\ NewRole \in [Jobs -> Roles]
  /\ NewJobs \subseteq Jobs /\ SourceJobs \subseteq Jobs /\ Exclusive \subseteq Roles
ASSUME BoundsAssumption == {MaxToken, MaxEpoch} \subseteq Nat \ {0}

VARIABLES
  batch,   \* job_batch_control
  role,    \* role_leases
  job,     \* jobs: the lease columns
  source,  \* evidence_source_claims: one source
  tx       \* the open transactions

batchVars == <<batch, role, job, source, tx>>

-----------------------------------------------------------------------------
(* Data *)

Modes == {"legacy", "versioned"}
None == 0
Token == 0..MaxToken

\* born, a history variable, is the batch epoch in which the lease was given
\* out; a lease that a statement begun in time brought back is revived.
RoleLease == [token : Token, live : BOOLEAN, new : BOOLEAN, born : 1..MaxEpoch]
JobLease == [token : Token, live : BOOLEAN, born : 1..MaxEpoch, revived : BOOLEAN]
SourceLease == [token : Token, live : BOOLEAN, born : 1..MaxEpoch, job : Jobs, jobToken : Token]

AllKinds == {"elect", "renew", "release", "claim", "beat", "ack", "due",
             "claimSource", "renewSource", "abandon", "record", "drain", "complete"}
\* A row is known by its table and its place there.
Tables == {"job_batch_control", "role_leases", "evidence_source_control", "evidence_source_claims", "jobs"}
Row == [table : Tables, place : Nat]
Lock == [row : Row, alone : BOOLEAN]

\* What a transaction is about, the tokens its caller brings, whether its lease
\* was live at now(), whether its admission found the role busy, and the locks
\* it holds.
Tx == [kind : AllKinds \cup {"none"}, role : Roles, job : Jobs, roleToken : Token, jobToken : Token,
       sourceToken : Token, seen : BOOLEAN, busy : BOOLEAN, held : SUBSET Lock]
NoTx == [kind |-> "none", role |-> CHOOSE r \in Roles : TRUE, job |-> CHOOSE j \in Jobs : TRUE,
         roleToken |-> None, jobToken |-> None, sourceToken |-> None, seen |-> FALSE, busy |-> FALSE,
         held |-> {}]

NoRole == [token |-> None, live |-> FALSE, new |-> FALSE, born |-> 1]
Free == [token |-> None, live |-> FALSE, born |-> 1, revived |-> FALSE]
NoSource == [token |-> None, live |-> FALSE, born |-> 1, job |-> CHOOSE j \in Jobs : TRUE, jobToken |-> None]

BatchInit ==
  /\ batch = [mode |-> "legacy", from |-> "legacy", epoch |-> 1]
  /\ role = [r \in Roles |-> NoRole]
  /\ job = [j \in Jobs |-> Free]
  /\ source = NoSource
  /\ tx = [t \in Txs |-> NoTx]

RoleOf(j, mode) == IF mode = "legacy" THEN LegacyRole[j] ELSE NewRole[j]
\* The jobs a role runs.
JobsOf(r, mode) == {j \in Jobs : RoleOf(j, mode) = r /\ (mode = "legacy" => j \notin NewJobs)}

\* randomUUID: a token that no row of its table and no open transaction has.
Fresh(used) == LET free == (1..MaxToken) \ used IN IF free = {} THEN {} ELSE {CHOOSE n \in free : \A m \in free : n <= m}
FreshRole(r) == Fresh({role[r].token} \cup {tx[t].roleToken : t \in Txs})
FreshJob(j) == Fresh({job[j].token, source.jobToken} \cup {tx[t].jobToken : t \in Txs})
FreshSource == Fresh({source.token} \cup {tx[t].sourceToken : t \in Txs})

-----------------------------------------------------------------------------
(* Row locks *)

BatchRow == [table |-> "job_batch_control", place |-> 0]
ControlRow == [table |-> "evidence_source_control", place |-> 0]
SourceRow == [table |-> "evidence_source_claims", place |-> 0]
RoleRow(r) == [table |-> "role_leases", place |-> RolePlace[r]]
JobRow(j) == [table |-> "jobs", place |-> Place[j]]
Share(row) == [row |-> row, alone |-> FALSE]
Alone(row) == [row |-> row, alone |-> TRUE]
JobRows(js) == {Alone(JobRow(j)) : j \in js}
RoleRows == {Alone(RoleRow(r)) : r \in Roles}

\* Mutant: admissions of a versioned role are not serialized.
AdmissionShared(u) == {Share(RoleRow(u.role))}
\* assertJobBatchAdmission, then assertRoleLease: one at a time in the versioned batch.
Admission(u) == {IF batch.mode = "versioned" THEN Alone(RoleRow(u.role)) ELSE Share(RoleRow(u.role))}
\* A transaction that a draining batch refuses ends with the locks it has.
Go(locks) == IF batch.mode = "draining" THEN {} ELSE locks

\* requestDueJobs: one update per job of the batch, in catalogue order.
Scheduled == IF batch.mode = "versioned" THEN Jobs ELSE Jobs \ NewJobs

\* Mutant: the transition takes the source control after the roles and jobs.
TransitionWithControlLast == <<{Alone(BatchRow)}, RoleRows, JobRows(Jobs), {Alone(ControlRow)}>>
\* completeJobBatchTransitionIn: every row there is.
Transition == <<{Alone(BatchRow)}, {Alone(ControlRow)}, RoleRows, JobRows(Jobs)>>

\* The locks of a transaction, one stage after the other; within a stage they are
\* taken in the order of the rows.
Locks(u) ==
  CASE u.kind = "elect" ->
         <<{Share(BatchRow)}, Go({Alone(RoleRow(u.role))}),
           IF batch.mode = "legacy" THEN JobRows(JobsOf(u.role, "legacy")) ELSE {}>>
    [] u.kind = "renew"  -> <<{Share(BatchRow)}, {Alone(RoleRow(u.role))}>>
    [] u.kind = "release" ->
         <<{Share(BatchRow)}, {Alone(RoleRow(u.role))},
           IF role[u.role].new THEN {} ELSE JobRows(JobsOf(u.role, "legacy"))>>
    [] u.kind = "claim"  -> <<{Share(BatchRow)}, Go(Admission(u)), Go({Alone(JobRow(u.job))})>>
    [] u.kind \in {"beat", "ack"} -> <<{Alone(JobRow(u.job))}>>
    [] u.kind = "due"    -> <<{Share(BatchRow)}, JobRows(Scheduled)>>
    [] u.kind = "claimSource" ->
         <<{Share(BatchRow)}, Go(Admission(u)), Go({Alone(ControlRow)}), Go({Alone(SourceRow)}),
           Go({Alone(JobRow(u.job))})>>
    [] u.kind \in {"renewSource", "abandon"} ->
         <<{Share(ControlRow)}, {Alone(SourceRow)}, {Alone(JobRow(u.job))}>>
    [] u.kind = "record" -> <<{Alone(ControlRow)}, {Alone(SourceRow)}, JobRows(SourceJobs)>>
    [] u.kind = "drain"  -> <<{Alone(BatchRow)}>>
    [] u.kind = "complete" -> Transition
    [] u.kind = "none"   -> <<>>

HasAll(t) == \A n \in DOMAIN Locks(tx[t]) : Locks(tx[t])[n] \subseteq tx[t].held
\* The lock a transaction takes next, if there is one.
Wanted(t) ==
  LET stages == Locks(tx[t])
      left(n) == stages[n] \ tx[t].held
      now == {n \in DOMAIN stages : \A m \in 1..(n - 1) : left(m) = {}} IN
  UNION {{l \in left(n) : \A k \in left(n) : l.row.place <= k.row.place} : n \in now}
Blocks(held, wanted) == held.row = wanted.row /\ (held.alone \/ wanted.alone)
WaitsFor(t, u) == t # u /\ \E wanted \in Wanted(t), held \in tx[u].held : Blocks(held, wanted)

-----------------------------------------------------------------------------
(* Starts: what the caller brings, and now() *)

Start(t, kind, u) ==
  /\ kind \in Kinds /\ tx[t].kind = "none"
  /\ tx' = [tx EXCEPT ![t] = [u EXCEPT !.kind = kind]]
  /\ UNCHANGED <<batch, role, job, source>>

\* tryAcquireRole, by any candidate.
StartElect(t, r) == Start(t, "elect", [NoTx EXCEPT !.role = r, !.seen = role[r].live])
\* The holder renews or releases; he may have lost the role by then.
StartOwned(t, r) ==
  /\ role[r].token # None
  /\ \E kind \in {"renew", "release"} :
       Start(t, kind, [NoTx EXCEPT !.role = r, !.roleToken = role[r].token])
\* The jobs a holder runs are those of the batch his lease is from.
Works(r, j) == role[r].token # None /\ j \in JobsOf(r, IF role[r].new THEN "versioned" ELSE "legacy")
\* runJob: the claim, by the holder of the role.
StartClaim(t, j, r) ==
  /\ Works(r, j)
  /\ Start(t, "claim", [NoTx EXCEPT !.role = r, !.roleToken = role[r].token, !.job = j, !.seen = job[j].live])
\* runJob: the heartbeat and the ACK, with the job's token.
StartJob(t, j) ==
  /\ job[j].token # None
  /\ \E kind \in {"beat", "ack"} :
       Start(t, kind, [NoTx EXCEPT !.job = j, !.jobToken = job[j].token, !.seen = job[j].live])
StartDue(t) == Start(t, "due", NoTx)
\* claimCanonicalEvidenceSource, by a running source job.
StartClaimSource(t, j, r) ==
  /\ j \in SourceJobs /\ job[j].token # None
  /\ Works(r, j)
  /\ Start(t, "claimSource",
           [NoTx EXCEPT !.role = r, !.roleToken = role[r].token, !.job = j, !.jobToken = job[j].token])
\* renew, abandon and recordCanonicalEvidenceSource, with the source's token.
StartSource(t) ==
  /\ source.token # None
  /\ \E kind \in {"renewSource", "abandon", "record"} :
       Start(t, kind, [NoTx EXCEPT !.job = source.job, !.sourceToken = source.token, !.jobToken = source.jobToken])
StartOperator(t) == \E kind \in {"drain", "complete"} : Start(t, kind, NoTx)

\* An admission reads the other jobs of a translation role as soon as it has
\* the role, and locks none of them.
Busy(u) ==
  /\ u.kind \in {"claim", "claimSource"} /\ batch.mode = "versioned" /\ u.role \in Exclusive
  /\ \E j \in JobsOf(u.role, "versioned") \ {u.job} : job[j].live

\* The next lock, when nobody's lock is in its way.
TakeLock(t) ==
  /\ \A u \in Txs : ~WaitsFor(t, u)
  /\ \E l \in Wanted(t) :
       tx' = [tx EXCEPT ![t].held = @ \cup {l},
                        ![t].busy = IF l.row = RoleRow(tx[t].role) THEN Busy(tx[t]) ELSE @]
  /\ UNCHANGED <<batch, role, job, source>>

\* Refused, timed out, or the connection is gone: nothing is written.
Abort(t) ==
  /\ tx[t].kind # "none"
  /\ tx' = [tx EXCEPT ![t] = NoTx]
  /\ UNCHANGED <<batch, role, job, source>>

-----------------------------------------------------------------------------
(* Commits *)

Commits(t, kind) ==
  /\ tx[t].kind = kind /\ HasAll(t)
  /\ tx' = [tx EXCEPT ![t] = NoTx]

WithoutJobs(js) == [j \in Jobs |-> IF j \in js THEN Free ELSE job[j]]

\* Both elections; which candidate is ready, ranked first or allowed to take
\* over is a choice.  Only the legacy one revokes the jobs of the role.
Elect(t) ==
  LET r == tx[t].role IN
  /\ Commits(t, "elect")
  /\ batch.mode # "draining" /\ JobsOf(r, batch.mode) # {}
  /\ ~role[r].live
  /\ batch.mode = "legacy" => ~tx[t].seen
  /\ \E n \in FreshRole(r) :
       role' = [role EXCEPT ![r] = [token |-> n, live |-> TRUE, new |-> batch.mode = "versioned",
                                    born |-> batch.epoch]]
  /\ job' = IF batch.mode = "legacy" THEN WithoutJobs(JobsOf(r, "legacy")) ELSE job
  /\ UNCHANGED <<batch, source>>

\* The batch a lease was given out in, still running or draining.
SameBatch(r) ==
  LET mode == IF role[r].new THEN "versioned" ELSE "legacy" IN
  /\ batch.mode = mode \/ (batch.mode = "draining" /\ batch.from = mode)
  /\ role[r].new => role[r].born = batch.epoch

Renew(t) ==
  LET r == tx[t].role IN
  /\ Commits(t, "renew")
  /\ SameBatch(r) /\ role[r].token = tx[t].roleToken /\ role[r].live
  /\ role' = [role EXCEPT ![r].live = TRUE]
  /\ UNCHANGED <<batch, job, source>>

AnyLive(js) == \E j \in js : job[j].live

\* releaseRole and releaseBatchRole.
Release(t) ==
  LET r == tx[t].role IN
  /\ Commits(t, "release")
  /\ role[r].token = tx[t].roleToken
  /\ IF role[r].new
     THEN /\ role[r].born = batch.epoch /\ ~AnyLive(JobsOf(r, "versioned"))
          /\ UNCHANGED job
     ELSE /\ batch.mode # "versioned"
          /\ batch.mode = "draining" => ~AnyLive(JobsOf(r, "legacy"))
          /\ job' = WithoutJobs(JobsOf(r, "legacy"))
  /\ role' = [role EXCEPT ![r] = NoRole]
  /\ UNCHANGED <<batch, source>>

\* assertJobBatchAdmission and assertRoleLease: the role is held under this
\* batch, and was not busy.
Admitted(u) ==
  /\ batch.mode # "draining" /\ u.job \in JobsOf(u.role, batch.mode)
  /\ role[u.role].token = u.roleToken /\ role[u.role].live
  /\ role[u.role].new = (batch.mode = "versioned")
  /\ role[u.role].new => role[u.role].born = batch.epoch /\ ~u.busy

Claim(t) ==
  LET j == tx[t].job IN
  /\ Commits(t, "claim")
  /\ Admitted(tx[t])
  /\ job[j].token = None \/ (~job[j].live /\ ~tx[t].seen)
  /\ \E n \in FreshJob(j) :
       job' = [job EXCEPT ![j] = [token |-> n, live |-> TRUE, born |-> batch.epoch, revived |-> FALSE]]
  /\ UNCHANGED <<batch, role, source>>

\* WHERE owned: the token of the row, the age of the lease at now().
Owned(u) == job[u.job].token = u.jobToken /\ u.seen

Beat(t) ==
  LET j == tx[t].job IN
  /\ Commits(t, "beat") /\ Owned(tx[t])
  /\ job' = [job EXCEPT ![j].live = TRUE, ![j].revived = @ \/ ~job[j].live]
  /\ UNCHANGED <<batch, role, source>>

Ack(t) ==
  /\ Commits(t, "ack") /\ Owned(tx[t])
  /\ job' = [job EXCEPT ![tx[t].job] = Free]
  /\ UNCHANGED <<batch, role, source>>

\* What requestDueJobs asks for is not part of this module.
Due(t) == Commits(t, "due") /\ UNCHANGED <<batch, role, job, source>>

\* assertJobLeaseAtWallTime
HasJob(j, token) == job[j].token = token /\ job[j].live

ClaimSource(t) ==
  LET u == tx[t] IN
  /\ Commits(t, "claimSource")
  /\ Admitted(u) /\ (u.job \in NewJobs) = (batch.mode = "versioned")
  /\ ~source.live /\ HasJob(u.job, u.jobToken)
  /\ \E n \in FreshSource :
       source' = [token |-> n, live |-> TRUE, born |-> batch.epoch, job |-> u.job, jobToken |-> u.jobToken]
  /\ UNCHANGED <<batch, role, job>>

\* assertOwner and the update read the lease after the row lock.
RenewSource(t) ==
  /\ Commits(t, "renewSource")
  /\ source.token = tx[t].sourceToken /\ source.live /\ HasJob(tx[t].job, tx[t].jobToken)
  /\ source' = [source EXCEPT !.live = TRUE]
  /\ UNCHANGED <<batch, role, job>>

ClearSource == source' = NoSource

\* The result is taken while source and job are still leased; an abandoned
\* source may have expired.
Record(t) ==
  /\ Commits(t, "record")
  /\ source.token = tx[t].sourceToken /\ source.live /\ HasJob(tx[t].job, tx[t].jobToken)
  /\ ClearSource /\ UNCHANGED <<batch, role, job>>
Abandon(t) ==
  /\ Commits(t, "abandon")
  /\ source.token = tx[t].sourceToken /\ HasJob(tx[t].job, tx[t].jobToken)
  /\ ClearSource /\ UNCHANGED <<batch, role, job>>

\* beginJobBatchDrainIn
Drain(t) ==
  /\ Commits(t, "drain")
  /\ batch.mode # "draining"
  /\ batch' = [batch EXCEPT !.mode = "draining", !.from = batch.mode]
  /\ UNCHANGED <<role, job, source>>

\* Mutant: the transition does not look at the source claims.
QuietJobs == (\A j \in Jobs : ~job[j].live) /\ \A r \in Roles : ~role[r].live
Quiet ==
  /\ \A j \in Jobs : ~job[j].live
  /\ \A r \in Roles : ~role[r].live
  /\ ~source.live

\* completeJobBatchTransitionIn
Complete(t) ==
  /\ Commits(t, "complete")
  /\ batch.mode = "draining" /\ batch.epoch < MaxEpoch
  /\ Quiet
  /\ batch' = [mode |-> CHOOSE m \in Modes : m # batch.from, from |-> "none", epoch |-> batch.epoch + 1]
  /\ UNCHANGED <<role, job, source>>

-----------------------------------------------------------------------------
(* Time *)

ExpireRole(r) ==
  /\ role[r].live /\ role' = [role EXCEPT ![r].live = FALSE]
  /\ UNCHANGED <<batch, job, source, tx>>
ExpireJob(j) ==
  /\ job[j].live /\ job' = [job EXCEPT ![j].live = FALSE, ![j].revived = FALSE]
  /\ UNCHANGED <<batch, role, source, tx>>
ExpireSource ==
  /\ source.live /\ source' = [source EXCEPT !.live = FALSE]
  /\ UNCHANGED <<batch, role, job, tx>>

BatchNext ==
  \/ \E t \in Txs, r \in Roles : StartElect(t, r)
  \/ \E t \in Txs, r \in Roles : StartOwned(t, r)
  \/ \E t \in Txs, j \in Jobs, r \in Roles : StartClaim(t, j, r)
  \/ \E t \in Txs, j \in Jobs : StartJob(t, j)
  \/ \E t \in Txs : StartDue(t)
  \/ \E t \in Txs, j \in Jobs, r \in Roles : StartClaimSource(t, j, r)
  \/ \E t \in Txs : StartSource(t)
  \/ \E t \in Txs : StartOperator(t)
  \/ \E t \in Txs : TakeLock(t)
  \/ \E t \in Txs : Abort(t)
  \/ \E t \in Txs : Elect(t)
  \/ \E t \in Txs : Renew(t)
  \/ \E t \in Txs : Release(t)
  \/ \E t \in Txs : Claim(t)
  \/ \E t \in Txs : Beat(t)
  \/ \E t \in Txs : Ack(t)
  \/ \E t \in Txs : Due(t)
  \/ \E t \in Txs : ClaimSource(t)
  \/ \E t \in Txs : RenewSource(t)
  \/ \E t \in Txs : Record(t)
  \/ \E t \in Txs : Abandon(t)
  \/ \E t \in Txs : Drain(t)
  \/ \E t \in Txs : Complete(t)
  \/ \E r \in Roles : ExpireRole(r)
  \/ \E j \in Jobs : ExpireJob(j)
  \/ ExpireSource

BatchSpec == BatchInit /\ [][BatchNext]_batchVars

-----------------------------------------------------------------------------
(* Properties *)

\* The rows have their shape, and no two open transactions hold locks on one
\* row that exclude each other.
BatchTypeOK ==
  /\ batch \in [mode : Modes \cup {"draining"}, from : Modes \cup {"none"}, epoch : 1..MaxEpoch]
  /\ role \in [Roles -> RoleLease]
  /\ job \in [Jobs -> JobLease]
  /\ source \in SourceLease
  /\ tx \in [Txs -> Tx]
  /\ \A t, u \in Txs : t # u => \A held \in tx[t].held, wanted \in tx[u].held : ~Blocks(held, wanted)

\* The orders in which elections, claims, results, the scheduler and the
\* transition take their rows never let transactions wait for each other in a
\* circle (batch-repository.ts:267, control.ts requestDueJobs, refresh-requests.ts:22).
NoWaitCycle ==
  \A ts \in (SUBSET Txs) \ {{}} : \E t \in ts : \A u \in ts \ {t} : ~WaitsFor(t, u)

\* When the epoch is raised, the work of the old batch is over and stays over:
\* no role, source or job lease of an earlier epoch is live, except a job whose
\* heartbeat had begun while its lease was good (batch-repository.ts:262).
NoOldWork ==
  /\ \A r \in Roles : role[r].live => role[r].born = batch.epoch
  /\ source.live => source.born = batch.epoch
  /\ \A j \in Jobs : job[j].live /\ ~job[j].revived => job[j].born = batch.epoch

\* Of the jobs of a translation role one runs at a time, though an admission
\* reads the other job's row without locking it (batch-repository.ts:63).
OneTranslation ==
  batch.mode = "versioned" =>
    \A r \in Exclusive :
      Cardinality({j \in JobsOf(r, "versioned") : job[j].live /\ ~job[j].revived}) <= 1
=============================================================================
