---------------------------- MODULE DrPromotion ----------------------------
(***************************************************************************)
(* Disaster recovery: lib/operations/dr.  A database is restored from a    *)
(* copy, sealed, promoted on the operator's evidence and opened again for  *)
(* outside calls, while workers of the old site may still run.             *)
(*                                                                         *)
(* The code decides on the restored database alone.  What it cannot see is *)
(* the operator's: he does not attach workers to a copy that is not sealed,*)
(* runs one promotion at a time, names every database that has served and  *)
(* reports what is so, times within Skew (runbook, section 7).  He may     *)
(* forget workers: those outside Declared.                                 *)
(***************************************************************************)
EXTENDS Integers, FiniteSets, FiniteSetsExt

CONSTANTS
  DBs, First,      \* database identities; the one that serves at the start
  Workers,         \* worker instances
  Declared,        \* those the operator's plans name
  Jobs,            \* jobs they claim and store results of
  Scopes,          \* kinds of outside calls: "http" ends with its process, "model" may outlive it
  Deadline, Skew,  \* the provider's hard deadline; the error of a reported time
  MaxTime          \* bound: the last instant

ASSUME SiteAssumption == First \in DBs /\ Declared \subseteq Workers /\ Scopes \subseteq {"http", "model"}
ASSUME TimeAssumption == {Skew, MaxTime} \subseteq Nat /\ Deadline \in Nat \ {0}

VARIABLES
  db,      \* the databases
  worker,  \* the worker processes
  now      \* the clock of the databases

vars == <<db, worker, now>>

-----------------------------------------------------------------------------
(* Data *)

Times == 0..MaxTime
Never == -1
Epochs == Nat \ {0}

\* A job's lease token: who drew it, where and in which epoch.
Token == [by : Workers, db : DBs, epoch : Epochs]
NoToken == [by |-> "none"]

\* dr_promotions with its evidence: vouched holds the old databases with a
\* fence or isolation record, stop the latest stop time recorded per worker.
Promo == [state : {"none", "sealed", "promoted"}, db : DBs, from : Epochs, old : SUBSET DBs, required : SUBSET Workers,
          vouched : SUBSET DBs, stop : [Workers -> Times \cup {Never}], window : Times \cup {Never}]
NoPromo == [state |-> "none", db |-> First, from |-> 1, old |-> {}, required |-> {},
            vouched |-> {}, stop |-> [w \in Workers |-> Never], window |-> Never]

\* A database that is gone was thrown away: the next restore makes one of
\* another identity.  fence is the state of dr_writer_fence with its reason,
\* home the database it was set in; lease the lease of each job; rows the
\* calls the ledgers hold open, open the scopes whose permits are; wrote is
\* history, the last commit of a result by a worker the plans name.
Db == [made : BOOLEAN, gone : BOOLEAN, reachable : BOOLEAN, epoch : Epochs,
       fence : {"active", "operator", "sealed"}, home : DBs, lease : [Jobs -> Token \cup {NoToken}],
       rows : SUBSET (Workers \X Scopes), open : SUBSET Scopes, promo : Promo, wrote : Times \cup {Never}]
Fresh == [made |-> FALSE, gone |-> FALSE, reachable |-> TRUE, epoch |-> 1, fence |-> "active", home |-> First,
          lease |-> [j \in Jobs |-> NoToken], rows |-> {}, open |-> Scopes, promo |-> NoPromo,
          wrote |-> Never]

\* call is the scope of the running call, at the database it was permitted by.
Worker == [state : {"off", "up", "stopped"}, token : [Jobs -> Token \cup {NoToken}], stopped : Times,
           call : Scopes \cup {"none"}, at : DBs, began : Times]
Off == [state |-> "off", token |-> [j \in Jobs |-> NoToken], stopped |-> 0, call |-> "none", at |-> First, began |-> 0]

Init ==
  /\ db = [d \in DBs |-> [Fresh EXCEPT !.made = (d = First)]]
  /\ worker = [w \in Workers |-> Off]
  /\ now = 0

PutDb(d, value) == db' = [db EXCEPT ![d] = value]
PutWorker(w, value) == worker' = [worker EXCEPT ![w] = value]

Active(d) == db[d].fence = "active"                 \* writerSiteActive
\* The first database, and each that was promoted itself.
Promoted(d) == db[d].promo.state = "promoted" /\ db[d].promo.db = d
Served == {d \in DBs : db[d].made /\ (d = First \/ Promoted(d))}
Underway == \E d \in DBs : db[d].made /\ db[d].promo.state = "sealed" /\ db[d].promo.db = d
\* A worker keeps its tokens when its database address leads elsewhere.
Reaches(w, d) ==
  worker[w].state = "up" /\ db[d].made /\ db[d].reachable /\ (d \in Served \/ db[d].fence = "sealed")

-----------------------------------------------------------------------------
(* The workers *)

\* A worker starts at a site that serves.
Start(w) ==
  /\ worker[w].state = "off" /\ ~Underway /\ \E d \in Served : Active(d) /\ db[d].reachable
  /\ PutWorker(w, [Off EXCEPT !.state = "up"])
  /\ UNCHANGED <<db, now>>

\* runJob draws a token for a job whose lease is free, or stale.
Claim(w, d, j) ==
  LET t == [by |-> w, db |-> d, epoch |-> db[d].epoch] IN
  /\ Reaches(w, d) /\ Active(d) /\ db[d].lease[j] # t
  /\ PutDb(d, [db[d] EXCEPT !.lease[j] = t])
  /\ PutWorker(w, [worker[w] EXCEPT !.token[j] = t])
  /\ UNCHANGED now

\* withJobLeaseWrite: a result is stored under the fence and the token.
MayCommit(w, d, j) ==
  Reaches(w, d) /\ Active(d) /\ worker[w].token[j] # NoToken /\ db[d].lease[j] = worker[w].token[j]
Commit(w, d, j) ==
  /\ MayCommit(w, d, j)
  /\ PutDb(d, IF w \in Declared THEN [db[d] EXCEPT !.wrote = now] ELSE db[d])
  /\ UNCHANGED <<worker, now>>

\* A call goes out under a row of its ledger.
StartCall(w, d) ==
  /\ Reaches(w, d) /\ Active(d) /\ worker[w].call = "none"
  /\ \E s \in db[d].open :
       /\ <<w, s>> \notin db[d].rows
       /\ PutDb(d, [db[d] EXCEPT !.rows = @ \cup {<<w, s>>}])
       /\ PutWorker(w, [worker[w] EXCEPT !.call = s, !.at = d, !.began = now])
  /\ UNCHANGED now

\* A call ends; its process, if it still runs, may settle the row it reaches.
NoCall(w) == [worker[w] EXCEPT !.call = "none", !.at = First, !.began = 0]
CallEnds(w) ==
  /\ worker[w].call # "none"
  /\ PutWorker(w, NoCall(w))
  /\ \/ db' = db
     \/ \E d \in DBs : Reaches(w, d) /\ PutDb(d, [db[d] EXCEPT !.rows = @ \ {<<w, worker[w].call>>}])
  /\ UNCHANGED now

\* The process is stopped for good.  A call by HTTP ends with it.
StopWorker(w) ==
  /\ worker[w].state = "up"
  /\ LET x == IF worker[w].call = "http" THEN NoCall(w) ELSE worker[w] IN
     PutWorker(w, [x EXCEPT !.state = "stopped", !.stopped = now, !.token = Off.token])
  /\ UNCHANGED <<db, now>>

-----------------------------------------------------------------------------
(* The operator and the old databases *)

\* A copy is restored as a database of its own.  A physical replica has the
\* identity of its primary, and the seal refuses it as one of the old ones.
Restore(d) ==
  /\ ~db[d].made /\ ~db[d].gone
  /\ \E s \in DBs :
       /\ db[s].made /\ db[s].reachable
       /\ PutDb(d, db[s])
  /\ UNCHANGED <<worker, now>>

\* A copy that is stuck is thrown away, its identity with it.
Discard(d) ==
  /\ db[d].made /\ d \notin Served
  /\ PutDb(d, [Fresh EXCEPT !.gone = TRUE])
  /\ UNCHANGED <<worker, now>>

\* fenceWriterSite: one way.
Fenced(d) == [db[d] EXCEPT !.fence = "operator", !.home = d]
FenceOld(d) ==
  /\ db[d].made /\ db[d].reachable /\ Active(d)
  /\ PutDb(d, Fenced(d))
  /\ UNCHANGED <<worker, now>>

\* An old database is cut off or switched off; it comes back fenced.
Isolate(d) ==
  /\ d \in Served /\ db[d].reachable
  /\ PutDb(d, [db[d] EXCEPT !.reachable = FALSE])
  /\ UNCHANGED <<worker, now>>

Rejoin(d) ==
  /\ d \in Served /\ ~db[d].reachable
  /\ PutDb(d, [(IF Active(d) THEN Fenced(d) ELSE db[d]) EXCEPT !.reachable = TRUE])
  /\ UNCHANGED <<worker, now>>

-----------------------------------------------------------------------------
(* Seal, evidence, promotion *)

\* The plan: its epoch is the highest the operator knows of, its old
\* databases are those that served.
KnownEpoch == Max({db[o].epoch : o \in Served})
\* Mutant: a plan from an older epoch.
AnyPlan(d) == ~Underway /\ d \notin Served
PlanFor(d) == ~Underway /\ d \notin Served /\ db[d].epoch = KnownEpoch

\* A fence of this database itself, or of an earlier seal, is not opened again.
NotInPlace(d) == Active(d) \/ (db[d].fence = "operator" /\ db[d].home # d)
NoSuchPromotion(d) == db[d].promo.state = "none" \/ db[d].promo.from # db[d].epoch

\* The owners the copied ledgers show, beside those the plan names.
Shown(d) == {w \in Workers : \E s \in Scopes : <<w, s>> \in db[d].rows}
Named == {w \in Declared : worker[w].state # "off"}

\* Mutant: the jobs keep their leases.
LeaseKept(d) == db[d].lease
LeaseAfter(d) == Fresh.lease

\* sealRestoredDatabase
Seal(d) ==
  /\ db[d].made /\ PlanFor(d) /\ NotInPlace(d) /\ NoSuchPromotion(d)
  /\ PutDb(d, [db[d] EXCEPT !.fence = "sealed", !.home = d, !.lease = LeaseAfter(d), !.open = {},
       !.promo = [NoPromo EXCEPT !.state = "sealed", !.db = d, !.from = db[d].epoch, !.old = Served,
                                 !.required = Named \cup Shown(d)]])
  /\ UNCHANGED <<worker, now>>

\* recordPromotionEvidence: what the operator reports.  Only the last record
\* of a subject counts and their order does not, so each is made once, the
\* old databases first, the stops next.
Recording(d) == db[d].made /\ db[d].promo.state = "sealed" /\ db[d].promo.db = d
Vouch(d, o) ==
  /\ Recording(d) /\ o \in db[d].promo.old \ db[d].promo.vouched
  /\ \/ ~db[o].reachable
     \/ db[o].fence = "operator" /\ db[o].home = o /\ db[o].epoch = db[d].promo.from
  /\ PutDb(d, [db[d] EXCEPT !.promo.vouched = @ \cup {o}])
  /\ UNCHANGED <<worker, now>>

\* Mutant: the old databases are not asked for.
NobodyAsked(p) == TRUE
OldFenced(p) == p.old \subseteq p.vouched
RecordStop(d, w) ==
  /\ Recording(d) /\ OldFenced(db[d].promo)
  /\ w \in db[d].promo.required /\ worker[w].state = "stopped" /\ db[d].promo.stop[w] = Never
  /\ \E t \in Times :
       /\ t - worker[w].stopped \in -Skew..Skew
       /\ PutDb(d, [db[d] EXCEPT !.promo.stop[w] = t])
  /\ UNCHANGED <<worker, now>>

\* He has compared what was done outside from the copy on until t.
StopsProven(p) == p.required # {} /\ \A w \in p.required : p.stop[w] # Never
RecordReview(d) ==
  /\ Recording(d) /\ StopsProven(db[d].promo) /\ db[d].promo.window = Never
  /\ \E t \in 0..now : PutDb(d, [db[d] EXCEPT !.promo.window = t])
  /\ UNCHANGED <<worker, now>>

\* evaluateCallDrain
LastStop(p) == Max({p.stop[w] : w \in p.required})
\* NotBefore is also a mutant: the error of the clocks is left out.
NotBefore(p, s) == LastStop(p) + (IF s = "model" THEN Deadline ELSE 0)
NotBeforeSkewed(p, s) == NotBefore(p, s) + Skew
Drained(p, s) == StopsProven(p) /\ now >= NotBeforeSkewed(p, s)

\* evaluatePromotion: G1 .. G5.
SealedHere(d) == db[d].made /\ db[d].fence = "sealed" /\ db[d].promo.state = "sealed" /\ db[d].promo.db = d
\* Mutant: any review will do.
AnyReview(p) == p.window # Never
Reviewed(p) == p.window # Never /\ p.window >= LastStop(p)
Ready(d) ==
  LET p == db[d].promo IN
  SealedHere(d) /\ OldFenced(p) /\ StopsProven(p) /\ (\A s \in Scopes : Drained(p, s)) /\ Reviewed(p)

PromoAfter(p) == [p EXCEPT !.state = "promoted"]

\* promoteSealedDatabase
Promote(d) ==
  /\ Ready(d)
  /\ PutDb(d, [db[d] EXCEPT !.fence = "active", !.epoch = @ + 1, !.promo = PromoAfter(@)])
  /\ UNCHANGED <<worker, now>>

\* lockPromotedState
PromotedHere(d) == db[d].made /\ Active(d) /\ Promoted(d) /\ db[d].epoch = db[d].promo.from + 1
OldRows(d, s) == {r \in db[d].rows : r[2] = s}

\* releaseDrainedDispatches
ReleaseDrained(d) ==
  /\ PromotedHere(d) /\ "model" \in Scopes \ db[d].open /\ Drained(db[d].promo, "model") /\ OldRows(d, "model") # {}
  /\ PutDb(d, [db[d] EXCEPT !.rows = @ \ OldRows(d, "model")])
  /\ UNCHANGED <<worker, now>>

\* openHttpPermitsAfterDrain settles the old rows, openModelCapacityAfterDrain
\* asks that there are none.
OpenPermits(d, s) ==
  /\ PromotedHere(d) /\ s \notin db[d].open /\ Drained(db[d].promo, s)
  /\ s = "model" => OldRows(d, s) = {}
  /\ PutDb(d, [db[d] EXCEPT !.rows = @ \ OldRows(d, s), !.open = @ \cup {s}])
  /\ UNCHANGED <<worker, now>>

\* The provider ends a model call before its deadline is reached.
Tick ==
  /\ now < MaxTime
  /\ \A w \in Workers : worker[w].call = "model" => now + 1 < worker[w].began + Deadline
  /\ now' = now + 1
  /\ UNCHANGED <<db, worker>>

Next ==
  \/ \E w \in Workers : Start(w) \/ CallEnds(w) \/ StopWorker(w)
  \/ \E w \in Workers, d \in DBs, j \in Jobs : Claim(w, d, j) \/ Commit(w, d, j)
  \/ \E w \in Workers, d \in DBs : StartCall(w, d)
  \/ \E d \in DBs :
       Restore(d) \/ Discard(d) \/ FenceOld(d) \/ Isolate(d) \/ Rejoin(d) \/ Seal(d) \/ RecordReview(d)
       \/ Promote(d) \/ ReleaseDrained(d)
  \/ \E d, o \in DBs : Vouch(d, o)
  \/ \E d \in DBs, w \in Workers : RecordStop(d, w)
  \/ \E d \in DBs, s \in Scopes : OpenPermits(d, s)
  \/ Tick

Spec == Init /\ [][Next]_vars

-----------------------------------------------------------------------------
(* Properties *)

\* Every variable has its type.
TypeOK == db \in [DBs -> Db] /\ worker \in [Workers -> Worker] /\ now \in Times

\* At most one database that has served takes writes and can be reached: a
\* promotion waits until each old one is fenced or cut off (promotion.ts
\* 116-123), and an old one comes back fenced only.
OneSite == Cardinality({d \in Served : Active(d) /\ db[d].reachable}) <= 1

\* No two databases ever serve in one writer epoch: of several copies of one
\* database one is promoted (promotion.ts 9-13, repository.ts 65-69).
OneEpoch == \A d, e \in Served : db[d].epoch = db[e].epoch => d = e

\* A promoted database takes results only under tokens drawn there after the
\* promotion, also from workers nobody knew of (repository.ts 98-113).
NoOldWork ==
  \A w \in Workers, d \in DBs, j \in Jobs : MayCommit(w, d, j) /\ Promoted(d) =>
    worker[w].token[j].db = d /\ worker[w].token[j].epoch = db[d].epoch

\* While a promoted database lets calls of a scope out, no call the old site
\* let out to a worker the plans name still runs (call-drain.ts 36-54,
\* permits.ts 10-86).
NoCallsOverlap ==
  \A d \in DBs, w \in Declared :
    PromotedHere(d) /\ db[d].reachable /\ worker[w].call \in db[d].open => worker[w].at = d

\* What the old site's named workers stored, and the copy may lack, lies in
\* the time whose outside effects were reviewed, up to the error of the
\* reported stops: that the review does not wait out (promotion.ts 133-138).
LostWorkIsReviewed ==
  \A d \in DBs : Promoted(d) =>
    \A o \in db[d].promo.old : db[o].epoch = db[d].promo.from => db[o].wrote <= db[d].promo.window + Skew

=============================================================================
