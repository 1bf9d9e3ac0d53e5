----------------------------- MODULE JobRunner -----------------------------
(***************************************************************************)
(* One row of the jobs table and the worker processes that run it:         *)
(* lib/jobs/runner.ts (runJob), lib/jobs/control.ts (requestJob,           *)
(* requestDueJobs, withJobLeaseWrite) and lib/jobs/lease.ts.               *)
(*                                                                         *)
(* A request only raises requestedVersion.  A worker claims the row,       *)
(* remembers the version it saw, runs the handler under a heartbeat and    *)
(* acknowledges exactly that version.  PostgreSQL is the only lock: every  *)
(* write of a tick is conditional on the token it put in the row and on    *)
(* lockedAt being at most Stale old.                                       *)
(*                                                                         *)
(* Time is relative: lockedAt is kept as its age, notBefore as the time    *)
(* left.  A transaction compares lockedAt with its own start (now() of     *)
(* PostgreSQL), so the verdict "fresh" is taken when it begins and used    *)
(* when it commits.                                                        *)
(***************************************************************************)
EXTENDS Naturals

CONSTANTS
  Workers,     \* processes that call runJob for this job, one tick at a time
  NoOwner,     \* leaseToken IS NULL
  MaxVersion,  \* 9007199254740991, the last version the row may hold
  MaxCursor,   \* bound: how far a handler may move its cursor
  Stale,       \* STALE_LOCK_MS in time units
  Retry        \* the 30 second pause after a failed tick, in time units

ASSUME WorkersAssumption == NoOwner \notin Workers
ASSUME BoundsAssumption ==
  /\ MaxVersion \in Nat \ {0}
  /\ MaxCursor \in Nat
  /\ Stale \in Nat
  /\ Retry \in Nat \ {0}

VARIABLES
  fence,       \* dr_writer_fence.state of this database
  job,         \* the jobs row
  retryAt,     \* beforeNotBefore of the last job-pause in operations_audit, time left
  tick,        \* what each worker's runJob call holds in memory
  \* history, read by no action of the code:
  late,        \* ticks that were claimed before the newest accepted request
  owed,        \* an accepted request no later-claimed tick has acknowledged
  superseded,  \* ticks whose row was claimed again or revoked under them
  strays       \* superseded ticks that nevertheless changed the database

row  == <<fence, job, retryAt>>
hist == <<late, owed, superseded, strays>>
vars == <<fence, job, retryAt, tick, late, owed, superseded, strays>>

-----------------------------------------------------------------------------
(* Data *)

Kinds    == {"plain", "source", "review"}
Outcomes == {"ack", "ready", "deferred"}

\* notBefore as time left; 0 is null or past.  Paused is beyond PAUSED_AFTER_MS
\* and does not run out.
Paused == Retry + 1

JobRow == [kind : Kinds, requested : 0..MaxVersion, processed : 0..MaxVersion,
           token : Workers \cup {NoOwner}, age : 0..(Stale + 1),
           notBefore : 0..Paused, cursor : 0..MaxCursor]

Phases == {"idle", "run", "write", "end", "throw"}

Tick == [pc : Phases, version : 0..MaxVersion, cursor : 0..MaxCursor,
         next : 0..MaxCursor, lost : BOOLEAN, fresh : BOOLEAN,
         outcome : Outcomes]

NoTick == [pc |-> "idle", version |-> 0, cursor |-> 0, next |-> 0,
           lost |-> FALSE, fresh |-> FALSE, outcome |-> "ack"]

Running  == {w \in Workers : tick[w].pc # "idle"}
\* Transactions that hold dr_writer_fence FOR SHARE as their first lock.
InTx     == {w \in Workers : tick[w].pc \in {"write", "end"}}

Fresh    == job.age <= Stale
\* Mutant: a stale lock is never taken over.
FreeWithoutTakeover == job.token = NoOwner
Free     == job.token = NoOwner \/ ~Fresh
\* Mutant: the statement forgets to compare the token.
OwnedByAnyone(w) == Fresh
Owned(w) == job.token = w /\ Fresh

\* The UPDATE of a transaction that began when lockedAt was still fresh.
OwnedInTx(w) == job.token = w /\ tick[w].fresh

Unlocked(r) == [r EXCEPT !.token = NoOwner, !.age = 0]

\* Every committed statement of a tick reports itself to the history.
Commits(w) == strays' = strays \cup ({w} \cap superseded)

\* The tick is over: runJob returned.
Return(w) ==
  /\ tick' = [tick EXCEPT ![w] = NoTick]
  /\ late' = late \ {w}
  /\ superseded' = superseded \ {w}

\* To the catch block, which reads nothing but the lease.
Throw(w) ==
  tick' = [tick EXCEPT ![w] = [NoTick EXCEPT !.pc = "throw", !.cursor = tick[w].cursor]]

-----------------------------------------------------------------------------
Init ==
  /\ fence = "active"
  /\ job \in [kind : Kinds, requested : {0}, processed : {0}, token : {NoOwner},
              age : {0}, notBefore : {0}, cursor : {0}]
  /\ retryAt = 0
  /\ tick = [w \in Workers |-> NoTick]
  /\ late = {} /\ owed = FALSE /\ superseded = {} /\ strays = {}

-----------------------------------------------------------------------------
(* Requests *)

Accept ==
  /\ job' = [job EXCEPT !.requested = @ + 1]
  /\ owed' = TRUE
  /\ late' = Running
  /\ UNCHANGED <<fence, retryAt, tick, superseded, strays>>

\* requestJob: refused (job_version_exhausted) at the last version.
RequestJob ==
  /\ job.requested < MaxVersion
  /\ Accept

\* requestDueJobs of the scheduler: a pending request absorbs the new signal.
RequestDueJobs ==
  /\ fence = "active"
  /\ job.requested < MaxVersion
  /\ job.requested = job.processed
  /\ Accept

-----------------------------------------------------------------------------
(* The claim transaction of runJob *)

ClaimAs(w, version) ==
  /\ job' = [job EXCEPT !.token = w, !.age = 0, !.requested = version]
  /\ tick' = [tick EXCEPT ![w] = [NoTick EXCEPT !.pc = "run",
                !.version = version, !.cursor = job.cursor]]
  /\ late' = late \ {w}
  /\ superseded' = (superseded \cup ({job.token} \cap Running)) \ {w}
  /\ UNCHANGED <<fence, retryAt, owed, strays>>

Claimable(w) ==
  /\ tick[w].pc = "idle"
  /\ fence = "active"
  /\ Free
  /\ job.requested < MaxVersion

\* A worker lane (requestedOnly) consumes an existing request.
ClaimRequested(w) ==
  /\ Claimable(w)
  /\ job.requested > job.processed
  /\ job.notBefore = 0
  /\ ClaimAs(w, job.requested)

\* A direct caller makes the request it consumes and does not wait.
ClaimDirect(w) ==
  /\ Claimable(w)
  /\ ClaimAs(w, (IF job.requested > job.processed
                 THEN job.requested ELSE job.processed) + 1)

-----------------------------------------------------------------------------
(* While the handler runs *)

\* The 15 second timer runs until the handler returns.
Heartbeat(w) ==
  /\ tick[w].pc \in {"run", "write"}
  /\ IF Owned(w)
     THEN /\ job' = [job EXCEPT !.age = 0]
          /\ Commits(w)
          /\ UNCHANGED tick
     ELSE /\ tick' = [tick EXCEPT ![w].lost = TRUE]
          /\ UNCHANGED <<job, strays>>
  /\ UNCHANGED <<fence, retryAt, late, owed, superseded>>

\* The heartbeat statement itself failed: ownership counts as lost.
HeartbeatError(w) ==
  /\ tick[w].pc \in {"run", "write"}
  /\ tick' = [tick EXCEPT ![w].lost = TRUE]
  /\ UNCHANGED <<row, hist>>

\* Mutant: the cursor is stored without looking at the lease.
SaveAnyway(w) ==
  /\ tick[w].pc = "run"
  /\ tick[w].cursor < MaxCursor
  /\ job' = [job EXCEPT !.cursor = tick[w].cursor + 1]
  /\ tick' = [tick EXCEPT ![w].cursor = @ + 1]
  /\ UNCHANGED <<fence, retryAt, late, owed, superseded, strays>>

\* ctx.save: one conditional statement, then the copy in memory.
Save(w) ==
  /\ tick[w].pc = "run"
  /\ tick[w].cursor < MaxCursor
  /\ IF Owned(w) /\ ~tick[w].lost
     THEN /\ job' = [job EXCEPT !.cursor = tick[w].cursor + 1]
          /\ tick' = [tick EXCEPT ![w].cursor = @ + 1]
          /\ Commits(w)
     ELSE /\ Throw(w)
          /\ UNCHANGED <<job, strays>>
  /\ UNCHANGED <<fence, retryAt, late, owed, superseded>>

\* withJobLeaseWrite: fence first; a fenced site ends the tick without a word
\* and leaves the lock to expire.
BeginWrite(w) ==
  /\ tick[w].pc = "run"
  /\ IF fence = "active"
     THEN /\ tick' = [tick EXCEPT ![w].pc = "write", ![w].fresh = Fresh]
          /\ UNCHANGED <<late, superseded>>
     ELSE Return(w)
  /\ UNCHANGED <<row, owed, strays>>

\* assertJobLease is the last statement before the commit.
CommitWrite(w) ==
  /\ tick[w].pc = "write"
  /\ IF OwnedInTx(w)
     THEN /\ tick' = [tick EXCEPT ![w].pc = "run", ![w].fresh = FALSE]
          /\ Commits(w)
     ELSE Throw(w) /\ UNCHANGED strays
  /\ UNCHANGED <<row, late, owed, superseded>>

-----------------------------------------------------------------------------
(* How a tick ends *)

\* The handler returned and the heartbeat stopped; a lost lease becomes an
\* error.  The ending transaction takes the fence first; on a fenced site the
\* tick is skipped and its lock left alone.  next is the cursor to store
\* (outcome.cursor, null for done, or the copy in memory).
Finish(w, outcome, next) ==
  /\ tick[w].pc = "run"
  /\ \/ /\ tick[w].lost
        /\ Throw(w)
        /\ UNCHANGED <<late, superseded>>
     \/ /\ ~tick[w].lost /\ fence = "active"
        /\ tick' = [tick EXCEPT ![w].pc = "end", ![w].fresh = Fresh,
                                ![w].outcome = outcome, ![w].next = next]
        /\ UNCHANGED <<late, superseded>>
     \/ /\ ~tick[w].lost /\ fence = "fenced"
        /\ Return(w)
  /\ UNCHANGED <<row, owed, strays>>

HandlerThrows(w) ==
  /\ tick[w].pc = "run"
  /\ Throw(w)
  /\ UNCHANGED <<row, hist>>

\* continuation: "ready" of a source or review job asks for the same job again.
Continues(w) ==
  /\ tick[w].outcome = "ready"
  /\ \/ job.kind = "review"
     \/ job.kind = "source" /\ job.notBefore = 0

\* ... unless somebody already did, or the versions are used up.
NextRequested(w) ==
  IF Continues(w) /\ job.requested = tick[w].version /\ job.requested < MaxVersion
  THEN job.requested + 1 ELSE job.requested

\* A pause set while the tick ran survives its end; a source continuation also
\* keeps a retry time that has not come.
NextNotBefore(w) ==
  IF \/ job.notBefore = Paused
     \/ job.kind = "source" /\ tick[w].outcome = "ready"
  THEN job.notBefore ELSE 0

\* Mutant: the tick acknowledges whatever the row asks for by now.
AcknowledgedNow(w) == job.requested

\* The version the claim saw.
Acknowledged(w) == tick[w].version

CommitAck(w) ==
  /\ tick[w].pc = "end"
  /\ tick[w].outcome \in {"ack", "ready"}
  /\ OwnedInTx(w)
  /\ job' = [Unlocked(job) EXCEPT !.processed = Acknowledged(w),
               !.requested = NextRequested(w),
               !.notBefore = NextNotBefore(w), !.cursor = tick[w].next]
  /\ owed' = (w \in late \/ NextRequested(w) > job.requested)
  /\ Commits(w)
  /\ Return(w)
  /\ UNCHANGED <<fence, retryAt>>

\* assertJobLeaseAtWallTime: a deferral needs a lease that is fresh now.
CommitDeferred(w) ==
  /\ tick[w].pc = "end"
  /\ tick[w].outcome = "deferred"
  /\ Owned(w)
  /\ job' = Unlocked(job)
  /\ Commits(w)
  /\ Return(w)
  /\ UNCHANGED <<fence, retryAt, owed>>

\* stage_blocked: released by a single statement without a fence.
ReleaseBlocked(w) ==
  /\ tick[w].pc = "run"
  /\ IF Owned(w) /\ ~tick[w].lost
     THEN /\ job' = Unlocked(job)
          /\ Commits(w)
          /\ Return(w)
     ELSE /\ Throw(w)
          /\ UNCHANGED <<job, late, superseded, strays>>
  /\ UNCHANGED <<fence, retryAt, owed>>

\* The conditional UPDATE of the ending transaction found no row.
EndRefused(w) ==
  /\ tick[w].pc = "end"
  /\ ~(IF tick[w].outcome = "deferred" THEN Owned(w) ELSE OwnedInTx(w))
  /\ Throw(w)
  /\ UNCHANGED <<row, hist>>

\* The error record: release and retry later, but only one's own lease.
RecordFailure(w) ==
  /\ tick[w].pc = "throw"
  /\ IF Owned(w)
     THEN /\ job' = [Unlocked(job) EXCEPT
                       !.notBefore = IF @ = Paused THEN Paused ELSE Retry]
          /\ Commits(w)
     ELSE UNCHANGED <<job, strays>>
  /\ Return(w)
  /\ UNCHANGED <<fence, retryAt, owed>>

-----------------------------------------------------------------------------
(* The rest of the world *)

\* The process dies.  An open transaction rolls back; the lock stays.
Crash(w) ==
  /\ tick[w].pc # "idle"
  /\ Return(w)
  /\ UNCHANGED <<row, owed, strays>>

\* A role that changes hands takes the tokens of its jobs away.
RevokeToken ==
  /\ job.token # NoOwner
  /\ job' = Unlocked(job)
  /\ superseded' = superseded \cup ({job.token} \cap Running)
  /\ UNCHANGED <<fence, retryAt, tick, late, owed, strays>>

\* controlAdminJob, an accepted operator change (a refused one changes nothing).
\* The retry time that was pending is kept in the audit row and comes back.
Pause ==
  /\ fence = "active"
  /\ job.notBefore # Paused
  /\ job' = [job EXCEPT !.notBefore = Paused]
  /\ retryAt' = job.notBefore
  /\ UNCHANGED <<fence, tick, hist>>

Resume ==
  /\ fence = "active"
  /\ job.notBefore = Paused
  /\ job' = [job EXCEPT !.notBefore = retryAt]
  /\ retryAt' = 0
  /\ UNCHANGED <<fence, tick, hist>>

\* fenceWriterSite waits for the transactions that hold the row FOR SHARE.
FenceSite ==
  /\ fence = "active"
  /\ InTx = {}
  /\ fence' = "fenced"
  /\ UNCHANGED <<job, retryAt, tick, hist>>

Left(t) == IF t \in 1..Retry THEN t - 1 ELSE t

Elapse ==
  /\ job' = [job EXCEPT
       !.age = IF job.token # NoOwner /\ Fresh THEN @ + 1 ELSE @,
       !.notBefore = Left(@)]
  /\ retryAt' = Left(retryAt)
  /\ <<job', retryAt'>> # <<job, retryAt>>
  /\ UNCHANGED <<fence, tick, hist>>

\* The owner is alive and has not heartbeaten for Stale.
Overdue == job.age = Stale /\ job.token \in Running

Time  == ~Overdue /\ Elapse
Stall == Overdue /\ Elapse

-----------------------------------------------------------------------------
Step(w) ==
  \/ ClaimRequested(w) \/ ClaimDirect(w)
  \/ Heartbeat(w) \/ HeartbeatError(w) \/ Save(w)
  \/ BeginWrite(w) \/ CommitWrite(w)
  \/ \E o \in Outcomes, c \in {0, tick[w].cursor} : Finish(w, o, c)
  \/ HandlerThrows(w)
  \/ ReleaseBlocked(w) \/ CommitAck(w) \/ CommitDeferred(w) \/ EndRefused(w)
  \/ RecordFailure(w) \/ Crash(w)

Next ==
  \/ RequestJob \/ RequestDueJobs
  \/ \E w \in Workers : Step(w)
  \/ RevokeToken \/ Pause \/ Resume \/ FenceSite \/ Time \/ Stall

Spec == Init /\ [][Next]_vars

-----------------------------------------------------------------------------
(* Properties *)

\* Types of the row, of the ticks in memory and of the history.
TypeOK ==
  /\ fence \in {"active", "fenced"}
  /\ job \in JobRow
  /\ retryAt \in 0..Retry
  /\ tick \in [Workers -> Tick]
  /\ late \subseteq Running
  /\ superseded \subseteq Running
  /\ strays \subseteq Workers
  /\ owed \in BOOLEAN

\* A request that arrives while a tick runs is still pending after that tick is
\* acknowledged; so is one whose tick failed, was deferred, crashed or lost its
\* lease, and a continuation the tick asked for.  (runJob acknowledges the
\* version it saw at the claim, never the one in the row.)
NoLostRequest == owed => job.requested > job.processed

\* A tick whose row was claimed by another worker, or whose token was revoked,
\* commits nothing more: no cursor, no guarded write, no acknowledgement, no
\* error record, and no heartbeat that would keep the other's lease alive.
NoStrayCommit == strays = {}

\* The owner of the row acknowledges with its own copy of the cursor; nobody
\* else may have moved the stored one in between.
CursorContinuity ==
  \A w \in Running : job.token = w => job.cursor = tick[w].cursor

\* A version is acknowledged once: an acknowledgement always raises processed.
AcknowledgedOnce == [][job'.processed # job.processed
                         => job'.processed > job.processed]_vars

\* Only the operator ends a pause.  However the tick that was running ends, and
\* whoever takes over, the pause stays; ending it disturbs neither the requests
\* and the cursor nor a running tick.
PauseSticks ==
  [][job.notBefore = Paused /\ job'.notBefore # Paused
       => /\ tick' = tick
          /\ job' = [job EXCEPT !.notBefore = job'.notBefore]]_vars

\* On a fenced database no tick starts, no guarded write commits and nothing is
\* acknowledged, also by ticks that were claimed before the fence.
FenceStopsTicks ==
  [][fence = "fenced"
       => /\ job'.processed = job.processed
          /\ job'.token \in {job.token, NoOwner}
          /\ \A w \in Workers : tick[w].pc = "write" => tick'[w].pc # "run"]_vars

\* The jobs table keeps the promise of AskedWork: whatever ticks crash, stall,
\* overlap or are superseded, a request is only ever answered by the
\* acknowledgement of a tick claimed after it, and the row asks for nothing on
\* its own (runner.ts, control.ts).
Queue == INSTANCE AskedWork WITH
  pending <- job.requested > job.processed, working <- Running, informed <- Running \ late
ServesThoseWhoAsk == Queue!Spec

-----------------------------------------------------------------------------
(* Progress *)

\* One worker's own steps.  The handler returns by its deadline, the statements
\* of runJob follow; lanes keep polling; time passes.
Returns(w)  == \E o \in {"ack", "ready"}, c \in {0, tick[w].cursor} : Finish(w, o, c)
Proceeds(w) == \/ CommitWrite(w) \/ CommitAck(w) \/ CommitDeferred(w)
               \/ EndRefused(w) \/ RecordFailure(w)

Fairness ==
  /\ WF_vars(Time)
  /\ \A w \in Workers : /\ WF_vars(ClaimRequested(w))
                        /\ SF_vars(Returns(w))
                        /\ WF_vars(Proceeds(w))

LiveSpec == Spec /\ Fairness

\* What sets a tick back without an acknowledgement.
Setback ==
  \/ Stall \/ RevokeToken
  \/ \E w \in Workers :
       \/ Crash(w) \/ HandlerThrows(w) \/ HeartbeatError(w) \/ ReleaseBlocked(w)
       \/ \E c \in {0, tick[w].cursor} : Finish(w, "deferred", c)

\* Once setbacks stop, every accepted request is acknowledged by a tick claimed
\* after it, whatever crashed, stalled or failed before: a dead owner's lock
\* expires, a failed tick is tried again.  A pause, a fence and the last version
\* (which no claim accepts) excuse the runner.
RequestsAreServed ==
  <>[][~Setback]_vars =>
    (owed ~> (~owed \/ job.notBefore = Paused \/ fence = "fenced"
              \/ job.requested = MaxVersion))

=============================================================================
