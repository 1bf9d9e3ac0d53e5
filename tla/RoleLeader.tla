----------------------------- MODULE RoleLeader -----------------------------
(***************************************************************************)
(* Leadership of one worker role: the row of role_leases                   *)
(* (lib/jobs/role-leader.ts, legacy batch mode) and the candidate          *)
(* processes that compete for it (scripts/role-worker.ts).                 *)
(*                                                                         *)
(* A candidate asks, and if elected starts a child that works under the    *)
(* epoch it was given; it renews the row and keeps its own deadline, which *)
(* a watchdog enforces without the database.  An election takes the job    *)
(* token away from whatever the previous epoch still has running.          *)
(*                                                                         *)
(* Time is relative: lease.left is the time to leaseUntil on the database  *)
(* clock (negative once it is over), left and asked are a process's own    *)
(* deadlines.  All clocks run at the same rate.                            *)
(***************************************************************************)
EXTENDS Integers, Functions

CONSTANTS
  Instances,   \* SERVICE_INSTANCE_ID of every candidate of the role
  Primaries,   \* those started with --kind=primary; the others are standbys
  NoOwner,     \* ownerInstanceId IS NULL
  Releases,    \* RELEASE_TAG values
  Boots,       \* bound: how often each instance may boot
  MaxEpoch,    \* bound: elections
  Lease,       \* 45 seconds
  Grace,       \* 20 seconds a standby leaves to the previous owner
  BootLimit,   \* 3 primary elections ...
  BootWindow,  \* ... within 5 minutes
  Quarantine,  \* 15 minutes
  Fresh,       \* WAITING_PRIMARY_FRESH_SECONDS
  Stable       \* ROLE_HANDOFF_STABLE_MS

ASSUME InstancesAssumption == Primaries \subseteq Instances /\ NoOwner \notin Instances
ASSUME TimesAssumption ==
  /\ Boots \in [Instances -> Nat]
  /\ {MaxEpoch, Lease, Grace, BootLimit, BootWindow, Quarantine} \subseteq Nat \ {0}
  /\ {Fresh, Stable} \subseteq Nat

Standbys == Instances \ Primaries

VARIABLES
  fence,       \* dr_writer_fence.state
  mode,        \* job_batch_control.mode; draining is draining from legacy
  lease,       \* the role_leases row: owner, boot, release, epoch, left
  boots,       \* primaryBoots of the last BootWindow: how many there are of each age
  quarantine,  \* time left of quarantineUntil
  token,       \* leaseToken of the role's job: the epoch it was claimed under
  seen,        \* candidate:<role>:<primary> observation: waiting boot and its age
  cand,        \* the candidate processes
  late         \* history: epochs that stored a result after a newer election

db   == <<fence, mode, lease, boots, quarantine, token>>
vars == <<fence, mode, lease, boots, quarantine, token, seen, cand, late>>

-----------------------------------------------------------------------------
(* Data *)

\* down: no process.  standby: waiting.  asking: tryAcquireRole is in flight.
\* granted: it has committed, the answer is on its way.  active: the child runs.
\* handoff: the child drains for a waiting primary while renewals go on.
\* yielding: yieldRoleToPrimary is next.  shutdown, restart: the child drains,
\* renewals have stopped.  lost: the child is being killed.  releasing:
\* releaseRole is next.
Phases == {"down", "standby", "asking", "granted", "active", "handoff",
           "yielding", "shutdown", "restart", "lost", "releasing"}
Holds    == {"granted", "active", "handoff", "shutdown", "restart"}
HasChild == {"active", "handoff", "shutdown", "restart", "lost"}
Renews   == {"active", "handoff"}

RoleRow == [owner : Instances \cup {NoOwner}, boot : Nat, release : Releases,
            epoch : 0..MaxEpoch, left : (-Grace)..Lease]

\* left: leaseDeadline.  renew: the renewal in flight, asked: the deadline it
\* will bring.  work: the child has a tick running.  watch, held: PrimaryHandoff.
\* proven (history): the deadline comes from an election or a renewal.
Candidate == [pc : Phases, boot : Nat, release : Releases, epoch : 0..MaxEpoch,
              left : 0..Lease, renew : {"none", "sent", "yes"}, asked : 0..Lease,
              work : BOOLEAN, watch : Nat, held : 0..Stable, proven : BOOLEAN]

Down(r) == [pc |-> "down", boot |-> 0, release |-> r, epoch |-> 0, left |-> 0,
            renew |-> "none", asked |-> 0, work |-> FALSE, watch |-> 0, held |-> 0,
            proven |-> FALSE]

Ages == 0..(BootWindow - 1)
NoBoots == [a \in Ages |-> 0]

NotSeen == [boot |-> 0, release |-> CHOOSE r \in Releases : TRUE, age |-> Fresh + 1]

Live == lease.left > 0

\* The conditions every statement puts on the row: this boot, this epoch.
Owner(c) == /\ lease.owner = c /\ lease.boot = cand[c].boot
            /\ lease.epoch = cand[c].epoch
Owned(c) == Owner(c) /\ lease.release = cand[c].release

\* What no step of the new phase reads is dropped.
To(c, pc) ==
  cand' = [cand EXCEPT ![c].pc = pc, ![c].watch = 0, ![c].held = 0,
             ![c].left  = IF pc = "lost" THEN 0 ELSE @,
             ![c].asked = IF pc \in Renews THEN @ ELSE 0]

\* The child is gone, and with it the tick; a renewal that was sent may still
\* commit until the process asks again.
Leave(c, pc) ==
  cand' = [cand EXCEPT ![c] = [Down(cand[c].release) EXCEPT
             !.pc = pc, !.boot = cand[c].boot,
             !.epoch = IF pc \in {"yielding", "releasing"} \/ cand[c].renew = "sent"
                       THEN cand[c].epoch ELSE 0,
             !.renew = IF cand[c].renew = "sent" THEN "sent" ELSE "none"]]

-----------------------------------------------------------------------------
Init ==
  /\ fence = "active" /\ mode = "legacy"
  /\ lease \in [owner : {NoOwner}, boot : {0}, release : Releases, epoch : {0}, left : {0}]
  /\ boots = NoBoots /\ quarantine = 0 /\ token = 0
  /\ seen = [p \in Primaries |-> NotSeen]
  /\ cand \in [Instances -> {Down(r) : r \in Releases}]
  /\ late = {}

-----------------------------------------------------------------------------
(* Election: tryAcquireRole *)

\* The container (re)starts a candidate, after a deployment with another release.
Start(c, r) ==
  /\ cand[c].pc = "down" /\ cand[c].boot < Boots[c]
  /\ cand' = [cand EXCEPT ![c] = [Down(r) EXCEPT !.pc = "standby", !.boot = cand[c].boot + 1]]
  /\ UNCHANGED <<db, seen, late>>

\* acquiredAt is read before the call; the deadline counts from there.
Ask(c) ==
  /\ cand[c].pc = "standby"
  /\ cand' = [cand EXCEPT ![c].pc = "asking", ![c].left = Lease,
                          ![c].renew = "none"]
  /\ UNCHANGED <<db, seen, late>>

Open == fence = "active" /\ mode = "legacy"

Same(c) == /\ lease.owner = c /\ lease.boot = cand[c].boot
           /\ lease.release = cand[c].release

\* Mutant: a standby never takes over from an owner that did not release.
StandbyWaitsForever(c) ==
  /\ c \in Standbys
  /\ \/ lease.epoch = 0 /\ lease.left > -Grace
     \/ lease.epoch > 0 /\ lease.release # cand[c].release
     \/ lease.epoch > 0 /\ lease.owner # NoOwner

\* A standby leaves a new role, and the owner of an expired one, Grace to come
\* (back); an owner that released is not waited for.  It never takes over from
\* another release.
StandbyWaits(c) ==
  /\ c \in Standbys
  /\ \/ lease.epoch = 0 /\ lease.left > -Grace
     \/ lease.epoch > 0 /\ lease.release # cand[c].release
     \/ lease.epoch > 0 /\ lease.owner # NoOwner /\ lease.left > -Grace

Quarantined(c) == c \in Primaries /\ quarantine > 0

\* A primary instance that comes back as yet another boot within the window.
BootLoop(c) ==
  /\ c \in Primaries /\ lease.owner = c /\ lease.boot # cand[c].boot
  /\ SumFunction(boots) >= BootLimit

Refuse(c) ==
  /\ cand[c].pc = "asking"
  /\ \/ ~Open
     \/ Quarantined(c)
     \/ Live /\ ~Same(c)
     \/ ~Live /\ StandbyWaits(c)
  /\ Leave(c, "standby")
  /\ UNCHANGED <<db, seen, late>>

\* The boot still holds the lease: it learns the epoch again.  leaseUntil is
\* not touched, the caller's deadline starts anew all the same.
Reconfirm(c) ==
  /\ cand[c].pc = "asking" /\ Open /\ ~Quarantined(c) /\ Live /\ Same(c)
  /\ cand' = [cand EXCEPT ![c].pc = "granted", ![c].epoch = lease.epoch,
                          ![c].proven = FALSE]
  /\ UNCHANGED <<db, seen, late>>

Electable(c) ==
  cand[c].pc = "asking" /\ Open /\ ~Quarantined(c) /\ ~Live /\ ~StandbyWaits(c)

\* emergencyTakeoverGate: a recovering host takes no new role.
GateRefuses(c) ==
  /\ Electable(c)
  /\ Leave(c, "standby")
  /\ UNCHANGED <<db, seen, late>>

QuarantineRole(c) ==
  /\ Electable(c) /\ BootLoop(c)
  /\ quarantine' = Quarantine
  /\ Leave(c, "standby")
  /\ UNCHANGED <<fence, mode, lease, boots, token, seen, late>>

\* Mutant: the job token of the previous epoch survives the election.
TokenKept == token

\* The election takes the tokens of the role's jobs away.
TokenAfterElection == 0

Elect(c) ==
  /\ Electable(c) /\ ~BootLoop(c) /\ lease.epoch < MaxEpoch
  /\ lease' = [owner |-> c, boot |-> cand[c].boot, release |-> cand[c].release,
               epoch |-> lease.epoch + 1, left |-> Lease]
  /\ boots' = IF c \in Primaries THEN [boots EXCEPT ![0] = @ + 1] ELSE boots
  /\ token' = TokenAfterElection
  /\ cand' = [cand EXCEPT ![c].pc = "granted", ![c].epoch = lease.epoch + 1,
                          ![c].proven = TRUE]
  /\ UNCHANGED <<fence, mode, quarantine, seen, late>>

\* The call failed: before its commit, or after it with the answer lost.
AskFails(c) ==
  /\ cand[c].pc \in {"asking", "granted"}
  /\ Leave(c, "standby")
  /\ UNCHANGED <<db, seen, late>>

\* Mutant: the deadline counts from the answer instead of the call.
ReceiveAfresh(c) ==
  /\ cand[c].pc = "granted"
  /\ cand' = [cand EXCEPT ![c].pc = "active", ![c].left = Lease]
  /\ UNCHANGED <<db, seen, late>>

\* superviseWorker starts the child.
Receive(c) ==
  /\ cand[c].pc = "granted"
  /\ To(c, "active")
  /\ UNCHANGED <<db, seen, late>>

-----------------------------------------------------------------------------
(* Renewal and the watchdog *)

RenewSend(c) ==
  /\ cand[c].pc \in Renews /\ cand[c].renew = "none" /\ cand[c].left > 0
  /\ cand' = [cand EXCEPT ![c].renew = "sent", ![c].asked = Lease]
  /\ UNCHANGED <<db, seen, late>>

\* renewRole; the statement may still run when its caller is gone or draining.
\* A refusal is final, so it may as well arrive at once.
RenewCommit(c) ==
  /\ cand[c].renew = "sent"
  /\ IF fence = "active" /\ mode # "versioned" /\ Owned(c) /\ Live
     THEN /\ lease' = [lease EXCEPT !.left = Lease]
          /\ cand' = [cand EXCEPT ![c].renew = "yes"]
     ELSE /\ cand' = [cand EXCEPT ![c].renew = "none", ![c].asked = 0,
                        ![c].pc   = IF @ \in Renews THEN "lost" ELSE @,
                        ![c].left = IF cand[c].pc \in Renews THEN 0 ELSE @]
          /\ UNCHANGED lease
  /\ UNCHANGED <<fence, mode, boots, quarantine, token, seen, late>>

\* An answer that arrives while renewals are stopped is ignored.
RenewReply(c) ==
  /\ cand[c].renew = "yes"
  /\ cand' = [cand EXCEPT
       ![c].renew = "none", ![c].asked = 0,
       ![c].left   = IF cand[c].pc \in Renews THEN cand[c].asked ELSE @,
       ![c].proven = @ \/ cand[c].pc \in Renews]
  /\ UNCHANGED <<db, seen, late>>

\* The connection broke: the next period tries again.
RenewRetry(c) ==
  /\ cand[c].renew # "none"
  /\ cand' = [cand EXCEPT ![c].renew = "none", ![c].asked = 0]
  /\ UNCHANGED <<db, seen, late>>

\* The deadline has passed, or a renewal took too long or failed otherwise.
Lose(c) ==
  /\ \/ cand[c].pc \in Renews \cup {"restart"} /\ cand[c].left = 0
     \/ cand[c].pc \in Renews /\ cand[c].renew # "none"
  /\ To(c, "lost")
  /\ UNCHANGED <<db, seen, late>>

-----------------------------------------------------------------------------
(* The end of a child *)

\* SIGTERM; a lease that was granted meanwhile is given back without a child.
Stop(c) ==
  /\ \/ cand[c].pc \in Renews \cup {"restart"} /\ To(c, "shutdown")
     \/ cand[c].pc = "granted" /\ Leave(c, "releasing")
     \/ cand[c].pc = "standby" /\ Leave(c, "down")
  /\ UNCHANGED <<db, seen, late>>

\* A primary whose progress stalls drains its child and ends for a restart.
StallRestart(c) ==
  /\ c \in Primaries /\ cand[c].pc = "active"
  /\ To(c, "restart")
  /\ UNCHANGED <<db, seen, late>>

\* The child has ended.  Only a clean exit leads to a release or a yield; a lost
\* lease sends the candidate back to the election, or to a release if SIGTERM
\* came meanwhile; anything else ends it.
ChildEnds(c) ==
  /\ cand[c].pc \in HasChild
  /\ \/ cand[c].pc = "lost" /\ Leave(c, "standby")
     \/ cand[c].pc \in {"lost", "shutdown"} /\ Leave(c, "releasing")
     \/ cand[c].pc = "handoff" /\ Leave(c, "yielding")
  /\ UNCHANGED <<db, seen, late>>

\* Crash, failed drain, drain timeout, unexpected end of the child.
Crash(c) ==
  /\ cand[c].pc # "down"
  /\ Leave(c, "down")
  /\ UNCHANGED <<db, seen, late>>

\* A running tick holds the token; one that nobody holds may be stale by now.
Working == \E c \in Instances : cand[c].work /\ cand[c].epoch = token
TokenFree == token = 0 \/ ~Working

\* releaseRole: takes no look at the fence; while draining it waits for the job.
Release(c) ==
  /\ cand[c].pc = "releasing"
  /\ \/ /\ mode # "versioned" /\ Owner(c)
        /\ mode = "draining" => TokenFree
        /\ lease' = [lease EXCEPT !.owner = NoOwner, !.boot = 0, !.left = 0]
        /\ boots' = IF c \in Primaries THEN NoBoots ELSE boots
        /\ token' = 0
     \/ /\ mode = "versioned" \/ ~Owner(c) \/ (mode = "draining" /\ token # 0)
        /\ UNCHANGED <<lease, boots, token>>
  /\ Leave(c, "down")
  /\ UNCHANGED <<fence, mode, quarantine, seen, late>>

-----------------------------------------------------------------------------
(* Handing the role back to a waiting primary *)

\* A primary that is not elected records that it waits, as long as it could be
\* elected; one that is, or stops, overwrites the record.
Observe(p) ==
  /\ cand[p].pc # "down"
  /\ seen' = [seen EXCEPT ![p] = IF cand[p].pc \in {"standby", "asking"}
                                 THEN [boot |-> cand[p].boot, release |-> cand[p].release, age |-> 0]
                                 ELSE NotSeen]
  /\ seen' # seen
  /\ UNCHANGED <<db, cand, late>>

\* readWaitingPrimary, as p: the observation may be up to Fresh old.
Waiting(c, p) ==
  /\ Owned(c) /\ Live /\ quarantine = 0
  /\ seen[p].age <= Fresh
  /\ seen[p].release = cand[c].release

\* Every sample; the same boot must have been seen for Stable (or longer, after
\* handoffs that failed) before the child is drained.
Watch(c) ==
  /\ c \in Standbys /\ cand[c].pc = "active"
  /\ \/ /\ \A p \in Primaries : ~Waiting(c, p)
        /\ cand' = [cand EXCEPT ![c].watch = 0, ![c].held = 0]
     \/ \E p \in Primaries :
          /\ Waiting(c, p)
          /\ \/ /\ seen[p].boot # cand[c].watch
                /\ cand' = [cand EXCEPT ![c].watch = seen[p].boot, ![c].held = 0]
             \/ /\ seen[p].boot = cand[c].watch /\ cand[c].held = Stable
                /\ To(c, "handoff")
  /\ cand' # cand
  /\ UNCHANGED <<db, seen, late>>

\* Mutant: the yield leaves leaseUntil to run out.
YieldWithoutExpiry(c) ==
  /\ cand[c].pc = "yielding"
  /\ token' = IF Open /\ Owned(c) /\ Live THEN 0 ELSE token
  /\ Leave(c, "standby")
  /\ UNCHANGED <<fence, mode, lease, boots, quarantine, seen, late>>

\* yieldRoleToPrimary: expires the lease, keeps the owner for the Grace.
Yield(c) ==
  /\ cand[c].pc = "yielding"
  /\ IF Open /\ Owned(c) /\ Live
     THEN lease' = [lease EXCEPT !.left = 0] /\ token' = 0
     ELSE UNCHANGED <<lease, token>>
  /\ Leave(c, "standby")
  /\ UNCHANGED <<fence, mode, boots, quarantine, seen, late>>

-----------------------------------------------------------------------------
(* The job of the role: the two ends of a tick (JobRunner has the rest) *)

\* assertRoleLease and the claim are one transaction.
ClaimJob(c) ==
  /\ cand[c].pc \in HasChild /\ ~cand[c].work
  /\ Open /\ Owned(c) /\ Live /\ TokenFree
  /\ token' = cand[c].epoch
  /\ cand' = [cand EXCEPT ![c].work = TRUE]
  /\ UNCHANGED <<fence, mode, lease, boots, quarantine, seen, late>>

\* A tick stores its result only with its token.
EndJob(c) ==
  /\ cand[c].pc \in HasChild /\ cand[c].work
  /\ IF fence = "active" /\ token = cand[c].epoch
     THEN /\ token' = 0
          /\ late' = late \cup ({cand[c].epoch} \ {lease.epoch})
     ELSE UNCHANGED <<token, late>>
  /\ cand' = [cand EXCEPT ![c].work = FALSE]
  /\ UNCHANGED <<fence, mode, lease, boots, quarantine, seen>>

-----------------------------------------------------------------------------
(* The rest of the world *)

FenceSite ==
  /\ fence = "active"
  /\ fence' = "fenced"
  /\ UNCHANGED <<mode, lease, boots, quarantine, token, seen, cand, late>>

\* beginJobBatchDrain and completeJobBatchTransition to versioned.
ChangeMode ==
  /\ \/ mode = "legacy" /\ mode' = "draining"
     \/ /\ mode = "draining" /\ mode' = "versioned"
        /\ ~(lease.owner # NoOwner /\ Live) /\ TokenFree
  /\ UNCHANGED <<fence, lease, boots, quarantine, token, seen, cand, late>>

Less(n) == IF n > 0 THEN n - 1 ELSE 0

\* One unit on every clock.
Elapse ==
  /\ lease' = [lease EXCEPT !.left = IF @ > -Grace THEN @ - 1 ELSE @]
  /\ quarantine' = Less(quarantine)
  /\ boots' = [a \in Ages |-> IF a = 0 THEN 0 ELSE boots[a - 1]]
  /\ seen' = [p \in Primaries |->
                IF seen[p].age < Fresh THEN [seen[p] EXCEPT !.age = @ + 1]
                ELSE NotSeen]
  /\ cand' = [c \in Instances |->
                [cand[c] EXCEPT !.left = Less(@), !.asked = Less(@),
                   !.held = IF cand[c].watch > 0 /\ @ < Stable THEN @ + 1 ELSE @]]
  /\ <<lease, quarantine, boots, seen, cand>>' # <<lease, quarantine, boots, seen, cand>>
  /\ UNCHANGED <<fence, mode, token, late>>

\* Somebody is slower than the periods of the code: a lease that is about to end
\* although its holder runs, a waiting primary whose observation is about to age
\* out, or an expired lease that it has not asked for.
Overdue ==
  \/ \E c \in Instances : cand[c].pc \in {"asking", "granted"} \cup Renews /\ cand[c].left <= 1
  \/ \E p \in Primaries :
       /\ cand[p].pc \in {"standby", "asking"}
       /\ \/ seen[p].boot # cand[p].boot \/ seen[p].age >= Fresh
          \/ ~Live /\ quarantine = 0

Time  == ~Overdue /\ Elapse
Delay == Overdue /\ Elapse

-----------------------------------------------------------------------------
Candidacy(c) ==
  \/ \E r \in Releases : Start(c, r)
  \/ Ask(c) \/ Refuse(c) \/ Reconfirm(c) \/ GateRefuses(c) \/ QuarantineRole(c)
  \/ Elect(c) \/ AskFails(c) \/ Receive(c)

Leadership(c) ==
  \/ RenewSend(c) \/ RenewCommit(c) \/ RenewReply(c) \/ RenewRetry(c) \/ Lose(c)
  \/ Stop(c) \/ StallRestart(c) \/ ChildEnds(c) \/ Crash(c) \/ Release(c)
  \/ Watch(c) \/ Yield(c)

Next ==
  \/ \E c \in Instances : Candidacy(c) \/ Leadership(c) \/ ClaimJob(c) \/ EndJob(c)
  \/ \E p \in Primaries : Observe(p)
  \/ FenceSite \/ ChangeMode \/ Time \/ Delay

Spec == Init /\ [][Next]_vars

-----------------------------------------------------------------------------
(* Properties *)

\* Types of the row, of its observations and of the candidate processes.
TypeOK ==
  /\ fence \in {"active", "fenced"} /\ mode \in {"legacy", "draining", "versioned"}
  /\ lease \in RoleRow
  /\ boots \in [Ages -> Nat]
  /\ quarantine \in 0..Quarantine /\ token \in 0..MaxEpoch
  /\ seen \in [Primaries -> [boot : Nat, release : Releases, age : 0..(Fresh + 1)]]
  /\ cand \in [Instances -> Candidate]
  /\ late \subseteq 1..MaxEpoch

\* A child that its own watchdog would keep alive.
Serving(c) == cand[c].pc \in HasChild \ {"lost"} /\ cand[c].left > 0

\* Two candidates run a child within their deadlines only if the older one has
\* merely found its lease again (tryAcquireRole's early return) and not renewed
\* it since.  The deadlines are kept by processes that cannot see each other,
\* through lost answers, retries, handoffs and releases.
NoOverlap ==
  \A c, d \in Instances :
    Serving(c) /\ Serving(d) /\ cand[c].epoch < cand[d].epoch => ~cand[c].proven

\* "A superseded runner must not save a cursor or a late result after this
\* commits": a child that outlives its epoch stores nothing once the next epoch
\* is elected, however long it takes to die.
NoLateResult == late = {}

\* "leaseDeadline is extended only by a successful renewal": while a child runs
\* within its deadline the row still belongs to its boot, at least that long.
WatchdogWithinLease ==
  \A c \in Instances : Serving(c) => Owned(c) /\ cand[c].left <= lease.left

-----------------------------------------------------------------------------
(* Progress *)

\* A candidate's own loop, its renewals, and the end of its child each go on; at
\* every point of the three just one of the listed steps is possible (the child
\* of a lost lease may end in two ways).
Loop(c)  == Ask(c) \/ Refuse(c) \/ Reconfirm(c) \/ QuarantineRole(c) \/ Elect(c) \/ Receive(c)
Renew(c) == RenewSend(c) \/ RenewCommit(c) \/ RenewReply(c)
End(c)   == ChildEnds(c) \/ Release(c) \/ Yield(c)

Fairness ==
  /\ WF_vars(Time)
  /\ \A p \in Primaries : WF_vars(Observe(p))
  /\ \A c \in Instances :
       /\ WF_vars(Loop(c)) /\ WF_vars(Renew(c)) /\ WF_vars(End(c))
       /\ WF_vars(Lose(c)) /\ WF_vars(Watch(c))

\* No operator closes the role, and its jobs stand still: neither sets an
\* election back, a closed role is nobody's.
Undisturbed ==
  \/ \E c \in Instances : Candidacy(c) \/ Leadership(c)
  \/ \E p \in Primaries : Observe(p)
  \/ Time \/ Delay

LiveSpec == Init /\ [][Undisturbed]_vars /\ Fairness

\* What keeps a role from settling: failures of processes, calls and clocks, and
\* the operator.  A call that fails where it would be refused anyway, or whose
\* answer changes nothing, is none.
Disturbance ==
  \/ Delay
  \/ \E c \in Instances :
       \/ GateRefuses(c) \/ Stop(c) \/ StallRestart(c) \/ Crash(c)
       \/ cand[c].pc = "lost" /\ ChildEnds(c) /\ cand'[c].pc = "releasing"
       \/ AskFails(c) /\ ~Refuse(c)
       \/ RenewRetry(c) /\ ~RenewCommit(c) /\ ~RenewReply(c)
       \/ cand[c].left > 0 /\ Lose(c)

Up(c) == cand[c].pc # "down"

\* A leader that runs and renews, or rather: after the last failure the role is
\* led for good whenever a candidate of its release is up, by a standby too when
\* no primary comes back.
RoleIsLed ==
  <>[][~Disturbance]_vars /\ (\E c \in Instances : <>[](Up(c) /\ cand[c].release = lease.release))
    => <>[](lease.epoch = MaxEpoch \/ \E c \in Instances : cand[c].pc = "active")

\* A primary of the same release that keeps waiting gets its role back from the
\* standby that took it over: the standby drains, yields and does not find its
\* own lease again.
PrimaryReturns ==
  \A p \in Primaries :
    <>[][~Disturbance]_vars /\ <>[](Up(p) /\ cand[p].release = lease.release)
      => <>[](\A s \in Standbys : cand[s].pc # "active")

=============================================================================
