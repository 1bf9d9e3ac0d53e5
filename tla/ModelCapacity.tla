--------------------------- MODULE ModelCapacity ---------------------------
(***************************************************************************)
(* The model capacity ledger: lib/llm/capacity-repository.ts.  A job that  *)
(* wants to call a model asks for a slot of the engine that serves it,     *)
(* polls until one of its own or another's polls reserves it, turns the    *)
(* reservation into a dispatch, makes the call and settles the row.        *)
(*                                                                         *)
(* Transactions that write admissions lock the one control row, so each is *)
(* one action; owner-gone locks only the request row and is one action     *)
(* too.  Between them: callers that stop or lose an answer, calls that go  *)
(* on at the engine after their caller gave up, an operator who drains,    *)
(* renames the engine's group, appends routes, closes rows by review.      *)
(*                                                                         *)
(* One engine; the policy says which group it is counted under.            *)
(***************************************************************************)
EXTENDS Integers, FiniteSets, FiniteSetsExt

CONSTANTS
  Requests,    \* request ids; every retry brings a new one
  Settings,    \* engines, workloads and operators to look at
  MaxWaiting, MaxChain, \* policy: queue length; predecessors a policy names
  Groups,      \* names a policy may count the engine under
  MaxRevision  \* bound: policies

\* members: the logical work of a request.  rank: 1 is the engine's own role.
\* steps: requests that are the one step of a chain (tagline, verify).
\* waiters: those whose caller waits for the slot (assist).  limit, cap,
\* reserve: the device, its slots, the others' cap, the slots kept free.
\* drills: what the operator does, the modes he sets and "fence".  revisions:
\* how many policies he writes, a bound.
ASSUME SettingsAssumption ==
  /\ IsFiniteSet(Requests)
  /\ {MaxWaiting, MaxChain, MaxRevision} \subseteq Nat
  /\ \A x \in Settings :
       /\ {x.limit, x.cap, x.reserve} \subseteq Nat /\ x.cap <= x.limit /\ x.reserve < x.limit
       /\ x.rank \in [Requests -> 1..2] /\ DOMAIN x.members = Requests
       /\ x.revisions \in 1..MaxRevision

VARIABLES
  setting,  \* the one of this behaviour
  mode, revision, group, chain, \* model_capacity_control and its policy
  fenced,   \* the writer fence of this database
  rows,     \* model_capacity_requests
  caller,   \* the process of each request
  running   \* engine: calls in progress

control == <<setting, mode, revision, group, chain, fenced>>
vars == <<control, rows, caller, running>>

-----------------------------------------------------------------------------
(* Rows *)

Live == {"waiting", "reserved", "dispatched"}
Occupying == {"reserved", "dispatched"}
Unsettled == {"dispatched", "indeterminate"}
Sent == {"dispatched", "indeterminate", "settled"}
Closed == {"settled", "withdrawn"}

\* late: queue_until or reserved_until is over.  reviewed: the evidence that
\* closed the row is an operator's review.
Row == [state : Live \cup Closed \cup {"absent", "indeterminate"}, revision : 0..MaxRevision,
        group : Groups, late : BOOLEAN, reviewed : BOOLEAN]
Absent == [state |-> "absent", revision |-> 0, group |-> CHOOSE g \in Groups : TRUE,
           late |-> FALSE, reviewed |-> FALSE]

Init ==
  /\ setting \in Settings
  /\ mode = "open" /\ revision = 1 /\ group \in Groups /\ chain = {} /\ fenced = FALSE
  /\ rows = [r \in Requests |-> Absent]
  /\ caller = [r \in Requests |-> "idle"]
  /\ running = {}

In(rs, states) == {r \in Requests : rs[r].state \in states}
\* A fenced database is seen as draining.
Mode == IF fenced THEN "draining" ELSE mode

\* expireRequests
Expired(rs) == [r \in Requests |->
  IF /\ ~fenced
     /\ \/ rs[r].state = "reserved" /\ rs[r].late
        \/ rs[r].state = "waiting" /\ (rs[r].late \/ rs[r].revision # revision)
    THEN [rs[r] EXCEPT !.state = "withdrawn"] ELSE rs[r]]

-----------------------------------------------------------------------------
(* Admission *)

\* Mutant: a step sent and not confirmed does not hold its repetition back.
BlockedByLive(rs, r) == \E q \in In(rs, Live) \ {r} : setting.members[q] \cap setting.members[r] # {}

\* The fences of the logical keys: another live row shares a member, or the
\* step was sent before.
Blocked(rs, r) == \E q \in Requests \ {r} :
  \/ rs[q].state \in Live /\ setting.members[q] \cap setting.members[r] # {}
  \/ {q, r} \subseteq setting.steps /\ setting.members[q] = setting.members[r] /\ rs[q].state \in Sent

\* Mutant: calls of an ended policy do not hold admissions back.
NoStrangersReservedOnly(rs) == \A q \in In(rs, {"reserved"}) : rs[q].revision \in chain \cup {revision}
\* Slots in use are of this policy or of one it names as its predecessor.
NoStrangers(rs) == \A q \in In(rs, Occupying) : rs[q].revision \in chain \cup {revision}

Admits(rs, r) ==
  /\ mode = "open"
  /\ NoStrangers(rs)
  /\ rs[r].state = "waiting" \/ Cardinality(In(rs, {"waiting"})) < MaxWaiting

Set(rs, q, row) == [p \in Requests |-> IF p = q THEN row ELSE rs[p]]
Queued(rs, r) == IF rs[r].state = "waiting" THEN rs ELSE
  Set(rs, r, [Absent EXCEPT !.state = "waiting", !.revision = revision, !.group = group])

Holders(rs) == {q \in In(rs, Occupying) : rs[q].group = group}
Candidates(rs) == {q \in In(rs, {"waiting"}) : rs[q].revision = revision /\ ~rs[q].late}
Primary(qs) == {q \in qs : setting.rank[q] = 1}
\* recent: a row of the engine's own role was written within idle_ms.
Busy(rs, recent) == recent \/ Primary(Candidates(rs) \cup Holders(rs)) # {}

\* Mutant: the primary role idle, the others may fill the engine.
FitsWithoutReserve(rs, q, recent) ==
  /\ Cardinality(Holders(rs)) < setting.limit
  /\ \/ setting.rank[q] = 1
     \/ ~Busy(rs, recent)
     \/ Cardinality(Holders(rs) \ Primary(Holders(rs))) < setting.cap
Fits(rs, q, recent) ==
  /\ Cardinality(Holders(rs)) < setting.limit
  /\ \/ setting.rank[q] = 1
     \/ Cardinality(Holders(rs) \ Primary(Holders(rs)))
          < IF Busy(rs, recent) THEN setting.cap ELSE Max({setting.cap, setting.limit - setting.reserve})

\* What grantOne may leave: one row reserved, of the first rank that fits.
\* Among its rows the queue order, which is left out, decides.
Grants(rs, recent) ==
  LET fitting == {q \in Candidates(rs) : Fits(rs, q, recent)}
      first == {q \in fitting : \A p \in fitting : setting.rank[q] <= setting.rank[p]}
  IN IF fitting = {} THEN {rs} ELSE {Set(rs, q, [rs[q] EXCEPT !.state = "reserved"]) : q \in first}

Become(r, value) == caller' = [caller EXCEPT ![r] = value]

\* requestSlot, polled once a tick or once a second.  Its answer may be lost.
Poll(r, recent) ==
  /\ caller[r] = "idle" /\ ~fenced
  /\ recent => \E q \in Primary(Requests) : rows[q].group = group /\ rows[q].state # "absent"
  /\ LET swept == Expired(rows)
         queued == swept[r].state \in {"absent", "waiting"}
     IN \/ /\ Blocked(swept, r) \/ (queued /\ ~Admits(swept, r))
           /\ rows' = swept /\ UNCHANGED caller
        \/ /\ ~Blocked(swept, r) /\ ~queued
           /\ rows' = swept
           /\ Become(r, IF swept[r].state = "reserved" THEN "holding" ELSE "over")
        \/ /\ ~Blocked(swept, r) /\ queued /\ Admits(swept, r)
           /\ rows' \in Grants(Queued(swept, r), recent)
           /\ \/ UNCHANGED caller
              \/ rows'[r].state = "reserved" /\ Become(r, "holding")
  /\ UNCHANGED <<control, running>>

\* A poll of another request, turned away after the sweep (its route is not
\* mapped, its device not configured).
Sweep == ~fenced /\ rows' = Expired(rows) /\ UNCHANGED <<control, caller, running>>

\* queue_until or reserved_until passes.
Age(r) ==
  /\ rows[r].state \in {"waiting", "reserved"} /\ ~rows[r].late
  /\ rows' = [rows EXCEPT ![r].late = TRUE]
  /\ UNCHANGED <<control, caller, running>>

-----------------------------------------------------------------------------
(* Dispatch, or giving the slot back *)

Closing(r, state) == rows' = [rows EXCEPT ![r].state = state, ![r].late = FALSE]

\* Mutant: the policy of the reservation is not compared with the current.
DispatchableOld(r) == rows[r].state = "reserved" /\ Mode = "open" /\ ~Blocked(rows, r)
Dispatchable(r) ==
  rows[r].state = "reserved" /\ Mode = "open" /\ rows[r].revision = revision /\ ~Blocked(rows, r)

\* dispatchLocalModelCapacity, and the lock and finish pairs of the bound
\* kinds, each pair one transaction.  lost: it commits, its caller sees an error.
Dispatch(r, lost) ==
  /\ caller[r] = "holding" /\ Dispatchable(r) /\ ~rows[r].late
  /\ rows' = [rows EXCEPT ![r].state = "dispatched"]
  /\ Become(r, IF lost THEN "quitting" ELSE "sending")
  /\ UNCHANGED <<control, running>>

\* The domain proof refuses: the reservation is withdrawn with the reason.
DomainRefused(r) ==
  /\ caller[r] = "holding" /\ Dispatchable(r)
  /\ Closing(r, "withdrawn") /\ Become(r, "quitting")
  /\ UNCHANGED <<control, running>>

\* The ledger refuses, an error, or the caller's deadline.
Quit(r) ==
  /\ caller[r] = "holding" \/ (caller[r] = "idle" /\ r \in setting.waiters)
  /\ Become(r, "quitting")
  /\ UNCHANGED <<control, rows, running>>

\* cancelReservedModelSlot; a waiter's cancelOwnPendingLocalModelRequest.
Cancel(r) ==
  /\ caller[r] = "quitting"
  /\ LET swept == IF r \in setting.waiters THEN rows ELSE Expired(rows)
         own == IF r \in setting.waiters THEN ~fenced /\ swept[r].state \in {"waiting", "reserved"}
                ELSE swept[r].state = "reserved" /\ ~swept[r].late
         expired == r \notin setting.waiters /\ swept[r].state = "reserved" /\ swept[r].late
     IN rows' = IF own \/ expired THEN [swept EXCEPT ![r].state = "withdrawn"] ELSE swept
  /\ Become(r, "over")
  /\ UNCHANGED <<control, running>>

\* withdrawUndispatchedAi2ItemForFallback: the vote goes to another model.
FallBack(r) ==
  /\ \/ caller[r] = "idle" /\ rows[r].state = "waiting"
     \/ caller[r] = "holding" /\ rows[r].state = "reserved"
  /\ Mode = "open" /\ rows[r].revision = revision /\ ~rows[r].late /\ ~Blocked(rows, r)
  /\ Closing(r, "withdrawn") /\ Become(r, "over")
  /\ UNCHANGED <<control, running>>

-----------------------------------------------------------------------------
(* The call and its end *)

\* requestReservedLocalModel starts, or proves that no byte was written.
Send(r) ==
  /\ caller[r] = "sending"
  /\ \/ Become(r, "calling") /\ running' = running \cup {r}
     \/ Become(r, "unsent") /\ UNCHANGED running
  /\ UNCHANGED <<control, rows>>

\* External: the engine ends a call; a waiting caller gets the answer or an error.
CallEnds(r) ==
  /\ r \in running /\ running' = running \ {r}
  /\ IF caller[r] = "calling" THEN \E got \in {"answered", "failed"} : Become(r, got) ELSE UNCHANGED caller
  /\ UNCHANGED <<control, rows>>

\* The caller's deadline or abort; the engine goes on.
Timeout(r) ==
  /\ caller[r] = "calling" /\ Become(r, "failed")
  /\ UNCHANGED <<control, rows, running>>

\* Mutant: a row the operator closed takes a late answer.
SettlesClosed(r) == IF caller[r] = "answered" THEN rows[r].state \in Sent \cup {"withdrawn"} ELSE rows[r].state = "dispatched"
\* What takes an answer, and what takes the proof that nothing was sent.
Settles(r) == IF caller[r] = "answered" THEN rows[r].state \in Unsettled ELSE rows[r].state = "dispatched"

\* reconcile*Terminal and reconcileGatewayNotStarted; the transaction or its
\* answer may be lost, and then the row is to be marked.
Settle(r) ==
  /\ caller[r] \in {"answered", "unsent"}
  /\ \/ /\ Settles(r)
        /\ Closing(r, "settled")
        /\ \/ Become(r, "over")
           \/ Become(r, "failed")
     \/ UNCHANGED rows /\ Become(r, "failed")
  /\ UNCHANGED <<control, running>>

\* Mutant: a call given up is withdrawn, its slot free.
MarkClosed(r) ==
  /\ caller[r] = "failed"
  /\ rows' = IF rows[r].state = "dispatched" THEN [rows EXCEPT ![r].state = "withdrawn"] ELSE rows
  /\ Become(r, "over")
  /\ UNCHANGED <<control, running>>

\* markModelDispatchIndeterminate
Mark(r) ==
  /\ caller[r] = "failed"
  /\ LET swept == Expired(rows)
     IN rows' = IF swept[r].state = "dispatched" THEN [swept EXCEPT ![r].state = "indeterminate"] ELSE swept
  /\ Become(r, "over")
  /\ UNCHANGED <<control, running>>

\* The process of the request ends.
Crash(r) ==
  /\ caller[r] \notin {"over", "dead"} /\ Become(r, "dead")
  /\ UNCHANGED <<control, rows, running>>

\* markOwnerGoneDispatchIndeterminate: the evidence (30 minutes without a
\* sign, a later boot) may be wrong about a process that was only suspended.
OwnerGone(r) ==
  /\ rows[r].state = "dispatched" /\ ~fenced
  /\ rows' = [rows EXCEPT ![r].state = "indeterminate"]
  /\ UNCHANGED <<control, caller, running>>

Reviewable(r) == rows[r].state = "indeterminate"

\* closeModelCapacityUnknownReview
Review(r) ==
  /\ ~fenced /\ Reviewable(r)
  /\ rows' = [rows EXCEPT ![r].state = "withdrawn", ![r].reviewed = TRUE]
  /\ UNCHANGED <<control, caller, running>>

\* releaseModelDispatchWithEvidence.  External: evidence that the call ended
\* and its process too.
Release(r) ==
  /\ rows[r].state \in Unsettled /\ r \notin running /\ caller[r] \in {"over", "dead"}
  /\ Closing(r, "withdrawn")
  /\ UNCHANGED <<control, caller, running>>

-----------------------------------------------------------------------------
(* The operator *)

\* setModelCapacityMode: only over draining.
SetMode(m) ==
  /\ m \in setting.drills /\ (Mode = "draining") # (m = "draining")
  /\ mode' = m
  /\ UNCHANGED <<setting, revision, group, chain, fenced, rows, caller, running>>

\* A policy may name predecessors this one vouches for, if it only adds to it.
Vouched(to, names) == names = {} \/ (to = group /\ names \subseteq chain \cup {revision})

\* setModelCapacityPolicy
SetPolicy(to, names) ==
  /\ Mode # "open" /\ revision < setting.revisions
  /\ Vouched(to, names) /\ Cardinality(names) <= MaxChain
  /\ revision' = revision + 1 /\ group' = to /\ chain' = names
  /\ UNCHANGED <<setting, mode, fenced, rows, caller, running>>

\* appendCompatibleRoutes: in any mode; predecessors with live rows are kept.
Append ==
  /\ ~fenced /\ revision < setting.revisions
  /\ chain' = {g \in chain \cup {revision} : \E r \in In(rows, Live) : rows[r].revision = g}
  /\ Cardinality(chain') <= MaxChain
  /\ revision' = revision + 1
  /\ UNCHANGED <<setting, mode, group, fenced, rows, caller, running>>

\* fenceWriterSite: this database is not opened again.
Fence ==
  /\ "fence" \in setting.drills /\ ~fenced /\ fenced' = TRUE
  /\ UNCHANGED <<setting, mode, revision, group, chain, rows, caller, running>>

Next ==
  \/ \E r \in Requests, recent \in BOOLEAN : Poll(r, recent)
  \/ Sweep
  \/ \E r \in Requests : Age(r)
  \/ \E r \in Requests, lost \in BOOLEAN : Dispatch(r, lost)
  \/ \E r \in Requests : DomainRefused(r)
  \/ \E r \in Requests : Quit(r)
  \/ \E r \in Requests : Cancel(r)
  \/ \E r \in Requests : FallBack(r)
  \/ \E r \in Requests : Send(r)
  \/ \E r \in Requests : CallEnds(r)
  \/ \E r \in Requests : Timeout(r)
  \/ \E r \in Requests : Settle(r)
  \/ \E r \in Requests : Mark(r)
  \/ \E r \in Requests : Crash(r)
  \/ \E r \in Requests : OwnerGone(r)
  \/ \E r \in Requests : Review(r)
  \/ \E r \in Requests : Release(r)
  \/ \E m \in {"disabled", "draining", "open"} : SetMode(m)
  \/ \E to \in Groups, names \in SUBSET (1..revision) : SetPolicy(to, names)
  \/ Append
  \/ Fence

Spec == Init /\ [][Next]_vars

-----------------------------------------------------------------------------
(* Properties *)

\* Types; a policy names at most MaxChain predecessors, all earlier ones.
TypeOK ==
  /\ setting \in Settings
  /\ mode \in {"disabled", "draining", "open"} /\ revision \in 1..MaxRevision
  /\ group \in Groups /\ fenced \in BOOLEAN
  /\ chain \subseteq 1..(revision - 1) /\ Cardinality(chain) <= MaxChain
  /\ rows \in [Requests -> Row] /\ running \subseteq Requests
  /\ caller \in [Requests -> {"idle", "holding", "quitting", "sending", "calling", "answered",
                              "unsent", "failed", "over", "dead"}]

\* Whatever the operator renames or appends while calls are under way, the
\* engine never has more reservations and calls not given up than slots:
\* the count is by group name, so an earlier policy must not hide a call
\* (capacity-repository.ts:637-643).
EngineNotOversold == Cardinality(In(rows, Occupying)) <= setting.limit

\* The rows of the other roles leave the slots reserved for the engine's own
\* role, whoever was idle when each of them was let in (capacity-devices.ts:235).
OthersLeaveReserve ==
  Cardinality(In(rows, Occupying) \ Primary(Requests)) <= Max({setting.cap, setting.limit - setting.reserve})

\* Two live rows never share a member of their work, so no judgment is asked
\* for twice at once, and a reservation never runs into the unique index of
\* another's work, which would fail every poll (capacity-repository.ts:607-620).
OneLivePerMember ==
  \A q, r \in In(rows, Live) : q # r => setting.members[q] \cap setting.members[r] = {}

\* The one step of a chain is sent once until somebody closes its row
\* (capacity-states.ts:21, crawlTaglineFence).
StepSentOnce ==
  \A q, r \in setting.steps \cap In(rows, Sent) : setting.members[q] = setting.members[r] => q = r

\* The row of a call that its caller still makes is a slot in use, unless the
\* process was judged gone; once given up it stays open to the late answer
\* until an operator closes it (capacity-repository.ts:737, 829).
CallsAreCounted == \A r \in Requests :
  caller[r] \in {"sending", "calling"} \/ r \in running =>
    rows[r].state \in Unsettled \/ rows[r].reviewed

\* A call begins only under the policy that granted its slot, while the
\* ledger is open: a drained ledger starts nothing (capacity-repository.ts:675).
NoStaleDispatch == [][\A r \in Requests :
  rows[r].state # "dispatched" /\ rows'[r].state = "dispatched" =>
    /\ mode = "open" /\ ~fenced /\ rows[r].revision = revision
    /\ \A q \in In(rows, {"dispatched"}) : rows[q].revision \in chain \cup {revision}]_vars

\* A settled or withdrawn row is not written again: marks, owner-gone, late
\* answers, reviews and releases may come in any order
\* (capacity-repository.ts:737-852, 926-958).
ClosedStaysClosed == [][\A r \in In(rows, Closed) : rows'[r] = rows[r]]_vars
=============================================================================
