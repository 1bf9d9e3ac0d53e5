--------------------------- MODULE FetchFrontier ---------------------------
(***************************************************************************)
(* One repository in the crawl frontier and everybody who may fetch it:    *)
(* lib/crawl/repository.ts (recoverAbandonedFrontier, dequeueWithAdmission,*)
(* claimFetchItem, saveFetchedDocument, markFrontier, markFailed,          *)
(* deferFrontier, requeue), lib/crawl/fetch-ownership.ts and               *)
(* lib/jobs/items/repository.ts (stage modes and item leases).             *)
(*                                                                         *)
(* In legacy mode the entry is fetched by ticks of the job crawl-fetch and *)
(* the job lease is the authority; in items mode by consumers that hold a  *)
(* lease of their own for the entry.  The operator moves the stage between *)
(* the two through draining.  A claim is recognised by the attempt number  *)
(* and the deadline it wrote into the entry.                               *)
(*                                                                         *)
(* Every action is one transaction: it locks the stage row first (claims   *)
(* FOR SHARE, the operator FOR UPDATE), then the entry, the item row, the  *)
(* job row, and reads the clock after the last lock.  The fetching itself  *)
(* happens between two actions.                                            *)
(***************************************************************************)
EXTENDS Naturals, FiniteSets

CONSTANTS
  Workers,      \* processes that run ticks of crawl-fetch
  Consumers,    \* item owners (instance and boot)
  Nobody,       \* a token or owner that is NULL
  MaxAttempts,  \* MAX_ATTEMPTS
  Hold,         \* the 10 minutes a claim keeps its entry, in time units
  Backoff,      \* BACKOFF_MINUTES, one value for all attempts
  Ttl,          \* ttlMs of an item lease
  MaxClaims,    \* bound: claims of the entry
  MaxEpoch      \* bound: 9007199254740991, the last stage epoch

ASSUME PartiesAssumption ==
  /\ Workers \cap Consumers = {}
  /\ Nobody \notin Workers \cup Consumers
ASSUME NumbersAssumption ==
  /\ {MaxAttempts, Hold, Ttl, MaxEpoch} \subseteq Nat \ {0}
  /\ {Backoff, MaxClaims} \subseteq Nat

VARIABLES
  fence,    \* dr_writer_fence.state
  stage,    \* the row of pipeline_stage_modes for "fetch"
  job,      \* lease of the job crawl-fetch
  ticks,    \* workers with a tick in memory
  entry,    \* the row of crawl_frontier
  item,     \* the row of pipeline_item_leases for the entry
  doc,      \* the claim whose document is stored in crawl_documents
  claim,    \* what each party remembers of the claim it got
  \* history, read by no action of the code:
  wanted,   \* a fetch was asked for and no claim taken since then settled it
  owing,    \* parties whose claim was taken after the last such request
  failures, \* attempts that ended in an error since attempts was last 0
  ranOut    \* claims since then that were taken over after their deadline

db   == <<fence, stage, job, entry, item, doc>>
hist == <<wanted, owing, failures, ranOut>>
vars == <<fence, stage, job, ticks, entry, item, doc, claim,
          wanted, owing, failures, ranOut>>

-----------------------------------------------------------------------------
(* Data *)

Parties == Workers \cup Consumers
Modes   == {"legacy", "draining", "items"}

\* serial identifies next_attempt_at: each claim writes a new deadline, at
\* millisecond precision; 0 is any time that is no claim's deadline.  issued is
\* the last serial handed out.
Entry == [state : {"pending", "fetching", "done", "skipped", "failed"},
          attempts : 0..MaxClaims, wait : 0..(Hold + Backoff),
          serial : 0..MaxClaims, issued : 0..MaxClaims, old : BOOLEAN]
Item  == [owner : Consumers \cup {Nobody}, epoch : 0..MaxClaims,
          stageEpoch : 0..MaxEpoch, left : 0..Ttl]
Claim == [serial : 0..MaxClaims, attempts : 0..MaxClaims,
          stageEpoch : 0..MaxEpoch, itemEpoch : 0..MaxClaims]

NoClaim == [serial |-> 0, attempts |-> 0, stageEpoch |-> 0, itemEpoch |-> 0]
Claims(p) == claim[p] # NoClaim

LiveItem == item.owner # Nobody /\ item.left > 0
JobLease(w) == job.token = w /\ job.fresh
Terminal == {"done", "skipped", "failed"}

\* canFinish: draining lets the owners of the mode it leaves finish.
CanFinish(c) ==
  /\ stage.contract >= 1
  /\ stage.epoch = c.stageEpoch
  /\ stage.mode = "items" \/ (stage.mode = "draining" /\ stage.from = "items")

\* Mutant: the claim is recognised by its numbers and not by the entry's state.
HoldsByNumber(p) == entry.attempts <= claim[p].attempts /\ entry.state \notin Terminal

\* fetchClaimPredicate
Holds(p) ==
  /\ entry.state = "fetching"
  /\ entry.attempts = claim[p].attempts
  /\ entry.serial = claim[p].serial

\* assertFetchOwnership followed by finishFetchOwnership, in one transaction.
Owns(p) ==
  LET c == claim[p] IN
  IF p \in Workers
  THEN /\ stage.epoch = c.stageEpoch
       /\ stage.mode = "legacy" \/ (stage.mode = "draining" /\ stage.from = "legacy")
       /\ ~LiveItem
       /\ JobLease(p)
  ELSE /\ CanFinish(c)
       /\ item.owner = p /\ item.epoch = c.itemEpoch
       /\ item.stageEpoch = c.stageEpoch /\ item.left > 0

\* An entry written by a claim, by the end of one or by a request.
Put(state, attempts, wait, serial) ==
  [state |-> state, attempts |-> attempts, wait |-> wait, serial |-> serial,
   issued |-> IF serial > entry.issued THEN serial ELSE entry.issued, old |-> FALSE]

Released(p) == IF p \in Consumers THEN [item EXCEPT !.owner = Nobody, !.left = 0]
                                  ELSE item

\* greatest(0, n - 1): attempts taken back, and the time left to a deadline.
Minus1(n) == IF n > 0 THEN n - 1 ELSE 0

-----------------------------------------------------------------------------
Init ==
  /\ fence = "active"
  /\ stage = [mode |-> "legacy", from |-> "legacy", epoch |-> 1, contract |-> 0]
  /\ job = [token |-> Nobody, fresh |-> FALSE]
  /\ ticks = {}
  /\ entry = [state |-> "pending", attempts |-> 0, wait |-> 0, serial |-> 0,
              issued |-> 0, old |-> FALSE]
  /\ item = [owner |-> Nobody, epoch |-> 0, stageEpoch |-> 0, left |-> 0]
  /\ doc = 0
  /\ claim = [p \in Parties |-> NoClaim]
  /\ wanted = TRUE /\ owing = {} /\ failures = 0 /\ ranOut = 0

-----------------------------------------------------------------------------
(* The stage and its operator *)

BumpContract ==
  /\ stage.mode = "legacy" /\ stage.contract = 0  \* bound: one attestation
  /\ stage' = [stage EXCEPT !.contract = 1]
  /\ UNCHANGED <<fence, job, ticks, entry, item, doc, claim, hist>>

BeginDrain ==
  /\ stage.contract >= 1 /\ stage.mode # "draining"
  /\ stage' = [stage EXCEPT !.mode = "draining", !.from = stage.mode]
  /\ UNCHANGED <<fence, job, ticks, entry, item, doc, claim, hist>>

Drained == item.left = 0

\* No forced end: the transition waits for the items (drainingFrom is read only
\* while draining, so it stays as it is).
CompleteTransition(target) ==
  /\ stage.contract >= 1 /\ stage.mode = "draining"
  /\ Drained
  /\ stage.epoch < MaxEpoch
  /\ stage' = [stage EXCEPT !.mode = target, !.epoch = @ + 1]
  /\ UNCHANGED <<fence, job, ticks, entry, item, doc, claim, hist>>

FenceSite ==
  /\ fence = "active"
  /\ fence' = "fenced"
  /\ UNCHANGED <<stage, job, ticks, entry, item, doc, claim, hist>>

-----------------------------------------------------------------------------
(* Claims *)

\* The claim of crawl-fetch by runJob: free or stale, and not on a fenced site.
\* Whatever was updated before this moment is older than the tick.
StartTick(w) ==
  /\ w \notin ticks
  /\ fence = "active"
  /\ job.token = Nobody \/ ~job.fresh
  /\ job' = [token |-> w, fresh |-> TRUE]
  /\ ticks' = ticks \cup {w}
  /\ entry' = [entry EXCEPT !.old = TRUE]
  /\ UNCHANGED <<fence, stage, item, doc, claim, hist>>

\* Mutant: what the dead tick had started counts as a failed attempt.
RecoveredAsFailed == entry.attempts

\* The attempt the dead tick had begun is taken back.
RecoveredAttempts == Minus1(entry.attempts)

\* Mutant: the recovery does not ask when the entry was last written.
RecoverMine(w) ==
  /\ w \in ticks
  /\ stage.mode = "legacy"
  /\ entry.state = "fetching" /\ ~LiveItem
  /\ JobLease(w)
  /\ entry' = Put("pending", RecoveredAttempts, 0, 0)
  /\ UNCHANGED <<fence, stage, job, ticks, item, doc, claim, hist>>

\* recoverAbandonedFrontier
Recover(w) ==
  /\ w \in ticks
  /\ stage.mode = "legacy"
  /\ entry.state = "fetching" /\ entry.old /\ ~LiveItem
  /\ JobLease(w)
  /\ entry' = Put("pending", RecoveredAttempts, 0, 0)
  /\ UNCHANGED <<fence, stage, job, ticks, item, doc, claim, hist>>

Due == entry.state \in {"pending", "fetching"} /\ entry.wait = 0

Take(p, itemEpoch) ==
  /\ entry.issued < MaxClaims
  /\ entry' = Put("fetching", entry.attempts + 1, Hold, entry.issued + 1)
  /\ claim' = [claim EXCEPT ![p] = [serial |-> entry.issued + 1,
       attempts |-> entry.attempts + 1, stageEpoch |-> stage.epoch,
       itemEpoch |-> itemEpoch]]
  /\ owing' = owing \cup {p}
  /\ ranOut' = IF entry.state = "fetching" THEN ranOut + 1 ELSE ranOut
  /\ UNCHANGED <<wanted, failures>>

\* dequeueWithAdmission.  A tick asks again only when its batch has settled.
Dequeue(w) ==
  /\ w \in ticks /\ ~Claims(w)
  /\ stage.mode = "legacy"
  /\ Due /\ ~LiveItem
  /\ JobLease(w)
  /\ Take(w, 0)
  /\ UNCHANGED <<fence, stage, job, ticks, item, doc>>

\* Mutant: a lease that ran out is not given to anybody else.
FreeItemReleased == item.owner = Nobody

\* The condition of the UPDATE in claimItemLease.
FreeItem == item.owner = Nobody \/ item.left = 0

\* claimFetchItem with claimItemLease
ClaimItem(o) ==
  /\ ~Claims(o)
  /\ fence = "active"
  /\ stage.mode = "items" /\ stage.contract >= 1
  /\ Due
  /\ FreeItem
  /\ item.epoch < MaxClaims
  /\ Take(o, item.epoch + 1)
  /\ item' = [owner |-> o, epoch |-> item.epoch + 1,
              stageEpoch |-> stage.epoch, left |-> Ttl]
  /\ UNCHANGED <<fence, stage, job, ticks, doc>>

\* renewItemLease: the owner extends a lease that has not run out.
RenewItem(o) ==
  /\ Claims(o) /\ Owns(o)
  /\ item.left < Ttl
  /\ item' = [item EXCEPT !.left = Ttl]
  /\ UNCHANGED <<fence, stage, job, ticks, entry, doc, claim, hist>>

-----------------------------------------------------------------------------
(* The end of a claim *)

\* The transaction of an owner whose entry has moved on releases the lease and
\* writes nothing; otherwise the entry becomes what the outcome says.
Settle(p, outcome) ==
  /\ Claims(p) /\ Owns(p)
  /\ entry' = IF Holds(p) THEN outcome ELSE entry
  /\ item' = Released(p)
  /\ claim' = [claim EXCEPT ![p] = NoClaim]
  /\ UNCHANGED <<fence, stage, job, ticks>>

Answered(p) ==
  /\ wanted' = (wanted /\ ~(Holds(p) /\ p \in owing))
  /\ owing' = owing \ {p}

Ends(p) == owing' = owing \ {p} /\ UNCHANGED wanted

\* Mutant: the document is stored before anybody asks whose claim it was.
SaveFirst(p) ==
  /\ Claims(p)
  /\ doc' = claim[p].serial
  /\ claim' = [claim EXCEPT ![p] = NoClaim]
  /\ UNCHANGED <<fence, stage, job, ticks, entry, item, hist>>

\* saveFetchedDocument: the document and the end of the entry are one commit.
\* A repository already stored under another name only ends the entry.
Save(p) ==
  /\ \/ /\ Settle(p, Put("done", entry.attempts, entry.wait, entry.serial))
        /\ doc' = IF Holds(p) THEN claim[p].serial ELSE doc
     \/ /\ Settle(p, Put("skipped", entry.attempts, entry.wait, entry.serial))
        /\ UNCHANGED doc
  /\ Answered(p)
  /\ UNCHANGED <<failures, ranOut>>

\* markFrontier(..., "skipped"): the repository is gone or empty.
Skip(p) ==
  /\ Settle(p, Put("skipped", entry.attempts, entry.wait, entry.serial))
  /\ Answered(p)
  /\ UNCHANGED <<doc, failures, ranOut>>

\* markFailed: again after the backoff, or for good when the attempts are used up.
Fail(p) ==
  /\ IF entry.attempts >= MaxAttempts
     THEN /\ Settle(p, Put("failed", entry.attempts, entry.wait, entry.serial))
          /\ Answered(p)
     ELSE /\ Settle(p, Put("pending", entry.attempts, Backoff, 0))
          /\ Ends(p)
  /\ failures' = IF Holds(p) THEN failures + 1 ELSE failures
  /\ UNCHANGED <<doc, ranOut>>

\* deferFrontier: the claim is given back, now or at retryAt.
Defer(p, retry) ==
  /\ Settle(p, Put("pending", Minus1(entry.attempts), retry, 0))
  /\ Ends(p)
  /\ UNCHANGED <<doc, failures, ranOut>>

\* Every ending transaction of a party that is no longer the owner rolls back;
\* the exception ends the tick (its token stays behind if it was revoked).
Refused(p) ==
  /\ Claims(p) /\ ~Owns(p)
  /\ claim' = [claim EXCEPT ![p] = NoClaim]
  /\ Ends(p)
  /\ UNCHANGED <<db, ticks, failures, ranOut>>

\* The tick is acknowledged or fails.  A claim whose lane threw stays "fetching".
EndTick(w) ==
  /\ w \in ticks
  /\ ticks' = ticks \ {w}
  /\ job' = IF JobLease(w) THEN [token |-> Nobody, fresh |-> FALSE] ELSE job
  /\ claim' = [claim EXCEPT ![w] = NoClaim]
  /\ Ends(w)
  /\ UNCHANGED <<fence, stage, entry, item, doc, failures, ranOut>>

Crash(p) ==
  /\ p \in ticks \/ Claims(p)
  /\ ticks' = ticks \ {p}
  /\ claim' = [claim EXCEPT ![p] = NoClaim]
  /\ Ends(p)
  /\ UNCHANGED <<db, failures, ranOut>>

-----------------------------------------------------------------------------
(* Others who touch the rows *)

Wanted ==
  /\ wanted' = TRUE /\ owing' = {} /\ failures' = 0 /\ ranOut' = 0
  /\ UNCHANGED <<fence, stage, job, ticks, item, doc, claim>>

\* requeue: whatever the entry is doing.
Requeue ==
  /\ entry.issued > 0 /\ entry.issued < MaxClaims
  /\ entry' = Put("pending", 0, 0, 0)
  /\ Wanted

\* Others ask for a fresh source; a cooldown after an error may stay in force.
\* The review stages take an entry at rest that no item owns, the operator's
\* reconsideration also one that is pending, and does not look at the items.
Refresh(wait) ==
  /\ entry.state # "fetching"
  /\ entry' = Put("pending", 0, wait, 0)
  /\ Wanted

\* A dead tick's lock reaches STALE_LOCK_MS.
Expire ==
  /\ job.fresh /\ job.token \notin ticks
  /\ job' = [token |-> job.token, fresh |-> FALSE]
  /\ UNCHANGED <<fence, stage, ticks, entry, item, doc, claim, hist>>

\* A live tick does not heartbeat for that long, or its token is revoked.
LoseJob ==
  /\ job.fresh /\ job.token \in ticks
  /\ \E t \in {job.token, Nobody} : job' = [token |-> t, fresh |-> FALSE]
  /\ UNCHANGED <<fence, stage, ticks, entry, item, doc, claim, hist>>

Time ==
  /\ entry.wait > 0 \/ item.left > 0
  /\ entry' = [entry EXCEPT !.wait = Minus1(@)]
  /\ item' = [item EXCEPT !.left = Minus1(@)]
  /\ UNCHANGED <<fence, stage, job, ticks, doc, claim, hist>>

-----------------------------------------------------------------------------
Operator == \/ BumpContract \/ BeginDrain \/ FenceSite
            \/ \E m \in {"legacy", "items"} : CompleteTransition(m)

Next ==
  \/ Operator
  \/ \E w \in Workers : StartTick(w) \/ Recover(w) \/ Dequeue(w) \/ EndTick(w)
  \/ \E o \in Consumers : ClaimItem(o) \/ RenewItem(o)
  \/ \E p \in Parties : \/ Save(p) \/ Skip(p) \/ Fail(p) \/ Refused(p) \/ Crash(p)
                        \/ \E t \in {0, Backoff} : Defer(p, t)
  \/ Requeue \/ \E t \in {0, entry.wait} : Refresh(t)
  \/ LoseJob \/ Expire \/ Time

Spec == Init /\ [][Next]_vars

-----------------------------------------------------------------------------
(* Properties *)

TypeOK ==
  /\ fence \in {"active", "fenced"}
  /\ stage \in [mode : Modes, from : {"legacy", "items"}, epoch : 1..MaxEpoch,
                contract : 0..1]
  /\ job \in [token : Workers \cup {Nobody}, fresh : BOOLEAN]
  /\ ticks \subseteq Workers
  /\ entry \in Entry
  /\ item \in Item
  /\ doc \in 0..MaxClaims
  /\ claim \in [Parties -> Claim]
  /\ wanted \in BOOLEAN
  /\ owing \subseteq Parties
  /\ failures \in 0..MaxClaims /\ ranOut \in 0..MaxClaims

\* A worker that lost its claim and resumes never overwrites the document a later
\* claim has stored: only the newest claim of the entry stores one.
NewestClaimSaves == [][doc' # doc => doc' = entry.issued]_vars

\* A fetch that is asked for while one is running is not swallowed by the end of
\* the running one: the entry is at rest only when a claim taken after the last
\* request has settled it.
RequestsSurvive == wanted => entry.state \notin Terminal

\* Only errors and deadlines use up the attempts of an entry.  Waits for quota,
\* budget or an origin, and ticks that died, are not failed attempts, and a
\* request starts the count anew.
AttemptsAreFailures ==
  entry.state \in {"pending", "fetching", "failed"} =>
    entry.attempts = failures + ranOut + (IF entry.state = "fetching" THEN 1 ELSE 0)

\* The operator never takes the stage away under a live item: its owner can still
\* renew and finish, in items mode and in the drain that leaves it.
LiveItemCanFinish == LiveItem => CanFinish([stageEpoch |-> item.stageEpoch])

\* A party that has the job or a live item still finds its entry as it left it,
\* unless somebody asked for the fetch again in between; so what it fetched is
\* never thrown away for nothing.
OwnersKeepTheirEntry ==
  \A p \in Parties : Claims(p) /\ Owns(p) /\ p \in owing => Holds(p)

\* The frontier keeps the promise of AskedWork: through drains, mode changes,
\* recoveries and takeovers, an entry comes to rest only when somebody who
\* claimed it after the last request ends it (fetchClaimPredicate).
Queue == INSTANCE AskedWork WITH
  Workers <- Parties, pending <- entry.state \notin Terminal,
  working <- {p \in Parties : Claims(p)}, informed <- {p \in owing : Claims(p)}
ServesThoseWhoAsk == Queue!Spec

\* What keeps a fetch from settling.
Setback ==
  \/ Operator \/ Requeue \/ LoseJob
  \/ \E w \in Workers : EndTick(w) /\ Claims(w)
  \/ \E p \in Parties : Crash(p) \/ \E t \in {0, Backoff} : Defer(p, t)

\* Ticks keep coming and end, lanes and consumers settle what they took, time
\* passes.
Settles(p) == Save(p) \/ Skip(p) \/ Fail(p) \/ Refused(p)

Fairness ==
  /\ WF_vars(Time) /\ WF_vars(Expire)
  /\ \A w \in Workers : /\ SF_vars(StartTick(w)) /\ WF_vars(EndTick(w) /\ ~Claims(w))
                        /\ SF_vars(Dequeue(w)) /\ SF_vars(Recover(w))
  /\ \A o \in Consumers : SF_vars(ClaimItem(o))
  /\ \A p \in Parties : WF_vars(Settles(p))

LiveSpec == Spec /\ Fairness

\* Whatever died, stalled, was deferred or moved between the modes before: an
\* entry somebody wants is fetched, skipped or given up in the end, unless the
\* operator stops in a drain or fences the site.
WantedIsSettled ==
  <>[][~Setback]_vars =>
    (wanted ~> (~wanted \/ stage.mode = "draining" \/ fence = "fenced"
                \/ entry.issued = MaxClaims))

=============================================================================
