---------------------------- MODULE UptimeClaims ----------------------------
(***************************************************************************)
(* The shared uptime checks of lib/domain/products/uptime-claims.ts and    *)
(* uptime-apply.ts: one row of uptime_claims per product, taken by probe   *)
(* instances (which only submit what they saw) and by the home instances,  *)
(* one of which holds the job uptime-ping and alone writes product_health  *)
(* from submitted results and from its own.                                *)
(*                                                                         *)
(* A claim takes two statements in one transaction, and another claim may  *)
(* commit between them, or between the second one and the commit; what     *)
(* keeps one origin to one owner is an advisory lock, kept to the commit,  *)
(* and the second statement's look at the rows.                            *)
(*                                                                         *)
(* Abstracted: token and epoch of a claim change together and one token,   *)
(* fresh among those still remembered anywhere, stands for both; due,      *)
(* lease and cool-down are flags that time flips; the ratios that open a   *)
(* host breaker are a choice when a batch has failures.                    *)
(***************************************************************************)
EXTENDS Naturals, FiniteSets

CONSTANTS
  Products,
  Origins, OriginOf,   \* scheme and host of a product's URL
  Homes, Probes,       \* instances of the policy, by class; each its own host
  ProbeSize,           \* policy.breaker.probeSize
  Tripping,            \* instances whose breaker may open
  Outcomes,            \* of a check; unknown: statuses 401, 403, 429, 999
  Tokens, NoToken,     \* tokens of claims, more than can be remembered at once
  MaxSeen,             \* bound: home checks of one address that fail in a row
  MaxControl,          \* bound: changes of the split's mode and policy
  MaxVersion           \* bound: changes of a product

Owners == Homes \cup Probes

ASSUME InstancesAssumption ==
  /\ IsFiniteSet(Products) /\ IsFiniteSet(Owners) /\ Homes # {}
  /\ Homes \cap Probes = {}
  /\ OriginOf \in [Products -> Origins] /\ Tripping \subseteq Owners
ASSUME BoundsAssumption == {ProbeSize, MaxSeen, MaxControl, MaxVersion} \subseteq Nat \ {0}
ASSUME TokensAssumption ==
  /\ NoToken \notin Tokens /\ IsFiniteSet(Tokens)
  /\ Cardinality(Tokens) > Cardinality(Owners)
ASSUME OutcomesAssumption == Outcomes \subseteq {"ok", "failed", "unknown"}

VARIABLES
  control,  \* uptime_split_control: mode and epoch
  version,  \* products: the address now, by product
  claim,    \* uptime_claims, by product
  health,   \* product_health, by product: failures in a row, of which version
  breaker,  \* uptime_host_breakers, by owner
  job,      \* the home instance that holds the lease of uptime-ping
  picked,   \* rows the open claim transaction of an owner has locked
  ticket,   \* claims and results in the memory of an owner, by product
  \* history, read by no action of the code:
  seen      \* home checks of the present address that failed in a row, by product

memory == <<picked, ticket>>
uptimeVars == <<control, version, claim, health, breaker, job, picked, ticket, seen>>

-----------------------------------------------------------------------------
(* Data *)

Results == {"none"} \cup Outcomes

ClaimRow == [state : {"idle", "claimed", "submitted"}, token : Tokens \cup {NoToken},
          control : 0..MaxControl, owner : Owners, live : BOOLEAN, version : 0..MaxVersion,
          trial : BOOLEAN,     \* taken while the host's breaker was probing
          due : BOOLEAN, confirm : BOOLEAN, affinity : BOOLEAN, result : Results,
          answer : Results]    \* history: what was seen under the token
Ticket == [token : Tokens \cup {NoToken}, result : Results]
NoTicket == [token |-> NoToken, result |-> "none"]
\* held: the transaction has tried the locks of its origins; looked: its second
\* statement has run; at: the addresses it read.  Rows it drops on the way are let
\* go at once here; in the code they stay locked, and keep others out, to its end.
NoClaim == [rows |-> {}, held |-> FALSE, looked |-> FALSE, at |-> [p \in Products |-> 0]]
Health == [failures : Nat, version : 0..MaxVersion]
Breaker == [state : {"closed", "open", "probing"}, checks : 0..ProbeSize]
Closed == [state |-> "closed", checks |-> 0]

UptimeInit ==
  /\ control = [mode |-> "claims", epoch |-> 1]
  /\ version = [p \in Products |-> 1]
  /\ claim = [p \in Products |->
       [state |-> "idle", token |-> NoToken, control |-> 0, owner |-> CHOOSE h \in Homes : TRUE,
        live |-> FALSE, version |-> 0, trial |-> FALSE, due |-> TRUE, confirm |-> FALSE,
        affinity |-> FALSE, result |-> "none", answer |-> "none"]]
  /\ health = [p \in Products |-> [failures |-> 0, version |-> 1]]
  /\ breaker = [o \in Owners |-> Closed]
  /\ job \in Homes
  /\ picked = [o \in Owners |-> NoClaim]
  /\ ticket = [o \in Owners |-> [p \in Products |-> NoTicket]]
  /\ seen = [p \in Products |-> 0]

-----------------------------------------------------------------------------
(* Claiming *)

\* Another instance has a live claim on the origin.
Taken(o, p) ==
  \E q \in Products : /\ OriginOf[q] = OriginOf[p] /\ claim[q].owner # o
                      /\ claim[q].state = "claimed" /\ claim[q].live

\* Failures in a row of the product as it is; other failures are reset when counted.
Failing(p) == health[p].failures > 0

Candidate(o, p) ==
  /\ claim[p].due
  /\ \/ claim[p].state = "idle"
     \/ claim[p].state = "claimed" /\ ~claim[p].live
  /\ o \in Probes \/ breaker[o].state = "probing" => ~claim[p].confirm /\ ~Failing(p)
  /\ o \in Probes => ~claim[p].affinity
  /\ ~Taken(o, p)

\* Trial claims of a probing host that are out or not yet applied.
InFlight(o) ==
  {p \in Products : /\ claim[p].owner = o /\ claim[p].trial
                    /\ claim[p].state = "submitted" \/ (claim[p].state = "claimed" /\ claim[p].live)}

\* Mutant: trial claims that are out are not counted.
AllowanceOfTheRest(o) ==
  CASE breaker[o].state = "closed"  -> Cardinality(Products)
    [] breaker[o].state = "open"    -> 0
    [] breaker[o].state = "probing" -> ProbeSize - breaker[o].checks

Allowance(o) ==
  CASE breaker[o].state = "closed"  -> Cardinality(Products)
    [] breaker[o].state = "open"    -> 0
    [] breaker[o].state = "probing" ->
         LET used == breaker[o].checks + Cardinality(InFlight(o)) IN
         IF used < ProbeSize THEN ProbeSize - used ELSE 0

Locked == UNION {picked[o].rows : o \in Owners}
\* Mutant: the locks of origins are not tried.
OriginsNotLocked(o) == {}
OriginsHeldBeside(o) ==
  {OriginOf[p] : p \in UNION {picked[x].rows : x \in {x \in Owners \ {o} : picked[x].held}}}

\* The first statement of claimUptimeProducts looks for candidates and locks their
\* rows, passing over rows that are locked.  A home instance claims inside the job.
Pick(o) ==
  /\ control.mode = "claims" /\ picked[o] = NoClaim
  /\ \A p \in Products : ticket[o][p] = NoTicket
  /\ o \in Homes => job = o
  /\ \E S \in SUBSET {p \in Products \ Locked : Candidate(o, p)} :
       /\ S # {} /\ Cardinality(S) <= Allowance(o)
       /\ picked' = [picked EXCEPT ![o] = [rows |-> S, held |-> FALSE, looked |-> FALSE,
            at |-> [p \in Products |-> IF p \in S THEN version[p] ELSE 0]]]
  /\ UNCHANGED <<control, version, claim, health, breaker, job, ticket, seen>>

\* It tries the advisory lock of each origin; rows whose origin is locked are dropped.
LockOrigins(o) ==
  /\ picked[o].rows # {} /\ ~picked[o].held
  /\ picked' = [picked EXCEPT ![o].held = TRUE,
       ![o].rows = {p \in @ : OriginOf[p] \notin OriginsHeldBeside(o)}]
  /\ UNCHANGED <<control, version, claim, health, breaker, job, ticket, seen>>

\* The second statement looks again at the origin, with its lock held; what it
\* writes nobody sees before the commit.
LookAgain(o) ==
  /\ picked[o].held /\ ~picked[o].looked
  /\ picked' = [picked EXCEPT ![o].looked = TRUE, ![o].rows = {p \in @ : ~Taken(o, p)}]
  /\ UNCHANGED <<control, version, claim, health, breaker, job, ticket, seen>>

\* gen_random_uuid.
Fresh(p) == CHOOSE k \in Tokens : k # claim[p].token /\ \A o \in Owners : ticket[o][p].token # k

Granted(o, p) ==
  [claim[p] EXCEPT !.state = "claimed", !.token = Fresh(p), !.control = control.epoch,
                   !.owner = o, !.live = TRUE, !.version = picked[o].at[p],
                   !.trial = breaker[o].state = "probing", !.result = "none", !.answer = "none"]

Grant(o) ==
  /\ picked[o].looked
  /\ claim' = [p \in Products |-> IF p \in picked[o].rows THEN Granted(o, p) ELSE claim[p]]
  /\ ticket' = [ticket EXCEPT ![o] = [p \in Products |->
       IF p \in picked[o].rows THEN [token |-> Fresh(p), result |-> "none"] ELSE NoTicket]]
  /\ picked' = [picked EXCEPT ![o] = NoClaim]
  /\ UNCHANGED <<control, version, health, breaker, job, seen>>

-----------------------------------------------------------------------------
(* Checking, submitting, releasing *)

\* The instance opens the claimed address.
Check(o, p) ==
  /\ ticket[o][p] # NoTicket /\ ticket[o][p].result = "none"
  /\ \E result \in Outcomes :
       /\ result = "failed" => seen[p] < MaxSeen
       /\ ticket' = [ticket EXCEPT ![o][p].result = result]
       /\ IF claim[p].token = ticket[o][p].token
          THEN claim' = [claim EXCEPT ![p].answer = result] ELSE UNCHANGED claim
       /\ IF /\ o \in Homes /\ result = "failed"
             /\ claim[p].token = ticket[o][p].token /\ claim[p].version = version[p]
          THEN seen' = [seen EXCEPT ![p] = @ + 1] ELSE UNCHANGED seen
  /\ UNCHANGED <<control, version, health, breaker, job, picked>>

\* Mutant: a row that is claimed is taken to be one's own.
MineIfClaimed(o, p) == claim[p].state = "claimed"

\* The row is still under the claim of the ticket.
Mine(o, p) ==
  /\ claim[p].state = "claimed" /\ claim[p].owner = o
  /\ claim[p].token = ticket[o][p].token

DropTickets(o, S) == ticket' = [ticket EXCEPT ![o] = [p \in Products |->
                           IF p \in S THEN NoTicket ELSE ticket[o][p]]]

\* Results in the memory of an instance; those submitUptimeResults takes; the row then.
Checked(o) == {p \in Products : ticket[o][p].result # "none"}
Accepted(o) ==
  {p \in Checked(o) : Mine(o, p) /\ claim[p].control = control.epoch /\ control.mode = "claims"}
AsSubmitted(o, p) ==
  [claim[p] EXCEPT !.state = "submitted", !.live = FALSE, !.result = ticket[o][p].result]

\* submitUptimeResults, with the answer lost or not: what it did not take is lost.
\* Blocked under a legacy mode; then the instance abandons its batch.
Submit(o) ==
  /\ o \in Probes /\ Checked(o) # {} /\ Checked(o) \cap Locked = {}
  /\ claim' = [p \in Products |-> IF p \in Accepted(o) THEN AsSubmitted(o, p) ELSE claim[p]]
  /\ \E S \in {{}, Checked(o)} : DropTickets(o, S)
  /\ claim' # claim \/ ticket' # ticket
  /\ UNCHANGED <<control, version, health, breaker, job, picked, seen>>

\* Columns that only a claim gives a meaning are cleared too.
Idle(c) == [c EXCEPT !.state = "idle", !.token = NoToken, !.live = FALSE, !.result = "none",
                     !.answer = "none", !.control = 0, !.version = 0, !.trial = FALSE,
                     !.owner = CHOOSE h \in Homes : TRUE]

\* releaseUptimeClaims at the end of a batch or tick: what was not opened, was not
\* taken, or could not be applied goes back.
Release(o) ==
  /\ \E S \in (SUBSET {p \in Products \ Locked : ticket[o][p] # NoTicket}) \ {{}} :
       /\ claim' = [p \in Products |-> IF p \in S /\ Mine(o, p)
            THEN Idle(claim[p]) ELSE claim[p]]
       /\ DropTickets(o, S)
  /\ UNCHANGED <<control, version, health, breaker, job, picked, seen>>

\* The process dies, or forgets a ticket whose result has a bad shape.
Forget(o) ==
  /\ \E p \in Products : ticket[o][p] # NoTicket
  /\ ticket' = [ticket EXCEPT ![o] = [p \in Products |-> NoTicket]]
  /\ UNCHANGED <<control, version, claim, health, breaker, job, picked, seen>>

-----------------------------------------------------------------------------
(* Applying *)

Settled(c) == [Idle(c) EXCEPT !.due = FALSE, !.confirm = FALSE]

\* decideSplitResults for results r of the products S: what belongs to the present
\* claim, and of it what may be judged.
Current(S, r) == {p \in S : claim[p].state # "idle" /\ claim[p].token = r[p].token}
Judged(S, r) ==
  {p \in Current(S, r) : /\ control.mode = "claims" /\ claim[p].control = control.epoch
                         /\ claim[p].version = version[p]}

\* Mutant: the streak of an earlier address goes on.
FailuresContinued(p) == health[p].failures + 1

\* splitResetStreak: failures of an earlier address are not continued.
Failures(p) == IF health[p].version = version[p] THEN health[p].failures + 1 ELSE 1

\* Only a home's own failure counts, and only beside a closed breaker.
Counts(p, result, countable) ==
  result = "failed" /\ claim[p].owner \in Homes /\ countable

ClaimAfter(p, result, countable) ==
  CASE result = "ok" ->
         [Settled(claim[p]) EXCEPT !.affinity = @ \/ (claim[p].confirm /\ claim[p].owner \in Homes)]
    [] result # "ok" /\ claim[p].owner \in Probes ->
         IF countable THEN [Idle(claim[p]) EXCEPT !.due = TRUE, !.confirm = TRUE] ELSE Idle(claim[p])
    [] OTHER -> Settled(claim[p])

HealthAfter(p, result, countable) ==
  CASE result = "ok" -> [failures |-> 0, version |-> version[p]]
    [] Counts(p, result, countable) -> [failures |-> Failures(p), version |-> version[p]]
    [] result = "unknown" /\ claim[p].owner \in Homes ->
         [failures |-> Failures(p) - 1, version |-> version[p]]
    [] OTHER -> health[p]

\* settleUptimeBreaker: a closed host opens on a bad batch, a probing one closes after
\* ProbeSize trial results or opens again when one of them failed.
BreakerAfter(o, rows, r, trips) ==
  LET trial == {p \in rows : claim[p].trial}
      checks == breaker[o].checks + Cardinality(trial) IN
  CASE breaker[o].state = "closed" -> IF o \in trips THEN [Closed EXCEPT !.state = "open"] ELSE Closed
    [] breaker[o].state = "open"   -> breaker[o]
    [] OTHER -> IF \E p \in trial : r[p].result # "ok" THEN [Closed EXCEPT !.state = "open"]
                ELSE IF checks >= ProbeSize THEN Closed ELSE [breaker[o] EXCEPT !.checks = checks]

\* applyUptimeResults: rows, health and breakers in one transaction, which also
\* proves the job lease.
ApplyResults(S, r) ==
  LET rows == Judged(S, r)
      of(o) == {p \in rows : claim[p].owner = o}
      bad == {o \in Owners : \E p \in of(o) : r[p].result # "ok"} IN
  \E trips \in SUBSET {o \in bad \cap Tripping : breaker[o].state = "closed"} :
    LET countable(p) == breaker[claim[p].owner].state = "closed" /\ claim[p].owner \notin trips IN
    /\ claim' = [p \in Products |->
         IF p \in rows THEN ClaimAfter(p, r[p].result, countable(p))
         ELSE IF p \in Current(S, r) THEN Idle(claim[p]) ELSE claim[p]]
    /\ health' = [p \in Products |->
         IF p \in rows THEN HealthAfter(p, r[p].result, countable(p)) ELSE health[p]]
    /\ breaker' = [o \in Owners |-> BreakerAfter(o, of(o), r, trips)]
    /\ seen' = [p \in Products |-> IF p \in rows /\ r[p].result = "ok" THEN 0 ELSE seen[p]]

\* The submitted rows, at the start of the home's tick, in either mode.
ApplySubmitted(h) ==
  /\ job = h
  /\ \E S \in SUBSET {p \in Products \ Locked : claim[p].state = "submitted"} :
       S # {} /\ ApplyResults(S, [p \in Products |-> [token |-> claim[p].token, result |-> claim[p].result]])
  /\ UNCHANGED <<control, version, job, memory>>

\* The home's own results, all of them at once.
ApplyOwn(h) ==
  /\ job = h /\ Checked(h) # {} /\ Checked(h) \cap Locked = {}
  /\ ApplyResults(Checked(h), ticket[h])
  /\ DropTickets(h, Checked(h))
  /\ UNCHANGED <<control, version, job, picked>>

-----------------------------------------------------------------------------
(* The world *)

\* The lease of a claim, the affinity or the cool-down ends; a product is due again.
Expire(p) ==
  /\ claim[p].state = "claimed" /\ claim[p].live /\ p \notin Locked
  /\ claim' = [claim EXCEPT ![p].live = FALSE]
  /\ UNCHANGED <<control, version, health, breaker, job, memory, seen>>
Due(p) ==
  /\ claim[p].state = "idle" /\ ~claim[p].due
  /\ \E affinity \in {FALSE, claim[p].affinity} :
       claim' = [claim EXCEPT ![p].due = TRUE, ![p].affinity = affinity]
  /\ UNCHANGED <<control, version, health, breaker, job, memory, seen>>
Cool(o) ==
  /\ breaker[o].state = "open" /\ picked[o].rows = {}   \* minutes, not one transaction
  /\ breaker' = [breaker EXCEPT ![o] = [state |-> "probing", checks |-> 0]]
  /\ claim' = [p \in Products |-> IF claim[p].owner = o   \* claimed before this trial
                                 THEN [claim[p] EXCEPT !.trial = FALSE] ELSE claim[p]]
  /\ UNCHANGED <<control, version, health, job, memory, seen>>

\* The product's address is changed.
Edit(p) ==
  /\ version[p] < MaxVersion
  /\ version' = [version EXCEPT ![p] = @ + 1]
  /\ seen' = [seen EXCEPT ![p] = 0]
  /\ UNCHANGED <<control, claim, health, breaker, job, memory>>

\* runUptimeSplitControl: claim transactions hold the control row FOR SHARE.
SetControl ==
  /\ control.epoch < MaxControl /\ Locked = {}
  /\ \E mode \in {"claims", "legacy"} : control' = [mode |-> mode, epoch |-> control.epoch + 1]
  /\ UNCHANGED <<version, claim, health, breaker, job, memory, seen>>

\* Another home instance takes over the job.
TakeJob(h) ==
  /\ job # h /\ job' = h
  /\ UNCHANGED <<control, version, claim, health, breaker, memory, seen>>

UptimeNext ==
  \/ \E o \in Owners : Pick(o) \/ LockOrigins(o) \/ LookAgain(o) \/ Grant(o)
                       \/ Submit(o) \/ Release(o) \/ Forget(o) \/ Cool(o)
  \/ \E o \in Owners, p \in Products : Check(o, p)
  \/ \E h \in Homes : ApplySubmitted(h) \/ ApplyOwn(h) \/ TakeJob(h)
  \/ \E p \in Products : Expire(p) \/ Due(p) \/ Edit(p)
  \/ SetControl

UptimeSpec == UptimeInit /\ [][UptimeNext]_uptimeVars

-----------------------------------------------------------------------------
(* Properties *)

\* Every variable has its type.
UptimeTypeOK ==
  /\ control \in [mode : {"claims", "legacy"}, epoch : 1..MaxControl]
  /\ version \in [Products -> 1..MaxVersion] /\ claim \in [Products -> ClaimRow]
  /\ health \in [Products -> Health] /\ breaker \in [Owners -> Breaker]
  /\ job \in Homes /\ picked \in [Owners -> [rows : SUBSET Products, held : BOOLEAN, looked : BOOLEAN,
                                        at : [Products -> 0..MaxVersion]]]
  /\ ticket \in [Owners -> [Products -> Ticket]]
  /\ seen \in [Products -> Nat]

\* Two instances never have live claims on one origin, however their claim
\* transactions overlap.
OneOwnerPerOrigin ==
  \A p, q \in Products :
    /\ OriginOf[p] = OriginOf[q]
    /\ claim[p].state = "claimed" /\ claim[p].live
    /\ claim[q].state = "claimed" /\ claim[q].live
    => claim[p].owner = claim[q].owner

\* A submitted result is the one seen under the claim that the row carries: a late
\* submission after the row went to someone else is refused.
ResultsMatchTheirClaim ==
  \A p \in Products : claim[p].state = "submitted" => claim[p].result = claim[p].answer

\* The failures in a row that hide and delist a product were each seen by a home
\* instance at the present address: none is counted twice, none comes from a
\* probe, and none from the address before.
FailuresWereSeenAtHome ==
  \A p \in Products :
    health[p].version = version[p] => health[p].failures <= seen[p]

\* A host that is being tried after an outage is not given more work than the trial.
TrialsAreLimited ==
  \A o \in Owners : breaker[o].state = "probing" =>
    breaker[o].checks + Cardinality(InFlight(o)) <= ProbeSize

=============================================================================
