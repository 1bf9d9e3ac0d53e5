------------------------- MODULE FetchFrontierProofs -------------------------
(***************************************************************************)
(* Proofs about FetchFrontier for any number of workers and consumers and  *)
(* any bounds.                                                             *)
(*                                                                         *)
(* The properties need to know how a claim is told from any other: each    *)
(* claim has a serial of its own, an entry that is being fetched carries   *)
(* the newest, and whoever holds it took it after the last request.        *)
(***************************************************************************)
EXTENDS FetchFrontier, TLAPS

\* What is remembered of a claim is not newer than the rows.
ClaimInv ==
  \A p \in Parties : /\ claim[p].serial <= entry.issued
                     /\ claim[p].stageEpoch <= stage.epoch
                     /\ Claims(p) => claim[p].serial >= 1

DistinctInv ==
  \A p, q \in Parties :
    Claims(p) /\ Claims(q) /\ claim[p].serial = claim[q].serial => p = q

NewestInv == entry.state = "fetching" => entry.serial = entry.issued

TickInv == \A w \in Workers : Claims(w) => w \in ticks

HolderInv == \A p \in Parties : Claims(p) /\ Holds(p) => p \in owing

OldInv == \A w \in Workers : Claims(w) /\ JobLease(w) /\ Holds(w) => ~entry.old

CountInv == entry.attempts <= entry.issued /\ failures + ranOut <= entry.issued

IInv ==
  /\ TypeOK
  /\ ClaimInv /\ DistinctInv /\ NewestInv /\ TickInv /\ HolderInv /\ OldInv /\ CountInv
  /\ RequestsSurvive /\ AttemptsAreFailures /\ LiveItemCanFinish /\ OwnersKeepTheirEntry

-----------------------------------------------------------------------------
(* The helpers *)

\* The constants are numbers.
LEMMA Numbers ==
  /\ MaxAttempts \in Nat /\ Hold \in Nat /\ Ttl \in Nat /\ MaxEpoch \in Nat
  /\ Backoff \in Nat /\ MaxClaims \in Nat
  /\ Hold >= 1 /\ Ttl >= 1 /\ MaxEpoch >= 1
  BY NumbersAssumption

\* The parts of the type invariant the steps need, one by one.
LEMMA Types ==
  ASSUME TypeOK
  PROVE  /\ entry.state \in {"pending", "fetching", "done", "skipped", "failed"}
         /\ entry.attempts \in Nat /\ entry.attempts <= MaxClaims
         /\ entry.wait \in Nat /\ entry.wait <= Hold + Backoff
         /\ entry.serial \in Nat /\ entry.serial <= MaxClaims
         /\ entry.issued \in Nat /\ entry.issued <= MaxClaims
         /\ entry.old \in BOOLEAN
         /\ item.owner \in Consumers \cup {Nobody}
         /\ item.epoch \in Nat /\ item.stageEpoch \in Nat /\ item.left \in Nat
         /\ stage.epoch \in Nat /\ stage.contract \in Nat
         /\ stage.mode \in Modes /\ stage.from \in {"legacy", "items"}
         /\ failures \in Nat /\ ranOut \in Nat
         /\ \A p \in Parties : /\ claim[p] \in Claim
                               /\ claim[p].serial \in Nat
                               /\ claim[p].stageEpoch \in Nat
<1>1. /\ entry.state \in {"pending", "fetching", "done", "skipped", "failed"}
      /\ entry.attempts \in 0..MaxClaims /\ entry.wait \in 0..(Hold + Backoff)
      /\ entry.serial \in 0..MaxClaims /\ entry.issued \in 0..MaxClaims
      /\ entry.old \in BOOLEAN
  BY DEF TypeOK, Entry
<1>2. /\ item.owner \in Consumers \cup {Nobody}
      /\ item.epoch \in 0..MaxClaims /\ item.stageEpoch \in 0..MaxEpoch /\ item.left \in 0..Ttl
  BY DEF TypeOK, Item
<1>3. /\ stage.epoch \in 1..MaxEpoch /\ stage.contract \in 0..1
      /\ stage.mode \in Modes /\ stage.from \in {"legacy", "items"}
  BY DEF TypeOK
<1>4. failures \in 0..MaxClaims /\ ranOut \in 0..MaxClaims
  BY DEF TypeOK
<1>5. ASSUME NEW p \in Parties
      PROVE  /\ claim[p] \in Claim
             /\ claim[p].serial \in 0..MaxClaims /\ claim[p].stageEpoch \in 0..MaxEpoch
  BY DEF TypeOK, Claim
<1> QED
  BY <1>1, <1>2, <1>3, <1>4, <1>5, Numbers

\* An entry that is written is an entry.
LEMMA PutType ==
  ASSUME TypeOK,
         NEW s \in {"pending", "fetching", "done", "skipped", "failed"},
         NEW a \in 0..MaxClaims, NEW t \in 0..(Hold + Backoff), NEW n \in 0..MaxClaims
  PROVE  Put(s, a, t, n) \in Entry
<1>1. (IF n > entry.issued THEN n ELSE entry.issued) \in 0..MaxClaims
  BY Types, Numbers
<1> QED
  BY <1>1, Types, Numbers DEF Put, Entry

\* greatest(0, n - 1) does not leave the numbers.
LEMMA MinusType ==
  ASSUME NEW n \in Nat
  PROVE  /\ Minus1(n) \in Nat /\ Minus1(n) <= n
         /\ n >= 1 => Minus1(n) = n - 1
  BY DEF Minus1

\* A party without a claim is well typed.
LEMMA NoClaimType == NoClaim \in Claim /\ NoClaim.serial = 0
  BY Numbers DEF NoClaim, Claim

\* The starting state.
LEMMA InitIInv == Init => IInv
<1> SUFFICES ASSUME Init PROVE IInv
  OBVIOUS
<1>1. TypeOK
  <2>1. entry \in Entry
    BY Numbers DEF Init, Entry
  <2>2. item \in Item
    BY Numbers DEF Init, Item
  <2>3. claim \in [Parties -> Claim]
    BY NoClaimType DEF Init
  <2>4. stage \in [mode : Modes, from : {"legacy", "items"}, epoch : 1..MaxEpoch,
                   contract : 0..1]
    BY Numbers DEF Init, Modes
  <2>5. job \in [token : Workers \cup {Nobody}, fresh : BOOLEAN]
    BY DEF Init
  <2> QED
    BY <2>1, <2>2, <2>3, <2>4, <2>5, Numbers DEF Init, TypeOK
<1>2. \A p \in Parties : claim[p] = NoClaim /\ ~Claims(p)
  BY DEF Init, Claims
<1>3. ClaimInv
  BY <1>2 DEF Init, ClaimInv, NoClaim
<1>4. CountInv /\ AttemptsAreFailures
  BY DEF Init, CountInv, AttemptsAreFailures
<1>5. LiveItemCanFinish /\ RequestsSurvive /\ NewestInv
  BY DEF Init, LiveItemCanFinish, LiveItem, RequestsSurvive, Terminal, NewestInv
<1>6. DistinctInv /\ TickInv /\ HolderInv /\ OldInv /\ OwnersKeepTheirEntry
  BY <1>2 DEF Parties, DistinctInv, TickInv, HolderInv, OldInv, OwnersKeepTheirEntry
<1> QED
  BY <1>1, <1>3, <1>4, <1>5, <1>6 DEF IInv

-----------------------------------------------------------------------------
(* The stage: a transition ends every claim of the mode it leaves *)

\* The operator's steps keep the invariant.
LEMMA StageStep ==
  ASSUME IInv, \/ BumpContract \/ BeginDrain
               \/ \E m \in {"legacy", "items"} : CompleteTransition(m)
  PROVE  IInv'
<1>1. UNCHANGED <<fence, job, ticks, entry, item, doc, claim, hist>>
  BY DEF BumpContract, BeginDrain, CompleteTransition
<1>2. /\ stage' \in [mode : Modes, from : {"legacy", "items"}, epoch : 1..MaxEpoch,
                    contract : 0..1]
      /\ stage.epoch <= stage'.epoch
  <2> stage \in [mode : Modes, from : {"legacy", "items"}, epoch : 1..MaxEpoch, contract : 0..1]
    BY DEF IInv, TypeOK
  <2>1. CASE BumpContract
    BY <2>1 DEF BumpContract, Modes
  <2>2. CASE BeginDrain
    <3>1. stage' = [mode |-> "draining", from |-> stage.mode, epoch |-> stage.epoch,
                    contract |-> stage.contract]
      BY <2>2 DEF BeginDrain
    <3> QED
      BY <2>2, <3>1 DEF BeginDrain, Modes
  <2>3. CASE \E m \in {"legacy", "items"} : CompleteTransition(m)
    <3>1. PICK m \in {"legacy", "items"} : CompleteTransition(m)
      BY <2>3
    <3>2. /\ stage.epoch < MaxEpoch
          /\ stage' = [mode |-> m, from |-> stage.from, epoch |-> stage.epoch + 1,
                       contract |-> stage.contract]
      BY <3>1 DEF CompleteTransition
    <3>3. stage.epoch + 1 \in 1..MaxEpoch
      BY <3>2, Numbers
    <3> QED
      BY <3>2, <3>3, Numbers DEF Modes
  <2> QED
    BY <2>1, <2>2, <2>3
<1>3. TypeOK'
  BY <1>1, <1>2 DEF IInv, TypeOK, hist
<1>4. ClaimInv'
  BY <1>1, <1>2, Types DEF IInv, ClaimInv, Claims
<1>5. /\ DistinctInv' /\ NewestInv' /\ TickInv' /\ HolderInv' /\ OldInv'
      /\ CountInv' /\ RequestsSurvive' /\ AttemptsAreFailures'
  BY <1>1 DEF IInv, DistinctInv, NewestInv, TickInv, HolderInv, OldInv, CountInv,
              RequestsSurvive, AttemptsAreFailures, Claims, Holds, JobLease, hist
<1>6. LiveItemCanFinish'
  <2>1. CASE BumpContract \/ BeginDrain
    BY <2>1, <1>1, Types DEF IInv, LiveItemCanFinish, LiveItem, CanFinish, BumpContract,
       BeginDrain, TypeOK, Modes
  <2>2. CASE \E m \in {"legacy", "items"} : CompleteTransition(m)
    BY <2>2, <1>1 DEF LiveItemCanFinish, LiveItem, CompleteTransition, Drained
  <2> QED
    BY <2>1, <2>2
<1>7. ASSUME NEW p \in Parties, Claims(p), Owns(p)' PROVE Owns(p)
  <2>1. CASE BumpContract \/ BeginDrain
    BY <2>1, <1>1, <1>7 DEF IInv, TypeOK, Owns, CanFinish, LiveItem, JobLease,
       BumpContract, BeginDrain, Modes
  <2>2. CASE \E m \in {"legacy", "items"} : CompleteTransition(m)
    <3>1. stage'.epoch = stage.epoch + 1 /\ claim[p].stageEpoch <= stage.epoch
      BY <2>2 DEF IInv, TypeOK, CompleteTransition, ClaimInv
    <3> QED
      BY <3>1, <1>1, <1>7, Types DEF IInv, Owns, CanFinish
  <2> QED
    BY <2>1, <2>2
<1>8. OwnersKeepTheirEntry'
  BY <1>1, <1>7 DEF IInv, OwnersKeepTheirEntry, Claims, Holds, hist
<1> QED
  BY <1>3, <1>4, <1>5, <1>6, <1>8 DEF IInv

-----------------------------------------------------------------------------
(* The job lease *)

\* The fence closes nothing the invariant speaks of.
LEMMA FenceStep ==
  ASSUME IInv, FenceSite PROVE IInv'
<1>1. fence' = "fenced" /\ UNCHANGED <<stage, job, ticks, entry, item, doc, claim, hist>>
  BY DEF FenceSite
<1> QED
  BY <1>1 DEF IInv, TypeOK, ClaimInv, DistinctInv, NewestInv, TickInv, HolderInv, OldInv,
     CountInv, RequestsSurvive, AttemptsAreFailures, LiveItemCanFinish, OwnersKeepTheirEntry,
     Claims, Holds, Owns, CanFinish, LiveItem, JobLease, hist

\* A tick that starts has no claim yet, and no other tick has the job.
LEMMA StartTickStep ==
  ASSUME IInv, NEW w \in Workers, StartTick(w) PROVE IInv'
<1>1. /\ w \notin ticks /\ ticks' = ticks \cup {w}
      /\ job' = [token |-> w, fresh |-> TRUE]
      /\ entry' = [entry EXCEPT !.old = TRUE]
      /\ UNCHANGED <<fence, stage, item, doc, claim, hist>>
  BY DEF StartTick
<1>2. /\ entry' \in Entry
      /\ entry'.state = entry.state /\ entry'.attempts = entry.attempts
      /\ entry'.serial = entry.serial /\ entry'.issued = entry.issued
  BY <1>1 DEF IInv, TypeOK, Entry
<1>3. TypeOK'
  BY <1>1, <1>2 DEF IInv, TypeOK, hist
<1>4. /\ ClaimInv' /\ DistinctInv' /\ NewestInv' /\ TickInv' /\ HolderInv'
      /\ CountInv' /\ RequestsSurvive' /\ AttemptsAreFailures' /\ LiveItemCanFinish'
  BY <1>1, <1>2 DEF IInv, ClaimInv, DistinctInv, NewestInv, TickInv, HolderInv, CountInv,
     RequestsSurvive, AttemptsAreFailures, LiveItemCanFinish, CanFinish, LiveItem, Claims, Holds, hist
<1>5. \A v \in Workers : Claims(v)' => ~JobLease(v)'
  BY <1>1 DEF IInv, TickInv, Claims, JobLease
<1>6. OldInv'
  BY <1>5 DEF OldInv
<1>7. OwnersKeepTheirEntry'
  BY <1>1, <1>2, <1>5 DEF IInv, OwnersKeepTheirEntry, Owns, CanFinish, Claims, Holds, hist
<1> QED
  BY <1>3, <1>4, <1>6, <1>7 DEF IInv

\* A lease that is lost makes nobody an owner.
LEMMA JobStep ==
  ASSUME IInv, Expire \/ LoseJob PROVE IInv'
<1>1. /\ UNCHANGED <<fence, stage, ticks, entry, item, doc, claim, hist>>
      /\ job' \in [token : Workers \cup {Nobody}, fresh : BOOLEAN] /\ ~job'.fresh
  <2>1. PICK t \in {job.token, Nobody} : job' = [token |-> t, fresh |-> FALSE]
    BY DEF Expire, LoseJob
  <2>2. t \in Workers \cup {Nobody}
    BY <2>1 DEF IInv, TypeOK
  <2>3. UNCHANGED <<fence, stage, ticks, entry, item, doc, claim, hist>>
    BY DEF Expire, LoseJob
  <2> QED
    BY <2>1, <2>2, <2>3
<1>2. TypeOK'
  BY <1>1 DEF IInv, TypeOK, hist
<1>3. /\ ClaimInv' /\ DistinctInv' /\ NewestInv' /\ TickInv' /\ HolderInv' /\ OldInv'
      /\ CountInv' /\ RequestsSurvive' /\ AttemptsAreFailures' /\ LiveItemCanFinish'
  BY <1>1 DEF IInv, ClaimInv, DistinctInv, NewestInv, TickInv, HolderInv, OldInv, CountInv,
     RequestsSurvive, AttemptsAreFailures, LiveItemCanFinish, CanFinish, LiveItem, JobLease,
     Claims, Holds, hist
<1>4. OwnersKeepTheirEntry'
  BY <1>1 DEF IInv, OwnersKeepTheirEntry, Owns, CanFinish, LiveItem, JobLease, Claims, Holds, hist
<1> QED
  BY <1>2, <1>3, <1>4 DEF IInv

-----------------------------------------------------------------------------
(* Owners *)

\* A live item belongs to items mode, also while that mode is drained, and a tick
\* to legacy mode; so there is one owner.
LEMMA OneOwner ==
  ASSUME TypeOK, NEW p \in Parties, NEW q \in Parties, Owns(p), Owns(q)
  PROVE  p = q
<1>1. \A o \in Consumers : Owns(o) => LiveItem /\ item.owner = o /\ o \notin Workers
  BY PartiesAssumption, Types DEF Owns, LiveItem
<1>2. \A w \in Workers : Owns(w) => ~LiveItem /\ job.token = w
  BY DEF Owns, JobLease
<1> QED
  BY <1>1, <1>2 DEF Parties

\* A consumer that may finish and a tick that may finish are in different modes.
LEMMA OneMode ==
  ASSUME NEW o \in Consumers, Owns(o), NEW w \in Workers
  PROVE  ~(stage.mode = "legacy" \/ (stage.mode = "draining" /\ stage.from = "legacy"))
<1>1. CanFinish(claim[o])
  BY PartiesAssumption DEF Owns
<1> QED
  BY <1>1 DEF CanFinish

\* A recovery finds no owner who still holds the entry: a tick that has the job
\* took its claim after it started.
LEMMA RecoverStep ==
  ASSUME IInv, NEW w \in Workers, Recover(w) PROVE IInv'
<1>1. /\ entry.state = "fetching" /\ entry.old /\ ~LiveItem
      /\ entry' = Put("pending", Minus1(entry.attempts), 0, 0)
      /\ UNCHANGED <<fence, stage, job, ticks, item, doc, claim, hist>>
  BY DEF Recover, RecoveredAttempts
<1>2. TypeOK
  BY DEF IInv
<1>3. /\ entry.attempts \in Nat /\ entry.attempts <= MaxClaims /\ entry.issued \in Nat
      /\ failures \in Nat /\ ranOut \in Nat
  BY <1>2, Types
<1>4. /\ entry.attempts = failures + ranOut + 1 /\ entry.attempts <= entry.issued
      /\ failures + ranOut <= entry.issued
  BY <1>1 DEF IInv, AttemptsAreFailures, CountInv
<1>5. Minus1(entry.attempts) = failures + ranOut /\ Minus1(entry.attempts) \in 0..MaxClaims
  <2>1. Minus1(entry.attempts) = entry.attempts - 1
    BY <1>3, <1>4 DEF Minus1
  <2> QED
    BY <2>1, <1>3, <1>4, Numbers
<1>6. /\ entry' \in Entry /\ entry'.state = "pending" /\ entry'.attempts = failures + ranOut
      /\ entry'.issued = entry.issued
  <2>1. 0 \in 0..(Hold + Backoff) /\ 0 \in 0..MaxClaims /\ 0 <= entry.issued
    BY <1>3, Numbers
  <2>2. entry' \in Entry
    BY <1>1, <1>2, <1>5, <2>1, PutType
  <2>3. ~(0 > entry.issued)
    BY <2>1, <1>3
  <2> QED
    BY <1>1, <1>5, <2>2, <2>3 DEF Put
<1>7. TypeOK'
  BY <1>1, <1>6 DEF IInv, TypeOK, hist
<1>8. /\ ClaimInv' /\ DistinctInv' /\ TickInv' /\ LiveItemCanFinish'
  BY <1>1, <1>6 DEF IInv, ClaimInv, DistinctInv, TickInv, LiveItemCanFinish, CanFinish,
     LiveItem, Claims
<1>9. NewestInv' /\ HolderInv' /\ OldInv'
  BY <1>6 DEF NewestInv, HolderInv, OldInv, Holds
<1>10. CountInv' /\ AttemptsAreFailures' /\ RequestsSurvive'
  BY <1>1, <1>3, <1>4, <1>6 DEF CountInv, AttemptsAreFailures, RequestsSurvive, Terminal, hist
<1>11. ASSUME NEW p \in Parties, Claims(p), Owns(p), p \in owing PROVE FALSE
  <2>1. Holds(p)
    BY <1>11 DEF IInv, OwnersKeepTheirEntry
  <2>2. p \in Workers /\ JobLease(p)
    BY <1>1, <1>2, <1>11, PartiesAssumption, Types DEF Owns, LiveItem, Parties
  <2> QED
    BY <1>1, <1>11, <2>1, <2>2 DEF IInv, OldInv
<1>12. OwnersKeepTheirEntry'
  BY <1>1, <1>11 DEF OwnersKeepTheirEntry, Owns, CanFinish, LiveItem, JobLease, Claims, hist
<1> QED
  BY <1>7, <1>8, <1>9, <1>10, <1>12 DEF IInv

-----------------------------------------------------------------------------
(* Claims *)

\* A claim, by a tick or for an item, after which no other claimant is an owner.
LEMMA TakeStep ==
  ASSUME IInv, NEW p \in Parties, NEW e \in 0..MaxClaims, Take(p, e), Due,
         UNCHANGED <<fence, stage, job, ticks, doc>>,
         p \in Workers => p \in ticks,
         item' \in Item, LiveItemCanFinish',
         \A q \in Parties \ {p} : Claims(q) => ~Owns(q)'
  PROVE  IInv'
<1> DEFINE n == entry.issued + 1
           new == [serial |-> n, attempts |-> entry.attempts + 1,
                   stageEpoch |-> stage.epoch, itemEpoch |-> e]
<1>1. /\ entry.issued < MaxClaims
      /\ entry' = Put("fetching", entry.attempts + 1, Hold, n)
      /\ claim' = [claim EXCEPT ![p] = new]
      /\ owing' = owing \cup {p}
      /\ UNCHANGED <<wanted, failures>>
  BY DEF Take
<1>2. TypeOK
  BY DEF IInv
<1>3. /\ entry.attempts \in Nat /\ entry.issued \in Nat /\ entry.attempts <= entry.issued
      /\ failures \in Nat /\ ranOut \in Nat /\ failures + ranOut <= entry.issued
  BY <1>2, Types DEF IInv, CountInv
<1>4. entry.attempts + 1 \in 0..MaxClaims /\ n \in 0..MaxClaims /\ Hold \in 0..(Hold + Backoff)
  BY <1>1, <1>3, Numbers
<1>5. /\ entry' \in Entry /\ entry'.state = "fetching" /\ entry'.attempts = entry.attempts + 1
      /\ entry'.serial = n /\ entry'.issued = n /\ entry'.old = FALSE
  <2>1. entry' \in Entry
    BY <1>1, <1>2, <1>4, PutType
  <2>2. n > entry.issued
    BY <1>3
  <2> QED
    BY <1>1, <2>1, <2>2 DEF Put
<1>6. /\ \/ entry.state = "fetching" /\ ranOut' = ranOut + 1
         \/ entry.state = "pending" /\ ranOut' = ranOut
  BY DEF Take, Due
<1>7. entry'.attempts = failures' + ranOut' + 1 /\ failures' + ranOut' <= entry'.issued
  BY <1>1, <1>3, <1>5, <1>6 DEF IInv, AttemptsAreFailures
<1>8. stage.epoch \in 0..MaxEpoch /\ new \in Claim
  <2>1. stage.epoch \in 0..MaxEpoch
    BY <1>2, Numbers DEF TypeOK
  <2> QED
    BY <2>1, <1>4 DEF Claim
<1>9. claim'[p] = new /\ \A q \in Parties : q # p => claim'[q] = claim[q]
  BY <1>1, <1>2 DEF TypeOK
<1>10. TypeOK'
  <2>1. claim' \in [Parties -> Claim]
    BY <1>1, <1>2, <1>8 DEF TypeOK
  <2>2. failures' \in 0..MaxClaims /\ ranOut' \in 0..MaxClaims
    <3>1. failures' \in Nat /\ ranOut' \in Nat /\ entry'.issued <= MaxClaims
      BY <1>1, <1>3, <1>4, <1>5, <1>6, Numbers
    <3> QED
      BY <3>1, <1>3, <1>5, <1>7, Numbers
  <2> QED
    BY <1>1, <1>2, <1>5, <2>1, <2>2 DEF TypeOK
<1>11. \A q \in Parties : claim[q].serial <= entry.issued /\ claim[q].serial \in Nat
                          /\ claim[q].stageEpoch <= stage.epoch
  BY <1>2, Types DEF IInv, ClaimInv
<1>12. new.serial = n /\ new.stageEpoch = stage.epoch /\ new.attempts = entry.attempts + 1
  OBVIOUS
<1>13. ClaimInv'
  <2>1. SUFFICES ASSUME NEW q \in Parties
                 PROVE  /\ claim'[q].serial <= n /\ claim'[q].stageEpoch <= stage.epoch
                        /\ claim'[q] # NoClaim => claim'[q].serial >= 1
    BY <1>5 DEF ClaimInv, Claims
  <2>2. CASE q = p
    BY <2>2, <1>2, <1>3, <1>9, <1>12, Types
  <2>3. CASE q # p
    BY <2>3, <1>3, <1>9, <1>11 DEF IInv, ClaimInv, Claims
  <2> QED
    BY <2>2, <2>3
<1>14. DistinctInv'
  <2>1. \A q \in Parties : q # p => claim'[q].serial # claim'[p].serial
    BY <1>3, <1>9, <1>11, <1>12
  <2> QED
    BY <1>9, <2>1 DEF IInv, DistinctInv, Claims
<1>15. NewestInv' /\ OldInv' /\ RequestsSurvive'
  BY <1>5 DEF NewestInv, OldInv, RequestsSurvive, Terminal
<1>16. TickInv'
  BY <1>9 DEF IInv, TickInv, Claims, Parties
<1>17. HolderInv'
  <2>1. \A q \in Parties : q # p => ~Holds(q)'
    BY <1>3, <1>5, <1>9, <1>11 DEF Holds
  <2> QED
    BY <1>1, <2>1 DEF HolderInv
<1>18. CountInv' /\ AttemptsAreFailures'
  BY <1>3, <1>5, <1>7 DEF CountInv, AttemptsAreFailures
<1>19. OwnersKeepTheirEntry'
  <2>1. Holds(p)'
    BY <1>5, <1>9, <1>12 DEF Holds
  <2>2. \A q \in Parties : q # p => ~(Claims(q)' /\ Owns(q)')
    BY <1>9 DEF Claims
  <2> QED
    BY <2>1, <2>2 DEF OwnersKeepTheirEntry
<1> QED
  BY <1>10, <1>13, <1>14, <1>15, <1>16, <1>17, <1>18, <1>19 DEF IInv

\* A tick takes the entry: it has the job, and no item is alive.
LEMMA DequeueStep ==
  ASSUME IInv, NEW w \in Workers, Dequeue(w) PROVE IInv'
<1>1. /\ w \in ticks /\ Due /\ ~LiveItem /\ JobLease(w) /\ Take(w, 0)
      /\ UNCHANGED <<fence, stage, job, ticks, item, doc>>
  BY DEF Dequeue
<1>2. TypeOK
  BY DEF IInv
<1>3. item' \in Item /\ LiveItemCanFinish'
  BY <1>1 DEF IInv, TypeOK, LiveItemCanFinish, LiveItem, CanFinish
<1>4. ASSUME NEW q \in Parties, q # w PROVE ~Owns(q)'
  <2>1. CASE q \in Workers
    BY <2>1, <1>1, <1>4 DEF Owns, JobLease
  <2>2. CASE q \in Consumers
    BY <2>2, <1>1, PartiesAssumption DEF Owns, LiveItem
  <2> QED
    BY <2>1, <2>2 DEF Parties
<1> QED
  BY <1>1, <1>3, <1>4, Numbers, TakeStep DEF Parties

\* A consumer takes the entry: the item row it writes shuts out everybody else.
LEMMA ClaimItemStep ==
  ASSUME IInv, NEW o \in Consumers, ClaimItem(o) PROVE IInv'
<1>1. /\ stage.mode = "items" /\ stage.contract >= 1 /\ Due /\ item.epoch < MaxClaims
      /\ Take(o, item.epoch + 1)
      /\ item' = [owner |-> o, epoch |-> item.epoch + 1,
                  stageEpoch |-> stage.epoch, left |-> Ttl]
      /\ UNCHANGED <<fence, stage, job, ticks, doc>>
  BY DEF ClaimItem
<1>2. o # Nobody /\ o \notin Workers
  BY PartiesAssumption
<1>3. item.epoch + 1 \in 0..MaxClaims
  BY <1>1, Types, Numbers DEF IInv
<1>4. /\ item' \in Item /\ item'.owner = o /\ item'.left = Ttl
      /\ item'.stageEpoch = stage.epoch
  <2>1. stage.epoch \in 0..MaxEpoch
    BY Numbers DEF IInv, TypeOK
  <2> QED
    BY <2>1, <1>1, <1>3, Numbers DEF Item
<1>5. LiveItem'
  BY <1>2, <1>4, Numbers DEF LiveItem
<1>6. LiveItemCanFinish'
  BY <1>1, <1>4 DEF LiveItemCanFinish, CanFinish
<1>7. ASSUME NEW q \in Parties, q # o PROVE ~Owns(q)'
  BY <1>4, <1>5, <1>7 DEF Owns, Parties
<1> QED
  BY <1>1, <1>2, <1>3, <1>4, <1>6, <1>7, TakeStep DEF Parties

\* A renewal moves the deadline of the item of an owner and nothing else.
LEMMA RenewStep ==
  ASSUME IInv, NEW o \in Consumers, RenewItem(o) PROVE IInv'
<1>1. /\ Owns(o) /\ item' = [item EXCEPT !.left = Ttl]
      /\ UNCHANGED <<fence, stage, job, ticks, entry, doc, claim, hist>>
  BY DEF RenewItem
<1>2. /\ item' \in Item /\ item'.owner = item.owner /\ item'.epoch = item.epoch
      /\ item'.stageEpoch = item.stageEpoch /\ item'.left = Ttl
  BY <1>1, Numbers DEF IInv, TypeOK, Item
<1>3. LiveItem /\ item.owner = o
  BY <1>1, PartiesAssumption, Types DEF Owns, LiveItem, IInv
<1>4. LiveItem'
  BY <1>2, <1>3, Numbers DEF LiveItem
<1>5. TypeOK'
  BY <1>1, <1>2 DEF IInv, TypeOK, hist
<1>6. /\ ClaimInv' /\ DistinctInv' /\ NewestInv' /\ TickInv' /\ HolderInv' /\ OldInv'
      /\ CountInv' /\ RequestsSurvive' /\ AttemptsAreFailures'
  BY <1>1 DEF IInv, ClaimInv, DistinctInv, NewestInv, TickInv, HolderInv, OldInv, CountInv,
     RequestsSurvive, AttemptsAreFailures, JobLease, Claims, Holds, hist
<1>7. LiveItemCanFinish'
  BY <1>1, <1>2, <1>3 DEF IInv, LiveItemCanFinish, CanFinish
<1>8. ASSUME NEW q \in Parties, Owns(q)' PROVE q = o
  BY <1>2, <1>3, <1>4, <1>8 DEF Owns, Parties
<1>9. OwnersKeepTheirEntry'
  BY <1>1, <1>8 DEF IInv, OwnersKeepTheirEntry, Claims, Holds, hist
<1> QED
  BY <1>5, <1>6, <1>7, <1>9 DEF IInv

-----------------------------------------------------------------------------
(* The end of a claim *)

\* The end of an owner's claim: what it writes is not "fetching", its counters add
\* up, and nobody becomes an owner because the lease is given back.
LEMMA SettleStep ==
  ASSUME IInv, NEW p \in Parties,
         NEW s \in {"pending", "done", "skipped", "failed"},
         NEW a \in 0..MaxClaims, NEW t \in 0..(Hold + Backoff), NEW n \in {0, entry.serial},
         Settle(p, Put(s, a, t, n)), owing' = owing \ {p},
         doc' \in 0..MaxClaims, wanted' \in BOOLEAN,
         failures' \in 0..MaxClaims, ranOut' \in 0..MaxClaims,
         failures' + ranOut' <= entry.issued, Holds(p) => a <= entry.attempts,
         RequestsSurvive', AttemptsAreFailures'
  PROVE  IInv'
<1>1. /\ Claims(p) /\ Owns(p)
      /\ entry' = IF Holds(p) THEN Put(s, a, t, n) ELSE entry
      /\ item' = Released(p)
      /\ claim' = [claim EXCEPT ![p] = NoClaim]
      /\ UNCHANGED <<fence, stage, job, ticks>>
  BY DEF Settle
<1>2. TypeOK
  BY DEF IInv
<1>3. /\ entry.issued \in Nat /\ entry.issued <= MaxClaims
      /\ Holds(p) => n \in 0..MaxClaims /\ ~(n > entry.issued)
  <2>1. entry.issued \in Nat /\ entry.serial \in Nat /\ entry.issued <= MaxClaims
    BY <1>2, Types
  <2>2. Holds(p) => entry.serial = entry.issued
    BY DEF IInv, NewestInv, Holds
  <2> QED
    BY <2>1, <2>2, Numbers
<1>4. /\ entry' \in Entry /\ entry'.issued = entry.issued
      /\ Holds(p) => entry'.state # "fetching"
  <2>1. CASE Holds(p)
    <3>1. entry' = Put(s, a, t, n)
      BY <2>1, <1>1
    <3>2. entry' \in Entry
      BY <2>1, <3>1, <1>2, <1>3, PutType
    <3> QED
      BY <2>1, <3>1, <3>2, <1>3 DEF Put
  <2>2. CASE ~Holds(p)
    BY <2>2, <1>1, <1>2 DEF TypeOK
  <2> QED
    BY <2>1, <2>2
<1>5. claim'[p] = NoClaim /\ \A q \in Parties : q # p => claim'[q] = claim[q]
  BY <1>1, <1>2 DEF TypeOK
<1>6. ~Claims(p)' /\ \A q \in Parties : q # p => Claims(q)' = Claims(q)
  BY <1>5 DEF Claims
<1>7. \A q \in Parties : q # p /\ Holds(q)' => Holds(q) /\ ~Holds(p) /\ entry' = entry
  BY <1>1, <1>4, <1>5 DEF Holds
<1>8. /\ item' \in Item
      /\ item' = item \/ (p \in Consumers /\ item'.owner = Nobody)
  <2>1. CASE p \in Consumers
    <3>1. item' = [owner |-> Nobody, epoch |-> item.epoch,
                   stageEpoch |-> item.stageEpoch, left |-> 0]
      BY <2>1, <1>1, <1>2 DEF Released, TypeOK, Item
    <3> QED
      BY <2>1, <3>1, <1>2, Numbers DEF TypeOK, Item
  <2>2. CASE p \notin Consumers
    BY <2>2, <1>1, <1>2 DEF Released, TypeOK
  <2> QED
    BY <2>1, <2>2
<1>9. TypeOK'
  <2>1. claim' \in [Parties -> Claim]
    BY <1>1, <1>2, NoClaimType DEF TypeOK
  <2> QED
    BY <1>1, <1>2, <1>4, <1>8, <2>1 DEF TypeOK
<1>10. ClaimInv'
  <2>1. \A q \in Parties : q # p => /\ claim'[q].serial <= entry'.issued
                                    /\ claim'[q].stageEpoch <= stage'.epoch
                                    /\ claim'[q] # NoClaim => claim'[q].serial >= 1
    BY <1>1, <1>4, <1>5 DEF IInv, ClaimInv, Claims
  <2>2. claim'[p].serial <= entry'.issued /\ claim'[p].stageEpoch <= stage'.epoch
    BY <1>1, <1>2, <1>3, <1>4, <1>5, Types DEF NoClaim
  <2> QED
    BY <2>1, <2>2, <1>5 DEF ClaimInv, Claims
<1>11. DistinctInv'
  BY <1>5, <1>6 DEF IInv, DistinctInv
<1>12. NewestInv'
  BY <1>1, <1>4 DEF IInv, NewestInv
<1>13. TickInv'
  BY <1>1, <1>6 DEF IInv, TickInv, Parties
<1>14. HolderInv'
  BY <1>6, <1>7 DEF IInv, HolderInv
<1>15. OldInv'
  BY <1>1, <1>6, <1>7 DEF IInv, OldInv, JobLease, Parties
<1>16. CountInv'
  <2>1. CASE Holds(p)
    <3>1. entry'.attempts = a
      BY <2>1, <1>1 DEF Put
    <3> QED
      BY <2>1, <3>1, <1>2, <1>4, Types, Numbers DEF IInv, CountInv
  <2>2. CASE ~Holds(p)
    BY <2>2, <1>1, <1>4 DEF IInv, CountInv
  <2> QED
    BY <2>1, <2>2
<1>17. LiveItemCanFinish'
  BY <1>1, <1>8 DEF IInv, LiveItemCanFinish, LiveItem, CanFinish
<1>18. ASSUME NEW q \in Parties, q # p, Claims(q) PROVE ~Owns(q)'
  <2>1. CASE item' = item
    <3>1. Owns(q)' => Owns(q)
      BY <2>1, <1>1, <1>5, <1>18 DEF Owns, CanFinish, LiveItem, JobLease
    <3> QED
      BY <3>1, <1>1, <1>2, <1>18, OneOwner
  <2>2. CASE p \in Consumers /\ item'.owner = Nobody
    <3>1. CASE q \in Workers
      BY <3>1, <2>2, <1>1, OneMode DEF Owns
    <3>2. CASE q \in Consumers
      BY <3>2, <2>2, PartiesAssumption DEF Owns
    <3> QED
      BY <3>1, <3>2 DEF Parties
  <2> QED
    BY <2>1, <2>2, <1>8
<1>19. OwnersKeepTheirEntry'
  BY <1>6, <1>18 DEF OwnersKeepTheirEntry
<1> QED
  BY <1>9, <1>10, <1>11, <1>12, <1>13, <1>14, <1>15, <1>16, <1>17, <1>19 DEF IInv

\* While the entry is fetched under a claim, its attempts are the errors and the
\* deadlines so far and the attempt that runs.
LEMMA Running ==
  ASSUME IInv, NEW p \in Parties, Claims(p), Holds(p)
  PROVE  /\ entry.state = "fetching" /\ p \in owing
         /\ entry.attempts = failures + ranOut + 1 /\ entry.attempts <= entry.issued
         /\ Minus1(entry.attempts) = failures + ranOut
<1>1. entry.state = "fetching" /\ p \in owing
  BY DEF IInv, HolderInv, Holds
<1>2. entry.attempts = failures + ranOut + 1 /\ entry.attempts <= entry.issued
  BY <1>1 DEF IInv, AttemptsAreFailures, CountInv
<1> QED
  BY <1>1, <1>2, Types DEF IInv, Minus1

\* An entry that is settled for good is no longer wanted: its claim was taken after
\* the last request.
LEMMA FinalStep ==
  ASSUME IInv, NEW p \in Parties, NEW s \in {"done", "skipped"},
         Settle(p, Put(s, entry.attempts, entry.wait, entry.serial)), Answered(p),
         doc' \in 0..MaxClaims, UNCHANGED <<failures, ranOut>>
  PROVE  IInv'
<1>1. Claims(p) /\ entry' = IF Holds(p) THEN Put(s, entry.attempts, entry.wait, entry.serial)
                                        ELSE entry
  BY DEF Settle
<1>2. /\ entry.attempts \in 0..MaxClaims /\ entry.wait \in 0..(Hold + Backoff)
      /\ wanted' \in BOOLEAN /\ failures' \in 0..MaxClaims /\ ranOut' \in 0..MaxClaims
      /\ failures' + ranOut' <= entry.issued /\ entry.attempts <= entry.attempts
  BY DEF IInv, TypeOK, Entry, CountInv, Answered
<1>3. owing' = owing \ {p} /\ wanted' = (wanted /\ ~(Holds(p) /\ p \in owing))
  BY DEF Answered
<1>4. RequestsSurvive' /\ AttemptsAreFailures'
  <2>1. CASE Holds(p)
    <3>1. entry'.state = s /\ ~wanted'
      BY <2>1, <1>1, <1>3, Running DEF Put
    <3> QED
      BY <3>1 DEF RequestsSurvive, AttemptsAreFailures
  <2>2. CASE ~Holds(p)
    BY <2>2, <1>1, <1>3 DEF IInv, RequestsSurvive, AttemptsAreFailures
  <2> QED
    BY <2>1, <2>2
<1> QED
  BY <1>2, <1>3, <1>4, SettleStep

\* An error costs one attempt and is counted as one.
LEMMA FailStep ==
  ASSUME IInv, NEW p \in Parties, Fail(p) PROVE IInv'
<1> DEFINE a == entry.attempts
<1>1. /\ failures' = IF Holds(p) THEN failures + 1 ELSE failures
      /\ UNCHANGED <<doc, ranOut>>
      /\ owing' = owing \ {p}
      /\ \/ Settle(p, Put("failed", a, entry.wait, entry.serial)) /\ Answered(p)
         \/ Settle(p, Put("pending", a, Backoff, 0)) /\ UNCHANGED wanted
  BY DEF Fail, Answered, Ends
<1>2. Claims(p)
  BY <1>1 DEF Settle
<1>3. /\ a \in 0..MaxClaims /\ entry.wait \in 0..(Hold + Backoff)
      /\ Backoff \in 0..(Hold + Backoff) /\ doc' \in 0..MaxClaims
      /\ wanted' \in BOOLEAN /\ a <= a
  <2>1. a \in 0..MaxClaims /\ entry.wait \in 0..(Hold + Backoff) /\ doc \in 0..MaxClaims
    BY DEF IInv, TypeOK, Entry
  <2>2. wanted' \in BOOLEAN
    BY <1>1 DEF IInv, TypeOK, Answered
  <2> QED
    BY <1>1, <2>1, <2>2, Numbers
<1>4. /\ failures' \in 0..MaxClaims /\ ranOut' \in 0..MaxClaims
      /\ failures' + ranOut' <= entry.issued
  <2>1. CASE Holds(p)
    <3>1. /\ failures' = failures + 1 /\ ranOut' = ranOut
          /\ failures \in Nat /\ ranOut \in Nat /\ entry.issued \in Nat /\ entry.issued <= MaxClaims
      BY <2>1, <1>1, Types DEF IInv
    <3>2. failures + ranOut + 1 <= entry.issued
      BY <2>1, <1>2, Running
    <3> QED
      BY <3>1, <3>2, Numbers
  <2>2. CASE ~Holds(p)
    BY <2>2, <1>1 DEF IInv, TypeOK, CountInv
  <2> QED
    BY <2>1, <2>2
<1>5. CASE Settle(p, Put("failed", a, entry.wait, entry.serial)) /\ Answered(p)
  <2>1. entry' = IF Holds(p) THEN Put("failed", a, entry.wait, entry.serial) ELSE entry
    BY <1>5 DEF Settle
  <2>2. RequestsSurvive' /\ AttemptsAreFailures'
    <3>1. CASE Holds(p)
      <4>1. entry'.state = "failed" /\ entry'.attempts = a
        BY <3>1, <2>1 DEF Put
      <4>2. ~wanted'
        BY <3>1, <1>2, <1>5, Running DEF Answered
      <4>3. a = failures' + ranOut'
        BY <3>1, <1>1, <1>2, Running, Types DEF IInv
      <4> QED
        BY <4>1, <4>2, <4>3, Types DEF IInv, RequestsSurvive, AttemptsAreFailures
    <3>2. CASE ~Holds(p)
      BY <3>2, <2>1, <1>1, <1>5 DEF IInv, RequestsSurvive, AttemptsAreFailures, Answered
    <3> QED
      BY <3>1, <3>2
  <2> QED
    BY <1>1, <1>3, <1>4, <1>5, <2>2, SettleStep
<1>6. CASE Settle(p, Put("pending", a, Backoff, 0)) /\ UNCHANGED wanted
  <2>1. entry' = IF Holds(p) THEN Put("pending", a, Backoff, 0) ELSE entry
    BY <1>6 DEF Settle
  <2>2. RequestsSurvive' /\ AttemptsAreFailures'
    <3>1. CASE Holds(p)
      <4>1. entry'.state = "pending" /\ entry'.attempts = a
        BY <3>1, <2>1 DEF Put
      <4>2. a = failures' + ranOut'
        BY <3>1, <1>1, <1>2, Running, Types DEF IInv
      <4> QED
        BY <4>1, <4>2, Types DEF IInv, RequestsSurvive, AttemptsAreFailures, Terminal
    <3>2. CASE ~Holds(p)
      BY <3>2, <2>1, <1>1, <1>6 DEF IInv, RequestsSurvive, AttemptsAreFailures
    <3> QED
      BY <3>1, <3>2
  <2> QED
    BY <1>1, <1>3, <1>4, <1>6, <2>2, SettleStep
<1> QED
  BY <1>1, <1>5, <1>6

\* A deferral takes the attempt back.
LEMMA DeferStep ==
  ASSUME IInv, NEW p \in Parties, NEW t \in {0, Backoff}, Defer(p, t) PROVE IInv'
<1> DEFINE a == Minus1(entry.attempts)
<1>1. /\ Settle(p, Put("pending", a, t, 0)) /\ owing' = owing \ {p}
      /\ UNCHANGED <<wanted, doc, failures, ranOut>>
  BY DEF Defer, Ends
<1>2. /\ Claims(p) /\ entry' = IF Holds(p) THEN Put("pending", a, t, 0) ELSE entry
  BY <1>1 DEF Settle
<1>3. a \in 0..MaxClaims /\ a <= entry.attempts
  <2>1. entry.attempts \in Nat /\ entry.attempts <= MaxClaims
    BY Types DEF IInv
  <2> QED
    <3> SUFFICES Minus1(entry.attempts) \in 0..MaxClaims /\ Minus1(entry.attempts) <= entry.attempts
      OBVIOUS
    <3>1. CASE entry.attempts > 0
      BY <2>1, <3>1, Numbers DEF Minus1
    <3>2. CASE entry.attempts = 0
      BY <2>1, <3>2, Numbers DEF Minus1
    <3> QED
      BY <2>1, <3>1, <3>2
<1>4. /\ t \in 0..(Hold + Backoff) /\ doc' \in 0..MaxClaims /\ wanted' \in BOOLEAN
      /\ failures' \in 0..MaxClaims /\ ranOut' \in 0..MaxClaims
      /\ failures' + ranOut' <= entry.issued
  BY <1>1, Numbers DEF IInv, TypeOK, CountInv
<1>5. RequestsSurvive' /\ AttemptsAreFailures'
  <2>1. CASE Holds(p)
    <3>1. entry'.state = "pending" /\ entry'.attempts = failures + ranOut
      BY <2>1, <1>2, Running DEF Put
    <3> QED
      BY <3>1, <1>1, Types DEF IInv, RequestsSurvive, AttemptsAreFailures, Terminal
  <2>2. CASE ~Holds(p)
    BY <2>2, <1>1, <1>2 DEF IInv, RequestsSurvive, AttemptsAreFailures
  <2> QED
    BY <2>1, <2>2
<1> QED
  BY <1>1, <1>3, <1>4, <1>5, SettleStep

\* The document and the end of the entry in one step.
LEMMA SaveStep ==
  ASSUME IInv, NEW p \in Parties, Save(p) \/ Skip(p) PROVE IInv'
<1>1. PICK s \in {"done", "skipped"} :
        Settle(p, Put(s, entry.attempts, entry.wait, entry.serial))
  BY DEF Save, Skip
<1>2. Answered(p) /\ UNCHANGED <<failures, ranOut>>
  BY DEF Save, Skip
<1>3. doc' \in 0..MaxClaims
  <2>1. claim[p].serial \in 0..MaxClaims /\ doc \in 0..MaxClaims
    BY DEF IInv, TypeOK, Claim
  <2>2. doc' \in {claim[p].serial, doc}
    BY DEF Save, Skip
  <2> QED
    BY <2>1, <2>2
<1> QED
  BY <1>1, <1>2, <1>3, FinalStep

\* A party that drops its claim: refused, at the end of its tick, or dead.
LEMMA DropStep ==
  ASSUME IInv, NEW p \in Parties, Refused(p) \/ (p \in Workers /\ EndTick(p)) \/ Crash(p)
  PROVE  IInv'
<1>1. /\ UNCHANGED <<fence, stage, entry, item, doc, wanted, failures, ranOut>>
      /\ claim' = [claim EXCEPT ![p] = NoClaim]
      /\ owing' = owing \ {p}
      /\ ticks' = ticks \/ ticks' = ticks \ {p}
      /\ job' = job \/ job' = [token |-> Nobody, fresh |-> FALSE]
  BY DEF Refused, EndTick, Crash, Ends, db
<1>2. TypeOK
  BY DEF IInv
<1>3. claim'[p] = NoClaim /\ \A q \in Parties : q # p => claim'[q] = claim[q]
  BY <1>1, <1>2 DEF TypeOK
<1>4. ~Claims(p)' /\ \A q \in Parties : q # p => Claims(q)' = Claims(q)
  BY <1>3 DEF Claims
<1>5. \A w \in Workers : JobLease(w)' => JobLease(w)
  BY <1>1 DEF JobLease
<1>6. TypeOK'
  <2>1. claim' \in [Parties -> Claim]
    BY <1>1, <1>2, NoClaimType DEF TypeOK
  <2>2. job' \in [token : Workers \cup {Nobody}, fresh : BOOLEAN]
    <3>1. CASE job' = job
      BY <3>1, <1>2 DEF TypeOK
    <3>2. CASE job' = [token |-> Nobody, fresh |-> FALSE]
      BY <3>2
    <3> QED
      BY <1>1, <3>1, <3>2
  <2> QED
    BY <1>1, <1>2, <2>1, <2>2 DEF TypeOK
<1>7. ClaimInv'
  <2>1. claim'[p].serial <= entry.issued /\ claim'[p].stageEpoch <= stage.epoch
    BY <1>2, <1>3, Types DEF NoClaim
  <2> QED
    BY <1>1, <1>3, <1>4, <2>1 DEF IInv, ClaimInv
<1>8. DistinctInv' /\ TickInv'
  BY <1>1, <1>3, <1>4 DEF IInv, DistinctInv, TickInv, Parties
<1>9. NewestInv' /\ CountInv' /\ RequestsSurvive' /\ AttemptsAreFailures' /\ LiveItemCanFinish'
  BY <1>1 DEF IInv, NewestInv, CountInv, RequestsSurvive, AttemptsAreFailures,
     LiveItemCanFinish, LiveItem, CanFinish
<1>10. \A q \in Parties : q # p /\ Holds(q)' => Holds(q)
  BY <1>1, <1>3 DEF Holds
<1>11. HolderInv' /\ OldInv'
  BY <1>1, <1>4, <1>5, <1>10 DEF IInv, HolderInv, OldInv, Parties
<1>12. ASSUME NEW q \in Parties, Claims(q)', Owns(q)', q \in owing' PROVE Holds(q)'
  <2>1. q # p /\ Claims(q) /\ q \in owing /\ claim'[q] = claim[q]
    BY <1>1, <1>3, <1>4, <1>12
  <2>2. Owns(q)
    BY <2>1, <1>1, <1>5, <1>12 DEF Owns, CanFinish, LiveItem
  <2> QED
    BY <2>1, <2>2, <1>1 DEF IInv, OwnersKeepTheirEntry, Holds
<1>13. OwnersKeepTheirEntry'
  BY <1>12 DEF OwnersKeepTheirEntry
<1> QED
  BY <1>6, <1>7, <1>8, <1>9, <1>11, <1>13 DEF IInv

-----------------------------------------------------------------------------
(* Requests and time *)

\* A request starts everything anew: nobody holds the entry, nothing is owed.
LEMMA RequestStep ==
  ASSUME IInv, Requeue \/ \E t \in {0, entry.wait} : Refresh(t) PROVE IInv'
<1>1. PICK t \in 0..(Hold + Backoff) : entry' = Put("pending", 0, t, 0)
  BY Numbers DEF Requeue, Refresh, IInv, TypeOK, Entry
<1>2. /\ wanted' = TRUE /\ owing' = {} /\ failures' = 0 /\ ranOut' = 0
      /\ UNCHANGED <<fence, stage, job, ticks, item, doc, claim>>
  BY DEF Requeue, Refresh, Wanted
<1>3. entry.issued \in Nat /\ ~(0 > entry.issued) /\ 0 \in 0..MaxClaims
  BY Types, Numbers DEF IInv
<1>4. entry' \in Entry
  BY <1>1, <1>3, PutType DEF IInv
<1>5. entry'.state = "pending" /\ entry'.attempts = 0 /\ entry'.issued = entry.issued
  BY <1>1, <1>3 DEF Put
<1>6. TypeOK'
  BY <1>2, <1>3, <1>4 DEF IInv, TypeOK
<1>7. ClaimInv' /\ DistinctInv' /\ TickInv' /\ LiveItemCanFinish'
  BY <1>2, <1>5 DEF IInv, ClaimInv, DistinctInv, TickInv, LiveItemCanFinish, LiveItem,
     CanFinish, Claims
<1>8. /\ NewestInv' /\ HolderInv' /\ OldInv' /\ CountInv' /\ RequestsSurvive'
      /\ AttemptsAreFailures' /\ OwnersKeepTheirEntry'
  BY <1>2, <1>3, <1>5 DEF NewestInv, HolderInv, OldInv, CountInv, RequestsSurvive, Terminal,
     AttemptsAreFailures, OwnersKeepTheirEntry, Holds
<1> QED
  BY <1>6, <1>7, <1>8 DEF IInv

\* An item that runs out makes no tick an owner: no tick may finish in the mode of
\* the item.
LEMMA TimeStep ==
  ASSUME IInv, Time PROVE IInv'
<1>1. /\ entry' = [entry EXCEPT !.wait = Minus1(@)]
      /\ item' = [item EXCEPT !.left = Minus1(@)]
      /\ UNCHANGED <<fence, stage, job, ticks, doc, claim, hist>>
  BY DEF Time
<1>2. TypeOK
  BY DEF IInv
<1>3. /\ Minus1(entry.wait) \in 0..(Hold + Backoff)
      /\ Minus1(item.left) \in 0..Ttl /\ (item.left = 0 => Minus1(item.left) = 0)
  <2>1. entry.wait \in 0..(Hold + Backoff) /\ item.left \in 0..Ttl
    BY <1>2 DEF TypeOK, Entry, Item
  <2> QED
    BY <2>1, Numbers DEF Minus1
<1>4. /\ entry' \in Entry /\ entry'.state = entry.state /\ entry'.attempts = entry.attempts
      /\ entry'.serial = entry.serial /\ entry'.issued = entry.issued /\ entry'.old = entry.old
  BY <1>1, <1>2, <1>3 DEF TypeOK, Entry
<1>5. /\ item' \in Item /\ item'.owner = item.owner /\ item'.epoch = item.epoch
      /\ item'.stageEpoch = item.stageEpoch /\ item'.left = Minus1(item.left)
  BY <1>1, <1>2, <1>3 DEF TypeOK, Item
<1>6. item'.left > 0 => item.left > 0
  BY <1>2, <1>3, <1>5, Types
<1>7. TypeOK'
  BY <1>1, <1>2, <1>4, <1>5 DEF TypeOK, hist
<1>8. /\ ClaimInv' /\ DistinctInv' /\ NewestInv' /\ TickInv' /\ HolderInv' /\ OldInv'
      /\ CountInv' /\ RequestsSurvive' /\ AttemptsAreFailures'
  BY <1>1, <1>4 DEF IInv, ClaimInv, DistinctInv, NewestInv, TickInv, HolderInv, OldInv,
     CountInv, RequestsSurvive, AttemptsAreFailures, JobLease, Claims, Holds, hist
<1>9. LiveItemCanFinish'
  BY <1>1, <1>5, <1>6 DEF IInv, LiveItemCanFinish, LiveItem, CanFinish
<1>10. ASSUME NEW q \in Parties, Owns(q)' PROVE Owns(q)
  <2>1. CASE q \in Workers
    <3>1. ~CanFinish([stageEpoch |-> item.stageEpoch])
      BY <2>1, <1>1, <1>10 DEF Owns, CanFinish
    <3>2. ~LiveItem
      BY <3>1 DEF IInv, LiveItemCanFinish
    <3> QED
      BY <2>1, <3>2, <1>1, <1>10 DEF Owns, JobLease
  <2>2. CASE q \notin Workers
    BY <2>2, <1>1, <1>5, <1>6, <1>10 DEF Owns, CanFinish
  <2> QED
    BY <2>1, <2>2
<1>11. OwnersKeepTheirEntry'
  BY <1>1, <1>4, <1>10 DEF IInv, OwnersKeepTheirEntry, Claims, Holds, hist
<1> QED
  BY <1>7, <1>8, <1>9, <1>11 DEF IInv

-----------------------------------------------------------------------------
(* The theorems *)

\* Every step keeps the invariant.
LEMMA NextIInv == IInv /\ [Next]_vars => IInv'
<1> SUFFICES ASSUME IInv, [Next]_vars PROVE IInv'
  OBVIOUS
<1>1. CASE Operator
  BY <1>1, StageStep, FenceStep DEF Operator
<1>2. ASSUME NEW w \in Workers, StartTick(w) \/ Recover(w) \/ Dequeue(w) \/ EndTick(w)
      PROVE  IInv'
  <2>1. w \in Parties
    BY DEF Parties
  <2> QED
    BY <1>2, <2>1, StartTickStep, RecoverStep, DequeueStep, DropStep
<1>3. ASSUME NEW o \in Consumers, ClaimItem(o) \/ RenewItem(o) PROVE IInv'
  BY <1>3, ClaimItemStep, RenewStep
<1>4. ASSUME NEW p \in Parties,
             \/ Save(p) \/ Skip(p) \/ Fail(p) \/ Refused(p) \/ Crash(p)
             \/ \E t \in {0, Backoff} : Defer(p, t)
      PROVE  IInv'
  BY <1>4, SaveStep, FailStep, DeferStep, DropStep
<1>5. CASE Requeue \/ \E t \in {0, entry.wait} : Refresh(t)
  BY <1>5, RequestStep
<1>6. CASE LoseJob \/ Expire \/ Time
  BY <1>6, JobStep, TimeStep
<1>7. CASE UNCHANGED vars
  BY <1>7 DEF vars, IInv, TypeOK, ClaimInv, DistinctInv, NewestInv, TickInv, HolderInv, OldInv,
     CountInv, RequestsSurvive, AttemptsAreFailures, LiveItemCanFinish, OwnersKeepTheirEntry,
     Claims, Holds, Owns, CanFinish, LiveItem, JobLease
<1> QED
  BY <1>1, <1>2, <1>3, <1>4, <1>5, <1>6, <1>7 DEF Next

\* The invariant holds in every reachable state.
THEOREM Invariant == Spec => []IInv
  BY InitIInv, NextIInv, PTL DEF Spec

\* The rows of the frontier, the stage, the item and the claims keep their types,
\* whatever ticks, consumers and the operator do.
THEOREM TypeCorrect == Spec => []TypeOK
<1>1. IInv => TypeOK
  BY DEF IInv
<1> QED
  BY <1>1, Invariant, PTL

\* A fetch asked for while another one runs is not swallowed by the end of that one:
\* the claim predicate of lib/crawl/fetch-ownership.ts ties an outcome to the claim
\* it came from.
THEOREM RequestsAreKept == Spec => []RequestsSurvive
<1>1. IInv => RequestsSurvive
  BY DEF IInv
<1> QED
  BY <1>1, Invariant, PTL

\* The attempts of an entry are its errors and overrun deadlines: recovery and
\* deferral take back exactly what the claim had added.
THEOREM AttemptsCorrect == Spec => []AttemptsAreFailures
<1>1. IInv => AttemptsAreFailures
  BY DEF IInv
<1> QED
  BY <1>1, Invariant, PTL

\* The stage cannot leave items mode under an item that is alive.
THEOREM ItemsFinish == Spec => []LiveItemCanFinish
<1>1. IInv => LiveItemCanFinish
  BY DEF IInv
<1> QED
  BY <1>1, Invariant, PTL

\* Nobody takes an entry from a party that owns it: neither the recovery of a new
\* tick, nor another tick, nor a consumer of the other mode.
THEOREM OwnersKeep == Spec => []OwnersKeepTheirEntry
<1>1. IInv => OwnersKeepTheirEntry
  BY DEF IInv
<1> QED
  BY <1>1, Invariant, PTL

\* The stored document is the one of the newest claim at the moment it is stored.
THEOREM DocumentsAreNewest == Spec => NewestClaimSaves
<1>1. ASSUME IInv, [Next]_vars PROVE [doc' # doc => doc' = entry.issued]_vars
  <2> SUFFICES ASSUME Next, doc' # doc PROVE doc' = entry.issued
    BY <1>1
  <2>1. PICK p \in Parties : Save(p) \/ Skip(p) \/ Fail(p) \/ \E t \in {0, Backoff} : Defer(p, t)
    BY DEF Next, Operator, BumpContract, BeginDrain, CompleteTransition, FenceSite, StartTick,
       Recover, Dequeue, EndTick, ClaimItem, RenewItem, Refused, Crash, db, Requeue, Refresh,
       Wanted, LoseJob, Expire, Time
  <2>2. Holds(p) /\ doc' = claim[p].serial
    BY <2>1 DEF Save, Skip, Fail, Defer
  <2> QED
    BY <1>1, <2>2 DEF IInv, NewestInv, Holds
<1> QED
  BY <1>1, Invariant, PTL DEF Spec, NewestClaimSaves

-----------------------------------------------------------------------------
(* The frontier implements the queue of AskedWork *)

Claimants == {p \in Parties : Claims(p)}
Informed  == {p \in owing : Claims(p)}

\* A step that keeps claims and requests answers nobody.
LEMMA QuietStep ==
  ASSUME TypeOK, (entry.state \notin Terminal)' = (entry.state \notin Terminal),
         claim' = claim, owing' = owing
  PROVE  Queue!Setback
<1>1. Claimants' = Claimants /\ Informed' = Informed
  BY DEF Claimants, Informed, Claims
<1>2. Claimants' \subseteq Claimants /\ Informed' = Informed \cap Claimants'
  BY <1>1 DEF Claimants, Informed, TypeOK
<1> QED
  BY <1>2 DEF Queue!Setback, Claimants, Informed

\* A claim that ends leaves both sets.
LEMMA ClaimEnds ==
  ASSUME TypeOK, NEW p \in Parties,
         claim' = [claim EXCEPT ![p] = NoClaim], owing' = owing \ {p}
  PROVE  Claimants' = Claimants \ {p} /\ Informed' = Informed \ {p}
<1>1. \A q \in Parties : claim'[q] = IF q = p THEN NoClaim ELSE claim[q]
  BY DEF TypeOK
<1>2. owing \subseteq Parties
  BY DEF TypeOK
<1>3. \A q \in Parties : Claims(q)' <=> Claims(q) /\ q # p
  BY <1>1 DEF Claims
<1> QED
  BY <1>2, <1>3 DEF Claimants, Informed

\* ... and is a setback if the entry is as open as it was.
LEMMA ClaimSetback ==
  ASSUME TypeOK, NEW p \in Parties,
         claim' = [claim EXCEPT ![p] = NoClaim], owing' = owing \ {p},
         (entry.state \notin Terminal)' = (entry.state \notin Terminal)
  PROVE  Queue!Setback
<1>1. Claimants' = Claimants \ {p} /\ Informed' = Informed \ {p}
  BY ClaimEnds
<1>2. Claimants' \subseteq Claimants /\ Informed' = Informed \cap Claimants'
  BY <1>1 DEF Informed, Claimants, TypeOK
<1> QED
  BY <1>2 DEF Queue!Setback, Claimants, Informed

\* Whoever takes the entry begins.
LEMMA TakeBegins ==
  ASSUME IInv, NEW p \in Parties, NEW e \in Nat, ~Claims(p), Take(p, e)
  PROVE  Queue!Begin(p)
<1>1. entry'.state = "fetching"
  BY DEF Take, Put
<1>2. /\ claim'[p].serial = entry.issued + 1 /\ \A q \in Parties \ {p} : claim'[q] = claim[q]
      /\ owing' = owing \cup {p} /\ owing \subseteq Parties
  BY DEF Take, IInv, TypeOK
<1>3. NoClaim.serial = 0 /\ entry.issued \in Nat
  BY Types, NoClaimType DEF IInv
<1>4. claim'[p] # NoClaim
  BY <1>2, <1>3
<1>5. Claimants' = Claimants \cup {p} /\ Informed' = Informed \cup {p}
  BY <1>2, <1>4 DEF Claimants, Informed, Claims
<1> QED
  BY <1>1, <1>5 DEF Queue!Begin, Claimants, Informed, Claims, Terminal

\* Whoever ends the entry answers if he held it, and has then begun after the
\* last request; otherwise he changes nothing.
LEMMA SettleAnswers ==
  ASSUME IInv, NEW p \in Parties, NEW out, Settle(p, out), owing' = owing \ {p}
  PROVE  Queue!Setback \/ Queue!Answer(p)
<1>1. TypeOK /\ HolderInv
  BY DEF IInv
<1>2. /\ claim' = [claim EXCEPT ![p] = NoClaim] /\ Claims(p)
      /\ entry' = IF Holds(p) THEN out ELSE entry
  BY DEF Settle
<1>3. Claimants' = Claimants \ {p} /\ Informed' = Informed \ {p}
  BY <1>1, <1>2, ClaimEnds
<1>4. CASE (entry.state \notin Terminal)' = (entry.state \notin Terminal)
  BY <1>1, <1>2, <1>4, ClaimSetback
<1>5. CASE (entry.state \notin Terminal)' # (entry.state \notin Terminal)
  <2>1. Holds(p)
    BY <1>2, <1>5
  <2>2. p \in owing /\ entry.state \notin Terminal
    BY <1>1, <1>2, <2>1 DEF HolderInv, Holds, Terminal
  <2>3. ~(entry.state \notin Terminal)'
    BY <1>5, <2>2
  <2> QED
    BY <1>2, <1>3, <2>2, <2>3 DEF Queue!Answer, Claimants, Informed
<1> QED
  BY <1>4, <1>5

\* Every step of the frontier is a step of the queue or leaves it as it is.
LEMMA QueueStep ==
  ASSUME IInv, [Next]_vars
  PROVE  [Queue!Next]_(Queue!vars)
<1>0. TypeOK
  BY DEF IInv
<1>1. CASE Operator
  BY <1>0, <1>1, QuietStep
  DEF Operator, BumpContract, BeginDrain, FenceSite, CompleteTransition, hist, Queue!Next
<1>2. ASSUME NEW w \in Workers, StartTick(w) PROVE Queue!Next
  <2>1. entry'.state = entry.state /\ claim' = claim /\ owing' = owing
    BY <1>0, <1>2 DEF StartTick, hist, TypeOK, Entry
  <2> QED
    BY <1>0, <2>1, QuietStep DEF Queue!Next
<1>3. ASSUME NEW w \in Workers, Recover(w) PROVE Queue!Next
  <2>1. entry.state = "fetching" /\ entry'.state = "pending" /\ claim' = claim /\ owing' = owing
    BY <1>3 DEF Recover, Put, hist
  <2> QED
    BY <1>0, <2>1, QuietStep DEF Queue!Next, Terminal
<1>4. ASSUME NEW w \in Workers, Dequeue(w) PROVE Queue!Next
  BY <1>4, TakeBegins DEF Dequeue, Queue!Next, Parties
<1>5. ASSUME NEW w \in Workers, EndTick(w) PROVE Queue!Next
  BY <1>0, <1>5, ClaimSetback DEF EndTick, Ends, Queue!Next, Parties
<1>6. ASSUME NEW o \in Consumers, ClaimItem(o) PROVE Queue!Next
  BY <1>0, <1>6, TakeBegins, Types DEF ClaimItem, Queue!Next, Parties
<1>7. ASSUME NEW o \in Consumers, RenewItem(o) PROVE Queue!Next
  BY <1>0, <1>7, QuietStep DEF RenewItem, hist, Queue!Next
<1>8. ASSUME NEW p \in Parties, Save(p) \/ Skip(p) \/ Fail(p) \/ \E t \in {0, Backoff} : Defer(p, t)
      PROVE  Queue!Next
  <2>1. owing' = owing \ {p}
    BY <1>8 DEF Save, Skip, Fail, Defer, Answered, Ends
  <2>2. \E out : Settle(p, out)
    BY <1>8 DEF Save, Skip, Fail, Defer
  <2> QED
    BY <2>1, <2>2, SettleAnswers DEF Queue!Next
<1>9. ASSUME NEW p \in Parties, Refused(p) \/ Crash(p) PROVE Queue!Next
  BY <1>0, <1>9, ClaimSetback DEF Refused, Crash, Ends, db, Queue!Next
<1>10. CASE Requeue \/ \E t \in {0, entry.wait} : Refresh(t)
  <2>1. entry'.state = "pending" /\ claim' = claim /\ owing' = {}
    BY <1>10 DEF Requeue, Refresh, Put, Wanted
  <2> QED
    BY <2>1 DEF Queue!Next, Queue!Ask, Claims, Terminal
<1>11. CASE LoseJob \/ Expire
  BY <1>0, <1>11, QuietStep DEF LoseJob, Expire, hist, Queue!Next
<1>12. CASE Time
  <2>1. entry'.state = entry.state /\ claim' = claim /\ owing' = owing
    BY <1>0, <1>12 DEF Time, hist, TypeOK, Entry
  <2> QED
    BY <1>0, <2>1, QuietStep DEF Queue!Next
<1>13. CASE UNCHANGED vars
  BY <1>13 DEF vars, Queue!vars, Claims
<1> QED
  BY <1>1, <1>2, <1>3, <1>4, <1>5, <1>6, <1>7, <1>8, <1>9, <1>10, <1>11, <1>12, <1>13 DEF Next

\* For any number of workers and consumers: whatever mode the stage is in, an
\* entry is ended only by one who claimed it after the last request.
THEOREM AsksAreServed == Spec => ServesThoseWhoAsk
<1>1. Init => Queue!Init
  BY DEF Init, Queue!Init, Claims, Terminal
<1>2. IInv /\ [Next]_vars => [Queue!Next]_(Queue!vars)
  BY QueueStep
<1> QED
  BY Invariant, <1>1, <1>2, PTL DEF Spec, ServesThoseWhoAsk, Queue!Spec

=============================================================================
