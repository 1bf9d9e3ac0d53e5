--------------------------- MODULE RoleLeaderProofs ---------------------------
(***************************************************************************)
(* Proofs about RoleLeader for any candidates, boots and durations.        *)
(*                                                                         *)
(* What carries them: a deadline that comes from an election or a renewal  *)
(* is never later than the end of the lease in the row, and belongs to the *)
(* boot and epoch the row names.  An election needs an expired row, so all *)
(* such deadlines of older epochs have passed when it commits; and it      *)
(* leaves no token that an older epoch could still use.                    *)
(***************************************************************************)
EXTENDS RoleLeader, TLAPS

\* A token is the newest epoch's, and only an elected epoch has a lease.
LeaseInv ==
  /\ token \in {0, lease.epoch}
  /\ lease.left > 0 => lease.epoch >= 1

\* What holds between a candidate's record and a row.
Elected == {"granted"} \cup HasChild
Backed(c, r, l, time) ==
  l.owner = c /\ l.boot = r.boot /\ l.epoch = r.epoch /\ time <= l.left
Sound(c, r, l) ==
  /\ r.epoch <= l.epoch
  /\ r.pc \in Elected => r.epoch >= 1
  /\ r.pc \in {"asking", "granted"} => r.renew = "none"
  /\ r.pc \in Elected /\ r.proven /\ r.left > 0 => Backed(c, r, l, r.left)
  /\ r.pc \in Renews /\ r.renew = "yes" /\ r.asked > 0 => Backed(c, r, l, r.asked)

IInv == TypeOK /\ LeaseInv /\ NoLateResult /\ \A c \in Instances : Sound(c, cand[c], lease)

-----------------------------------------------------------------------------
(* Types *)

\* The durations are numbers.
LEMMA Numbers ==
  /\ Boots \in [Instances -> Nat]
  /\ {MaxEpoch, Lease, Grace, BootWindow, Quarantine, Fresh, Stable} \subseteq Nat
  /\ MaxEpoch >= 1 /\ Lease >= 1 /\ BootWindow >= 1
  BY TimesAssumption

\* The row and a candidate, field by field.
LEMMA Types ==
  ASSUME TypeOK
  PROVE  /\ lease.epoch \in Nat /\ lease.epoch <= MaxEpoch
         /\ lease.left \in Int /\ lease.left <= Lease /\ lease.left >= -Grace
         /\ lease.boot \in Nat /\ lease.release \in Releases
         /\ lease.owner \in Instances \cup {NoOwner}
         /\ \A c \in Instances :
              /\ cand[c] \in Candidate /\ cand[c].pc \in Phases /\ cand[c].boot \in Nat
              /\ cand[c].epoch \in Nat /\ cand[c].epoch <= MaxEpoch
              /\ cand[c].left \in Nat /\ cand[c].left <= Lease
              /\ cand[c].asked \in Nat /\ cand[c].asked <= Lease
              /\ cand[c].renew \in {"none", "sent", "yes"}
              /\ cand[c].release \in Releases
              /\ cand[c].watch \in Nat /\ cand[c].held \in 0..Stable
              /\ cand[c].work \in BOOLEAN /\ cand[c].proven \in BOOLEAN
<1>1. /\ lease.epoch \in 0..MaxEpoch /\ lease.left \in (-Grace)..Lease
      /\ lease.boot \in Nat /\ lease.release \in Releases
      /\ lease.owner \in Instances \cup {NoOwner}
  BY DEF TypeOK, RoleRow
<1>2. ASSUME NEW c \in Instances
      PROVE  /\ cand[c] \in Candidate /\ cand[c].pc \in Phases /\ cand[c].boot \in Nat
             /\ cand[c].epoch \in 0..MaxEpoch /\ cand[c].left \in 0..Lease
             /\ cand[c].asked \in 0..Lease /\ cand[c].renew \in {"none", "sent", "yes"}
             /\ cand[c].release \in Releases
             /\ cand[c].watch \in Nat /\ cand[c].held \in 0..Stable
             /\ cand[c].work \in BOOLEAN /\ cand[c].proven \in BOOLEAN
  BY DEF TypeOK, Candidate
<1> QED
  BY <1>1, <1>2, Numbers

\* A fresh record of a candidate.
LEMMA DownType ==
  ASSUME NEW r \in Releases
  PROVE  /\ Down(r) \in Candidate /\ Down(r).pc = "down" /\ Down(r).epoch = 0
         /\ Down(r).renew = "none" /\ Down(r).proven = FALSE /\ Down(r).release = r
  BY Numbers DEF Down, Candidate, Phases

\* Writing fields of a candidate within their ranges.
LEMMA Fields ==
  ASSUME NEW r \in Candidate
  PROVE  /\ \A v \in Phases : [r EXCEPT !.pc = v] \in Candidate
         /\ \A v \in Nat : /\ [r EXCEPT !.boot = v] \in Candidate
                           /\ [r EXCEPT !.watch = v] \in Candidate
         /\ \A v \in 0..MaxEpoch : [r EXCEPT !.epoch = v] \in Candidate
         /\ \A v \in 0..Lease : /\ [r EXCEPT !.left = v] \in Candidate
                                /\ [r EXCEPT !.asked = v] \in Candidate
         /\ \A v \in {"none", "sent", "yes"} : [r EXCEPT !.renew = v] \in Candidate
         /\ \A v \in 0..Stable : [r EXCEPT !.held = v] \in Candidate
         /\ \A v \in BOOLEAN : /\ [r EXCEPT !.work = v] \in Candidate
                               /\ [r EXCEPT !.proven = v] \in Candidate
  BY DEF Candidate

-----------------------------------------------------------------------------
(* One candidate changes *)

\* The rest of the state keeps its type.
Rest == /\ fence' \in {"active", "fenced"} /\ mode' \in {"legacy", "draining", "versioned"}
        /\ boots' \in [Ages -> Nat] /\ quarantine' \in 0..Quarantine
        /\ seen' \in [Primaries -> [boot : Nat, release : Releases, age : 0..(Fresh + 1)]]
        /\ late' = late

\* If everybody is sound with the new row, the invariant holds.
LEMMA Preserved ==
  ASSUME IInv, Rest, lease' \in RoleRow, token' \in {0, lease'.epoch},
         lease'.left > 0 => lease'.epoch >= 1,
         cand' \in [Instances -> Candidate],
         \A d \in Instances : Sound(d, cand'[d], lease')
  PROVE  IInv'
<1>1. token' \in 0..MaxEpoch
  BY Numbers DEF RoleRow
<1>2. TypeOK'
  BY <1>1 DEF Rest, IInv, TypeOK, NoLateResult
<1>3. LeaseInv' /\ NoLateResult'
  BY DEF Rest, IInv, LeaseInv, NoLateResult
<1>4. \A d \in Instances : Sound(d, cand[d], lease)'
  OBVIOUS
<1> QED
  BY <1>2, <1>3, <1>4 DEF IInv

\* If only one candidate changes and stays sound, the invariant holds.
LEMMA OneChanges ==
  ASSUME IInv, Rest, lease' = lease, token' \in {0, lease.epoch},
         NEW c \in Instances, NEW r \in Candidate,
         cand' = [cand EXCEPT ![c] = r], Sound(c, r, lease)
  PROVE  IInv'
<1>1. /\ cand' \in [Instances -> Candidate] /\ cand'[c] = r
      /\ \A d \in Instances \ {c} : cand'[d] = cand[d]
  BY DEF IInv, TypeOK
<1>2. \A d \in Instances : Sound(d, cand'[d], lease')
  BY <1>1 DEF IInv
<1>3. lease' \in RoleRow /\ (lease'.left > 0 => lease'.epoch >= 1)
  BY DEF IInv, LeaseInv, TypeOK
<1> QED
  BY <1>1, <1>2, <1>3, Preserved

\* Where nothing else changes.
LEMMA NothingElse ==
  ASSUME IInv, UNCHANGED <<db, seen, late>>
  PROVE  Rest /\ lease' = lease /\ token' \in {0, lease.epoch}
  BY DEF Rest, db, IInv, TypeOK, LeaseInv

\* A lease that grows, or is the same, supports whoever it supported.
LEMMA Extended ==
  ASSUME NEW c \in Instances, NEW r \in Candidate, Sound(c, r, lease), TypeOK,
         NEW left \in (-Grace)..Lease, left >= lease.left,
         lease' = [lease EXCEPT !.left = left]
  PROVE  Sound(c, r, lease')
<1>1. /\ lease'.owner = lease.owner /\ lease'.boot = lease.boot
      /\ lease'.epoch = lease.epoch /\ lease'.left = left
  BY DEF TypeOK, RoleRow
<1>2. r.left \in Int /\ r.asked \in Int /\ lease.left \in Int /\ left \in Int
  BY Types, Numbers DEF Candidate
<1> QED
  BY <1>1, <1>2 DEF Sound, Backed

\* Leaving the election or the leadership is always sound.
LEMMA LeaveSound ==
  ASSUME IInv, NEW c \in Instances, NEW pc \in {"down", "standby", "yielding", "releasing"},
         Leave(c, pc)
  PROVE  \E r \in Candidate : /\ cand' = [cand EXCEPT ![c] = r] /\ Sound(c, r, lease)
                              /\ r.pc = pc
<1> DEFINE o == Down(cand[c].release)
           e == IF pc \in {"yielding", "releasing"} \/ cand[c].renew = "sent"
                THEN cand[c].epoch ELSE 0
           n == IF cand[c].renew = "sent" THEN "sent" ELSE "none"
           a == [o EXCEPT !.pc = pc]
           b == [a EXCEPT !.boot = cand[c].boot]
           f == [b EXCEPT !.epoch = e]
           r == [f EXCEPT !.renew = n]
<1>0. TypeOK /\ cand[c].boot \in Nat /\ cand[c].epoch \in Nat /\ cand[c].epoch <= MaxEpoch
      /\ cand[c].epoch <= lease.epoch /\ lease.epoch \in Nat
  BY Types DEF IInv, Sound
<1>1. cand' = [cand EXCEPT ![c] = r]
  BY DEF Leave
<1>2. o \in Candidate
  BY <1>0, DownType, Types
<1>3. e \in 0..MaxEpoch /\ e <= lease.epoch /\ n \in {"none", "sent"}
  BY <1>0, Numbers
<1> HIDE DEF o, e, n
<1>9. pc \in Phases
  BY DEF Phases
<1>4. a \in Candidate /\ a.pc = pc
  <2>1. a \in Candidate
    BY <1>2, <1>9, Fields
  <2> QED
    BY <1>2, <2>1 DEF Candidate
<1> HIDE DEF a
<1>5. b \in Candidate /\ b.pc = pc
  BY <1>0, <1>4, Fields DEF Candidate
<1> HIDE DEF b
<1>6. f \in Candidate /\ f.pc = pc /\ f.epoch = e
  BY <1>3, <1>5, Fields DEF Candidate
<1> HIDE DEF f
<1>7. r \in Candidate /\ r.pc = pc /\ r.epoch = e
  BY <1>3, <1>6, Fields DEF Candidate
<1> HIDE DEF r
<1>8. Sound(c, r, lease)
  BY <1>3, <1>7 DEF Sound, Backed, Elected, HasChild, Renews
<1> QED
  BY <1>1, <1>7, <1>8

LEMMA LeaveStep ==
  ASSUME IInv, Rest, lease' = lease, token' \in {0, lease.epoch}, NEW c \in Instances,
         NEW pc \in {"down", "standby", "yielding", "releasing"}, Leave(c, pc)
  PROVE  IInv'
  BY LeaveSound, OneChanges

\* A child that goes on under another heading.
LEMMA ToStep ==
  ASSUME IInv, Rest, lease' = lease, token' \in {0, lease.epoch}, NEW c \in Instances, cand[c].pc \in Elected,
         NEW pc \in HasChild, pc \in Renews => cand[c].pc \in Renews \cup {"granted"}, To(c, pc)
  PROVE  IInv'
<1> DEFINE l == IF pc = "lost" THEN 0 ELSE cand[c].left
           s == IF pc \in Renews THEN cand[c].asked ELSE 0
           a == [cand[c] EXCEPT !.pc = pc]
           b == [a EXCEPT !.watch = 0]
           d == [b EXCEPT !.held = 0]
           f == [d EXCEPT !.left = l]
           r == [f EXCEPT !.asked = s]
<1>0. /\ cand[c] \in Candidate /\ l \in 0..Lease /\ s \in 0..Lease
      /\ l > 0 => l = cand[c].left
      /\ s > 0 => pc \in Renews /\ s = cand[c].asked
      /\ 0 \in 0..Stable
  BY Types, Numbers DEF IInv
<1>1. cand' = [cand EXCEPT ![c] = r]
  BY DEF To, IInv, TypeOK, Candidate
<1> HIDE DEF l, s
<1>2. /\ a \in Candidate /\ a.pc = pc /\ a.boot = cand[c].boot /\ a.epoch = cand[c].epoch
      /\ a.renew = cand[c].renew /\ a.proven = cand[c].proven
  <2>1. pc \in Phases
    BY DEF HasChild, Phases
  <2>2. a \in Candidate
    BY <1>0, <2>1, Fields
  <2> QED
    BY <1>0, <2>2 DEF Candidate
<1> HIDE DEF a
<1>3. /\ b \in Candidate /\ b.pc = pc /\ b.boot = cand[c].boot /\ b.epoch = cand[c].epoch
      /\ b.renew = cand[c].renew /\ b.proven = cand[c].proven
  BY <1>2, Fields DEF Candidate
<1> HIDE DEF b
<1>4. /\ d \in Candidate /\ d.pc = pc /\ d.boot = cand[c].boot /\ d.epoch = cand[c].epoch
      /\ d.renew = cand[c].renew /\ d.proven = cand[c].proven
  BY <1>0, <1>3, Fields DEF Candidate
<1> HIDE DEF d
<1>5. /\ f \in Candidate /\ f.pc = pc /\ f.boot = cand[c].boot /\ f.epoch = cand[c].epoch
      /\ f.renew = cand[c].renew /\ f.proven = cand[c].proven /\ f.left = l
  BY <1>0, <1>4, Fields DEF Candidate
<1> HIDE DEF f
<1>6. /\ r \in Candidate /\ r.pc = pc /\ r.boot = cand[c].boot /\ r.epoch = cand[c].epoch
      /\ r.renew = cand[c].renew /\ r.proven = cand[c].proven /\ r.left = l /\ r.asked = s
  BY <1>0, <1>5, Fields DEF Candidate
<1> HIDE DEF r
<1>7. Sound(c, cand[c], lease)
  BY DEF IInv
<1>8. Sound(c, r, lease)
  <2>0. /\ cand[c].left \in Nat /\ cand[c].asked \in Nat
        /\ pc \in Elected /\ pc \notin {"asking", "granted"}
    BY Types DEF IInv, HasChild, Elected
  <2>1. r.epoch <= lease.epoch /\ r.epoch >= 1 /\ r.pc \notin {"asking", "granted"}
    BY <1>6, <1>7, <2>0 DEF Sound
  <2>2. r.proven /\ r.left > 0 => Backed(c, r, lease, r.left)
    BY <1>0, <1>6, <1>7, <2>0 DEF Sound, Backed
  <2>3. r.pc \in Renews /\ r.renew = "yes" /\ r.asked > 0 => Backed(c, r, lease, r.asked)
    <3>1. CASE cand[c].pc \in Renews
      BY <1>0, <1>6, <1>7, <2>0, <3>1 DEF Sound, Backed
    <3>2. CASE cand[c].pc = "granted"
      BY <1>6, <1>7, <3>2 DEF Sound
    <3>3. CASE pc \notin Renews
      BY <1>6, <3>3
    <3> QED
      BY <3>1, <3>2, <3>3
  <2> QED
    BY <2>0, <2>1, <2>2, <2>3 DEF Sound
<1> QED
  BY <1>1, <1>6, <1>8, OneChanges

-----------------------------------------------------------------------------
(* The steps of an election *)

LEMMA StepStart ==
  ASSUME IInv, NEW c \in Instances, NEW r \in Releases, Start(c, r)
  PROVE  IInv'
<1> DEFINE a == [Down(r) EXCEPT !.pc = "standby"]
           b == [a EXCEPT !.boot = cand[c].boot + 1]
<1>1. /\ Down(r) \in Candidate /\ Down(r).epoch = 0 /\ "standby" \in Phases
      /\ cand[c].boot + 1 \in Nat
  <2>1. Down(r) \in Candidate /\ Down(r).epoch = 0
    BY DownType
  <2>2. "standby" \in Phases
    BY DEF Phases
  <2>3. cand[c].boot \in Nat
    BY Types DEF IInv
  <2> QED
    BY <2>1, <2>2, <2>3
<1>2. cand' = [cand EXCEPT ![c] = b]
  BY DEF Start
<1>3. a \in Candidate /\ a.pc = "standby" /\ a.epoch = 0
  <2>1. a \in Candidate
    BY <1>1, Fields
  <2> QED
    BY <1>1, <2>1 DEF Candidate
<1> HIDE DEF a
<1>4. b \in Candidate /\ b.pc = "standby" /\ b.epoch = 0
  <2>1. b \in Candidate
    BY <1>1, <1>3, Fields
  <2> QED
    BY <1>3, <2>1 DEF Candidate
<1> HIDE DEF b
<1>5. Sound(c, b, lease)
  BY <1>4, Types DEF IInv, Sound, Elected, HasChild, Renews
<1> QED
  BY <1>2, <1>4, <1>5, NothingElse, OneChanges DEF Start

LEMMA StepAsk ==
  ASSUME IInv, NEW c \in Instances, Ask(c)
  PROVE  IInv'
<1> DEFINE a == [cand[c] EXCEPT !.pc = "asking"]
           b == [a EXCEPT !.left = Lease]
           d == [b EXCEPT !.renew = "none"]
<1>1. cand[c] \in Candidate /\ "asking" \in Phases /\ Lease \in 0..Lease
  BY Types, Numbers DEF IInv, Phases
<1>2. cand' = [cand EXCEPT ![c] = d]
  BY DEF Ask, IInv, TypeOK, Candidate
<1>3. a \in Candidate /\ a.pc = "asking" /\ a.epoch = cand[c].epoch
  <2>1. a \in Candidate
    BY <1>1, Fields
  <2> QED
    BY <1>1, <2>1 DEF Candidate
<1> HIDE DEF a
<1>4. b \in Candidate /\ b.pc = "asking" /\ b.epoch = cand[c].epoch
  <2>1. b \in Candidate
    BY <1>1, <1>3, Fields
  <2> QED
    BY <1>3, <2>1 DEF Candidate
<1> HIDE DEF b
<1>5. d \in Candidate /\ d.pc = "asking" /\ d.epoch = cand[c].epoch /\ d.renew = "none"
  <2>1. d \in Candidate
    BY <1>4, Fields
  <2> QED
    BY <1>4, <2>1 DEF Candidate
<1> HIDE DEF d
<1>6. Sound(c, d, lease)
  BY <1>5 DEF IInv, Sound, Elected, HasChild, Renews
<1> QED
  BY <1>2, <1>5, <1>6, NothingElse, OneChanges DEF Ask

LEMMA StepReconfirm ==
  ASSUME IInv, NEW c \in Instances, Reconfirm(c)
  PROVE  IInv'
<1> DEFINE a == [cand[c] EXCEPT !.pc = "granted"]
           b == [a EXCEPT !.epoch = lease.epoch]
           d == [b EXCEPT !.proven = FALSE]
<1>1. /\ cand[c] \in Candidate /\ "granted" \in Phases /\ lease.epoch \in 0..MaxEpoch
      /\ lease.epoch >= 1 /\ cand[c].renew = "none"
  <2>1. Sound(c, cand[c], lease) /\ cand[c].pc = "asking" /\ lease.left > 0
    BY DEF Reconfirm, IInv, Live
  <2> QED
    BY <2>1, Types, Numbers DEF IInv, LeaseInv, Phases, Sound
<1>2. cand' = [cand EXCEPT ![c] = d]
  BY DEF Reconfirm, IInv, TypeOK, Candidate
<1>3. a \in Candidate /\ a.pc = "granted" /\ a.renew = "none"
  <2>1. a \in Candidate
    BY <1>1, Fields
  <2> QED
    BY <1>1, <2>1 DEF Candidate
<1> HIDE DEF a
<1>4. b \in Candidate /\ b.pc = "granted" /\ b.renew = "none" /\ b.epoch = lease.epoch
  <2>1. b \in Candidate
    BY <1>1, <1>3, Fields
  <2> QED
    BY <1>1, <1>3, <2>1 DEF Candidate
<1> HIDE DEF b
<1>5. /\ d \in Candidate /\ d.pc = "granted" /\ d.renew = "none" /\ d.epoch = lease.epoch
      /\ d.proven = FALSE
  <2>1. d \in Candidate
    BY <1>4, Fields
  <2> QED
    BY <1>4, <2>1 DEF Candidate
<1> HIDE DEF d
<1>6. Sound(c, d, lease)
  BY <1>1, <1>5 DEF Sound, Renews
<1> QED
  BY <1>2, <1>5, <1>6, NothingElse, OneChanges DEF Reconfirm

\* The row has expired: no deadline that came from it is left, so it may go to c.
LEMMA StepElect ==
  ASSUME IInv, NEW c \in Instances, Elect(c)
  PROVE  IInv'
<1> DEFINE a == [cand[c] EXCEPT !.pc = "granted"]
           b == [a EXCEPT !.epoch = lease.epoch + 1]
           d == [b EXCEPT !.proven = TRUE]
           new == [owner |-> c, boot |-> cand[c].boot, release |-> cand[c].release,
                   epoch |-> lease.epoch + 1, left |-> Lease]
<1>1. /\ cand[c] \in Candidate /\ "granted" \in Phases /\ lease.epoch + 1 \in 0..MaxEpoch
      /\ lease.epoch \in Nat /\ lease.left \in Int /\ ~(lease.left > 0)
      /\ cand[c].renew = "none"
      /\ cand[c].left <= Lease /\ cand[c].left \in Nat /\ Lease \in Nat /\ Lease >= 1
  <2>1. Sound(c, cand[c], lease) /\ cand[c].pc = "asking" /\ ~(lease.left > 0)
    BY DEF Elect, Electable, IInv, Live
  <2> QED
    BY <2>1, Types, Numbers DEF IInv, Phases, Sound, Elect
<1>2. cand' = [cand EXCEPT ![c] = d]
  BY DEF Elect, IInv, TypeOK, Candidate
<1>3. /\ a \in Candidate /\ a.pc = "granted" /\ a.renew = "none"
      /\ a.boot = cand[c].boot /\ a.left = cand[c].left
  <2>1. a \in Candidate
    BY <1>1, Fields
  <2> QED
    BY <1>1, <2>1 DEF Candidate
<1> HIDE DEF a
<1>4. /\ b \in Candidate /\ b.pc = "granted" /\ b.renew = "none" /\ b.epoch = lease.epoch + 1
      /\ b.boot = cand[c].boot /\ b.left = cand[c].left
  <2>1. b \in Candidate
    BY <1>1, <1>3, Fields
  <2> QED
    BY <1>1, <1>3, <2>1 DEF Candidate
<1> HIDE DEF b
<1>5. /\ d \in Candidate /\ d.pc = "granted" /\ d.renew = "none" /\ d.epoch = lease.epoch + 1
      /\ d.boot = cand[c].boot /\ d.left = cand[c].left
  <2>1. d \in Candidate
    BY <1>4, Fields
  <2> QED
    BY <1>4, <2>1 DEF Candidate
<1> HIDE DEF d
<1>6. /\ lease' = new /\ new \in RoleRow
      /\ new.owner = c /\ new.boot = cand[c].boot /\ new.epoch = lease.epoch + 1
      /\ new.left = Lease
  <2>1. lease' = new
    BY DEF Elect
  <2>2. cand[c].boot \in Nat /\ cand[c].release \in Releases /\ Lease \in (-Grace)..Lease
    BY Types, Numbers DEF IInv
  <2> QED
    BY <1>1, <2>1, <2>2 DEF RoleRow
<1> HIDE DEF new
<1>7. ASSUME NEW e \in Instances PROVE Sound(e, cand'[e], lease')
  <2>1. CASE e = c
    <3>1. cand'[e] = d
      BY <1>2, <2>1 DEF IInv, TypeOK
    <3> QED
      BY <1>1, <1>5, <1>6, <2>1, <3>1 DEF Sound, Backed, Renews
  <2>2. CASE e # c
    <3>1. cand'[e] = cand[e] /\ Sound(e, cand[e], lease)
      BY <1>2, <2>2 DEF IInv, TypeOK
    <3>2. cand[e].left \in Nat /\ cand[e].asked \in Nat /\ cand[e].epoch \in Nat
      BY Types DEF IInv
    <3> QED
      BY <1>1, <1>6, <3>1, <3>2 DEF Sound, Backed
  <2> QED
    BY <2>1, <2>2
<1>8. cand' \in [Instances -> Candidate]
  BY <1>2, <1>5 DEF IInv, TypeOK
<1>9. Rest /\ token' = 0
  <2>1. boots' \in [Ages -> Nat]
    <3>1. 0 \in Ages /\ boots \in [Ages -> Nat]
      BY Numbers DEF Ages, IInv, TypeOK
    <3>2. [boots EXCEPT ![0] = @ + 1] \in [Ages -> Nat]
      BY <3>1
    <3> QED
      BY <3>1, <3>2 DEF Elect
  <2> QED
    BY <2>1 DEF Rest, Elect, IInv, TypeOK, TokenAfterElection
<1> QED
  BY <1>1, <1>6, <1>7, <1>8, <1>9, Preserved

LEMMA StepLeaveElection ==
  ASSUME IInv, NEW c \in Instances,
         Refuse(c) \/ GateRefuses(c) \/ AskFails(c) \/ QuarantineRole(c)
  PROVE  IInv'
<1>1. Leave(c, "standby") /\ lease' = lease /\ token' = token
  BY DEF Refuse, GateRefuses, AskFails, QuarantineRole, db
<1>2. Rest
  BY Numbers DEF Rest, Refuse, GateRefuses, AskFails, QuarantineRole, db, IInv, TypeOK
<1> QED
  BY <1>1, <1>2, LeaveStep DEF IInv, LeaseInv

LEMMA StepReceive ==
  ASSUME IInv, NEW c \in Instances, Receive(c)
  PROVE  IInv'
  BY NothingElse, ToStep DEF Receive, Elected, HasChild, Renews

-----------------------------------------------------------------------------
(* The steps of a leader *)

LEMMA StepRenewSend ==
  ASSUME IInv, NEW c \in Instances, RenewSend(c)
  PROVE  IInv'
<1> DEFINE a == [cand[c] EXCEPT !.renew = "sent"]
           b == [a EXCEPT !.asked = Lease]
<1>1. /\ cand[c] \in Candidate /\ Lease \in 0..Lease /\ cand[c].pc \in Renews
      /\ cand[c].left \in Nat
  BY Types, Numbers DEF IInv, RenewSend
<1>2. cand' = [cand EXCEPT ![c] = b]
  BY DEF RenewSend, IInv, TypeOK, Candidate
<1>3. /\ a \in Candidate /\ a.renew = "sent" /\ a.pc = cand[c].pc /\ a.boot = cand[c].boot
      /\ a.epoch = cand[c].epoch /\ a.left = cand[c].left /\ a.proven = cand[c].proven
  <2>1. a \in Candidate
    BY <1>1, Fields
  <2> QED
    BY <1>1, <2>1 DEF Candidate
<1> HIDE DEF a
<1>4. /\ b \in Candidate /\ b.renew = "sent" /\ b.pc = cand[c].pc /\ b.boot = cand[c].boot
      /\ b.epoch = cand[c].epoch /\ b.left = cand[c].left /\ b.proven = cand[c].proven
  <2>1. b \in Candidate
    BY <1>1, <1>3, Fields
  <2> QED
    BY <1>3, <2>1 DEF Candidate
<1> HIDE DEF b
<1>5. Sound(c, b, lease)
  BY <1>1, <1>4 DEF IInv, Sound, Backed, Renews
<1> QED
  BY <1>2, <1>4, <1>5, NothingElse, OneChanges DEF RenewSend

\* The row is extended, which takes nothing from anybody.
LEMMA StepRenewGranted ==
  ASSUME IInv, NEW c \in Instances, RenewCommit(c),
         Owned(c), Live, lease' = [lease EXCEPT !.left = Lease],
         cand' = [cand EXCEPT ![c].renew = "yes"]
  PROVE  IInv'
<1> DEFINE a == [cand[c] EXCEPT !.renew = "yes"]
<1>1. /\ cand[c] \in Candidate /\ Lease \in (-Grace)..Lease /\ lease.left <= Lease
      /\ cand[c].left \in Nat /\ cand[c].left <= Lease
      /\ cand[c].asked \in Nat /\ cand[c].asked <= Lease
      /\ lease.epoch \in Nat /\ cand[c].renew = "sent" /\ Sound(c, cand[c], lease)
  BY Types, Numbers DEF IInv, RenewCommit
<1>2. cand' = [cand EXCEPT ![c] = a]
  BY DEF IInv, TypeOK, Candidate
<1>3. /\ a \in Candidate /\ a.renew = "yes" /\ a.pc = cand[c].pc /\ a.boot = cand[c].boot
      /\ a.epoch = cand[c].epoch /\ a.left = cand[c].left /\ a.proven = cand[c].proven
      /\ a.asked = cand[c].asked
  <2>1. a \in Candidate
    BY <1>1, Fields
  <2> QED
    BY <1>1, <2>1 DEF Candidate
<1> HIDE DEF a
<1>4. /\ lease' \in RoleRow /\ lease'.owner = lease.owner /\ lease'.boot = lease.boot
      /\ lease'.epoch = lease.epoch /\ lease'.left = Lease
  BY <1>1 DEF IInv, TypeOK, RoleRow
<1>5. Sound(c, a, lease')
  BY <1>1, <1>3, <1>4 DEF Sound, Backed, Owned, Owner, Renews
<1>6. ASSUME NEW d \in Instances PROVE Sound(d, cand'[d], lease')
  <2>1. CASE d = c
    BY <1>2, <1>5, <2>1 DEF IInv, TypeOK
  <2>2. CASE d # c
    <3>1. cand'[d] = cand[d] /\ Sound(d, cand[d], lease) /\ cand[d] \in Candidate
      BY <1>2, <2>2, Types DEF IInv, TypeOK
    <3> QED
      BY <1>1, <3>1, Extended DEF IInv
  <2> QED
    BY <2>1, <2>2
<1>7. cand' \in [Instances -> Candidate]
  BY <1>2, <1>3 DEF IInv, TypeOK
<1>8. Rest /\ token' \in {0, lease'.epoch} /\ lease.epoch >= 1
  BY <1>4 DEF Rest, RenewCommit, IInv, TypeOK, LeaseInv, Live
<1> QED
  BY <1>4, <1>6, <1>7, <1>8, Preserved

\* A refusal ends the leadership, if it is noticed.
LEMMA StepRenewRefused ==
  ASSUME IInv, NEW c \in Instances, RenewCommit(c), UNCHANGED lease,
         cand' = [cand EXCEPT ![c].renew = "none", ![c].asked = 0,
                    ![c].pc   = IF @ \in Renews THEN "lost" ELSE @,
                    ![c].left = IF cand[c].pc \in Renews THEN 0 ELSE @]
  PROVE  IInv'
<1> DEFINE p == IF cand[c].pc \in Renews THEN "lost" ELSE cand[c].pc
           l == IF cand[c].pc \in Renews THEN 0 ELSE cand[c].left
           a == [cand[c] EXCEPT !.renew = "none"]
           b == [a EXCEPT !.asked = 0]
           d == [b EXCEPT !.pc = p]
           f == [d EXCEPT !.left = l]
<1>1. /\ cand[c] \in Candidate /\ p \in Phases /\ l \in 0..Lease /\ 0 \in 0..Lease
      /\ (cand[c].pc \in Renews /\ p = "lost" /\ l = 0)
           \/ (cand[c].pc \notin Renews /\ p = cand[c].pc /\ l = cand[c].left)
  BY Types, Numbers DEF IInv, Phases
<1>2. cand' = [cand EXCEPT ![c] = f]
  BY DEF IInv, TypeOK, Candidate
<1> HIDE DEF p, l
<1>3. /\ a \in Candidate /\ a.renew = "none" /\ a.boot = cand[c].boot
      /\ a.epoch = cand[c].epoch /\ a.proven = cand[c].proven
  <2>1. a \in Candidate
    BY <1>1, Fields
  <2> QED
    BY <1>1, <2>1 DEF Candidate
<1> HIDE DEF a
<1>4. /\ b \in Candidate /\ b.renew = "none" /\ b.boot = cand[c].boot
      /\ b.epoch = cand[c].epoch /\ b.proven = cand[c].proven
  <2>1. b \in Candidate
    BY <1>1, <1>3, Fields
  <2> QED
    BY <1>3, <2>1 DEF Candidate
<1> HIDE DEF b
<1>5. /\ d \in Candidate /\ d.renew = "none" /\ d.boot = cand[c].boot /\ d.pc = p
      /\ d.epoch = cand[c].epoch /\ d.proven = cand[c].proven
  <2>1. d \in Candidate
    BY <1>1, <1>4, Fields
  <2> QED
    BY <1>4, <2>1 DEF Candidate
<1> HIDE DEF d
<1>6. /\ f \in Candidate /\ f.renew = "none" /\ f.boot = cand[c].boot /\ f.pc = p
      /\ f.epoch = cand[c].epoch /\ f.proven = cand[c].proven /\ f.left = l
  <2>1. f \in Candidate
    BY <1>1, <1>5, Fields
  <2> QED
    BY <1>1, <1>5, <2>1 DEF Candidate
<1> HIDE DEF f
<1>7. Sound(c, f, lease)
  BY <1>1, <1>6 DEF IInv, Sound, Backed, Renews, Elected, HasChild
<1>8. Rest /\ lease' = lease /\ token' \in {0, lease.epoch}
  BY DEF Rest, RenewCommit, IInv, TypeOK, LeaseInv
<1> QED
  BY <1>2, <1>6, <1>7, <1>8, OneChanges

LEMMA StepRenewCommit ==
  ASSUME IInv, NEW c \in Instances, RenewCommit(c)
  PROVE  IInv'
  BY StepRenewGranted, StepRenewRefused DEF RenewCommit

\* The answer, or none: the deadline moves to one the row supports.
LEMMA StepRenewEnds ==
  ASSUME IInv, NEW c \in Instances, RenewReply(c) \/ RenewRetry(c)
  PROVE  IInv'
<1> DEFINE l == IF RenewReply(c) /\ cand[c].pc \in Renews THEN cand[c].asked ELSE cand[c].left
           n == IF RenewReply(c) /\ cand[c].pc \in Renews THEN TRUE ELSE cand[c].proven
           a == [cand[c] EXCEPT !.renew = "none"]
           b == [a EXCEPT !.asked = 0]
           d == [b EXCEPT !.left = l]
           f == [d EXCEPT !.proven = n]
<1>1. /\ cand[c] \in Candidate /\ l \in 0..Lease /\ 0 \in 0..Lease /\ n \in BOOLEAN
      /\ (cand[c].renew = "yes" /\ cand[c].pc \in Renews /\ l = cand[c].asked)
           \/ (n = cand[c].proven /\ l = cand[c].left)
  <2>1. /\ cand[c] \in Candidate /\ cand[c].left \in 0..Lease /\ cand[c].asked \in 0..Lease
        /\ 0 \in 0..Lease /\ cand[c].proven \in BOOLEAN
    BY Types, Numbers DEF IInv
  <2>2. CASE RenewReply(c) /\ cand[c].pc \in Renews
    <3>1. l = cand[c].asked /\ n = TRUE /\ cand[c].renew = "yes"
      BY <2>2 DEF RenewReply
    <3> QED
      BY <2>1, <2>2, <3>1
  <2>3. CASE ~(RenewReply(c) /\ cand[c].pc \in Renews)
    <3>1. l = cand[c].left /\ n = cand[c].proven
      BY <2>3
    <3> QED
      BY <2>1, <3>1
  <2> QED
    BY <2>2, <2>3
<1>2. cand' = [cand EXCEPT ![c] = f]
  <2>1. cand[c].proven \in BOOLEAN /\ cand \in [Instances -> Candidate]
    BY Types DEF IInv, TypeOK
  <2>2. CASE RenewReply(c)
    BY <2>1, <2>2 DEF RenewReply, Candidate
  <2>3. CASE ~RenewReply(c)
    <3>1. RenewRetry(c) /\ l = cand[c].left /\ n = cand[c].proven
      BY <2>3
    <3> HIDE DEF l, n
    <3>2. f = [cand[c] EXCEPT !.renew = "none", !.asked = 0]
      BY <2>1, <3>1 DEF Candidate
    <3> QED
      BY <2>1, <3>1, <3>2 DEF RenewRetry, Candidate
  <2> QED
    BY <2>2, <2>3
<1> HIDE DEF l, n
<1>3. /\ a \in Candidate /\ a.renew = "none" /\ a.boot = cand[c].boot /\ a.pc = cand[c].pc
      /\ a.epoch = cand[c].epoch
  <2>1. a \in Candidate
    BY <1>1, Fields
  <2> QED
    BY <1>1, <2>1 DEF Candidate
<1> HIDE DEF a
<1>4. /\ b \in Candidate /\ b.renew = "none" /\ b.boot = cand[c].boot /\ b.pc = cand[c].pc
      /\ b.epoch = cand[c].epoch
  <2>1. b \in Candidate
    BY <1>1, <1>3, Fields
  <2> QED
    BY <1>3, <2>1 DEF Candidate
<1> HIDE DEF b
<1>5. /\ d \in Candidate /\ d.renew = "none" /\ d.boot = cand[c].boot /\ d.pc = cand[c].pc
      /\ d.epoch = cand[c].epoch /\ d.left = l
  <2>1. d \in Candidate
    BY <1>1, <1>4, Fields
  <2> QED
    BY <1>1, <1>4, <2>1 DEF Candidate
<1> HIDE DEF d
<1>6. /\ f \in Candidate /\ f.renew = "none" /\ f.boot = cand[c].boot /\ f.pc = cand[c].pc
      /\ f.epoch = cand[c].epoch /\ f.left = l /\ f.proven = n
  <2>1. f \in Candidate
    BY <1>1, <1>5, Fields
  <2> QED
    BY <1>1, <1>5, <2>1 DEF Candidate
<1> HIDE DEF f
<1>7. Sound(c, f, lease)
  BY <1>1, <1>6 DEF IInv, Sound, Backed
<1> QED
  BY <1>2, <1>6, <1>7, NothingElse, OneChanges DEF RenewReply, RenewRetry

LEMMA StepGoesOn ==
  ASSUME IInv, NEW c \in Instances, Lose(c) \/ Stop(c) \/ StallRestart(c)
  PROVE  IInv'
<1>1. Rest /\ lease' = lease /\ token' \in {0, lease.epoch}
  BY NothingElse DEF Lose, Stop, StallRestart
<1>2. CASE Lose(c)
  BY <1>1, <1>2, ToStep DEF Lose, Elected, HasChild, Renews
<1>3. CASE Stop(c)
  <2>1. CASE cand[c].pc \in Renews \cup {"restart"} /\ To(c, "shutdown")
    BY <1>1, <2>1, ToStep DEF Elected, HasChild, Renews
  <2>2. CASE Leave(c, "releasing") \/ Leave(c, "down")
    BY <1>1, <2>2, LeaveStep
  <2> QED
    BY <1>3, <2>1, <2>2 DEF Stop
<1>4. CASE StallRestart(c)
  BY <1>1, <1>4, ToStep DEF StallRestart, Elected, HasChild, Renews
<1> QED
  BY <1>2, <1>3, <1>4

LEMMA StepChildGone ==
  ASSUME IInv, NEW c \in Instances, ChildEnds(c) \/ Crash(c)
  PROVE  IInv'
<1>1. Rest /\ lease' = lease /\ token' \in {0, lease.epoch}
  BY NothingElse DEF ChildEnds, Crash
<1>2. \E pc \in {"down", "standby", "yielding", "releasing"} : Leave(c, pc)
  BY DEF ChildEnds, Crash
<1> QED
  BY <1>1, <1>2, LeaveStep

\* Giving the role up takes nothing from another candidate: the row was c's.
LEMMA GiveUp ==
  ASSUME IInv, Rest, NEW c \in Instances, NEW pc \in {"down", "standby"}, Leave(c, pc),
         Owner(c), token' = 0, lease' \in RoleRow, lease'.epoch = lease.epoch, lease'.left = 0
  PROVE  IInv'
<1>1. PICK r \in Candidate : /\ cand' = [cand EXCEPT ![c] = r] /\ Sound(c, r, lease)
                             /\ r.pc = pc
  BY LeaveSound
<1>2. ASSUME NEW d \in Instances PROVE Sound(d, cand'[d], lease')
  <2>1. CASE d = c
    BY <1>1, <2>1 DEF IInv, TypeOK, Sound, Elected, HasChild, Renews
  <2>2. CASE d # c
    <3>1. cand'[d] = cand[d] /\ Sound(d, cand[d], lease)
      BY <1>1, <2>2 DEF IInv, TypeOK
    <3> QED
      BY <2>2, <3>1 DEF Owner, Sound, Backed
  <2> QED
    BY <2>1, <2>2
<1>3. cand' \in [Instances -> Candidate]
  BY <1>1 DEF IInv, TypeOK
<1> QED
  BY <1>2, <1>3, Preserved

LEMMA StepRelease ==
  ASSUME IInv, NEW c \in Instances, Release(c)
  PROVE  IInv'
<1>1. Rest /\ Leave(c, "down")
  BY DEF Rest, Release, IInv, TypeOK, NoBoots
<1>2. CASE Owner(c) /\ token' = 0 /\ lease' = [lease EXCEPT !.owner = NoOwner, !.boot = 0, !.left = 0]
  <2>1. 0 \in (-Grace)..Lease
    BY Numbers
  <2>2. lease' \in RoleRow /\ lease'.epoch = lease.epoch /\ lease'.left = 0
    BY <1>2, <2>1 DEF IInv, TypeOK, RoleRow
  <2> QED
    BY <1>1, <1>2, <2>2, GiveUp
<1>3. CASE UNCHANGED <<lease, boots, token>>
  BY <1>1, <1>3, LeaveStep DEF IInv, LeaseInv
<1> QED
  BY <1>2, <1>3 DEF Release

LEMMA StepYield ==
  ASSUME IInv, NEW c \in Instances, Yield(c)
  PROVE  IInv'
<1>1. Rest /\ Leave(c, "standby")
  BY DEF Rest, Yield, IInv, TypeOK
<1>2. CASE Owned(c) /\ token' = 0 /\ lease' = [lease EXCEPT !.left = 0]
  <2>1. 0 \in (-Grace)..Lease
    BY Numbers
  <2>2. lease' \in RoleRow /\ lease'.epoch = lease.epoch /\ lease'.left = 0
    BY <1>2, <2>1 DEF IInv, TypeOK, RoleRow
  <2> QED
    BY <1>1, <1>2, <2>2, GiveUp DEF Owned
<1>3. CASE UNCHANGED <<lease, token>>
  BY <1>1, <1>3, LeaveStep DEF IInv, LeaseInv
<1> QED
  BY <1>2, <1>3 DEF Yield

\* Fields of no concern to the row.
Noted(a, r) == /\ a.pc = r.pc /\ a.boot = r.boot /\ a.epoch = r.epoch /\ a.left = r.left
               /\ a.renew = r.renew /\ a.asked = r.asked /\ a.proven = r.proven

LEMMA NotedSound ==
  ASSUME IInv, Rest, lease' = lease, token' \in {0, lease.epoch}, NEW c \in Instances,
         NEW r \in Candidate, cand' = [cand EXCEPT ![c] = r], Noted(r, cand[c])
  PROVE  IInv'
<1>1. Sound(c, r, lease)
  BY DEF IInv, Noted, Sound, Backed
<1> QED
  BY <1>1, OneChanges

LEMMA WatchField ==
  ASSUME IInv, NEW c \in Instances, NEW w \in Nat, UNCHANGED <<db, seen, late>>,
         cand' = [cand EXCEPT ![c].watch = w, ![c].held = 0]
  PROVE  IInv'
<1> DEFINE a == [cand[c] EXCEPT !.watch = w]
           b == [a EXCEPT !.held = 0]
<1>1. cand[c] \in Candidate /\ 0 \in 0..Stable
  BY Types, Numbers DEF IInv
<1>2. cand' = [cand EXCEPT ![c] = b]
  BY DEF IInv, TypeOK, Candidate
<1>3. a \in Candidate /\ Noted(a, cand[c])
  <2>1. a \in Candidate
    BY <1>1, Fields
  <2> QED
    BY <1>1, <2>1 DEF Candidate, Noted
<1> HIDE DEF a
<1>4. b \in Candidate /\ Noted(b, cand[c])
  <2>1. b \in Candidate
    BY <1>1, <1>3, Fields
  <2> QED
    BY <1>3, <2>1 DEF Candidate, Noted
<1> HIDE DEF b
<1> QED
  BY <1>2, <1>4, NothingElse, NotedSound

LEMMA StepWatch ==
  ASSUME IInv, NEW c \in Instances, Watch(c)
  PROVE  IInv'
<1>1. UNCHANGED <<db, seen, late>> /\ cand[c].pc = "active"
  BY DEF Watch
<1>2. CASE cand' = [cand EXCEPT ![c].watch = 0, ![c].held = 0]
  BY <1>1, <1>2, WatchField
<1>3. CASE \E p \in Primaries : cand' = [cand EXCEPT ![c].watch = seen[p].boot, ![c].held = 0]
  <2>1. \A p \in Primaries : seen[p].boot \in Nat
    BY DEF IInv, TypeOK
  <2> QED
    BY <1>1, <1>3, <2>1, WatchField
<1>4. CASE To(c, "handoff")
  BY <1>1, <1>4, NothingElse, ToStep DEF Elected, HasChild, Renews
<1> QED
  BY <1>2, <1>3, <1>4 DEF Watch

-----------------------------------------------------------------------------
(* The job, and the rest of the world *)

LEMMA WorkField ==
  ASSUME IInv, Rest, lease' = lease, token' \in {0, lease.epoch}, NEW c \in Instances,
         NEW w \in BOOLEAN, cand' = [cand EXCEPT ![c].work = w]
  PROVE  IInv'
<1> DEFINE a == [cand[c] EXCEPT !.work = w]
<1>1. cand[c] \in Candidate
  BY Types DEF IInv
<1>2. cand' = [cand EXCEPT ![c] = a]
  BY DEF IInv, TypeOK, Candidate
<1>3. a \in Candidate /\ Noted(a, cand[c])
  <2>1. a \in Candidate
    BY <1>1, Fields
  <2> QED
    BY <1>1, <2>1 DEF Candidate, Noted
<1> HIDE DEF a
<1> QED
  BY <1>2, <1>3, NotedSound

LEMMA StepClaimJob ==
  ASSUME IInv, NEW c \in Instances, ClaimJob(c)
  PROVE  IInv'
<1>1. Rest /\ lease' = lease /\ token' = lease.epoch
  BY DEF Rest, ClaimJob, IInv, TypeOK, Owned, Owner
<1> QED
  BY <1>1, WorkField DEF ClaimJob

\* A token that is the epoch's is the newest epoch's, so nothing is stored late.
LEMMA StepEndJob ==
  ASSUME IInv, NEW c \in Instances, EndJob(c)
  PROVE  IInv'
<1>1. token' \in {0, lease.epoch} /\ late' = late
  <2>1. CASE token = cand[c].epoch /\ fence = "active"
    <3>1. cand[c].epoch >= 1 /\ cand[c].epoch \in Nat
      BY Types DEF EndJob, IInv, Sound, Elected
    <3>2. cand[c].epoch = lease.epoch
      BY <2>1, <3>1 DEF IInv, LeaseInv
    <3> QED
      BY <2>1, <3>2 DEF EndJob
  <2>2. CASE ~(token = cand[c].epoch /\ fence = "active")
    BY <2>2 DEF EndJob, IInv, LeaseInv
  <2> QED
    BY <2>1, <2>2
<1>2. Rest /\ lease' = lease
  BY <1>1 DEF Rest, EndJob, IInv, TypeOK
<1> QED
  BY <1>1, <1>2, WorkField DEF EndJob

LEMMA StepWorld ==
  ASSUME IInv, (\E p \in Primaries : Observe(p)) \/ FenceSite \/ ChangeMode
  PROVE  IInv'
<1>1. lease' = lease /\ token' = token /\ cand' = cand /\ late' = late
      /\ boots' = boots /\ quarantine' = quarantine
      /\ fence' \in {"active", "fenced"} /\ mode' \in {"legacy", "draining", "versioned"}
  BY DEF Observe, FenceSite, ChangeMode, db, IInv, TypeOK
<1>2. seen' \in [Primaries -> [boot : Nat, release : Releases, age : 0..(Fresh + 1)]]
  <2> DEFINE Seen == [boot : Nat, release : Releases, age : 0..(Fresh + 1)]
  <2>1. CASE \E p \in Primaries : Observe(p)
    <3>1. PICK p \in Primaries : Observe(p)
      BY <2>1
    <3>2. p \in Instances /\ 0 \in 0..(Fresh + 1) /\ Fresh + 1 \in 0..(Fresh + 1)
      BY InstancesAssumption, Numbers
    <3>3. cand[p].release \in Releases /\ cand[p].boot \in Nat
      BY <3>2, Types DEF IInv
    <3>4. NotSeen \in Seen
      BY <3>2, <3>3 DEF NotSeen
    <3>5. [boot |-> cand[p].boot, release |-> cand[p].release, age |-> 0] \in Seen
      BY <3>2, <3>3
    <3> DEFINE v == IF cand[p].pc \in {"standby", "asking"}
                    THEN [boot |-> cand[p].boot, release |-> cand[p].release, age |-> 0]
                    ELSE NotSeen
    <3>6. v \in Seen /\ seen' = [seen EXCEPT ![p] = v]
      BY <3>1, <3>4, <3>5 DEF Observe
    <3> HIDE DEF v, Seen
    <3>7. seen \in [Primaries -> Seen]
      BY DEF Seen, IInv, TypeOK
    <3> QED
      BY <3>6, <3>7 DEF Seen
  <2>2. CASE seen' = seen
    BY <2>2 DEF IInv, TypeOK
  <2> QED
    BY <2>1, <2>2 DEF FenceSite, ChangeMode
<1>3. Rest
  BY <1>1, <1>2 DEF Rest, IInv, TypeOK
<1>4. lease' \in RoleRow /\ token' \in {0, lease'.epoch} /\ (lease'.left > 0 => lease'.epoch >= 1)
  BY <1>1 DEF IInv, LeaseInv, TypeOK
<1>5. cand' \in [Instances -> Candidate] /\ \A d \in Instances : Sound(d, cand'[d], lease')
  BY <1>1 DEF IInv, TypeOK
<1> QED
  BY <1>3, <1>4, <1>5, Preserved

\* Every deadline comes nearer as fast as the end of the lease.
LEMMA StepElapse ==
  ASSUME IInv, Elapse
  PROVE  IInv'
<1> DEFINE left == IF lease.left > -Grace THEN lease.left - 1 ELSE lease.left
<1>1. /\ lease' \in RoleRow /\ lease'.owner = lease.owner /\ lease'.boot = lease.boot
      /\ lease'.epoch = lease.epoch /\ lease'.left = left
      /\ left \in Int /\ left <= lease.left
      /\ \A n \in Nat : n >= 1 /\ n <= lease.left => n - 1 <= left
  <2>1. left \in (-Grace)..Lease /\ lease \in RoleRow /\ lease.left \in Int
    BY Types, Numbers DEF IInv, TypeOK
  <2>2. /\ left \in Int /\ left <= lease.left
        /\ \A n \in Nat : n >= 1 /\ n <= lease.left => n - 1 <= left
    BY Types, Numbers DEF IInv
  <2>3. lease' = [lease EXCEPT !.left = left]
    BY <2>1 DEF Elapse, RoleRow
  <2> HIDE DEF left
  <2> QED
    BY <2>1, <2>2, <2>3 DEF RoleRow
<1> HIDE DEF left
<1>2. ASSUME NEW c \in Instances
      PROVE  /\ cand'[c] \in Candidate
             /\ cand'[c].pc = cand[c].pc /\ cand'[c].boot = cand[c].boot
             /\ cand'[c].epoch = cand[c].epoch /\ cand'[c].renew = cand[c].renew
             /\ cand'[c].proven = cand[c].proven
             /\ cand'[c].left = Less(cand[c].left) /\ cand'[c].asked = Less(cand[c].asked)
  <2> DEFINE l == Less(cand[c].left)
             s == Less(cand[c].asked)
             h == IF cand[c].watch > 0 /\ cand[c].held < Stable THEN cand[c].held + 1
                  ELSE cand[c].held
             a == [cand[c] EXCEPT !.left = l]
             b == [a EXCEPT !.asked = s]
             d == [b EXCEPT !.held = h]
  <2>1. cand[c] \in Candidate /\ l \in 0..Lease /\ s \in 0..Lease /\ h \in 0..Stable
    BY Types, Numbers DEF IInv, Less
  <2>2. cand'[c] = d
    BY <2>1 DEF Elapse, Candidate
  <2> HIDE DEF l, s, h
  <2>3. a \in Candidate /\ a.left = l /\ a.pc = cand[c].pc /\ a.boot = cand[c].boot
        /\ a.epoch = cand[c].epoch /\ a.renew = cand[c].renew /\ a.proven = cand[c].proven
    <3>1. a \in Candidate
      BY <2>1, Fields
    <3> QED
      BY <2>1, <3>1 DEF Candidate
  <2> HIDE DEF a
  <2>4. b \in Candidate /\ b.left = l /\ b.asked = s /\ b.pc = cand[c].pc
        /\ b.boot = cand[c].boot
        /\ b.epoch = cand[c].epoch /\ b.renew = cand[c].renew /\ b.proven = cand[c].proven
    <3>1. b \in Candidate
      BY <2>1, <2>3, Fields
    <3> QED
      BY <2>1, <2>3, <3>1 DEF Candidate
  <2> HIDE DEF b
  <2>5. d \in Candidate /\ d.left = l /\ d.asked = s /\ d.pc = cand[c].pc
        /\ d.boot = cand[c].boot
        /\ d.epoch = cand[c].epoch /\ d.renew = cand[c].renew /\ d.proven = cand[c].proven
    <3>1. d \in Candidate
      BY <2>1, <2>4, Fields
    <3> QED
      BY <2>4, <3>1 DEF Candidate
  <2> HIDE DEF d
  <2> QED
    BY <2>2, <2>5 DEF l, s
<1>3. cand' \in [Instances -> Candidate]
  <2>1. cand' = [c \in Instances |-> cand'[c]]
    BY DEF Elapse
  <2> QED
    BY <1>2, <2>1
<1>4. ASSUME NEW c \in Instances PROVE Sound(c, cand'[c], lease')
  <2>1. Sound(c, cand[c], lease) /\ cand[c].left \in Nat /\ cand[c].asked \in Nat
    BY Types DEF IInv
  <2>2. /\ cand'[c].left > 0 => cand[c].left >= 1 /\ cand'[c].left = cand[c].left - 1
        /\ cand'[c].asked > 0 => cand[c].asked >= 1 /\ cand'[c].asked = cand[c].asked - 1
    BY <1>2, <2>1 DEF Less
  <2> QED
    BY <1>1, <1>2, <2>1, <2>2 DEF Sound, Backed
<1>5. boots' \in [Ages -> Nat]
  <2>1. boots' = [a \in Ages |-> IF a = 0 THEN 0 ELSE boots[a - 1]] /\ boots \in [Ages -> Nat]
    BY DEF Elapse, IInv, TypeOK
  <2>2. ASSUME NEW a \in Ages PROVE (IF a = 0 THEN 0 ELSE boots[a - 1]) \in Nat
    <3>1. a # 0 => a - 1 \in Ages
      BY Numbers DEF Ages
    <3> QED
      BY <2>1, <3>1
  <2> QED
    BY <2>1, <2>2
<1>6. seen' \in [Primaries -> [boot : Nat, release : Releases, age : 0..(Fresh + 1)]]
  <2> DEFINE Seen == [boot : Nat, release : Releases, age : 0..(Fresh + 1)]
  <2>1. ASSUME NEW p \in Primaries
        PROVE  (IF seen[p].age < Fresh THEN [seen[p] EXCEPT !.age = @ + 1] ELSE NotSeen) \in Seen
    <3>1. seen[p] \in Seen /\ lease.release \in Releases
      BY DEF IInv, TypeOK, RoleRow
    <3>2. seen[p].age < Fresh => [seen[p] EXCEPT !.age = @ + 1] \in Seen
      BY <3>1, Numbers
    <3>3. NotSeen \in Seen
      BY <3>1, Numbers DEF NotSeen
    <3> QED
      BY <3>2, <3>3
  <2>2. seen' = [p \in Primaries |-> IF seen[p].age < Fresh THEN [seen[p] EXCEPT !.age = @ + 1]
                                     ELSE NotSeen]
    BY DEF Elapse
  <2> HIDE DEF Seen
  <2>3. seen' \in [Primaries -> Seen]
    BY <2>1, <2>2
  <2> QED
    BY <2>3 DEF Seen
<1>7. quarantine' \in 0..Quarantine
  <2>1. quarantine \in 0..Quarantine /\ quarantine' = Less(quarantine)
    BY DEF Elapse, IInv, TypeOK
  <2> QED
    BY <2>1, Numbers DEF Less
<1>8. Rest
  BY <1>5, <1>6, <1>7 DEF Rest, Elapse, IInv, TypeOK
<1>9. token' \in {0, lease'.epoch} /\ (lease'.left > 0 => lease'.epoch >= 1)
  <2>1. lease.left \in Int /\ (lease'.left > 0 => lease.left > 0)
    BY <1>1, Types DEF IInv
  <2>2. token' = token /\ token \in {0, lease.epoch} /\ (lease.left > 0 => lease.epoch >= 1)
    BY DEF Elapse, IInv, LeaseInv
  <2> QED
    BY <1>1, <2>1, <2>2
<1> QED
  BY <1>1, <1>3, <1>4, <1>8, <1>9, Preserved

-----------------------------------------------------------------------------
(* The invariant *)

LEMMA InitIInv == Init => IInv
<1> SUFFICES ASSUME Init PROVE IInv
  OBVIOUS
<1>1. cand \in [Instances -> Candidate] /\ \A c \in Instances : cand[c].pc = "down" /\ cand[c].epoch = 0
  <2>1. ASSUME NEW c \in Instances
        PROVE  cand[c] \in Candidate /\ cand[c].pc = "down" /\ cand[c].epoch = 0
    <3>1. PICK r \in Releases : cand[c] = Down(r)
      BY DEF Init
    <3>2. Down(r) \in Candidate /\ Down(r).pc = "down" /\ Down(r).epoch = 0
      BY DownType
    <3> QED
      BY <3>1, <3>2
  <2>2. \E S : cand \in [Instances -> S]
    BY DEF Init
  <2> QED
    BY <2>1, <2>2
<1>2. /\ lease \in RoleRow /\ lease.epoch = 0 /\ lease.left = 0 /\ lease.release \in Releases
      /\ token = 0 /\ late = {}
  BY Numbers DEF Init, RoleRow
<1>3. NotSeen \in [boot : Nat, release : Releases, age : 0..(Fresh + 1)]
  BY <1>2, Numbers DEF NotSeen
<1>4. seen \in [Primaries -> [boot : Nat, release : Releases, age : 0..(Fresh + 1)]]
  BY <1>3 DEF Init
<1>5. TypeOK
  BY <1>1, <1>2, <1>4, Numbers DEF Init, TypeOK, NoBoots
<1>6. \A c \in Instances : Sound(c, cand[c], lease)
  BY <1>1, <1>2 DEF Sound, Elected, HasChild, Renews
<1> QED
  BY <1>2, <1>5, <1>6 DEF IInv, LeaseInv, NoLateResult

LEMMA NextIInv == IInv /\ [Next]_vars => IInv'
<1> SUFFICES ASSUME IInv, [Next]_vars PROVE IInv'
  OBVIOUS
<1>1. CASE UNCHANGED vars
  BY <1>1 DEF vars, db, IInv, TypeOK, LeaseInv, NoLateResult
<1>2. ASSUME NEW c \in Instances, Candidacy(c) PROVE IInv'
  BY <1>2, StepStart, StepAsk, StepReconfirm, StepElect, StepLeaveElection, StepReceive
     DEF Candidacy
<1>3. ASSUME NEW c \in Instances, Leadership(c) PROVE IInv'
  BY <1>3, StepRenewSend, StepRenewCommit, StepRenewEnds, StepGoesOn, StepChildGone,
     StepRelease, StepWatch, StepYield DEF Leadership
<1>4. ASSUME NEW c \in Instances, ClaimJob(c) \/ EndJob(c) PROVE IInv'
  BY <1>4, StepClaimJob, StepEndJob
<1>5. CASE (\E p \in Primaries : Observe(p)) \/ FenceSite \/ ChangeMode
  BY <1>5, StepWorld
<1>6. CASE Time \/ Delay
  BY <1>6, StepElapse DEF Time, Delay
<1> QED
  BY <1>1, <1>2, <1>3, <1>4, <1>5, <1>6 DEF Next

LEMMA Invariant == Spec => []IInv
BY InitIInv, NextIInv, PTL DEF Spec

\* The row, the observations and the candidate processes keep their types: no
\* deadline, epoch or boot count leaves its range (lib/jobs/role-leader.ts).
THEOREM TypeCorrect == Spec => []TypeOK
<1>1. IInv => TypeOK
  BY DEF IInv
<1> QED
  BY <1>1, Invariant, PTL

\* Whatever answers are lost and however long a child takes to die, nothing is
\* stored under an epoch once the next one is elected: tryAcquireRole clears the
\* role's job tokens in the transaction of the election.
THEOREM NothingStoredLate == Spec => []NoLateResult
<1>1. IInv => NoLateResult
  BY DEF IInv
<1> QED
  BY <1>1, Invariant, PTL

\* Two children within their deadlines: a deadline that an election or a renewal
\* gave is covered by the row, and the row names one epoch; so the older one has
\* only found its lease again.
THEOREM LeadersDoNotOverlap == Spec => []NoOverlap
<1>1. IInv => NoOverlap
  <2> SUFFICES ASSUME IInv, NEW c \in Instances, NEW d \in Instances,
                      Serving(c), Serving(d), cand[c].epoch < cand[d].epoch,
                      cand[c].proven
               PROVE  FALSE
    BY Types DEF NoOverlap, IInv
  <2>1. lease.epoch = cand[c].epoch
    BY DEF Serving, IInv, Sound, Backed, Elected
  <2>2. cand[d].epoch <= lease.epoch /\ cand[d].epoch \in Nat /\ cand[c].epoch \in Nat
    BY Types DEF IInv, Sound
  <2> QED
    BY <2>1, <2>2
<1> QED
  BY <1>1, Invariant, PTL
=============================================================================
