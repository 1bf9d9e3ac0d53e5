------------------------ MODULE ModelCapacityProofs ------------------------
(***************************************************************************)
(* Proofs about ModelCapacity for any requests, settings and policies.     *)
(*                                                                         *)
(* The slots are counted by the group's name, which the operator may       *)
(* change while calls are under way.  The count is right because a row of  *)
(* the policy in force, or of one it vouches for, bears the present name,  *)
(* and a slot is given only when there is no other row in use.  A slot     *)
(* given under the policy in force is a witness that this still is so.     *)
(***************************************************************************)
EXTENDS ModelCapacity, FiniteSetTheorems, TLAPS

InForce == chain \cup {revision}

\* The ledger: rs is the rows, or the rows in the middle of a transaction.
Grouped(rs) == \A q \in In(rs, Live) : rs[q].revision \in InForce => rs[q].group = group
Granted(rs) == \A q \in In(rs, {"reserved"}) : rs[q].revision = revision => NoStrangers(rs)
Counted(rs) == Cardinality(In(rs, Occupying)) <= setting.limit
Reserved(rs) ==
  Cardinality(In(rs, Occupying) \ Primary(Requests)) <= Max({setting.cap, setting.limit - setting.reserve})
Apart(rs) ==
  /\ \A q, r \in In(rs, Live) : q # r => setting.members[q] \cap setting.members[r] = {}
  /\ \A q, r \in setting.steps \cap In(rs, Sent) : setting.members[q] = setting.members[r] => q = r

Sound(rs) ==
  /\ rs \in [Requests -> Row] /\ \A q \in Requests : rs[q].revision <= revision
  /\ Grouped(rs) /\ Granted(rs) /\ Counted(rs) /\ Reserved(rs) /\ Apart(rs)

\* A request: what its process does, its row, its call at the engine.
Follows(r) ==
  LET x == rows[r] IN
  /\ caller[r] \in {"idle", "holding"} => x.state \in {"absent", "waiting", "reserved", "withdrawn"}
  /\ caller[r] \in {"idle", "holding", "quitting", "sending", "answered", "unsent"} => r \notin running
  /\ caller[r] \in {"sending", "calling"} \/ r \in running => x.state \in Unsettled \/ x.reviewed
  /\ x.reviewed => x.state = "withdrawn"

IInv == TypeOK /\ Sound(rows) /\ \A r \in Requests : Follows(r)

-----------------------------------------------------------------------------
(* The ledger *)

LEMMA InIsFinite ==
  ASSUME NEW rs, NEW states
  PROVE  /\ In(rs, states) \in SUBSET Requests /\ IsFiniteSet(In(rs, states))
         /\ IsFiniteSet(In(rs, states) \ Primary(Requests))
         /\ Cardinality(In(rs, states)) \in Nat /\ Cardinality(In(rs, states) \ Primary(Requests)) \in Nat
<1>1. In(rs, states) \in SUBSET Requests
  BY DEF In
<1>2. IsFiniteSet(Requests)
  BY SettingsAssumption
<1>3. IsFiniteSet(In(rs, states)) /\ IsFiniteSet(In(rs, states) \ Primary(Requests))
  BY <1>1, <1>2, FS_Subset
<1> QED
  BY <1>1, <1>3, FS_CardinalityType

\* The device of a setting: numbers, and the greater of its two caps.
LEMMA Device ==
  ASSUME TypeOK
  PROVE  /\ setting.limit \in Nat /\ setting.cap \in Nat /\ setting.limit - setting.reserve \in Nat
         /\ Max({setting.cap, setting.limit - setting.reserve}) \in Nat
         /\ setting.cap <= Max({setting.cap, setting.limit - setting.reserve})
         /\ setting.revisions \in 1..MaxRevision
         /\ \A r \in Requests : setting.rank[r] \in 1..2
<1>1. setting \in Settings
  BY DEF TypeOK
<1>2. /\ {setting.limit, setting.cap, setting.reserve} \subseteq Nat /\ setting.cap <= setting.limit
      /\ setting.reserve < setting.limit
      /\ setting.rank \in [Requests -> 1..2] /\ setting.revisions \in 1..MaxRevision
  BY <1>1, SettingsAssumption
<1> DEFINE a == setting.cap
           b == setting.limit - setting.reserve
<1>3. setting.limit \in Nat /\ setting.cap \in Nat /\ setting.reserve \in Nat
  BY <1>2
<1>4. a \in Nat /\ b \in Nat
  BY <1>2, <1>3
<1> HIDE DEF a, b
<1>5. \E x \in {a, b} : \A y \in {a, b} : x >= y
  <2>1. CASE a >= b
    BY <1>4, <2>1
  <2>2. CASE ~(a >= b)
    BY <1>4, <2>2
  <2> QED
    BY <2>1, <2>2
<1>6. Max({a, b}) \in {a, b} /\ \A y \in {a, b} : Max({a, b}) >= y
  BY <1>5 DEF Max
<1>7. Max({a, b}) \in Nat /\ a <= Max({a, b})
  BY <1>4, <1>6
<1> QED
  BY <1>2, <1>3, <1>4, <1>7 DEF a, b

LEMMA AbsentIsRow ==
  ASSUME TypeOK
  PROVE  /\ Absent \in Row /\ Absent.group \in Groups
         /\ \A rev \in 0..MaxRevision, g \in Groups :
              [Absent EXCEPT !.state = "waiting", !.revision = rev, !.group = g] \in Row
<1>1. 0 \in 0..MaxRevision /\ (CHOOSE g \in Groups : TRUE) \in Groups
  BY SettingsAssumption DEF TypeOK
<1>2. Absent \in Row
  BY <1>1 DEF Absent, Row, Live, Closed
<1> QED
  BY <1>1, <1>2 DEF Absent, Row, Live, Closed

\* A step of the ledger that admits nothing and sends nothing: rows end or
\* are given up.
Ends(rs, rt, q) ==
  /\ rt[q].revision = rs[q].revision /\ rt[q].group = rs[q].group
  /\ rt[q].state # rs[q].state =>
       /\ rt[q].state \in Closed \cup {"indeterminate"}
       /\ rt[q].state \in Sent => rs[q].state \in Unsettled

LEMMA SoundEnds ==
  ASSUME TypeOK, NEW rs, NEW rt \in [Requests -> Row], Sound(rs), \A q \in Requests : Ends(rs, rt, q)
  PROVE  Sound(rt)
<1>1. In(rt, Live) \subseteq In(rs, Live) /\ In(rt, Occupying) \subseteq In(rs, Occupying)
      /\ In(rt, {"reserved"}) \subseteq In(rs, {"reserved"}) /\ In(rt, Sent) \subseteq In(rs, Sent)
  <2>1. ASSUME NEW q \in Requests
        PROVE  /\ rt[q].state = rs[q].state \/ rt[q].state \in {"settled", "withdrawn", "indeterminate"}
               /\ rt[q].state \in Sent => rs[q].state \in Sent
    BY DEF Ends, Sent, Closed, Unsettled
  <2>2. In(rt, Live) \subseteq In(rs, Live)
    BY <2>1 DEF In, Live
  <2>3. In(rt, Occupying) \subseteq In(rs, Occupying)
    BY <2>1 DEF In, Occupying
  <2>4. In(rt, {"reserved"}) \subseteq In(rs, {"reserved"})
    BY <2>1 DEF In
  <2>5. In(rt, Sent) \subseteq In(rs, Sent)
    BY <2>1 DEF In
  <2> QED
    BY <2>2, <2>3, <2>4, <2>5
<1>2. \A q \in Requests : rt[q].revision = rs[q].revision /\ rt[q].group = rs[q].group
  BY DEF Ends
<1>3. Grouped(rt)
  BY <1>1, <1>2 DEF Sound, Grouped, In
<1>4. NoStrangers(rs) => NoStrangers(rt)
  BY <1>1, <1>2 DEF NoStrangers, In
<1>5. Granted(rt)
  BY <1>1, <1>2, <1>4 DEF Sound, Granted, In
<1>6. Cardinality(In(rt, Occupying)) <= Cardinality(In(rs, Occupying))
  BY <1>1, InIsFinite, FS_Subset
<1>7. Counted(rt)
  <2> DEFINE a == Cardinality(In(rt, Occupying))
             b == Cardinality(In(rs, Occupying))
             c == setting.limit
  <2>1. a \in Nat /\ b \in Nat /\ c \in Nat /\ a <= b
    BY <1>6, InIsFinite, Device
  <2>2. b <= c
    BY DEF Sound, Counted
  <2> HIDE DEF a, b, c
  <2>3. a <= c
    BY <2>1, <2>2
  <2> QED
    BY <2>3 DEF Counted, a, c
<1>8. Cardinality(In(rt, Occupying) \ Primary(Requests)) <= Cardinality(In(rs, Occupying) \ Primary(Requests))
  <2>1. In(rt, Occupying) \ Primary(Requests) \subseteq In(rs, Occupying) \ Primary(Requests)
    BY <1>1
  <2> QED
    BY <2>1, InIsFinite, FS_Subset
<1>9. Reserved(rt)
  <2> DEFINE a == Cardinality(In(rt, Occupying) \ Primary(Requests))
             b == Cardinality(In(rs, Occupying) \ Primary(Requests))
             c == Max({setting.cap, setting.limit - setting.reserve})
  <2>1. a \in Nat /\ b \in Nat /\ c \in Nat /\ a <= b
    BY <1>8, InIsFinite, Device
  <2>2. b <= c
    BY DEF Sound, Reserved
  <2> HIDE DEF a, b, c
  <2>3. a <= c
    BY <2>1, <2>2
  <2> QED
    BY <2>3 DEF Reserved, a, c
<1>10. Apart(rt)
  BY <1>1 DEF Sound, Apart
<1>11. \A q \in Requests : rt[q].revision <= revision
  BY <1>2 DEF Sound
<1> QED
  BY <1>3, <1>5, <1>7, <1>9, <1>10, <1>11 DEF Sound

\* What the sweep leaves.
LEMMA SweptRow ==
  ASSUME NEW rs \in [Requests -> Row], NEW q \in Requests
  PROVE  /\ Expired(rs)[q] \in Row
         /\ \/ Expired(rs)[q] = rs[q]
            \/ rs[q].state \in {"waiting", "reserved"} /\ Expired(rs)[q] = [rs[q] EXCEPT !.state = "withdrawn"]
<1>1. [rs[q] EXCEPT !.state = "withdrawn"] \in Row
  BY DEF Row, Closed
<1> QED
  BY <1>1 DEF Expired

LEMMA SoundSweep ==
  ASSUME TypeOK, NEW rs, Sound(rs)
  PROVE  Sound(Expired(rs)) /\ Expired(rs) \in [Requests -> Row]
<1>1. rs \in [Requests -> Row]
  BY DEF Sound
<1>2. Expired(rs) \in [Requests -> Row]
  BY <1>1, SweptRow DEF Expired
<1>3. ASSUME NEW q \in Requests PROVE Ends(rs, Expired(rs), q)
  <2>1. rs[q] \in Row
    BY <1>1
  <2>2. CASE Expired(rs)[q] = rs[q]
    BY <2>2 DEF Ends
  <2>3. CASE rs[q].state \in {"waiting", "reserved"} /\ Expired(rs)[q] = [rs[q] EXCEPT !.state = "withdrawn"]
    BY <2>1, <2>3 DEF Ends, Row, Closed, Sent
  <2> QED
    BY <1>1, <2>2, <2>3, SweptRow
<1> QED
  BY <1>2, <1>3, SoundEnds

\* A request that queues: its work is nobody else's.
LEMMA SoundQueued ==
  ASSUME TypeOK, NEW rs, Sound(rs), NEW r \in Requests, ~Blocked(rs, r), NoStrangers(rs),
         rs[r].state \in {"absent", "waiting"}
  PROVE  Sound(Queued(rs, r)) /\ NoStrangers(Queued(rs, r))
<1> DEFINE new == [Absent EXCEPT !.state = "waiting", !.revision = revision, !.group = group]
           rt == [p \in Requests |-> IF p = r THEN new ELSE rs[p]]
<1>1. CASE rs[r].state = "waiting"
  BY <1>1 DEF Queued
<1>2. CASE rs[r].state = "absent"
  <2>1. revision \in 0..MaxRevision /\ revision \in Int /\ group \in Groups
    BY SettingsAssumption DEF TypeOK
  <2>2. new \in Row /\ new.state = "waiting" /\ new.revision = revision /\ new.group = group
    BY <2>1, AbsentIsRow DEF Absent
  <2>3. rs \in [Requests -> Row]
    BY DEF Sound
  <2> HIDE DEF new
  <2>4. rt \in [Requests -> Row] /\ rt[r] = new /\ \A q \in Requests \ {r} : rt[q] = rs[q]
    BY <2>2, <2>3
  <2>5. Queued(rs, r) = rt
    BY <1>2 DEF Queued, Set, new
  <2> HIDE DEF rt
  <2>6. In(rt, Occupying) = In(rs, Occupying) /\ In(rt, {"reserved"}) = In(rs, {"reserved"})
        /\ In(rt, Sent) = In(rs, Sent)
    BY <1>2, <2>2, <2>4 DEF In, Occupying, Sent
  <2>7. r \notin In(rs, Occupying) /\ r \notin In(rs, {"reserved"})
    BY <1>2 DEF In, Occupying
  <2>8. NoStrangers(rt)
    BY <2>4, <2>6, <2>7 DEF NoStrangers, In
  <2>9. \A q \in Requests : rt[q].revision <= revision
    BY <2>1, <2>2, <2>4 DEF Sound
  <2>10. Grouped(rt)
    BY <2>2, <2>4 DEF Sound, Grouped, In
  <2>11. Granted(rt) /\ Counted(rt) /\ Reserved(rt)
    BY <2>6, <2>8 DEF Sound, Granted, Counted, Reserved
  <2>12. \A q \in In(rs, Live) \ {r} : setting.members[q] \cap setting.members[r] = {}
    BY DEF Blocked, In
  <2>13. In(rt, Live) \ {r} = In(rs, Live) \ {r}
    BY <2>4 DEF In
  <2>14. Apart(rt)
    <3>1. ASSUME NEW p \in In(rt, Live), NEW q \in In(rt, Live), p # q
          PROVE  setting.members[p] \cap setting.members[q] = {}
      BY <2>12, <2>13, <3>1 DEF Sound, Apart
    <3> QED
      BY <2>6, <3>1 DEF Sound, Apart
  <2> QED
    BY <2>4, <2>5, <2>8, <2>9, <2>10, <2>11, <2>14 DEF Sound
<1> QED
  BY <1>1, <1>2

\* A slot given: every slot in use bears the present name, so the count was
\* right, and it leaves room for one more.
LEMMA SoundReserved ==
  ASSUME TypeOK, NEW rs, Sound(rs), NoStrangers(rs), NEW recent \in BOOLEAN,
         NEW q \in Candidates(rs), Fits(rs, q, recent)
  PROVE  Sound(Set(rs, q, [rs[q] EXCEPT !.state = "reserved"]))
<1> DEFINE new == [rs[q] EXCEPT !.state = "reserved"]
           rt == [p \in Requests |-> IF p = q THEN new ELSE rs[p]]
           held == In(rs, Occupying)
           others == held \ Primary(Requests)
           top == Max({setting.cap, setting.limit - setting.reserve})
<1>1. q \in Requests /\ rs[q].state = "waiting" /\ rs[q].revision = revision /\ rs \in [Requests -> Row]
  BY DEF Sound, Candidates, In
<1>2. new \in Row /\ new.state = "reserved" /\ new.revision = revision /\ new.group = rs[q].group
  BY <1>1 DEF Row, Live
<1> HIDE DEF new
<1>3. rt \in [Requests -> Row] /\ rt[q] = new /\ \A p \in Requests \ {q} : rt[p] = rs[p]
  BY <1>1, <1>2
<1>4. Set(rs, q, [rs[q] EXCEPT !.state = "reserved"]) = rt
  BY DEF Set, new
<1> HIDE DEF rt
<1>5. Holders(rs) = held
  BY DEF Holders, Sound, Grouped, NoStrangers, In, InForce, Live, Occupying
<1>6. In(rt, Live) = In(rs, Live)
  BY <1>1, <1>2, <1>3 DEF In, Live
<1>7. In(rt, Occupying) = held \cup {q} /\ q \notin held
  BY <1>1, <1>2, <1>3 DEF In, Occupying
<1>8. In(rt, Sent) = In(rs, Sent)
  BY <1>1, <1>2, <1>3 DEF In, Sent
<1>9. held \ Primary(held) = others
  BY DEF Primary, In
<1>10. IsFiniteSet(held) /\ IsFiniteSet(others) /\ Cardinality(held) \in Nat /\ Cardinality(others) \in Nat
  BY InIsFinite
<1>11. setting.limit \in Nat /\ setting.cap \in Nat /\ top \in Nat /\ setting.cap <= top
       /\ setting.rank[q] \in 1..2
  BY <1>1, Device
<1>12. Counted(rt)
  <2>1. Cardinality(held) < setting.limit
    BY <1>5 DEF Fits
  <2>2. Cardinality(held \cup {q}) = Cardinality(held) + 1
    BY <1>7, <1>10, FS_AddElement
  <2> DEFINE n == Cardinality(held)
             l == setting.limit
  <2>3. n \in Nat /\ l \in Nat /\ n < l
    BY <1>10, <1>11, <2>1
  <2> HIDE DEF n, l
  <2>4. n + 1 <= l
    BY <2>3
  <2> QED
    BY <1>7, <2>2, <2>4 DEF Counted, n, l
<1>13. Reserved(rt)
  <2>1. CASE setting.rank[q] = 1
    <3>1. In(rt, Occupying) \ Primary(Requests) = others
      BY <1>1, <1>7, <2>1 DEF Primary
    <3> QED
      BY <3>1 DEF Reserved, Sound
  <2>2. CASE setting.rank[q] # 1
    <3>1. q \notin Primary(Requests)
      BY <2>2 DEF Primary
    <3>2. In(rt, Occupying) \ Primary(Requests) = others \cup {q} /\ q \notin others
      BY <1>7, <3>1
    <3>3. Cardinality(others \cup {q}) = Cardinality(others) + 1
      BY <1>10, <3>2, FS_AddElement
    <3>4. Cardinality(others) < IF Busy(rs, recent) THEN setting.cap ELSE top
      BY <1>5, <1>9, <2>2 DEF Fits
    <3> DEFINE n == Cardinality(others)
               c == setting.cap
               t == top
    <3>5. n \in Nat /\ c \in Nat /\ t \in Nat /\ c <= t /\ (n < c \/ n < t)
      BY <1>10, <1>11, <3>4
    <3> HIDE DEF n, c, t
    <3>6. n + 1 <= t
      BY <3>5
    <3> QED
      BY <3>2, <3>3, <3>6 DEF Reserved, n, t
  <2> QED
    BY <2>1, <2>2
<1>14. NoStrangers(rt)
  BY <1>2, <1>3, <1>7 DEF NoStrangers, In
<1>15. Grouped(rt)
  BY <1>1, <1>2, <1>3, <1>6 DEF Sound, Grouped, In
<1>16. \A p \in Requests : rt[p].revision <= revision
  BY <1>1, <1>2, <1>3 DEF Sound
<1>17. Apart(rt)
  BY <1>6, <1>8 DEF Sound, Apart
<1>18. Granted(rt)
  BY <1>14 DEF Granted
<1> QED
  BY <1>3, <1>4, <1>12, <1>13, <1>15, <1>16, <1>17, <1>18 DEF Sound

LEMMA SoundGrants ==
  ASSUME TypeOK, NEW rs, Sound(rs), NoStrangers(rs), NEW recent \in BOOLEAN, NEW rt \in Grants(rs, recent)
  PROVE  Sound(rt)
<1>1. CASE rt = rs
  BY <1>1
<1>2. ASSUME NEW q \in Candidates(rs), Fits(rs, q, recent), rt = Set(rs, q, [rs[q] EXCEPT !.state = "reserved"])
      PROVE  Sound(rt)
  BY <1>2, SoundReserved
<1> QED
  BY <1>1, <1>2 DEF Grants

-----------------------------------------------------------------------------
(* Steps *)

Phases == {"idle", "holding", "quitting", "sending", "calling", "answered", "unsent", "failed", "over", "dead"}

\* The ledger does not look at the mode or at the fence.
LEMMA SoundMoves ==
  ASSUME Sound(rows'), UNCHANGED <<setting, revision, group, chain>>
  PROVE  Sound(rows)'
<1> DEFINE rt == rows'
<1>1. setting' = setting /\ revision' = revision /\ group' = group /\ chain' = chain
  OBVIOUS
<1>2. Grouped(rows)' /\ Granted(rows)'
  BY <1>1 DEF Sound, Grouped, Granted, NoStrangers, InForce, In
<1>3. Counted(rows)' /\ Reserved(rows)'
  BY <1>1 DEF Sound, Counted, Reserved, In, Primary
<1>4. Apart(rows)'
  BY <1>1 DEF Sound, Apart, In
<1> QED
  BY <1>1, <1>2, <1>3, <1>4 DEF Sound

\* A row left alone, swept, queued or reserved; and a request so treated.
Touched(x, y) == \/ y = x
                 \/ /\ x.state \in {"absent", "waiting", "reserved"}
                    /\ y.state \in {"waiting", "reserved", "withdrawn"} /\ ~y.reviewed
Stays(q) ==
  caller'[q] = caller[q] /\ (q \in running' <=> q \in running) /\ Touched(rows[q], rows'[q])

LEMMA FollowsStays ==
  ASSUME NEW q \in Requests, Follows(q), Stays(q)
  PROVE  Follows(q)'
<1>1. CASE rows'[q] = rows[q]
  BY <1>1 DEF Follows, Stays
<1>2. CASE rows'[q] # rows[q]
  BY <1>2 DEF Follows, Stays, Touched, Unsettled
<1> QED
  BY <1>1, <1>2

\* A step of one request, or of none.
LEMMA Steps ==
  ASSUME IInv, UNCHANGED control, Sound(rows'),
         caller' \in [Requests -> Phases], running' \subseteq Requests,
         \A q \in Requests : Stays(q) \/ Follows(q)'
  PROVE  IInv'
<1>1. TypeOK'
  BY DEF IInv, TypeOK, Sound, control, Phases
<1>2. Sound(rows)'
  BY SoundMoves DEF control
<1>3. \A q \in Requests : Follows(q)'
  BY FollowsStays DEF IInv
<1> QED
  BY <1>1, <1>2, <1>3 DEF IInv

\* A step of one request that ends its row or leaves it.
LEMMA OneRow ==
  ASSUME IInv, UNCHANGED control, NEW r \in Requests, rows' \in [Requests -> Row],
         \A q \in Requests \ {r} : rows'[q] = rows[q], Ends(rows, rows', r),
         NEW phase \in Phases, caller' = [caller EXCEPT ![r] = phase],
         running' \subseteq Requests, running' \ {r} = running \ {r}, Follows(r)'
  PROVE  IInv'
<1>1. TypeOK /\ Sound(rows)
  BY DEF IInv
<1>2. \A q \in Requests : Ends(rows, rows', q)
  BY DEF Ends
<1>3. Sound(rows')
  BY <1>1, <1>2, SoundEnds
<1>4. caller \in [Requests -> Phases]
  BY <1>1 DEF TypeOK, Phases
<1>5. caller' \in [Requests -> Phases] /\ \A q \in Requests \ {r} : caller'[q] = caller[q]
  BY <1>4
<1>6. \A q \in Requests \ {r} : Stays(q)
  BY <1>5 DEF Stays, Touched
<1> QED
  BY <1>3, <1>5, <1>6, Steps

\* One field of one row, and perhaps its lateness.
LEMMA RowEnds ==
  ASSUME TypeOK, NEW r \in Requests, NEW s \in Live \cup Closed \cup {"indeterminate"},
         Closing(r, s) \/ rows' = [rows EXCEPT ![r].state = s]
  PROVE  /\ rows' \in [Requests -> Row] /\ \A q \in Requests \ {r} : rows'[q] = rows[q]
         /\ rows'[r].state = s /\ rows'[r].revision = rows[r].revision /\ rows'[r].group = rows[r].group
         /\ rows'[r].reviewed = rows[r].reviewed
<1>1. rows \in [Requests -> Row] /\ rows[r] \in Row
  BY DEF TypeOK
<1>2. CASE Closing(r, s)
  <2>1. rows' = [rows EXCEPT ![r] = [rows[r] EXCEPT !.state = s, !.late = FALSE]]
    BY <1>1, <1>2 DEF Closing
  <2>2. [rows[r] EXCEPT !.state = s, !.late = FALSE] \in Row
    BY <1>1 DEF Row
  <2> QED
    BY <1>1, <2>1, <2>2 DEF Row
<1>3. CASE rows' = [rows EXCEPT ![r].state = s]
  <2>1. rows' = [rows EXCEPT ![r] = [rows[r] EXCEPT !.state = s]]
    BY <1>1, <1>3
  <2>2. [rows[r] EXCEPT !.state = s] \in Row
    BY <1>1 DEF Row
  <2> QED
    BY <1>1, <2>1, <2>2 DEF Row
<1> QED
  BY <1>2, <1>3

LEMMA Initially == Init => IInv
<1> SUFFICES ASSUME Init PROVE IInv
  OBVIOUS
<1>1. setting \in Settings /\ setting.revisions \in 1..MaxRevision /\ MaxRevision \in Nat /\ MaxChain \in Nat
  BY SettingsAssumption DEF Init
<1>2. 0 \in 0..MaxRevision /\ (CHOOSE g \in Groups : TRUE) \in Groups /\ revision \in 1..MaxRevision
  BY <1>1 DEF Init
<1>3. Absent \in Row /\ Absent.state = "absent" /\ Absent.revision = 0 /\ ~Absent.reviewed
  BY <1>2 DEF Absent, Row
<1>4. \A q \in Requests : rows[q] = Absent
  BY DEF Init
<1>5. Cardinality({}) = 0
  BY FS_EmptySet
<1>6. TypeOK
  <2>1. chain \subseteq 1..(revision - 1) /\ running \subseteq Requests
    BY DEF Init
  <2>2. chain = {} /\ 0 <= MaxChain
    BY <1>1 DEF Init
  <2>3. Cardinality(chain) <= MaxChain
    BY <1>5, <2>2
  <2>4. rows \in [Requests -> Row]
    BY <1>3 DEF Init
  <2>5. caller \in [Requests -> {"idle"}]
    BY DEF Init
  <2>6. /\ setting \in Settings /\ mode \in {"disabled", "draining", "open"} /\ group \in Groups
        /\ fenced \in BOOLEAN
    BY DEF Init
  <2> QED
    BY <1>2, <2>1, <2>3, <2>4, <2>5, <2>6 DEF TypeOK
<1>7. In(rows, Live) = {} /\ In(rows, Occupying) = {} /\ In(rows, {"reserved"}) = {} /\ In(rows, Sent) = {}
  BY <1>3, <1>4 DEF In, Live, Occupying, Sent
<1>8. Grouped(rows) /\ Granted(rows) /\ Apart(rows)
  BY <1>7 DEF Grouped, Granted, Apart
<1>9. Counted(rows)
  BY <1>5, <1>6, <1>7, Device DEF Counted
<1>10. Reserved(rows)
  <2>1. In(rows, Occupying) \ Primary(Requests) = {}
    BY <1>7
  <2> DEFINE top == Max({setting.cap, setting.limit - setting.reserve})
  <2>2. top \in Nat
    BY <1>6, Device
  <2> HIDE DEF top
  <2>3. 0 <= top
    BY <2>2
  <2> QED
    BY <1>5, <2>1, <2>3 DEF Reserved, top
<1>11. Sound(rows)
  BY <1>2, <1>3, <1>4, <1>6, <1>8, <1>9, <1>10 DEF Sound, TypeOK
<1>12. \A r \in Requests : Follows(r)
  BY <1>3, <1>4 DEF Init, Follows
<1> QED
  BY <1>6, <1>11, <1>12 DEF IInv

\* The rows after a sweep, seen from one request.
LEMMA SweptTouched ==
  ASSUME IInv, NEW q \in Requests
  PROVE  Touched(rows[q], Expired(rows)[q])
<1>1. rows \in [Requests -> Row] /\ rows[q] \in Row /\ Follows(q)
  BY DEF IInv, TypeOK
<1>2. CASE Expired(rows)[q] = rows[q]
  BY <1>2 DEF Touched
<1>3. CASE rows[q].state \in {"waiting", "reserved"} /\ Expired(rows)[q] = [rows[q] EXCEPT !.state = "withdrawn"]
  <2> DEFINE x == Expired(rows)[q]
  <2>1. x.state = "withdrawn" /\ x.reviewed = rows[q].reviewed
    BY <1>1, <1>3 DEF Row
  <2>2. ~rows[q].reviewed
    BY <1>1, <1>3 DEF Follows
  <2> QED
    BY <1>3, <2>1, <2>2 DEF Touched
<1> QED
  BY <1>1, <1>2, <1>3, SweptRow

\* The rows after a poll that queues its request and grants a slot, or not.
LEMMA GrantTouched ==
  ASSUME IInv, NEW r \in Requests, NEW recent \in BOOLEAN, NEW q \in Requests,
         Expired(rows)[r].state \in {"absent", "waiting"},
         NEW rt \in Grants(Queued(Expired(rows), r), recent)
  PROVE  Touched(rows[q], rt[q])
<1> DEFINE swept == Expired(rows)
           queued == Queued(swept, r)
<1>1. rows \in [Requests -> Row] /\ Follows(q) /\ TypeOK
  BY DEF IInv, TypeOK
<1>2. Touched(rows[q], swept[q])
  BY SweptTouched
<1>3. swept[q] \in Row
  BY <1>1, SweptRow
<1>4. rows[q].reviewed => rows[q].state = "withdrawn"
  BY <1>1 DEF Follows
<1>5. swept[q].reviewed => swept[q].state = "withdrawn"
  BY <1>2, <1>4 DEF Touched
<1> HIDE DEF swept
<1>6. /\ Touched(swept[q], queued[q]) /\ queued[q] \in Row
      /\ queued[q].reviewed => queued[q].state = "withdrawn"
  <2>1. CASE queued = swept
    BY <1>3, <1>5, <2>1 DEF Touched
  <2>2. CASE queued # swept
    <3> DEFINE new == [Absent EXCEPT !.state = "waiting", !.revision = revision, !.group = group]
    <3>1. revision \in 0..MaxRevision /\ group \in Groups
      BY <1>1, SettingsAssumption DEF TypeOK
    <3>2. new \in Row /\ new.state = "waiting" /\ ~new.reviewed
      BY <1>1, <3>1, AbsentIsRow DEF Absent
    <3> HIDE DEF new
    <3>3. queued = [p \in Requests |-> IF p = r THEN new ELSE swept[p]] /\ swept[r].state # "waiting"
      BY <2>2 DEF Queued, Set, new
    <3>4. swept[r].state = "absent"
      BY <3>3 DEF swept
    <3>5. queued[q] = IF q = r THEN new ELSE swept[q]
      BY <3>3
    <3> HIDE DEF queued
    <3> QED
      BY <1>3, <1>5, <3>2, <3>4, <3>5 DEF Touched
  <2> QED
    BY <2>1, <2>2
<1>7. rt \in Grants(queued, recent)
  BY DEF swept
<1> HIDE DEF queued
<1>8. Touched(queued[q], rt[q])
  <2>1. CASE rt = queued
    BY <2>1 DEF Touched
  <2>2. ASSUME NEW p \in Candidates(queued), rt = Set(queued, p, [queued[p] EXCEPT !.state = "reserved"])
        PROVE  Touched(queued[q], rt[q])
    <3>1. queued[p].state = "waiting"
      BY DEF Candidates, In
    <3>2. CASE p = q
      <4>1. rt[q] = [queued[q] EXCEPT !.state = "reserved"]
        BY <2>2, <3>2 DEF Set
      <4>2. rt[q].state = "reserved" /\ rt[q].reviewed = queued[q].reviewed
        BY <1>6, <4>1 DEF Row
      <4> QED
        BY <1>6, <3>1, <3>2, <4>2 DEF Touched
    <3>3. CASE p # q
      BY <2>2, <3>3 DEF Set, Touched
    <3> QED
      BY <3>2, <3>3
  <2> QED
    BY <1>7, <2>1, <2>2 DEF Grants
<1> QED
  BY <1>2, <1>6, <1>8 DEF Touched

LEMMA SweepKeeps == IInv /\ Sweep => IInv'
<1> SUFFICES ASSUME IInv, Sweep PROVE IInv'
  OBVIOUS
<1>1. TypeOK /\ Sound(rows)
  BY DEF IInv
<1>2. Sound(rows')
  BY <1>1, SoundSweep DEF Sweep
<1>3. caller' \in [Requests -> Phases] /\ running' \subseteq Requests /\ UNCHANGED control
  BY <1>1 DEF Sweep, TypeOK, Phases
<1>4. \A q \in Requests : Stays(q)
  BY SweptTouched DEF Sweep, Stays
<1> QED
  BY <1>2, <1>3, <1>4, Steps

LEMMA PollKeeps == ASSUME IInv, NEW r \in Requests, NEW recent \in BOOLEAN, Poll(r, recent) PROVE IInv'
<1> DEFINE swept == Expired(rows)
<1>1. TypeOK /\ Sound(rows) /\ Follows(r) /\ caller[r] = "idle" /\ running' = running /\ UNCHANGED control
  BY DEF IInv, Poll
<1>2. Sound(swept) /\ Touched(rows[r], swept[r])
  BY <1>1, SoundSweep, SweptTouched
<1>3. caller \in [Requests -> Phases]
  BY <1>1 DEF TypeOK, Phases
<1>4. r \notin running /\ rows[r].state \in {"absent", "waiting", "reserved", "withdrawn"}
      /\ (rows[r].reviewed => rows[r].state = "withdrawn")
  BY <1>1 DEF Follows
<1>5. CASE rows' = swept /\ UNCHANGED caller
  BY <1>1, <1>5, SweepKeeps DEF Poll, Sweep
<1>6. ASSUME NEW phase \in {"holding", "over"}, Become(r, phase), Sound(rows'),
             \A q \in Requests : Touched(rows[q], rows'[q])
      PROVE  IInv'
  <2>1. caller' \in [Requests -> Phases] /\ caller'[r] = phase /\ \A q \in Requests \ {r} : caller'[q] = caller[q]
    BY <1>3, <1>6 DEF Become, Phases
  <2>2. Follows(r)'
    BY <1>1, <1>4, <1>6, <2>1 DEF Follows, Touched
  <2>3. \A q \in Requests \ {r} : Stays(q)
    BY <1>1, <1>6, <2>1 DEF Stays
  <2>4. running' \subseteq Requests
    BY <1>1 DEF TypeOK
  <2> QED
    BY <1>1, <1>6, <2>1, <2>2, <2>3, <2>4, Steps
<1>7. CASE rows' = swept /\ Become(r, IF swept[r].state = "reserved" THEN "holding" ELSE "over")
  <2>1. \A q \in Requests : Touched(rows[q], rows'[q])
    BY <1>7, SweptTouched
  <2> QED
    BY <1>2, <1>6, <1>7, <2>1
<1>8. CASE /\ ~Blocked(swept, r) /\ swept[r].state \in {"absent", "waiting"} /\ Admits(swept, r)
           /\ rows' \in Grants(Queued(swept, r), recent)
           /\ UNCHANGED caller \/ Become(r, "holding")
  <2>1. Sound(Queued(swept, r)) /\ NoStrangers(Queued(swept, r))
    BY <1>1, <1>2, <1>8, SoundQueued DEF Admits
  <2>2. Sound(rows')
    BY <1>1, <1>8, <2>1, SoundGrants
  <2>3. \A q \in Requests : Touched(rows[q], rows'[q])
    BY <1>8, GrantTouched
  <2>4. CASE UNCHANGED caller
    <3>1. \A q \in Requests : Stays(q)
      BY <1>1, <2>3, <2>4 DEF Stays
    <3>2. running' \subseteq Requests /\ caller' \in [Requests -> Phases]
      BY <1>1, <1>3, <2>4 DEF TypeOK
    <3> QED
      BY <1>1, <2>2, <3>1, <3>2, Steps
  <2>5. CASE Become(r, "holding")
    BY <1>6, <2>2, <2>3, <2>5
  <2> QED
    BY <1>8, <2>4, <2>5
<1> QED
  BY <1>5, <1>7, <1>8 DEF Poll

LEMMA AgeKeeps == ASSUME IInv, NEW r \in Requests, Age(r) PROVE IInv'
<1>1. TypeOK /\ Follows(r) /\ rows \in [Requests -> Row] /\ caller \in [Requests -> Phases]
  BY DEF IInv, TypeOK, Phases
<1>2. rows' = [rows EXCEPT ![r] = [rows[r] EXCEPT !.late = TRUE]]
  BY <1>1 DEF Age
<1>3. [rows[r] EXCEPT !.late = TRUE] \in Row
  BY <1>1 DEF Row
<1>4. rows' \in [Requests -> Row] /\ \A q \in Requests \ {r} : rows'[q] = rows[q]
  BY <1>1, <1>2, <1>3
<1>5. /\ rows'[r].state = rows[r].state /\ rows'[r].revision = rows[r].revision
      /\ rows'[r].group = rows[r].group /\ rows'[r].reviewed = rows[r].reviewed
  BY <1>1, <1>2 DEF Row
<1>6. Ends(rows, rows', r)
  BY <1>5 DEF Ends
<1>7. caller[r] \in Phases /\ caller' = [caller EXCEPT ![r] = caller[r]] /\ caller' = caller
  BY <1>1 DEF Age
<1>8. running' = running /\ running' \subseteq Requests /\ UNCHANGED control
  BY <1>1 DEF Age, TypeOK
<1>9. Follows(r)'
  BY <1>1, <1>5, <1>7, <1>8 DEF Follows
<1> QED
  BY <1>4, <1>6, <1>7, <1>8, <1>9, OneRow

\* A dispatch: nobody else's call is of this work, no other attempt at the
\* step was sent.
LEMMA DispatchKeeps == ASSUME IInv, NEW r \in Requests, NEW lost \in BOOLEAN, Dispatch(r, lost) PROVE IInv'
<1>1. TypeOK /\ Sound(rows) /\ Follows(r) /\ rows \in [Requests -> Row] /\ caller \in [Requests -> Phases]
  BY DEF IInv, TypeOK, Phases
<1>2. /\ caller[r] = "holding" /\ rows[r].state = "reserved" /\ rows[r].revision = revision /\ ~Blocked(rows, r)
      /\ running' = running /\ UNCHANGED control
  BY DEF Dispatch, Dispatchable
<1>3. rows' = [rows EXCEPT ![r].state = "dispatched"]
  BY DEF Dispatch
<1>4. /\ rows' \in [Requests -> Row] /\ \A q \in Requests \ {r} : rows'[q] = rows[q]
      /\ rows'[r].state = "dispatched" /\ rows'[r].revision = rows[r].revision
      /\ rows'[r].group = rows[r].group /\ rows'[r].reviewed = rows[r].reviewed
  BY <1>1, <1>3, RowEnds DEF Live
<1>5. \A q \in Requests : rows'[q].revision = rows[q].revision /\ rows'[q].group = rows[q].group
  BY <1>4
<1>6. In(rows', Live) = In(rows, Live) /\ In(rows', Occupying) = In(rows, Occupying)
  BY <1>2, <1>4 DEF In, Live, Occupying
<1>7. In(rows', {"reserved"}) \subseteq In(rows, {"reserved"}) /\ In(rows', Sent) = In(rows, Sent) \cup {r}
  BY <1>2, <1>4 DEF In, Sent
<1>8. Sound(rows')
  <2>1. Grouped(rows')
    BY <1>1, <1>5, <1>6 DEF Sound, Grouped, In
  <2>2. NoStrangers(rows) => NoStrangers(rows')
    BY <1>5, <1>6 DEF NoStrangers, In
  <2>3. Granted(rows')
    BY <1>1, <1>5, <1>7, <2>2 DEF Sound, Granted, In
  <2>4. Counted(rows') /\ Reserved(rows')
    BY <1>1, <1>6 DEF Sound, Counted, Reserved
  <2>5. \A q \in In(rows, Sent) \ {r} : {q, r} \subseteq setting.steps => setting.members[q] # setting.members[r]
    BY <1>2 DEF Blocked, In
  <2>6. Apart(rows')
    BY <1>1, <1>6, <1>7, <2>5 DEF Sound, Apart
  <2>7. \A q \in Requests : rows'[q].revision <= revision
    BY <1>1, <1>5 DEF Sound
  <2> QED
    BY <1>4, <2>1, <2>3, <2>4, <2>6, <2>7 DEF Sound
<1>9. caller' \in [Requests -> Phases] /\ caller'[r] \in {"quitting", "sending"}
      /\ \A q \in Requests \ {r} : caller'[q] = caller[q]
  BY <1>1 DEF Dispatch, Become, Phases
<1>10. Follows(r)'
  BY <1>1, <1>2, <1>4, <1>9 DEF Follows, Unsettled
<1>11. \A q \in Requests \ {r} : Stays(q)
  BY <1>2, <1>4, <1>9 DEF Stays, Touched
<1>12. running' \subseteq Requests
  BY <1>1, <1>2 DEF TypeOK
<1> QED
  BY <1>2, <1>8, <1>9, <1>10, <1>11, <1>12, Steps

\* Steps that close the row of one request: the refusal by the domain, the
\* fall back, the answer, the review, the release, the owner gone.
LEMMA DomainRefusedKeeps == ASSUME IInv, NEW r \in Requests, DomainRefused(r) PROVE IInv'
<1>1. TypeOK /\ Follows(r) /\ caller \in [Requests -> Phases]
  BY DEF IInv, TypeOK, Phases
<1>2. /\ caller[r] = "holding" /\ rows[r].state = "reserved" /\ Closing(r, "withdrawn")
      /\ caller' = [caller EXCEPT ![r] = "quitting"] /\ running' = running /\ UNCHANGED control
  BY DEF DomainRefused, Dispatchable, Become
<1>3. /\ rows' \in [Requests -> Row] /\ \A q \in Requests \ {r} : rows'[q] = rows[q]
      /\ rows'[r].state = "withdrawn" /\ rows'[r].revision = rows[r].revision
      /\ rows'[r].group = rows[r].group /\ rows'[r].reviewed = rows[r].reviewed
  BY <1>1, <1>2, RowEnds DEF Closed
<1>4. Ends(rows, rows', r)
  BY <1>3 DEF Ends, Closed, Sent
<1>5. caller'[r] = "quitting" /\ "quitting" \in Phases /\ running' \subseteq Requests
  BY <1>1, <1>2 DEF Phases, TypeOK
<1>6. Follows(r)'
  BY <1>1, <1>2, <1>3, <1>5 DEF Follows
<1> QED
  BY <1>2, <1>3, <1>4, <1>5, <1>6, OneRow

LEMMA FallBackKeeps == ASSUME IInv, NEW r \in Requests, FallBack(r) PROVE IInv'
<1>1. TypeOK /\ Follows(r) /\ caller \in [Requests -> Phases]
  BY DEF IInv, TypeOK, Phases
<1>2. /\ caller[r] \in {"idle", "holding"} /\ rows[r].state \in {"waiting", "reserved"} /\ Closing(r, "withdrawn")
      /\ caller' = [caller EXCEPT ![r] = "over"] /\ running' = running /\ UNCHANGED control
  BY DEF FallBack, Become
<1>3. /\ rows' \in [Requests -> Row] /\ \A q \in Requests \ {r} : rows'[q] = rows[q]
      /\ rows'[r].state = "withdrawn" /\ rows'[r].revision = rows[r].revision
      /\ rows'[r].group = rows[r].group /\ rows'[r].reviewed = rows[r].reviewed
  BY <1>1, <1>2, RowEnds DEF Closed
<1>4. Ends(rows, rows', r)
  BY <1>3 DEF Ends, Closed, Sent
<1>5. caller'[r] = "over" /\ "over" \in Phases /\ running' \subseteq Requests
  BY <1>1, <1>2 DEF Phases, TypeOK
<1>6. Follows(r)'
  BY <1>1, <1>2, <1>3, <1>5 DEF Follows
<1> QED
  BY <1>2, <1>3, <1>4, <1>5, <1>6, OneRow

LEMMA SettleKeeps == ASSUME IInv, NEW r \in Requests, Settle(r) PROVE IInv'
<1>1. TypeOK /\ Follows(r) /\ caller \in [Requests -> Phases] /\ rows \in [Requests -> Row]
  BY DEF IInv, TypeOK, Phases
<1>2. caller[r] \in {"answered", "unsent"} /\ running' = running /\ UNCHANGED control
  BY DEF Settle
<1>3. PICK phase \in {"over", "failed"} : caller' = [caller EXCEPT ![r] = phase]
  BY DEF Settle, Become
<1>4. caller'[r] = phase /\ phase \in Phases /\ running' \subseteq Requests /\ r \notin running
  BY <1>1, <1>2, <1>3 DEF Phases, TypeOK, Follows
<1>5. CASE Settles(r) /\ Closing(r, "settled")
  <2>1. /\ rows' \in [Requests -> Row] /\ \A q \in Requests \ {r} : rows'[q] = rows[q]
        /\ rows'[r].state = "settled" /\ rows'[r].revision = rows[r].revision
        /\ rows'[r].group = rows[r].group /\ rows'[r].reviewed = rows[r].reviewed
    BY <1>1, <1>5, RowEnds DEF Closed
  <2>2. rows[r].state \in Unsettled
    BY <1>5 DEF Settles, Unsettled
  <2>3. Ends(rows, rows', r)
    BY <2>1, <2>2 DEF Ends, Closed
  <2>4. Follows(r)'
    BY <1>1, <1>2, <1>3, <1>4, <2>1, <2>2 DEF Follows, Unsettled
  <2> QED
    BY <1>2, <1>3, <1>4, <2>1, <2>3, <2>4, OneRow
<1>6. CASE UNCHANGED rows
  <2>1. Ends(rows, rows', r)
    BY <1>6 DEF Ends
  <2>2. Follows(r)'
    BY <1>1, <1>2, <1>3, <1>4, <1>6 DEF Follows
  <2> QED
    BY <1>1, <1>2, <1>3, <1>4, <1>6, <2>1, <2>2, OneRow
<1> QED
  BY <1>5, <1>6 DEF Settle

LEMMA OwnerGoneKeeps == ASSUME IInv, NEW r \in Requests, OwnerGone(r) PROVE IInv'
<1>1. TypeOK /\ Follows(r) /\ caller \in [Requests -> Phases]
  BY DEF IInv, TypeOK, Phases
<1>2. /\ rows[r].state = "dispatched" /\ rows' = [rows EXCEPT ![r].state = "indeterminate"]
      /\ caller' = caller /\ running' = running /\ UNCHANGED control
  BY DEF OwnerGone
<1>3. /\ rows' \in [Requests -> Row] /\ \A q \in Requests \ {r} : rows'[q] = rows[q]
      /\ rows'[r].state = "indeterminate" /\ rows'[r].revision = rows[r].revision
      /\ rows'[r].group = rows[r].group /\ rows'[r].reviewed = rows[r].reviewed
  BY <1>1, <1>2, RowEnds
<1>4. Ends(rows, rows', r)
  BY <1>2, <1>3 DEF Ends, Unsettled
<1>5. caller' = [caller EXCEPT ![r] = caller[r]] /\ caller[r] \in Phases /\ running' \subseteq Requests
  BY <1>1, <1>2 DEF TypeOK
<1>6. Follows(r)'
  BY <1>1, <1>2, <1>3 DEF Follows, Unsettled
<1> QED
  BY <1>2, <1>3, <1>4, <1>5, <1>6, OneRow

LEMMA ReviewKeeps == ASSUME IInv, NEW r \in Requests, Review(r) PROVE IInv'
<1>1. TypeOK /\ Follows(r) /\ caller \in [Requests -> Phases] /\ rows \in [Requests -> Row]
  BY DEF IInv, TypeOK, Phases
<1>2. /\ rows[r].state = "indeterminate" /\ caller' = caller /\ running' = running /\ UNCHANGED control
      /\ rows' = [rows EXCEPT ![r] = [rows[r] EXCEPT !.state = "withdrawn", !.reviewed = TRUE]]
  BY <1>1 DEF Review, Reviewable
<1>3. [rows[r] EXCEPT !.state = "withdrawn", !.reviewed = TRUE] \in Row
  BY <1>1 DEF Row, Closed
<1>4. rows' \in [Requests -> Row] /\ \A q \in Requests \ {r} : rows'[q] = rows[q]
  BY <1>1, <1>2, <1>3
<1>5. /\ rows'[r].state = "withdrawn" /\ rows'[r].revision = rows[r].revision
      /\ rows'[r].group = rows[r].group /\ rows'[r].reviewed
  BY <1>1, <1>2 DEF Row
<1>6. Ends(rows, rows', r)
  BY <1>5 DEF Ends, Closed, Sent
<1>7. caller' = [caller EXCEPT ![r] = caller[r]] /\ caller[r] \in Phases /\ running' \subseteq Requests
  BY <1>1, <1>2 DEF TypeOK
<1>8. Follows(r)'
  BY <1>1, <1>2, <1>5 DEF Follows
<1> QED
  BY <1>2, <1>4, <1>6, <1>7, <1>8, OneRow

LEMMA ReleaseKeeps == ASSUME IInv, NEW r \in Requests, Release(r) PROVE IInv'
<1>1. TypeOK /\ Follows(r) /\ caller \in [Requests -> Phases]
  BY DEF IInv, TypeOK, Phases
<1>2. /\ rows[r].state \in Unsettled /\ r \notin running /\ caller[r] \in {"over", "dead"}
      /\ Closing(r, "withdrawn") /\ caller' = caller /\ running' = running /\ UNCHANGED control
  BY DEF Release
<1>3. /\ rows' \in [Requests -> Row] /\ \A q \in Requests \ {r} : rows'[q] = rows[q]
      /\ rows'[r].state = "withdrawn" /\ rows'[r].revision = rows[r].revision
      /\ rows'[r].group = rows[r].group /\ rows'[r].reviewed = rows[r].reviewed
  BY <1>1, <1>2, RowEnds DEF Closed
<1>4. Ends(rows, rows', r)
  BY <1>3 DEF Ends, Closed, Sent
<1>5. caller' = [caller EXCEPT ![r] = caller[r]] /\ caller[r] \in Phases /\ running' \subseteq Requests
  BY <1>1, <1>2 DEF TypeOK
<1>6. Follows(r)'
  BY <1>1, <1>2, <1>3 DEF Follows
<1> QED
  BY <1>2, <1>3, <1>4, <1>5, <1>6, OneRow

\* Steps of the process or of the engine, which leave the rows alone.
LEMMA CallerKeeps ==
  ASSUME IInv, NEW r \in Requests, UNCHANGED <<control, rows>>, NEW phase \in Phases, Become(r, phase),
         running' \subseteq Requests, running' \ {r} = running \ {r}, Follows(r)'
  PROVE  IInv'
<1>1. rows \in [Requests -> Row]
  BY DEF IInv, TypeOK
<1>2. Ends(rows, rows', r)
  BY DEF Ends
<1> QED
  BY <1>1, <1>2, OneRow DEF Become

LEMMA ProcessKeeps ==
  ASSUME IInv, NEW r \in Requests, Quit(r) \/ Send(r) \/ CallEnds(r) \/ Timeout(r) \/ Crash(r)
  PROVE  IInv'
<1>1. Follows(r) /\ caller \in [Requests -> Phases] /\ running \subseteq Requests
  BY DEF IInv, TypeOK, Phases
<1>2. ASSUME NEW phase \in Phases, Become(r, phase) PROVE caller'[r] = phase
  BY <1>1, <1>2 DEF Become
<1>3. CASE Quit(r)
  <2>1. Become(r, "quitting") /\ "quitting" \in Phases /\ UNCHANGED <<control, rows, running>>
        /\ caller[r] \in {"idle", "holding"}
    BY <1>3 DEF Quit, Phases
  <2>2. Follows(r)'
    BY <1>1, <1>2, <2>1 DEF Follows
  <2> QED
    BY <1>1, <2>1, <2>2, CallerKeeps
<1>4. CASE Send(r)
  <2>1. UNCHANGED <<control, rows>> /\ caller[r] = "sending" /\ {"calling", "unsent"} \subseteq Phases
    BY <1>4 DEF Send, Phases
  <2>2. CASE Become(r, "calling") /\ running' = running \cup {r}
    <3>1. Follows(r)'
      BY <1>1, <1>2, <2>1, <2>2 DEF Follows
    <3> QED
      BY <1>1, <2>1, <2>2, <3>1, CallerKeeps
  <2>3. CASE Become(r, "unsent") /\ UNCHANGED running
    <3>1. Follows(r)'
      BY <1>1, <1>2, <2>1, <2>3 DEF Follows
    <3> QED
      BY <1>1, <2>1, <2>3, <3>1, CallerKeeps
  <2> QED
    BY <1>4, <2>2, <2>3 DEF Send
<1>5. CASE CallEnds(r)
  <2>1. UNCHANGED <<control, rows>> /\ r \in running /\ running' = running \ {r}
    BY <1>5 DEF CallEnds
  <2>2. PICK phase \in Phases : /\ Become(r, phase)
                                /\ phase \in {"answered", "failed"} \/ (phase = caller[r] /\ phase # "calling")
    <3>1. CASE caller[r] = "calling"
      BY <1>5, <3>1 DEF CallEnds, Phases
    <3>2. CASE caller[r] # "calling"
      <4>1. Become(r, caller[r])
        BY <1>1, <1>5, <3>2 DEF CallEnds, Become
      <4> QED
        BY <1>1, <3>2, <4>1
    <3> QED
      BY <3>1, <3>2
  <2>3. Follows(r)'
    BY <1>1, <1>2, <2>1, <2>2 DEF Follows
  <2> QED
    BY <1>1, <2>1, <2>2, <2>3, CallerKeeps
<1>6. CASE Timeout(r)
  <2>1. Become(r, "failed") /\ "failed" \in Phases /\ UNCHANGED <<control, rows, running>> /\ caller[r] = "calling"
    BY <1>6 DEF Timeout, Phases
  <2>2. Follows(r)'
    BY <1>1, <1>2, <2>1 DEF Follows
  <2> QED
    BY <1>1, <2>1, <2>2, CallerKeeps
<1>7. CASE Crash(r)
  <2>1. Become(r, "dead") /\ "dead" \in Phases /\ UNCHANGED <<control, rows, running>>
    BY <1>7 DEF Crash, Phases
  <2>2. Follows(r)'
    BY <1>1, <1>2, <2>1 DEF Follows
  <2> QED
    BY <1>1, <2>1, <2>2, CallerKeeps
<1> QED
  BY <1>3, <1>4, <1>5, <1>6, <1>7

\* Steps that sweep and then close or mark the row of one request.
LEMMA SweptEnd ==
  ASSUME IInv, NEW r \in Requests, NEW s \in {"withdrawn", "indeterminate"},
         NEW rs, rs \in {rows, Expired(rows)},
         \/ rs[r].state \in {"waiting", "reserved"} /\ s = "withdrawn"
         \/ rs[r].state = "dispatched" /\ s = "indeterminate",
         rows' = [rs EXCEPT ![r].state = s]
  PROVE  /\ Sound(rows')
         /\ rows'[r].state = s /\ rows'[r].reviewed = rows[r].reviewed
         /\ \A q \in Requests \ {r} : Touched(rows[q], rows'[q])
<1>1. TypeOK /\ Sound(rows) /\ rows \in [Requests -> Row]
  BY DEF IInv, TypeOK
<1>2. Sound(rs) /\ rs \in [Requests -> Row]
  BY <1>1, SoundSweep
<1>3. \A q \in Requests : Touched(rows[q], rs[q])
  <2>1. CASE rs = rows
    BY <2>1 DEF Touched
  <2>2. CASE rs = Expired(rows)
    BY <2>2, SweptTouched
  <2> QED
    BY <2>1, <2>2
<1>4. rs[r] \in Row /\ rs[r].reviewed = rows[r].reviewed
  <2>1. CASE rs[r] = rows[r]
    BY <1>2, <2>1
  <2>2. CASE rs[r] # rows[r]
    <3>1. rs[r] = [rows[r] EXCEPT !.state = "withdrawn"]
      BY <1>1, <2>2, SweptRow
    <3>2. rs[r].state = "withdrawn"
      BY <1>1, <3>1 DEF Row
    <3> QED
      BY <3>2
  <2> QED
    BY <2>1, <2>2
<1>5. rows' = [rs EXCEPT ![r] = [rs[r] EXCEPT !.state = s]]
  BY <1>2
<1>6. [rs[r] EXCEPT !.state = s] \in Row
  BY <1>4 DEF Row, Closed
<1>7. rows' \in [Requests -> Row] /\ \A q \in Requests \ {r} : rows'[q] = rs[q]
  BY <1>2, <1>5, <1>6
<1>8. /\ rows'[r].state = s /\ rows'[r].revision = rs[r].revision
      /\ rows'[r].group = rs[r].group /\ rows'[r].reviewed = rs[r].reviewed
  BY <1>2, <1>4, <1>5 DEF Row
<1>9. \A q \in Requests : Ends(rs, rows', q)
  BY <1>7, <1>8 DEF Ends, Closed, Sent, Unsettled
<1>10. Sound(rows')
  BY <1>1, <1>2, <1>7, <1>9, SoundEnds
<1> QED
  BY <1>3, <1>4, <1>7, <1>8, <1>10

LEMMA CancelKeeps == ASSUME IInv, NEW r \in Requests, Cancel(r) PROVE IInv'
<1>1. TypeOK /\ Sound(rows) /\ Follows(r) /\ rows \in [Requests -> Row] /\ caller \in [Requests -> Phases]
      /\ running \subseteq Requests
  BY DEF IInv, TypeOK, Phases
<1>2. caller[r] = "quitting" /\ running' = running /\ UNCHANGED control /\ Become(r, "over")
  BY DEF Cancel
<1>3. caller' \in [Requests -> Phases] /\ caller'[r] = "over"
      /\ \A q \in Requests \ {r} : caller'[q] = caller[q]
  BY <1>1, <1>2 DEF Become, Phases
<1>4. Sound(Expired(rows)) /\ \A q \in Requests : Touched(rows[q], Expired(rows)[q])
  BY <1>1, SoundSweep, SweptTouched
<1>5. PICK rs \in {rows, Expired(rows)} :
        \/ rows' = rs
        \/ rs[r].state \in {"waiting", "reserved"} /\ rows' = [rs EXCEPT ![r].state = "withdrawn"]
  BY DEF Cancel
<1>6. Sound(rs) /\ \A q \in Requests : Touched(rows[q], rs[q])
  BY <1>1, <1>4 DEF Touched
<1>7. r \notin running' /\ (rows[r].reviewed => rows[r].state = "withdrawn")
  BY <1>1, <1>2 DEF Follows
<1>8. CASE rows' = rs
  <2>1. Follows(r)'
    BY <1>3, <1>6, <1>7, <1>8 DEF Follows, Touched
  <2>2. \A q \in Requests \ {r} : Stays(q)
    BY <1>2, <1>3, <1>6, <1>8 DEF Stays
  <2> QED
    BY <1>1, <1>2, <1>3, <1>6, <1>8, <2>1, <2>2, Steps
<1>9. CASE rs[r].state \in {"waiting", "reserved"} /\ rows' = [rs EXCEPT ![r].state = "withdrawn"]
  <2>1. Sound(rows') /\ rows'[r].state = "withdrawn" /\ \A q \in Requests \ {r} : Touched(rows[q], rows'[q])
    BY <1>9, SweptEnd
  <2>2. Follows(r)'
    BY <1>3, <1>7, <2>1 DEF Follows
  <2>3. \A q \in Requests \ {r} : Stays(q)
    BY <1>2, <1>3, <2>1 DEF Stays
  <2> QED
    BY <1>1, <1>2, <1>3, <2>1, <2>2, <2>3, Steps
<1> QED
  BY <1>5, <1>8, <1>9

LEMMA MarkKeeps == ASSUME IInv, NEW r \in Requests, Mark(r) PROVE IInv'
<1>1. TypeOK /\ Sound(rows) /\ Follows(r) /\ rows \in [Requests -> Row] /\ caller \in [Requests -> Phases]
      /\ running \subseteq Requests
  BY DEF IInv, TypeOK, Phases
<1>2. caller[r] = "failed" /\ running' = running /\ UNCHANGED control /\ Become(r, "over")
  BY DEF Mark
<1>3. caller' \in [Requests -> Phases] /\ caller'[r] = "over"
      /\ \A q \in Requests \ {r} : caller'[q] = caller[q]
  BY <1>1, <1>2 DEF Become, Phases
<1>4. Sound(Expired(rows)) /\ \A q \in Requests : Touched(rows[q], Expired(rows)[q])
  BY <1>1, SoundSweep, SweptTouched
<1>5. CASE rows' = Expired(rows)
  <2>1. Follows(r)'
    BY <1>1, <1>2, <1>3, <1>4, <1>5 DEF Follows, Touched, Unsettled
  <2>2. \A q \in Requests \ {r} : Stays(q)
    BY <1>2, <1>3, <1>4, <1>5 DEF Stays
  <2> QED
    BY <1>1, <1>2, <1>3, <1>4, <1>5, <2>1, <2>2, Steps
<1>6. CASE Expired(rows)[r].state = "dispatched" /\ rows' = [Expired(rows) EXCEPT ![r].state = "indeterminate"]
  <2>1. /\ Sound(rows') /\ rows'[r].state = "indeterminate" /\ rows'[r].reviewed = rows[r].reviewed
        /\ \A q \in Requests \ {r} : Touched(rows[q], rows'[q])
    BY <1>6, SweptEnd
  <2>2. rows[r].state = "dispatched"
    BY <1>4, <1>6 DEF Touched
  <2>3. Follows(r)'
    BY <1>1, <1>3, <2>1, <2>2 DEF Follows, Unsettled
  <2>4. \A q \in Requests \ {r} : Stays(q)
    BY <1>2, <1>3, <2>1 DEF Stays
  <2> QED
    BY <1>1, <1>2, <1>3, <2>1, <2>3, <2>4, Steps
<1> QED
  BY <1>5, <1>6 DEF Mark

-----------------------------------------------------------------------------
(* The operator *)

LEMMA ModeKeeps == ASSUME IInv, Fence \/ \E m \in {"disabled", "draining", "open"} : SetMode(m) PROVE IInv'
<1>1. /\ UNCHANGED <<setting, revision, group, chain, rows, caller, running>>
      /\ mode' \in {"disabled", "draining", "open"} /\ fenced' \in BOOLEAN
  BY DEF IInv, TypeOK, Fence, SetMode
<1>2. TypeOK /\ Sound(rows) /\ \A r \in Requests : Follows(r)
  BY DEF IInv
<1>3. Sound(rows') /\ TypeOK'
  BY <1>1, <1>2 DEF TypeOK
<1>4. Sound(rows)'
  BY <1>1, <1>3, SoundMoves
<1>5. \A r \in Requests : Follows(r)'
  BY <1>1, <1>2 DEF Follows
<1> QED
  BY <1>3, <1>4, <1>5 DEF IInv

\* A new policy: no row is of it yet, and what it vouches for is of its name.
LEMMA PolicyKeeps ==
  ASSUME IInv, UNCHANGED <<setting, mode, fenced, rows, caller, running>>,
         revision < setting.revisions, revision' = revision + 1,
         group' \in Groups, chain' \subseteq 1..revision, Cardinality(chain') <= MaxChain,
         Vouched(group', chain')
  PROVE  IInv'
<1>1. TypeOK /\ Sound(rows) /\ \A r \in Requests : Follows(r)
  BY DEF IInv
<1>2. revision \in 1..MaxRevision /\ setting.revisions \in 1..MaxRevision /\ MaxRevision \in Nat
  BY <1>1, Device, SettingsAssumption DEF TypeOK
<1>3. revision' \in 1..MaxRevision /\ revision' - 1 = revision
  BY <1>2
<1>4. TypeOK'
  BY <1>1, <1>3 DEF TypeOK
<1>5. \A q \in Requests : rows[q].revision \in 0..MaxRevision /\ rows[q].revision <= revision
  BY <1>1 DEF Sound, Row
<1>6. \A q \in Requests : rows[q].revision # revision' /\ rows[q].revision <= revision'
  <2>1. ASSUME NEW x \in 0..MaxRevision, x <= revision
        PROVE  x # revision + 1 /\ x <= revision + 1
    BY <1>2, <2>1
  <2> QED
    BY <1>5, <2>1
<1>7. Grouped(rows)'
  <2>1. SUFFICES ASSUME NEW q \in In(rows, Live), rows[q].revision \in chain' \cup {revision'}
                 PROVE  rows[q].group = group'
    BY DEF Grouped, InForce, In
  <2>2. rows[q].revision \in chain'
    BY <1>6, <2>1 DEF In
  <2>3. group' = group /\ chain' \subseteq chain \cup {revision}
    BY <2>2 DEF Vouched
  <2> QED
    BY <1>1, <2>1, <2>2, <2>3 DEF Sound, Grouped, InForce
<1>8. Granted(rows)'
  BY <1>6 DEF Granted, In
<1>9. Counted(rows)' /\ Reserved(rows)' /\ Apart(rows)'
  BY <1>1 DEF Sound, Counted, Reserved, Apart, In, Primary
<1>10. Sound(rows)'
  BY <1>1, <1>6, <1>7, <1>8, <1>9 DEF Sound
<1>11. \A r \in Requests : Follows(r)'
  BY <1>1 DEF Follows
<1> QED
  BY <1>4, <1>10, <1>11 DEF IInv

LEMMA SetPolicyKeeps ==
  ASSUME IInv, NEW to \in Groups, NEW names \in SUBSET (1..revision), SetPolicy(to, names)
  PROVE  IInv'
BY PolicyKeeps DEF SetPolicy

LEMMA AppendKeeps == ASSUME IInv, Append PROVE IInv'
<1>1. TypeOK /\ group' = group /\ revision' = revision + 1 /\ revision < setting.revisions
      /\ Cardinality(chain') <= MaxChain /\ UNCHANGED <<setting, mode, fenced, rows, caller, running>>
  BY DEF IInv, Append
<1>2. chain' \subseteq chain \cup {revision}
  BY DEF Append
<1>3. revision \in 1..MaxRevision /\ chain \subseteq 1..(revision - 1) /\ MaxRevision \in Nat
  BY <1>1, SettingsAssumption DEF TypeOK
<1>4. chain' \subseteq 1..revision
  BY <1>2, <1>3
<1>5. Vouched(group', chain') /\ group' \in Groups
  BY <1>1, <1>2 DEF Vouched, TypeOK
<1> QED
  BY <1>1, <1>4, <1>5, PolicyKeeps

LEMMA NothingKeeps == IInv /\ UNCHANGED vars => IInv'
<1> SUFFICES ASSUME IInv, UNCHANGED vars PROVE IInv'
  OBVIOUS
<1>1. TypeOK /\ Sound(rows) /\ UNCHANGED control
  BY DEF IInv, vars
<1>2. Sound(rows') /\ caller' \in [Requests -> Phases] /\ running' \subseteq Requests
  BY <1>1 DEF vars, TypeOK, Phases
<1>3. \A q \in Requests : Stays(q)
  BY DEF Stays, Touched, vars
<1> QED
  BY <1>1, <1>2, <1>3, Steps

\* Every step keeps the invariant.
LEMMA Inductive == IInv /\ [Next]_vars => IInv'
<1> SUFFICES ASSUME IInv, [Next]_vars PROVE IInv'
  OBVIOUS
<1>1. ASSUME NEW r \in Requests, NEW b \in BOOLEAN, Poll(r, b) \/ Dispatch(r, b) PROVE IInv'
  BY <1>1, PollKeeps, DispatchKeeps
<1>2. ASSUME NEW r \in Requests, Age(r) \/ DomainRefused(r) \/ FallBack(r) \/ Settle(r) PROVE IInv'
  BY <1>2, AgeKeeps, DomainRefusedKeeps, FallBackKeeps, SettleKeeps
<1>3. ASSUME NEW r \in Requests, OwnerGone(r) \/ Review(r) \/ Release(r) PROVE IInv'
  BY <1>3, OwnerGoneKeeps, ReviewKeeps, ReleaseKeeps
<1>4. ASSUME NEW r \in Requests, Quit(r) \/ Send(r) \/ CallEnds(r) \/ Timeout(r) \/ Crash(r) PROVE IInv'
  BY <1>4, ProcessKeeps
<1>5. ASSUME NEW r \in Requests, Cancel(r) \/ Mark(r) PROVE IInv'
  BY <1>5, CancelKeeps, MarkKeeps
<1>6. CASE Sweep \/ Append \/ Fence \/ \E m \in {"disabled", "draining", "open"} : SetMode(m)
  BY <1>6, SweepKeeps, AppendKeeps, ModeKeeps
<1>7. CASE \E to \in Groups, names \in SUBSET (1..revision) : SetPolicy(to, names)
  BY <1>7, SetPolicyKeeps
<1>8. CASE UNCHANGED vars
  BY <1>8, NothingKeeps
<1> QED
  BY <1>1, <1>2, <1>3, <1>4, <1>5, <1>6, <1>7, <1>8 DEF Next

-----------------------------------------------------------------------------
(* Theorems *)

\* The inductive invariant holds in every state.
THEOREM Invariant == Spec => []IInv
BY Initially, Inductive, PTL DEF Spec

\* The variables keep their types; a policy names at most MaxChain
\* predecessors, all earlier ones.
THEOREM TypeCorrect == Spec => []TypeOK
<1>1. IInv => TypeOK
  BY DEF IInv
<1> QED
  BY Invariant, <1>1, PTL

\* However the operator renames the engine's group and appends routes while
\* calls are under way, reservations and calls not given up never exceed the
\* slots (capacity-repository.ts:637-643).
THEOREM SlotsAreNotOversold == Spec => []EngineNotOversold
<1>1. IInv => EngineNotOversold
  BY DEF IInv, Sound, Counted, EngineNotOversold
<1> QED
  BY Invariant, <1>1, PTL

\* The other roles leave the slots reserved for the engine's own role
\* (capacity-devices.ts:235).
THEOREM ReserveIsLeft == Spec => []OthersLeaveReserve
<1>1. IInv => OthersLeaveReserve
  BY DEF IInv, Sound, Reserved, OthersLeaveReserve
<1> QED
  BY Invariant, <1>1, PTL

\* Two live rows never share a member of their work
\* (capacity-repository.ts:607-620).
THEOREM MembersAreApart == Spec => []OneLivePerMember
<1>1. IInv => OneLivePerMember
  BY DEF IInv, Sound, Apart, OneLivePerMember
<1> QED
  BY Invariant, <1>1, PTL

\* The one step of a chain is sent once until somebody closes its row
\* (capacity-states.ts:21).
THEOREM StepsAreSentOnce == Spec => []StepSentOnce
<1>1. IInv => StepSentOnce
  BY DEF IInv, Sound, Apart, StepSentOnce
<1> QED
  BY Invariant, <1>1, PTL

\* The row of a call its caller still makes, or the engine still works at, is
\* a slot in use or open to the late answer, unless an operator closed it
\* (capacity-repository.ts:737, 829).
THEOREM CallsKeepTheirRow == Spec => []CallsAreCounted
<1>1. IInv => CallsAreCounted
  BY DEF IInv, Follows, CallsAreCounted
<1> QED
  BY Invariant, <1>1, PTL

-----------------------------------------------------------------------------
(* What a step may never do *)

\* A closed row is left alone; a row is dispatched by its own dispatch only.
Written(q) ==
  /\ rows[q].state \in Closed => rows'[q] = rows[q]
  /\ rows'[q].state = "dispatched" => rows[q].state = "dispatched" \/ Dispatchable(q)

LEMMA TouchedIsWritten ==
  ASSUME NEW q \in Requests, Touched(rows[q], rows'[q])
  PROVE  Written(q)
BY DEF Touched, Written, Closed

\* The steps of one request that write its row, and those that also sweep.
LEMMA OwnIsWritten ==
  ASSUME IInv, NEW r \in Requests, NEW q \in Requests, NEW lost \in BOOLEAN,
         \/ Age(r) \/ Dispatch(r, lost) \/ DomainRefused(r) \/ FallBack(r)
         \/ Settle(r) \/ OwnerGone(r) \/ Review(r) \/ Release(r)
  PROVE  Written(q)
<1>1. TypeOK /\ rows \in [Requests -> Row] /\ rows[r] \in Row
  BY DEF IInv, TypeOK
<1>2. ASSUME NEW s \in {"dispatched", "indeterminate", "settled", "withdrawn"},
             Closing(r, s) \/ rows' = [rows EXCEPT ![r].state = s],
             rows[r].state \notin Closed, s = "dispatched" => Dispatchable(r)
      PROVE  Written(q)
  <2>1. rows'[r].state = s /\ \A p \in Requests \ {r} : rows'[p] = rows[p]
    BY <1>1, <1>2, RowEnds DEF Live, Closed
  <2>2. CASE q = r
    BY <1>2, <2>1, <2>2 DEF Written
  <2>3. CASE q # r
    BY <2>1, <2>3 DEF Written
  <2> QED
    BY <2>2, <2>3
<1>3. CASE UNCHANGED rows
  BY <1>3 DEF Written
<1>4. CASE Age(r)
  <2>1. rows' = [rows EXCEPT ![r] = [rows[r] EXCEPT !.late = TRUE]] /\ rows[r].state \in {"waiting", "reserved"}
    BY <1>1, <1>4 DEF Age
  <2>2. rows'[r].state = rows[r].state /\ \A p \in Requests \ {r} : rows'[p] = rows[p]
    BY <1>1, <2>1 DEF Row
  <2>3. CASE q = r
    BY <2>1, <2>2, <2>3 DEF Written, Closed
  <2>4. CASE q # r
    BY <2>2, <2>4 DEF Written
  <2> QED
    BY <2>3, <2>4
<1>5. CASE Dispatch(r, lost)
  <2>1. Dispatchable(r) /\ rows' = [rows EXCEPT ![r].state = "dispatched"] /\ rows[r].state \notin Closed
    BY <1>5 DEF Dispatch, Dispatchable, Closed
  <2> QED
    BY <1>2, <2>1
<1>6. CASE DomainRefused(r)
  BY <1>2, <1>6 DEF DomainRefused, Dispatchable, Closed
<1>7. CASE FallBack(r)
  <2>1. Closing(r, "withdrawn") /\ rows[r].state \notin Closed
    BY <1>7 DEF FallBack, Closed
  <2> QED
    BY <1>2, <2>1
<1>8. CASE Settle(r)
  <2>1. CASE Settles(r) /\ Closing(r, "settled")
    <3>1. rows[r].state \notin Closed
      BY <2>1 DEF Settles, Unsettled, Closed
    <3> QED
      BY <1>2, <2>1, <3>1
  <2> QED
    BY <1>3, <1>8, <2>1 DEF Settle
<1>9. CASE OwnerGone(r)
  <2>1. rows' = [rows EXCEPT ![r].state = "indeterminate"] /\ rows[r].state \notin Closed
    BY <1>9 DEF OwnerGone, Closed
  <2> QED
    BY <1>2, <2>1
<1>10. CASE Review(r)
  <2>1. rows' = [rows EXCEPT ![r] = [rows[r] EXCEPT !.state = "withdrawn", !.reviewed = TRUE]]
        /\ rows[r].state = "indeterminate"
    BY <1>1, <1>10 DEF Review, Reviewable
  <2>2. rows'[r].state = "withdrawn" /\ \A p \in Requests \ {r} : rows'[p] = rows[p]
    BY <1>1, <2>1 DEF Row
  <2>3. CASE q = r
    BY <2>1, <2>2, <2>3 DEF Written, Closed
  <2>4. CASE q # r
    BY <2>2, <2>4 DEF Written
  <2> QED
    BY <2>3, <2>4
<1>11. CASE Release(r)
  <2>1. Closing(r, "withdrawn") /\ rows[r].state \notin Closed
    BY <1>11 DEF Release, Unsettled, Closed
  <2> QED
    BY <1>2, <2>1
<1> QED
  BY <1>4, <1>5, <1>6, <1>7, <1>8, <1>9, <1>10, <1>11

LEMMA SweepIsWritten ==
  ASSUME IInv, NEW r \in Requests, NEW q \in Requests, NEW recent \in BOOLEAN,
         Sweep \/ Poll(r, recent) \/ Cancel(r) \/ Mark(r)
  PROVE  Written(q)
<1>1. Touched(rows[q], Expired(rows)[q]) /\ Touched(rows[r], Expired(rows)[r])
  BY SweptTouched
<1>2. CASE rows' = Expired(rows)
  BY <1>1, <1>2, TouchedIsWritten
<1>3. CASE rows' = rows
  BY <1>3 DEF Written
<1>4. CASE /\ Expired(rows)[r].state \in {"absent", "waiting"}
           /\ rows' \in Grants(Queued(Expired(rows), r), recent)
  BY <1>4, GrantTouched, TouchedIsWritten
<1>5. ASSUME NEW s \in {"withdrawn", "indeterminate"}, NEW rs, rs \in {rows, Expired(rows)},
             \/ rs[r].state \in {"waiting", "reserved"} /\ s = "withdrawn"
             \/ rs[r].state = "dispatched" /\ s = "indeterminate",
             rows' = [rs EXCEPT ![r].state = s]
      PROVE  Written(q)
  <2>1. rows'[r].state = s /\ \A p \in Requests \ {r} : Touched(rows[p], rows'[p])
    BY <1>5, SweptEnd
  <2>2. rows[r].state \notin Closed
    BY <1>1, <1>5 DEF Touched, Closed
  <2>3. CASE q = r
    BY <2>1, <2>2, <2>3 DEF Written
  <2>4. CASE q # r
    BY <2>1, <2>4, TouchedIsWritten
  <2> QED
    BY <2>3, <2>4
<1>6. CASE Sweep
  BY <1>2, <1>6 DEF Sweep
<1>7. CASE Poll(r, recent)
  BY <1>2, <1>4, <1>7 DEF Poll
<1>8. CASE Cancel(r)
  <2>1. PICK rs \in {rows, Expired(rows)} :
          \/ rows' = rs
          \/ rs[r].state \in {"waiting", "reserved"} /\ rows' = [rs EXCEPT ![r].state = "withdrawn"]
    BY <1>8 DEF Cancel
  <2> QED
    BY <1>2, <1>3, <1>5, <2>1
<1>9. CASE Mark(r)
  <2>1. \/ rows' = Expired(rows)
        \/ Expired(rows)[r].state = "dispatched" /\ rows' = [Expired(rows) EXCEPT ![r].state = "indeterminate"]
    BY <1>9 DEF Mark
  <2> QED
    BY <1>2, <1>5, <2>1
<1> QED
  BY <1>6, <1>7, <1>8, <1>9

LEMMA StepsAreWritten == ASSUME IInv, [Next]_vars, NEW q \in Requests PROVE Written(q)
<1>1. ASSUME NEW r \in Requests, NEW b \in BOOLEAN, Poll(r, b) PROVE Written(q)
  BY <1>1, SweepIsWritten
<1>2. ASSUME NEW r \in Requests, Cancel(r) \/ Mark(r) PROVE Written(q)
  BY <1>2, SweepIsWritten
<1>3. ASSUME NEW r \in Requests, NEW b \in BOOLEAN, Dispatch(r, b) PROVE Written(q)
  BY <1>3, OwnIsWritten
<1>4. ASSUME NEW r \in Requests, \/ Age(r) \/ DomainRefused(r) \/ FallBack(r) \/ Settle(r)
                                 \/ OwnerGone(r) \/ Review(r) \/ Release(r)
      PROVE  Written(q)
  BY <1>4, OwnIsWritten
<1>5. CASE Sweep
  BY <1>5, SweepIsWritten
<1>6. CASE UNCHANGED rows
  BY <1>6 DEF Written
<1>7. ASSUME NEW r \in Requests, Quit(r) \/ Send(r) \/ CallEnds(r) \/ Timeout(r) \/ Crash(r)
      PROVE  UNCHANGED rows
  BY <1>7 DEF Quit, Send, CallEnds, Timeout, Crash
<1>8. CASE \/ \E m \in {"disabled", "draining", "open"} : SetMode(m)
           \/ \E to \in Groups, names \in SUBSET (1..revision) : SetPolicy(to, names)
           \/ Append \/ Fence \/ UNCHANGED vars
  BY <1>6, <1>8 DEF SetMode, SetPolicy, Append, Fence, vars
<1> QED
  BY <1>1, <1>2, <1>3, <1>4, <1>5, <1>6, <1>7, <1>8 DEF Next

\* A settled or withdrawn row is not written again, in whatever order marks,
\* late answers, reviews and releases come (capacity-repository.ts:737-852,
\* 926-958).
THEOREM ClosedRowsStay == Spec => ClosedStaysClosed
<1>1. IInv /\ [Next]_vars => [\A r \in In(rows, Closed) : rows'[r] = rows[r]]_vars
  BY StepsAreWritten DEF Written, In
<1> QED
  BY Invariant, <1>1, PTL DEF Spec, ClosedStaysClosed

\* A call begins only under the policy that granted its slot, while the
\* ledger is open and every call under way is of that policy or of one it
\* vouches for (capacity-repository.ts:675).
THEOREM DispatchIsCurrent == Spec => NoStaleDispatch
<1> DEFINE Fresh(r) == rows[r].state # "dispatched" /\ rows'[r].state = "dispatched" =>
             /\ mode = "open" /\ ~fenced /\ rows[r].revision = revision
             /\ \A q \in In(rows, {"dispatched"}) : rows[q].revision \in chain \cup {revision}
<1>1. ASSUME IInv, [Next]_vars, NEW r \in Requests,
             rows[r].state # "dispatched", rows'[r].state = "dispatched"
      PROVE  Fresh(r)
  <2>1. Dispatchable(r)
    BY <1>1, StepsAreWritten DEF Written
  <2>2. mode = "open" /\ ~fenced /\ rows[r].revision = revision /\ r \in In(rows, {"reserved"})
    BY <2>1 DEF Dispatchable, Mode, In
  <2>3. NoStrangers(rows)
    BY <1>1, <2>2 DEF IInv, Sound, Granted
  <2> QED
    BY <2>2, <2>3 DEF NoStrangers, In, Occupying
<1>2. IInv /\ [Next]_vars => [\A r \in Requests : Fresh(r)]_vars
  BY <1>1
<1> QED
  BY Invariant, <1>2, PTL DEF Spec, NoStaleDispatch
=============================================================================
