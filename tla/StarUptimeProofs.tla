-------------------------- MODULE StarUptimeProofs --------------------------
(***************************************************************************)
(* Proofs about StarWrite and about UptimeClaims, for any values of their  *)
(* constants.  The two modules share no name; the first half is about the  *)
(* first, the second half, from PickOf on, about the second.               *)
(*                                                                         *)
(* StarWrite: the argument is about pending calls: one in flight, or one a *)
(* request has claimed and not yet made.  As long as an operation is       *)
(* pending its repository's row is either leased by it or uncertain, and   *)
(* neither is open to a write or to an observation; so there is one at a   *)
(* time, and the star changes behind no row that is open.  An answer that  *)
(* comes late finds another revision, because the counter never comes      *)
(* back.                                                                   *)
(*                                                                         *)
(* UptimeClaims: an open claim transaction that has looked a second time   *)
(* has its origins to itself (LocksAreApart), so what it saw stays true to *)
(* its commit (LookStands).  Tickets and rows agree as long as they have   *)
(* one token (RowOf, TicketOf).  An instance that probes has room for all  *)
(* its trials, granted or about to be (TrialOf), and home's count of       *)
(* failures covers what a health row says and what its claim may still add *)
(* (SeenOf).                                                               *)
(***************************************************************************)
EXTENDS StarWrite, UptimeClaims, FiniteSetTheorems, WellFoundedInduction, TLAPS

Acting == {"claimed", "called", "answered"}
Claimed(o) == \E t \in Tabs : tab[t].phase = "claimed" /\ tab[t].op = o
Pending(o) == call[o] = "flight" \/ Claimed(o)

\* The row of a repository.
Fits(r) ==
  /\ row[r].owner # NoOp => /\ row[r].desired # "none" /\ click[row[r].owner].repo = r
                            /\ receipt[row[r].owner].state = "open"
  /\ row[r].owner = NoOp /\ row[r].desired # "none" => row[r].state = "unknown"

\* The revision a member saw stands for the state he saw.
Saw(o) ==
  LET x == row[click[o].repo] IN
  /\ click[o].expected <= x.revision
  /\ x.revision = click[o].expected => x.state = click[o].saw

\* A pending call closes its repository to everybody else.
Shuts(o) ==
  LET x == row[click[o].repo] IN
  /\ receipt[o].state = "absent" => call[o] = "none" /\ x.owner # o
  /\ Pending(o) => x.owner = o \/ (x.owner = NoOp /\ Uncertain(x))
  /\ \A p \in Ops : Pending(o) /\ Pending(p) /\ click[o].repo = click[p].repo => o = p

\* What a request knows.
Acts(t) ==
  LET o == tab[t].op IN
  /\ o # NoOp => click[o].repo = tab[t].repo
  /\ tab[t].phase \in {"loaded", "read"} => tab[t].revision <= row[tab[t].repo].revision
  /\ tab[t].phase \in {"checked"} \cup Acting => o # NoOp
  /\ tab[t].phase \in Acting =>
       receipt[o].state # "absent" /\ \A u \in Tabs : tab[u].op = o /\ tab[u].phase \in Acting => u = t
  /\ tab[t].phase = "claimed" => call[o] = "none"
  /\ tab[t].phase = "called" => call[o] # "none"
  /\ tab[t].phase = "answered" /\ tab[t].state # "unknown" => call[o] # "flight"

\* What it has learned of the star, if that still counts.
Learned(t) ==
  LET o == tab[t].op  r == tab[t].repo
      applied == tab[t].phase = "called" /\ call[o] = "applied" IN
  r \notin Foreign =>
    /\ tab[t].phase = "read" /\ tab[t].state \in Known /\ row[r].revision = tab[t].revision /\ OpenToWrites(row[r])
         => tab[t].state = star[r]
    /\ tab[t].phase \in Acting /\ row[r].owner = o =>
         /\ applied => star[r] = click[o].wish
         /\ ~applied /\ tab[t].state \in Known => tab[t].state = star[r]

\* The row of a repository starred here only is the star, if it says so.
IsTrue(r) == r \notin Foreign /\ row[r].state \in Known /\ row[r].owner = NoOp => row[r].state = star[r]

IInv ==
  /\ TypeOK
  /\ \A r \in Repos : Fits(r) /\ IsTrue(r)
  /\ \A o \in Ops : Saw(o) /\ Shuts(o)
  /\ \A t \in Tabs : Acts(t) /\ Learned(t)

-----------------------------------------------------------------------------
(* The counter *)

\* A set of naturals has a least member.
LEMMA Least ==
  ASSUME NEW S \in SUBSET Nat, S # {}
  PROVE  \E x \in S : \A y \in S : x <= y
<1>1. PICK x \in S : \A y \in S : ~ (<<y, x>> \in OpToRel(<, Nat))
  BY NatLessThanWellFounded, WFMin
<1>2. ASSUME NEW y \in S PROVE x <= y
  <2>1. <<y, x>> \in OpToRel(<, Nat) <=> y < x
    BY DEF OpToRel
  <2>2. ~(y < x)
    BY <1>1, <2>1
  <2> QED
    BY <2>2
<1> QED
  BY <1>2

\* A bounded one has a greatest member, which Max finds.
LEMMA Greatest ==
  ASSUME NEW S, NEW n \in Nat, S \subseteq 0..n, S # {}
  PROVE  Max(S) \in S /\ \A y \in S : Max(S) >= y
<1> DEFINE T == {n - y : y \in S}
<1>1. T \in SUBSET Nat
  <2>1. \A y \in S : n - y \in Nat
    OBVIOUS
  <2> QED
    BY <2>1
<1>2. T # {}
  OBVIOUS
<1>3. \E m \in T : \A y \in T : m <= y
  BY <1>1, <1>2, Least
<1>4. PICK x \in S : \A y \in S : n - x <= n - y
  BY <1>3
<1>5. \A y \in S : x >= y
  BY <1>4
<1> QED
  BY <1>5 DEF Max

\* The next revision is above every revision given out.
LEMMA Counter ==
  ASSUME TypeOK
  PROVE  /\ NextRevision \in Nat /\ NextRevision >= 1
         /\ \A r \in Repos : row[r].revision \in Nat /\ row[r].revision < NextRevision
<1> DEFINE S == {row[r].revision : r \in Repos}
<1>1. \A r \in Repos : row[r].revision \in 0..MaxRevision
  BY DEF TypeOK, Row
<1>2. S \subseteq 0..MaxRevision /\ S # {} /\ MaxRevision \in Nat
  BY <1>1, NamesAssumption, BoundAssumption
<1>3. Max(S) \in S /\ \A y \in S : Max(S) >= y
  BY <1>2, Greatest
<1>4. NextRevision = 1 + Max(S)
  BY DEF NextRevision
<1> HIDE DEF S
<1>5. Max(S) \in Nat
  <2>1. Max(S) \in 0..MaxRevision
    BY <1>2, <1>3
  <2> QED
    BY <1>2, <2>1
<1>6. \A r \in Repos : row[r].revision \in S
  BY DEF S
<1> QED
  BY <1>1, <1>3, <1>4, <1>5, <1>6

LEMMA RoomIsLeft ==
  ASSUME TypeOK, Room
  PROVE  NextRevision \in 0..MaxRevision
<1> DEFINE n == Cardinality({r \in Repos : row[r].owner # NoOp})
<1>1. n \in Nat
  BY NamesAssumption, FS_Subset, FS_CardinalityType
<1> QED
  BY <1>1, Counter, BoundAssumption DEF Room

-----------------------------------------------------------------------------
(* Types *)

LEMMA OffIsTab == Off \in Tab /\ Off.phase = "off" /\ Off.op = NoOp
  BY NamesAssumption, BoundAssumption DEF Off, Tab, States

LEMMA InitIInv == Init => IInv
<1> SUFFICES ASSUME Init PROVE IInv
  OBVIOUS
<1>1. /\ row = [r \in Repos |-> NoRow] /\ receipt = [o \in Ops |-> NoReceipt]
      /\ tab = [t \in Tabs |-> Off] /\ click = [o \in Ops |-> NoClick]
      /\ star \in [Repos -> Known] /\ call = [o \in Ops |-> "none"]
  BY DEF Init
<1>2. NoRow \in Row /\ NoReceipt \in Receipt /\ NoClick \in Click /\ Off \in Tab
  BY OffIsTab, NamesAssumption, BoundAssumption
  DEF NoRow, Row, NoReceipt, Receipt, NoClick, Click, States, Known
<1>3. TypeOK
  BY <1>1, <1>2 DEF TypeOK
<1>4. \A r \in Repos : Fits(r) /\ IsTrue(r)
  BY <1>1 DEF Fits, IsTrue, NoRow, Known
<1>5. ASSUME NEW o \in Ops PROVE Saw(o) /\ Shuts(o)
  <2>1. click[o].repo \in Repos
    BY <1>3 DEF TypeOK, Click
  <2>2. row[click[o].repo] = NoRow
    BY <1>1, <2>1
  <2>3. ~Pending(o) /\ \A p \in Ops : ~Pending(p)
    BY <1>1, OffIsTab DEF Pending, Claimed
  <2> QED
    BY <1>1, <2>2, <2>3, NamesAssumption DEF Saw, Shuts, NoRow, NoClick
<1>6. ASSUME NEW t \in Tabs PROVE Acts(t) /\ Learned(t)
  BY <1>1, OffIsTab DEF Acts, Learned, Acting
<1> QED
  BY <1>3, <1>4, <1>5, <1>6 DEF IInv


-----------------------------------------------------------------------------
(* What a step leaves alone *)

LEMMA Types ==
  ASSUME TypeOK
  PROVE  /\ \A r \in Repos : row[r] \in Row /\ row[r].revision \in Nat
         /\ \A o \in Ops : /\ click[o] \in Click /\ click[o].repo \in Repos /\ click[o].expected \in Nat
                           /\ click[o].wish \in Known /\ row[click[o].repo] \in Row
                           /\ receipt[o] \in Receipt
         /\ \A t \in Tabs : /\ tab[t] \in Tab /\ tab[t].repo \in Repos /\ tab[t].revision \in Nat
                            /\ tab[t].op \in Ops \cup {NoOp} /\ tab[t].state \in States
<1>1. ASSUME NEW r \in Repos PROVE row[r] \in Row /\ row[r].revision \in 0..MaxRevision
  BY DEF TypeOK, Row
<1>2. ASSUME NEW o \in Ops
      PROVE  /\ click[o] \in Click /\ click[o].repo \in Repos /\ click[o].expected \in 0..MaxRevision
             /\ click[o].wish \in Known /\ receipt[o] \in Receipt
  BY DEF TypeOK, Click
<1>3. ASSUME NEW t \in Tabs
      PROVE  /\ tab[t] \in Tab /\ tab[t].repo \in Repos /\ tab[t].revision \in 0..MaxRevision
             /\ tab[t].op \in Ops \cup {NoOp} /\ tab[t].state \in States
  BY DEF TypeOK, Tab
<1>4. \A n \in 0..MaxRevision : n \in Nat
  BY BoundAssumption
<1> QED
  BY <1>1, <1>2, <1>3, <1>4

\* A request moves on, or a new one begins; what it claims it had claimed before.
LEMMA TabMoves ==
  ASSUME IInv, NEW t \in Tabs, NEW v \in Tab, tab' = [tab EXCEPT ![t] = v],
         UNCHANGED <<row, receipt, click, star, call>>,
         v.phase # "claimed", v.phase \in Acting => tab[t].phase \in Acting /\ tab[t].op = v.op,
         Acts(t)', Learned(t)'
  PROVE  IInv'
<1>1. tab'[t] = v /\ \A u \in Tabs \ {t} : tab'[u] = tab[u]
  BY DEF IInv, TypeOK
<1>2. TypeOK'
  BY DEF IInv, TypeOK
<1>3. \A r \in Repos : Fits(r)' /\ IsTrue(r)'
  BY DEF IInv, Fits, IsTrue
<1>4. \A o \in Ops : Pending(o)' => Pending(o)
  BY <1>1 DEF Pending, Claimed
<1>5. \A o \in Ops : Saw(o)' /\ Shuts(o)'
  BY <1>4 DEF IInv, Saw, Shuts
<1>6. ASSUME NEW u \in Tabs, u # t PROVE Acts(u)' /\ Learned(u)'
  <2>1. Acts(u) /\ Learned(u) /\ tab'[u] = tab[u]
    BY <1>1, <1>6 DEF IInv
  <2>2. tab'[u].phase \in Acting =>
          \A w \in Tabs : tab'[w].op = tab'[u].op /\ tab'[w].phase \in Acting => w = u
    BY <1>1, <2>1 DEF Acts
  <2> QED
    BY <2>1, <2>2 DEF Acts, Learned
<1> QED
  BY <1>2, <1>3, <1>5, <1>6 DEF IInv

\* A row is written by a request that works on it: if it is not as it was it has
\* a new revision.
LEMMA RowMoves ==
  ASSUME IInv, TypeOK', NEW t \in Tabs, NEW r \in Repos, NEW y \in Row, r = tab[t].repo,
         row' = [row EXCEPT ![r] = y], UNCHANGED <<click, star, call>>,
         \A u \in Tabs \ {t} : tab'[u] = tab[u],
         y = row[r] \/ y.revision = NextRevision,
         y.owner \in {NoOp, row[r].owner, tab[t].op},
         y.owner \notin {NoOp, row[r].owner} => receipt[y.owner].state = "absent",
         \A o \in Ops : \/ receipt'[o] = receipt[o]
                        \/ receipt'[o].state # "absent" /\ click[o].repo = r,
         tab'[t].phase = "claimed" => tab'[t].op = tab[t].op /\ click[tab[t].op].repo = r,
         tab'[t].phase \in Acting =>
           tab'[t].op = tab[t].op /\ (tab[t].phase \in Acting \/ receipt[tab[t].op].state = "absent"),
         y.revision = NextRevision \/ (y.revision = row[r].revision /\ y.state = row[r].state),
         Fits(r)', IsTrue(r)', Acts(t)', Learned(t)',
         \A o \in Ops : click[o].repo = r => Shuts(o)'
  PROVE  IInv'
<1>1. row'[r] = y /\ \A q \in Repos \ {r} : row'[q] = row[q]
  BY DEF IInv, TypeOK
<1>2. ASSUME NEW q \in Repos, q # r PROVE Fits(q)' /\ IsTrue(q)'
  <2>1. Fits(q) /\ IsTrue(q) /\ row'[q] = row[q]
    BY <1>1, <1>2 DEF IInv
  <2>2. row[q].owner # NoOp => row[q].owner \in Ops
    BY Types DEF IInv, Row
  <2> QED
    BY <1>2, <2>1, <2>2 DEF Fits, IsTrue
<1>3. ASSUME NEW o \in Ops PROVE Saw(o)'
  <2>1. Saw(o) /\ click[o].repo \in Repos /\ click[o].expected \in Nat
    BY Types DEF IInv
  <2>2. CASE click[o].repo = r
    <3>1. row[r].revision \in Nat /\ row[r].revision < NextRevision /\ NextRevision \in Nat
      BY Counter DEF IInv
    <3> QED
      BY <1>1, <2>1, <2>2, <3>1 DEF Saw
  <2>3. CASE click[o].repo # r
    BY <1>1, <2>1, <2>3 DEF Saw
  <2> QED
    BY <2>2, <2>3
<1>4. ASSUME NEW o \in Ops, click[o].repo # r PROVE Shuts(o)'
  <2>1. Shuts(o) /\ click[o].repo \in Repos
    BY Types DEF IInv
  <2>2. row'[click[o].repo] = row[click[o].repo] /\ receipt'[o] = receipt[o]
    BY <1>1, <1>4, <2>1
  <2>3. \A p \in Ops : click[p].repo # r => (Pending(p)' => Pending(p))
    BY DEF Pending, Claimed
  <2> QED
    BY <1>4, <2>1, <2>2, <2>3 DEF Shuts
<1>5. ASSUME NEW u \in Tabs, u # t PROVE Acts(u)' /\ Learned(u)'
  <2>1. /\ Acts(u) /\ Learned(u) /\ tab'[u] = tab[u] /\ tab[u] \in Tab
        /\ tab[u].repo \in Repos /\ tab[u].revision \in Nat
    BY <1>5, Types DEF IInv
  <2>2. /\ row[tab[u].repo].revision <= row'[tab[u].repo].revision
        /\ row[tab[u].repo].revision \in Nat /\ row'[tab[u].repo].revision \in Nat
    BY <1>1, <2>1, Counter DEF IInv
  <2>3. tab[u].phase \in Acting => tab[u].op \in Ops /\ receipt'[tab[u].op].state # "absent"
    BY <2>1, Types DEF IInv, Acts
  <2>4. tab[u].phase \in Acting =>
          \A w \in Tabs : tab'[w].op = tab[u].op /\ tab'[w].phase \in Acting => w = u
    BY <2>1 DEF Acts
  <2>5. Acts(u)'
    BY <2>1, <2>2, <2>3, <2>4 DEF Acts
  <2>6. CASE tab[u].repo # r \/ y = row[r]
    <3>1. row'[tab[u].repo] = row[tab[u].repo]
      BY <1>1, <2>1, <2>6
    <3> QED
      BY <2>1, <2>5, <3>1 DEF Learned
  <2>7. CASE tab[u].repo = r /\ y # row[r]
    <3>1. tab[u].phase = "read" => y.revision # tab[u].revision
      BY <2>1, <2>7, Counter DEF IInv, Acts
    <3>2. tab[u].phase \in Acting /\ y.owner = tab[u].op => row[r].owner = tab[u].op
      BY <2>1, <2>3 DEF Acts
    <3> QED
      BY <1>1, <2>1, <2>5, <2>7, <3>1, <3>2 DEF Learned, Acting
  <2> QED
    BY <2>6, <2>7
<1> QED
  BY <1>2, <1>3, <1>4, <1>5 DEF IInv


-----------------------------------------------------------------------------
(* The steps *)

\* A request that ends.
LEMMA Stops ==
  ASSUME IInv, NEW t \in Tabs, Stop(t), UNCHANGED <<row, receipt, click, star, call>>
  PROVE  IInv'
<1>1. tab' = [tab EXCEPT ![t] = Off] /\ tab'[t] = Off
  BY DEF Stop, SetTab, IInv, TypeOK
<1>2. Acts(t)' /\ Learned(t)'
  BY <1>1, OffIsTab DEF Acts, Learned, Acting
<1> QED
  BY <1>1, <1>2, OffIsTab, TabMoves DEF Acting

LEMMA ViewStep ==
  ASSUME IInv, NEW t \in Tabs, NEW r \in Repos, View(t, r)
  PROVE  IInv'
<1> DEFINE v == [Off EXCEPT !.phase = "opened", !.repo = r]
<1>1. v \in Tab /\ v.phase = "opened" /\ v.op = NoOp
  BY OffIsTab DEF Tab, Off
<1>2. tab' = [tab EXCEPT ![t] = v] /\ UNCHANGED <<row, receipt, click, star, call>>
  BY DEF View, SetTab
<1> HIDE DEF v
<1>3. tab'[t] = v
  BY <1>2 DEF IInv, TypeOK
<1>4. Acts(t)' /\ Learned(t)'
  BY <1>1, <1>3 DEF Acts, Learned, Acting
<1> QED
  BY <1>1, <1>2, <1>4, TabMoves DEF Acting

LEMMA RepeatStep ==
  ASSUME IInv, NEW t \in Tabs, NEW o \in Ops, Repeat(t, o)
  PROVE  IInv'
<1> DEFINE v == [Off EXCEPT !.phase = "opened", !.op = o, !.repo = click[o].repo]
<1>1. v \in Tab /\ v.phase = "opened" /\ v.op = o /\ v.repo = click[o].repo
  BY OffIsTab, Types DEF Tab, Off, IInv
<1>2. tab' = [tab EXCEPT ![t] = v] /\ UNCHANGED <<row, receipt, click, star, call>>
  BY DEF Repeat, SetTab
<1> HIDE DEF v
<1>3. tab'[t] = v
  BY <1>2 DEF IInv, TypeOK
<1>4. Acts(t)' /\ Learned(t)'
  BY <1>1, <1>2, <1>3 DEF Acts, Learned, Acting
<1> QED
  BY <1>1, <1>2, <1>4, TabMoves DEF Acting

\* A new operation: nothing knows of it yet.
LEMMA ClickStep ==
  ASSUME IInv, NEW t \in Tabs, NEW o \in Ops, NEW r \in Repos, ClickStar(t, o, r)
  PROVE  IInv'
<1> DEFINE v == [Off EXCEPT !.phase = "opened", !.op = o, !.repo = r]
<1>1. v \in Tab /\ v.phase = "opened" /\ v.op = o /\ v.repo = r
  BY OffIsTab DEF Tab, Off
<1>2. /\ tab' = [tab EXCEPT ![t] = v] /\ UNCHANGED <<row, receipt, star, call>>
      /\ call[o] = "none" /\ receipt[o].state = "absent" /\ \A u \in Tabs : tab[u].op # o
      /\ tab[t].phase = "off"
  BY DEF ClickStar, SetTab, NoReceipt
<1>3. PICK wish \in Known :
        click' = [click EXCEPT ![o] = [repo |-> r, wish |-> wish, expected |-> row[r].revision, saw |-> row[r].state]]
  BY DEF ClickStar
<1> DEFINE c == [repo |-> r, wish |-> wish, expected |-> row[r].revision, saw |-> row[r].state]
<1>4. c \in Click /\ c.repo = r /\ c.expected = row[r].revision /\ c.saw = row[r].state
  BY DEF Click, IInv, TypeOK, Row
<1>5. click' = [click EXCEPT ![o] = c]
  BY <1>3
<1> HIDE DEF v, c
<1>6. /\ tab'[t] = v /\ \A u \in Tabs \ {t} : tab'[u] = tab[u]
      /\ click'[o] = c /\ \A p \in Ops \ {o} : click'[p] = click[p]
  BY <1>2, <1>5 DEF IInv, TypeOK
<1>7. TypeOK'
  BY <1>1, <1>2, <1>4, <1>5 DEF IInv, TypeOK
<1>8. ASSUME NEW q \in Repos PROVE Fits(q)' /\ IsTrue(q)'
  <2>1. Fits(q) /\ IsTrue(q)
    BY DEF IInv
  <2>2. row[q].owner # NoOp => row[q].owner \in Ops \ {o}
    BY <1>2, <2>1, Types DEF IInv, Row, Fits
  <2> QED
    BY <1>2, <1>6, <2>1, <2>2 DEF Fits, IsTrue
<1>9. \A p \in Ops : Pending(p)' <=> Pending(p)
  BY <1>1, <1>2, <1>6 DEF Pending, Claimed
<1>10. ~Pending(o)
  BY <1>2 DEF Pending, Claimed
<1>11. ASSUME NEW p \in Ops PROVE Saw(p)' /\ Shuts(p)'
  <2>1. Saw(p) /\ Shuts(p)
    BY DEF IInv
  <2>2. CASE p = o
    <3>1. row[r].owner # o
      BY <1>2, NamesAssumption DEF IInv, Fits
    <3>2. row[r].revision \in Nat
      BY Types DEF IInv
    <3> QED
      BY <1>2, <1>4, <1>6, <1>9, <1>10, <2>2, <3>1, <3>2 DEF Saw, Shuts
  <2>3. CASE p # o
    BY <1>2, <1>6, <1>9, <1>10, <2>1, <2>3 DEF Saw, Shuts
  <2> QED
    BY <2>2, <2>3
<1>12. ASSUME NEW u \in Tabs PROVE Acts(u)' /\ Learned(u)'
  <2>1. CASE u = t
    BY <1>1, <1>4, <1>6, <2>1 DEF Acts, Learned, Acting
  <2>2. CASE u # t
    <3>1. Acts(u) /\ Learned(u) /\ tab'[u] = tab[u] /\ tab[u].op \in Ops \cup {NoOp} /\ tab[u].op # o
      BY <1>2, <1>6, <2>2, Types DEF IInv
    <3>2. tab[u].op # NoOp => click'[tab[u].op] = click[tab[u].op]
      BY <1>6, <3>1
    <3>3. tab[u].phase \in Acting =>
            \A w \in Tabs : tab'[w].op = tab[u].op /\ tab'[w].phase \in Acting => w = u
      BY <1>1, <1>6, <3>1 DEF Acts, Acting
    <3>4. tab[u].phase \in Acting => tab[u].op # NoOp
      BY <3>1 DEF Acts
    <3> QED
      BY <1>2, <3>1, <3>2, <3>3, <3>4 DEF Acts, Learned, Acting
  <2> QED
    BY <2>1, <2>2
<1> QED
  BY <1>7, <1>8, <1>11, <1>12 DEF IInv

LEMMA ReadStep ==
  ASSUME IInv, NEW t \in Tabs, Read(t)
  PROVE  IInv'
<1>1. PICK s \in {star[tab[t].repo], "unknown", "needs_reconnect"} :
        SetTab(t, [tab[t] EXCEPT !.phase = "read", !.state = s])
  BY DEF Read
<1> DEFINE v == [tab[t] EXCEPT !.phase = "read", !.state = s]
<1>2. s \in States
  BY Types DEF IInv, TypeOK, States
<1>3. /\ v \in Tab /\ v.phase = "read" /\ v.state = s /\ v.op = tab[t].op
      /\ v.repo = tab[t].repo /\ v.revision = tab[t].revision
  BY <1>2, Types DEF IInv, Tab
<1>4. tab' = [tab EXCEPT ![t] = v] /\ UNCHANGED <<row, receipt, click, star, call>> /\ tab[t].phase = "loaded"
  BY <1>1 DEF Read, SetTab
<1> HIDE DEF v
<1>5. tab'[t] = v /\ Acts(t)
  BY <1>4 DEF IInv, TypeOK
<1>6. Acts(t)' /\ Learned(t)'
  BY <1>3, <1>4, <1>5 DEF Acts, Learned, Acting, Known
<1> QED
  BY <1>3, <1>4, <1>6, TabMoves DEF Acting

LEMMA GoneStep ==
  ASSUME IInv, NEW t \in Tabs, CredentialGone(t)
  PROVE  IInv'
<1> DEFINE v == [tab[t] EXCEPT !.phase = "answered", !.state = "needs_reconnect"]
<1>1. v \in Tab /\ v.phase = "answered" /\ v.state = "needs_reconnect" /\ v.op = tab[t].op /\ v.repo = tab[t].repo
  BY Types DEF IInv, Tab, States
<1>2. tab' = [tab EXCEPT ![t] = v] /\ UNCHANGED <<row, receipt, click, star, call>> /\ tab[t].phase = "claimed"
  BY DEF CredentialGone, SetTab
<1> HIDE DEF v
<1>3. tab'[t] = v /\ Acts(t) /\ \A u \in Tabs \ {t} : tab'[u] = tab[u]
  BY <1>2 DEF IInv, TypeOK
<1>4. Acts(t)' /\ Learned(t)'
  BY <1>1, <1>2, <1>3 DEF Acts, Learned, Acting, Known
<1> QED
  BY <1>1, <1>2, <1>4, TabMoves DEF Acting

LEMMA AnswerStep ==
  ASSUME IInv, NEW t \in Tabs, Answer(t)
  PROVE  IInv'
<1> DEFINE o == tab[t].op
<1>0. Acts(t) /\ Learned(t) /\ tab[t].phase = "called" /\ o \in Ops
  BY Types DEF IInv, Answer, Acts, Acting
<1>1. PICK s : /\ SetTab(t, [tab[t] EXCEPT !.phase = "answered", !.state = s])
               /\ \/ s = "unknown" \/ (call[o] = "applied" /\ s = click[o].wish)
                  \/ (call[o] = "refused" /\ s = tab[t].state)
                  \/ (call[o] = "unauthorized" /\ s = "needs_reconnect")
  BY DEF Answer
<1> DEFINE v == [tab[t] EXCEPT !.phase = "answered", !.state = s]
<1>2. s \in States
  BY <1>0, <1>1, Types DEF IInv, States
<1>3. v \in Tab /\ v.phase = "answered" /\ v.state = s /\ v.op = o /\ v.repo = tab[t].repo
  BY <1>2, Types DEF IInv, Tab
<1>4. tab' = [tab EXCEPT ![t] = v] /\ UNCHANGED <<row, receipt, click, star, call>>
  BY <1>1 DEF Answer, SetTab
<1> HIDE DEF v
<1>5. tab'[t] = v /\ \A u \in Tabs \ {t} : tab'[u] = tab[u]
  BY <1>4 DEF IInv, TypeOK
<1>6. Acts(t)'
  BY <1>0, <1>1, <1>3, <1>4, <1>5 DEF Acts, Acting
<1>7. Learned(t)'
  BY <1>0, <1>1, <1>3, <1>4, <1>5 DEF Learned, Acting, Known
<1> QED
  BY <1>0, <1>3, <1>4, <1>6, <1>7, TabMoves DEF Acting


\* The call is made: it was pending before.
LEMMA DispatchStep ==
  ASSUME IInv, NEW t \in Tabs, Dispatch(t)
  PROVE  IInv'
<1> DEFINE o == tab[t].op  v == [tab[t] EXCEPT !.phase = "called"]
<1>1. /\ tab' = [tab EXCEPT ![t] = v] /\ call' = [call EXCEPT ![o] = "flight"]
      /\ UNCHANGED <<row, receipt, click, star>> /\ tab[t].phase = "claimed"
  BY DEF Dispatch, SetTab
<1>2. /\ Acts(t) /\ Learned(t) /\ o \in Ops /\ call[o] = "none" /\ receipt[o].state # "absent"
      /\ \A u \in Tabs : tab[u].op = o /\ tab[u].phase \in Acting => u = t
  BY <1>1, Types DEF IInv, Acts, Acting
<1>3. v \in Tab /\ v.phase = "called" /\ v.op = o /\ v.repo = tab[t].repo /\ v.state = tab[t].state
  BY Types DEF IInv, Tab
<1> HIDE DEF v
<1>4. /\ tab'[t] = v /\ \A u \in Tabs \ {t} : tab'[u] = tab[u]
      /\ call'[o] = "flight" /\ \A p \in Ops \ {o} : call'[p] = call[p]
  BY <1>1, <1>2 DEF IInv, TypeOK
<1>5. TypeOK'
  BY <1>1, <1>2, <1>3 DEF IInv, TypeOK
<1>6. \A r \in Repos : Fits(r)' /\ IsTrue(r)'
  BY <1>1 DEF IInv, Fits, IsTrue
<1>7. \A p \in Ops : Pending(p)' => Pending(p)
  BY <1>1, <1>3, <1>4 DEF Pending, Claimed
<1>8. ASSUME NEW p \in Ops PROVE Saw(p)' /\ Shuts(p)'
  BY <1>1, <1>2, <1>4, <1>7 DEF IInv, Saw, Shuts
<1>9. ASSUME NEW u \in Tabs PROVE Acts(u)'
  <2>1. CASE u = t
    BY <1>1, <1>2, <1>3, <1>4, <2>1 DEF Acts, Acting
  <2>2. CASE u # t
    <3>1. Acts(u) /\ tab'[u] = tab[u] /\ tab[u].op \in Ops \cup {NoOp}
      BY <1>4, <2>2, Types DEF IInv
    <3>2. tab[u].phase \in Acting => tab[u].op \in Ops \ {o} /\ call'[tab[u].op] = call[tab[u].op]
      BY <1>2, <1>4, <2>2, <3>1 DEF Acts
    <3>3. tab[u].phase \in Acting =>
            \A w \in Tabs : tab'[w].op = tab[u].op /\ tab'[w].phase \in Acting => w = u
      BY <1>3, <1>4, <3>1, <3>2 DEF Acts
    <3> QED
      BY <1>1, <3>1, <3>2, <3>3 DEF Acts, Acting
  <2> QED
    BY <2>1, <2>2
<1>10. ASSUME NEW u \in Tabs PROVE Learned(u)'
  <2>1. CASE u = t
    BY <1>1, <1>2, <1>3, <1>4, <2>1 DEF Learned, Acting
  <2>2. CASE u # t
    <3>1. Learned(u) /\ Acts(u) /\ tab'[u] = tab[u] /\ tab[u].op \in Ops \cup {NoOp}
      BY <1>4, <2>2, Types DEF IInv
    <3>2. tab[u].phase \in Acting => tab[u].op \in Ops \ {o} /\ call'[tab[u].op] = call[tab[u].op]
      BY <1>2, <1>4, <2>2, <3>1 DEF Acts
    <3> QED
      BY <1>1, <3>1, <3>2 DEF Learned, Acting
  <2> QED
    BY <2>1, <2>2
<1> QED
  BY <1>5, <1>6, <1>8, <1>9, <1>10 DEF IInv

\* GitHub ends a call.  If it changes the star the repository was shut.
LEMMA CallStep ==
  ASSUME IInv, NEW o \in Ops, Apply(o) \/ Drop(o)
  PROVE  IInv'
<1> DEFINE r == click[o].repo
<1>1. UNCHANGED <<row, receipt, tab, click>> /\ call[o] = "flight"
  BY DEF Apply, Drop
<1>2. /\ call'[o] \in {"applied", "refused", "unauthorized", "lost"}
      /\ \A p \in Ops \ {o} : call'[p] = call[p]
      /\ call' \in [Ops -> {"none", "flight", "applied", "refused", "unauthorized", "lost"}]
  BY DEF Apply, Drop, IInv, TypeOK
<1>3. /\ \A q \in Repos \ {r} : star'[q] = star[q]
      /\ star'[r] = star[r] \/ (star'[r] = click[o].wish /\ call'[o] = "applied")
      /\ call'[o] = "applied" => star'[r] = click[o].wish
      /\ star' \in [Repos -> Known] /\ r \in Repos
  BY Types DEF Apply, Drop, IInv, TypeOK
<1>4. TypeOK'
  BY <1>1, <1>2, <1>3 DEF IInv, TypeOK
<1>5. row[r].owner = o \/ (row[r].owner = NoOp /\ Uncertain(row[r]))
  BY <1>1 DEF IInv, Shuts, Pending
<1>6. ASSUME NEW q \in Repos PROVE Fits(q)' /\ IsTrue(q)'
  <2>1. Fits(q) /\ IsTrue(q)
    BY DEF IInv
  <2> QED
    BY <1>1, <1>3, <1>5, <2>1, NamesAssumption DEF Fits, IsTrue, Uncertain, Known
<1>7. \A p \in Ops : Pending(p)' => Pending(p)
  BY <1>1, <1>2 DEF Pending, Claimed
<1>8. ASSUME NEW p \in Ops PROVE Saw(p)' /\ Shuts(p)'
  BY <1>1, <1>2, <1>7 DEF IInv, Saw, Shuts
<1>9. ASSUME NEW u \in Tabs PROVE Acts(u)'
  <2>1. Acts(u) /\ tab[u].op \in Ops \cup {NoOp}
    BY Types DEF IInv
  <2> QED
    BY <1>1, <1>2, <2>1 DEF Acts, Acting
<1>10. ASSUME NEW u \in Tabs PROVE Learned(u)'
  <2>1. Learned(u) /\ Acts(u) /\ tab[u].op \in Ops \cup {NoOp} /\ tab[u].repo \in Repos
    BY Types DEF IInv
  <2>2. CASE tab[u].repo # r
    <3>1. tab[u].phase \in Acting => tab[u].op \in Ops \ {o}
      BY <2>1, <2>2 DEF Acts
    <3> QED
      BY <1>1, <1>2, <1>3, <2>1, <2>2, <3>1 DEF Learned, Acting
  <2>3. CASE tab[u].repo = r /\ (tab[u].phase \notin Acting \/ row[r].owner # tab[u].op)
    BY <1>1, <1>5, <2>1, <2>3, NamesAssumption DEF Learned, OpenToWrites, Acting
  <2>4. CASE tab[u].repo = r /\ tab[u].phase \in Acting /\ row[r].owner = tab[u].op
    <3>1. tab[u].op = o
      BY <1>5, <2>1, <2>4 DEF Acts
    <3>2. tab[u].phase = "called" \/ (tab[u].phase = "answered" /\ tab[u].state = "unknown")
      BY <1>1, <2>1, <2>4, <3>1 DEF Acts, Acting
    <3> QED
      BY <1>1, <1>2, <1>3, <2>1, <2>4, <3>1, <3>2 DEF Learned, Acting, Known
  <2> QED
    BY <2>2, <2>3, <2>4
<1> QED
  BY <1>4, <1>6, <1>8, <1>9, <1>10 DEF IInv

LEMMA ElsewhereStep ==
  ASSUME IInv, NEW r \in Repos, Elsewhere(r)
  PROVE  IInv'
<1>1. UNCHANGED <<row, receipt, tab, click, call>> /\ r \in Foreign
  BY DEF Elsewhere
<1>2. star' \in [Repos -> Known] /\ \A q \in Repos \ Foreign : star'[q] = star[q]
  <2>1. (CHOOSE s \in Known : s # star[r]) \in Known
    BY DEF Known
  <2> QED
    BY <1>1, <2>1 DEF Elsewhere, IInv, TypeOK
<1>3. TypeOK'
  BY <1>1, <1>2 DEF IInv, TypeOK
<1>4. \A q \in Repos : Fits(q)' /\ IsTrue(q)'
  BY <1>1, <1>2 DEF IInv, Fits, IsTrue
<1>5. \A p \in Ops : Saw(p)' /\ Shuts(p)'
  BY <1>1 DEF IInv, Saw, Shuts, Pending, Claimed
<1>6. ASSUME NEW u \in Tabs PROVE Acts(u)' /\ Learned(u)'
  <2>1. Acts(u) /\ Learned(u) /\ tab[u].repo \in Repos
    BY Types DEF IInv
  <2> QED
    BY <1>1, <1>2, <2>1 DEF Acts, Learned
<1> QED
  BY <1>3, <1>4, <1>5, <1>6 DEF IInv

\* A lease runs out: nobody asks for that here but the next who looks.
LEMMA ElapseStep ==
  ASSUME IInv, NEW r \in Repos, Elapse(r)
  PROVE  IInv'
<1>1. /\ row' = [row EXCEPT ![r] = [row[r] EXCEPT !.live = FALSE]]
      /\ UNCHANGED <<receipt, tab, click, star, call>>
  BY DEF Elapse, Write
<1>2. TypeOK'
  BY <1>1, Types DEF IInv, TypeOK, Row
<1>3. ASSUME NEW q \in Repos
      PROVE  /\ row'[q].state = row[q].state /\ row'[q].revision = row[q].revision
             /\ row'[q].desired = row[q].desired /\ row'[q].owner = row[q].owner
  BY <1>1, Types DEF IInv, TypeOK, Row
<1>4. \A q \in Repos : Fits(q)' /\ IsTrue(q)'
  BY <1>1, <1>3 DEF IInv, Fits, IsTrue
<1>5. ASSUME NEW p \in Ops PROVE Saw(p)' /\ Shuts(p)'
  <2>1. Saw(p) /\ Shuts(p) /\ click[p].repo \in Repos
    BY Types DEF IInv
  <2> QED
    BY <1>1, <1>3, <2>1 DEF Saw, Shuts, Pending, Claimed, Uncertain
<1>6. ASSUME NEW u \in Tabs PROVE Acts(u)' /\ Learned(u)'
  <2>1. Acts(u) /\ Learned(u) /\ tab[u].repo \in Repos
    BY Types DEF IInv
  <2> QED
    BY <1>1, <1>3, <2>1 DEF Acts, Learned, OpenToWrites, Uncertain
<1> QED
  BY <1>2, <1>4, <1>5, <1>6 DEF IInv


\* An expired lease is settled.
LEMMA ExpiredRow ==
  ASSUME IInv, NEW r \in Repos, NextRevision <= MaxRevision
  PROVE  /\ Expired(row[r]) \in Row /\ Expired(row[r]).state = "unknown" /\ Expired(row[r]).owner = NoOp
         /\ Expired(row[r]).revision = NextRevision /\ Expired(row[r]).desired = row[r].desired
         /\ Response(Expired(row[r])) \in Receipt /\ Response(Expired(row[r])).state = "unknown"
<1>1. NextRevision \in 0..MaxRevision
  BY Counter, BoundAssumption DEF IInv
<1>2. row[r] \in Row
  BY Types DEF IInv
<1>3. /\ Expired(row[r]) \in Row /\ Expired(row[r]).state = "unknown" /\ Expired(row[r]).owner = NoOp
      /\ Expired(row[r]).revision = NextRevision /\ Expired(row[r]).desired = row[r].desired
  BY <1>1, <1>2 DEF Expired, Row, States
<1> QED
  BY <1>1, <1>3 DEF Response, Receipt, States

\* What a pending call asks of the row it is about.
LEMMA StillShut ==
  ASSUME IInv, NEW r \in Repos, click' = click, call' = call,
         \A p \in Ops : Claimed(p)' => Claimed(p),
         \A p \in Ops : receipt'[p] = receipt[p] \/ receipt'[p].state # "absent",
         \A p \in Ops : click[p].repo = r /\ Pending(p)' =>
           row'[r].owner = p \/ (row'[r].owner = NoOp /\ Uncertain(row'[r])),
         row'[r].owner \in {NoOp, row[r].owner}
  PROVE  \A p \in Ops : click[p].repo = r => Shuts(p)'
<1> SUFFICES ASSUME NEW p \in Ops, click[p].repo = r PROVE Shuts(p)'
  OBVIOUS
<1>1. Shuts(p) /\ \A q \in Ops : Pending(q)' => Pending(q)
  BY DEF IInv, Pending
<1>2. receipt'[p].state = "absent" => call'[p] = "none" /\ row'[r].owner # p
  BY <1>1, NamesAssumption DEF Shuts
<1> QED
  BY <1>1, <1>2 DEF Shuts

LEMMA LoadStep ==
  ASSUME IInv, NEW t \in Tabs, Load(t)
  PROVE  IInv'
<1>0. PICK r \in Repos, o \in Ops \cup {NoOp} : r = tab[t].repo /\ o = tab[t].op
  BY Types DEF IInv
<1> DEFINE x == row[r]
           behind == x.owner = NoOp /\ (x.revision = 0 \/ x.revision < NextRevision - 1)
           over == x.owner # NoOp /\ ~x.live
           y == CASE behind -> [x EXCEPT !.revision = NextRevision] [] over -> Expired(x) [] OTHER -> x
           found == [tab[t] EXCEPT !.revision = y.revision, !.state = y.state]
<1>1. /\ tab[t].phase = "opened" /\ (behind => Room) /\ (over => NextRevision <= MaxRevision)
      /\ row' = [row EXCEPT ![r] = y] /\ receipt' = (IF over THEN Answered(x.owner) ELSE receipt)
      /\ UNCHANGED <<click, star, call>>
      /\ \/ y.owner = NoOp /\ SetTab(t, [found EXCEPT !.phase = "loaded"])
         \/ o # NoOp /\ SetTab(t, [found EXCEPT !.phase = "checked"])
         \/ Stop(t)
  BY <1>0 DEF Load, Write
<1>2. x \in Row /\ r \in Repos /\ o \in Ops \cup {NoOp} /\ Fits(r) /\ IsTrue(r) /\ Acts(t)
  BY <1>0, Types DEF IInv
<1>3. /\ y \in Row /\ y.owner \in {NoOp, x.owner} /\ y.desired = x.desired
      /\ y = x \/ y.revision = NextRevision
      /\ \/ ~over /\ y.state = x.state /\ y.owner = x.owner
         \/ over /\ y.state = "unknown" /\ y.owner = NoOp
  <2>1. CASE behind
    BY <1>1, <1>2, <2>1, RoomIsLeft DEF IInv, Row
  <2>2. CASE over /\ ~behind
    BY <1>1, <1>2, <2>2, ExpiredRow
  <2>3. CASE ~over /\ ~behind
    BY <1>2, <2>3 DEF Row
  <2> QED
    BY <2>1, <2>2, <2>3
<1>4. /\ receipt' \in [Ops -> Receipt]
      /\ \A p \in Ops : receipt'[p] = receipt[p] \/ (receipt'[p].state = "unknown" /\ p = x.owner /\ over)
  <2>1. CASE over
    <3>1. click[x.owner].repo = r /\ x.owner \in Ops
      BY <1>2, <2>1 DEF Fits, Row
    <3> QED
      BY <1>1, <1>2, <2>1, <3>1, ExpiredRow DEF Answered, IInv, TypeOK
  <2>2. CASE ~over
    BY <1>1, <2>2 DEF IInv, TypeOK
  <2> QED
    BY <2>1, <2>2
<1> HIDE DEF y, over
<1>5. PICK v \in Tab : /\ tab' = [tab EXCEPT ![t] = v]
                       /\ \/ v = Off
                          \/ /\ v.phase \in {"loaded", "checked"} /\ v.op = o /\ v.repo = r
                             /\ v.revision = y.revision /\ (v.phase = "checked" => o # NoOp)
  <2>1. y.revision \in 0..MaxRevision /\ y.state \in States
    BY <1>3 DEF Row
  <2>2. ASSUME NEW f \in {"loaded", "checked"}
        PROVE  LET w == [found EXCEPT !.phase = f] IN
               w \in Tab /\ w.phase = f /\ w.op = o /\ w.repo = r /\ w.revision = y.revision
    BY <1>0, <2>1, Types DEF IInv, Tab
  <2>3. CASE Stop(t)
    BY <2>3, OffIsTab DEF Stop, SetTab
  <2>4. CASE ~Stop(t)
    BY <1>1, <2>2, <2>4 DEF SetTab
  <2> QED
    BY <2>3, <2>4
<1>6. tab'[t] = v /\ row'[r] = y /\ \A u \in Tabs \ {t} : tab'[u] = tab[u]
  BY <1>1, <1>2, <1>5 DEF IInv, TypeOK
<1>7. TypeOK'
  BY <1>1, <1>2, <1>3, <1>4, <1>5 DEF IInv, TypeOK
<1>8. Fits(r)' /\ IsTrue(r)'
  <2>1. x.owner # NoOp => x.owner \in Ops
    BY <1>2 DEF Row
  <2>2. y.owner # NoOp => y.owner = x.owner /\ receipt'[x.owner] = receipt[x.owner]
    BY <1>3, <1>4, <2>1 DEF over
  <2> QED
    BY <1>1, <1>2, <1>3, <1>6, <2>2 DEF Fits, IsTrue, Known, over
<1>9. Acts(t)' /\ Learned(t)'
  <2>1. y.revision \in Nat
    <3>1. y.revision \in 0..MaxRevision
      BY <1>3 DEF Row
    <3> QED
      BY <3>1, BoundAssumption
  <2>2. row'[r].revision = y.revision /\ tab'[t] = v
    BY <1>6
  <2> QED
    BY <1>0, <1>1, <1>2, <1>5, <2>1, <2>2, OffIsTab DEF Acts, Learned, Acting
<1>10. \A p \in Ops : click[p].repo = r => Shuts(p)'
  <2>1. \A p \in Ops : Claimed(p)' => Claimed(p)
    BY <1>5, <1>6, OffIsTab DEF Claimed
  <2>2. ASSUME NEW p \in Ops, click[p].repo = r, Pending(p)'
        PROVE  row'[r].owner = p \/ (row'[r].owner = NoOp /\ Uncertain(row'[r]))
    <3>1. Pending(p)
      BY <1>1, <2>1, <2>2 DEF Pending
    <3>2. x.owner = p \/ (x.owner = NoOp /\ Uncertain(x))
      BY <2>2, <3>1 DEF IInv, Shuts
    <3> QED
      BY <1>2, <1>3, <1>6, <3>2, NamesAssumption DEF Uncertain, Fits, over
  <2>3. \A p \in Ops : receipt'[p] = receipt[p] \/ receipt'[p].state # "absent"
    BY <1>4
  <2> QED
    BY <1>1, <1>2, <1>3, <1>6, <2>1, <2>2, <2>3, StillShut
<1>11. \A p \in Ops : receipt'[p] = receipt[p] \/ (receipt'[p].state # "absent" /\ click[p].repo = r)
  BY <1>2, <1>4 DEF Fits, over
<1>12. /\ tab'[t].phase = "claimed" => tab'[t].op = tab[t].op /\ click[tab[t].op].repo = r
       /\ tab'[t].phase \in Acting =>
            tab'[t].op = tab[t].op /\ (tab[t].phase \in Acting \/ receipt[tab[t].op].state = "absent")
  BY <1>0, <1>2, <1>5, <1>6, OffIsTab DEF Acting, Acts
<1>13. y.revision = NextRevision \/ (y.revision = row[r].revision /\ y.state = row[r].state)
  BY <1>3
<1>14. r = tab[t].repo /\ y.owner \in {NoOp, row[r].owner, tab[t].op}
  BY <1>0, <1>3
<1>15. y.owner \notin {NoOp, row[r].owner} => receipt[y.owner].state = "absent"
  BY <1>3
<1>16. row' = [row EXCEPT ![r] = y] /\ UNCHANGED <<click, star, call>> /\ r \in Repos /\ y \in Row
  BY <1>1, <1>2, <1>3
<1>17. y = row[r] \/ y.revision = NextRevision
  BY <1>3
<1>18. \A u \in Tabs \ {t} : tab'[u] = tab[u]
  BY <1>6
<1> HIDE DEF x
<1> QED
  BY <1>7, <1>8, <1>9, <1>10, <1>11, <1>12, <1>13, <1>14, <1>15, <1>16, <1>17, <1>18, RowMoves


\* An observation is taken by a row that is open and as it was when it was loaded.
LEMMA ObserveStep ==
  ASSUME IInv, NEW t \in Tabs, Observe(t)
  PROVE  IInv'
<1>0. PICK r \in Repos, o \in Ops \cup {NoOp} : r = tab[t].repo /\ o = tab[t].op
  BY Types DEF IInv
<1> DEFINE x == row[r]  s == tab[t].state  taken == UnchangedSince(x, tab[t].revision)
           y == IF taken THEN [x EXCEPT !.state = s, !.revision = RevisionAfter(x, s),
                                        !.desired = IF s # "unknown" THEN "none" ELSE @]
                         ELSE x
           v == [tab[t] EXCEPT !.phase = "checked", !.state = y.state]
<1>1. /\ tab[t].phase = "read" /\ (taken /\ x.state # s => Room)
      /\ row' = [row EXCEPT ![r] = y] /\ UNCHANGED <<receipt, click, star, call>>
      /\ Stop(t) \/ (o # NoOp /\ SetTab(t, v))
  BY <1>0 DEF Observe, Write
<1>2. x \in Row /\ Fits(r) /\ IsTrue(r) /\ Acts(t) /\ Learned(t) /\ s \in States
  BY <1>0, Types DEF IInv
<1>3. taken => x.owner = NoOp /\ ~Uncertain(x) /\ x.desired = "none" /\ x.revision = tab[t].revision
  BY <1>2 DEF UnchangedSince, Fits, Uncertain
<1>4. /\ y \in Row /\ y.owner = x.owner /\ y.desired = x.desired
      /\ y = x \/ (taken /\ y.revision = NextRevision /\ y.state = s)
  <2>1. CASE taken /\ x.state = s
    BY <1>2, <1>3, <2>1 DEF Row, RevisionAfter
  <2>2. CASE taken /\ x.state # s
    <3>1. NextRevision \in 0..MaxRevision
      BY <1>1, <2>2, RoomIsLeft DEF IInv
    <3> QED
      BY <1>2, <1>3, <2>2, <3>1 DEF Row, RevisionAfter
  <2>3. CASE ~taken
    BY <1>2, <2>3
  <2> QED
    BY <2>1, <2>2, <2>3
<1> HIDE DEF y, taken
<1>5. v \in Tab /\ v.phase = "checked" /\ v.op = o /\ v.repo = r
  <2>1. y.state \in States
    BY <1>4 DEF Row
  <2> QED
    BY <1>0, <2>1, Types DEF IInv, Tab
<1> HIDE DEF v
<1>6. PICK w \in {v, Off} : tab' = [tab EXCEPT ![t] = w] /\ (w = v => w = Off \/ o # NoOp)
  BY <1>1 DEF Stop, SetTab
<1>7. /\ tab'[t] = w /\ row'[r] = y /\ w \in Tab /\ w.phase \in {"off", "checked"}
      /\ w.phase = "checked" => w.op = o /\ w.repo = r /\ o # NoOp
      /\ w.phase = "off" => w.op = NoOp
      /\ \A u \in Tabs \ {t} : tab'[u] = tab[u]
  BY <1>1, <1>5, <1>6, OffIsTab DEF IInv, TypeOK
<1>8. TypeOK'
  BY <1>1, <1>4, <1>6, <1>7 DEF IInv, TypeOK
<1>9. Fits(r)' /\ IsTrue(r)'
  <2>1. x.owner # NoOp => x.owner \in Ops
    BY <1>2 DEF Row
  <2>2. taken => x.desired = "none" /\ (s \in Known /\ r \notin Foreign => s = star[r])
    BY <1>0, <1>1, <1>2, <1>3 DEF Learned, OpenToWrites
  <2> QED
    BY <1>1, <1>2, <1>3, <1>4, <1>7, <2>1, <2>2 DEF Fits, IsTrue
<1>10. Acts(t)' /\ Learned(t)'
  BY <1>0, <1>1, <1>2, <1>7 DEF Acts, Learned, Acting
<1>11. \A p \in Ops : click[p].repo = r => Shuts(p)'
  <2>1. \A p \in Ops : Claimed(p)' => Claimed(p)
    BY <1>7 DEF Claimed
  <2>2. ASSUME NEW p \in Ops, click[p].repo = r, Pending(p)'
        PROVE  row'[r].owner = p \/ (row'[r].owner = NoOp /\ Uncertain(row'[r]))
    <3>1. Pending(p)
      BY <1>1, <2>1, <2>2 DEF Pending
    <3>2. x.owner = p \/ (x.owner = NoOp /\ Uncertain(x))
      BY <2>2, <3>1 DEF IInv, Shuts
    <3> QED
      BY <1>3, <1>4, <1>7, <3>2, NamesAssumption
  <2> QED
    BY <1>1, <1>4, <1>7, <2>1, <2>2, StillShut
<1>12. /\ row' = [row EXCEPT ![r] = y] /\ UNCHANGED <<click, star, call>> /\ y \in Row
       /\ y = row[r] \/ y.revision = NextRevision
       /\ y.owner \in {NoOp, row[r].owner, tab[t].op}
       /\ y.owner \notin {NoOp, row[r].owner} => receipt[y.owner].state = "absent"
       /\ y.revision = NextRevision \/ (y.revision = row[r].revision /\ y.state = row[r].state)
  BY <1>1, <1>4
<1>13. /\ \A p \in Ops : receipt'[p] = receipt[p] \/ (receipt'[p].state # "absent" /\ click[p].repo = r)
       /\ tab'[t].phase \notin Acting /\ tab'[t].phase # "claimed"
  BY <1>1, <1>7 DEF Acting
<1> HIDE DEF x, s
<1> QED
  BY <1>0, <1>7, <1>8, <1>9, <1>10, <1>11, <1>12, <1>13, RowMoves

\* A claim finds the row open, so that nothing is pending, and takes it.
LEMMA ClaimStep ==
  ASSUME IInv, NEW t \in Tabs, Claim(t)
  PROVE  IInv'
<1>1. CASE Stop(t) /\ UNCHANGED <<row, receipt>>
  BY <1>1, Stops DEF Claim
<1>2. CASE ~(Stop(t) /\ UNCHANGED <<row, receipt>>)
  <2>0. PICK r \in Repos, o \in Ops : r = tab[t].repo /\ o = tab[t].op /\ tab[t].phase = "checked"
    BY Types DEF IInv, Claim, Acts
  <2> DEFINE x == row[r]  same == x.state = click[o].wish
             y == IF same THEN [x EXCEPT !.revision = NextRevision]
                  ELSE [x EXCEPT !.revision = NextRevision, !.desired = click[o].wish, !.owner = o, !.live = TRUE]
             c == IF same THEN Response([x EXCEPT !.revision = NextRevision]) ELSE [state |-> "open", revision |-> 0]
             v == IF same THEN Off
                  ELSE [tab[t] EXCEPT !.phase = "claimed", !.revision = NextRevision, !.state = x.state]
  <2>1. /\ receipt[o] = NoReceipt /\ OpenToWrites(x) /\ Room
        /\ row' = [row EXCEPT ![r] = y] /\ receipt' = [receipt EXCEPT ![o] = c]
        /\ tab' = [tab EXCEPT ![t] = v] /\ UNCHANGED <<click, star, call>>
    BY <1>2, <2>0 DEF Claim, Write, Stop, SetTab
  <2>2. /\ x \in Row /\ Fits(r) /\ IsTrue(r) /\ Acts(t) /\ click[o].repo = r /\ click[o].wish \in Known
        /\ NextRevision \in 0..MaxRevision
    BY <2>0, <2>1, Types, RoomIsLeft, NamesAssumption DEF IInv, Acts
  <2>3. /\ y \in Row /\ y.revision = NextRevision /\ y.state = x.state /\ c \in Receipt /\ v \in Tab
        /\ same => y.owner = x.owner /\ y.desired = x.desired /\ c.state = x.state /\ v = Off
        /\ ~same => /\ y.owner = o /\ y.desired = click[o].wish /\ c.state = "open"
                    /\ v.phase = "claimed" /\ v.op = o /\ v.repo = r /\ v.state = x.state
    <3>1. CASE same
      BY <2>2, <3>1, OffIsTab DEF Row, Response, Receipt
    <3>2. CASE ~same
      <4>1. y \in Row /\ y.revision = NextRevision /\ y.state = x.state /\ y.owner = o /\ y.desired = click[o].wish
        BY <2>2, <3>2 DEF Row
      <4>2. c \in Receipt /\ c.state = "open"
        BY <3>2, BoundAssumption DEF Receipt
      <4>3. v \in Tab /\ v.phase = "claimed" /\ v.op = o /\ v.repo = r /\ v.state = x.state
        <5>1. x.state \in States /\ tab[t] \in Tab
          BY <2>2, Types DEF Row, IInv
        <5> QED
          BY <2>0, <2>2, <3>2, <5>1 DEF Tab
      <4> QED
        BY <3>2, <4>1, <4>2, <4>3
    <3> QED
      BY <3>1, <3>2
  <2> HIDE DEF y, c, v
  <2>4. /\ row'[r] = y /\ receipt'[o] = c /\ \A p \in Ops \ {o} : receipt'[p] = receipt[p]
        /\ tab'[t] = v /\ \A u \in Tabs \ {t} : tab'[u] = tab[u]
    BY <2>1 DEF IInv, TypeOK
  <2>5. TypeOK'
    BY <2>1, <2>3 DEF IInv, TypeOK
  <2>6. x.owner = NoOp /\ ~Uncertain(x) /\ x.desired = "none" /\ receipt[o].state = "absent" /\ o # NoOp
    BY <2>1, <2>2, NamesAssumption DEF OpenToWrites, Fits, Uncertain, NoReceipt
  <2>7. \A p \in Ops : click[p].repo = r => ~Pending(p)
    BY <2>6, NamesAssumption DEF IInv, Shuts
  <2>8. Fits(r)' /\ IsTrue(r)'
    BY <2>1, <2>2, <2>3, <2>4, <2>6 DEF Fits, IsTrue, Known
  <2>9. call[o] = "none" /\ \A u \in Tabs : tab[u].op = o => tab[u].phase \notin Acting
    BY <2>6 DEF IInv, Shuts, Acts
  <2>10. Acts(t)'
    <3>1. CASE same
      BY <2>3, <2>4, <3>1, OffIsTab DEF Acts, Acting
    <3>2. CASE ~same
      BY <2>1, <2>2, <2>3, <2>4, <2>6, <2>9, <3>2 DEF Acts, Acting
    <3> QED
      BY <3>1, <3>2
  <2>11. Learned(t)'
    <3>1. CASE same
      BY <2>3, <2>4, <3>1, OffIsTab DEF Learned, Acting
    <3>2. CASE ~same
      BY <2>1, <2>2, <2>3, <2>4, <2>6, <2>9, <3>2 DEF Learned, Acting, IsTrue
    <3> QED
      BY <3>1, <3>2
  <2>12. ASSUME NEW p \in Ops, click[p].repo = r PROVE Shuts(p)'
    <3>1. \A q \in Ops : click[q].repo = r /\ Pending(q)' => q = o /\ ~same
      <4> SUFFICES ASSUME NEW q \in Ops, click[q].repo = r, Pending(q)' PROVE q = o /\ ~same
        OBVIOUS
      <4>1. call[q] # "flight" /\ ~Claimed(q)
        BY <2>7 DEF Pending
      <4>2. Claimed(q)'
        BY <2>1, <4>1 DEF Pending
      <4> QED
        BY <2>3, <2>4, <4>1, <4>2, OffIsTab DEF Claimed
    <3>2. receipt'[p].state = "absent" => p # o /\ call[p] = "none" /\ x.owner # p
      <4>1. p # o => Shuts(p) /\ receipt'[p] = receipt[p]
        BY <2>4 DEF IInv
      <4>2. c.state # "absent"
        BY <2>2, <2>3 DEF Row, States, Known
      <4> QED
        BY <2>4, <2>6, <2>12, <4>1, <4>2, NamesAssumption DEF Shuts
    <3> QED
      BY <2>1, <2>2, <2>3, <2>4, <2>12, <3>1, <3>2, <2>6, NamesAssumption DEF Shuts
  <2>13. /\ \A p \in Ops : receipt'[p] = receipt[p] \/ (receipt'[p].state # "absent" /\ click[p].repo = r)
         /\ tab'[t].phase = "claimed" => tab'[t].op = tab[t].op /\ click[tab[t].op].repo = r
         /\ tab'[t].phase \in Acting =>
              tab'[t].op = tab[t].op /\ (tab[t].phase \in Acting \/ receipt[tab[t].op].state = "absent")
    <3>1. c.state # "absent"
      BY <2>2, <2>3 DEF Row, States, Known
    <3>2. v = Off \/ v.op = o
      BY <2>3
    <3> QED
      BY <2>0, <2>2, <2>4, <2>6, <3>1, <3>2, OffIsTab DEF Acting
  <2>14. /\ row' = [row EXCEPT ![r] = y] /\ UNCHANGED <<click, star, call>> /\ y \in Row
         /\ y.owner \in {NoOp, row[r].owner, tab[t].op}
         /\ y.owner \notin {NoOp, row[r].owner} => receipt[y.owner].state = "absent"
         /\ y = row[r] \/ y.revision = NextRevision
         /\ y.revision = NextRevision \/ (y.revision = row[r].revision /\ y.state = row[r].state)
    BY <2>0, <2>1, <2>3, <2>6
  <2>15. (\A p \in Ops : click[p].repo = r => Shuts(p)') /\ r = tab[t].repo /\ r \in Repos
    BY <2>0, <2>12
  <2>16. \A u \in Tabs \ {t} : tab'[u] = tab[u]
    BY <2>4
  <2> HIDE DEF x, same
  <2> QED
    BY <2>5, <2>8, <2>10, <2>11, <2>13, <2>14, <2>15, <2>16, RowMoves
<1> QED
  BY <1>1, <1>2


\* The outcome is stored by the operation that holds the lease, in time or not.
LEMMA SettleStep ==
  ASSUME IInv, NEW t \in Tabs, Settle(t)
  PROVE  IInv'
<1>0. PICK r \in Repos, o \in Ops : r = tab[t].repo /\ o = tab[t].op /\ tab[t].phase = "answered"
  BY Types DEF IInv, Settle, Acts, Acting
<1> DEFINE x == row[r]  s == tab[t].state  mine == x.owner = o
           y == IF InTime(t, x)
                THEN [x EXCEPT !.state = s, !.revision = NextRevision, !.owner = NoOp, !.live = FALSE,
                               !.desired = IF s = "unknown" THEN @ ELSE "none"]
                ELSE IF mine THEN Expired(x) ELSE x
           c == IF mine THEN Response(y) ELSE receipt[o]
<1>1. /\ NextRevision \in 0..MaxRevision
      /\ row' = [row EXCEPT ![r] = y] /\ receipt' = [receipt EXCEPT ![o] = c]
      /\ tab' = [tab EXCEPT ![t] = Off] /\ UNCHANGED <<click, star, call>>
  BY <1>0, Counter, BoundAssumption DEF Settle, Write, Stop, SetTab, ReceiptAfter, IInv
<1>2. /\ x \in Row /\ Fits(r) /\ IsTrue(r) /\ Acts(t) /\ Learned(t) /\ s \in States /\ click[o].repo = r
      /\ o # NoOp /\ receipt[o] \in Receipt /\ receipt[o].state # "absent"
      /\ \A u \in Tabs : tab[u].op = o /\ tab[u].phase \in Acting => u = t
  BY <1>0, Types, NamesAssumption DEF IInv, Acts, Acting
<1>3. /\ y \in Row
      /\ ~mine => y = x
      /\ mine => /\ y.revision = NextRevision /\ y.owner = NoOp
                 /\ \/ y.state = "unknown" /\ y.desired = x.desired
                    \/ s # "unknown" /\ y.state = s /\ y.desired = "none"
  <2>1. CASE InTime(t, x)
    <3>1. mine
      BY <1>0, <2>1 DEF InTime
    <3> QED
      BY <1>1, <1>2, <2>1, <3>1 DEF Row
  <2>2. CASE ~InTime(t, x) /\ mine
    BY <1>1, <2>2, ExpiredRow, BoundAssumption
  <2>3. CASE ~InTime(t, x) /\ ~mine
    BY <1>2, <2>3
  <2> QED
    BY <2>1, <2>2, <2>3
<1> HIDE DEF y
<1>4. c \in Receipt /\ c.state # "absent"
  <2>1. Response(y) \in Receipt /\ Response(y).state # "absent"
    BY <1>3 DEF Response, Receipt, Row, States, Known
  <2> QED
    BY <1>2, <2>1
<1> HIDE DEF c
<1>5. /\ row'[r] = y /\ receipt'[o] = c /\ \A p \in Ops \ {o} : receipt'[p] = receipt[p]
      /\ tab'[t] = Off /\ \A u \in Tabs \ {t} : tab'[u] = tab[u]
  BY <1>1 DEF IInv, TypeOK
<1>6. TypeOK'
  BY <1>1, <1>3, <1>4, OffIsTab DEF IInv, TypeOK
<1>7. Fits(r)' /\ IsTrue(r)'
  <2>1. CASE mine
    <3>1. s \in Known /\ r \notin Foreign => s = star[r]
      BY <1>0, <1>2, <2>1 DEF Learned, Acting
    <3> QED
      BY <1>1, <1>3, <1>5, <2>1, <3>1 DEF Fits, IsTrue, Known
  <2>2. CASE ~mine
    <3>1. x.owner # NoOp => x.owner \in Ops \ {o}
      BY <1>2, <2>2 DEF Row
    <3> QED
      BY <1>1, <1>2, <1>3, <1>5, <2>2, <3>1 DEF Fits, IsTrue
  <2> QED
    BY <2>1, <2>2
<1>8. Acts(t)' /\ Learned(t)'
  BY <1>5, OffIsTab DEF Acts, Learned, Acting
<1>9. \A p \in Ops : click[p].repo = r => Shuts(p)'
  <2>1. \A p \in Ops : Claimed(p)' => Claimed(p)
    BY <1>5, OffIsTab DEF Claimed
  <2>2. ASSUME NEW p \in Ops, click[p].repo = r, Pending(p)'
        PROVE  row'[r].owner = p \/ (row'[r].owner = NoOp /\ Uncertain(row'[r]))
    <3>1. Pending(p)
      BY <1>1, <2>1, <2>2 DEF Pending
    <3>2. x.owner = p \/ (x.owner = NoOp /\ Uncertain(x))
      BY <2>2, <3>1 DEF IInv, Shuts
    <3>3. CASE mine
      <4>1. p = o /\ x.desired # "none"
        BY <1>2, <3>2, <3>3 DEF Fits
      <4>2. ~Claimed(o)
        BY <1>0, <1>2 DEF Claimed, Acting
      <4>3. s = "unknown"
        BY <1>0, <1>2, <3>1, <4>1, <4>2 DEF Pending, Acts
      <4> QED
        BY <1>3, <1>5, <3>3, <4>1, <4>3 DEF Uncertain
    <3>4. CASE ~mine
      BY <1>3, <1>5, <3>2, <3>4
    <3> QED
      BY <3>3, <3>4
  <2>3. \A p \in Ops : receipt'[p] = receipt[p] \/ receipt'[p].state # "absent"
    BY <1>4, <1>5
  <2>4. row'[r].owner \in {NoOp, row[r].owner}
    BY <1>3, <1>5
  <2> QED
    BY <1>1, <2>1, <2>2, <2>3, <2>4, StillShut
<1>10. /\ row' = [row EXCEPT ![r] = y] /\ UNCHANGED <<click, star, call>> /\ y \in Row
       /\ y = row[r] \/ y.revision = NextRevision
       /\ y.owner \in {NoOp, row[r].owner, tab[t].op}
       /\ y.owner \notin {NoOp, row[r].owner} => receipt[y.owner].state = "absent"
       /\ y.revision = NextRevision \/ (y.revision = row[r].revision /\ y.state = row[r].state)
  BY <1>1, <1>3
<1>11. /\ \A p \in Ops : receipt'[p] = receipt[p] \/ (receipt'[p].state # "absent" /\ click[p].repo = r)
       /\ tab'[t].phase \notin Acting /\ tab'[t].phase # "claimed"
  BY <1>2, <1>4, <1>5, OffIsTab DEF Acting
<1>12. (\A u \in Tabs \ {t} : tab'[u] = tab[u]) /\ r = tab[t].repo /\ r \in Repos
  BY <1>0, <1>5
<1> HIDE DEF x, s, mine
<1> QED
  BY <1>6, <1>7, <1>8, <1>9, <1>10, <1>11, <1>12, RowMoves

-----------------------------------------------------------------------------
(* The theorems *)

LEMMA NextIInv == IInv /\ [Next]_vars => IInv'
<1> SUFFICES ASSUME IInv, [Next]_vars PROVE IInv'
  OBVIOUS
<1>1. CASE \E t \in Tabs, r \in Repos : View(t, r)
  BY <1>1, ViewStep
<1>2. CASE \E t \in Tabs, o \in Ops, r \in Repos : ClickStar(t, o, r)
  BY <1>2, ClickStep
<1>3. CASE \E t \in Tabs, o \in Ops : Repeat(t, o)
  BY <1>3, RepeatStep
<1>4. CASE \E r \in Repos : Elsewhere(r) \/ Elapse(r)
  BY <1>4, ElsewhereStep, ElapseStep
<1>5. CASE \E t \in Tabs : Load(t) \/ Read(t) \/ Observe(t) \/ Claim(t)
  BY <1>5, LoadStep, ReadStep, ObserveStep, ClaimStep
<1>6. CASE \E t \in Tabs : CredentialGone(t) \/ Dispatch(t) \/ Answer(t) \/ Settle(t)
  BY <1>6, GoneStep, DispatchStep, AnswerStep, SettleStep
<1>7. CASE \E o \in Ops : Apply(o) \/ Drop(o)
  BY <1>7, CallStep
<1>8. CASE \E t \in Tabs : Crash(t)
  BY <1>8, Stops DEF Crash
<1>9. CASE UNCHANGED vars
  BY <1>9 DEF vars, IInv, TypeOK, Fits, IsTrue, Saw, Shuts, Acts, Learned, Pending, Claimed
<1> QED
  BY <1>1, <1>2, <1>3, <1>4, <1>5, <1>6, <1>7, <1>8, <1>9 DEF Next

LEMMA Invariant == Spec => []IInv
  BY InitIInv, NextIInv, PTL DEF Spec

\* The variables of github_star_operations, its receipts and the requests keep
\* their types.
THEOREM TypeCorrect == Spec => []TypeOK
<1>1. IInv => TypeOK
  BY DEF IInv
<1> QED
  BY <1>1, Invariant, PTL

\* However late a call takes effect, no second one is made for its repository
\* meanwhile (repository.ts:134, the uncertainty fence).
THEOREM CallsAreAlone == Spec => []OneCallAtATime
<1>1. IInv => OneCallAtATime
  BY DEF IInv, OneCallAtATime, Shuts, Pending
<1> QED
  BY <1>1, Invariant, PTL

\* A row that names a state and has no writer names the member's star, and no
\* call is left that could change it (repository.ts:96 and :157).
THEOREM RecordStaysTrue == Spec => []RecordIsTrue
<1>1. ASSUME IInv PROVE RecordIsTrue
  <2> SUFFICES ASSUME NEW r \in Repos \ Foreign, row[r].state \in Known, row[r].owner = NoOp
               PROVE  row[r].state = star[r] /\ \A o \in Ops : click[o].repo = r => call[o] # "flight"
    BY DEF RecordIsTrue
  <2>1. row[r].state = star[r]
    BY <1>1 DEF IInv, IsTrue
  <2>2. ASSUME NEW o \in Ops, click[o].repo = r PROVE call[o] # "flight"
    BY <1>1, <2>2, NamesAssumption DEF IInv, Shuts, Pending, Uncertain, Known
  <2> QED
    BY <2>1, <2>2
<1> QED
  BY <1>1, Invariant, PTL

\* A write is claimed on the state its member saw and on no other
\* (repository.ts:135): a revision never stands for two states.
THEOREM ClaimsAreSeen == Spec => ClaimedAsSeen
<1>1. ASSUME IInv, Next, NEW o \in Ops, receipt[o].state = "absent", receipt'[o].state = "open"
      PROVE  row[click[o].repo].state = click[o].saw
  <2>1. PICK t \in Tabs : Load(t) \/ Claim(t) \/ Settle(t)
    BY <1>1 DEF Next, View, ClickStar, Repeat, Elsewhere, Read, Observe, CredentialGone, Dispatch,
                Apply, Drop, Answer, Crash, Elapse
  <2>2. tab[t].repo \in Repos /\ Fits(tab[t].repo) /\ Acts(t) /\ row[tab[t].repo] \in Row
    BY <1>1, Types DEF IInv
  <2>3. CASE Load(t)
    <3>1. receipt' = Answered(row[tab[t].repo].owner)
      BY <1>1, <2>3 DEF Load
    <3>2. receipt'[o] = receipt[o] \/ receipt'[o].state = "unknown"
      BY <1>1, <3>1 DEF Answered, Response, Expired, IInv, TypeOK
    <3> QED
      BY <1>1, <3>2
  <2>4. CASE Claim(t)
    <3>1. tab[t].op = o
      BY <1>1, <2>4 DEF Claim, IInv, TypeOK
    <3>2. row[tab[t].repo].revision = click[o].expected /\ click[o].repo = tab[t].repo
      BY <1>1, <2>2, <2>4, <3>1, NamesAssumption DEF Claim, Acts
    <3> QED
      BY <1>1, <3>2 DEF IInv, Saw
  <2>5. CASE Settle(t)
    <3>1. tab[t].phase = "answered" /\ receipt[tab[t].op].state # "absent"
      BY <2>2, <2>5 DEF Settle, Acts, Acting
    <3>2. receipt'[o] = receipt[o]
      BY <1>1, <2>5, <3>1 DEF Settle, IInv, TypeOK
    <3> QED
      BY <1>1, <3>2
  <2> QED
    BY <2>1, <2>3, <2>4, <2>5
<1>2. IInv /\ [Next]_vars =>
        [\A o \in Ops : receipt[o].state = "absent" /\ receipt'[o].state = "open" =>
           row[click[o].repo].state = click[o].saw]_vars
  BY <1>1
<1> QED
  BY <1>2, Invariant, PTL DEF Spec, ClaimedAsSeen


\* The answer a receipt holds is final, so that a repeated request gets the one
\* the first got (github-star-schema.ts:24, settleStarWrite).
THEOREM ReceiptsAreFinal == Spec => ReceiptIsFinal
<1>1. ASSUME IInv, Next, NEW o \in Ops, receipt[o].state \in States
      PROVE  receipt'[o] = receipt[o]
  <2>1. CASE \E t \in Tabs : Load(t) \/ Claim(t) \/ Settle(t)
    <3>1. PICK t \in Tabs : Load(t) \/ Claim(t) \/ Settle(t)
      BY <2>1
    <3>2. tab[t].repo \in Repos /\ Fits(tab[t].repo) /\ NoOp \notin Ops
      BY <1>1, Types, NamesAssumption DEF IInv
    <3>3. row[tab[t].repo].owner # o
      BY <1>1, <3>2 DEF Fits, States, Known
    <3>4. receipt[o] # NoReceipt
      BY <1>1 DEF NoReceipt, States, Known
    <3>5. CASE Load(t)
      <4>1. receipt' = receipt \/ receipt' = Answered(row[tab[t].repo].owner)
        BY <3>5 DEF Load
      <4> QED
        BY <1>1, <3>3, <4>1 DEF Answered, IInv, TypeOK
    <3>6. CASE Claim(t)
      BY <1>1, <3>4, <3>6 DEF Claim, IInv, TypeOK
    <3>7. CASE Settle(t)
      <4>1. receipt' = [receipt EXCEPT ![tab[t].op] = @] \/ tab[t].op # o
        BY <1>1, <3>3, <3>7 DEF Settle, ReceiptAfter, IInv, TypeOK
      <4>2. \E c : receipt' = [receipt EXCEPT ![tab[t].op] = c]
        BY <3>7 DEF Settle
      <4> QED
        BY <1>1, <4>1, <4>2 DEF IInv, TypeOK
    <3> QED
      BY <3>1, <3>5, <3>6, <3>7
  <2>2. CASE ~\E t \in Tabs : Load(t) \/ Claim(t) \/ Settle(t)
    BY <1>1, <2>2 DEF Next, View, ClickStar, Repeat, Elsewhere, Read, Observe, CredentialGone, Dispatch,
                      Apply, Drop, Answer, Crash, Elapse
  <2> QED
    BY <2>1, <2>2
<1>2. IInv /\ [Next]_vars => [\A o \in Ops : receipt[o].state \in States => receipt'[o] = receipt[o]]_vars
  BY <1>1
<1> QED
  BY <1>2, Invariant, PTL DEF Spec, ReceiptIsFinal

-----------------------------------------------------------------------------
(* UptimeClaims: the invariant *)

\* An open claim transaction belongs to an instance with empty hands.
PickOf(o) ==
  /\ picked[o] # NoClaim => \A p \in Products : ticket[o][p] = NoTicket
  /\ picked[o].looked => picked[o].held
  /\ \A p \in Products : picked[o].at[p] <= version[p]

\* Whoever holds the lock of an origin holds it alone,
LocksAreApart ==
  \A o, x \in Owners : o # x /\ picked[o].held /\ picked[x].held =>
    \A p \in picked[o].rows, q \in picked[x].rows : OriginOf[p] # OriginOf[q]

\* so what the second statement saw of it holds to the commit.
LookStands == \A o \in Owners : picked[o].looked => \A p \in picked[o].rows : ~Taken(o, p)

\* What a row says of itself.
RowOf(p) ==
  /\ claim[p].state = "idle" <=> claim[p].token = NoToken
  /\ claim[p].state = "idle" => claim[p].answer = "none"
  /\ claim[p].state = "submitted" =>
       claim[p].owner \in Probes /\ claim[p].answer # "none" /\ claim[p].result = claim[p].answer
  /\ claim[p].version <= version[p] /\ health[p].version <= version[p]

\* A ticket whose token is the row's is the owner's, and tells what was seen.
TicketOf(o, p) ==
  /\ ticket[o][p].token = NoToken => ticket[o][p] = NoTicket
  /\ ticket[o][p].token # NoToken /\ ticket[o][p].token = claim[p].token =>
       claim[p].owner = o /\ claim[p].answer = ticket[o][p].result

\* A failure seen by a home under the row's claim is counted at most once more.
Uncounted(p) ==
  claim[p].owner \in Homes /\ claim[p].answer = "failed" /\ claim[p].version = version[p]
SeenOf(p) ==
  (IF health[p].version = version[p] THEN health[p].failures ELSE 0)
    + (IF Uncounted(p) THEN 1 ELSE 0) <= seen[p]

\* Trial claims that are, or may yet come, in flight: a lapsed claim does if its
\* ticket is still about.
Trials(o) ==
  {p \in Products : /\ claim[p].owner = o /\ claim[p].trial
                    /\ \/ claim[p].state = "submitted"
                       \/ claim[p].state = "claimed" /\ (claim[p].live \/ ticket[o][p].token = claim[p].token)}
TrialOf(o) ==
  breaker[o].state = "probing" =>
    breaker[o].checks + Cardinality(Trials(o)) + Cardinality(picked[o].rows) <= ProbeSize

UptimeInv ==
  /\ UptimeTypeOK
  /\ LocksAreApart /\ LookStands /\ OneOwnerPerOrigin
  /\ \A o \in Owners : PickOf(o) /\ TrialOf(o)
  /\ \A p \in Products : RowOf(p) /\ SeenOf(p)
  /\ \A o \in Owners, p \in Products : TicketOf(o, p)

-----------------------------------------------------------------------------
LEMMA UptimeNumbers ==
  /\ ProbeSize \in Nat /\ ProbeSize >= 1 /\ MaxSeen \in Nat /\ MaxControl \in Nat /\ MaxControl >= 1
  /\ MaxVersion \in Nat /\ MaxVersion >= 1
  /\ (CHOOSE h \in Homes : TRUE) \in Homes
  BY BoundsAssumption, InstancesAssumption

LEMMA UptimeTypes ==
  ASSUME UptimeTypeOK
  PROVE  /\ \A p \in Products : /\ claim[p] \in ClaimRow /\ claim[p].version \in Nat /\ version[p] \in 1..MaxVersion
                                /\ version[p] \in Nat /\ health[p] \in Health /\ health[p].version \in Nat
                                /\ health[p].failures \in Nat /\ seen[p] \in Nat
         /\ \A o \in Owners : /\ breaker[o] \in Breaker /\ breaker[o].checks \in Nat
                              /\ picked[o].rows \in SUBSET Products /\ picked[o].held \in BOOLEAN
                              /\ picked[o].looked \in BOOLEAN
                              /\ picked[o].at \in [Products -> 0..MaxVersion]
                              /\ \A p \in Products : ticket[o][p] \in Ticket /\ picked[o].at[p] \in Nat
  BY UptimeNumbers DEF UptimeTypeOK, ClaimRow, Health, Breaker

\* A token is left: no more are remembered than there are instances, and the
\* one that claims remembers none.
LEMMA FreshIsNew ==
  ASSUME UptimeTypeOK, NEW o \in Owners, NEW p \in Products, ticket[o][p] = NoTicket
  PROVE  Fresh(p) \in Tokens /\ Fresh(p) # claim[p].token /\ \A x \in Owners : ticket[x][p].token # Fresh(p)
<1> DEFINE f == [x \in Owners |-> IF x = o THEN claim[p].token ELSE ticket[x][p].token]
           U == {f[x] : x \in Owners}
<1>1. f \in Surjection(Owners, U)
  BY DEF Surjection
<1>2. IsFiniteSet(U) /\ Cardinality(U) <= Cardinality(Owners)
  BY <1>1, InstancesAssumption, FS_Surjection
<1>3. Cardinality(U) \in Nat /\ Cardinality(Owners) \in Nat /\ Cardinality(Tokens) \in Nat
  BY <1>2, InstancesAssumption, TokensAssumption, FS_CardinalityType
<1>4. ~(Tokens \subseteq U)
  BY <1>2, <1>3, TokensAssumption, FS_Subset
<1>5. PICK k \in Tokens : k \notin U
  BY <1>4
<1>6. k # claim[p].token
  BY <1>5
<1>7. ASSUME NEW x \in Owners PROVE ticket[x][p].token # k
  BY <1>5, TokensAssumption DEF NoTicket
<1>8. \E n \in Tokens : n # claim[p].token /\ \A x \in Owners : ticket[x][p].token # n
  BY <1>5, <1>6, <1>7
<1> QED
  BY <1>8 DEF Fresh

LEMMA UptimeInitOK == UptimeInit => UptimeTypeOK
  BY UptimeNumbers, TokensAssumption, InstancesAssumption
  DEF UptimeInit, UptimeTypeOK, ClaimRow, Health, Breaker, Closed, NoClaim, NoTicket, Ticket, Results, Owners

LEMMA IdleOK ==
  ASSUME NEW c \in ClaimRow
  PROVE  /\ Idle(c) \in ClaimRow /\ Idle(c).state = "idle" /\ Idle(c).token = NoToken
         /\ Idle(c).answer = "none" /\ Idle(c).version = 0
<1>1. (CHOOSE h \in Homes : TRUE) \in Owners /\ 0 \in 0..MaxControl /\ 0 \in 0..MaxVersion /\ "none" \in Results
  BY UptimeNumbers DEF Owners, Results
<1> DEFINE home == CHOOSE h \in Homes : TRUE
<1> HIDE DEF home
<1>2. home \in Owners
  BY <1>1 DEF home
<1>3. Idle(c) = [c EXCEPT !.state = "idle", !.token = NoToken, !.live = FALSE, !.result = "none",
                     !.answer = "none", !.control = 0, !.version = 0, !.trial = FALSE, !.owner = home]
  BY DEF Idle, home
<1>4. Idle(c) = [state |-> "idle", token |-> NoToken, control |-> 0, owner |-> home, live |-> FALSE,
                  version |-> 0, trial |-> FALSE, due |-> c.due, confirm |-> c.confirm,
                  affinity |-> c.affinity, result |-> "none", answer |-> "none"]
  BY <1>3 DEF ClaimRow
<1>5. c.due \in BOOLEAN /\ c.confirm \in BOOLEAN /\ c.affinity \in BOOLEAN
  BY DEF ClaimRow
<1> QED
  BY <1>1, <1>2, <1>4, <1>5 DEF ClaimRow

LEMMA SettledOK ==
  ASSUME NEW c \in ClaimRow
  PROVE  /\ Settled(c) \in ClaimRow /\ Settled(c).state = "idle" /\ Settled(c).token = NoToken
         /\ Settled(c).answer = "none" /\ Settled(c).version = 0
  BY IdleOK DEF Settled, ClaimRow
-----------------------------------------------------------------------------
(* What a step leaves alone *)

\* Cardinalities of sets of products.
LEMMA SomeProducts ==
  ASSUME NEW S \in SUBSET Products
  PROVE  /\ IsFiniteSet(S) /\ Cardinality(S) \in Nat
         /\ \A T \in SUBSET S : Cardinality(T) \in Nat /\ Cardinality(T) <= Cardinality(S)
  BY InstancesAssumption, FS_Subset, FS_CardinalityType

\* No claim comes alive.
Calmer ==
  \A p \in Products : claim'[p].state = "claimed" /\ claim'[p].live =>
    claim[p].state = "claimed" /\ claim[p].live /\ claim'[p].owner = claim[p].owner

LEMMA CalmerKeeps ==
  ASSUME Calmer, OneOwnerPerOrigin, LookStands, UNCHANGED picked
  PROVE  OneOwnerPerOrigin' /\ LookStands'
<1>1. OneOwnerPerOrigin'
  BY DEF Calmer, OneOwnerPerOrigin
<1>2. ASSUME NEW o \in Owners, picked'[o].looked, NEW p \in picked'[o].rows PROVE ~Taken(o, p)'
  BY <1>2 DEF Calmer, LookStands, Taken
<1> QED
  BY <1>1, <1>2 DEF LookStands

\* An owner's trial gets no larger by a step that adds nothing to it.
LEMMA TrialKeeps ==
  ASSUME UptimeTypeOK, UptimeTypeOK', NEW o \in Owners, TrialOf(o),
         breaker'[o] = breaker[o], picked'[o].rows \subseteq picked[o].rows,
         Trials(o)' \subseteq Trials(o)
  PROVE  TrialOf(o)'
<1>1. picked[o].rows \in SUBSET Products /\ Trials(o) \in SUBSET Products /\ breaker[o].checks \in Nat
  BY UptimeTypes DEF Trials
<1>2. /\ Cardinality(picked'[o].rows) \in Nat /\ Cardinality(picked[o].rows) \in Nat
      /\ Cardinality(picked'[o].rows) <= Cardinality(picked[o].rows)
  BY <1>1, SomeProducts
<1>3. /\ Cardinality(Trials(o)') \in Nat /\ Cardinality(Trials(o)) \in Nat
      /\ Cardinality(Trials(o)') <= Cardinality(Trials(o))
  BY <1>1, SomeProducts
<1> QED
  BY <1>1, <1>2, <1>3, UptimeNumbers DEF TrialOf

\* The parts of the invariant about rows and tickets, when these do not change.
LEMMA RowsAlone ==
  ASSUME UptimeInv, UNCHANGED <<version, claim, health, ticket, seen>>
  PROVE  /\ \A p \in Products : RowOf(p)' /\ SeenOf(p)' /\ \A o \in Owners : TicketOf(o, p)'
         /\ OneOwnerPerOrigin' /\ \A o \in Owners : Trials(o)' = Trials(o)
         /\ \A o \in Owners, p \in Products : Taken(o, p)' = Taken(o, p)
  BY DEF UptimeInv, RowOf, SeenOf, Uncounted, TicketOf, OneOwnerPerOrigin, Trials, Taken

\* The parts about transactions, when these do not change and no instance gets a ticket.
LEMMA PicksAlone ==
  ASSUME UptimeInv, UptimeTypeOK', UNCHANGED picked,
         \A p \in Products : version'[p] >= version[p],
         \A o \in Owners, p \in Products : ticket[o][p] = NoTicket => ticket'[o][p] = NoTicket
  PROVE  LocksAreApart' /\ \A o \in Owners : PickOf(o)'
<1>1. LocksAreApart'
  BY DEF UptimeInv, LocksAreApart
<1>2. ASSUME NEW o \in Owners PROVE PickOf(o)'
  <2>1. \A p \in Products : picked[o].at[p] \in Nat /\ version[p] \in Nat /\ version'[p] \in Nat
    BY UptimeTypes, UptimeNumbers DEF UptimeInv, UptimeTypeOK
  <2>2. ASSUME NEW p \in Products PROVE picked'[o].at[p] <= version'[p]
    BY <2>1 DEF UptimeInv, PickOf
  <2> QED
    BY <2>2 DEF UptimeInv, PickOf
<1> QED
  BY <1>1, <1>2

-----------------------------------------------------------------------------
(* Claiming *)

LEMMA PickStep ==
  ASSUME UptimeInv, NEW o \in Owners, Pick(o)
  PROVE  UptimeInv'
<1>1. PICK S \in SUBSET {p \in Products \ Locked : Candidate(o, p)} :
        /\ S # {} /\ Cardinality(S) <= Allowance(o)
        /\ picked' = [picked EXCEPT ![o] = [rows |-> S, held |-> FALSE, looked |-> FALSE,
             at |-> [p \in Products |-> IF p \in S THEN version[p] ELSE 0]]]
  BY DEF Pick
<1> DEFINE at == [p \in Products |-> IF p \in S THEN version[p] ELSE 0]
<1>2. UptimeTypeOK /\ UNCHANGED <<control, version, claim, health, breaker, job, ticket, seen>>
  BY DEF UptimeInv, Pick
<1>3. S \in SUBSET Products /\ at \in [Products -> 0..MaxVersion] /\ \A p \in Products : at[p] <= version[p]
  BY <1>1, <1>2, UptimeTypes, UptimeNumbers DEF UptimeTypeOK
<1>4. picked'[o] = [rows |-> S, held |-> FALSE, looked |-> FALSE, at |-> at]
      /\ \A x \in Owners \ {o} : picked'[x] = picked[x]
  BY <1>1, <1>2 DEF UptimeTypeOK
<1> HIDE DEF at
<1>5. UptimeTypeOK'
  BY <1>1, <1>2, <1>3 DEF UptimeTypeOK, at
<1>6. \A p \in Products : ticket[o][p] = NoTicket
  BY DEF Pick
<1>7. ASSUME NEW x \in Owners PROVE PickOf(x)'
  <2>1. CASE x = o
    BY <1>2, <1>3, <1>4, <1>6, <2>1 DEF PickOf
  <2>2. CASE x # o
    BY <1>2, <1>4, <2>2 DEF PickOf, UptimeInv
  <2> QED
    BY <2>1, <2>2
<1>8. LocksAreApart'
  BY <1>4 DEF LocksAreApart, UptimeInv
<1>9. LookStands'
  <2>1. ASSUME NEW x \in Owners, picked'[x].looked, NEW p \in picked'[x].rows PROVE ~Taken(x, p)'
    <3>1. x # o /\ picked[x].looked /\ p \in picked[x].rows /\ p \in Products
      BY <1>2, <1>4, <2>1, UptimeTypes
    <3> QED
      BY <1>2, <3>1, RowsAlone DEF LookStands, UptimeInv
  <2> QED
    BY <2>1 DEF LookStands
<1>10. ASSUME NEW x \in Owners PROVE TrialOf(x)'
  <2>1. CASE x # o
    BY <1>2, <1>4, <1>5, <2>1, RowsAlone, TrialKeeps DEF UptimeInv
  <2>2. CASE x = o /\ breaker[o].state = "probing"
    <3>1. Trials(o) = InFlight(o)
      <4>1. \A p \in Products : claim[p].state = "claimed" => ticket[o][p].token # claim[p].token
        BY <1>6 DEF NoTicket, UptimeInv, RowOf
      <4> QED
        BY <4>1 DEF Trials, InFlight
    <3>2. Cardinality(S) \in Nat /\ Cardinality(InFlight(o)) \in Nat /\ breaker[o].checks \in Nat
      BY <1>2, <1>3, SomeProducts, UptimeTypes DEF InFlight
    <3>3. S # {} => Cardinality(S) # 0
      BY <1>3, SomeProducts, FS_EmptySet
    <3>4. breaker[o].checks + Cardinality(InFlight(o)) + Cardinality(S) <= ProbeSize
      BY <1>1, <2>2, <3>2, <3>3, UptimeNumbers DEF Allowance
    <3> QED
      BY <1>2, <1>4, <2>2, <3>1, <3>2, <3>4, RowsAlone DEF TrialOf
  <2> QED
    BY <1>2, <2>1, <2>2 DEF TrialOf
<1> QED
  BY <1>2, <1>5, <1>7, <1>8, <1>9, <1>10, RowsAlone DEF UptimeInv

\* The two steps in which a transaction drops rows.
LEMMA NarrowStep ==
  ASSUME UptimeInv, NEW o \in Owners, LockOrigins(o) \/ LookAgain(o)
  PROVE  UptimeInv'
<1>1. UptimeTypeOK /\ UNCHANGED <<control, version, claim, health, breaker, job, ticket, seen>>
  BY DEF UptimeInv, LockOrigins, LookAgain
<1>2. picked[o] # NoClaim /\ picked'[o].held = TRUE /\ picked'[o].rows \subseteq picked[o].rows
      /\ picked'[o].at = picked[o].at /\ \A x \in Owners \ {o} : picked'[x] = picked[x]
  <2>1. CASE LockOrigins(o)
    BY <1>1, <2>1 DEF LockOrigins, UptimeTypeOK, NoClaim
  <2>2. CASE LookAgain(o)
    BY <1>1, <2>2 DEF LookAgain, UptimeTypeOK, NoClaim
  <2> QED
    BY <2>1, <2>2
<1>3. UptimeTypeOK'
  <2> DEFINE W == [rows : SUBSET Products, held : BOOLEAN, looked : BOOLEAN, at : [Products -> 0..MaxVersion]]
  <2>1. picked \in [Owners -> W]
    BY <1>1 DEF UptimeTypeOK
  <2>2. picked[o] = [rows |-> picked[o].rows, held |-> picked[o].held, looked |-> picked[o].looked, at |-> picked[o].at]
    BY <2>1
  <2>3. picked'[o] \in W /\ picked' = [picked EXCEPT ![o] = picked'[o]]
    <3>1. CASE LockOrigins(o)
      <4> DEFINE R == {p \in picked[o].rows : OriginOf[p] \notin OriginsHeldBeside(o)}
      <4>1. R \in SUBSET Products
        BY <1>1, UptimeTypes
      <4>2. picked' = [picked EXCEPT ![o].held = TRUE, ![o].rows = R]
        BY <3>1, <2>1 DEF LockOrigins
      <4> HIDE DEF R
      <4>3. picked'[o] = [rows |-> R, held |-> TRUE, looked |-> picked[o].looked, at |-> picked[o].at]
        BY <2>1, <2>2, <4>2
      <4>4. picked' = [picked EXCEPT ![o] = picked'[o]]
        BY <2>1, <4>2
      <4> QED
        BY <2>1, <4>1, <4>3, <4>4
    <3>2. CASE LookAgain(o)
      <4> DEFINE R == {p \in picked[o].rows : ~Taken(o, p)}
      <4>1. R \in SUBSET Products
        BY <1>1, UptimeTypes
      <4>2. picked' = [picked EXCEPT ![o].looked = TRUE, ![o].rows = R]
        BY <3>2, <2>1 DEF LookAgain
      <4> HIDE DEF R
      <4>3. picked'[o] = [rows |-> R, held |-> picked[o].held, looked |-> TRUE, at |-> picked[o].at]
        BY <2>1, <2>2, <4>2
      <4>4. picked' = [picked EXCEPT ![o] = picked'[o]]
        BY <2>1, <4>2
      <4> QED
        BY <2>1, <4>1, <4>3, <4>4
    <3> QED
      BY <3>1, <3>2
  <2>4. picked' \in [Owners -> W]
    BY <2>1, <2>3
  <2> QED
    BY <1>1, <2>4 DEF UptimeTypeOK
<1>4. ASSUME NEW x \in Owners PROVE PickOf(x)'
  <2>1. CASE x = o
    BY <1>1, <1>2, <2>1 DEF PickOf, UptimeInv
  <2>2. CASE x # o
    BY <1>1, <1>2, <2>2 DEF PickOf, UptimeInv
  <2> QED
    BY <2>1, <2>2
<1>5. LocksAreApart'
  <2>1. CASE LockOrigins(o)
    <3>1. \A p \in picked'[o].rows : OriginOf[p] \notin OriginsHeldBeside(o)
      BY <1>1, <2>1 DEF LockOrigins, UptimeTypeOK
    <3>2. ASSUME NEW x \in Owners \ {o}, picked[x].held, NEW q \in picked[x].rows
          PROVE  OriginOf[q] \in OriginsHeldBeside(o)
      BY <3>2 DEF OriginsHeldBeside
    <3> QED
      BY <1>2, <3>1, <3>2 DEF LocksAreApart, UptimeInv
  <2>2. CASE LookAgain(o)
    <3>1. picked[o].held
      BY <2>2 DEF LookAgain
    <3> QED
      BY <1>2, <3>1 DEF LocksAreApart, UptimeInv
  <2> QED
    BY <2>1, <2>2
<1>6. LookStands'
  <2>1. CASE LockOrigins(o)
    <3>1. picked'[o].looked = picked[o].looked /\ ~picked[o].looked
      BY <1>1, <2>1 DEF LockOrigins, UptimeTypeOK, UptimeInv, PickOf
    <3> QED
      BY <1>1, <1>2, <3>1, RowsAlone DEF LookStands, UptimeInv, UptimeTypeOK
  <2>2. CASE LookAgain(o)
    <3>1. \A p \in picked'[o].rows : p \in Products /\ ~Taken(o, p)
      BY <1>1, <2>2 DEF LookAgain, UptimeTypeOK
    <3>2. ASSUME NEW x \in Owners, picked'[x].looked, NEW p \in picked'[x].rows
          PROVE  p \in Products /\ ~Taken(x, p)
      <4>1. CASE x = o
        BY <3>1, <3>2, <4>1
      <4>2. CASE x # o
        BY <1>1, <1>2, <3>2, <4>2, UptimeTypes DEF LookStands, UptimeInv
      <4> QED
        BY <4>1, <4>2
    <3> QED
      BY <1>1, <3>2, RowsAlone DEF LookStands
  <2> QED
    BY <2>1, <2>2
<1>7. ASSUME NEW x \in Owners PROVE TrialOf(x)'
  BY <1>1, <1>2, <1>3, RowsAlone, TrialKeeps DEF UptimeInv
<1> QED
  BY <1>1, <1>3, <1>4, <1>5, <1>6, <1>7, RowsAlone DEF UptimeInv

\* A union is no larger than its parts together.
LEMMA TwoParts ==
  ASSUME NEW S \in SUBSET Products, NEW T \in SUBSET Products, NEW V \in SUBSET (S \cup T)
  PROVE  Cardinality(V) <= Cardinality(S) + Cardinality(T)
<1>1. IsFiniteSet(S) /\ IsFiniteSet(T) /\ IsFiniteSet(S \cup T)
  BY InstancesAssumption, FS_Subset
<1>2. Cardinality(S \cup T) = Cardinality(S) + Cardinality(T) - Cardinality(S \cap T)
  BY <1>1, FS_Union
<1>3. Cardinality(V) <= Cardinality(S \cup T)
  BY <1>1, FS_Subset
<1> QED
  BY <1>2, <1>3, SomeProducts

LEMMA GrantStep ==
  ASSUME UptimeInv, NEW o \in Owners, Grant(o)
  PROVE  UptimeInv'
<1> DEFINE R == picked[o].rows
<1>1. /\ UptimeTypeOK /\ UNCHANGED <<control, version, health, breaker, job, seen>>
      /\ R \in SUBSET Products /\ picked[o].held /\ picked[o].looked
  BY UptimeTypes DEF UptimeInv, Grant, PickOf
<1>2. \A p \in Products : ticket[o][p] = NoTicket
  BY <1>1 DEF UptimeInv, PickOf, NoClaim
<1>3. ASSUME NEW p \in Products
      PROVE  Fresh(p) \in Tokens /\ Fresh(p) # claim[p].token /\ \A x \in Owners : ticket[x][p].token # Fresh(p)
  BY <1>1, <1>2, FreshIsNew
<1>4. ASSUME NEW p \in Products
      PROVE  /\ Granted(o, p) \in ClaimRow /\ Granted(o, p).state = "claimed" /\ Granted(o, p).owner = o
             /\ Granted(o, p).token = Fresh(p) /\ Granted(o, p).answer = "none"
             /\ Granted(o, p).version = picked[o].at[p]
  <2>1. claim[p] \in ClaimRow /\ control.epoch \in 0..MaxControl /\ picked[o].at[p] \in 0..MaxVersion
    BY <1>1, UptimeTypes, UptimeNumbers DEF UptimeTypeOK
  <2>2. (breaker[o].state = "probing") \in BOOLEAN /\ "none" \in Results
    BY DEF Results
  <2> DEFINE probing == breaker[o].state = "probing"
             k == Fresh(p)
             a == picked[o].at[p]
             e == control.epoch
             c == claim[p]
  <2>3. k \in Tokens /\ a \in 0..MaxVersion /\ e \in 0..MaxControl /\ probing \in BOOLEAN
    BY <1>3, <2>1, <2>2
  <2>4. Granted(o, p) = [c EXCEPT !.state = "claimed", !.token = k, !.control = e, !.owner = o,
                           !.live = TRUE, !.version = a, !.trial = probing, !.result = "none", !.answer = "none"]
    BY DEF Granted
  <2> HIDE DEF probing, k, a, e, c
  <2>11. c \in ClaimRow
    BY <2>1 DEF c
  <2>5. Granted(o, p) = [state |-> "claimed", token |-> k, control |-> e, owner |-> o, live |-> TRUE, version |-> a,
                         trial |-> probing, due |-> c.due, confirm |-> c.confirm,
                         affinity |-> c.affinity, result |-> "none", answer |-> "none"]
    BY <2>11, <2>4 DEF ClaimRow
  <2>6. c.due \in BOOLEAN /\ c.confirm \in BOOLEAN /\ c.affinity \in BOOLEAN
    BY <2>1 DEF ClaimRow, c
  <2>7. Granted(o, p) \in ClaimRow
    BY <2>2, <2>3, <2>5, <2>6 DEF ClaimRow
  <2> QED
    BY <2>5, <2>7 DEF k, a
<1>5. /\ \A p \in R : /\ claim'[p] = Granted(o, p)
                     /\ ticket'[o][p].token = Fresh(p) /\ ticket'[o][p].result = "none"
      /\ \A p \in Products \ R : claim'[p] = claim[p] /\ ticket'[o][p] = NoTicket
      /\ \A x \in Owners \ {o} : ticket'[x] = ticket[x]
  BY <1>1 DEF Grant, UptimeTypeOK
<1> HIDE DEF R
<1>6. picked'[o] = NoClaim /\ \A x \in Owners \ {o} : picked'[x] = picked[x]
  BY <1>1 DEF Grant, UptimeTypeOK
<1>7. UptimeTypeOK'
  <2>1. claim' \in [Products -> ClaimRow]
    BY <1>1, <1>4, UptimeTypes DEF Grant
  <2>2. ticket' \in [Owners -> [Products -> Ticket]]
    <3>1. [token |-> NoToken, result |-> "none"] \in Ticket
          /\ \A p \in Products : [token |-> Fresh(p), result |-> "none"] \in Ticket
      BY <1>3 DEF Ticket, Results
    <3>2. [p \in Products |-> IF p \in R THEN [token |-> Fresh(p), result |-> "none"] ELSE NoTicket]
            \in [Products -> Ticket]
      BY <3>1 DEF NoTicket
    <3> QED
      BY <1>1, <3>2 DEF Grant, UptimeTypeOK, R
  <2>3. picked' \in [Owners -> [rows : SUBSET Products, held : BOOLEAN, looked : BOOLEAN,
                                at : [Products -> 0..MaxVersion]]]
    <3>1. [p \in Products |-> 0] \in [Products -> 0..MaxVersion]
      BY UptimeNumbers
    <3> QED
      BY <1>1, <3>1 DEF Grant, UptimeTypeOK, NoClaim
  <2> QED
    BY <1>1, <2>1, <2>2, <2>3 DEF UptimeTypeOK
<1>8. ASSUME NEW x \in Owners PROVE PickOf(x)'
  <2>1. CASE x = o
    BY <1>1, <1>6, <2>1, UptimeTypes DEF PickOf, NoClaim
  <2>2. CASE x # o
    BY <1>1, <1>5, <1>6, <2>2 DEF PickOf, UptimeInv
  <2> QED
    BY <2>1, <2>2
<1>9. LocksAreApart'
  BY <1>6 DEF LocksAreApart, UptimeInv, NoClaim
<1>10. LookStands'
  <2>1. ASSUME NEW x \in Owners, picked'[x].looked, NEW p \in picked'[x].rows, NEW q \in Products,
               OriginOf[q] = OriginOf[p], claim'[q].owner # x, claim'[q].state = "claimed", claim'[q].live
        PROVE  FALSE
    <3>1. x # o /\ picked[x].looked /\ p \in picked[x].rows /\ picked[x].held
      BY <1>6, <2>1 DEF NoClaim, UptimeInv, PickOf
    <3>2. q \notin R
      BY <1>1, <2>1, <3>1 DEF UptimeInv, LocksAreApart, R
    <3> QED
      BY <1>5, <2>1, <3>1, <3>2 DEF UptimeInv, LookStands, Taken
  <2> QED
    BY <2>1 DEF LookStands, Taken
<1>11. OneOwnerPerOrigin'
  <2>1. \A p \in R : ~Taken(o, p)
    BY <1>1 DEF UptimeInv, LookStands, R
  <2>2. ASSUME NEW p \in Products, NEW q \in Products, OriginOf[p] = OriginOf[q],
               claim'[p].state = "claimed", claim'[p].live, claim'[q].state = "claimed", claim'[q].live
        PROVE  claim'[p].owner = claim'[q].owner
    <3>1. CASE p \in R
      BY <1>4, <1>5, <2>1, <2>2, <3>1 DEF Taken
    <3>2. CASE q \in R
      BY <1>4, <1>5, <2>1, <2>2, <3>2 DEF Taken
    <3>3. CASE p \notin R /\ q \notin R
      BY <1>5, <2>2, <3>3 DEF UptimeInv, OneOwnerPerOrigin
    <3> QED
      BY <3>1, <3>2, <3>3
  <2> QED
    BY <2>2 DEF OneOwnerPerOrigin
<1>12. ASSUME NEW x \in Owners PROVE TrialOf(x)'
  <2>1. CASE x = o
    <3>1. Trials(o) \in SUBSET Products /\ Trials(o)' \subseteq Trials(o) \cup R
      <4>1. ASSUME NEW p \in Trials(o)', p \notin R PROVE p \in Trials(o)
        <5>1. p \in Products /\ claim'[p] = claim[p] /\ ticket'[o][p] = NoTicket /\ RowOf(p)
          BY <1>5, <4>1 DEF Trials, UptimeInv
        <5> QED
          BY <4>1, <5>1 DEF Trials, NoTicket, RowOf
      <4> QED
        BY <4>1 DEF Trials
    <3>2. Cardinality(Trials(o)') <= Cardinality(Trials(o)) + Cardinality(R)
      BY <1>1, <3>1, TwoParts
    <3>3. Cardinality(Trials(o)) \in Nat /\ Cardinality(R) \in Nat /\ breaker[o].checks \in Nat
          /\ Cardinality(Trials(o)') \in Nat
      BY <1>1, <3>1, SomeProducts, UptimeTypes
    <3>4. Cardinality(picked'[o].rows) = 0
      BY <1>6, FS_EmptySet DEF NoClaim
    <3>5. ASSUME breaker[o].state = "probing"
          PROVE  breaker[o].checks + Cardinality(Trials(o)) + Cardinality(R) <= ProbeSize
      BY <3>5 DEF UptimeInv, TrialOf, R
    <3> QED
      BY <1>1, <2>1, <3>2, <3>3, <3>4, <3>5, UptimeNumbers DEF TrialOf
  <2>2. CASE x # o
    <3>1. Trials(x)' \subseteq Trials(x)
      BY <1>4, <1>5, <2>2 DEF Trials
    <3> QED
      BY <1>1, <1>6, <1>7, <2>2, <3>1, TrialKeeps DEF UptimeInv
  <2> QED
    BY <2>1, <2>2
<1>13. ASSUME NEW p \in Products PROVE RowOf(p)' /\ SeenOf(p)'
  <2>1. CASE p \in R
    <3>1. claim'[p] = Granted(o, p) /\ picked[o].at[p] <= version[p] /\ Fresh(p) # NoToken
      BY <1>3, <1>5, <2>1, TokensAssumption DEF UptimeInv, PickOf
    <3>2. RowOf(p)'
      BY <1>1, <1>4, <3>1 DEF RowOf, UptimeInv
    <3>3. ~Uncounted(p)' /\ SeenOf(p)
      BY <1>4, <3>1 DEF Uncounted, UptimeInv
    <3>4. health[p].failures \in Nat /\ seen[p] \in Nat
      BY <1>1, UptimeTypes
    <3>5. SeenOf(p)'
      BY <1>1, <3>3, <3>4 DEF SeenOf
    <3> QED
      BY <3>2, <3>5
  <2>2. CASE p \notin R
    BY <1>1, <1>5, <2>2 DEF RowOf, SeenOf, Uncounted, UptimeInv
  <2> QED
    BY <2>1, <2>2
<1>14. ASSUME NEW x \in Owners, NEW p \in Products PROVE TicketOf(x, p)'
  <2>1. CASE x = o
    BY <1>3, <1>4, <1>5, <2>1, TokensAssumption DEF TicketOf, NoTicket
  <2>2. CASE x # o /\ p \in R
    BY <1>3, <1>4, <1>5, <2>2 DEF TicketOf, UptimeInv
  <2>3. CASE x # o /\ p \notin R
    BY <1>5, <2>3 DEF TicketOf, UptimeInv
  <2> QED
    BY <2>1, <2>2, <2>3
<1> QED
  BY <1>7, <1>8, <1>9, <1>10, <1>11, <1>12, <1>13, <1>14 DEF UptimeInv

-----------------------------------------------------------------------------
(* Rows that are let go, lapse or are submitted *)

Cleared(p) ==
  /\ claim'[p].state = "idle" /\ claim'[p].token = NoToken /\ claim'[p].answer = "none"
  /\ claim'[p].version <= claim[p].version
Kept(p) ==
  /\ claim[p].state = "claimed" /\ claim'[p].token = claim[p].token /\ claim'[p].owner = claim[p].owner
  /\ claim'[p].answer = claim[p].answer /\ claim'[p].version = claim[p].version
  /\ claim'[p].trial = claim[p].trial
  /\ \/ claim'[p].state = "claimed" /\ (claim'[p].live => claim[p].live)
     \/ /\ claim'[p].state = "submitted" /\ claim[p].owner \in Probes
        /\ claim'[p].result = claim[p].answer /\ claim[p].answer # "none"
        /\ ticket[claim[p].owner][p].token = claim[p].token
Moved == \A p \in Products : claim'[p] = claim[p] \/ Cleared(p) \/ Kept(p)
FewerTickets == \A o \in Owners, p \in Products : ticket'[o][p] \in {ticket[o][p], NoTicket}

LEMMA RowsMove ==
  ASSUME UptimeInv, UptimeTypeOK', Moved, FewerTickets, UNCHANGED <<version, picked>>,
         \A p \in Products : health'[p].version <= version[p]
  PROVE  /\ LocksAreApart' /\ LookStands' /\ OneOwnerPerOrigin'
         /\ \A o \in Owners : PickOf(o)' /\ Trials(o)' \subseteq {p \in Trials(o) : claim'[p].state # "idle"}
         /\ \A p \in Products : RowOf(p)' /\ (Uncounted(p)' => Uncounted(p))
         /\ \A o \in Owners, p \in Products : TicketOf(o, p)'
<1>1. UptimeTypeOK /\ LookStands /\ OneOwnerPerOrigin /\ Calmer
  BY DEF UptimeInv, Calmer, Moved, Cleared, Kept
<1>2. OneOwnerPerOrigin' /\ LookStands'
  BY <1>1, CalmerKeeps
<1>3. \A p \in Products : version'[p] >= version[p]
  BY <1>1, UptimeTypes
<1>4. LocksAreApart' /\ \A o \in Owners : PickOf(o)'
  BY <1>3, PicksAlone DEF FewerTickets
<1>5. \A p \in Products : RowOf(p) /\ version[p] \in Nat
  BY <1>1, UptimeTypes DEF UptimeInv
<1>6. ASSUME NEW p \in Products PROVE RowOf(p)' /\ (Uncounted(p)' => Uncounted(p))
  <2>1. CASE claim'[p] = claim[p]
    BY <1>5, <2>1 DEF RowOf, Uncounted
  <2>2. CASE Cleared(p)
    <3>1. claim'[p].version \in Nat /\ claim[p].version \in Nat
      BY <1>1, UptimeTypes, UptimeNumbers DEF UptimeTypeOK, ClaimRow
    <3> QED
      BY <1>5, <2>2, <3>1 DEF RowOf, Uncounted, Cleared
  <2>3. CASE Kept(p)
    BY <1>5, <2>3 DEF RowOf, Uncounted, Kept
  <2> QED
    BY <2>1, <2>2, <2>3 DEF Moved
<1>7. ASSUME NEW o \in Owners, NEW p \in Products PROVE TicketOf(o, p)'
  <2>1. TicketOf(o, p) /\ ticket'[o][p] \in {ticket[o][p], NoTicket}
    BY DEF UptimeInv, FewerTickets
  <2>2. CASE claim'[p] = claim[p] \/ Kept(p)
    BY <2>1, <2>2 DEF TicketOf, Kept, NoTicket
  <2>3. CASE Cleared(p)
    BY <2>1, <2>3 DEF TicketOf, Cleared, NoTicket
  <2> QED
    BY <2>2, <2>3 DEF Moved
<1>8. ASSUME NEW o \in Owners, NEW p \in Trials(o)' PROVE p \in Trials(o) /\ claim'[p].state # "idle"
  <2>1. /\ p \in Products /\ claim'[p].owner = o /\ claim'[p].trial /\ claim'[p].state # "idle"
        /\ \/ claim'[p].state = "submitted"
           \/ claim'[p].state = "claimed" /\ (claim'[p].live \/ ticket'[o][p].token = claim'[p].token)
    BY <1>8 DEF Trials
  <2>2. RowOf(p) /\ ticket'[o][p] \in {ticket[o][p], NoTicket}
    BY <1>5, <2>1 DEF FewerTickets
  <2>3. CASE claim'[p] = claim[p]
    BY <2>1, <2>2, <2>3 DEF Trials, RowOf, NoTicket
  <2>4. CASE Kept(p)
    BY <2>1, <2>2, <2>4 DEF Trials, RowOf, NoTicket, Kept
  <2> QED
    BY <2>1, <2>3, <2>4 DEF Moved, Cleared
<1> QED
  BY <1>2, <1>4, <1>6, <1>7, <1>8

LEMMA MoveStep ==
  ASSUME UptimeInv, UptimeTypeOK', Moved, FewerTickets, UNCHANGED <<version, health, breaker, picked, seen>>
  PROVE  UptimeInv'
<1>1. UptimeTypeOK /\ \A p \in Products : health'[p].version <= version[p]
  BY DEF UptimeInv, RowOf
<1>2. ASSUME NEW o \in Owners PROVE TrialOf(o)'
  BY <1>1, RowsMove, TrialKeeps DEF UptimeInv
<1>3. ASSUME NEW p \in Products PROVE SeenOf(p)'
  BY <1>1, RowsMove, UptimeTypes DEF UptimeInv, SeenOf
<1> QED
  BY <1>1, <1>2, <1>3, RowsMove DEF UptimeInv

\* Dropping tickets leaves the others.
LEMMA DropOK ==
  ASSUME UptimeTypeOK, NEW o \in Owners, NEW S, DropTickets(o, S)
  PROVE  FewerTickets /\ ticket' \in [Owners -> [Products -> Ticket]]
<1>1. NoTicket \in Ticket
  BY DEF NoTicket, Ticket, Results
<1>2. [p \in Products |-> IF p \in S THEN NoTicket ELSE ticket[o][p]] \in [Products -> Ticket]
  BY <1>1, UptimeTypes
<1> QED
  BY <1>2 DEF UptimeTypeOK, DropTickets, FewerTickets

LEMMA SubmitStep ==
  ASSUME UptimeInv, NEW o \in Owners, Submit(o)
  PROVE  UptimeInv'
<1>1. /\ claim' = [p \in Products |-> IF p \in Accepted(o) THEN AsSubmitted(o, p) ELSE claim[p]]
      /\ o \in Probes /\ UptimeTypeOK /\ UNCHANGED <<control, version, health, breaker, job, picked, seen>>
  BY DEF Submit, UptimeInv
<1>2. PICK S : DropTickets(o, S)
  BY DEF Submit
<1>3. ASSUME NEW p \in Accepted(o)
      PROVE  AsSubmitted(o, p) \in ClaimRow /\ Kept(p)
  <2> DEFINE c == claim[p]
             r == ticket[o][p].result
  <2>1. p \in Products /\ c \in ClaimRow /\ r \in Results
    BY <1>1, UptimeTypes DEF Ticket, Accepted, Checked
  <2>2. AsSubmitted(o, p) = [c EXCEPT !.state = "submitted", !.live = FALSE, !.result = r]
    BY DEF AsSubmitted
  <2>7. claim'[p] = AsSubmitted(o, p)
    BY <1>1, <1>3, <2>1
  <2>3. c.state = "claimed" /\ c.owner = o /\ c.token = ticket[o][p].token /\ r # "none"
    BY DEF Mine, Accepted, Checked
  <2>4. c.answer = r
    BY <2>1, <2>3 DEF UptimeInv, TicketOf, NoTicket
  <2> HIDE DEF c, r
  <2>5. AsSubmitted(o, p) \in ClaimRow
    BY <2>1, <2>2 DEF ClaimRow
  <2>6. /\ claim'[p].state = "submitted" /\ claim'[p].token = c.token /\ claim'[p].owner = c.owner
        /\ claim'[p].answer = c.answer /\ claim'[p].version = c.version /\ claim'[p].trial = c.trial
        /\ claim'[p].result = r
    BY <2>1, <2>2, <2>7 DEF ClaimRow
  <2> QED
    BY <1>1, <2>1, <2>3, <2>4, <2>5, <2>6 DEF Kept, c, r
<1>4. Moved /\ claim' \in [Products -> ClaimRow]
  BY <1>1, <1>3, UptimeTypes DEF Moved
<1> QED
  BY <1>1, <1>2, <1>4, DropOK, MoveStep DEF UptimeTypeOK

LEMMA ReleaseStep ==
  ASSUME UptimeInv, NEW o \in Owners, Release(o)
  PROVE  UptimeInv'
<1>1. PICK S : /\ claim' = [p \in Products |-> IF p \in S /\ Mine(o, p) THEN Idle(claim[p]) ELSE claim[p]]
               /\ DropTickets(o, S)
  BY DEF Release
<1>2. UptimeTypeOK /\ UNCHANGED <<control, version, health, breaker, job, picked, seen>>
  BY DEF Release, UptimeInv
<1>3. ASSUME NEW p \in Products
      PROVE  claim'[p] \in ClaimRow /\ (claim'[p] = claim[p] \/ Cleared(p))
  <2>1. claim[p] \in ClaimRow
    BY <1>2, UptimeTypes
  <2> QED
    BY <1>1, <1>2, <2>1, IdleOK, UptimeTypes DEF Cleared
<1>4. Moved /\ claim' \in [Products -> ClaimRow]
  BY <1>1, <1>3 DEF Moved
<1> QED
  BY <1>1, <1>2, <1>4, DropOK, MoveStep DEF UptimeTypeOK

LEMMA ForgetStep ==
  ASSUME UptimeInv, NEW o \in Owners, Forget(o)
  PROVE  UptimeInv'
<1>1. UptimeTypeOK /\ UNCHANGED <<control, version, claim, health, breaker, job, picked, seen>>
  BY DEF Forget, UptimeInv
<1>2. DropTickets(o, Products)
  BY DEF Forget, DropTickets
<1> QED
  BY <1>1, <1>2, DropOK, MoveStep DEF UptimeTypeOK, Moved

LEMMA ExpireDueStep ==
  ASSUME UptimeInv, NEW p \in Products, Expire(p) \/ Due(p)
  PROVE  UptimeInv'
<1>1. UptimeTypeOK /\ UNCHANGED <<control, version, health, breaker, job, picked, ticket, seen>>
  BY DEF Expire, Due, UptimeInv, memory
<1> DEFINE c == claim[p]
<1>2. c \in ClaimRow /\ claim \in [Products -> ClaimRow] /\ RowOf(p)
  BY <1>1, UptimeTypes DEF UptimeTypeOK, UptimeInv
<1>3. ASSUME NEW d, d \in ClaimRow, claim' = [claim EXCEPT ![p] = d], d = c \/ Cleared(p) \/ Kept(p)
      PROVE  UptimeInv'
  <2>1. Moved /\ claim' \in [Products -> ClaimRow] /\ FewerTickets
    BY <1>1, <1>2, <1>3 DEF Moved, FewerTickets
  <2> QED
    BY <1>1, <2>1, MoveStep DEF UptimeTypeOK
<1>4. CASE Expire(p)
  <2> DEFINE d == [c EXCEPT !.live = FALSE]
  <2>1. claim' = [claim EXCEPT ![p] = d] /\ c.state = "claimed"
    BY <1>2, <1>4 DEF Expire
  <2> HIDE DEF c
  <2>2. d \in ClaimRow /\ d.state = c.state /\ d.token = c.token /\ d.owner = c.owner /\ d.answer = c.answer
        /\ d.version = c.version /\ d.trial = c.trial /\ d.live = FALSE
    BY <1>2 DEF ClaimRow
  <2> HIDE DEF d
  <2>3. claim'[p] = d
    BY <1>2, <2>1
  <2>4. Kept(p)
    BY <2>1, <2>2, <2>3 DEF Kept, c
  <2> QED
    BY <1>3, <2>1, <2>2, <2>4
<1>5. CASE Due(p)
  <2>1. PICK affinity \in {FALSE, c.affinity} :
          claim' = [claim EXCEPT ![p].due = TRUE, ![p].affinity = affinity]
    BY <1>5 DEF Due
  <2> DEFINE d == [c EXCEPT !.due = TRUE, !.affinity = affinity]
  <2>2. claim' = [claim EXCEPT ![p] = d] /\ c.state = "idle"
    BY <1>2, <1>5, <2>1 DEF Due
  <2>3. c.token = NoToken /\ c.answer = "none"
    BY <1>2, <2>2 DEF RowOf
  <2> HIDE DEF c
  <2>4. d \in ClaimRow /\ d.state = c.state /\ d.token = c.token /\ d.answer = c.answer /\ d.version = c.version
    BY <1>2, <2>1 DEF ClaimRow
  <2> HIDE DEF d
  <2>5. claim'[p] = d
    BY <1>2, <2>2
  <2>6. claim[p].version \in Nat
    BY <1>1, UptimeTypes
  <2>7. Cleared(p)
    BY <2>2, <2>3, <2>4, <2>5, <2>6 DEF Cleared, c
  <2> QED
    BY <1>3, <2>2, <2>4, <2>7
<1> QED
  BY <1>4, <1>5

-----------------------------------------------------------------------------
(* Checking *)

LEMMA CheckStep ==
  ASSUME UptimeInv, NEW o \in Owners, NEW p \in Products, Check(o, p)
  PROVE  UptimeInv'
<1>1. PICK result \in Outcomes :
        /\ ticket' = [ticket EXCEPT ![o][p].result = result]
        /\ IF claim[p].token = ticket[o][p].token
           THEN claim' = [claim EXCEPT ![p].answer = result] ELSE UNCHANGED claim
        /\ IF /\ o \in Homes /\ result = "failed"
              /\ claim[p].token = ticket[o][p].token /\ claim[p].version = version[p]
           THEN seen' = [seen EXCEPT ![p] = @ + 1] ELSE UNCHANGED seen
  BY DEF Check
<1> DEFINE mine == claim[p].token = ticket[o][p].token
<1>2. /\ UptimeTypeOK /\ UNCHANGED <<control, version, health, breaker, job, picked>>
      /\ ticket[o][p] # NoTicket /\ ticket[o][p].result = "none"
  BY DEF UptimeInv, Check
<1>3. result \in Results /\ result # "none"
  BY OutcomesAssumption DEF Results
<1>4. ticket[o][p].token # NoToken /\ RowOf(p) /\ SeenOf(p) /\ \A x \in Owners : TicketOf(x, p)
  BY <1>2 DEF UptimeInv, TicketOf
<1>5. mine => claim[p].owner = o /\ claim[p].answer = "none" /\ claim[p].state = "claimed"
  <2>1. claim[p].state \in {"idle", "claimed", "submitted"}
    BY <1>2, UptimeTypes DEF ClaimRow
  <2> QED
    BY <1>2, <1>4, <2>1 DEF TicketOf, RowOf
<1>6. /\ ticket'[o][p].token = ticket[o][p].token /\ ticket'[o][p].result = result
      /\ \A x \in Owners, q \in Products : x # o \/ q # p => ticket'[x][q] = ticket[x][q]
      /\ ticket' \in [Owners -> [Products -> Ticket]]
  <2>1. ticket \in [Owners -> [Products -> Ticket]]
    BY <1>2 DEF UptimeTypeOK
  <2> QED
    BY <1>1, <1>3, <2>1 DEF Ticket
<1>7. /\ \A q \in Products \ {p} : claim'[q] = claim[q]
      /\ claim'[p] = [claim[p] EXCEPT !.answer = IF mine THEN result ELSE claim[p].answer]
      /\ claim' \in [Products -> ClaimRow]
  <2>1. claim \in [Products -> ClaimRow] /\ claim[p] \in ClaimRow
    BY <1>2 DEF UptimeTypeOK
  <2> DEFINE c == claim[p]
  <2>2. [c EXCEPT !.answer = result] \in ClaimRow /\ [c EXCEPT !.answer = c.answer] = c
    BY <1>3, <2>1 DEF ClaimRow
  <2> QED
    BY <1>1, <2>1, <2>2
<1>8. /\ claim'[p].state = claim[p].state /\ claim'[p].token = claim[p].token /\ claim'[p].owner = claim[p].owner
      /\ claim'[p].version = claim[p].version /\ claim'[p].trial = claim[p].trial /\ claim'[p].live = claim[p].live
      /\ claim'[p].result = claim[p].result
      /\ claim'[p].answer = IF mine THEN result ELSE claim[p].answer
  <2>1. claim[p] \in ClaimRow
    BY <1>2, UptimeTypes
  <2> QED
    BY <1>7, <2>1 DEF ClaimRow
<1>9. /\ seen' \in [Products -> Nat] /\ \A q \in Products \ {p} : seen'[q] = seen[q]
      /\ seen'[p] = IF o \in Homes /\ result = "failed" /\ mine /\ claim[p].version = version[p]
                    THEN seen[p] + 1 ELSE seen[p]
  BY <1>1, <1>2 DEF UptimeTypeOK
<1> HIDE DEF mine
<1>10. UptimeTypeOK'
  BY <1>2, <1>6, <1>7, <1>9 DEF UptimeTypeOK
<1>11. LocksAreApart' /\ \A x \in Owners : PickOf(x)'
  <2>1. \A q \in Products : version'[q] >= version[q]
    BY <1>2, UptimeTypes
  <2>2. \A x \in Owners, q \in Products : ticket[x][q] = NoTicket => ticket'[x][q] = NoTicket
    BY <1>2, <1>6
  <2> QED
    BY <1>2, <1>10, <2>1, <2>2, PicksAlone
<1>12. OneOwnerPerOrigin' /\ LookStands'
  <2>1. Calmer
    BY <1>7, <1>8 DEF Calmer
  <2> QED
    BY <1>2, <2>1, CalmerKeeps DEF UptimeInv
<1>13. ASSUME NEW x \in Owners PROVE TrialOf(x)'
  <2>1. Trials(x)' \subseteq Trials(x)
    <3>1. ASSUME NEW q \in Trials(x)' PROVE q \in Trials(x)
      <4>1. CASE q = p
        BY <1>6, <1>8, <3>1, <4>1 DEF Trials
      <4>2. CASE q # p
        BY <1>6, <1>7, <3>1, <4>2 DEF Trials
      <4> QED
        BY <4>1, <4>2
    <3> QED
      BY <3>1
  <2> QED
    BY <1>2, <1>10, <2>1, TrialKeeps DEF UptimeInv
<1>14. ASSUME NEW q \in Products PROVE RowOf(q)' /\ SeenOf(q)'
  <2>1. CASE q # p
    BY <1>2, <1>7, <1>9, <2>1 DEF UptimeInv, RowOf, SeenOf, Uncounted
  <2>2. CASE q = p
    <3>1. RowOf(p)'
      BY <1>2, <1>4, <1>5, <1>8 DEF RowOf
    <3>2. health[p].failures \in Nat /\ seen[p] \in Nat
      BY <1>2, UptimeTypes
    <3>3. Uncounted(p)' => Uncounted(p) \/ seen'[p] = seen[p] + 1
      BY <1>2, <1>5, <1>8, <1>9 DEF Uncounted
    <3>4. ~Uncounted(p) \/ seen'[p] = seen[p]
      BY <1>5, <1>9 DEF Uncounted
    <3>5. seen'[p] = seen[p] \/ seen'[p] = seen[p] + 1
      BY <1>9
    <3>6. SeenOf(p)'
      BY <1>2, <1>4, <3>2, <3>3, <3>4, <3>5 DEF SeenOf
    <3> QED
      BY <2>2, <3>1, <3>6
  <2> QED
    BY <2>1, <2>2
<1>15. ASSUME NEW x \in Owners, NEW q \in Products PROVE TicketOf(x, q)'
  <2>1. CASE q # p
    BY <1>6, <1>7, <2>1 DEF UptimeInv, TicketOf
  <2>2. CASE q = p /\ x = o
    BY <1>4, <1>5, <1>6, <1>8, <2>2 DEF TicketOf, mine
  <2>3. CASE q = p /\ x # o
    BY <1>4, <1>5, <1>6, <1>8, <2>3 DEF TicketOf, mine
  <2> QED
    BY <2>1, <2>2, <2>3
<1> QED
  BY <1>10, <1>11, <1>12, <1>13, <1>14, <1>15 DEF UptimeInv

-----------------------------------------------------------------------------
(* The world *)

LEMMA CoolStep ==
  ASSUME UptimeInv, NEW o \in Owners, Cool(o)
  PROVE  UptimeInv'
<1>1. /\ UptimeTypeOK /\ UNCHANGED <<control, version, health, job, picked, ticket, seen>>
      /\ picked[o].rows = {} /\ breaker' = [breaker EXCEPT ![o] = [state |-> "probing", checks |-> 0]]
      /\ claim' = [p \in Products |-> IF claim[p].owner = o THEN [claim[p] EXCEPT !.trial = FALSE] ELSE claim[p]]
  BY DEF Cool, UptimeInv, memory
<1>2. ASSUME NEW p \in Products
      PROVE  /\ claim'[p] \in ClaimRow
             /\ claim'[p].state = claim[p].state /\ claim'[p].token = claim[p].token /\ claim'[p].owner = claim[p].owner
             /\ claim'[p].version = claim[p].version /\ claim'[p].live = claim[p].live
             /\ claim'[p].result = claim[p].result /\ claim'[p].answer = claim[p].answer
             /\ claim'[p].trial = (claim[p].trial /\ claim[p].owner # o)
  <2> DEFINE c == claim[p]
  <2>1. c \in ClaimRow /\ claim'[p] = IF c.owner = o THEN [c EXCEPT !.trial = FALSE] ELSE c
    BY <1>1, UptimeTypes
  <2> HIDE DEF c
  <2>2. [c EXCEPT !.trial = FALSE] \in ClaimRow
    BY <2>1 DEF ClaimRow
  <2>3. CASE c.owner = o
    BY <2>1, <2>2, <2>3 DEF ClaimRow, c
  <2>4. CASE c.owner # o
    BY <2>1, <2>4 DEF ClaimRow, c
  <2> QED
    BY <2>3, <2>4
<1>3. UptimeTypeOK'
  <2>1. claim' \in [Products -> ClaimRow]
    BY <1>1, <1>2
  <2>2. [state |-> "probing", checks |-> 0] \in Breaker
    BY UptimeNumbers DEF Breaker
  <2> QED
    BY <1>1, <2>1, <2>2 DEF UptimeTypeOK
<1>4. LocksAreApart' /\ \A x \in Owners : PickOf(x)'
  <2>1. \A q \in Products : version'[q] >= version[q]
    BY <1>1, UptimeTypes
  <2> QED
    BY <1>1, <1>3, <2>1, PicksAlone
<1>5. OneOwnerPerOrigin' /\ LookStands'
  <2>1. Calmer
    BY <1>2 DEF Calmer
  <2> QED
    BY <1>1, <2>1, CalmerKeeps DEF UptimeInv
<1>6. ASSUME NEW x \in Owners PROVE TrialOf(x)'
  <2>1. CASE x = o
    <3>1. Trials(o)' = {} /\ picked'[o].rows = {}
      BY <1>1, <1>2 DEF Trials
    <3>2. breaker'[o].checks = 0
      BY <1>1 DEF UptimeTypeOK
    <3> QED
      BY <2>1, <3>1, <3>2, FS_EmptySet, UptimeNumbers DEF TrialOf
  <2>2. CASE x # o
    <3>1. Trials(x)' \subseteq Trials(x)
      BY <1>1, <1>2 DEF Trials
    <3>2. breaker'[x] = breaker[x]
      BY <1>1, <2>2 DEF UptimeTypeOK
    <3> QED
      BY <1>1, <1>3, <3>1, <3>2, TrialKeeps DEF UptimeInv
  <2> QED
    BY <2>1, <2>2
<1>7. ASSUME NEW p \in Products PROVE RowOf(p)' /\ SeenOf(p)' /\ \A x \in Owners : TicketOf(x, p)'
  <2>1. RowOf(p) /\ SeenOf(p) /\ \A x \in Owners : TicketOf(x, p)
    BY DEF UptimeInv
  <2> QED
    BY <1>1, <1>2, <2>1 DEF RowOf, SeenOf, Uncounted, TicketOf
<1> QED
  BY <1>3, <1>4, <1>5, <1>6, <1>7 DEF UptimeInv

LEMMA EditStep ==
  ASSUME UptimeInv, NEW p \in Products, Edit(p)
  PROVE  UptimeInv'
<1>1. /\ UptimeTypeOK /\ UNCHANGED <<control, claim, health, breaker, job, picked, ticket>>
      /\ version' = [version EXCEPT ![p] = @ + 1] /\ seen' = [seen EXCEPT ![p] = 0] /\ version[p] < MaxVersion
  BY DEF Edit, UptimeInv, memory
<1>2. UptimeTypeOK'
  <2>1. version[p] + 1 \in 1..MaxVersion
    BY <1>1, UptimeTypes, UptimeNumbers
  <2> QED
    BY <1>1, <2>1 DEF UptimeTypeOK
<1>3. \A q \in Products : /\ version'[q] = IF q = p THEN version[q] + 1 ELSE version[q]
                          /\ seen'[q] = IF q = p THEN 0 ELSE seen[q]
  BY <1>1 DEF UptimeTypeOK
<1>4. \A q \in Products : /\ version[q] \in Nat /\ seen[q] \in Nat /\ health[q].failures \in Nat
                          /\ health[q].version \in Nat /\ claim[q].version \in Nat
  BY <1>1, UptimeTypes
<1>5. LocksAreApart' /\ \A x \in Owners : PickOf(x)'
  <2>1. \A q \in Products : version'[q] >= version[q]
    BY <1>3, <1>4
  <2> QED
    BY <1>1, <1>2, <2>1, PicksAlone
<1>6. OneOwnerPerOrigin' /\ LookStands' /\ \A x \in Owners : Trials(x)' = Trials(x)
  BY <1>1 DEF UptimeInv, OneOwnerPerOrigin, LookStands, Taken, Trials
<1>7. ASSUME NEW x \in Owners PROVE TrialOf(x)'
  BY <1>1, <1>6 DEF UptimeInv, TrialOf
<1>8. ASSUME NEW q \in Products PROVE RowOf(q)' /\ SeenOf(q)'
  <2>1. RowOf(q) /\ SeenOf(q)
    BY DEF UptimeInv
  <2>2. CASE q = p
    BY <1>1, <1>3, <1>4, <2>1, <2>2 DEF RowOf, SeenOf, Uncounted
  <2>3. CASE q # p
    BY <1>1, <1>3, <2>1, <2>3 DEF RowOf, SeenOf, Uncounted
  <2> QED
    BY <2>2, <2>3
<1>9. ASSUME NEW x \in Owners, NEW q \in Products PROVE TicketOf(x, q)'
  BY <1>1 DEF UptimeInv, TicketOf
<1> QED
  BY <1>2, <1>5, <1>6, <1>7, <1>8, <1>9 DEF UptimeInv

\* The split's mode and the job's holder are no part of the argument.
LEMMA HomeOrControlStep ==
  ASSUME UptimeInv, SetControl \/ \E h \in Homes : TakeJob(h)
  PROVE  UptimeInv'
<1>1. UptimeTypeOK /\ UNCHANGED <<version, claim, health, breaker, picked, ticket, seen>>
  BY DEF UptimeInv, SetControl, TakeJob, memory
<1>2. UptimeTypeOK'
  <2>1. CASE SetControl
    <3>1. PICK mode \in {"claims", "legacy"} : control' = [mode |-> mode, epoch |-> control.epoch + 1]
      BY <2>1 DEF SetControl
    <3>2. control.epoch \in 1..MaxControl /\ control.epoch < MaxControl /\ job' = job
      BY <1>1, <2>1 DEF SetControl, UptimeTypeOK
    <3>3. control.epoch + 1 \in 1..MaxControl
      BY <3>2, UptimeNumbers
    <3> QED
      BY <1>1, <3>1, <3>2, <3>3 DEF UptimeTypeOK
  <2>2. CASE \E h \in Homes : TakeJob(h)
    BY <1>1, <2>2 DEF TakeJob, UptimeTypeOK
  <2> QED
    BY <2>1, <2>2
<1>3. Moved /\ FewerTickets
  BY <1>1 DEF Moved, FewerTickets
<1> QED
  BY <1>1, <1>2, <1>3, MoveStep

-----------------------------------------------------------------------------
(* Applying *)

\* What the results r of S have to be for the home to apply them: seen under the
\* claim the row carries, which is submitted or still known to its owner.
Sound(S, r) ==
  \A p \in Current(S, r) :
    /\ claim[p].answer = r[p].result /\ r[p].result # "none"
    /\ \/ claim[p].state = "submitted"
       \/ claim[p].state = "claimed" /\ ticket[claim[p].owner][p].token = claim[p].token

LEMMA ClaimAfterOK ==
  ASSUME UptimeTypeOK, NEW p \in Products, NEW result, NEW countable \in BOOLEAN
  PROVE  /\ ClaimAfter(p, result, countable) \in ClaimRow
         /\ ClaimAfter(p, result, countable).state = "idle" /\ ClaimAfter(p, result, countable).token = NoToken
         /\ ClaimAfter(p, result, countable).answer = "none" /\ ClaimAfter(p, result, countable).version = 0
<1> DEFINE c == claim[p]
<1>1. c \in ClaimRow
  BY UptimeTypes
<1>2. c.confirm \in BOOLEAN /\ (c.owner \in Homes) \in BOOLEAN
  BY <1>1 DEF ClaimRow
<1> HIDE DEF c
<1>3. CASE result = "ok"
  <2> DEFINE d == Settled(c)
             e == c.confirm /\ c.owner \in Homes
  <2>1. d \in ClaimRow /\ d.state = "idle" /\ d.token = NoToken /\ d.answer = "none" /\ d.version = 0
    BY <1>1, SettledOK
  <2>2. e \in BOOLEAN
    BY <1>2
  <2>3. ClaimAfter(p, result, countable) = [d EXCEPT !.affinity = @ \/ e]
    BY <1>3 DEF ClaimAfter, c
  <2> HIDE DEF d, e
  <2> QED
    BY <2>1, <2>2, <2>3 DEF ClaimRow
<1>4. CASE result # "ok" /\ c.owner \in Probes
  <2> DEFINE d == Idle(c)
  <2>1. d \in ClaimRow /\ d.state = "idle" /\ d.token = NoToken /\ d.answer = "none" /\ d.version = 0
    BY <1>1, IdleOK
  <2>2. ClaimAfter(p, result, countable) = IF countable THEN [d EXCEPT !.due = TRUE, !.confirm = TRUE] ELSE d
    BY <1>4 DEF ClaimAfter, c
  <2> HIDE DEF d
  <2>3. [d EXCEPT !.due = TRUE, !.confirm = TRUE] \in ClaimRow
    BY <2>1 DEF ClaimRow
  <2>4. CASE countable
    BY <2>1, <2>2, <2>3, <2>4 DEF ClaimRow
  <2>5. CASE ~countable
    BY <2>1, <2>2, <2>5
  <2> QED
    BY <2>4, <2>5
<1>5. CASE result # "ok" /\ c.owner \notin Probes
  <2>1. ClaimAfter(p, result, countable) = Settled(c)
    BY <1>5 DEF ClaimAfter, c
  <2> QED
    BY <1>1, <2>1, SettledOK
<1> QED
  BY <1>3, <1>4, <1>5

\* The health row written for a result seen under the present claim.
LEMMA HealthAfterOK ==
  ASSUME UptimeTypeOK, NEW p \in Products, RowOf(p), SeenOf(p), NEW countable \in BOOLEAN,
         claim[p].version = version[p], NEW result, claim[p].answer = result
  PROVE  /\ HealthAfter(p, result, countable) \in Health
         /\ HealthAfter(p, result, countable).version <= version[p]
         /\ HealthAfter(p, result, countable).version = version[p] =>
              HealthAfter(p, result, countable).failures <= IF result = "ok" THEN 0 ELSE seen[p]
<1>1. /\ version[p] \in 1..MaxVersion /\ version[p] \in 0..MaxVersion /\ health[p] \in Health
      /\ health[p].failures \in Nat /\ health[p].version \in Nat /\ seen[p] \in Nat /\ health[p].version <= version[p]
  BY UptimeTypes, UptimeNumbers DEF RowOf
<1>2. Failures(p) \in Nat /\ Failures(p) >= 1 /\ Failures(p) - 1 \in Nat
  BY <1>1 DEF Failures
<1>3. CASE result = "ok"
  <2>1. HealthAfter(p, result, countable) = [failures |-> 0, version |-> version[p]]
    BY <1>3 DEF HealthAfter, Counts
  <2> QED
    BY <1>1, <1>3, <2>1 DEF Health
<1>4. CASE result # "ok" /\ Counts(p, result, countable)
  <2>1. HealthAfter(p, result, countable) = [failures |-> Failures(p), version |-> version[p]]
    BY <1>4 DEF HealthAfter, Counts
  <2>2. Uncounted(p)
    BY <1>4 DEF Counts, Uncounted
  <2>3. Failures(p) <= seen[p]
    BY <1>1, <2>2 DEF SeenOf, Failures
  <2> QED
    BY <1>1, <1>2, <1>4, <2>1, <2>3 DEF Health
<1>5. CASE result = "unknown" /\ claim[p].owner \in Homes /\ ~Counts(p, result, countable)
  <2>1. HealthAfter(p, result, countable) = [failures |-> Failures(p) - 1, version |-> version[p]]
    BY <1>5 DEF HealthAfter, Counts
  <2>2. Failures(p) - 1 <= seen[p]
    BY <1>1 DEF SeenOf, Failures
  <2> QED
    BY <1>1, <1>2, <1>5, <2>1, <2>2 DEF Health
<1>6. CASE result # "ok" /\ ~Counts(p, result, countable) /\ ~(result = "unknown" /\ claim[p].owner \in Homes)
  <2>1. HealthAfter(p, result, countable) = health[p]
    BY <1>6 DEF HealthAfter
  <2> QED
    BY <1>1, <1>6, <2>1 DEF SeenOf
<1> QED
  BY <1>3, <1>4, <1>5, <1>6

\* The trial results among those applied.
TrialIn(rows) == {p \in rows : claim[p].trial}

\* A breaker that goes on probing has counted the trial results it was given.
Counted(o, rows, b) ==
  /\ b \in Breaker
  /\ b.state = "probing" => /\ breaker[o].state = "probing"
                            /\ b.checks = breaker[o].checks + Cardinality(TrialIn(rows))

LEMMA BreakerAfterOK ==
  ASSUME UptimeTypeOK, NEW o \in Owners, NEW rows \in SUBSET Products, NEW r, NEW trips
  PROVE  Counted(o, rows, BreakerAfter(o, rows, r, trips))
<1> DEFINE trial == TrialIn(rows)
           b == breaker[o]
           checks == b.checks + Cardinality(trial)
           opened == [Closed EXCEPT !.state = "open"]
<1>1. b \in Breaker /\ b.checks \in Nat /\ Cardinality(trial) \in Nat /\ checks \in Nat
  BY UptimeTypes, SomeProducts DEF TrialIn
<1>2. Closed \in Breaker /\ opened \in Breaker /\ Closed.state = "closed" /\ opened.state = "open"
  BY UptimeNumbers DEF Closed, Breaker
<1>3. BreakerAfter(o, rows, r, trips) =
        CASE b.state = "closed" -> IF o \in trips THEN opened ELSE Closed
          [] b.state = "open"   -> b
          [] OTHER -> IF \E p \in trial : r[p].result # "ok" THEN opened
                      ELSE IF checks >= ProbeSize THEN Closed ELSE [b EXCEPT !.checks = checks]
  BY DEF BreakerAfter, TrialIn
<1> HIDE DEF trial, opened, b, checks
<1>4. b.state \in {"closed", "open", "probing"}
  BY <1>1 DEF Breaker
<1>5. ~(checks >= ProbeSize) => [b EXCEPT !.checks = checks] \in Breaker /\ [b EXCEPT !.checks = checks].checks = checks
  BY <1>1, UptimeNumbers DEF Breaker
<1>6. /\ BreakerAfter(o, rows, r, trips) \in Breaker
      /\ BreakerAfter(o, rows, r, trips).state = "probing" =>
           /\ breaker[o].state = "probing"
           /\ BreakerAfter(o, rows, r, trips).checks = breaker[o].checks + Cardinality(TrialIn(rows))
  <2>1. CASE b.state = "closed"
    BY <1>2, <1>3, <2>1
  <2>2. CASE b.state = "open"
    BY <1>1, <1>3, <2>2
  <2>3. CASE b.state = "probing"
    <3>1. \/ BreakerAfter(o, rows, r, trips) \in {opened, Closed}
          \/ ~(checks >= ProbeSize) /\ BreakerAfter(o, rows, r, trips) = [b EXCEPT !.checks = checks]
      BY <1>3, <2>3
    <3> QED
      BY <1>2, <1>5, <2>3, <3>1 DEF b, trial, checks
  <2> QED
    BY <1>4, <2>1, <2>2, <2>3
<1> QED
  BY <1>6 DEF Counted

LEMMA ApplyStep ==
  ASSUME UptimeInv, NEW S \in SUBSET Products, NEW r, Sound(S, r), ApplyResults(S, r),
         FewerTickets, ticket' \in [Owners -> [Products -> Ticket]],
         UNCHANGED <<control, version, job, picked>>
  PROVE  UptimeInv'
<1> DEFINE rows == Judged(S, r)
           of(o) == {p \in rows : claim[p].owner = o}
           bad == {o \in Owners : \E p \in of(o) : r[p].result # "ok"}
<1>1. PICK trips \in SUBSET {o \in bad \cap Tripping : breaker[o].state = "closed"} :
        LET countable(p) == breaker[claim[p].owner].state = "closed" /\ claim[p].owner \notin trips IN
        /\ claim' = [p \in Products |->
             IF p \in rows THEN ClaimAfter(p, r[p].result, countable(p))
             ELSE IF p \in Current(S, r) THEN Idle(claim[p]) ELSE claim[p]]
        /\ health' = [p \in Products |->
             IF p \in rows THEN HealthAfter(p, r[p].result, countable(p)) ELSE health[p]]
        /\ breaker' = [o \in Owners |-> BreakerAfter(o, of(o), r, trips)]
        /\ seen' = [p \in Products |-> IF p \in rows /\ r[p].result = "ok" THEN 0 ELSE seen[p]]
  BY DEF ApplyResults
<1> DEFINE countable(p) == breaker[claim[p].owner].state = "closed" /\ claim[p].owner \notin trips
<1>2. UptimeTypeOK
  BY DEF UptimeInv
<1>3. rows \subseteq Current(S, r) /\ Current(S, r) \subseteq Products
  BY DEF Judged, Current
<1>4. \A p \in rows : claim[p].version = version[p] /\ claim[p].answer = r[p].result
  BY <1>3 DEF Judged, Sound
<1>5. \A p \in Products : /\ RowOf(p) /\ SeenOf(p) /\ claim[p] \in ClaimRow /\ health[p] \in Health
                          /\ claim[p].version \in Nat /\ seen[p] \in Nat /\ health[p].failures \in Nat
  BY <1>2, UptimeTypes DEF UptimeInv
<1>6. \A p \in Products :
        /\ claim'[p] = IF p \in rows THEN ClaimAfter(p, r[p].result, countable(p))
                       ELSE IF p \in Current(S, r) THEN Idle(claim[p]) ELSE claim[p]
        /\ health'[p] = IF p \in rows THEN HealthAfter(p, r[p].result, countable(p)) ELSE health[p]
        /\ seen'[p] = IF p \in rows /\ r[p].result = "ok" THEN 0 ELSE seen[p]
  BY <1>1
<1>7. \A o \in Owners : breaker'[o] = BreakerAfter(o, of(o), r, trips) /\ of(o) \in SUBSET Products
  BY <1>1, <1>3
<1>8. /\ claim' = [p \in Products |-> claim'[p]] /\ health' = [p \in Products |-> health'[p]]
      /\ breaker' = [o \in Owners |-> breaker'[o]] /\ seen' = [p \in Products |-> seen'[p]]
  BY <1>1
<1>9. \A p \in Products : countable(p) \in BOOLEAN
  OBVIOUS
<1> HIDE DEF rows, countable, of
<1>10. ASSUME NEW p \in Products
       PROVE  /\ claim'[p] \in ClaimRow
              /\ p \in Current(S, r) => claim'[p].state = "idle" /\ claim'[p].token = NoToken
                                        /\ claim'[p].answer = "none" /\ claim'[p].version = 0
              /\ p \notin Current(S, r) => claim'[p] = claim[p]
  BY <1>2, <1>3, <1>5, <1>6, <1>9, ClaimAfterOK, IdleOK
<1>11. ASSUME NEW p \in Products
       PROVE  /\ health'[p] \in Health /\ health'[p].version <= version[p] /\ seen'[p] \in Nat
              /\ p \notin rows => health'[p] = health[p] /\ seen'[p] = seen[p]
              /\ p \in rows /\ health'[p].version = version[p] => health'[p].failures <= seen'[p]
  <2>1. CASE p \notin rows
    BY <1>5, <1>6, <2>1 DEF RowOf
  <2>2. CASE p \in rows
    <3> DEFINE result == r[p].result
               k == countable(p)
               H == HealthAfter(p, result, k)
    <3>1. k \in BOOLEAN /\ claim[p].answer = result /\ claim[p].version = version[p]
      BY <1>4, <1>9, <2>2
    <3> HIDE DEF k, result
    <3>2. H \in Health /\ H.version <= version[p]
          /\ (H.version = version[p] => H.failures <= IF result = "ok" THEN 0 ELSE seen[p])
      BY <1>2, <1>5, <3>1, HealthAfterOK
    <3>3. health'[p] = H /\ seen'[p] = IF result = "ok" THEN 0 ELSE seen[p]
      BY <1>6, <2>2 DEF k, result
    <3> QED
      BY <1>5, <2>2, <3>2, <3>3
  <2> QED
    BY <2>1, <2>2
<1>12. ASSUME NEW o \in Owners PROVE Counted(o, of(o), breaker'[o])
  <2>1. of(o) \in SUBSET Products /\ breaker'[o] = BreakerAfter(o, of(o), r, trips)
    BY <1>7
  <2>2. Counted(o, of(o), BreakerAfter(o, of(o), r, trips))
    BY <1>2, <2>1, BreakerAfterOK
  <2> QED
    BY <2>1, <2>2
<1>13. UptimeTypeOK'
  <2>1. claim' \in [Products -> ClaimRow]
    BY <1>8, <1>10
  <2>2. health' \in [Products -> Health] /\ seen' \in [Products -> Nat]
    BY <1>8, <1>11
  <2>3. breaker' \in [Owners -> Breaker]
    BY <1>8, <1>12 DEF Counted
  <2> QED
    BY <1>2, <2>1, <2>2, <2>3 DEF UptimeTypeOK
<1>14. Moved
  <2>1. ASSUME NEW p \in Products PROVE claim'[p] = claim[p] \/ Cleared(p)
    BY <1>5, <1>10 DEF Cleared
  <2> QED
    BY <2>1 DEF Moved
<1>15. /\ LocksAreApart' /\ LookStands' /\ OneOwnerPerOrigin'
       /\ \A o \in Owners : PickOf(o)' /\ Trials(o)' \subseteq {p \in Trials(o) : claim'[p].state # "idle"}
       /\ \A p \in Products : RowOf(p)' /\ (Uncounted(p)' => Uncounted(p))
       /\ \A o \in Owners, p \in Products : TicketOf(o, p)'
  BY <1>11, <1>13, <1>14, RowsMove
<1>16. ASSUME NEW p \in Products PROVE SeenOf(p)'
  <2>1. CASE p \notin rows
    BY <1>5, <1>11, <1>15, <2>1 DEF SeenOf
  <2>2. CASE p \in rows
    <3>1. ~Uncounted(p)' /\ seen'[p] \in Nat
      BY <1>3, <1>10, <1>11, <2>2 DEF Uncounted
    <3>2. health'[p].failures \in Nat
      BY <1>11 DEF Health
    <3> QED
      BY <1>11, <2>2, <3>1, <3>2 DEF SeenOf
  <2> QED
    BY <2>1, <2>2
<1>17. ASSUME NEW o \in Owners PROVE TrialOf(o)'
  <2> DEFINE T == TrialIn(of(o))
  <2>1. Trials(o) \in SUBSET Products /\ T \in SUBSET Trials(o) /\ Trials(o)' \in SUBSET (Trials(o) \ T)
    <3>1. ASSUME NEW p \in T PROVE p \in Trials(o) /\ p \notin Trials(o)'
      <4>1. p \in rows /\ p \in Current(S, r) /\ p \in Products /\ claim[p].owner = o /\ claim[p].trial
        BY <1>3 DEF of, TrialIn
      <4>2. claim'[p].state = "idle"
        BY <1>10, <4>1
      <4> QED
        BY <1>15, <4>1, <4>2 DEF Trials, Sound
    <3> QED
      BY <1>15, <3>1 DEF Trials
  <2>2. Cardinality(Trials(o) \ T) = Cardinality(Trials(o)) - Cardinality(T)
    <3>1. IsFiniteSet(Trials(o)) /\ Trials(o) \cap T = T
      BY <2>1, SomeProducts
    <3> QED
      BY <2>1, <3>1, FS_Difference
  <2>3. Cardinality(Trials(o)') <= Cardinality(Trials(o) \ T)
    BY <2>1, SomeProducts
  <2>4. /\ Cardinality(T) \in Nat /\ Cardinality(Trials(o)) \in Nat /\ Cardinality(Trials(o)') \in Nat
        /\ breaker[o].checks \in Nat /\ Cardinality(picked[o].rows) \in Nat
    BY <1>2, <2>1, SomeProducts, UptimeTypes
  <2>5. TrialOf(o)
    BY DEF UptimeInv
  <2> HIDE DEF T
  <2>6. breaker'[o].state = "probing" => breaker[o].state = "probing"
                                        /\ breaker'[o].checks = breaker[o].checks + Cardinality(T)
    BY <1>12 DEF T, Counted
  <2> QED
    BY <2>2, <2>3, <2>4, <2>5, <2>6, UptimeNumbers DEF TrialOf
<1> QED
  BY <1>13, <1>15, <1>16, <1>17 DEF UptimeInv

LEMMA ApplySubmittedStep ==
  ASSUME UptimeInv, NEW h \in Homes, ApplySubmitted(h)
  PROVE  UptimeInv'
<1> DEFINE r == [p \in Products |-> [token |-> claim[p].token, result |-> claim[p].result]]
<1>1. PICK S \in SUBSET {p \in Products \ Locked : claim[p].state = "submitted"} : ApplyResults(S, r)
  BY DEF ApplySubmitted
<1>2. UptimeTypeOK /\ UNCHANGED <<control, version, job, picked, ticket>> /\ S \in SUBSET Products
  BY DEF UptimeInv, ApplySubmitted, memory
<1>3. Sound(S, r)
  <2>1. ASSUME NEW p \in S PROVE claim[p].answer = r[p].result /\ r[p].result # "none" /\ claim[p].state = "submitted"
    BY DEF UptimeInv, RowOf
  <2> QED
    BY <2>1 DEF Sound, Current
<1>4. FewerTickets /\ ticket' \in [Owners -> [Products -> Ticket]]
  BY <1>2 DEF FewerTickets, UptimeTypeOK
<1> HIDE DEF r
<1> QED
  BY <1>1, <1>2, <1>3, <1>4, ApplyStep

LEMMA ApplyOwnStep ==
  ASSUME UptimeInv, NEW h \in Homes, ApplyOwn(h)
  PROVE  UptimeInv'
<1> DEFINE S == Checked(h)
           r == ticket[h]
<1>1. /\ UptimeTypeOK /\ UNCHANGED <<control, version, job, picked>> /\ S \in SUBSET Products /\ h \in Owners
      /\ ApplyResults(S, r) /\ DropTickets(h, S)
  BY DEF UptimeInv, ApplyOwn, Checked, Owners
<1>2. Sound(S, r)
  <2>1. ASSUME NEW p \in Current(S, r)
        PROVE  claim[p].answer = r[p].result /\ r[p].result # "none" /\ claim[p].owner = h
               /\ claim[p].state \in {"claimed", "submitted"} /\ claim[p].token = r[p].token
    <3>1. p \in Products /\ claim[p].state # "idle" /\ claim[p].token = r[p].token /\ r[p].result # "none"
      BY DEF Current, Checked
    <3>2. TicketOf(h, p) /\ RowOf(p) /\ claim[p] \in ClaimRow
      BY <1>1, <3>1, UptimeTypes DEF UptimeInv
    <3>3. claim[p].state \in {"idle", "claimed", "submitted"}
      BY <3>2 DEF ClaimRow
    <3>4. claim[p].token # NoToken
      BY <3>1, <3>2 DEF RowOf
    <3> QED
      BY <3>1, <3>2, <3>3, <3>4 DEF TicketOf
  <2> QED
    BY <2>1 DEF Sound
<1> HIDE DEF S, r
<1> QED
  BY <1>1, <1>2, DropOK, ApplyStep

-----------------------------------------------------------------------------
(* The invariant *)

LEMMA UptimeInitInv == UptimeInit => UptimeInv
<1> SUFFICES ASSUME UptimeInit PROVE UptimeInv
  OBVIOUS
<1>1. UptimeTypeOK
  BY UptimeInitOK
<1>2. LocksAreApart /\ LookStands /\ OneOwnerPerOrigin
  BY DEF UptimeInit, LocksAreApart, LookStands, OneOwnerPerOrigin, NoClaim
<1>3. ASSUME NEW o \in Owners PROVE PickOf(o) /\ TrialOf(o)
  BY <1>3 DEF UptimeInit, PickOf, TrialOf, NoClaim, Closed
<1>4. ASSUME NEW p \in Products PROVE RowOf(p) /\ SeenOf(p)
  BY <1>4 DEF UptimeInit, RowOf, SeenOf, Uncounted
<1>5. ASSUME NEW o \in Owners, NEW p \in Products PROVE TicketOf(o, p)
  BY <1>5 DEF UptimeInit, TicketOf, NoTicket
<1> QED
  BY <1>1, <1>2, <1>3, <1>4, <1>5 DEF UptimeInv

LEMMA UptimeNextInv == UptimeInv /\ [UptimeNext]_uptimeVars => UptimeInv'
<1> SUFFICES ASSUME UptimeInv, [UptimeNext]_uptimeVars PROVE UptimeInv'
  OBVIOUS
<1>1. ASSUME NEW o \in Owners, Pick(o) \/ LockOrigins(o) \/ LookAgain(o) \/ Grant(o) PROVE UptimeInv'
  BY <1>1, PickStep, NarrowStep, GrantStep
<1>2. ASSUME NEW o \in Owners, Submit(o) \/ Release(o) \/ Forget(o) \/ Cool(o) PROVE UptimeInv'
  BY <1>2, SubmitStep, ReleaseStep, ForgetStep, CoolStep
<1>3. ASSUME NEW o \in Owners, NEW p \in Products, Check(o, p) PROVE UptimeInv'
  BY <1>3, CheckStep
<1>4. ASSUME NEW h \in Homes, ApplySubmitted(h) \/ ApplyOwn(h) \/ TakeJob(h) PROVE UptimeInv'
  BY <1>4, ApplySubmittedStep, ApplyOwnStep, HomeOrControlStep
<1>5. ASSUME NEW p \in Products, Expire(p) \/ Due(p) \/ Edit(p) PROVE UptimeInv'
  BY <1>5, ExpireDueStep, EditStep
<1>6. CASE SetControl
  BY <1>6, HomeOrControlStep
<1>7. CASE UNCHANGED uptimeVars
  <2>1. UptimeTypeOK' /\ Moved /\ FewerTickets
    BY <1>7 DEF UptimeInv, UptimeTypeOK, uptimeVars, Moved, FewerTickets
  <2> QED
    BY <1>7, <2>1, MoveStep DEF uptimeVars
<1> QED
  BY <1>1, <1>2, <1>3, <1>4, <1>5, <1>6, <1>7 DEF UptimeNext

LEMMA UptimeInvariant == UptimeSpec => []UptimeInv
  BY UptimeInitInv, UptimeNextInv, PTL DEF UptimeSpec

\* Trial claims that are out are among those that may be in flight.
LEMMA TrialsCoverFlight == UptimeInv => TrialsAreLimited
<1> SUFFICES ASSUME UptimeInv, NEW o \in Owners, breaker[o].state = "probing"
             PROVE  breaker[o].checks + Cardinality(InFlight(o)) <= ProbeSize
  BY DEF TrialsAreLimited
<1>1. UptimeTypeOK /\ TrialOf(o)
  BY DEF UptimeInv
<1>2. Trials(o) \in SUBSET Products /\ InFlight(o) \in SUBSET Trials(o)
  BY DEF Trials, InFlight
<1>3. /\ Cardinality(InFlight(o)) \in Nat /\ Cardinality(Trials(o)) \in Nat /\ breaker[o].checks \in Nat
      /\ Cardinality(InFlight(o)) <= Cardinality(Trials(o)) /\ Cardinality(picked[o].rows) \in Nat
  BY <1>1, <1>2, SomeProducts, UptimeTypes
<1> QED
  BY <1>1, <1>3, UptimeNumbers DEF TrialOf

LEMMA SeenCoversFailures == UptimeInv => FailuresWereSeenAtHome
<1> SUFFICES ASSUME UptimeInv, NEW p \in Products, health[p].version = version[p]
             PROVE  health[p].failures <= seen[p]
  BY DEF FailuresWereSeenAtHome
<1>1. SeenOf(p) /\ health[p].failures \in Nat /\ seen[p] \in Nat
  BY UptimeTypes DEF UptimeInv
<1> QED
  BY <1>1 DEF SeenOf

-----------------------------------------------------------------------------
(* Theorems *)

\* Claims, tickets, breakers and health rows keep their shape.
THEOREM UptimeTypeCorrect == UptimeSpec => []UptimeTypeOK
<1>1. UptimeInv => UptimeTypeOK
  BY DEF UptimeInv
<1> QED
  BY <1>1, UptimeInvariant, PTL

\* Two instances never claim rows of one origin at a time, although each decides
\* from a look that it took before the other committed: the advisory lock keeps
\* apart the transactions whose looks could miss each other.
THEOREM OriginsHaveOneOwner == UptimeSpec => []OneOwnerPerOrigin
<1>1. UptimeInv => OneOwnerPerOrigin
  BY DEF UptimeInv
<1> QED
  BY <1>1, UptimeInvariant, PTL

\* While its breaker probes, an instance has no more claims in flight than trials
\* left, whatever late answers, forgotten tickets and failed batches come between.
THEOREM TrialsStayLimited == UptimeSpec => []TrialsAreLimited
  BY UptimeInvariant, TrialsCoverFlight, PTL

\* A submitted result is what was seen under the claim of its row: a late one is
\* refused.
THEOREM ResultsStayMatched == UptimeSpec => []ResultsMatchTheirClaim
<1>1. UptimeInv => ResultsMatchTheirClaim
  BY DEF UptimeInv, RowOf, ResultsMatchTheirClaim
<1> QED
  BY <1>1, UptimeInvariant, PTL

\* No product is charged with more failures than home instances saw themselves at
\* its present address.
THEOREM FailuresStaySeen == UptimeSpec => []FailuresWereSeenAtHome
  BY UptimeInvariant, SeenCoversFailures, PTL
=============================================================================
