-------------------------- MODULE EmailOutboxProofs --------------------------
(***************************************************************************)
(* Proofs about EmailOutbox for any rows, ticks, delays and limits.        *)
(*                                                                         *)
(* Two arguments.  A deferral takes an attempt back, so the count alone    *)
(* does not say that a row was never tried: what does is that the tick     *)
(* that may settle a row has counted its own attempt on top of everybody   *)
(* else's (Honest).  And a repeated key is harmless because whoever may    *)
(* still post a row claimed it young enough (Remembered), as long as the   *)
(* provider's memory is longer than a row's life and a tick's stall.       *)
(***************************************************************************)
EXTENDS EmailOutbox, TLAPS

Working == Holding \cup {"answered"}
Holds(t, r) == tick[t].phase \in Holding /\ tick[t].row = r
Touched(r) == mails[r] > 0 \/ \E t \in Ticks : Holds(t, r)
TouchedBesides(t, r) == mails[r] > 0 \/ \E u \in Ticks : u # t /\ Holds(u, r)

\* What a row says of its mail.
Told(r) ==
  /\ row[r].state = "absent" => row[r].attempts = 0 /\ ~row[r].expired /\ ~Touched(r)
  /\ row[r].state = "pending" => ~row[r].expired /\ (Touched(r) => row[r].attempts >= 1)
  /\ row[r].state = "accepted" => mails[r] > 0
  /\ row[r].state = "skipped" /\ row[r].expired => ~Touched(r)

\* What a tick knows of the row it works on.
Honest(t) ==
  LET r == tick[t].row IN
  tick[t].phase \in Working =>
    /\ tick[t].attempts >= 1 /\ row[r].state # "absent"
    /\ tick[t].phase = "answered" /\ tick[t].result = "accepted" => mails[r] > 0
    /\ lease = t /\ row[r].state = "pending" =>
         /\ row[r].attempts = tick[t].attempts
         /\ (tick[t].phase \in Holding \/ tick[t].result = "deferred") /\ TouchedBesides(t, r)
              => row[r].attempts >= 2

IInv == TypeOK /\ (\A r \in Rows : Told(r)) /\ (\A t \in Ticks : Honest(t))

-----------------------------------------------------------------------------
(* Types *)

LEMMA Numbers ==
  /\ MaxAttempts \in Nat /\ MaxAttempts >= 1 /\ DeferDelay \in Nat /\ Stale \in Nat
  /\ Stale >= 1 /\ KeyMemory \in Nat /\ KeyMemory >= 1 /\ MaxStall \in Nat
  /\ \A n \in 1..MaxAttempts : RetryDelay(n) \in Nat
<1>1. \A n \in 1..MaxAttempts : RetryDelay(n) \in Nat
  <2>1. Backoff \in Seq(Nat \ {0}) /\ Backoff # <<>> /\ MaxAttempts \in Nat
    BY NumbersAssumption
  <2>2. Len(Backoff) \in Nat /\ Len(Backoff) >= 1
    BY <2>1
  <2>3. \A n \in 1..Len(Backoff) : Backoff[n] \in Nat
    BY <2>1
  <2> QED
    BY <2>1, <2>2, <2>3 DEF RetryDelay
<1> QED
  BY <1>1, NumbersAssumption

\* The fields of a row and of a tick.
LEMMA Types ==
  ASSUME TypeOK
  PROVE  /\ \A r \in Rows : /\ row[r] \in Row /\ row[r].attempts \in Nat /\ row[r].wait \in Nat
                            /\ row[r].attempts <= MaxAttempts
                            /\ row[r].age \in Nat /\ row[r].age <= Stale
                            /\ row[r].expired \in BOOLEAN /\ mails[r] \in 0..2
                            /\ since[r] \in Nat /\ since[r] <= KeyMemory
         /\ \A t \in Ticks : /\ tick[t] \in Tick /\ tick[t].row \in Rows
                             /\ tick[t].attempts \in Nat /\ tick[t].attempts <= MaxAttempts
                             /\ tick[t].held \in Nat /\ tick[t].held <= MaxStall
                             /\ tick[t].result \in Results
<1>1. ASSUME NEW r \in Rows
      PROVE  /\ row[r] \in Row /\ row[r].attempts \in 0..MaxAttempts /\ row[r].wait \in Nat
             /\ row[r].age \in 0..Stale /\ row[r].expired \in BOOLEAN /\ mails[r] \in 0..2
             /\ since[r] \in 0..KeyMemory
  BY DEF TypeOK, Row
<1>2. ASSUME NEW t \in Ticks
      PROVE  /\ tick[t] \in Tick /\ tick[t].row \in Rows /\ tick[t].attempts \in 0..MaxAttempts
             /\ tick[t].held \in 0..MaxStall /\ tick[t].result \in Results
  BY DEF TypeOK, Tick
<1> QED
  BY <1>1, <1>2, Numbers

\* A tick that works on nothing.
LEMMA OffTick ==
  ASSUME NEW p \in {"off", "begun", "ready"}
  PROVE  [Off EXCEPT !.phase = p] \in Tick /\ [Off EXCEPT !.phase = p].phase \notin Working
         /\ Off = [Off EXCEPT !.phase = "off"]
<1>3. p \notin Working
  BY DEF Working, Holding
<1> DEFINE o == CHOOSE r \in Rows : TRUE
<1>4. o \in Rows
  BY NamesAssumption
<1> HIDE DEF o
<1>5. Off = [phase |-> "off", row |-> o, attempts |-> 0, result |-> "retry", held |-> 0]
  BY DEF Off, o
<1>6. /\ [Off EXCEPT !.phase = p] = [phase |-> p, row |-> o, attempts |-> 0,
                                     result |-> "retry", held |-> 0]
      /\ Off = [Off EXCEPT !.phase = "off"]
  BY <1>5
<1> QED
  BY <1>3, <1>4, <1>6, Numbers DEF Tick, Results

LEMMA InitIInv == Init => IInv
<1> SUFFICES ASSUME Init PROVE IInv
  OBVIOUS
<1>1. NoRow \in Row /\ NoRow.state = "absent" /\ NoRow.attempts = 0 /\ NoRow.expired = FALSE
  BY Numbers DEF NoRow, Row
<1>2. Off \in Tick /\ Off.phase \notin Working
  BY OffTick
<1>3. row = [r \in Rows |-> NoRow] /\ tick = [t \in Ticks |-> Off] /\ lease = NoTick
      /\ wanted = [r \in Rows |-> TRUE] /\ mails = [r \in Rows |-> 0]
      /\ since = [r \in Rows |-> KeyMemory] /\ KeyMemory \in Nat
  BY Numbers DEF Init
<1>4. TypeOK
  BY <1>1, <1>2, <1>3 DEF TypeOK
<1>5. \A r \in Rows : Told(r)
  BY <1>1, <1>2, <1>3 DEF Told, Touched, Holds, Working
<1>6. \A t \in Ticks : Honest(t)
  BY <1>2, <1>3 DEF Honest
<1> QED
  BY <1>4, <1>5, <1>6 DEF IInv

-----------------------------------------------------------------------------
(* What a step may change *)

\* A tick that stops working, and nothing else: the rest is as true as before.
LEMMA TickRests ==
  ASSUME IInv, NEW t \in Ticks, NEW p \in {"off", "begun", "ready"},
         SetTick(t, [Off EXCEPT !.phase = p]), UNCHANGED <<wanted, provider>>,
         lease' = lease \/ (lease' = t),
         row' \in [Rows -> Row],
         \A r \in Rows : row'[r] = row[r] \/ (row[r].state = "pending" /\ row'[r].state = "unknown")
  PROVE  IInv'
<1> DEFINE o == [Off EXCEPT !.phase = p]
<1>1. o \in Tick /\ o.phase \notin Working
  BY OffTick
<1>2. tick' = [tick EXCEPT ![t] = o]
  BY DEF SetTick
<1> HIDE DEF o
<1>3. /\ tick' \in [Ticks -> Tick] /\ tick'[t].phase \notin Working
      /\ \A u \in Ticks \ {t} : tick'[u] = tick[u]
  BY <1>1, <1>2 DEF IInv, TypeOK
<1>4. mails' = mails /\ since' = since
  BY DEF provider
<1>5. TypeOK'
  BY <1>3, <1>4 DEF IInv, TypeOK
<1>6. \A r \in Rows : Touched(r)' => Touched(r)
  BY <1>3, <1>4 DEF Touched, Holds, Working
<1>7. ASSUME NEW r \in Rows PROVE Told(r)'
  <2>1. CASE row'[r] = row[r]
    BY <1>4, <1>6, <2>1 DEF IInv, Told
  <2>2. CASE row'[r].state = "unknown"
    BY <2>2 DEF Told
  <2> QED
    BY <2>1, <2>2
<1>8. ASSUME NEW u \in Ticks PROVE Honest(u)'
  <2>1. CASE u = t
    BY <1>3, <2>1 DEF Honest
  <2>2. CASE u # t
    <3>1. tick'[u] = tick[u] /\ Honest(u) /\ tick[u].row \in Rows
      <4>1. tick[u].row \in Rows
        BY Types DEF IInv
      <4> QED
        BY <1>3, <2>2, <4>1 DEF IInv
    <3> DEFINE r == tick[u].row
    <3>2. (mails'[r] > 0 \/ \E w \in Ticks : w # u /\ Holds(w, r)') => TouchedBesides(u, r)
      BY <1>3, <1>4, <3>1 DEF TouchedBesides, Holds, Working
    <3>3. TouchedBesides(u, tick[u].row)' <=>
            (mails'[r] > 0 \/ \E w \in Ticks : w # u /\ Holds(w, r)')
      BY <3>1 DEF TouchedBesides, Holds
    <3> QED
      BY <1>4, <2>2, <3>1, <3>2, <3>3 DEF Honest
  <2> QED
    BY <2>1, <2>2
<1> QED
  BY <1>5, <1>7, <1>8 DEF IInv

\* The columns and locals that matter stay as they are.
SameRow(r) == /\ row'[r].state = row[r].state /\ row'[r].attempts = row[r].attempts
              /\ row'[r].expired = row[r].expired
SameTick(t) == /\ tick'[t].phase = tick[t].phase /\ tick'[t].row = tick[t].row
               /\ tick'[t].attempts = tick[t].attempts /\ tick'[t].result = tick[t].result

\* Rows change, and the ticks do not: a row that is closed, or that nobody works
\* on, has to tell the truth.
LEMMA RowsChange ==
  ASSUME IInv, TypeOK', \A t \in Ticks : SameTick(t), lease' = lease, mails' = mails,
         \A r \in Rows : \/ SameRow(r)
                         \/ /\ Told(r)'
                            /\ \/ row'[r].state \notin {"absent", "pending"}
                               \/ \A t \in Ticks : tick[t].row = r => tick[t].phase \notin Working
  PROVE  IInv'
<1>1. ASSUME NEW r \in Rows PROVE Touched(r)' <=> Touched(r)
  BY DEF Touched, Holds, SameTick
<1>2. ASSUME NEW r \in Rows PROVE Told(r)'
  <2>1. CASE SameRow(r)
    BY <1>1, <2>1 DEF IInv, Told, SameRow
  <2>2. CASE ~SameRow(r)
    BY <2>2
  <2> QED
    BY <2>1, <2>2
<1>3. ASSUME NEW t \in Ticks PROVE Honest(t)'
  <2> DEFINE r == tick[t].row
  <2>1. r \in Rows
    BY Types DEF IInv
  <2>2. Honest(t) /\ SameTick(t)
    BY DEF IInv
  <2>3. TouchedBesides(t, tick[t].row)' <=> TouchedBesides(t, r)
    BY <2>2 DEF TouchedBesides, Holds, SameTick
  <2>4. CASE SameRow(r)
    BY <2>2, <2>3, <2>4 DEF Honest, SameTick, SameRow
  <2>5. CASE row'[r].state \notin {"absent", "pending"}
    BY <2>2, <2>5 DEF Honest, SameTick
  <2>6. CASE tick[t].phase \notin Working
    BY <2>2, <2>6 DEF Honest, SameTick
  <2> QED
    BY <2>1, <2>4, <2>5, <2>6
<1> QED
  BY <1>2, <1>3 DEF IInv

\* A row function with one row replaced.
LEMMA OneRow ==
  ASSUME TypeOK, NEW r \in Rows, NEW v \in Row, Write(r, v)
  PROVE  /\ row' \in [Rows -> Row] /\ row'[r] = v
         /\ \A q \in Rows \ {r} : row'[q] = row[q]
  BY DEF TypeOK, Write

\* A row that was deleted.
LEMMA Gone ==
  LET v == [NoRow EXCEPT !.state = "deleted"] IN v \in Row /\ v.state = "deleted"
<1>1. NoRow \in Row
  BY Numbers DEF NoRow, Row
<1>2. \A r \in Row : LET v == [r EXCEPT !.state = "deleted"] IN v \in Row /\ v.state = "deleted"
  BY DEF Row
<1> QED
  BY <1>1, <1>2

LEMMA StepEnqueue ==
  ASSUME IInv, NEW r \in Rows, Enqueue(r)
  PROVE  IInv'
<1>1. PICK state \in {"pending", "skipped"} : Write(r, [row[r] EXCEPT !.state = state])
  BY DEF Enqueue
<1> DEFINE v == [row[r] EXCEPT !.state = state]
<1>2. /\ v \in Row /\ v.state = state /\ v.attempts = row[r].attempts
      /\ v.expired = row[r].expired
  BY Types DEF IInv, Row, Closed
<1> HIDE DEF v
<1>3. /\ row' \in [Rows -> Row] /\ row'[r] = v
      /\ \A q \in Rows \ {r} : row'[q] = row[q]
  BY <1>1, <1>2, OneRow DEF IInv, v
<1>4. /\ tick' = tick /\ lease' = lease /\ mails' = mails /\ since' = since
      /\ wanted' = wanted /\ row[r].state = "absent"
  BY DEF Enqueue, provider
<1>5. TypeOK'
  BY <1>3, <1>4 DEF IInv, TypeOK
<1>6. ~Touched(r) /\ row[r].attempts = 0 /\ ~row[r].expired
  BY <1>4 DEF IInv, Told
<1>7. ~Touched(r)'
  BY <1>4, <1>6 DEF Touched, Holds
<1>8. Told(r)'
  BY <1>1, <1>2, <1>3, <1>6, <1>7 DEF Told
<1>9. \A t \in Ticks : tick[t].row = r => tick[t].phase \notin Working
  BY <1>4 DEF IInv, Honest
<1>10. \A q \in Rows : q # r => SameRow(q)
  BY <1>3 DEF SameRow
<1>11. \A t \in Ticks : SameTick(t)
  BY <1>4 DEF SameTick
<1> QED
  BY <1>4, <1>5, <1>8, <1>9, <1>10, <1>11, RowsChange

LEMMA StepChoose ==
  ASSUME IInv, NEW r \in Rows, Choose(r)
  PROVE  IInv'
<1>1. row' = row /\ tick' = tick /\ lease' = lease /\ mails' = mails /\ since' = since
  BY DEF Choose, provider
<1>2. TypeOK'
  BY <1>1 DEF IInv, TypeOK, Choose
<1> QED
  BY <1>1, <1>2, RowsChange DEF SameRow, SameTick

LEMMA StepLeave ==
  ASSUME IInv, NEW r \in Rows, Leave(r)
  PROVE  IInv'
<1> DEFINE v == [NoRow EXCEPT !.state = "deleted"]
<1>1. v \in Row /\ v.state = "deleted"
  BY Gone
<1> HIDE DEF v
<1>2. /\ row' \in [Rows -> Row] /\ row'[r] = v
      /\ \A q \in Rows \ {r} : row'[q] = row[q]
  BY <1>1, OneRow DEF Leave, IInv, v
<1>3. /\ tick' = tick /\ lease' = lease /\ mails' = mails /\ since' = since
      /\ wanted' = [wanted EXCEPT ![r] = FALSE]
  BY DEF Leave, provider
<1>4. TypeOK'
  BY <1>2, <1>3 DEF IInv, TypeOK
<1>5. Told(r)'
  BY <1>1, <1>2 DEF Told
<1>6. \A q \in Rows : q # r => SameRow(q)
  BY <1>2 DEF SameRow
<1>7. \A t \in Ticks : SameTick(t)
  BY <1>3 DEF SameTick
<1> QED
  BY <1>1, <1>2, <1>3, <1>4, <1>5, <1>6, <1>7, RowsChange

\* A row closed by its age was attempted, or nobody ever touched it.
LEMMA StepPrune ==
  ASSUME IInv, Prune
  PROVE  IInv'
<1>1. PICK old \in SUBSET {r \in Rows : row[r].state \in Closed /\ row[r].age = Stale} :
        row' = [r \in Rows |-> IF r \in old THEN [NoRow EXCEPT !.state = "deleted"] ELSE Pruned(r)]
  BY DEF Prune
<1>2. /\ tick' = tick /\ lease' = lease /\ mails' = mails /\ since' = since /\ wanted' = wanted
  BY DEF Prune, provider
<1>3. [NoRow EXCEPT !.state = "deleted"] \in Row /\ [NoRow EXCEPT !.state = "deleted"].state = "deleted"
  BY Gone
<1>4. ASSUME NEW r \in Rows
      PROVE  /\ row'[r] \in Row
             /\ \/ SameRow(r)
                \/ Told(r)' /\ row'[r].state \notin {"absent", "pending"}
  <2>1. CASE r \in old
    <3>1. row'[r] = [NoRow EXCEPT !.state = "deleted"]
      BY <1>1, <2>1
    <3>2. row'[r] \in Row /\ row'[r].state = "deleted"
      BY <1>3, <3>1
    <3> QED
      BY <3>2 DEF Told
  <2>2. CASE r \notin old /\ ~(row[r].state = "pending" /\ row[r].age = Stale)
    BY <1>1, <2>2, Types DEF Pruned, SameRow, IInv
  <2>3. CASE r \notin old /\ row[r].state = "pending" /\ row[r].age = Stale
    <3> DEFINE st == IF row[r].attempts = 0 THEN "skipped" ELSE "unknown"
    <3>1. row'[r] = [row[r] EXCEPT !.state = st, !.expired = TRUE]
      BY <1>1, <2>3 DEF Pruned
    <3>2. row[r] \in Row /\ st \in Closed
      BY Types DEF IInv, Closed
    <3> HIDE DEF st
    <3>3. row'[r] \in Row /\ row'[r].state = st /\ row'[r].expired = TRUE
      BY <3>1, <3>2 DEF Row
    <3>4. st = "skipped" => ~Touched(r)
      BY <2>3 DEF st, IInv, Told
    <3>5. Touched(r)' <=> Touched(r)
      BY <1>2 DEF Touched, Holds
    <3>6. st \in {"skipped", "unknown"}
      BY DEF st
    <3> QED
      BY <3>3, <3>4, <3>5, <3>6 DEF Told
  <2> QED
    BY <2>1, <2>2, <2>3
<1>5. row' \in [Rows -> Row]
  BY <1>1, <1>4
<1>6. TypeOK'
  BY <1>2, <1>5 DEF IInv, TypeOK
<1>7. \A t \in Ticks : SameTick(t)
  BY <1>2 DEF SameTick
<1> QED
  BY <1>2, <1>4, <1>6, <1>7, RowsChange

LEMMA StepElapse ==
  ASSUME IInv, Elapse
  PROVE  IInv'
<1>1. lease' = lease /\ mails' = mails /\ wanted' = wanted
  BY DEF Elapse
<1>2. ASSUME NEW r \in Rows PROVE row'[r] \in Row /\ SameRow(r)
  <2>1. CASE row[r].state \in {"absent", "deleted"}
    BY <2>1, Types DEF Elapse, SameRow, IInv
  <2>2. CASE row[r].state \notin {"absent", "deleted"}
    <3> DEFINE a == Older(row[r].age, Stale)
               w == Sooner(row[r].wait)
    <3>1. row'[r] = [row[r] EXCEPT !.age = a, !.wait = w]
      BY <2>2 DEF Elapse
    <3>2. row[r] \in Row /\ a \in 0..Stale /\ w \in Nat
      BY Types, Numbers DEF IInv, Older, Sooner
    <3> HIDE DEF a, w
    <3> QED
      BY <3>1, <3>2 DEF Row, SameRow
  <2> QED
    BY <2>1, <2>2
<1>3. row' \in [Rows -> Row]
  <2>1. row' = [r \in Rows |-> row'[r]]
    BY DEF Elapse
  <2> QED
    BY <1>2, <2>1
<1>4. ASSUME NEW t \in Ticks PROVE tick'[t] \in Tick /\ SameTick(t)
  <2>1. tick[t] \in Tick /\ tick[t].held \in Nat /\ MaxStall \in Nat
    BY Types, Numbers DEF IInv
  <2>2. CASE tick[t].phase \in Holding
    <3> DEFINE h == tick[t].held + 1
    <3>1. tick'[t] = [tick[t] EXCEPT !.held = h] /\ tick[t].held < MaxStall
      BY <2>2 DEF Elapse
    <3>2. h \in 0..MaxStall
      BY <2>1, <3>1
    <3> HIDE DEF h
    <3> QED
      BY <2>1, <3>1, <3>2 DEF Tick, SameTick
  <2>3. CASE tick[t].phase \notin Holding
    BY <2>1, <2>3 DEF Elapse, SameTick
  <2> QED
    BY <2>2, <2>3
<1>5. tick' \in [Ticks -> Tick]
  <2>1. tick' = [t \in Ticks |-> tick'[t]]
    BY DEF Elapse
  <2> QED
    BY <1>4, <2>1
<1>6. since' \in [Rows -> 0..KeyMemory]
  <2>1. \A r \in Rows : Older(since[r], KeyMemory) \in 0..KeyMemory
    BY Types, Numbers DEF IInv, Older
  <2> QED
    BY <2>1 DEF Elapse
<1>7. TypeOK'
  BY <1>1, <1>3, <1>5, <1>6 DEF IInv, TypeOK
<1> QED
  BY <1>1, <1>2, <1>4, <1>7, RowsChange

-----------------------------------------------------------------------------
(* The steps of a tick *)

LEMMA StepRests ==
  ASSUME IInv, NEW t \in Ticks, Begin(t) \/ Sweep(t) \/ End(t)
  PROVE  IInv'
<1>1. \E p \in {"off", "begun", "ready"} : SetTick(t, [Off EXCEPT !.phase = p])
  BY OffTick DEF Begin, Sweep, End, Stop
<1>2. UNCHANGED <<wanted, provider>> /\ (lease' = lease \/ lease' = t)
  BY DEF Begin, Sweep, End
<1>3. /\ row' \in [Rows -> Row]
      /\ \A r \in Rows : row'[r] = row[r] \/ (row[r].state = "pending" /\ row'[r].state = "unknown")
  <2>1. CASE UNCHANGED row
    BY <2>1 DEF IInv, TypeOK
  <2>2. CASE row' = [r \in Rows |-> IF Exhausted(r) THEN [row[r] EXCEPT !.state = "unknown"] ELSE row[r]]
    <3>1. ASSUME NEW r \in Rows
          PROVE  /\ row'[r] \in Row
                 /\ row'[r] = row[r] \/ (row[r].state = "pending" /\ row'[r].state = "unknown")
      <4>1. row[r] \in Row /\ "unknown" \in Closed
        BY Types DEF IInv, Closed
      <4>2. CASE Exhausted(r)
        <5>1. row'[r] = [row[r] EXCEPT !.state = "unknown"] /\ row[r].state = "pending"
          BY <2>2, <4>2 DEF Exhausted
        <5> QED
          BY <4>1, <5>1 DEF Row
      <4>3. CASE ~Exhausted(r)
        BY <2>2, <4>1, <4>3
      <4> QED
        BY <4>2, <4>3
    <3> QED
      BY <2>2, <3>1
  <2> QED
    BY <2>1, <2>2 DEF Begin, Sweep, End
<1> QED
  BY <1>1, <1>2, <1>3, TickRests

\* The claimed row was pending; whoever touched it before has counted already.
LEMMA StepClaimNext ==
  ASSUME IInv, NEW t \in Ticks, ClaimNext(t)
  PROVE  IInv'
<1>1. PICK r \in Rows :
        /\ Claimable(r)
        /\ Write(r, [row[r] EXCEPT !.attempts = row[r].attempts + 1,
                                   !.wait = RetryDelay(row[r].attempts + 1)])
        /\ SetTick(t, [Off EXCEPT !.phase = "claimed", !.row = r,
                                  !.attempts = row[r].attempts + 1])
  BY DEF ClaimNext
<1> DEFINE n == row[r].attempts + 1
           w == RetryDelay(n)
           v == [row[r] EXCEPT !.attempts = n, !.wait = w]
           o == [Off EXCEPT !.phase = "claimed", !.row = r, !.attempts = n]
<1>2. /\ row[r] \in Row /\ row[r].state = "pending" /\ row[r].attempts < MaxAttempts
      /\ row[r].attempts \in Nat /\ tick[t].phase = "ready" /\ lease = t
  BY <1>1, Types DEF ClaimNext, Claimable, IInv
<1>3. n \in 0..MaxAttempts /\ n >= 1 /\ w \in Nat
  <2>1. n \in 1..MaxAttempts
    BY <1>2, Numbers
  <2> QED
    BY <2>1, Numbers
<1>4. Write(r, v) /\ SetTick(t, o)
  BY <1>1
<1>6. n = row[r].attempts + 1
  OBVIOUS
<1> HIDE DEF n, w
<1>7. /\ v \in Row /\ v.state = "pending" /\ v.attempts = n /\ v.expired = row[r].expired
  BY <1>2, <1>3 DEF Row
<1>8. o \in Tick /\ o.phase = "claimed" /\ o.row = r /\ o.attempts = n
  <2>1. Off \in Tick
    BY OffTick
  <2> QED
    BY <1>3, <2>1 DEF Tick
<1> HIDE DEF v, o
<1>9. /\ row' \in [Rows -> Row] /\ row'[r] = v
      /\ \A q \in Rows \ {r} : row'[q] = row[q]
  BY <1>4, <1>7, OneRow DEF IInv
<1>10. /\ tick' \in [Ticks -> Tick] /\ tick'[t] = o
       /\ \A u \in Ticks \ {t} : tick'[u] = tick[u]
  BY <1>4, <1>8 DEF IInv, TypeOK, SetTick
<1>11. mails' = mails /\ since' = since /\ lease' = lease /\ wanted' = wanted
  BY DEF ClaimNext, provider
<1>12. TypeOK'
  BY <1>9, <1>10, <1>11 DEF IInv, TypeOK
<1>13. Told(r) /\ (\A u \in Ticks : Honest(u))
  BY DEF IInv
<1>14. ASSUME NEW q \in Rows PROVE Told(q)'
  <2>1. CASE q = r
    BY <1>3, <1>7, <1>9, <1>13, <1>2, <2>1 DEF Told
  <2>2. CASE q # r
    <3>1. Touched(q)' => Touched(q)
      BY <1>8, <1>10, <1>11, <2>2 DEF Touched, Holds
    <3>2. row'[q] = row[q] /\ Told(q)
      BY <1>9, <2>2 DEF IInv
    <3> QED
      BY <1>11, <3>1, <3>2 DEF Told
  <2> QED
    BY <2>1, <2>2
<1>15. ASSUME NEW u \in Ticks PROVE Honest(u)'
  <2>1. CASE u = t
    <3>1. TouchedBesides(t, tick[t].row)' => Touched(r)
      BY <1>8, <1>10, <1>11 DEF TouchedBesides, Touched, Holds
    <3>2. Touched(r) => row[r].attempts >= 1
      BY <1>2, <1>13 DEF Told
    <3>3. TouchedBesides(t, tick[t].row)' => n >= 2
      BY <1>2, <1>6, <3>1, <3>2
    <3> QED
      BY <1>3, <1>7, <1>8, <1>9, <1>10, <2>1, <3>3 DEF Honest, Working, Holding
  <2>2. CASE u # t
    <3>1. tick'[u] = tick[u] /\ Honest(u) /\ lease' # u /\ tick[u].row \in Rows
      <4>1. tick[u].row \in Rows
        BY Types DEF IInv
      <4> QED
        BY <1>2, <1>10, <1>11, <1>13, <2>2, <4>1
    <3>2. row'[tick[u].row].state = row[tick[u].row].state
      BY <1>2, <1>7, <1>9, <3>1
    <3> QED
      BY <1>11, <3>1, <3>2 DEF Honest
  <2> QED
    BY <2>1, <2>2
<1> QED
  BY <1>12, <1>14, <1>15 DEF IInv

\* A tick that goes on with its row: it was holding, and tells the truth.
LEMMA TickGoesOn ==
  ASSUME IInv, NEW t \in Ticks, NEW o \in Tick, SetTick(t, o),
         tick[t].phase \in Holding, o.phase \in Working,
         o.row = tick[t].row, o.attempts = tick[t].attempts,
         UNCHANGED <<row, wanted, lease>>, since' \in [Rows -> 0..KeyMemory],
         mails' \in [Rows -> 0..2],
         \A r \in Rows : mails'[r] = mails[r] \/ (r = tick[t].row /\ mails'[r] > 0),
         mails' # mails => o.phase = "answered" /\ o.result # "deferred",
         o.phase = "answered" /\ o.result = "accepted" => mails'[tick[t].row] > 0
  PROVE  IInv'
<1> DEFINE m == tick[t].row
<1>1. m \in Rows /\ Told(m) /\ \A u \in Ticks : Honest(u) /\ tick[u].row \in Rows
  BY Types DEF IInv
<1>2. /\ tick' \in [Ticks -> Tick] /\ tick'[t] = o
      /\ \A u \in Ticks \ {t} : tick'[u] = tick[u]
  BY DEF IInv, TypeOK, SetTick
<1>3. TypeOK'
  BY <1>2 DEF IInv, TypeOK
<1>4. Holds(t, m)
  BY DEF Holds
<1>5. ASSUME NEW q \in Rows PROVE Touched(q)' => Touched(q)
  BY <1>2, <1>4 DEF Touched, Holds, Holding
<1>6. ASSUME NEW q \in Rows PROVE mails[q] > 0 => mails'[q] > 0
  OBVIOUS
<1>7. ASSUME NEW q \in Rows PROVE Told(q)'
  BY <1>5, <1>6 DEF IInv, Told
<1>8. ASSUME NEW u \in Ticks, u # t, NEW q \in Rows
      PROVE  (mails'[q] > 0 \/ \E w \in Ticks : w # u /\ tick'[w].phase \in Holding /\ tick'[w].row = q)
               => TouchedBesides(u, q)
  BY <1>2, <1>4, <1>8 DEF TouchedBesides, Holds
<1>9. ASSUME NEW u \in Ticks PROVE Honest(u)'
  <2>1. CASE u = t
    <3>1. Honest(t) /\ tick[t].phase \in Working
      BY <1>1 DEF Working
    <3>2. mails' = mails =>
            (TouchedBesides(t, tick[t].row)' => TouchedBesides(t, m))
      BY <1>2 DEF TouchedBesides, Holds
    <3>3. (o.phase \in Holding \/ o.result = "deferred") => mails' = mails
      BY DEF Holding
    <3> QED
      BY <1>2, <2>1, <3>1, <3>2, <3>3 DEF Honest
  <2>2. CASE u # t
    <3>1. tick'[u] = tick[u]
      BY <1>2, <2>2
    <3>2. TouchedBesides(u, tick[u].row)' => TouchedBesides(u, tick[u].row)
      BY <1>1, <1>8, <2>2, <3>1 DEF TouchedBesides, Holds
    <3> QED
      BY <1>1, <1>6, <3>1, <3>2 DEF Honest
  <2> QED
    BY <2>1, <2>2
<1> QED
  BY <1>3, <1>7, <1>9 DEF IInv

LEMMA StepCompose ==
  ASSUME IInv, NEW t \in Ticks, Compose(t)
  PROVE  IInv'
<1>1. tick[t] \in Tick /\ tick[t].phase = "claimed"
  BY Types DEF IInv, Compose
<1>2. PICK o \in {[tick[t] EXCEPT !.phase = "composed"],
                  [tick[t] EXCEPT !.phase = "answered", !.result = "skipped"],
                  [tick[t] EXCEPT !.phase = "answered", !.result = "deferred"]} : SetTick(t, o)
  BY DEF Compose
<1>3. /\ o \in Tick /\ o.phase \in Working /\ o.row = tick[t].row
      /\ o.attempts = tick[t].attempts /\ ~(o.phase = "answered" /\ o.result = "accepted")
  BY <1>1, <1>2 DEF Tick, Working, Holding, Results
<1>4. UNCHANGED <<row, wanted, lease>> /\ mails' = mails /\ since' = since
  BY DEF Compose, provider
<1>5. since' \in [Rows -> 0..KeyMemory] /\ mails' \in [Rows -> 0..2]
  BY <1>4 DEF IInv, TypeOK
<1> QED
  BY <1>1, <1>2, <1>3, <1>4, <1>5, TickGoesOn DEF Holding

LEMMA StepPost ==
  ASSUME IInv, NEW t \in Ticks, Post(t)
  PROVE  IInv'
<1> DEFINE r == tick[t].row
<1>1. PICK answer \in {"accepted", "rejected", "unavailable", "unknown"}, sends \in BOOLEAN :
        /\ sends => ~Remembers(r) /\ answer \in {"accepted", "unknown"}
        /\ ~sends /\ answer = "accepted" => Remembers(r)
        /\ IF sends
           THEN /\ mails' = [mails EXCEPT ![r] = IF @ = 0 THEN 1 ELSE 2]
                /\ since' = [since EXCEPT ![r] = 0]
           ELSE UNCHANGED provider
        /\ SetTick(t, [tick[t] EXCEPT !.phase = "answered", !.result = ResultOf(t, answer)])
  BY DEF Post
<1> DEFINE x == ResultOf(t, answer)
           o == [tick[t] EXCEPT !.phase = "answered", !.result = x]
<1>2. tick[t] \in Tick /\ tick[t].phase = "composed" /\ r \in Rows
  BY Types DEF IInv, Post
<1>3. /\ x \in Results /\ (x = "accepted" <=> answer = "accepted")
      /\ (x = "deferred" <=> answer = "unavailable")
  BY DEF ResultOf, Results
<1>4. SetTick(t, o)
  BY <1>1
<1> HIDE DEF x
<1>5. /\ o \in Tick /\ o.phase = "answered" /\ o.row = r /\ o.attempts = tick[t].attempts
      /\ o.result = x
  BY <1>2, <1>3 DEF Tick
<1> HIDE DEF o, r
<1>6. UNCHANGED <<row, wanted, lease>>
  BY DEF Post
<1>7. /\ since' \in [Rows -> 0..KeyMemory] /\ mails' \in [Rows -> 0..2]
      /\ \A q \in Rows : mails'[q] = mails[q] \/ (q = r /\ mails'[q] > 0)
      /\ mails' # mails => sends
      /\ sends \/ Remembers(r) => mails'[r] > 0
  <2>1. mails \in [Rows -> 0..2] /\ since \in [Rows -> 0..KeyMemory] /\ 0 \in 0..KeyMemory
    BY Numbers DEF IInv, TypeOK
  <2>2. CASE sends
    BY <1>1, <1>2, <2>1, <2>2
  <2>3. CASE ~sends
    <3>1. mails' = mails /\ since' = since
      BY <1>1, <2>3 DEF provider
    <3> QED
      BY <2>1, <2>3, <3>1 DEF Remembers
  <2> QED
    BY <2>2, <2>3
<1>8. /\ mails' # mails => o.phase = "answered" /\ o.result # "deferred"
      /\ o.phase = "answered" /\ o.result = "accepted" => mails'[r] > 0
  BY <1>1, <1>3, <1>5, <1>7
<1>9. tick[t].phase \in Holding /\ o.phase \in Working
  BY <1>2, <1>5 DEF Holding, Working
<1> QED
  BY <1>4, <1>5, <1>6, <1>7, <1>8, <1>9, TickGoesOn DEF r

\* Only the tick that counted last takes its attempt back.
LEMMA StepSettle ==
  ASSUME IInv, NEW t \in Ticks, Settle(t)
  PROVE  IInv'
<1> DEFINE r == tick[t].row
<1>1. \E p \in {"off", "begun", "ready"} : SetTick(t, [Off EXCEPT !.phase = p])
  BY OffTick DEF Settle, Stop
<1>2. UNCHANGED <<wanted, provider>> /\ lease' = lease /\ tick[t].phase = "answered"
  BY DEF Settle
<1>3. CASE row' = row
  BY <1>1, <1>2, <1>3, TickRests DEF IInv, TypeOK
<1>4. CASE row' # row
  <2> DEFINE v == Settled(row[r], tick[t].attempts, tick[t].result)
  <2>1. /\ lease = t /\ row[r].state = "pending" /\ Write(r, v) /\ r \in Rows
        /\ row[r] \in Row /\ tick[t].result \in Results
        /\ tick[t].attempts \in Nat /\ tick[t].attempts <= MaxAttempts
    BY <1>4, Types DEF Settle, Open, IInv
  <2>2. /\ Honest(t) /\ Told(r) /\ tick[t].phase = "answered"
        /\ tick[t].attempts >= 1 /\ row[r].attempts = tick[t].attempts
        /\ tick[t].result = "deferred" /\ TouchedBesides(t, r) => row[r].attempts >= 2
        /\ tick[t].result = "accepted" => mails[r] > 0
    BY <1>2, <2>1 DEF IInv, Honest, Working
  <2>3. PICK p \in {"off", "begun", "ready"} : SetTick(t, [Off EXCEPT !.phase = p])
    BY <1>1
  <2> DEFINE o == [Off EXCEPT !.phase = p]
  <2>4. o \in Tick /\ o.phase \notin Working
    BY OffTick
  <2> HIDE DEF o, r
  <2>5. /\ tick' \in [Ticks -> Tick] /\ tick'[t] = o /\ \A u \in Ticks \ {t} : tick'[u] = tick[u]
    BY <2>3, <2>4 DEF IInv, TypeOK, SetTick, o
  <2>6. /\ v \in Row /\ v.expired = row[r].expired
        /\ \/ v.state = "pending" /\ v.attempts = row[r].attempts /\ tick[t].result = "retry"
           \/ v.state = "pending" /\ v.attempts = row[r].attempts - 1 /\ tick[t].result = "deferred"
           \/ v.state = tick[t].result /\ v.state \in Closed
    <3>1. CASE tick[t].result = "deferred"
      <4> DEFINE n == tick[t].attempts - 1
      <4>1. v = [row[r] EXCEPT !.attempts = n, !.wait = DeferDelay]
        BY <3>1 DEF Settled
      <4>2. n \in 0..MaxAttempts /\ n = row[r].attempts - 1 /\ DeferDelay \in Nat
        BY <2>1, <2>2, Numbers
      <4> HIDE DEF n, v
      <4>3. v \in Row /\ v.expired = row[r].expired /\ v.state = row[r].state /\ v.attempts = n
        BY <2>1, <4>1, <4>2 DEF Row
      <4> QED
        BY <2>1, <3>1, <4>2, <4>3
    <3>2. CASE tick[t].result = "retry"
      BY <2>1, <3>2 DEF Settled
    <3>3. CASE tick[t].result \notin {"deferred", "retry"}
      <4> DEFINE k == tick[t].result
      <4>1. v = [row[r] EXCEPT !.state = k] /\ k \in Closed
        BY <2>1, <3>3 DEF Settled, Results, Closed
      <4> HIDE DEF v, k
      <4>2. v \in Row /\ v.expired = row[r].expired /\ v.state = k
        BY <2>1, <4>1 DEF Row
      <4> QED
        BY <4>1, <4>2 DEF k
    <3> QED
      BY <3>1, <3>2, <3>3
  <2> HIDE DEF v
  <2>7. /\ row' \in [Rows -> Row] /\ row'[r] = v /\ \A q \in Rows \ {r} : row'[q] = row[q]
    BY <2>1, <2>6, OneRow DEF IInv
  <2>8. mails' = mails /\ since' = since
    BY <1>2 DEF provider
  <2>9. TypeOK'
    BY <1>2, <2>5, <2>7, <2>8 DEF IInv, TypeOK
  <2>10. /\ \A q \in Rows : Touched(q)' => Touched(q)
         /\ (mails'[r] > 0 \/ \E u \in Ticks : tick'[u].phase \in Holding /\ tick'[u].row = r)
              => TouchedBesides(t, r)
    BY <2>4, <2>5, <2>8 DEF Touched, TouchedBesides, Holds, Working
  <2>11. ASSUME NEW q \in Rows PROVE Told(q)'
    <3>1. CASE q # r
      <4>1. row'[q] = row[q] /\ Told(q)
        BY <2>7, <3>1 DEF IInv
      <4> QED
        BY <2>8, <2>10, <4>1 DEF Told
    <3>2. CASE q = r
      <4>1. ~row[r].expired /\ (Touched(r) => row[r].attempts >= 1) /\ row[r].attempts \in Nat
        BY <2>1, <2>2, Types DEF Told, IInv
      <4>2. CASE v.state = "pending"
        <5>1. Touched(q)' => TouchedBesides(t, r) /\ Touched(r)
          BY <2>10, <3>2 DEF Touched, Holds
        <5>2. Touched(q)' => v.attempts >= 1
          BY <2>2, <2>6, <4>1, <4>2, <5>1 DEF Closed
        <5>3. row'[q] = v
          BY <2>7, <3>2
        <5> QED
          BY <2>6, <4>1, <4>2, <5>2, <5>3 DEF Told
      <4>3. CASE v.state # "pending"
        BY <2>2, <2>6, <2>7, <2>8, <3>2, <4>1, <4>3 DEF Told, Closed
      <4> QED
        BY <4>2, <4>3
    <3> QED
      BY <3>1, <3>2
  <2>12. ASSUME NEW u \in Ticks PROVE Honest(u)'
    <3>1. CASE u = t
      BY <2>4, <2>5, <3>1 DEF Honest
    <3>2. CASE u # t
      <4>1. tick'[u] = tick[u] /\ Honest(u) /\ lease' # u
        BY <1>2, <2>1, <2>5, <3>2 DEF IInv
      <4>2. tick[u].row \in Rows
        BY Types DEF IInv
      <4>3. row'[tick[u].row].state # "absent" \/ row[tick[u].row].state = "absent"
        BY <2>6, <2>7, <4>2 DEF Closed
      <4> QED
        BY <2>8, <4>1, <4>3 DEF Honest
    <3> QED
      BY <3>1, <3>2
  <2> QED
    BY <2>9, <2>11, <2>12 DEF IInv
<1> QED
  BY <1>3, <1>4

-----------------------------------------------------------------------------
(* The invariant and what follows from it *)

LEMMA NextIInv == IInv /\ [Next]_vars => IInv'
<1> SUFFICES ASSUME IInv, [Next]_vars PROVE IInv'
  OBVIOUS
<1>1. CASE UNCHANGED vars
  <2>1. UNCHANGED <<row, wanted, lease, tick, mails, since>>
    BY <1>1 DEF vars
  <2>2. TypeOK'
    BY <2>1 DEF IInv, TypeOK
  <2> QED
    BY <2>1, <2>2, RowsChange DEF SameRow, SameTick
<1>2. ASSUME NEW r \in Rows, Enqueue(r) \/ Choose(r) \/ Leave(r) PROVE IInv'
  BY <1>2, StepEnqueue, StepChoose, StepLeave
<1>3. ASSUME NEW t \in Ticks,
             Begin(t) \/ Sweep(t) \/ ClaimNext(t) \/ Compose(t) \/ Post(t) \/ Settle(t) \/ End(t)
      PROVE  IInv'
  BY <1>3, StepRests, StepClaimNext, StepCompose, StepPost, StepSettle
<1>4. CASE Prune \/ Elapse
  BY <1>4, StepPrune, StepElapse
<1> QED
  BY <1>1, <1>2, <1>3, <1>4 DEF Next

LEMMA Invariant == Spec => []IInv
BY InitIInv, NextIInv, PTL DEF Spec

\* Rows and ticks keep their types; the attempts of a row stay within the check of
\* the table, also when deferrals take them back (lib/me/email-outbox.ts, settle).
THEOREM TypeCorrect == Spec => []TypeOK
<1>1. IInv => TypeOK
  BY DEF IInv
<1> QED
  BY <1>1, Invariant, PTL

\* A row closed as accepted was mailed; one closed by its age as never attempted
\* was not, and no superseded tick still holds it to post it later.
THEOREM RowsTellTheTruth == Spec => []StateTellsTheTruth
<1>1. IInv => StateTellsTheTruth
  BY DEF IInv, Told, StateTellsTheTruth, Touched, Holds, TypeOK
<1> QED
  BY <1>1, Invariant, PTL

\* A closed row keeps its verdict until it is deleted: settle, the sweep and the
\* prune of the other job all write pending rows only.
THEOREM ClosedRowsStay == Spec => ClosedStaysClosed
<1>1. ASSUME IInv, [Next]_vars, NEW r \in Rows, row[r].state \in Closed
      PROVE  row'[r].state \in {row[r].state, "deleted"}
  <2>1. /\ row \in [Rows -> Row] /\ row[r].state \notin {"absent", "pending", "deleted"}
        /\ row[r] \in Row
    BY <1>1 DEF IInv, TypeOK, Closed
  <2>2. CASE UNCHANGED vars
    BY <2>2 DEF vars
  <2>3. ASSUME NEW q \in Rows, Enqueue(q) \/ Choose(q) \/ Leave(q)
        PROVE  row'[r].state \in {row[r].state, "deleted"}
    <3>1. CASE Leave(q)
      <4>1. [NoRow EXCEPT !.state = "deleted"].state = "deleted"
        BY Gone
      <4> QED
        BY <2>1, <3>1, <4>1 DEF Leave, Write
    <3>2. CASE Enqueue(q)
      BY <2>1, <3>2 DEF Enqueue, Write
    <3>3. CASE Choose(q)
      BY <3>3 DEF Choose
    <3> QED
      BY <2>3, <3>1, <3>2, <3>3
  <2>4. ASSUME NEW t \in Ticks,
               Begin(t) \/ Sweep(t) \/ ClaimNext(t) \/ Compose(t) \/ Post(t) \/ Settle(t) \/ End(t)
        PROVE  row'[r] = row[r]
    <3>1. CASE Begin(t) \/ Compose(t) \/ Post(t) \/ End(t)
      BY <3>1 DEF Begin, Compose, Post, End
    <3>2. CASE Sweep(t)
      BY <2>1, <3>2 DEF Sweep, Exhausted
    <3>3. CASE ClaimNext(t)
      BY <2>1, <3>3 DEF ClaimNext, Claimable, Write
    <3>4. CASE Settle(t)
      BY <2>1, <3>4 DEF Settle, Open, Write
    <3> QED
      BY <2>4, <3>1, <3>2, <3>3, <3>4
  <2>5. CASE Prune
    <3>1. [NoRow EXCEPT !.state = "deleted"].state = "deleted"
      BY Gone
    <3> QED
      BY <2>1, <2>5, <3>1 DEF Prune, Pruned
  <2>6. CASE Elapse
    <3>1. row'[r] = [row[r] EXCEPT !.age = Older(@, Stale), !.wait = Sooner(@)]
      BY <2>1, <2>6 DEF Elapse
    <3>2. row'[r].state = row[r].state
      BY <2>1, <3>1 DEF Row
    <3> QED
      BY <3>2
  <2> QED
    BY <1>1, <2>2, <2>3, <2>4, <2>5, <2>6 DEF Next
<1>2. IInv /\ [Next]_vars =>
        [\A r \in Rows : row[r].state \in Closed => row'[r].state \in {row[r].state, "deleted"}]_vars
  BY <1>1
<1> QED
  BY <1>2, Invariant, PTL DEF Spec, ClosedStaysClosed

-----------------------------------------------------------------------------
(* The provider remembers whoever may still post *)

Remembered ==
  /\ \A r \in Rows : row[r].state \notin {"absent", "deleted"} /\ row[r].age < Stale /\ mails[r] > 0
                       => since[r] <= row[r].age
  /\ \A t \in Ticks : tick[t].phase \in Holding /\ mails[tick[t].row] > 0
                       => since[tick[t].row] <= Stale - 1 + tick[t].held

Once == IInv /\ Remembered /\ AtMostOneMail

\* Nothing of what counts for the provider gets worse.
LEMMA NoPost ==
  ASSUME Once, IInv', mails' = mails, since' = since,
         \A r \in Rows : \/ row'[r].state \in {"absent", "deleted"}
                         \/ /\ row[r].state \notin {"absent", "deleted"}
                            /\ row'[r].age = row[r].age
                         \/ mails[r] = 0,
         \A t \in Ticks : \/ tick'[t].phase \notin Holding
                          \/ /\ tick[t].phase \in Holding /\ tick'[t].row = tick[t].row
                             /\ tick'[t].held = tick[t].held
                          \/ since[tick'[t].row] <= Stale - 1 + tick'[t].held
                          \/ mails[tick'[t].row] = 0
  PROVE  Once'
<1>1. \A r \in Rows : mails[r] \in 0..2
  BY DEF Once, IInv, TypeOK
<1>2. \A t \in Ticks : tick[t].row \in Rows /\ tick'[t].row \in Rows
  <2>1. \A t \in Ticks : tick[t] \in Tick /\ tick'[t] \in Tick
    BY DEF Once, IInv, TypeOK
  <2> QED
    BY <2>1 DEF Tick
<1> QED
  BY <1>1, <1>2 DEF Once, Remembered, AtMostOneMail

LEMMA RestsOff ==
  ASSUME NEW t \in Ticks, NEW p \in {"off", "begun", "ready"}, IInv,
         SetTick(t, [Off EXCEPT !.phase = p])
  PROVE  \A u \in Ticks : tick'[u].phase \notin Holding \/ tick'[u] = tick[u]
<1>1. [Off EXCEPT !.phase = p].phase \notin Working
  BY OffTick
<1> QED
  BY <1>1 DEF SetTick, IInv, TypeOK, Working

LEMMA NextOnce ==
  ASSUME KeyMemory >= Stale + MaxStall, Once, [Next]_vars
  PROVE  Once'
<1>0. IInv /\ IInv' /\ TypeOK /\ TypeOK'
  BY NextIInv DEF Once, IInv
<1>1. CASE UNCHANGED vars
  <2>1. UNCHANGED <<row, wanted, lease, tick, mails, since>>
    BY <1>1 DEF vars
  <2> QED
    BY <1>0, <2>1, NoPost
<1>2. ASSUME NEW q \in Rows, Enqueue(q) \/ Choose(q) \/ Leave(q) PROVE Once'
  <2>1. tick' = tick /\ mails' = mails /\ since' = since
    BY <1>2 DEF Enqueue, Choose, Leave, provider
  <2>2. ASSUME NEW r \in Rows
        PROVE  \/ row'[r].state \in {"absent", "deleted"}
               \/ row[r].state \notin {"absent", "deleted"} /\ row'[r].age = row[r].age
               \/ mails[r] = 0
    <3>1. CASE row'[r] = row[r]
      BY <3>1
    <3>2. CASE Leave(q) /\ r = q
      <4>1. [NoRow EXCEPT !.state = "deleted"].state = "deleted"
        BY Gone
      <4> QED
        BY <1>0, <3>2, <4>1 DEF Leave, Write, TypeOK
    <3>3. CASE Enqueue(q) /\ r = q
      <4>1. ~Touched(r) /\ mails[r] \in 0..2
        BY <1>0, <3>3 DEF Enqueue, IInv, Told, TypeOK
      <4> QED
        BY <4>1 DEF Touched
    <3> QED
      BY <1>0, <1>2, <3>1, <3>2, <3>3 DEF Enqueue, Choose, Leave, Write, TypeOK
  <2> QED
    BY <1>0, <2>1, <2>2, NoPost
<1>3. ASSUME NEW t \in Ticks, Begin(t) \/ Sweep(t) \/ End(t) \/ Settle(t) PROVE Once'
  <2>1. mails' = mails /\ since' = since
    BY <1>3 DEF Begin, Sweep, End, Settle, provider
  <2>2. \A u \in Ticks : tick'[u].phase \notin Holding \/ tick'[u] = tick[u]
    <3>1. \E p \in {"off", "begun", "ready"} : SetTick(t, [Off EXCEPT !.phase = p])
      BY <1>3, OffTick DEF Begin, Sweep, End, Settle, Stop
    <3> QED
      BY <1>0, <3>1, RestsOff
  <2>3. ASSUME NEW r \in Rows
        PROVE  \/ row'[r] = row[r]
               \/ row[r].state \notin {"absent", "deleted"} /\ row'[r].age = row[r].age
    <3>0. row[r] \in Row
      BY <1>0, Types
    <3>1. CASE Begin(t) \/ End(t)
      BY <3>1 DEF Begin, End
    <3>2. CASE Sweep(t)
      BY <3>0, <3>2 DEF Sweep, Exhausted, Row
    <3>3. CASE Settle(t)
      <4>1. CASE row'[r] # row[r]
        <5>1. row'[r] = Settled(row[r], tick[t].attempts, tick[t].result) /\ row[r].state = "pending"
          BY <1>0, <3>3, <4>1 DEF Settle, Write, Open, TypeOK
        <5>2. row'[r].age = row[r].age
          BY <3>0, <5>1 DEF Settled, Row
        <5> QED
          BY <5>1, <5>2
      <4> QED
        BY <4>1
    <3> QED
      BY <1>3, <3>1, <3>2, <3>3
  <2> QED
    BY <1>0, <2>1, <2>2, <2>3, NoPost
<1>4. ASSUME NEW t \in Ticks, ClaimNext(t) PROVE Once'
  <2>1. PICK r \in Rows :
          /\ Claimable(r)
          /\ Write(r, [row[r] EXCEPT !.attempts = row[r].attempts + 1,
                                     !.wait = RetryDelay(row[r].attempts + 1)])
          /\ SetTick(t, [Off EXCEPT !.phase = "claimed", !.row = r,
                                    !.attempts = row[r].attempts + 1])
    BY <1>4 DEF ClaimNext
  <2>2. mails' = mails /\ since' = since
    BY <1>4 DEF ClaimNext, provider
  <2>3. row[r] \in Row /\ row[r].state = "pending" /\ row[r].age < Stale
        /\ row[r].age \in Nat /\ since[r] \in Nat /\ Stale \in Nat /\ mails[r] \in 0..2
    BY <1>0, <2>1, Types, Numbers DEF Claimable
  <2>4. \A q \in Rows : \/ row'[q] = row[q]
                        \/ row[q].state \notin {"absent", "deleted"} /\ row'[q].age = row[q].age
    BY <1>0, <2>1, <2>3 DEF Write, TypeOK, Row
  <2>5. tick'[t].row = r /\ tick'[t].held = 0 /\ \A u \in Ticks \ {t} : tick'[u] = tick[u]
    <3>1. Off \in Tick /\ Off.held = 0
      BY OffTick DEF Off
    <3> HIDE DEF Off
    <3> QED
      BY <1>0, <2>1, <3>1 DEF SetTick, TypeOK, Tick
  <2>6. mails[r] > 0 => since[r] <= Stale - 1
    BY <2>3 DEF Once, Remembered
  <2>7. since[r] <= Stale - 1 + tick'[t].held \/ mails[r] = 0
    BY <2>3, <2>5, <2>6
  <2> QED
    BY <1>0, <2>2, <2>4, <2>5, <2>7, NoPost
<1>5. ASSUME NEW t \in Ticks, Compose(t) PROVE Once'
  <2>1. row' = row /\ mails' = mails /\ since' = since
    BY <1>5 DEF Compose, provider
  <2>2. tick[t] \in Tick /\ tick[t].phase \in Holding
    BY <1>0, <1>5, Types DEF Compose, Holding
  <2>3. /\ \A u \in Ticks \ {t} : tick'[u] = tick[u]
        /\ tick'[t].row = tick[t].row /\ tick'[t].held = tick[t].held
    <3>1. PICK o \in {[tick[t] EXCEPT !.phase = "composed"],
                      [tick[t] EXCEPT !.phase = "answered", !.result = "skipped"],
                      [tick[t] EXCEPT !.phase = "answered", !.result = "deferred"]} :
            SetTick(t, o)
      BY <1>5 DEF Compose
    <3>2. o.row = tick[t].row /\ o.held = tick[t].held
      BY <2>2, <3>1 DEF Tick
    <3>3. tick \in [Ticks -> Tick]
      BY <1>0 DEF TypeOK
    <3> QED
      BY <3>1, <3>2, <3>3 DEF SetTick
  <2> QED
    BY <1>0, <2>1, <2>2, <2>3, NoPost
<1>6. ASSUME NEW t \in Ticks, Post(t) PROVE Once'
  <2> DEFINE r == tick[t].row
  <2>1. /\ r \in Rows /\ tick[t].phase \in Holding /\ row' = row /\ tick[t] \in Tick
        /\ tick[t].held \in Nat /\ tick[t].held <= MaxStall /\ since[r] \in Nat
        /\ mails[r] \in 0..2 /\ Stale \in Nat /\ MaxStall \in Nat /\ KeyMemory \in Nat
        /\ Stale >= 1
    BY <1>0, <1>6, Types, Numbers DEF Post, Holding
  <2>2. mails[r] > 0 => Remembers(r)
    BY <2>1 DEF Once, Remembered, Remembers
  <2>3. \/ mails' = mails /\ since' = since
        \/ /\ mails[r] = 0 /\ mails' = [mails EXCEPT ![r] = 1] /\ since' = [since EXCEPT ![r] = 0]
    BY <1>0, <1>6, <2>1, <2>2 DEF Post, provider, TypeOK
  <2>4. tick'[t].phase \notin Holding /\ \A u \in Ticks \ {t} : tick'[u] = tick[u]
    BY <1>0, <1>6, <2>1 DEF Post, SetTick, TypeOK, Tick, Holding
  <2>5. CASE mails' = mails /\ since' = since
    BY <1>0, <2>1, <2>4, <2>5, NoPost
  <2>6. CASE mails' = [mails EXCEPT ![r] = 1] /\ since' = [since EXCEPT ![r] = 0]
    <3> HIDE DEF r
    <3>1. /\ \A q \in Rows \ {r} : mails'[q] = mails[q] /\ since'[q] = since[q]
          /\ mails'[r] = 1 /\ since'[r] = 0
      BY <1>0, <2>1, <2>6 DEF TypeOK
    <3>2. AtMostOneMail'
      BY <3>1 DEF Once, AtMostOneMail
    <3>3. \A q \in Rows : row'[q].age \in Nat
      BY <1>0, <2>1, Types
    <3>4. ASSUME NEW u \in Ticks, tick'[u].phase \in Holding, mails'[tick'[u].row] > 0
          PROVE  since'[tick'[u].row] <= Stale - 1 + tick'[u].held
      <4>1. tick'[u] = tick[u] /\ tick[u].row \in Rows /\ tick[u].held \in Nat
        BY <1>0, <2>4, <3>4, Types
      <4>2. CASE tick[u].row = r
        BY <2>1, <3>1, <4>1, <4>2
      <4>3. CASE tick[u].row # r
        BY <3>1, <3>4, <4>1, <4>3 DEF Once, Remembered
      <4> QED
        BY <4>2, <4>3
    <3>5. ASSUME NEW q \in Rows, row'[q].state \notin {"absent", "deleted"},
                 row'[q].age < Stale, mails'[q] > 0
          PROVE  since'[q] <= row'[q].age
      BY <2>1, <3>1, <3>3, <3>5 DEF Once, Remembered
    <3> QED
      BY <1>0, <3>2, <3>4, <3>5 DEF Once, Remembered
  <2> QED
    BY <2>3, <2>5, <2>6
<1>7. CASE Prune
  <2>1. tick' = tick /\ mails' = mails /\ since' = since
    BY <1>7 DEF Prune, provider
  <2>2. ASSUME NEW r \in Rows
        PROVE  \/ row'[r].state \in {"absent", "deleted"} \/ row'[r] = row[r]
               \/ row[r].state \notin {"absent", "deleted"} /\ row'[r].age = row[r].age
    <3>1. [NoRow EXCEPT !.state = "deleted"].state = "deleted" /\ row[r] \in Row
      BY <1>0, Gone, Types
    <3> QED
      BY <1>7, <3>1 DEF Prune, Pruned, Row
  <2> QED
    BY <1>0, <2>1, <2>2, NoPost
<1>8. CASE Elapse
  <2>1. mails' = mails /\ \A r \in Rows : since'[r] <= since[r] + 1 /\ since[r] \in Nat
                                          /\ since'[r] \in Nat
    <3>1. \A n \in Nat : Older(n, KeyMemory) \in Nat /\ (n <= KeyMemory => Older(n, KeyMemory) <= n + 1)
      BY Numbers DEF Older
    <3>2. \A r \in Rows : since[r] \in Nat /\ since[r] <= KeyMemory
      BY <1>0, Types
    <3>3. mails' = mails /\ \A r \in Rows : since'[r] = Older(since[r], KeyMemory)
      BY <1>8 DEF Elapse
    <3> QED
      BY <3>1, <3>2, <3>3
  <2>2. ASSUME NEW r \in Rows, row'[r].state \notin {"absent", "deleted"},
               row'[r].age < Stale, mails'[r] > 0
        PROVE  since'[r] <= row'[r].age
    <3>1. row[r] \in Row /\ row[r].age \in Nat /\ Stale \in Nat /\ row[r].age <= Stale
      BY <1>0, Types, Numbers
    <3>2. row'[r].state = row[r].state /\ row'[r].age = Older(row[r].age, Stale)
      BY <1>8, <2>2, <3>1 DEF Elapse, Row
    <3>3. row[r].age < Stale /\ row'[r].age = row[r].age + 1
      BY <2>2, <3>1, <3>2 DEF Older
    <3>4. since[r] <= row[r].age
      BY <2>1, <2>2, <3>2, <3>3 DEF Once, Remembered
    <3> QED
      BY <2>1, <3>1, <3>3, <3>4
  <2>3. ASSUME NEW t \in Ticks, tick'[t].phase \in Holding, mails'[tick'[t].row] > 0
        PROVE  since'[tick'[t].row] <= Stale - 1 + tick'[t].held
    <3>1. /\ tick[t] \in Tick /\ tick[t].row \in Rows /\ tick[t].held \in Nat /\ Stale \in Nat
      BY <1>0, Types, Numbers
    <3>2. /\ tick'[t].row = tick[t].row /\ tick'[t].held = tick[t].held + 1
          /\ tick[t].phase \in Holding
      BY <1>8, <2>3, <3>1 DEF Elapse, Tick
    <3>3. since[tick[t].row] <= Stale - 1 + tick[t].held
      BY <2>1, <2>3, <3>2 DEF Once, Remembered
    <3> QED
      BY <2>1, <3>1, <3>2, <3>3
  <2>4. AtMostOneMail'
    BY <2>1 DEF Once, AtMostOneMail
  <2> QED
    BY <1>0, <2>2, <2>3, <2>4 DEF Once, Remembered
<1> QED
  BY <1>1, <1>2, <1>3, <1>4, <1>5, <1>6, <1>7, <1>8 DEF Next

\* At most one mail goes out per row, for any ticks, crashes and retries, if the
\* provider remembers a key for as long as a row may live and a tick may stall on
\* top: without the assumption the run email_outbox_margin finds a second mail.
THEOREM OneMailPerRow ==
  ASSUME KeyMemory >= Stale + MaxStall
  PROVE  Spec => []AtMostOneMail
<1>1. Init => Once
  <2> SUFFICES ASSUME Init PROVE Once
    OBVIOUS
  <2>1. IInv /\ (\A r \in Rows : mails[r] = 0) /\ (\A t \in Ticks : tick[t].row \in Rows)
    BY InitIInv, Types DEF Init, IInv
  <2> QED
    BY <2>1 DEF Once, Remembered, AtMostOneMail
<1>2. Once /\ [Next]_vars => Once'
  BY NextOnce
<1>3. Once => AtMostOneMail
  BY DEF Once
<1> QED
  BY <1>1, <1>2, <1>3, PTL DEF Spec
=============================================================================
