--------------------------- MODULE JobRunnerProofs ---------------------------
(***************************************************************************)
(* Proofs about JobRunner for any set of workers and any bounds.           *)
(*                                                                         *)
(* The properties are not inductive.  What carries them is the relation    *)
(* between the token in the row and the ticks in memory: a running tick    *)
(* has been superseded exactly when the row no longer holds its token, and *)
(* the tick that does hold it saw a version the row has not processed yet. *)
(***************************************************************************)
EXTENDS JobRunner, TLAPS

\* A tick that still has its lease in memory (the catch block forgets it).
Holding == {w \in Running : tick[w].pc # "throw"}

TickOK == tick \in [Workers -> Tick]

OwnershipInv == \A w \in Running : w \in superseded <=> job.token # w

VersionInv ==
  /\ job.processed =< job.requested
  /\ \A w \in Holding : /\ tick[w].version =< job.requested
                        /\ w \in late => tick[w].version < job.requested
                        /\ job.token = w => job.processed < tick[w].version

FenceInv == fence = "fenced" => InTx = {}

IInv ==
  /\ TypeOK
  /\ OwnershipInv
  /\ VersionInv
  /\ NoLostRequest
  /\ NoStrayCommit
  /\ CursorContinuity
  /\ FenceInv

-----------------------------------------------------------------------------
(* Updating one field of a row or of a tick keeps its type *)

\* Writing one field of a row within its range gives a row.
LEMMA RowFields ==
  ASSUME NEW r \in JobRow
  PROVE  /\ \A v \in 0..MaxVersion : /\ [r EXCEPT !.requested = v] \in JobRow
                                     /\ [r EXCEPT !.processed = v] \in JobRow
         /\ \A t \in Workers \cup {NoOwner} : [r EXCEPT !.token = t] \in JobRow
         /\ \A a \in 0..(Stale + 1) : [r EXCEPT !.age = a] \in JobRow
         /\ \A n \in 0..Paused : [r EXCEPT !.notBefore = n] \in JobRow
         /\ \A c \in 0..MaxCursor : [r EXCEPT !.cursor = c] \in JobRow
  BY DEF JobRow

\* Writing one field of a tick within its range gives a tick.
LEMMA TickFields ==
  ASSUME NEW r \in Tick
  PROVE  /\ \A p \in Phases : [r EXCEPT !.pc = p] \in Tick
         /\ \A b \in BOOLEAN : /\ [r EXCEPT !.lost = b] \in Tick
                               /\ [r EXCEPT !.fresh = b] \in Tick
         /\ \A c \in 0..MaxCursor : /\ [r EXCEPT !.cursor = c] \in Tick
                                    /\ [r EXCEPT !.next = c] \in Tick
         /\ \A v \in 0..MaxVersion : [r EXCEPT !.version = v] \in Tick
         /\ \A o \in Outcomes : [r EXCEPT !.outcome = o] \in Tick
  BY DEF Tick

\* A worker without a tick is well typed.
LEMMA NoTickType == NoTick \in Tick
  BY BoundsAssumption DEF NoTick, Tick, Phases, Outcomes

\* Giving a row back changes its lock and nothing else.
LEMMA UnlockedType ==
  ASSUME NEW r \in JobRow
  PROVE  /\ Unlocked(r) \in JobRow
         /\ Unlocked(r).token = NoOwner
         /\ Unlocked(r).requested = r.requested
         /\ Unlocked(r).processed = r.processed
         /\ Unlocked(r).notBefore = r.notBefore
         /\ Unlocked(r).cursor = r.cursor
<1> DEFINE q == [r EXCEPT !.token = NoOwner]
<1>1. /\ q \in JobRow /\ q.token = NoOwner
      /\ q.requested = r.requested /\ q.processed = r.processed
      /\ q.notBefore = r.notBefore /\ q.cursor = r.cursor
  BY RowFields DEF JobRow
<1>2. Unlocked(r) = [q EXCEPT !.age = 0]
  BY DEF Unlocked
<1> HIDE DEF q
<1>3. /\ [q EXCEPT !.age = 0] \in JobRow
      /\ [q EXCEPT !.age = 0].token = q.token
      /\ [q EXCEPT !.age = 0].requested = q.requested
      /\ [q EXCEPT !.age = 0].processed = q.processed
      /\ [q EXCEPT !.age = 0].notBefore = q.notBefore
      /\ [q EXCEPT !.age = 0].cursor = q.cursor
  BY <1>1, RowFields, BoundsAssumption DEF JobRow
<1> QED
  BY <1>1, <1>2, <1>3

-----------------------------------------------------------------------------
(* What the three ways to change one tick do to the sets of ticks *)

\* A tick that returns leaves every set of ticks; the others stay as they are.
LEMMA ReturnEffect ==
  ASSUME TickOK, NEW w \in Workers, Return(w)
  PROVE  /\ TickOK'
         /\ Running' = Running \ {w}
         /\ Holding' = Holding \ {w}
         /\ InTx' = InTx \ {w}
         /\ \A v \in Workers \ {w} : tick'[v] = tick[v]
<1>1. tick' = [tick EXCEPT ![w] = NoTick] /\ NoTick.pc = "idle"
  BY DEF Return, NoTick
<1> QED
  BY <1>1, NoTickType DEF TickOK, Running, Holding, InTx

\* A tick that goes on stays a running, holding tick.
LEMMA UpdateEffect ==
  ASSUME TickOK, NEW w \in Workers, NEW r \in Tick, r.pc \notin {"idle", "throw"},
         tick' = [tick EXCEPT ![w] = r]
  PROVE  /\ TickOK'
         /\ tick'[w] = r
         /\ Running' = Running \cup {w}
         /\ Holding' = Holding \cup {w}
         /\ InTx' = IF r.pc \in {"write", "end"} THEN InTx \cup {w} ELSE InTx \ {w}
         /\ \A v \in Workers \ {w} : tick'[v] = tick[v]
<1>1. TickOK' /\ tick'[w] = r /\ \A v \in Workers \ {w} : tick'[v] = tick[v]
  BY DEF TickOK
<1>2. Running' = Running \cup {w}
  BY <1>1 DEF Running
<1> QED
  BY <1>1, <1>2 DEF Running, Holding, InTx

\* A tick that throws keeps running (its catch block is due) but holds no lease.
LEMMA ThrowEffect ==
  ASSUME TickOK, NEW w \in Running, Throw(w)
  PROVE  /\ TickOK'
         /\ Running' = Running
         /\ Holding' = Holding \ {w}
         /\ InTx' = InTx \ {w}
         /\ tick'[w].cursor = tick[w].cursor
         /\ \A v \in Workers \ {w} : tick'[v] = tick[v]
<1> DEFINE r == [NoTick EXCEPT !.pc = "throw", !.cursor = tick[w].cursor]
<1>1. r \in Tick /\ r.pc = "throw" /\ r.cursor = tick[w].cursor
  <2>1. tick[w].cursor \in 0..MaxCursor
    BY DEF TickOK, Running, Tick
  <2>2. r = [[NoTick EXCEPT !.pc = "throw"] EXCEPT !.cursor = tick[w].cursor]
    OBVIOUS
  <2>3. [NoTick EXCEPT !.pc = "throw"] \in Tick
    BY NoTickType, TickFields DEF Phases
  <2>4. r \in Tick
    BY <2>1, <2>2, <2>3, TickFields
  <2> QED
    BY <2>4 DEF NoTick
<1>2. tick' = [tick EXCEPT ![w] = r]
  BY DEF Throw
<1> HIDE DEF r
<1>3. w \in Workers
  BY DEF Running
<1> QED
  BY <1>1, <1>2, <1>3 DEF TickOK, Running, Holding, InTx

-----------------------------------------------------------------------------
(* Each action preserves the invariant *)

\* The invariant holds in a fresh database with no tick running.
LEMMA InitEstablishes == Init => IInv
<1> SUFFICES ASSUME Init PROVE IInv
  OBVIOUS
<1>1. job \in JobRow /\ tick \in [Workers -> Tick]
  BY NoTickType, BoundsAssumption DEF Init, JobRow, Paused
<1>2. Running = {}
  BY DEF Init, Running, NoTick
<1>3. InTx = {} /\ Holding = {}
  BY <1>2 DEF Init, InTx, Holding, NoTick
<1>4. job.requested = 0 /\ job.processed = 0
  BY DEF Init
<1>5. TypeOK
  <2>1. retryAt \in 0..Retry
    BY BoundsAssumption DEF Init
  <2>2. owed \in BOOLEAN /\ late = {} /\ superseded = {} /\ strays = {} /\ fence = "active"
    BY DEF Init
  <2> QED
    BY <1>1, <2>1, <2>2 DEF TypeOK
<1> QED
  BY <1>2, <1>3, <1>4, <1>5
  DEF Init, IInv, OwnershipInv, VersionInv, NoLostRequest, NoStrayCommit,
      CursorContinuity, FenceInv

\* A request raises the version above those the running ticks saw.
LEMMA AcceptPreserves ==
  ASSUME IInv, job.requested < MaxVersion, Accept
  PROVE  IInv'
<1>1. /\ job' \in JobRow
      /\ job'.requested = job.requested + 1
      /\ job'.processed = job.processed
      /\ job'.token = job.token
      /\ job'.cursor = job.cursor
  BY RowFields, BoundsAssumption DEF Accept, IInv, TypeOK, JobRow
<1>2. Running' = Running /\ Holding' = Holding /\ InTx' = InTx
  BY DEF Accept, Running, Holding, InTx
<1>3. job.requested \in Nat /\ job.processed \in Nat
  BY BoundsAssumption DEF IInv, TypeOK, JobRow
<1>4. \A w \in Workers : tick[w].version \in Nat
  BY BoundsAssumption DEF IInv, TypeOK, Tick
<1> QED
  BY <1>1, <1>2, <1>3, <1>4
  DEF Accept, Running, Holding, IInv, TypeOK, OwnershipInv, VersionInv, NoLostRequest, NoStrayCommit,
      CursorContinuity, FenceInv

\* A claim gives the row and its cursor to one tick and supersedes the old owner.
LEMMA ClaimPreserves ==
  ASSUME IInv, NEW w \in Workers, Claimable(w), NEW version \in 0..MaxVersion,
         job.requested =< version, job.processed < version, ClaimAs(w, version)
  PROVE  IInv'
<1> DEFINE r == [NoTick EXCEPT !.pc = "run", !.version = version, !.cursor = job.cursor]
<1>1. r \in Tick /\ r.pc = "run" /\ r.version = version /\ r.cursor = job.cursor
  <2>1. job.cursor \in 0..MaxCursor
    BY DEF IInv, TypeOK, JobRow
  <2>2. r = [[[NoTick EXCEPT !.pc = "run"] EXCEPT !.version = version] EXCEPT !.cursor = job.cursor]
    OBVIOUS
  <2>3. [NoTick EXCEPT !.pc = "run"] \in Tick
    BY NoTickType, TickFields DEF Phases
  <2>4. [[NoTick EXCEPT !.pc = "run"] EXCEPT !.version = version] \in Tick
    BY <2>3, TickFields
  <2> QED
    BY <2>1, <2>2, <2>4, TickFields DEF NoTick
<1>2. tick' = [tick EXCEPT ![w] = r]
  BY DEF ClaimAs
<1> HIDE DEF r
<1>3. /\ tick' \in [Workers -> Tick]
      /\ tick'[w] = r
      /\ Running' = Running \cup {w}
      /\ Holding' = Holding \cup {w}
      /\ InTx' = InTx \ {w}
      /\ \A v \in Workers \ {w} : tick'[v] = tick[v]
  BY <1>1, <1>2, UpdateEffect DEF IInv, TypeOK, TickOK
<1>4. /\ job' \in JobRow /\ job'.token = w /\ job'.requested = version
      /\ job'.processed = job.processed /\ job'.cursor = job.cursor
  <2> DEFINE p == [job EXCEPT !.token = w]
  <2>0. p \in JobRow /\ p.token = w /\ p.processed = job.processed /\ p.cursor = job.cursor
    BY RowFields DEF IInv, TypeOK, JobRow
  <2> HIDE DEF p
  <2>1. /\ [p EXCEPT !.age = 0] \in JobRow /\ [p EXCEPT !.age = 0].token = w
        /\ [p EXCEPT !.age = 0].processed = job.processed
        /\ [p EXCEPT !.age = 0].cursor = job.cursor
    BY <2>0, RowFields, BoundsAssumption DEF JobRow
  <2>2. job' = [[p EXCEPT !.age = 0] EXCEPT !.requested = version]
    BY DEF ClaimAs, p
  <2> DEFINE q == [p EXCEPT !.age = 0]
  <2> HIDE DEF q
  <2> QED
    BY <2>1, <2>2, RowFields DEF JobRow
<1>5. w \notin Running /\ fence = "active" /\ w \notin late
  BY DEF Claimable, Running, IInv, TypeOK
<1>6. job.requested \in Nat /\ job.processed \in Nat /\ version \in Nat
  BY BoundsAssumption DEF IInv, TypeOK, JobRow
<1>7. \A v \in Workers : tick[v].version \in Nat
  BY BoundsAssumption DEF IInv, TypeOK, Tick
<1>8. TypeOK'
  BY <1>3, <1>4, <1>5 DEF ClaimAs, IInv, TypeOK
<1>9. OwnershipInv'
  BY <1>3, <1>4, <1>5 DEF ClaimAs, IInv, OwnershipInv, Running
<1>10. VersionInv'
  BY <1>1, <1>3, <1>4, <1>5, <1>6, <1>7 DEF ClaimAs, IInv, VersionInv, Holding, Running
<1>11. NoLostRequest' /\ NoStrayCommit'
  BY <1>4, <1>6 DEF ClaimAs, IInv, NoLostRequest, NoStrayCommit
<1>12. CursorContinuity'
  BY <1>1, <1>3, <1>4, <1>5 DEF IInv, CursorContinuity, Running
<1>13. FenceInv'
  BY <1>5 DEF ClaimAs, FenceInv
<1> QED
  BY <1>8, <1>9, <1>10, <1>11, <1>12, <1>13 DEF IInv

\* The owner of the row is never superseded, so its commits are no strays.
LEMMA OwnerCommits ==
  ASSUME IInv, NEW w \in Running, job.token = w, Commits(w)
  PROVE  strays' = strays
  BY DEF IInv, OwnershipInv, NoStrayCommit, Commits

\* A tick that throws touches neither the row nor the history.
LEMMA ThrowPreserves ==
  ASSUME IInv, NEW w \in Running, Throw(w), UNCHANGED <<row, hist>>
  PROVE  IInv'
<1>1. /\ TickOK' /\ Running' = Running /\ Holding' = Holding \ {w} /\ InTx' = InTx \ {w}
      /\ tick'[w].cursor = tick[w].cursor
      /\ \A v \in Workers \ {w} : tick'[v] = tick[v]
  BY ThrowEffect DEF IInv, TypeOK, TickOK
<1>2. TypeOK'
  BY <1>1 DEF IInv, TypeOK, TickOK, row, hist
<1>3. VersionInv'
  BY <1>1 DEF IInv, VersionInv, Holding, Running, row, hist
<1>4. CursorContinuity'
  BY <1>1 DEF IInv, CursorContinuity, Running, row
<1> QED
  BY <1>1, <1>2, <1>3, <1>4
  DEF IInv, OwnershipInv, NoLostRequest, NoStrayCommit, FenceInv, row, hist

\* A tick that returns without writing leaves the row to its lock.
LEMMA ReturnPreserves ==
  ASSUME IInv, NEW w \in Running, Return(w), UNCHANGED <<row, owed, strays>>
  PROVE  IInv'
<1>1. /\ TickOK' /\ Running' = Running \ {w} /\ Holding' = Holding \ {w}
      /\ InTx' = InTx \ {w} /\ \A v \in Workers \ {w} : tick'[v] = tick[v]
  BY ReturnEffect DEF IInv, TypeOK, TickOK, Running
<1>2. late' = late \ {w} /\ superseded' = superseded \ {w}
  BY DEF Return
<1>3. TypeOK'
  BY <1>1, <1>2 DEF IInv, TypeOK, TickOK, row
<1>4. OwnershipInv'
  BY <1>1, <1>2 DEF IInv, OwnershipInv, row
<1>5. VersionInv'
  BY <1>1, <1>2 DEF IInv, VersionInv, Holding, Running, row
<1>6. CursorContinuity'
  BY <1>1 DEF IInv, CursorContinuity, Running, row
<1> QED
  BY <1>1, <1>3, <1>4, <1>5, <1>6
  DEF IInv, NoLostRequest, NoStrayCommit, FenceInv, row

\* The owner gives the row back without acknowledging anything.
LEMMA ReleasePreserves ==
  ASSUME IInv, NEW w \in Running, job.token = w,
         job' \in JobRow, job'.token = NoOwner, job'.requested = job.requested,
         job'.processed = job.processed,
         Commits(w), Return(w), UNCHANGED <<fence, retryAt, owed>>
  PROVE  IInv'
<1>1. /\ TickOK' /\ Running' = Running \ {w} /\ Holding' = Holding \ {w}
      /\ InTx' = InTx \ {w} /\ \A v \in Workers \ {w} : tick'[v] = tick[v]
  BY ReturnEffect DEF IInv, TypeOK, TickOK, Running
<1>2. late' = late \ {w} /\ superseded' = superseded \ {w} /\ strays' = strays
  BY OwnerCommits DEF Return
<1>3. TypeOK'
  BY <1>1, <1>2 DEF IInv, TypeOK, TickOK
<1>4. OwnershipInv' /\ CursorContinuity'
  BY <1>1, <1>2, WorkersAssumption DEF IInv, OwnershipInv, CursorContinuity, Running
<1>5. VersionInv'
  BY <1>1, <1>2, WorkersAssumption DEF IInv, VersionInv, Holding, Running
<1> QED
  BY <1>1, <1>2, <1>3, <1>4, <1>5 DEF IInv, NoLostRequest, NoStrayCommit, FenceInv

\* Lock age and notBefore matter to no conjunct but the types.
LEMMA RowPreserves ==
  ASSUME IInv, job' \in JobRow, job'.token = job.token, job'.cursor = job.cursor,
         job'.requested = job.requested, job'.processed = job.processed,
         retryAt' \in 0..Retry, UNCHANGED <<fence, tick, hist>>
  PROVE  IInv'
<1>1. Running' = Running /\ Holding' = Holding /\ InTx' = InTx
  BY DEF Running, Holding, InTx
<1>2. TypeOK'
  BY <1>1 DEF IInv, TypeOK, hist
<1> QED
  BY <1>1, <1>2 DEF IInv, OwnershipInv, VersionInv, NoLostRequest, NoStrayCommit,
                    CursorContinuity, FenceInv, hist

\* A tick moves on with the lease it has.
LEMMA ContinuePreserves ==
  ASSUME IInv, NEW w \in Holding, NEW r \in Tick, r.pc \notin {"idle", "throw"},
         r.version = tick[w].version, r.cursor = tick[w].cursor,
         r.pc \in {"write", "end"} => fence = "active",
         tick' = [tick EXCEPT ![w] = r], UNCHANGED <<row, hist>>
  PROVE  IInv'
<1>1. w \in Workers /\ w \in Running /\ w \in Holding
  BY DEF Holding, Running
<1>2. /\ TickOK' /\ tick'[w] = r /\ Running' = Running \cup {w}
      /\ Holding' = Holding \cup {w}
      /\ InTx' = IF r.pc \in {"write", "end"} THEN InTx \cup {w} ELSE InTx \ {w}
      /\ \A v \in Workers \ {w} : tick'[v] = tick[v]
  BY <1>1, UpdateEffect DEF IInv, TypeOK, TickOK
<1>3. Running' = Running /\ Holding' = Holding
  BY <1>1, <1>2
<1>4. TypeOK'
  BY <1>2, <1>3 DEF IInv, TypeOK, TickOK, row, hist
<1>5. VersionInv'
  BY <1>2, <1>3 DEF IInv, VersionInv, Holding, Running, row, hist
<1>6. CursorContinuity'
  BY <1>2, <1>3 DEF IInv, CursorContinuity, Running, row
<1>7. FenceInv'
  BY <1>2 DEF IInv, FenceInv, row
<1> QED
  BY <1>3, <1>4, <1>5, <1>6, <1>7
  DEF IInv, OwnershipInv, NoLostRequest, NoStrayCommit, row, hist

\* A heartbeat renews only the lock of its own tick.
LEMMA HeartbeatPreserves ==
  ASSUME IInv, NEW w \in Workers, Heartbeat(w) \/ HeartbeatError(w)
  PROVE  IInv'
<1>1. w \in Running /\ w \in Holding /\ tick[w] \in Tick
  BY DEF Heartbeat, HeartbeatError, Running, Holding, IInv, TypeOK
<1>2. CASE Heartbeat(w) /\ Owned(w)
  <2>1. /\ job' \in JobRow /\ job'.token = job.token /\ job'.cursor = job.cursor
        /\ job'.requested = job.requested /\ job'.processed = job.processed
    BY <1>2, RowFields, BoundsAssumption DEF Heartbeat, IInv, TypeOK, JobRow
  <2>2. strays' = strays
    BY <1>1, <1>2, OwnerCommits DEF Heartbeat, Owned
  <2> QED
    BY <1>2, <2>1, <2>2, RowPreserves DEF Heartbeat, IInv, TypeOK, hist
<1>3. CASE ~(Heartbeat(w) /\ Owned(w))
  <2> DEFINE r == [tick[w] EXCEPT !.lost = TRUE]
  <2>1. /\ r \in Tick /\ r.pc = tick[w].pc /\ r.version = tick[w].version
        /\ r.cursor = tick[w].cursor
    BY <1>1, TickFields DEF Tick
  <2>2. tick' = [tick EXCEPT ![w] = r] /\ UNCHANGED <<row, hist>>
    BY <1>3 DEF Heartbeat, HeartbeatError, row, hist
  <2>3. r.pc \in {"write", "end"} => fence = "active"
    BY <1>1, <2>1 DEF IInv, TypeOK, FenceInv, InTx, Running
  <2>4. r.pc \notin {"idle", "throw"}
    BY <1>1, <2>1 DEF Holding, Running
  <2> HIDE DEF r
  <2> QED
    BY <1>1, <2>1, <2>2, <2>3, <2>4, ContinuePreserves
<1> QED
  BY <1>2, <1>3

\* A saved cursor moves in the row and in memory together.
LEMMA SavePreserves ==
  ASSUME IInv, NEW w \in Workers, Save(w)
  PROVE  IInv'
<1>1. w \in Running /\ w \in Holding /\ tick[w] \in Tick
  BY DEF Save, Running, Holding, IInv, TypeOK
<1>2. CASE ~(Owned(w) /\ ~tick[w].lost)
  BY <1>1, <1>2, ThrowPreserves DEF Save, row, hist
<1>3. CASE Owned(w) /\ ~tick[w].lost
  <2> DEFINE c == tick[w].cursor + 1
             r == [tick[w] EXCEPT !.cursor = c]
  <2>1. c \in 0..MaxCursor
    BY <1>1, BoundsAssumption DEF Save, Tick
  <2>2. /\ job' \in JobRow /\ job'.token = job.token /\ job'.cursor = c
        /\ job'.requested = job.requested /\ job'.processed = job.processed
    BY <1>3, <2>1, RowFields DEF Save, IInv, TypeOK, JobRow
  <2>3. r \in Tick /\ r.pc = "run" /\ r.version = tick[w].version /\ r.cursor = c
    BY <1>1, <2>1, TickFields DEF Tick, Save
  <2>4. tick' = [tick EXCEPT ![w] = r]
    BY <1>3 DEF Save
  <2> HIDE DEF c, r
  <2>5. /\ TickOK' /\ tick'[w] = r /\ Running' = Running \cup {w}
        /\ Holding' = Holding \cup {w} /\ InTx' = InTx \ {w}
        /\ \A v \in Workers \ {w} : tick'[v] = tick[v]
    BY <2>3, <2>4, UpdateEffect DEF IInv, TypeOK, TickOK
  <2>6. Running' = Running /\ Holding' = Holding
    BY <1>1, <2>5
  <2>7. strays' = strays /\ job.token = w
    BY <1>1, <1>3, OwnerCommits DEF Save, Owned
  <2>8. UNCHANGED <<fence, retryAt, late, owed, superseded>>
    BY DEF Save
  <2>9. TypeOK'
    BY <2>2, <2>5, <2>6, <2>7, <2>8 DEF IInv, TypeOK, TickOK
  <2>10. VersionInv'
    BY <2>2, <2>3, <2>5, <2>6, <2>8 DEF IInv, VersionInv, Holding, Running
  <2>11. CursorContinuity'
    BY <2>2, <2>3, <2>5, <2>6, <2>7 DEF CursorContinuity, Running
  <2> QED
    BY <2>2, <2>5, <2>6, <2>7, <2>8, <2>9, <2>10, <2>11
    DEF IInv, OwnershipInv, NoLostRequest, NoStrayCommit, FenceInv
<1> QED
  BY <1>2, <1>3

\* A guarded write begins on an active site and commits only for the owner.
LEMMA WritePreserves ==
  ASSUME IInv, NEW w \in Workers, BeginWrite(w) \/ CommitWrite(w)
  PROVE  IInv'
<1>1. w \in Running /\ w \in Holding /\ tick[w] \in Tick
  BY DEF BeginWrite, CommitWrite, Running, Holding, IInv, TypeOK
<1>2. CASE BeginWrite(w) /\ fence # "active"
  BY <1>1, <1>2, ReturnPreserves DEF BeginWrite
<1>3. CASE BeginWrite(w) /\ fence = "active"
  <2> DEFINE q == [tick[w] EXCEPT !.pc = "write"]
             r == [q EXCEPT !.fresh = Fresh]
  <2>1. q \in Tick /\ q.pc = "write" /\ q.version = tick[w].version /\ q.cursor = tick[w].cursor
    BY <1>1, TickFields DEF Tick, Phases
  <2>2. tick' = [tick EXCEPT ![w] = r]
    BY <1>3 DEF BeginWrite
  <2> HIDE DEF q
  <2>0. Fresh \in BOOLEAN
    BY DEF Fresh
  <2>3. r \in Tick /\ r.pc = "write" /\ r.version = tick[w].version /\ r.cursor = tick[w].cursor
    <3>1. r \in Tick
      BY <2>0, <2>1, TickFields
    <3> QED
      BY <2>1, <3>1 DEF Tick
  <2>4. UNCHANGED <<row, hist>>
    BY <1>3 DEF BeginWrite, hist
  <2> HIDE DEF r
  <2> QED
    BY <1>1, <1>3, <2>2, <2>3, <2>4, ContinuePreserves
<1>4. CASE CommitWrite(w) /\ ~OwnedInTx(w)
  BY <1>1, <1>4, ThrowPreserves DEF CommitWrite, hist
<1>5. CASE CommitWrite(w) /\ OwnedInTx(w)
  <2> DEFINE q == [tick[w] EXCEPT !.pc = "run"]
             r == [q EXCEPT !.fresh = FALSE]
  <2>1. q \in Tick /\ q.pc = "run" /\ q.version = tick[w].version /\ q.cursor = tick[w].cursor
    BY <1>1, TickFields DEF Tick, Phases
  <2>2. tick' = [tick EXCEPT ![w] = r]
    BY <1>5 DEF CommitWrite
  <2> HIDE DEF q
  <2>3. r \in Tick /\ r.pc = "run" /\ r.version = tick[w].version /\ r.cursor = tick[w].cursor
    BY <2>1, TickFields DEF Tick
  <2>4. strays' = strays
    BY <1>1, <1>5, OwnerCommits DEF CommitWrite, OwnedInTx
  <2>5. UNCHANGED <<row, hist>>
    BY <1>5, <2>4 DEF CommitWrite, hist
  <2> HIDE DEF r
  <2> QED
    BY <1>1, <2>2, <2>3, <2>5, ContinuePreserves
<1> QED
  BY <1>2, <1>3, <1>4, <1>5

\* The handler returns: into its ending transaction, the catch block or nothing.
LEMMA FinishPreserves ==
  ASSUME IInv, NEW w \in Workers, NEW o \in Outcomes, NEW c \in {0, tick[w].cursor},
         Finish(w, o, c)
  PROVE  IInv'
<1>1. w \in Running /\ w \in Holding /\ tick[w] \in Tick
  BY DEF Finish, Running, Holding, IInv, TypeOK
<1>2. CASE tick[w].lost
  BY <1>1, <1>2, ThrowPreserves DEF Finish, hist
<1>3. CASE ~tick[w].lost /\ fence # "active"
  BY <1>1, <1>3, ReturnPreserves DEF Finish
<1>4. CASE ~tick[w].lost /\ fence = "active"
  <2> DEFINE p == [tick[w] EXCEPT !.pc = "end"]
             q == [p EXCEPT !.fresh = Fresh]
             s == [q EXCEPT !.outcome = o]
             r == [s EXCEPT !.next = c]
  <2>1. p \in Tick /\ p.pc = "end" /\ p.version = tick[w].version /\ p.cursor = tick[w].cursor
    BY <1>1, TickFields DEF Tick, Phases
  <2>2. tick' = [tick EXCEPT ![w] = r]
    BY <1>4 DEF Finish
  <2> HIDE DEF p
  <2>0. Fresh \in BOOLEAN
    BY DEF Fresh
  <2>3. q \in Tick /\ q.pc = "end" /\ q.version = tick[w].version /\ q.cursor = tick[w].cursor
    <3>1. q \in Tick
      BY <2>0, <2>1, TickFields
    <3> QED
      BY <2>1, <3>1 DEF Tick
  <2> HIDE DEF q
  <2>4. s \in Tick /\ s.pc = "end" /\ s.version = tick[w].version /\ s.cursor = tick[w].cursor
    BY <2>3, TickFields DEF Tick
  <2> HIDE DEF s
  <2>5. c \in 0..MaxCursor
    BY <1>1, BoundsAssumption DEF Tick
  <2>6. r \in Tick /\ r.pc = "end" /\ r.version = tick[w].version /\ r.cursor = tick[w].cursor
    BY <2>4, <2>5, TickFields DEF Tick
  <2>7. UNCHANGED <<row, hist>>
    BY <1>4 DEF Finish, hist
  <2> HIDE DEF r
  <2> QED
    BY <1>1, <1>4, <2>2, <2>6, <2>7, ContinuePreserves
<1> QED
  BY <1>2, <1>3, <1>4

\* The three ways to give the row back without an acknowledgement.
LEMMA GiveBackPreserves ==
  ASSUME IInv, NEW w \in Workers,
         CommitDeferred(w) \/ ReleaseBlocked(w) \/ RecordFailure(w)
  PROVE  IInv'
<1>1. w \in Running /\ job \in JobRow
  BY DEF CommitDeferred, ReleaseBlocked, RecordFailure, Running, IInv, TypeOK
<1>2. CASE ReleaseBlocked(w) /\ ~(Owned(w) /\ ~tick[w].lost)
  BY <1>1, <1>2, ThrowPreserves DEF ReleaseBlocked, row, hist
<1>3. CASE RecordFailure(w) /\ ~Owned(w)
  BY <1>1, <1>3, ReturnPreserves DEF RecordFailure, row
<1>4. CASE job' = Unlocked(job) /\ Owned(w) /\ (CommitDeferred(w) \/ ReleaseBlocked(w))
  <2>1. Commits(w) /\ Return(w) /\ UNCHANGED <<fence, retryAt, owed>>
    BY <1>4, WorkersAssumption, <1>1, UnlockedType
    DEF CommitDeferred, ReleaseBlocked, Owned
  <2> QED
    BY <1>1, <1>4, <2>1, UnlockedType, ReleasePreserves DEF Owned
<1>5. CASE RecordFailure(w) /\ Owned(w)
  <2> DEFINE u == Unlocked(job)
             n == IF u.notBefore = Paused THEN Paused ELSE Retry
  <2>1. /\ u \in JobRow /\ u.token = NoOwner /\ u.requested = job.requested
        /\ u.processed = job.processed
    BY <1>1, UnlockedType
  <2>2. job' = [u EXCEPT !.notBefore = n]
    BY <1>5 DEF RecordFailure
  <2>3. n \in 0..Paused
    BY BoundsAssumption DEF Paused
  <2> HIDE DEF u, n
  <2>4. /\ job' \in JobRow /\ job'.token = NoOwner /\ job'.requested = job.requested
        /\ job'.processed = job.processed
    BY <2>1, <2>2, <2>3, RowFields DEF JobRow
  <2> QED
    BY <1>1, <1>5, <2>4, ReleasePreserves DEF RecordFailure, Owned
<1> QED
  BY <1>2, <1>3, <1>4, <1>5 DEF CommitDeferred, ReleaseBlocked

\* What an acknowledgement leaves in the row.
LEMMA AckEffect ==
  ASSUME IInv, NEW w \in Workers, CommitAck(w)
  PROVE  /\ job' \in JobRow
         /\ job'.token = NoOwner
         /\ job'.processed = tick[w].version
         /\ job'.requested = NextRequested(w)
         /\ job'.notBefore = NextNotBefore(w)
         /\ NextRequested(w) \in {job.requested, job.requested + 1}
<1> DEFINE u == Unlocked(job)
<1>1. /\ u \in JobRow /\ u.token = NoOwner
  BY UnlockedType DEF IInv, TypeOK
<1>2. tick[w].version \in 0..MaxVersion /\ tick[w].next \in 0..MaxCursor
  BY DEF IInv, TypeOK, Tick
<1>3. /\ NextRequested(w) \in 0..MaxVersion
      /\ NextRequested(w) \in {job.requested, job.requested + 1}
  BY BoundsAssumption DEF NextRequested, IInv, TypeOK, JobRow
<1>4. NextNotBefore(w) \in 0..Paused
  BY BoundsAssumption DEF NextNotBefore, Paused, IInv, TypeOK, JobRow
<1> DEFINE p == [u EXCEPT !.processed = tick[w].version]
           q == [p EXCEPT !.requested = NextRequested(w)]
           r == [q EXCEPT !.notBefore = NextNotBefore(w)]
<1>5. job' = [r EXCEPT !.cursor = tick[w].next]
  BY DEF CommitAck, Acknowledged
<1> HIDE DEF u
<1>6. p \in JobRow /\ p.token = NoOwner /\ p.processed = tick[w].version
  BY <1>1, <1>2, RowFields DEF JobRow
<1> HIDE DEF p
<1>7. /\ q \in JobRow /\ q.token = NoOwner /\ q.processed = tick[w].version
      /\ q.requested = NextRequested(w)
  BY <1>3, <1>6, RowFields DEF JobRow
<1> HIDE DEF q
<1>8. /\ r \in JobRow /\ r.token = NoOwner /\ r.processed = tick[w].version
      /\ r.requested = NextRequested(w) /\ r.notBefore = NextNotBefore(w)
  BY <1>4, <1>7, RowFields DEF JobRow
<1> HIDE DEF r
<1> QED
  BY <1>2, <1>3, <1>5, <1>8, RowFields DEF JobRow

\* An acknowledgement settles the request of its claim and no later one.
LEMMA AckPreserves ==
  ASSUME IInv, NEW w \in Workers, CommitAck(w)
  PROVE  IInv'
<1>1. w \in Running /\ w \in Holding /\ job.token = w
  BY DEF CommitAck, OwnedInTx, Running, Holding
<1>2. /\ job' \in JobRow /\ job'.token = NoOwner /\ job'.processed = tick[w].version
      /\ job'.requested = NextRequested(w)
      /\ NextRequested(w) \in {job.requested, job.requested + 1}
  BY AckEffect
<1>3. /\ TickOK' /\ Running' = Running \ {w} /\ Holding' = Holding \ {w}
      /\ InTx' = InTx \ {w} /\ \A v \in Workers \ {w} : tick'[v] = tick[v]
  BY ReturnEffect DEF CommitAck, IInv, TypeOK, TickOK
<1>4. /\ late' = late \ {w} /\ superseded' = superseded \ {w} /\ strays' = strays
      /\ UNCHANGED <<fence, retryAt>>
  BY <1>1, OwnerCommits DEF CommitAck, Return
<1>5. owed' = (w \in late \/ NextRequested(w) > job.requested)
  BY DEF CommitAck
<1>6. /\ job.requested \in Nat /\ \A v \in Workers : tick[v].version \in Nat
  BY BoundsAssumption DEF IInv, TypeOK, JobRow, Tick
<1>7. /\ tick[w].version =< job.requested
      /\ w \in late => tick[w].version < job.requested
  BY <1>1 DEF IInv, VersionInv
<1>8. NoLostRequest'
  <2> SUFFICES ASSUME owed' PROVE job'.requested > job'.processed
    BY DEF NoLostRequest
  <2>1. w \in late \/ NextRequested(w) > job.requested
    BY <1>5, Zenon
  <2>2. w \in late => tick[w].version < job.requested
    BY <1>7
  <2> QED
    BY <1>2, <1>6, <1>7, <2>1, <2>2
<1>9. owed' \in BOOLEAN
  <2>1. (w \in late \/ NextRequested(w) > job.requested) \in BOOLEAN
    OBVIOUS
  <2> QED
    BY <1>5, <2>1, Zenon
<1>10. TypeOK'
  BY <1>2, <1>3, <1>4, <1>9 DEF IInv, TypeOK, TickOK
<1>11. OwnershipInv' /\ CursorContinuity'
  BY <1>1, <1>2, <1>3, <1>4, WorkersAssumption
  DEF IInv, OwnershipInv, CursorContinuity, Running
<1>12. VersionInv'
  BY <1>2, <1>3, <1>4, <1>6, <1>7, WorkersAssumption DEF IInv, VersionInv, Holding, Running
<1> QED
  BY <1>3, <1>4, <1>8, <1>10, <1>11, <1>12 DEF IInv, NoStrayCommit, FenceInv

\* Revocation, operator, fence and time preserve the invariant.
LEMMA WorldPreserves ==
  ASSUME IInv, RevokeToken \/ Pause \/ Resume \/ FenceSite \/ Time \/ Stall
  PROVE  IInv'
<1>1. job \in JobRow /\ retryAt \in 0..Retry
  BY DEF IInv, TypeOK
<1>2. CASE RevokeToken
  <2>1. /\ job' \in JobRow /\ job'.token = NoOwner /\ job'.requested = job.requested
        /\ job'.processed = job.processed
    BY <1>1, <1>2, UnlockedType DEF RevokeToken
  <2>2. Running' = Running /\ Holding' = Holding /\ InTx' = InTx
    BY <1>2 DEF RevokeToken, Running, Holding, InTx
  <2>3. TypeOK'
    BY <1>2, <2>1, <2>2 DEF RevokeToken, IInv, TypeOK
  <2>4. OwnershipInv' /\ CursorContinuity'
    BY <1>2, <2>1, <2>2, WorkersAssumption
    DEF RevokeToken, IInv, OwnershipInv, CursorContinuity, Running
  <2>5. VersionInv'
    BY <1>2, <2>1, <2>2, WorkersAssumption
    DEF RevokeToken, IInv, VersionInv, Holding, Running
  <2> QED
    BY <1>2, <2>1, <2>2, <2>3, <2>4, <2>5
    DEF RevokeToken, IInv, NoLostRequest, NoStrayCommit, FenceInv
<1>3. CASE Pause \/ Resume
  <2>1. Paused \in 0..Paused /\ retryAt \in 0..Paused /\ 0 \in 0..Retry
    BY <1>1, BoundsAssumption DEF Paused
  <2>2. job.notBefore # Paused => job.notBefore \in 0..Retry
    BY <1>1, BoundsAssumption DEF Paused, JobRow
  <2>3. /\ job' \in JobRow /\ job'.token = job.token /\ job'.cursor = job.cursor
        /\ job'.requested = job.requested /\ job'.processed = job.processed
    BY <1>1, <1>3, <2>1, RowFields DEF Pause, Resume, JobRow
  <2> QED
    BY <1>3, <2>1, <2>2, <2>3, RowPreserves DEF Pause, Resume
<1>4. CASE FenceSite
  <2>1. Running' = Running /\ Holding' = Holding /\ InTx' = {}
    BY <1>4 DEF FenceSite, Running, Holding, InTx, hist
  <2> QED
    BY <1>4, <2>1
    DEF FenceSite, IInv, TypeOK, OwnershipInv, VersionInv, NoLostRequest, NoStrayCommit,
        CursorContinuity, FenceInv, hist
<1>5. CASE Time \/ Stall
  <2> DEFINE a == IF job.token # NoOwner /\ Fresh THEN job.age + 1 ELSE job.age
             q == [job EXCEPT !.age = a]
  <2>1. a \in 0..(Stale + 1)
    BY <1>1, BoundsAssumption DEF JobRow, Fresh
  <2>2. Left(job.notBefore) \in 0..Paused /\ Left(retryAt) \in 0..Retry
    BY <1>1, BoundsAssumption DEF Left, JobRow, Paused
  <2>3. job' = [q EXCEPT !.notBefore = Left(job.notBefore)]
    BY <1>5 DEF Time, Stall, Elapse
  <2> HIDE DEF a
  <2>4. /\ q \in JobRow /\ q.token = job.token /\ q.cursor = job.cursor
        /\ q.requested = job.requested /\ q.processed = job.processed
    BY <1>1, <2>1, RowFields DEF JobRow
  <2> HIDE DEF q
  <2>5. /\ job' \in JobRow /\ job'.token = job.token /\ job'.cursor = job.cursor
        /\ job'.requested = job.requested /\ job'.processed = job.processed
    BY <2>2, <2>3, <2>4, RowFields DEF JobRow
  <2> QED
    BY <1>5, <2>2, <2>5, RowPreserves DEF Time, Stall, Elapse
<1> QED
  BY <1>2, <1>3, <1>4, <1>5

-----------------------------------------------------------------------------
(* The invariant and what follows from it *)

\* A claim consumes a version the row has not processed.
LEMMA ClaimsPreserve ==
  ASSUME IInv, NEW w \in Workers, ClaimRequested(w) \/ ClaimDirect(w)
  PROVE  IInv'
<1>1. /\ job.requested \in Nat /\ job.processed \in Nat /\ MaxVersion \in Nat
      /\ job.requested < MaxVersion /\ job.processed =< job.requested
      /\ Claimable(w)
  BY BoundsAssumption
  DEF ClaimRequested, ClaimDirect, Claimable, IInv, TypeOK, JobRow, VersionInv
<1>2. CASE ClaimRequested(w)
  <2>1. job.requested \in 0..MaxVersion /\ job.processed < job.requested
    BY <1>1, <1>2 DEF ClaimRequested
  <2> QED
    BY <1>1, <1>2, <2>1, ClaimPreserves DEF ClaimRequested
<1>3. CASE ClaimDirect(w)
  <2> DEFINE v == (IF job.requested > job.processed
                   THEN job.requested ELSE job.processed) + 1
  <2>1. v \in 0..MaxVersion /\ job.requested =< v /\ job.processed < v
    BY <1>1
  <2>2. ClaimAs(w, v)
    BY <1>3 DEF ClaimDirect
  <2> HIDE DEF v
  <2> QED
    BY <1>1, <2>1, <2>2, ClaimPreserves
<1> QED
  BY <1>2, <1>3

\* No step of one tick breaks the invariant.
LEMMA StepPreserves ==
  ASSUME IInv, NEW w \in Workers, Step(w)
  PROVE  IInv'
<1>1. CASE ClaimRequested(w) \/ ClaimDirect(w)
  BY <1>1, ClaimsPreserve
<1>2. CASE Heartbeat(w) \/ HeartbeatError(w)
  BY <1>2, HeartbeatPreserves
<1>3. CASE Save(w)
  BY <1>3, SavePreserves
<1>4. CASE BeginWrite(w) \/ CommitWrite(w)
  BY <1>4, WritePreserves
<1>5. CASE \E o \in Outcomes, c \in {0, tick[w].cursor} : Finish(w, o, c)
  BY <1>5, FinishPreserves
<1>6. CASE HandlerThrows(w)
  <2>1. w \in Running
    BY <1>6 DEF HandlerThrows, Running
  <2> QED
    BY <1>6, <2>1, ThrowPreserves DEF HandlerThrows
<1>7. CASE ReleaseBlocked(w) \/ CommitDeferred(w) \/ RecordFailure(w)
  BY <1>7, GiveBackPreserves
<1>8. CASE CommitAck(w)
  BY <1>8, AckPreserves
<1>9. CASE EndRefused(w)
  <2>1. w \in Running
    BY <1>9 DEF EndRefused, Running
  <2> QED
    BY <1>9, <2>1, ThrowPreserves DEF EndRefused
<1>10. CASE Crash(w)
  <2>1. w \in Running
    BY <1>10 DEF Crash, Running
  <2> QED
    BY <1>10, <2>1, ReturnPreserves DEF Crash
<1> QED
  BY <1>1, <1>2, <1>3, <1>4, <1>5, <1>6, <1>7, <1>8, <1>9, <1>10 DEF Step

\* The invariant is inductive.
LEMMA NextPreserves == IInv /\ [Next]_vars => IInv'
<1> SUFFICES ASSUME IInv, [Next]_vars PROVE IInv'
  OBVIOUS
<1>1. CASE RequestJob \/ RequestDueJobs
  BY <1>1, AcceptPreserves DEF RequestJob, RequestDueJobs
<1>2. CASE \E w \in Workers : Step(w)
  BY <1>2, StepPreserves
<1>3. CASE RevokeToken \/ Pause \/ Resume \/ FenceSite \/ Time \/ Stall
  BY <1>3, WorldPreserves
<1>4. CASE UNCHANGED vars
  <2>1. Running' = Running /\ Holding' = Holding /\ InTx' = InTx
    BY <1>4 DEF vars, Running, Holding, InTx
  <2> QED
    BY <1>4, <2>1
    DEF vars, IInv, TypeOK, OwnershipInv, VersionInv, NoLostRequest, NoStrayCommit,
        CursorContinuity, FenceInv
<1> QED
  BY <1>1, <1>2, <1>3, <1>4 DEF Next

\* The inductive invariant holds in every reachable state.
THEOREM Invariance == Spec => []IInv
  BY InitEstablishes, NextPreserves, PTL DEF Spec

\* The row and the ticks keep their types, and only running ticks are recorded
\* in the history.
THEOREM TypeCorrect == Spec => []TypeOK
<1>1. IInv => TypeOK
  BY DEF IInv
<1> QED
  BY Invariance, <1>1, PTL

\* runJob acknowledges the version of its claim: for any number of workers an
\* accepted request stays pending until a tick claimed after it acknowledges.
THEOREM RequestsAreNotLost == Spec => []NoLostRequest
<1>1. IInv => NoLostRequest
  BY DEF IInv
<1> QED
  BY Invariance, <1>1, PTL

\* A tick whose row was taken over or whose token was revoked commits nothing.
THEOREM SupersededTicksCommitNothing == Spec => []NoStrayCommit
<1>1. IInv => NoStrayCommit
  BY DEF IInv
<1> QED
  BY Invariance, <1>1, PTL

\* The owner's copy of the cursor is the stored one.
THEOREM CursorIsNeverMovedUnderItsOwner == Spec => []CursorContinuity
<1>1. IInv => CursorContinuity
  BY DEF IInv
<1> QED
  BY Invariance, <1>1, PTL

-----------------------------------------------------------------------------
(* What a step may never do *)

Ack == \E w \in Workers : CommitAck(w)

\* Everything but an acknowledgement leaves the processed version alone.
LEMMA OnlyAckProcesses ==
  ASSUME IInv, [Next]_vars, ~Ack
  PROVE  job'.processed = job.processed
<1>1. job \in JobRow
  BY DEF IInv, TypeOK
<1>2. CASE RequestJob \/ RequestDueJobs
  BY <1>1, <1>2 DEF RequestJob, RequestDueJobs, Accept, JobRow
<1>3. ASSUME NEW w \in Workers, Step(w) PROVE job'.processed = job.processed
  <2>1. CASE ClaimRequested(w) \/ ClaimDirect(w)
    BY <1>1, <2>1 DEF ClaimRequested, ClaimDirect, ClaimAs, JobRow
  <2>2. CASE Heartbeat(w) \/ HeartbeatError(w) \/ Save(w)
    BY <1>1, <2>2 DEF Heartbeat, HeartbeatError, Save, JobRow, row
  <2>3. CASE \/ BeginWrite(w) \/ CommitWrite(w) \/ HandlerThrows(w)
             \/ EndRefused(w) \/ Crash(w)
             \/ \E o \in Outcomes, c \in {0, tick[w].cursor} : Finish(w, o, c)
    BY <2>3 DEF BeginWrite, CommitWrite, HandlerThrows, EndRefused, Crash, Finish, row
  <2>4. CASE ReleaseBlocked(w) \/ CommitDeferred(w)
    BY <1>1, <2>4, UnlockedType DEF ReleaseBlocked, CommitDeferred
  <2>5. CASE RecordFailure(w)
    BY <1>1, <2>5, UnlockedType DEF RecordFailure, JobRow
  <2> QED
    BY <1>3, <2>1, <2>2, <2>3, <2>4, <2>5 DEF Step, Ack
<1>4. CASE RevokeToken
  BY <1>1, <1>4, UnlockedType DEF RevokeToken
<1>5. CASE Pause \/ Resume \/ FenceSite
  BY <1>1, <1>5 DEF Pause, Resume, FenceSite, JobRow
<1>6. CASE Time \/ Stall
  BY <1>1, <1>6 DEF Time, Stall, Elapse, JobRow
<1>7. CASE UNCHANGED vars
  BY <1>7 DEF vars
<1> QED
  BY <1>2, <1>3, <1>4, <1>5, <1>6, <1>7 DEF Next

\* However often a row is claimed, taken over and retried, no version is
\* acknowledged twice and an acknowledgement never goes back.
THEOREM AcknowledgementsAdvance == Spec => AcknowledgedOnce
<1>1. IInv /\ [Next]_vars => [job'.processed # job.processed
                             => job'.processed > job.processed]_vars
  <2> SUFFICES ASSUME IInv, [Next]_vars, job'.processed # job.processed
               PROVE  job'.processed > job.processed
    OBVIOUS
  <2>1. PICK w \in Workers : CommitAck(w)
    BY OnlyAckProcesses DEF Ack
  <2>2. job'.processed = tick[w].version
    BY <2>1, AckEffect
  <2>3. job.processed < tick[w].version
    BY <2>1 DEF IInv, VersionInv, CommitAck, OwnedInTx, Holding, Running
  <2>4. job.processed \in Nat /\ tick[w].version \in Nat
    BY BoundsAssumption DEF IInv, TypeOK, JobRow, Tick
  <2> QED
    BY <2>2, <2>3, <2>4
<1> QED
  BY Invariance, <1>1, PTL DEF Spec, AcknowledgedOnce

\* Nothing but a resume moves notBefore away from a pause.
LEMMA OnlyResumeEndsPause ==
  ASSUME IInv, [Next]_vars, ~Resume, job.notBefore = Paused
  PROVE  job'.notBefore = Paused
<1>1. job \in JobRow
  BY DEF IInv, TypeOK
<1>2. CASE RequestJob \/ RequestDueJobs
  BY <1>1, <1>2 DEF RequestJob, RequestDueJobs, Accept, JobRow
<1>3. ASSUME NEW w \in Workers, Step(w) PROVE job'.notBefore = Paused
  <2>1. CASE ClaimRequested(w) \/ ClaimDirect(w)
    BY <1>1, <2>1 DEF ClaimRequested, ClaimDirect, ClaimAs, JobRow
  <2>2. CASE Heartbeat(w) \/ HeartbeatError(w) \/ Save(w)
    BY <1>1, <2>2 DEF Heartbeat, HeartbeatError, Save, JobRow, row
  <2>3. CASE \/ BeginWrite(w) \/ CommitWrite(w) \/ HandlerThrows(w)
             \/ EndRefused(w) \/ Crash(w)
             \/ \E o \in Outcomes, c \in {0, tick[w].cursor} : Finish(w, o, c)
    BY <2>3 DEF BeginWrite, CommitWrite, HandlerThrows, EndRefused, Crash, Finish, row
  <2>4. CASE ReleaseBlocked(w) \/ CommitDeferred(w)
    BY <1>1, <2>4, UnlockedType DEF ReleaseBlocked, CommitDeferred
  <2>5. CASE RecordFailure(w)
    BY <1>1, <2>5, UnlockedType DEF RecordFailure, JobRow
  <2>6. CASE CommitAck(w)
    BY <2>6, AckEffect DEF NextNotBefore
  <2> QED
    BY <1>3, <2>1, <2>2, <2>3, <2>4, <2>5, <2>6 DEF Step
<1>4. CASE RevokeToken
  BY <1>1, <1>4, UnlockedType DEF RevokeToken
<1>5. CASE Pause \/ FenceSite
  BY <1>1, <1>5 DEF Pause, FenceSite, JobRow
<1>6. CASE Time \/ Stall
  <2>1. Left(Paused) = Paused
    BY BoundsAssumption DEF Left, Paused
  <2> QED
    BY <1>1, <1>6, <2>1 DEF Time, Stall, Elapse, JobRow
<1>7. CASE UNCHANGED vars
  BY <1>7 DEF vars
<1> QED
  BY <1>2, <1>3, <1>4, <1>5, <1>6, <1>7 DEF Next

\* A pause outlives the tick it found running, every takeover and every failure
\* record; only the operator ends it, and touches nothing else of the row.
THEOREM PausesStick == Spec => PauseSticks
<1>1. IInv /\ [Next]_vars =>
        [job.notBefore = Paused /\ job'.notBefore # Paused
           => /\ tick' = tick
              /\ job' = [job EXCEPT !.notBefore = job'.notBefore]]_vars
  <2> SUFFICES ASSUME IInv, [Next]_vars, job.notBefore = Paused, job'.notBefore # Paused
               PROVE  /\ tick' = tick
                      /\ job' = [job EXCEPT !.notBefore = job'.notBefore]
    OBVIOUS
  <2>1. Resume
    BY OnlyResumeEndsPause
  <2>2. job \in JobRow
    BY DEF IInv, TypeOK
  <2>3. job' = [job EXCEPT !.notBefore = retryAt] /\ tick' = tick
    BY <2>1 DEF Resume
  <2>4. job'.notBefore = retryAt
    BY <2>2, <2>3 DEF JobRow
  <2> QED
    BY <2>3, <2>4
<1> QED
  BY Invariance, <1>1, PTL DEF Spec, PauseSticks

\* A fence stops every tick, also one that was claimed before it: the fence
\* statement waits for the transactions in flight, later ones see it.
THEOREM FenceStops == Spec => FenceStopsTicks
<1>1. IInv /\ [Next]_vars =>
        [fence = "fenced"
           => /\ job'.processed = job.processed
              /\ job'.token \in {job.token, NoOwner}
              /\ \A w \in Workers : tick[w].pc = "write" => tick'[w].pc # "run"]_vars
  <2> SUFFICES ASSUME IInv, [Next]_vars, fence = "fenced"
               PROVE  /\ job'.processed = job.processed
                      /\ job'.token \in {job.token, NoOwner}
                      /\ \A w \in Workers : tick[w].pc = "write" => tick'[w].pc # "run"
    OBVIOUS
  <2>1. InTx = {} /\ job \in JobRow
    BY DEF IInv, FenceInv, TypeOK
  <2>2. \A w \in Workers : tick[w].pc \notin {"write", "end"}
    BY <2>1 DEF InTx
  <2>3. ~Ack
    BY <2>2 DEF Ack, CommitAck
  <2>4. job'.processed = job.processed
    BY <2>3, OnlyAckProcesses
  <2>5. job'.token \in {job.token, NoOwner}
    <3>1. CASE RequestJob \/ RequestDueJobs
      BY <2>1, <3>1 DEF RequestJob, RequestDueJobs, Accept, JobRow
    <3>2. ASSUME NEW w \in Workers, Step(w) PROVE job'.token \in {job.token, NoOwner}
      <4>1. ~(ClaimRequested(w) \/ ClaimDirect(w) \/ CommitAck(w))
        BY <2>2 DEF ClaimRequested, ClaimDirect, Claimable, CommitAck
      <4>2. CASE Heartbeat(w) \/ HeartbeatError(w) \/ Save(w)
        BY <2>1, <4>2 DEF Heartbeat, HeartbeatError, Save, JobRow, row
      <4>3. CASE \/ BeginWrite(w) \/ CommitWrite(w) \/ HandlerThrows(w)
                 \/ EndRefused(w) \/ Crash(w)
                 \/ \E o \in Outcomes, c \in {0, tick[w].cursor} : Finish(w, o, c)
        BY <4>3 DEF BeginWrite, CommitWrite, HandlerThrows, EndRefused, Crash, Finish, row
      <4>4. CASE ReleaseBlocked(w) \/ CommitDeferred(w)
        BY <2>1, <4>4, UnlockedType DEF ReleaseBlocked, CommitDeferred
      <4>5. CASE RecordFailure(w)
        BY <2>1, <4>5, UnlockedType DEF RecordFailure, JobRow
      <4> QED
        BY <3>2, <4>1, <4>2, <4>3, <4>4, <4>5 DEF Step
    <3>3. CASE RevokeToken
      BY <2>1, <3>3, UnlockedType DEF RevokeToken
    <3>4. CASE Pause \/ Resume \/ FenceSite
      BY <2>1, <3>4 DEF Pause, Resume, FenceSite, JobRow
    <3>5. CASE Time \/ Stall
      BY <2>1, <3>5 DEF Time, Stall, Elapse, JobRow
    <3>6. CASE UNCHANGED vars
      BY <3>6 DEF vars
    <3> QED
      BY <3>1, <3>2, <3>3, <3>4, <3>5, <3>6 DEF Next
  <2> QED
    BY <2>2, <2>4, <2>5
<1> QED
  BY Invariance, <1>1, PTL DEF Spec, FenceStopsTicks

-----------------------------------------------------------------------------
(* The jobs table implements the queue of AskedWork *)

\* A tick that goes on or ends without touching the versions answers nobody.
LEMMA SetbackStep ==
  ASSUME job'.requested = job.requested, job'.processed = job.processed,
         Running' \subseteq Running, late' = late \cap Running'
  PROVE  Queue!Setback
<1>1. (job.requested > job.processed)' = (job.requested > job.processed)
  OBVIOUS
<1>2. (Running \ late)' = (Running \ late) \cap Running'
  OBVIOUS
<1> QED
  BY <1>1, <1>2 DEF Queue!Setback

\* A claim is the beginning of the work, asked for or not.
LEMMA ClaimStep ==
  ASSUME IInv, NEW w \in Workers, ClaimRequested(w) \/ ClaimDirect(w)
  PROVE  Queue!Begin(w)
<1>1. w \notin Running /\ w \notin late
  BY DEF ClaimRequested, ClaimDirect, Claimable, Running, IInv, TypeOK
<1>2. /\ job \in JobRow /\ job.requested \in Nat /\ job.processed \in Nat
      /\ TickOK
  BY DEF IInv, TypeOK, TickOK, JobRow
<1>3. PICK version \in Nat : ClaimAs(w, version) /\ version > job.processed
  BY <1>2 DEF ClaimRequested, ClaimDirect, Claimable
<1>4. job'.requested = version /\ job'.processed = job.processed
  BY <1>2, <1>3 DEF ClaimAs, JobRow
<1>5. tick'[w].pc = "run" /\ \A v \in Workers \ {w} : tick'[v] = tick[v]
  BY <1>2, <1>3 DEF ClaimAs, TickOK, NoTick
<1>6. Running' = Running \cup {w}
  BY <1>5 DEF Running
<1>7. (Running \ late)' = (Running \ late) \cup {w}
  BY <1>1, <1>3, <1>6 DEF ClaimAs
<1>8. (job.requested > job.processed)'
  BY <1>2, <1>3, <1>4
<1> QED
  BY <1>1, <1>6, <1>7, <1>8 DEF Queue!Begin

\* An acknowledgement answers those who asked before its claim and nobody else.
LEMMA AckStep ==
  ASSUME IInv, NEW w \in Workers, CommitAck(w)
  PROVE  Queue!Setback \/ Queue!Answer(w)
<1>1. w \in Running /\ w \in Holding /\ job.token = w
  BY DEF CommitAck, OwnedInTx, Running, Holding
<1>2. /\ job'.processed = tick[w].version /\ job'.requested = NextRequested(w)
      /\ NextRequested(w) \in {job.requested, job.requested + 1}
  BY AckEffect
<1>3. /\ job.requested \in Nat /\ job.processed \in Nat /\ tick[w].version \in Nat
  BY BoundsAssumption DEF IInv, TypeOK, JobRow, Tick
<1>4. /\ job.processed < tick[w].version /\ tick[w].version =< job.requested
      /\ w \in late => tick[w].version < job.requested
  BY <1>1 DEF IInv, VersionInv
<1>5. Running' = Running \ {w} /\ late' = late \ {w}
  BY ReturnEffect DEF CommitAck, Return, IInv, TypeOK, TickOK
<1>6. (Running \ late)' = (Running \ late) \ {w}
  BY <1>5
<1>7. job.requested > job.processed
  BY <1>3, <1>4
<1>8. CASE (job.requested > job.processed)'
  <2>1. (job.requested > job.processed)' = (job.requested > job.processed)
    BY <1>7, <1>8
  <2> QED
    BY <1>5, <1>6, <2>1 DEF Queue!Setback
<1>9. CASE ~(job.requested > job.processed)'
  <2>1. w \notin late
    BY <1>2, <1>3, <1>4, <1>9
  <2> QED
    BY <1>1, <1>5, <1>6, <1>9, <2>1 DEF Queue!Answer
<1> QED
  BY <1>8, <1>9

\* A tick reads and writes versions only at its claim and its acknowledgement.
LEMMA StepKeepsVersions ==
  ASSUME job \in JobRow, NEW w \in Workers, Step(w),
         ~(ClaimRequested(w) \/ ClaimDirect(w) \/ CommitAck(w))
  PROVE  job'.processed = job.processed /\ job'.requested = job.requested
<1>1. CASE Heartbeat(w) \/ HeartbeatError(w) \/ Save(w)
  BY <1>1 DEF Heartbeat, HeartbeatError, Save, JobRow, row
<1>2. CASE \/ BeginWrite(w) \/ CommitWrite(w) \/ HandlerThrows(w)
           \/ EndRefused(w) \/ Crash(w)
           \/ \E o \in Outcomes, c \in {0, tick[w].cursor} : Finish(w, o, c)
  BY <1>2 DEF BeginWrite, CommitWrite, HandlerThrows, EndRefused, Crash, Finish, row
<1>3. CASE ReleaseBlocked(w) \/ CommitDeferred(w)
  BY <1>3, UnlockedType DEF ReleaseBlocked, CommitDeferred
<1>4. CASE RecordFailure(w)
  <2>1. Unlocked(job) \in JobRow
    BY UnlockedType
  <2> QED
    BY <1>4, <2>1, UnlockedType DEF RecordFailure, JobRow
<1> QED
  BY <1>1, <1>2, <1>3, <1>4 DEF Step

\* ... and no tick begins in any other way; those that end leave every set.
LEMMA StepKeepsTicks ==
  ASSUME TickOK, late \subseteq Running, NEW w \in Workers, Step(w),
         ~(ClaimRequested(w) \/ ClaimDirect(w) \/ CommitAck(w))
  PROVE  Running' \subseteq Running /\ late' = late \cap Running'
<1>1. w \in Running
  BY DEF Step, Heartbeat, HeartbeatError, Save, BeginWrite, CommitWrite, Finish,
         HandlerThrows, ReleaseBlocked, CommitDeferred, EndRefused, RecordFailure, Crash, Running
<1>2. ASSUME Return(w) PROVE Running' \subseteq Running /\ late' = late \cap Running'
  BY <1>2, ReturnEffect DEF Return
<1>3. ASSUME Throw(w), late' = late PROVE Running' \subseteq Running /\ late' = late \cap Running'
  BY <1>1, <1>3, ThrowEffect
<1>4. ASSUME late' = late, \A v \in Workers \ {w} : tick'[v] = tick[v]
      PROVE  tick'[w].pc # "idle" => Running' \subseteq Running /\ late' = late \cap Running'
  BY <1>1, <1>4 DEF Running
<1>5. CASE Heartbeat(w) \/ HeartbeatError(w) \/ CommitWrite(w)
  <2>1. CASE Throw(w)
    BY <1>3, <1>5, <2>1 DEF Heartbeat, HeartbeatError, CommitWrite, hist
  <2>2. CASE ~Throw(w)
    <3>1. late' = late /\ tick[w].pc # "idle"
      BY <1>5, <2>2 DEF Heartbeat, HeartbeatError, CommitWrite, hist
    <3>2. CASE tick' = tick
      BY <1>4, <3>1, <3>2
    <3>3. CASE tick' = [tick EXCEPT ![w].lost = TRUE]
      BY <1>4, <3>1, <3>3 DEF TickOK, Tick
    <3>4. CASE tick' = [tick EXCEPT ![w].pc = "run", ![w].fresh = FALSE]
      BY <1>4, <3>1, <3>4 DEF TickOK, Tick
    <3> QED
      BY <1>5, <2>2, <3>2, <3>3, <3>4 DEF Heartbeat, HeartbeatError, CommitWrite
  <2> QED
    BY <2>1, <2>2
<1>6. CASE Save(w) \/ BeginWrite(w) \/ HandlerThrows(w) \/ EndRefused(w)
  BY <1>2, <1>3, <1>4, <1>6 DEF Save, BeginWrite, HandlerThrows, EndRefused, TickOK, Tick, hist
<1>7. CASE \E o \in Outcomes, c \in {0, tick[w].cursor} : Finish(w, o, c)
  BY <1>2, <1>3, <1>4, <1>7 DEF Finish, TickOK, Tick
<1>8. CASE ReleaseBlocked(w) \/ CommitDeferred(w) \/ RecordFailure(w) \/ Crash(w)
  BY <1>2, <1>3, <1>8 DEF ReleaseBlocked, CommitDeferred, RecordFailure, Crash
<1> QED
  BY <1>5, <1>6, <1>7, <1>8 DEF Step

\* Every step of the jobs table is a step of the queue or leaves it as it is.
LEMMA QueueStep ==
  ASSUME IInv, [Next]_vars
  PROVE  [Queue!Next]_(Queue!vars)
<1>1. job \in JobRow /\ job.requested \in Nat /\ job.processed \in Nat /\ TickOK
      /\ late \subseteq Running
  BY DEF IInv, TypeOK, JobRow, TickOK
<1>2. CASE RequestJob \/ RequestDueJobs
  <2>1. job'.requested = job.requested + 1 /\ job'.processed = job.processed
    BY <1>1, <1>2 DEF RequestJob, RequestDueJobs, Accept, JobRow
  <2>2. (job.requested > job.processed)'
    BY <1>1, <2>1 DEF IInv, VersionInv
  <2>3. Running' = Running /\ (Running \ late)' = {}
    BY <1>2 DEF RequestJob, RequestDueJobs, Accept, Running
  <2> QED
    BY <2>2, <2>3 DEF Queue!Next, Queue!Ask
<1>3. ASSUME NEW w \in Workers, Step(w) PROVE Queue!Next
  <2>1. CASE ClaimRequested(w) \/ ClaimDirect(w)
    BY <2>1, ClaimStep DEF Queue!Next
  <2>2. CASE CommitAck(w)
    BY <2>2, AckStep DEF Queue!Next
  <2>3. CASE ~(ClaimRequested(w) \/ ClaimDirect(w) \/ CommitAck(w))
    <3>1. job'.processed = job.processed /\ job'.requested = job.requested
      BY <1>1, <1>3, <2>3, StepKeepsVersions
    <3>2. Running' \subseteq Running /\ late' = late \cap Running'
      BY <1>1, <1>3, <2>3, StepKeepsTicks
    <3> QED
      BY <3>1, <3>2, SetbackStep DEF Queue!Next
  <2> QED
    BY <2>1, <2>2, <2>3
<1>4. CASE RevokeToken \/ Pause \/ Resume \/ FenceSite \/ Time \/ Stall
  <2>1. job'.processed = job.processed /\ job'.requested = job.requested
    BY <1>1, <1>4, UnlockedType
    DEF RevokeToken, Pause, Resume, FenceSite, Time, Stall, Elapse, JobRow
  <2>2. Running' = Running /\ late' = late
    BY <1>4 DEF RevokeToken, Pause, Resume, FenceSite, Time, Stall, Elapse, Running, hist
  <2> QED
    BY <1>1, <2>1, <2>2, SetbackStep DEF Queue!Next
<1>5. CASE UNCHANGED vars
  BY <1>5 DEF vars, Queue!vars, Running
<1> QED
  BY <1>2, <1>3, <1>4, <1>5 DEF Next

\* For any number of workers: an ask is answered only by a tick claimed after it,
\* and the row offers no work that nobody asked for.
THEOREM AsksAreServed == Spec => ServesThoseWhoAsk
<1>1. Init => Queue!Init
  <2> SUFFICES ASSUME Init PROVE Queue!Init
    OBVIOUS
  <2>1. (job.requested > job.processed) \in BOOLEAN
    OBVIOUS
  <2>2. Running = {}
    BY DEF Init, Running, NoTick
  <2> QED
    BY <2>1, <2>2 DEF Queue!Init
<1>2. IInv /\ [Next]_vars => [Queue!Next]_(Queue!vars)
  BY QueueStep
<1> QED
  BY Invariance, <1>1, <1>2, PTL DEF Spec, ServesThoseWhoAsk, Queue!Spec

=============================================================================
