------------------------- MODULE PermitBatchProofs --------------------------
(***************************************************************************)
(* Proofs about OriginPermits and about JobBatch, for any values of their  *)
(* constants.  The two modules share no name; the first half is about the  *)
(* first, the second half, from Depth on, about the second.                *)
(*                                                                         *)
(* OriginPermits: the invariant has a local part, which relates the        *)
(* callbacks of one request to its own row, and a shared part, the room    *)
(* that reservations leave to each other.  The local part says what keeps  *)
(* a charge in place (Attached) and who will end it (Owed); the traffic    *)
(* limits follow from Attached and the room, and the absence of forgotten  *)
(* charges from Owed.                                                      *)
(*                                                                         *)
(* JobBatch: every transaction takes rows in an order of its kind (Depth,  *)
(* InOrder), which all but the transition share.  While the transition     *)
(* waits with a lock it has the batch row to itself, so the others that    *)
(* hold one are of the kinds without the batch row, and their order agrees *)
(* with the transition's; of all locks that somebody waits for and         *)
(* somebody has, the deepest leaves its owner nothing to wait for.  Order  *)
(* is kept because what decides it, the batch's mode and the role's batch, *)
(* changes only under row locks that exclude it (OrderKept); the same      *)
(* locks keep what an admission found idle idle (StaysIdle).               *)
(***************************************************************************)
EXTENDS OriginPermits, JobBatch, FiniteSetTheorems, WellFoundedInduction, TLAPS

-----------------------------------------------------------------------------
(* The invariant *)

\* Before begin and after the death of its process a request holds nothing.
Idle(c) ==
  /\ c.sent = 0 /\ c.pending = 0 /\ ~c.unknown
  /\ ~c.closing /\ c.writes = {}

Stages(c) ==
  /\ c.phase \in {"waiting", "reserved"} =>
       Idle(c) /\ ~c.fetchSettled /\ ~c.bodySettled
  /\ c.phase = "dead" => Idle(c)
  /\ c.phase \in {"waiting", "reserved", "fetching"} => c.cancel = "no"
  /\ c.phase \in {"fetching", "body"} => ~c.bodySettled /\ ~c.closing /\ c.writes = {}
  /\ c.phase = "body" => c.fetchSettled
  /\ c.phase = "ended" /\ c.sent > 0 => c.fetchSettled /\ c.bodySettled
  /\ c.pending <= c.sent
  /\ c.unknown => c.sent > 0
  /\ c.cancel # "no" => c.reader # "live"
  /\ ~c.cancelFailed

\* settle() or the catch of fetch found that everything had ended.
Over(c) ==
  c.closing \/ c.writes \cap Releasing # {} => c.pending = 0 /\ ~c.unknown

\* The row of a request that has something open is charged.
Attached(c, h) ==
  /\ c.phase = "waiting" => h.state = "none"
  /\ c.sent > 0 => h.state \in Open \cup {"released"}
  /\ c.phase \in {"fetching", "body"} \/ c.pending > 0 \/ c.unknown => h.state \in Open

\* Somebody still releases the row: a write in flight, or a callback that is to
\* come and will call settle().
Owed(c, h) ==
  \/ h.state = "released"
  \/ c.writes \cap Releasing # {}
  \/ ~c.closing /\ (c.pending > 0 \/ "interim" \in c.writes)

Local(c, h, l) ==
  /\ Stages(c) /\ Over(c) /\ Attached(c, h)
  /\ c.phase = "ended" /\ c.sent > 0 /\ ~c.unknown /\ ~l => Owed(c, h)

LocalInv == \A r \in Requests : Local(call[r], hop[r], r \in lost)

\* Charged requests of the limited host.
LimitedHops(h) == {r \in Requests : HostOf[r] = Limited /\ h[r].state \in Charges}

OriginRoom(h) ==
  \A r, s \in Requests :
    r # s /\ OriginOf[r] = OriginOf[s] => h[r].state \notin Charges \/ h[s].state \notin Charges

HostRoom(h) == Cardinality(LimitedHops(h)) <= HostLimit

IInv == TypeOK /\ LocalInv /\ OriginRoom(hop) /\ HostRoom(hop)
-----------------------------------------------------------------------------
(* Rows and rooms *)

LEMMA Numbers == /\ HostLimit \in Nat /\ MaxDispatches \in Nat /\ MaxRevision \in Nat
                 /\ HostLimit >= 1 /\ MaxDispatches >= 1 /\ MaxRevision >= 1
  BY NumbersAssumption

LEMMA CallTypes ==
  ASSUME NEW c \in Call
  PROVE  /\ c.sent \in Nat /\ c.sent <= MaxDispatches
         /\ c.pending \in Nat /\ c.pending <= MaxDispatches
         /\ c.unknown \in BOOLEAN /\ c.fetchSettled \in BOOLEAN
         /\ c.bodySettled \in BOOLEAN /\ c.cancelFailed \in BOOLEAN
         /\ c.closing \in BOOLEAN /\ c.writes \subseteq Writes
  BY Numbers DEF Call

LEMMA InitIInv == Init => IInv
<1> SUFFICES ASSUME Init PROVE IInv
  OBVIOUS
<1>1. TypeOK
  BY NumbersAssumption DEF Init, TypeOK, Hop, Call, NoCall, Writes
<1>2. LocalInv
  BY DEF Init, LocalInv, Local, Stages, Over, Attached, Idle, NoCall, Releasing
<1>3. OriginRoom(hop)
  BY DEF Init, OriginRoom, Charges
<1>4. HostRoom(hop)
  <2>1. LimitedHops(hop) = {}
    BY DEF Init, LimitedHops, Charges
  <2> QED
    BY <2>1, FS_EmptySet, NumbersAssumption DEF HostRoom
<1> QED
  BY <1>1, <1>2, <1>3, <1>4 DEF IInv

\* Taking charges away leaves room.
LEMMA FewerCharges ==
  ASSUME NEW g, NEW h, OriginRoom(g), HostRoom(g),
         \A r \in Requests : h[r].state \in Charges => g[r].state \in Charges
  PROVE  OriginRoom(h) /\ HostRoom(h)
<1>1. OriginRoom(h)
  BY DEF OriginRoom
<1>2. LimitedHops(h) \subseteq LimitedHops(g)
  BY DEF LimitedHops
<1>3. IsFiniteSet(LimitedHops(g))
  BY RequestsAssumption, FS_Subset DEF LimitedHops
<1>4. Cardinality(LimitedHops(h)) <= Cardinality(LimitedHops(g))
  BY <1>2, <1>3, FS_Subset
<1>5. Cardinality(LimitedHops(g)) \in Nat /\ Cardinality(LimitedHops(h)) \in Nat
  BY <1>2, <1>3, FS_Subset, FS_CardinalityType
<1> QED
  BY <1>1, <1>4, <1>5, NumbersAssumption DEF HostRoom

\* A step of one request that charges nothing new keeps the invariant if it keeps
\* that request's local part.
LEMMA OneRequest ==
  ASSUME IInv, NEW r \in Requests, NEW c \in Call, NEW h \in Hop,
         call' = [call EXCEPT ![r] = c], hop' = [hop EXCEPT ![r] = h],
         UNCHANGED <<fence, control>>,
         lost' \in {lost, lost \cup {r}},
         Local(c, h, r \in lost'),
         h.state \in Charges => hop[r].state \in Charges
  PROVE  IInv'
<1>1. TypeOK'
  BY DEF IInv, TypeOK
<1>2. LocalInv'
  <2> SUFFICES ASSUME NEW s \in Requests PROVE Local(call'[s], hop'[s], s \in lost')
    BY DEF LocalInv
  <2>1. CASE s = r
    BY <2>1 DEF IInv, TypeOK
  <2>2. CASE s # r
    <3>1. call'[s] = call[s] /\ hop'[s] = hop[s] /\ (s \in lost' <=> s \in lost)
      BY <2>2 DEF IInv, TypeOK
    <3> QED
      BY <3>1 DEF IInv, LocalInv, Local
  <2> QED
    BY <2>1, <2>2
<1>3. \A s \in Requests : hop'[s].state \in Charges => hop[s].state \in Charges
  BY DEF IInv, TypeOK
<1>4. OriginRoom(hop') /\ HostRoom(hop')
  BY <1>3, FewerCharges DEF IInv
<1>5. OriginRoom(hop)' /\ HostRoom(hop)'
  BY <1>4 DEF OriginRoom, HostRoom, LimitedHops
<1> QED
  BY <1>1, <1>2, <1>5 DEF IInv
-----------------------------------------------------------------------------
(* settle() *)

\* settle() does nothing, or starts the release of a call that is over.
LEMMA SettleShape ==
  ASSUME NEW c \in Call
  PROVE  \/ Settle(c) = c
         \/ /\ Settle(c) = [c EXCEPT !.closing = TRUE, !.writes = @ \cup {"settle"}]
            /\ c.fetchSettled /\ c.bodySettled /\ c.pending = 0 /\ ~c.unknown
            /\ ~c.closing
  BY DEF Settle, Call

\* After settle() a call that is over has its release on the way.
LEMMA SettleReleases ==
  ASSUME NEW c \in Call, c.fetchSettled, c.bodySettled, ~c.cancelFailed, ~c.unknown,
         ~c.closing, c.pending = 0
  PROVE  "settle" \in Settle(c).writes
  BY DEF Settle, Call

\* settle() keeps the local part of an ended request, and settles what it owes.
LEMMA SettleLocal ==
  ASSUME NEW c \in Call, NEW h, NEW l,
         Stages(c), Over(c), Attached(c, h), c.phase = "ended",
         c.sent > 0 /\ ~c.unknown /\ ~l =>
           Owed(c, h) \/ (~c.closing /\ c.pending = 0)
  PROVE  Settle(c) \in Call /\ Local(Settle(c), h, l)
<1> DEFINE d == Settle(c)
<1>1. CASE d = c
  <2>1. c.sent > 0 /\ ~c.unknown /\ ~l => Owed(c, h)
    <3> SUFFICES ASSUME c.sent > 0, ~c.unknown, ~l, ~c.closing, c.pending = 0
                 PROVE  Owed(c, h)
      OBVIOUS
    <3>1. c.fetchSettled /\ c.bodySettled /\ ~c.cancelFailed
      BY DEF Stages
    <3>2. "settle" \in c.writes
      BY <1>1, <3>1, SettleReleases
    <3> QED
      BY <3>2 DEF Owed, Releasing
  <2> QED
    BY <1>1, <2>1 DEF Local
<1>2. CASE /\ d = [c EXCEPT !.closing = TRUE, !.writes = @ \cup {"settle"}]
           /\ c.pending = 0 /\ ~c.unknown
  <2>1. d \in Call
    BY <1>2 DEF Call, Writes
  <2>2. /\ d.phase = "ended" /\ d.sent = c.sent /\ d.pending = 0 /\ ~d.unknown
        /\ d.fetchSettled = c.fetchSettled /\ d.bodySettled = c.bodySettled
        /\ d.reader = c.reader /\ d.cancel = c.cancel /\ d.cancelFailed = c.cancelFailed
        /\ "settle" \in d.writes
    BY <1>2 DEF Call
  <2>3. Stages(d)
    BY <2>2, CallTypes DEF Stages
  <2>4. Over(d) /\ Attached(d, h) /\ Owed(d, h)
    BY <2>2 DEF Over, Attached, Owed, Releasing
  <2> QED
    BY <2>1, <2>3, <2>4 DEF Local
<1> QED
  BY <1>1, <1>2, SettleShape

-----------------------------------------------------------------------------
(* One lemma per step of a request *)

LEMMA GiveUpKeeps == ASSUME IInv, NEW r \in Requests, GiveUp(r) PROVE IInv'
<1> DEFINE c == [call[r] EXCEPT !.phase = "ended"]
<1>1. call[r] \in Call /\ hop[r] \in Hop /\ Local(call[r], hop[r], r \in lost)
  BY DEF IInv, TypeOK, LocalInv
<1>2. c \in Call
  BY <1>1 DEF Call
<1>3. call[r].phase \in {"waiting", "reserved"}
  BY DEF GiveUp
<1>4. Local(c, hop[r], r \in lost)
  BY <1>1, <1>3 DEF Local, Stages, Over, Attached, Idle, Call
<1>5. /\ call' = [call EXCEPT ![r] = c] /\ hop' = [hop EXCEPT ![r] = hop[r]]
      /\ UNCHANGED <<fence, control, lost>>
  BY DEF GiveUp, Set, IInv, TypeOK
<1> QED
  BY <1>1, <1>2, <1>4, <1>5, OneRequest

LEMMA DispatchKeeps == ASSUME IInv, NEW r \in Requests, Dispatch(r) PROVE IInv'
<1>1. call[r] \in Call /\ hop[r] \in Hop /\ Local(call[r], hop[r], r \in lost)
  BY DEF IInv, TypeOK, LocalInv
<1>2. /\ call[r].phase = "fetching" /\ call[r].sent < MaxDispatches
      /\ hop' = [hop EXCEPT ![r] = hop[r]] /\ UNCHANGED <<fence, control, lost>>
  BY DEF Dispatch, IInv, TypeOK
<1>3. PICK c : /\ call' = [call EXCEPT ![r] = c]
               /\ \/ c = [call[r] EXCEPT !.sent = @ + 1, !.pending = @ + 1]
                  \/ c = [call[r] EXCEPT !.sent = @ + 1, !.unknown = TRUE]
  BY DEF Dispatch, Set
<1>4. call[r].pending <= call[r].sent
  BY <1>1 DEF Local, Stages
<1>5. c \in Call /\ Local(c, hop[r], r \in lost)
  <2>1. CASE c = [call[r] EXCEPT !.sent = @ + 1, !.pending = @ + 1]
    <3>1. c \in Call
      <4>1. call[r].sent + 1 \in 0..MaxDispatches /\ call[r].pending + 1 \in 0..MaxDispatches
        BY <1>1, <1>2, <1>4, Numbers, CallTypes
      <4> QED
        BY <1>1, <2>1, <4>1 DEF Call
    <3>2. /\ c.phase = "fetching" /\ c.sent > 0 /\ c.unknown = call[r].unknown
          /\ c.closing = call[r].closing /\ c.writes = call[r].writes
          /\ c.bodySettled = call[r].bodySettled /\ c.reader = call[r].reader
          /\ c.cancel = call[r].cancel /\ c.cancelFailed = call[r].cancelFailed
          /\ c.pending <= c.sent
      BY <1>1, <1>2, <1>4, <2>1, Numbers, CallTypes DEF Call
    <3> QED
      BY <1>1, <1>2, <3>1, <3>2 DEF Local, Stages, Over, Attached, Idle
  <2>2. CASE c = [call[r] EXCEPT !.sent = @ + 1, !.unknown = TRUE]
    <3>1. c \in Call
      <4>1. call[r].sent + 1 \in 0..MaxDispatches
        BY <1>1, <1>2, Numbers, CallTypes
      <4> QED
        BY <1>1, <2>2, <4>1 DEF Call
    <3>2. /\ c.phase = "fetching" /\ c.sent > 0 /\ c.pending = call[r].pending
          /\ c.closing = call[r].closing /\ c.writes = call[r].writes
          /\ c.bodySettled = call[r].bodySettled /\ c.reader = call[r].reader
          /\ c.cancel = call[r].cancel /\ c.cancelFailed = call[r].cancelFailed
          /\ c.pending <= c.sent
      BY <1>1, <1>2, <1>4, <2>2, Numbers, CallTypes DEF Call
    <3> QED
      BY <1>1, <1>2, <3>1, <3>2 DEF Local, Stages, Over, Attached, Idle
  <2> QED
    BY <1>3, <2>1, <2>2
<1> QED
  BY <1>1, <1>2, <1>3, <1>5, OneRequest

LEMMA NativeEndsKeeps == ASSUME IInv, NEW r \in Requests, NativeEnds(r) PROVE IInv'
<1> DEFINE b == call[r]
           c == [b EXCEPT !.pending = @ - 1]
<1>1. b \in Call /\ hop[r] \in Hop /\ Local(b, hop[r], r \in lost)
  BY DEF IInv, TypeOK, LocalInv
<1>2. /\ b.phase # "dead" /\ b.pending > 0
      /\ call' = [call EXCEPT ![r] = Settle(c)]
      /\ hop' = [hop EXCEPT ![r] = hop[r]] /\ UNCHANGED <<fence, control, lost>>
  BY DEF NativeEnds, Set, IInv, TypeOK
<1>3. b.sent > 0 /\ ~b.closing /\ b.writes \cap Releasing = {}
  BY <1>1, <1>2, CallTypes DEF Local, Stages, Over
<1>4. c \in Call
  BY <1>1, <1>2, Numbers, CallTypes DEF Call
<1>5. /\ c.phase = b.phase /\ c.sent = b.sent /\ c.unknown = b.unknown
      /\ c.closing = b.closing /\ c.writes = b.writes /\ c.fetchSettled = b.fetchSettled
      /\ c.bodySettled = b.bodySettled /\ c.reader = b.reader
      /\ c.cancel = b.cancel /\ c.cancelFailed = b.cancelFailed
      /\ c.pending <= c.sent /\ c.pending \in Nat /\ c.sent \in Nat
  BY <1>1, <1>2, Numbers, CallTypes DEF Call, Local, Stages
<1> HIDE DEF c
<1>6. Stages(c) /\ Over(c) /\ Attached(c, hop[r])
  BY <1>1, <1>2, <1>3, <1>5 DEF Local, Stages, Over, Attached, Idle
<1>7. Settle(c) \in Call /\ Local(Settle(c), hop[r], r \in lost)
  <2>1. CASE b.phase = "ended"
    <3>1. ~c.closing /\ (c.pending > 0 \/ c.pending = 0)
      BY <1>3, <1>4, <1>5, CallTypes
    <3>2. Owed(c, hop[r]) \/ (~c.closing /\ c.pending = 0)
      BY <3>1 DEF Owed
    <3> QED
      BY <1>4, <1>5, <1>6, <2>1, <3>2, SettleLocal
  <2>2. CASE b.phase # "ended"
    <3>1. ~c.bodySettled
      BY <1>1, <1>2, <1>3, <1>5, <2>2 DEF Local, Stages, Idle, Call
    <3>2. Settle(c) = c
      BY <3>1 DEF Settle
    <3> QED
      BY <1>4, <1>5, <1>6, <2>2, <3>2 DEF Local
  <2> QED
    BY <2>1, <2>2
<1> QED
  BY <1>1, <1>2, <1>7, OneRequest
LEMMA BeginKeeps == ASSUME IInv, NEW r \in Requests, Begin(r) PROVE IInv'
<1> DEFINE b == call[r]
           h == [hop[r] EXCEPT !.state = "dispatched"]
<1>1. b \in Call /\ hop[r] \in Hop /\ Local(b, hop[r], r \in lost)
  BY DEF IInv, TypeOK, LocalInv
<1>2. /\ b.phase = "reserved" /\ hop[r].state = "reserved"
      /\ hop' = [hop EXCEPT ![r] = h] /\ UNCHANGED <<fence, control>>
  BY DEF Begin, Mark, IInv, TypeOK
<1>3. Idle(b) /\ ~b.fetchSettled /\ ~b.cancelFailed /\ (b.cancel # "no" => b.reader # "live")
  BY <1>1, <1>2 DEF Local, Stages
<1>4. h \in Hop /\ h.state = "dispatched"
  BY <1>1 DEF Hop
<1>5. CASE call' = [call EXCEPT ![r] = [b EXCEPT !.phase = "fetching"]] /\ lost' = lost
  <2> DEFINE c == [b EXCEPT !.phase = "fetching"]
  <2>1. c \in Call
    BY <1>1 DEF Call
  <2>2. /\ c.phase = "fetching" /\ Idle(c) /\ ~c.cancelFailed
        /\ c.cancel = b.cancel /\ c.bodySettled = b.bodySettled
    BY <1>1, <1>3 DEF Call, Idle
  <2>3. ~b.bodySettled /\ b.cancel = "no"
    BY <1>1, <1>2 DEF Local, Stages
  <2> HIDE DEF c
  <2>4. Local(c, h, r \in lost')
    BY <1>4, <2>1, <2>2, <2>3, CallTypes DEF Local, Stages, Over, Attached, Idle, Open
  <2> QED
    BY <1>1, <1>2, <1>4, <1>5, <2>1, <2>4, OneRequest DEF Charges, c
<1>6. CASE call' = [call EXCEPT ![r] = [b EXCEPT !.phase = "ended"]] /\ lost' = lost \cup {r}
  <2> DEFINE c == [b EXCEPT !.phase = "ended"]
  <2>1. c \in Call
    BY <1>1 DEF Call
  <2>2. /\ c.phase = "ended" /\ Idle(c) /\ ~c.cancelFailed
        /\ (c.cancel # "no" => c.reader # "live")
    BY <1>1, <1>3 DEF Call, Idle
  <2> HIDE DEF c
  <2>3. Local(c, h, r \in lost')
    BY <1>4, <1>6, <2>1, <2>2, CallTypes DEF Local, Stages, Over, Attached, Idle, Open
  <2> QED
    BY <1>1, <1>2, <1>4, <1>6, <2>1, <2>3, OneRequest DEF Charges, c
<1> QED
  BY <1>5, <1>6 DEF Begin, Set

LEMMA FetchRejectsKeeps == ASSUME IInv, NEW r \in Requests, FetchRejects(r) PROVE IInv'
<1> DEFINE b == call[r]
           w == IF b.sent > 0 /\ b.pending = 0 /\ ~b.unknown THEN "failed" ELSE "kept"
           c == [b EXCEPT !.phase = "ended", !.fetchSettled = TRUE, !.bodySettled = TRUE,
                          !.writes = @ \cup {w}]
<1>1. b \in Call /\ hop[r] \in Hop /\ Local(b, hop[r], r \in lost)
  BY DEF IInv, TypeOK, LocalInv
<1>2. /\ b.phase = "fetching"
      /\ call' = [call EXCEPT ![r] = c] /\ hop' = [hop EXCEPT ![r] = hop[r]]
      /\ UNCHANGED <<fence, control, lost>>
  BY DEF FetchRejects, Set, IInv, TypeOK
<1>3. b.writes = {} /\ ~b.closing
  BY <1>1, <1>2 DEF Local, Stages
<1>4. c \in Call
  BY <1>1 DEF Call, Writes
<1>5. /\ c.phase = "ended" /\ c.sent = b.sent /\ c.pending = b.pending
      /\ c.unknown = b.unknown /\ ~c.closing /\ c.fetchSettled /\ c.bodySettled
      /\ c.writes = {w} /\ c.reader = b.reader /\ c.cancel = b.cancel
      /\ c.cancelFailed = b.cancelFailed
  BY <1>1, <1>3 DEF Call
<1> HIDE DEF c
<1>6. Stages(c) /\ Attached(c, hop[r])
  BY <1>1, <1>2, <1>4, <1>5, CallTypes DEF Local, Stages, Attached
<1>7. Over(c) /\ (c.sent > 0 /\ ~c.unknown => Owed(c, hop[r]))
  <2>1. CASE b.sent > 0 /\ b.pending = 0 /\ ~b.unknown
    <3>1. "failed" \in c.writes
      BY <1>5, <2>1
    <3> QED
      BY <1>5, <2>1, <3>1 DEF Over, Owed, Releasing
  <2>2. CASE ~(b.sent > 0 /\ b.pending = 0 /\ ~b.unknown)
    <3>1. c.writes \cap Releasing = {}
      BY <1>5, <2>2 DEF Releasing
    <3>2. c.sent > 0 /\ ~c.unknown => c.pending > 0
      BY <1>1, <1>5, <2>2, CallTypes
    <3> QED
      BY <1>5, <3>1, <3>2 DEF Over, Owed
  <2> QED
    BY <2>1, <2>2
<1>8. Local(c, hop[r], r \in lost)
  BY <1>6, <1>7 DEF Local
<1> QED
  BY <1>1, <1>2, <1>4, <1>8, OneRequest

LEMMA FetchAnswersKeeps == ASSUME IInv, NEW r \in Requests, FetchAnswers(r) PROVE IInv'
<1> DEFINE b == call[r]
<1>1. b \in Call /\ hop[r] \in Hop /\ Local(b, hop[r], r \in lost)
  BY DEF IInv, TypeOK, LocalInv
<1>2. /\ b.phase = "fetching" /\ b.sent > 0
      /\ hop' = [hop EXCEPT ![r] = hop[r]] /\ UNCHANGED <<fence, control, lost>>
  BY DEF FetchAnswers, IInv, TypeOK
<1>3. b.writes = {} /\ ~b.closing /\ ~b.bodySettled /\ ~b.cancelFailed
  BY <1>1, <1>2 DEF Local, Stages
<1>4. CASE call' = [call EXCEPT ![r] = Settle([b EXCEPT !.phase = "ended",
                      !.fetchSettled = TRUE, !.bodySettled = TRUE])]
  <2> DEFINE c == [b EXCEPT !.phase = "ended", !.fetchSettled = TRUE, !.bodySettled = TRUE]
  <2>1. c \in Call
    BY <1>1 DEF Call
  <2>2. /\ c.phase = "ended" /\ c.sent = b.sent /\ c.pending = b.pending
        /\ c.unknown = b.unknown /\ ~c.closing /\ c.fetchSettled /\ c.bodySettled
        /\ c.writes = {} /\ c.reader = b.reader /\ c.cancel = b.cancel
        /\ c.cancelFailed = b.cancelFailed
    BY <1>1, <1>3 DEF Call
  <2> HIDE DEF c
  <2>3. Stages(c) /\ Over(c) /\ Attached(c, hop[r])
    BY <1>1, <1>2, <2>1, <2>2, CallTypes DEF Local, Stages, Over, Attached
  <2>4. Owed(c, hop[r]) \/ (~c.closing /\ c.pending = 0)
    <3>1. c.pending > 0 \/ c.pending = 0
      BY <2>1, CallTypes
    <3> QED
      BY <2>2, <3>1 DEF Owed
  <2>5. Settle(c) \in Call /\ Local(Settle(c), hop[r], r \in lost)
    BY <2>1, <2>2, <2>3, <2>4, SettleLocal
  <2>6. call' = [call EXCEPT ![r] = Settle(c)]
    BY <1>4 DEF c
  <2> QED
    BY <1>1, <1>2, <2>5, <2>6, OneRequest
<1>5. CASE call' = [call EXCEPT ![r] = [b EXCEPT !.phase = "body",
                      !.fetchSettled = TRUE, !.reader = "live"]]
  <2> DEFINE c == [b EXCEPT !.phase = "body", !.fetchSettled = TRUE, !.reader = "live"]
  <2>1. c \in Call
    BY <1>1 DEF Call
  <2>2. /\ c.phase = "body" /\ c.sent = b.sent /\ c.pending = b.pending
        /\ c.unknown = b.unknown /\ ~c.closing /\ c.fetchSettled /\ ~c.bodySettled
        /\ c.writes = {} /\ c.cancel = b.cancel /\ c.cancelFailed = b.cancelFailed
    BY <1>1, <1>3 DEF Call
  <2> HIDE DEF c
  <2>3. c.cancel = "no"
    BY <1>1, <1>2, <2>2 DEF Local, Stages
  <2>4. Local(c, hop[r], r \in lost)
    BY <1>1, <1>2, <2>1, <2>2, <2>3, CallTypes DEF Local, Stages, Over, Attached
  <2>5. call' = [call EXCEPT ![r] = c]
    BY <1>5 DEF c
  <2> QED
    BY <1>1, <1>2, <2>1, <2>4, <2>5, OneRequest
<1> QED
  BY <1>4, <1>5 DEF FetchAnswers, Set
LEMMA ReaderEndsKeeps == ASSUME IInv, NEW r \in Requests, ReaderEnds(r) PROVE IInv'
<1> DEFINE b == call[r]
<1>1. b \in Call /\ hop[r] \in Hop /\ Local(b, hop[r], r \in lost)
  BY DEF IInv, TypeOK, LocalInv
<1>2. /\ b.phase = "body"
      /\ hop' = [hop EXCEPT ![r] = hop[r]] /\ UNCHANGED <<fence, control, lost>>
  BY DEF ReaderEnds, IInv, TypeOK
<1>3. PICK s \in {"closed", "errored"} : call' = [call EXCEPT ![r] = [b EXCEPT !.reader = s]]
  BY DEF ReaderEnds, Set
<1> DEFINE c == [b EXCEPT !.reader = s]
<1>4. c \in Call
  BY <1>1 DEF Call
<1>5. /\ c.phase = "body" /\ c.sent = b.sent /\ c.pending = b.pending
      /\ c.unknown = b.unknown /\ c.closing = b.closing /\ c.fetchSettled = b.fetchSettled
      /\ c.bodySettled = b.bodySettled /\ c.writes = b.writes /\ c.reader # "live"
      /\ c.cancelFailed = b.cancelFailed
  BY <1>1, <1>2 DEF Call
<1> HIDE DEF c
<1>6. Local(c, hop[r], r \in lost)
  BY <1>1, <1>2, <1>4, <1>5, CallTypes DEF Local, Stages, Over, Attached
<1> QED
  BY <1>1, <1>2, <1>3, <1>4, <1>6, OneRequest DEF c

LEMMA PullKeeps == ASSUME IInv, NEW r \in Requests, Pull(r) PROVE IInv'
<1> DEFINE b == call[r]
           c == [b EXCEPT !.phase = "ended", !.bodySettled = TRUE]
<1>1. b \in Call /\ hop[r] \in Hop /\ Local(b, hop[r], r \in lost)
  BY DEF IInv, TypeOK, LocalInv
<1>2. /\ b.phase = "body" /\ call' = [call EXCEPT ![r] = Settle(c)]
      /\ hop' = [hop EXCEPT ![r] = hop[r]] /\ UNCHANGED <<fence, control, lost>>
  BY DEF Pull, Set, IInv, TypeOK
<1>3. b.writes = {} /\ ~b.closing /\ b.fetchSettled
  BY <1>1, <1>2 DEF Local, Stages
<1>4. c \in Call
  BY <1>1 DEF Call
<1>5. /\ c.phase = "ended" /\ c.sent = b.sent /\ c.pending = b.pending
      /\ c.unknown = b.unknown /\ ~c.closing /\ c.fetchSettled /\ c.bodySettled
      /\ c.writes = {} /\ c.reader = b.reader /\ c.cancel = b.cancel
      /\ c.cancelFailed = b.cancelFailed
  BY <1>1, <1>3 DEF Call
<1> HIDE DEF c
<1>6. Stages(c) /\ Over(c) /\ Attached(c, hop[r])
  BY <1>1, <1>2, <1>4, <1>5, CallTypes DEF Local, Stages, Over, Attached
<1>7. Owed(c, hop[r]) \/ (~c.closing /\ c.pending = 0)
  <2>1. c.pending > 0 \/ c.pending = 0
    BY <1>4, CallTypes
  <2> QED
    BY <1>5, <2>1 DEF Owed
<1>8. Settle(c) \in Call /\ Local(Settle(c), hop[r], r \in lost)
  BY <1>4, <1>5, <1>6, <1>7, SettleLocal
<1> QED
  BY <1>1, <1>2, <1>8, OneRequest

LEMMA CancelKeeps == ASSUME IInv, NEW r \in Requests, Cancel(r) PROVE IInv'
<1> DEFINE b == call[r]
<1>1. b \in Call /\ hop[r] \in Hop /\ Local(b, hop[r], r \in lost)
  BY DEF IInv, TypeOK, LocalInv
<1>2. PICK outcome \in {"ok", "rejected"} :
        call' = [call EXCEPT ![r] = [b EXCEPT !.cancel = outcome,
                               !.reader = IF @ = "live" THEN "closed" ELSE @]]
  BY <1>1 DEF Cancel, Set, Call
<1>3. /\ b.phase = "body"
      /\ hop' = [hop EXCEPT ![r] = hop[r]] /\ UNCHANGED <<fence, control, lost>>
  BY DEF Cancel, IInv, TypeOK
<1> DEFINE c == [b EXCEPT !.cancel = outcome,
                          !.reader = IF @ = "live" THEN "closed" ELSE @]
<1>4. c \in Call
  BY <1>1 DEF Call
<1>5. /\ c.phase = "body" /\ c.sent = b.sent /\ c.pending = b.pending
      /\ c.unknown = b.unknown /\ c.closing = b.closing /\ c.fetchSettled = b.fetchSettled
      /\ c.bodySettled = b.bodySettled /\ c.writes = b.writes /\ c.reader # "live"
      /\ c.cancelFailed = b.cancelFailed
  BY <1>1, <1>3 DEF Call
<1> HIDE DEF c
<1>6. Local(c, hop[r], r \in lost)
  BY <1>1, <1>3, <1>4, <1>5, CallTypes DEF Local, Stages, Over, Attached
<1>7. call' = [call EXCEPT ![r] = c]
  BY <1>2 DEF c
<1> QED
  BY <1>1, <1>3, <1>4, <1>6, <1>7, OneRequest

LEMMA CancelAnsweredKeeps ==
  ASSUME IInv, NEW r \in Requests, CancelAnswered(r) PROVE IInv'
<1> DEFINE b == call[r]
           over == [b EXCEPT !.bodySettled = TRUE]
           last == [b EXCEPT !.bodySettled = TRUE, !.phase = "ended"]
<1>1. b \in Call /\ hop[r] \in Hop /\ Local(b, hop[r], r \in lost)
  BY DEF IInv, TypeOK, LocalInv
<1>2. /\ b.phase = "body" /\ b.cancel # "no"
      /\ call' = [call EXCEPT ![r] = [AfterCancel(b) EXCEPT !.phase = "ended"]]
      /\ hop' = [hop EXCEPT ![r] = hop[r]] /\ UNCHANGED <<fence, control, lost>>
  BY DEF CancelAnswered, Set, IInv, TypeOK
<1>3. b.writes = {} /\ ~b.closing /\ b.fetchSettled /\ b.reader # "live" /\ ~b.cancelFailed
  BY <1>1, <1>2 DEF Local, Stages
<1>4. over \in Call /\ last \in Call
  BY <1>1 DEF Call
<1>5. /\ last.phase = "ended" /\ last.sent = b.sent /\ last.pending = b.pending
      /\ last.unknown = b.unknown /\ ~last.closing /\ last.fetchSettled /\ last.bodySettled
      /\ last.writes = {} /\ last.reader = b.reader /\ last.cancel = b.cancel
      /\ last.cancelFailed = b.cancelFailed
  BY <1>1, <1>3 DEF Call
<1>6. CASE b.cancel = "ok" \/ ~(b.pending > 0 \/ b.unknown)
  <2>1. AfterCancel(b) = Settle(over)
    BY <1>2, <1>3, <1>6 DEF AfterCancel, Call
  <2>2. [Settle(over) EXCEPT !.phase = "ended"] = Settle(last)
    BY <1>1 DEF Settle, Call
  <2> HIDE DEF last
  <2>3. Stages(last) /\ Over(last) /\ Attached(last, hop[r])
    BY <1>1, <1>2, <1>4, <1>5, CallTypes DEF Local, Stages, Over, Attached
  <2>4. Owed(last, hop[r]) \/ (~last.closing /\ last.pending = 0)
    <3>1. last.pending > 0 \/ last.pending = 0
      BY <1>4, CallTypes
    <3> QED
      BY <1>5, <3>1 DEF Owed
  <2>5. Settle(last) \in Call /\ Local(Settle(last), hop[r], r \in lost)
    BY <1>4, <1>5, <2>3, <2>4, SettleLocal
  <2> QED
    BY <1>1, <1>2, <2>1, <2>2, <2>5, OneRequest
<1>7. CASE b.cancel # "ok" /\ (b.pending > 0 \/ b.unknown)
  <2> DEFINE c == [b EXCEPT !.bodySettled = TRUE, !.phase = "ended",
                            !.writes = @ \cup {"interim"}]
  <2>1. [AfterCancel(b) EXCEPT !.phase = "ended"] = c
    BY <1>1, <1>3, <1>7 DEF AfterCancel, Call
  <2>2. c \in Call
    BY <1>1 DEF Call, Writes
  <2>3. /\ c.phase = "ended" /\ c.sent = b.sent /\ c.pending = b.pending
        /\ c.unknown = b.unknown /\ ~c.closing /\ c.fetchSettled /\ c.bodySettled
        /\ c.writes = {"interim"} /\ c.reader = b.reader /\ c.cancel = b.cancel
        /\ c.cancelFailed = b.cancelFailed
    BY <1>1, <1>3 DEF Call
  <2> HIDE DEF c
  <2>4. Local(c, hop[r], r \in lost)
    BY <1>1, <1>2, <2>2, <2>3, CallTypes
    DEF Local, Stages, Over, Attached, Owed, Releasing
  <2> QED
    BY <1>1, <1>2, <2>1, <2>2, <2>4, OneRequest
<1> QED
  BY <1>6, <1>7
\* A request with a write in flight has ended.
LEMMA WritesAreLast ==
  ASSUME NEW c \in Call, Stages(c), c.writes # {}
  PROVE  c.phase = "ended"
  BY DEF Stages, Idle, Call

\* The end of a write keeps the local part if the row still owes what it should.
LEMMA WrittenLocal ==
  ASSUME NEW c \in Call, NEW w \in c.writes, NEW h, NEW l,
         Stages(c), Over(c), Attached(c, h), c.phase = "ended",
         c.sent > 0 /\ ~c.unknown /\ ~l =>
           \/ h.state = "released"
           \/ (c.writes \ {w}) \cap Releasing # {}
           \/ ~c.closing /\ (c.pending > 0 \/ "interim" \in c.writes)
  PROVE  Written(c, w) \in Call /\ Local(Written(c, w), h, l)
<1> DEFINE d == [c EXCEPT !.writes = @ \ {w}]
<1>1. d \in Call
  BY DEF Call
<1>2. /\ d.phase = "ended" /\ d.sent = c.sent /\ d.pending = c.pending
      /\ d.unknown = c.unknown /\ d.closing = c.closing
      /\ d.fetchSettled = c.fetchSettled /\ d.bodySettled = c.bodySettled
      /\ d.writes = c.writes \ {w} /\ d.reader = c.reader /\ d.cancel = c.cancel
      /\ d.cancelFailed = c.cancelFailed
  BY DEF Call
<1> HIDE DEF d
<1>3. Stages(d) /\ Attached(d, h)
  BY <1>1, <1>2, CallTypes DEF Stages, Attached
<1>4. Over(d)
  BY <1>1, <1>2, CallTypes DEF Over
<1>5. d.pending > 0 \/ d.pending = 0
  BY <1>1, CallTypes
<1>6. CASE w = "interim"
  <2>1. d.sent > 0 /\ ~d.unknown /\ ~l => Owed(d, h) \/ (~d.closing /\ d.pending = 0)
    BY <1>2, <1>5 DEF Owed
  <2>2. Settle(d) \in Call /\ Local(Settle(d), h, l)
    BY <1>1, <1>2, <1>3, <1>4, <2>1, SettleLocal
  <2> QED
    BY <1>6, <2>2 DEF Written, d
<1>7. CASE w # "interim"
  <2>1. d.sent > 0 /\ ~d.unknown /\ ~l => Owed(d, h)
    BY <1>2, <1>7 DEF Owed
  <2>2. Local(d, h, l)
    BY <1>3, <1>4, <2>1 DEF Local
  <2>3. Written(c, w) = d
    BY <1>7 DEF Written, d
  <2> QED
    BY <1>1, <2>2, <2>3
<1> QED
  BY <1>6, <1>7

LEMMA FinishKeeps == ASSUME IInv, NEW r \in Requests, Finish(r) PROVE IInv'
<1> DEFINE b == call[r]
<1>1. b \in Call /\ hop[r] \in Hop /\ Local(b, hop[r], r \in lost)
  BY DEF IInv, TypeOK, LocalInv
<1>2. PICK w \in b.writes : /\ hop' = [hop EXCEPT ![r] = Finished(r, w)]
                            /\ call' = [call EXCEPT ![r] = Written(b, w)]
  BY DEF Finish, Set
<1>3. UNCHANGED <<fence, control, lost>>
  BY DEF Finish
<1>4. b.phase = "ended" /\ Stages(b) /\ Over(b) /\ Attached(b, hop[r])
  BY <1>1, WritesAreLast DEF Local
<1> DEFINE h == Finished(r, w)
<1>5. /\ h \in Hop
      /\ hop[r].state \in Open /\ w \in Releasing => h.state = "released"
      /\ hop[r].state \in Open /\ w \notin Releasing => h.state = "indeterminate"
      /\ hop[r].state \notin Open => h.state = hop[r].state
  BY <1>1 DEF Finished, Hop, Open
<1> HIDE DEF h
<1>6. w \in Releasing => b.pending = 0 /\ ~b.unknown
  BY <1>4 DEF Over
<1>7. Attached(b, h)
  BY <1>1, <1>4, <1>5, <1>6, CallTypes DEF Attached, Open
<1>8. b.sent > 0 /\ ~b.unknown /\ ~(r \in lost) =>
         \/ h.state = "released"
         \/ (b.writes \ {w}) \cap Releasing # {}
         \/ ~b.closing /\ (b.pending > 0 \/ "interim" \in b.writes)
  <2> SUFFICES ASSUME b.sent > 0, ~b.unknown, ~(r \in lost)
               PROVE  \/ h.state = "released"
                      \/ (b.writes \ {w}) \cap Releasing # {}
                      \/ ~b.closing /\ (b.pending > 0 \/ "interim" \in b.writes)
    OBVIOUS
  <2>1. Owed(b, hop[r]) /\ hop[r].state \in Open \cup {"released"}
    BY <1>1, <1>4 DEF Local, Attached
  <2>2. CASE w \in Releasing
    BY <1>5, <2>1, <2>2 DEF Open
  <2>3. CASE w \notin Releasing
    BY <1>5, <2>1, <2>3 DEF Owed, Open
  <2> QED
    BY <2>2, <2>3
<1>9. Written(b, w) \in Call /\ Local(Written(b, w), h, r \in lost)
  BY <1>1, <1>4, <1>7, <1>8, WrittenLocal
<1>10. h.state \in Charges => hop[r].state \in Charges
  BY <1>1, <1>5 DEF Charges, Open
<1>11. hop' = [hop EXCEPT ![r] = h]
  BY <1>2 DEF h
<1> QED
  BY <1>2, <1>3, <1>5, <1>9, <1>10, <1>11, OneRequest

LEMMA FinishFailsKeeps == ASSUME IInv, NEW r \in Requests, FinishFails(r) PROVE IInv'
<1> DEFINE b == call[r]
<1>1. b \in Call /\ hop[r] \in Hop /\ Local(b, hop[r], r \in lost)
  BY DEF IInv, TypeOK, LocalInv
<1>2. PICK w \in b.writes : call' = [call EXCEPT ![r] = Written(b, w)]
  BY DEF FinishFails, Set
<1>3. /\ lost' = lost \cup {r} /\ UNCHANGED <<fence, control>>
      /\ hop' = [hop EXCEPT ![r] = hop[r]]
  BY DEF FinishFails, IInv, TypeOK
<1>4. b.phase = "ended" /\ Stages(b) /\ Over(b) /\ Attached(b, hop[r])
  BY <1>1, WritesAreLast DEF Local
<1>5. r \in lost'
  BY <1>3
<1>6. Written(b, w) \in Call /\ Local(Written(b, w), hop[r], r \in lost')
  BY <1>1, <1>4, <1>5, WrittenLocal
<1> QED
  BY <1>1, <1>2, <1>3, <1>6, OneRequest

-----------------------------------------------------------------------------
(* Processes and time *)

LEMMA CrashKeeps == ASSUME IInv, NEW r \in Requests, Crash(r) PROVE IInv'
<1> DEFINE c == [NoCall EXCEPT !.phase = "dead"]
<1>1. hop[r] \in Hop
  BY DEF IInv, TypeOK
<1>2. /\ call' = [call EXCEPT ![r] = c] /\ hop' = [hop EXCEPT ![r] = hop[r]]
      /\ UNCHANGED <<fence, control, lost>>
  BY DEF Crash, Set, IInv, TypeOK
<1>3. c \in Call
  <2>1. NoCall \in Call
    BY Numbers DEF NoCall, Call, Writes
  <2> QED
    BY <2>1 DEF Call
<1>4. Local(c, hop[r], r \in lost)
  BY DEF NoCall, Local, Stages, Idle, Over, Attached, Releasing
<1> QED
  BY <1>1, <1>2, <1>3, <1>4, OneRequest

LEMMA ReclaimKeeps == ASSUME IInv, NEW r \in Requests, Reclaim(r) PROVE IInv'
<1> DEFINE b == call[r]
           h == [hop[r] EXCEPT !.state = "released"]
<1>1. b \in Call /\ hop[r] \in Hop /\ Local(b, hop[r], r \in lost)
  BY DEF IInv, TypeOK, LocalInv
<1>2. /\ b.phase = "dead" /\ call' = [call EXCEPT ![r] = b]
      /\ hop' = [hop EXCEPT ![r] = h] /\ UNCHANGED <<fence, control, lost>>
  BY DEF Reclaim, Mark, IInv, TypeOK
<1>3. h \in Hop /\ h.state = "released"
  BY <1>1 DEF Hop
<1> HIDE DEF h
<1>4. Idle(b) /\ Stages(b) /\ Over(b)
  BY <1>1, <1>2 DEF Local, Stages
<1>5. Local(b, h, r \in lost)
  BY <1>1, <1>2, <1>3, <1>4 DEF Local, Attached, Idle
<1> QED
  BY <1>1, <1>2, <1>3, <1>5, OneRequest DEF Charges

LEMMA RunOutKeeps == ASSUME IInv, NEW r \in Requests, RunOut(r) PROVE IInv'
<1> DEFINE b == call[r]
           h == [hop[r] EXCEPT !.fresh = FALSE]
<1>1. b \in Call /\ hop[r] \in Hop /\ Local(b, hop[r], r \in lost)
  BY DEF IInv, TypeOK, LocalInv
<1>2. /\ call' = [call EXCEPT ![r] = b] /\ hop' = [hop EXCEPT ![r] = h]
      /\ UNCHANGED <<fence, control, lost>>
  BY DEF RunOut, IInv, TypeOK
<1>3. h \in Hop /\ h.state = hop[r].state
  BY <1>1 DEF Hop
<1> HIDE DEF h
<1>4. Local(b, h, r \in lost)
  BY <1>1, <1>3 DEF Local, Attached, Owed
<1> QED
  BY <1>1, <1>2, <1>3, <1>4, OneRequest
-----------------------------------------------------------------------------
(* Reservations *)

LEMMA SweptKeeps ==
  ASSUME IInv, NEW s \in Requests
  PROVE  /\ Swept(s) \in Hop
         /\ Swept(s).state \in Charges => hop[s].state \in Charges
         /\ Local(call[s], Swept(s), s \in lost)
<1>1. hop[s] \in Hop /\ call[s] \in Call /\ Local(call[s], hop[s], s \in lost)
  BY DEF IInv, TypeOK, LocalInv
<1>2. CASE hop[s].state = "reserved" /\ ~hop[s].fresh
  <2>1. Swept(s) \in Hop /\ Swept(s).state = "cancelled"
    BY <1>1, <1>2 DEF Swept, Hop
  <2>2. Local(call[s], Swept(s), s \in lost)
    BY <1>1, <1>2, <2>1, CallTypes DEF Local, Attached, Open
  <2> QED
    BY <2>1, <2>2 DEF Charges
<1>3. CASE ~(hop[s].state = "reserved" /\ ~hop[s].fresh)
  BY <1>1, <1>3 DEF Swept
<1> QED
  BY <1>2, <1>3

LEMMA ReserveKeeps == ASSUME IInv, NEW r \in Requests, Reserve(r) PROVE IInv'
<1> DEFINE swept == [s \in Requests |-> Swept(s)]
           new == [state |-> "reserved", revision |-> control.revision, fresh |-> TRUE]
<1>1. call[r] \in Call /\ Local(call[r], hop[r], r \in lost) /\ call[r].phase = "waiting"
  BY DEF IInv, TypeOK, LocalInv, Reserve
<1>2. UNCHANGED <<fence, control, lost>>
  BY DEF Reserve
<1>3. swept \in [Requests -> Hop] /\ OriginRoom(swept) /\ HostRoom(swept)
  <2>1. \A s \in Requests : swept[s].state \in Charges => hop[s].state \in Charges
    BY SweptKeeps
  <2> QED
    BY <2>1, SweptKeeps, FewerCharges DEF IInv
<1>4. CASE ~Room(swept, r)
  <2>1. hop' = swept /\ call' = call
    BY <1>4 DEF Reserve
  <2>2. TypeOK'
    BY <1>2, <1>3, <2>1 DEF IInv, TypeOK
  <2>3. LocalInv'
    BY <1>2, <2>1, SweptKeeps DEF LocalInv
  <2>4. OriginRoom(hop)' /\ HostRoom(hop)'
    BY <1>3, <2>1 DEF OriginRoom, HostRoom, LimitedHops
  <2> QED
    BY <2>2, <2>3, <2>4 DEF IInv
<1>5. CASE Room(swept, r)
  <2>1. hop' = [swept EXCEPT ![r] = new]
    BY <1>5 DEF Reserve
  <2>2. PICK phase \in {"reserved", "ended"} :
          call' = [call EXCEPT ![r] = [call[r] EXCEPT !.phase = phase]]
    BY <1>5 DEF Reserve, Set
  <2> DEFINE c == [call[r] EXCEPT !.phase = phase]
  <2>3. c \in Call
    BY <1>1 DEF Call
  <2>4. /\ c.phase \in {"reserved", "ended"} /\ Idle(c) /\ ~c.fetchSettled
        /\ ~c.bodySettled /\ c.cancel = "no" /\ ~c.cancelFailed
    BY <1>1 DEF Call, Local, Stages, Idle
  <2>5. new \in Hop
    BY DEF Hop, IInv, TypeOK
  <2> HIDE DEF c
  <2>6. call' = [call EXCEPT ![r] = c]
    BY <2>2 DEF c
  <2>7. Local(c, new, r \in lost)
    BY <2>3, <2>4, CallTypes DEF Local, Stages, Over, Attached, Idle
  <2>8. TypeOK'
    <3>1. control' = control /\ fence' = fence /\ lost' = lost
      BY <1>2
    <3>2. hop' \in [Requests -> Hop]
      BY <1>3, <2>1, <2>5
    <3>3. call' \in [Requests -> Call]
      BY <2>3, <2>6 DEF IInv, TypeOK
    <3> QED
      BY <3>1, <3>2, <3>3 DEF IInv, TypeOK
  <2>9. LocalInv'
    <3> SUFFICES ASSUME NEW s \in Requests PROVE Local(call'[s], hop'[s], s \in lost')
      BY DEF LocalInv
    <3>1. CASE s = r
      <4>1. call'[s] = c /\ hop'[s] = new /\ lost' = lost
        BY <1>2, <1>3, <2>1, <2>6, <3>1 DEF IInv, TypeOK
      <4> QED
        BY <2>7, <3>1, <4>1
    <3>2. CASE s # r
      <4>1. call'[s] = call[s] /\ hop'[s] = Swept(s) /\ lost' = lost
        BY <1>2, <1>3, <2>1, <2>6, <3>2 DEF IInv, TypeOK
      <4> QED
        BY <4>1, SweptKeeps
    <3> QED
      BY <3>1, <3>2
  <2>10. OriginRoom(hop)'
    <3>1. \A s \in Requests : s # r => hop'[s] = swept[s]
      BY <1>3, <2>1
    <3>2. \A s \in Requests : OriginOf[s] = OriginOf[r] => swept[s].state \notin Charges
      BY <1>5 DEF Room
    <3> HIDE DEF swept
    <3> QED
      BY <1>3, <3>1, <3>2 DEF OriginRoom
  <2>11. HostRoom(hop)'
    <3>1. LimitedHops(hop)' \subseteq LimitedHops(swept) \cup {r}
      BY <1>3, <2>1 DEF LimitedHops
    <3>2. IsFiniteSet(LimitedHops(swept))
      BY RequestsAssumption, FS_Subset DEF LimitedHops
    <3>3. Cardinality(LimitedHops(swept)) \in Nat
      BY <3>2, FS_CardinalityType
    <3>4. CASE HostOf[r] = Limited
      <4>1. Cardinality(LimitedHops(swept)) < HostLimit
        BY <1>5, <3>4 DEF Room, LimitedHops
      <4>2. /\ IsFiniteSet(LimitedHops(swept) \cup {r})
            /\ \/ Cardinality(LimitedHops(swept) \cup {r}) = Cardinality(LimitedHops(swept))
               \/ Cardinality(LimitedHops(swept) \cup {r}) = Cardinality(LimitedHops(swept)) + 1
        BY <3>2, FS_AddElement
      <4>3. /\ IsFiniteSet(LimitedHops(hop)')
            /\ Cardinality(LimitedHops(hop)') <= Cardinality(LimitedHops(swept) \cup {r})
        BY <3>1, <4>2, FS_Subset
      <4>4. Cardinality(LimitedHops(hop)') \in Nat
        BY <4>3, FS_CardinalityType
      <4> QED
        BY <3>3, <4>1, <4>2, <4>3, <4>4, Numbers DEF HostRoom
    <3>5. CASE HostOf[r] # Limited
      <4>1. LimitedHops(hop)' \subseteq LimitedHops(swept)
        BY <3>1, <3>5 DEF LimitedHops
      <4>2. /\ IsFiniteSet(LimitedHops(hop)')
            /\ Cardinality(LimitedHops(hop)') <= Cardinality(LimitedHops(swept))
        BY <3>2, <4>1, FS_Subset
      <4>3. Cardinality(LimitedHops(hop)') \in Nat
        BY <4>2, FS_CardinalityType
      <4> QED
        BY <1>3, <3>3, <4>2, <4>3, Numbers DEF HostRoom
    <3> QED
      BY <3>4, <3>5
  <2> QED
    BY <2>8, <2>9, <2>10, <2>11 DEF IInv
<1> QED
  BY <1>4, <1>5
-----------------------------------------------------------------------------
(* The operator, and all steps *)

\* Mode, policy and fence are not part of the invariant but for their types.
LEMMA OperatorKeeps ==
  ASSUME IInv, SetPolicy \/ SetMode \/ FenceSite \/ UNCHANGED vars
  PROVE  IInv'
<1>1. UNCHANGED <<hop, call, lost>>
  BY DEF SetPolicy, SetMode, FenceSite, vars
<1>2. TypeOK'
  <2>1. CASE SetPolicy
    BY <2>1, Numbers DEF SetPolicy, IInv, TypeOK
  <2>2. CASE SetMode
    BY <2>2 DEF SetMode, IInv, TypeOK
  <2>3. CASE FenceSite
    BY <2>3 DEF FenceSite, IInv, TypeOK
  <2>4. CASE UNCHANGED vars
    BY <2>4 DEF vars, IInv, TypeOK
  <2> QED
    BY <2>1, <2>2, <2>3, <2>4
<1>3. LocalInv'
  BY <1>1 DEF IInv, LocalInv
<1>4. OriginRoom(hop)' /\ HostRoom(hop)'
  BY <1>1 DEF IInv, OriginRoom, HostRoom, LimitedHops
<1> QED
  BY <1>2, <1>3, <1>4 DEF IInv

LEMMA NextIInv == IInv /\ [Next]_vars => IInv'
<1> SUFFICES ASSUME IInv, [Next]_vars PROVE IInv'
  OBVIOUS
<1>1. CASE SetPolicy \/ SetMode \/ FenceSite \/ UNCHANGED vars
  BY <1>1, OperatorKeeps
<1>2. ASSUME NEW r \in Requests,
             \/ Reserve(r) \/ GiveUp(r) \/ Begin(r) \/ Dispatch(r) \/ NativeEnds(r)
             \/ FetchRejects(r) \/ FetchAnswers(r) \/ ReaderEnds(r) \/ Pull(r)
             \/ Cancel(r) \/ CancelAnswered(r) \/ Finish(r) \/ FinishFails(r)
             \/ Crash(r) \/ Reclaim(r) \/ RunOut(r)
      PROVE  IInv'
  BY <1>2, ReserveKeeps, GiveUpKeeps, BeginKeeps, DispatchKeeps, NativeEndsKeeps,
     FetchRejectsKeeps, FetchAnswersKeeps, ReaderEndsKeeps, PullKeeps, CancelKeeps,
     CancelAnsweredKeeps, FinishKeeps, FinishFailsKeeps, CrashKeeps, ReclaimKeeps,
     RunOutKeeps
<1> QED
  BY <1>1, <1>2 DEF Next

\* The invariant holds in every reachable state.
THEOREM Invariant == Spec => []IInv
  BY InitIInv, NextIInv, PTL DEF Spec

\* Rows, calls and the control keep their types; in particular the number of pending
\* dispatches never goes below zero.
THEOREM TypeCorrect == Spec => []TypeOK
<1>1. IInv => TypeOK
  BY DEF IInv
<1> QED
  BY <1>1, Invariant, PTL

-----------------------------------------------------------------------------
(* Results *)

LEMMA ConnectedIsOpen ==
  ASSUME IInv, NEW r \in Requests, Connected(r)
  PROVE  hop[r].state \in Open
  BY DEF IInv, LocalInv, Local, Attached, Connected

\* One connection per origin and the total of the limited host, whatever the number
\* of requests, hosts and dispatches.
THEOREM LimitsHold == Spec => []TrafficIsLimited
<1>1. ASSUME IInv PROVE TrafficIsLimited
  <2>1. \A r, s \in Requests :
          r # s /\ Connected(r) /\ Connected(s) => OriginOf[r] # OriginOf[s]
    BY <1>1, ConnectedIsOpen DEF IInv, OriginRoom, Open, Charges
  <2>2. {r \in Requests : Connected(r) /\ HostOf[r] = Limited} \subseteq LimitedHops(hop)
    BY <1>1, ConnectedIsOpen DEF LimitedHops, Open, Charges
  <2>3. IsFiniteSet(LimitedHops(hop))
    BY RequestsAssumption, FS_Subset DEF LimitedHops
  <2> DEFINE C == {r \in Requests : Connected(r) /\ HostOf[r] = Limited}
  <2>4. IsFiniteSet(C) /\ Cardinality(C) <= Cardinality(LimitedHops(hop))
    BY <2>2, <2>3, FS_Subset
  <2>5. Cardinality(C) \in Nat /\ Cardinality(LimitedHops(hop)) \in Nat
    BY <2>3, <2>4, FS_CardinalityType
  <2>6. Cardinality(LimitedHops(hop)) <= HostLimit
    BY <1>1 DEF IInv, HostRoom
  <2> HIDE DEF C
  <2>7. Cardinality(C) <= HostLimit
    BY <2>4, <2>5, <2>6, Numbers
  <2> QED
    BY <2>1, <2>7 DEF TrafficIsLimited, C
<1> QED
  BY <1>1, Invariant, PTL

\* The callbacks of requestOriginHop never end with a charge that none of them will
\* release, unless a transaction failed or a dispatch threw.
THEOREM ChargesEnd == Spec => []NothingIsLeftCharged
<1>1. ASSUME IInv, NEW r \in Requests,
             call[r].phase = "ended", call[r].pending = 0, call[r].writes = {},
             call[r].sent > 0, ~call[r].unknown, r \notin lost
      PROVE  hop[r].state = "released"
  <2>1. Owed(call[r], hop[r])
    BY <1>1 DEF IInv, LocalInv, Local
  <2> QED
    BY <1>1, <2>1 DEF Owed
<1>2. IInv => NothingIsLeftCharged
  BY <1>1 DEF NothingIsLeftCharged
<1> QED
  BY <1>2, Invariant, PTL

\* A row that ended is not written again: late writes find it closed, and reserving
\* starts from a request without a row.
THEOREM EndIsFinal == Spec => EndedStaysEnded
<1>1. ASSUME IInv, [Next]_vars
      PROVE  [\A r \in Requests :
                hop[r].state \in {"released", "cancelled"} => hop'[r] = hop[r]]_vars
  <2> SUFFICES ASSUME Next, NEW r \in Requests, hop[r].state \in {"released", "cancelled"}
               PROVE  hop'[r] = hop[r]
    BY <1>1
  <2>1. hop \in [Requests -> Hop]
    BY <1>1 DEF IInv, TypeOK
  <2>2. CASE hop' = hop
    BY <2>2
  <2>3. ASSUME NEW q \in Requests, Begin(q) \/ Reclaim(q) \/ RunOut(q) PROVE hop'[r] = hop[r]
    BY <2>1, <2>3 DEF Begin, Reclaim, RunOut, Mark, Open
  <2>4. ASSUME NEW q \in Requests, Finish(q) PROVE hop'[r] = hop[r]
    <3>1. PICK w \in call[q].writes : hop' = [hop EXCEPT ![q] = Finished(q, w)]
      BY <2>4 DEF Finish
    <3> QED
      BY <2>1, <3>1 DEF Finished, Open
  <2>5. ASSUME NEW q \in Requests, Reserve(q) PROVE hop'[r] = hop[r]
    <3>1. hop[q].state = "none"
      BY <1>1, <2>5 DEF Reserve, IInv, LocalInv, Local, Attached
    <3>2. Swept(r) = hop[r]
      BY DEF Swept
    <3>3. r # q
      BY <3>1
    <3> QED
      BY <2>5, <3>2, <3>3 DEF Reserve
  <2> QED
    BY <2>2, <2>3, <2>4, <2>5
    DEF Next, SetPolicy, SetMode, FenceSite, GiveUp, Dispatch, NativeEnds, FetchRejects,
        FetchAnswers, ReaderEnds, Pull, Cancel, CancelAnswered, FinishFails, Crash
<1> QED
  BY <1>1, Invariant, PTL DEF Spec, EndedStaysEnded

-----------------------------------------------------------------------------
(* JobBatch: the invariant *)

\* How deep in its order a transaction takes the rows of a table: all in one
\* order but the transition, which takes the source control before the roles.
Depth(kind, table) ==
  CASE table = "job_batch_control" -> 1
    [] table = "role_leases" -> IF kind = "complete" THEN 3 ELSE 2
    [] table = "evidence_source_control" -> IF kind = "complete" THEN 2 ELSE 3
    [] table = "evidence_source_claims" -> 4
    [] table = "jobs" -> 5
Below(kind, a, b) ==
  \/ Depth(kind, a.table) < Depth(kind, b.table)
  \/ a.table = b.table /\ a.place < b.place

Most == Cardinality(Jobs) + Cardinality(Roles)
\* One table's rows, each once.
Plain(S, table) ==
  /\ S \subseteq Lock
  /\ \A l \in S : l.row.table = table /\ l.row.place <= Most
  /\ \A l, k \in S : l.row.place = k.row.place => l = k
\* Stages of one table each, deeper and deeper.
Rises(stages, kind) ==
  /\ \E n \in Nat : DOMAIN stages = 1..n
  /\ \A n \in DOMAIN stages : \E table : Plain(stages[n], table)
  /\ \A m, n \in DOMAIN stages : m < n =>
       \A l \in stages[m], k \in stages[n] : Depth(kind, l.row.table) < Depth(kind, k.row.table)

Detached == {"beat", "ack", "renewSource", "abandon", "record"}
AllLocks(t) == UNION Range(Locks(tx[t]))
\* What a transaction still wants is below nothing it has.
InOrder(t) ==
  \A had \in tx[t].held, left \in AllLocks(t) \ tx[t].held :
    Below(tx[t].kind, had.row, left.row)
\* A transaction without the batch row holds rows of its own only.
OwnRows(t) == tx[t].kind \in Detached => tx[t].held \subseteq AllLocks(t)

\* A lease that runs a job in the present batch.
Running(j) == job[j].live /\ ~job[j].revived
\* What an admission found idle stays idle while it has the role to itself.
StaysIdle(t) ==
  /\ tx[t].kind \in {"claim", "claimSource"} /\ batch.mode = "versioned" /\ tx[t].role \in Exclusive
  /\ Alone(RoleRow(tx[t].role)) \in tx[t].held /\ ~tx[t].busy
  => \A j \in JobsOf(tx[t].role, "versioned") \ {tx[t].job} : ~Running(j)
OneAtATime ==
  batch.mode = "versioned" =>
    \A r \in Exclusive : \A i, j \in JobsOf(r, "versioned") : Running(i) /\ Running(j) => i = j

BatchInv ==
  /\ BatchTypeOK /\ NoOldWork /\ OneAtATime
  /\ \A t \in Txs : InOrder(t) /\ OwnRows(t) /\ StaysIdle(t)

-----------------------------------------------------------------------------
(* Rows and locks *)

LEMMA BatchNumbers ==
  /\ MaxToken \in Nat /\ MaxToken >= 1 /\ MaxEpoch \in Nat /\ MaxEpoch >= 1
  /\ Cardinality(Jobs) \in Nat /\ Cardinality(Roles) \in Nat /\ Most \in Nat
  /\ \A j \in Jobs : Place[j] \in Nat /\ Place[j] <= Most
  /\ \A r \in Roles : RolePlace[r] \in Nat /\ RolePlace[r] <= Most
  /\ \A i, j \in Jobs : Place[i] = Place[j] => i = j
  /\ \A r, s \in Roles : RolePlace[r] = RolePlace[s] => r = s
  /\ (CHOOSE r \in Roles : TRUE) \in Roles /\ (CHOOSE j \in Jobs : TRUE) \in Jobs
<1>1. Cardinality(Jobs) \in Nat /\ Cardinality(Roles) \in Nat
  BY CatalogAssumption, FS_CardinalityType
<1>2. /\ \A j \in Jobs : Place[j] \in 1..Cardinality(Jobs)
      /\ \A r \in Roles : RolePlace[r] \in 1..Cardinality(Roles)
  BY CatalogAssumption DEF Injection
<1>3. /\ \A i, j \in Jobs : Place[i] = Place[j] => i = j
      /\ \A r, s \in Roles : RolePlace[r] = RolePlace[s] => r = s
  BY CatalogAssumption DEF Injection, IsInjective
<1>4. (CHOOSE r \in Roles : TRUE) \in Roles /\ (CHOOSE j \in Jobs : TRUE) \in Jobs
  BY CatalogAssumption
<1> QED
  BY <1>1, <1>2, <1>3, <1>4, BoundsAssumption DEF Most

LEMMA PlainRows ==
  /\ Plain({Share(BatchRow)}, "job_batch_control") /\ Plain({Alone(BatchRow)}, "job_batch_control")
  /\ Plain({Share(ControlRow)}, "evidence_source_control") /\ Plain({Alone(ControlRow)}, "evidence_source_control")
  /\ Plain({Alone(SourceRow)}, "evidence_source_claims")
  /\ \A r \in Roles : Plain({Alone(RoleRow(r))}, "role_leases") /\ Plain({Share(RoleRow(r))}, "role_leases")
  /\ \A j \in Jobs : Plain({Alone(JobRow(j))}, "jobs")
  /\ Plain(RoleRows, "role_leases")
  /\ \A js \in SUBSET Jobs : Plain(JobRows(js), "jobs")
  /\ \A table : Plain({}, table)
<1>1. /\ BatchRow \in Row /\ ControlRow \in Row /\ SourceRow \in Row
      /\ \A r \in Roles : RoleRow(r) \in Row /\ RoleRow(r).table = "role_leases" /\ RoleRow(r).place <= Most
      /\ \A j \in Jobs : JobRow(j) \in Row /\ JobRow(j).table = "jobs" /\ JobRow(j).place <= Most
  BY BatchNumbers DEF BatchRow, ControlRow, SourceRow, RoleRow, JobRow, Row, Tables
<1>2. \A row \in Row : /\ Share(row) \in Lock /\ Share(row).row = row /\ Alone(row) \in Lock /\ Alone(row).row = row
  BY DEF Share, Alone, Lock
<1>3. /\ BatchRow.table = "job_batch_control" /\ ControlRow.table = "evidence_source_control"
      /\ SourceRow.table = "evidence_source_claims" /\ BatchRow.place = 0 /\ ControlRow.place = 0 /\ SourceRow.place = 0
  BY DEF BatchRow, ControlRow, SourceRow
<1>4. Plain(RoleRows, "role_leases")
  <2>1. ASSUME NEW l \in RoleRows, NEW k \in RoleRows, l.row.place = k.row.place PROVE l = k
    <3>1. PICK r \in Roles, s \in Roles : l = Alone(RoleRow(r)) /\ k = Alone(RoleRow(s))
      BY DEF RoleRows
    <3>2. RolePlace[r] = RolePlace[s]
      BY <1>1, <1>2, <2>1, <3>1 DEF RoleRow
    <3> QED
      BY <3>1, <3>2, BatchNumbers
  <2> QED
    BY <1>1, <1>2, <2>1 DEF Plain, RoleRows
<1>5. ASSUME NEW js \in SUBSET Jobs PROVE Plain(JobRows(js), "jobs")
  <2>1. ASSUME NEW l \in JobRows(js), NEW k \in JobRows(js), l.row.place = k.row.place PROVE l = k
    <3>1. PICK i \in js, j \in js : l = Alone(JobRow(i)) /\ k = Alone(JobRow(j))
      BY DEF JobRows
    <3>2. Place[i] = Place[j]
      BY <1>1, <1>2, <2>1, <3>1 DEF JobRow
    <3> QED
      BY <3>1, <3>2, BatchNumbers
  <2> QED
    BY <1>1, <1>2, <2>1 DEF Plain, JobRows
<1> QED
  BY <1>1, <1>2, <1>3, <1>4, <1>5, BatchNumbers DEF Plain

LEMMA GoPlain ==
  ASSUME NEW S, NEW table, Plain(S, table)
  PROVE  Plain(Go(S), table)
  BY PlainRows DEF Go

LEMMA AdmissionPlain ==
  ASSUME NEW u, u.role \in Roles
  PROVE  Plain(Admission(u), "role_leases")
  BY PlainRows DEF Admission

LEMMA JobsOfRole == \A r, mode : JobsOf(r, mode) \in SUBSET Jobs
  BY DEF JobsOf

LEMMA Stages1 ==
  ASSUME NEW A, NEW a, Plain(A, a), NEW kind
  PROVE  Rises(<<A>>, kind)
<1>1. DOMAIN <<A>> = 1..1 /\ <<A>>[1] = A
  OBVIOUS
<1> QED
  BY <1>1 DEF Rises

LEMMA Stages2 ==
  ASSUME NEW A, NEW a, Plain(A, a), NEW B, NEW b, Plain(B, b), NEW kind,
         Depth(kind, a) < Depth(kind, b)
  PROVE  Rises(<<A, B>>, kind)
<1> DEFINE s == <<A, B>>
<1>1. DOMAIN s = 1..2 /\ s[1] = A /\ s[2] = B
  OBVIOUS
<1> HIDE DEF s
<1>2. \A l \in A : Depth(kind, l.row.table) = Depth(kind, a)
  BY DEF Plain
<1>3. \A l \in B : Depth(kind, l.row.table) = Depth(kind, b)
  BY DEF Plain
<1>4. \A m, n \in 1..2 : m < n => m = 1 /\ n = 2
  OBVIOUS
<1>5. \A n \in DOMAIN s : \E table : Plain(s[n], table)
  <2>1. \A n \in 1..2 : n = 1 \/ n = 2
    OBVIOUS
  <2> QED
    BY <1>1, <2>1
<1>6. Rises(s, kind)
  BY <1>1, <1>2, <1>3, <1>4, <1>5 DEF Rises
<1> QED
  BY <1>6 DEF s

LEMMA Stages3 ==
  ASSUME NEW A, NEW a, Plain(A, a), NEW B, NEW b, Plain(B, b),
         NEW C, NEW d, Plain(C, d), NEW kind,
         Depth(kind, a) < Depth(kind, b), Depth(kind, b) < Depth(kind, d), Depth(kind, a) < Depth(kind, d)
  PROVE  Rises(<<A, B, C>>, kind)
<1> DEFINE s == <<A, B, C>>
<1>1. DOMAIN s = 1..3 /\ s[1] = A /\ s[2] = B /\ s[3] = C
  OBVIOUS
<1> HIDE DEF s
<1>2. /\ \A l \in A : Depth(kind, l.row.table) = Depth(kind, a)
      /\ \A l \in B : Depth(kind, l.row.table) = Depth(kind, b)
      /\ \A l \in C : Depth(kind, l.row.table) = Depth(kind, d)
  BY DEF Plain
<1>3. \A m, n \in 1..3 : m < n => (m = 1 /\ n = 2) \/ (m = 1 /\ n = 3) \/ (m = 2 /\ n = 3)
  OBVIOUS
<1>4. \A n \in DOMAIN s : \E table : Plain(s[n], table)
  <2>1. \A n \in 1..3 : n = 1 \/ n = 2 \/ n = 3
    OBVIOUS
  <2> QED
    BY <1>1, <2>1
<1>5. Rises(s, kind)
  BY <1>1, <1>2, <1>3, <1>4 DEF Rises
<1> QED
  BY <1>5 DEF s

LEMMA Depths ==
  \A kind :
    /\ Depth(kind, "job_batch_control") = 1 /\ Depth(kind, "role_leases") = (IF kind = "complete" THEN 3 ELSE 2)
    /\ Depth(kind, "evidence_source_control") = (IF kind = "complete" THEN 2 ELSE 3)
    /\ Depth(kind, "evidence_source_claims") = 4 /\ Depth(kind, "jobs") = 5
  BY DEF Depth

\* The longest orders: a claim of a source and the transition.
LEMMA StagesLong ==
  ASSUME NEW A, Plain(A, "job_batch_control"), NEW B, Plain(B, "role_leases"),
         NEW C, Plain(C, "evidence_source_control"), NEW D, Plain(D, "evidence_source_claims"),
         NEW E, Plain(E, "jobs"), NEW kind
  PROVE  /\ kind # "complete" => Rises(<<A, B, C, D, E>>, kind)
         /\ kind = "complete" => Rises(<<A, C, B, E>>, kind)
<1> DEFINE s == <<A, B, C, D, E>>
           z == <<A, C, B, E>>
<1>1. DOMAIN s = 1..5 /\ s[1] = A /\ s[2] = B /\ s[3] = C /\ s[4] = D /\ s[5] = E
  OBVIOUS
<1>2. DOMAIN z = 1..4 /\ z[1] = A /\ z[2] = C /\ z[3] = B /\ z[4] = E
  OBVIOUS
<1> HIDE DEF s, z
<1>3. /\ \A l \in A : Depth(kind, l.row.table) = 1
      /\ \A l \in B : Depth(kind, l.row.table) = IF kind = "complete" THEN 3 ELSE 2
      /\ \A l \in C : Depth(kind, l.row.table) = IF kind = "complete" THEN 2 ELSE 3
      /\ \A l \in D : Depth(kind, l.row.table) = 4
      /\ \A l \in E : Depth(kind, l.row.table) = 5
  BY Depths DEF Plain
<1>4. (\A n \in 1..5 : n = 1 \/ n = 2 \/ n = 3 \/ n = 4 \/ n = 5) /\ (\A n \in 1..4 : n = 1 \/ n = 2 \/ n = 3 \/ n = 4)
  OBVIOUS
<1>6. \A n \in DOMAIN s : \E table : Plain(s[n], table)
  BY <1>1, <1>4
<1>7. \A n \in DOMAIN z : \E table : Plain(z[n], table)
  BY <1>2, <1>4
<1>8. ASSUME kind # "complete" PROVE Rises(s, kind)
  <2>1. ASSUME NEW n \in DOMAIN s, NEW l \in s[n] PROVE Depth(kind, l.row.table) = n
    <3>1. n = 1 \/ n = 2 \/ n = 3 \/ n = 4 \/ n = 5
      BY <1>1, <1>4
    <3> QED
      BY <1>1, <1>3, <1>8, <3>1
  <2> QED
    BY <1>1, <1>6, <2>1 DEF Rises
<1>9. ASSUME kind = "complete" PROVE Rises(z, kind)
  <2>1. ASSUME NEW n \in DOMAIN z, NEW l \in z[n]
        PROVE  (n < 4 => Depth(kind, l.row.table) = n) /\ (n = 4 => Depth(kind, l.row.table) = 5)
    <3>1. CASE n = 1
      BY <1>2, <1>3, <2>1, <3>1
    <3>2. CASE n = 2
      BY <1>2, <1>3, <1>9, <2>1, <3>2
    <3>3. CASE n = 3
      BY <1>2, <1>3, <1>9, <2>1, <3>3
    <3>4. CASE n = 4
      BY <1>2, <1>3, <2>1, <3>4
    <3> QED
      BY <1>2, <1>4, <3>1, <3>2, <3>3, <3>4
  <2>2. ASSUME NEW m \in DOMAIN z, NEW n \in DOMAIN z, m < n, NEW l \in z[m], NEW k \in z[n]
        PROVE  Depth(kind, l.row.table) < Depth(kind, k.row.table)
    <3>1. m \in Nat /\ n \in Nat /\ m < 4 /\ (n < 4 \/ n = 4)
      BY <1>2, <2>2
    <3>2. Depth(kind, l.row.table) = m
      BY <2>1, <3>1
    <3>3. (n < 4 /\ Depth(kind, k.row.table) = n) \/ (n = 4 /\ Depth(kind, k.row.table) = 5)
      BY <2>1, <3>1
    <3> QED
      BY <2>2, <3>1, <3>2, <3>3
  <2> QED
    BY <1>2, <1>7, <2>2 DEF Rises
<1> QED
  BY <1>8, <1>9 DEF s, z

LEMMA LocksRise ==
  ASSUME NEW u, u.kind \in AllKinds \cup {"none"}, u.role \in Roles, u.job \in Jobs
  PROVE  Rises(Locks(u), u.kind)
<1> DEFINE kind == u.kind
<1>1. /\ Depth(kind, "job_batch_control") < Depth(kind, "role_leases")
      /\ Depth(kind, "job_batch_control") < Depth(kind, "jobs")
      /\ Depth(kind, "role_leases") < Depth(kind, "jobs")
      /\ Depth(kind, "evidence_source_control") < Depth(kind, "evidence_source_claims")
      /\ Depth(kind, "evidence_source_control") < Depth(kind, "jobs")
      /\ Depth(kind, "evidence_source_claims") < Depth(kind, "jobs")
  BY Depths
<1>2. /\ \A js \in SUBSET Jobs : Plain(JobRows(js), "jobs")
      /\ Plain({Share(BatchRow)}, "job_batch_control") /\ Plain({Alone(BatchRow)}, "job_batch_control")
      /\ Plain({Share(ControlRow)}, "evidence_source_control") /\ Plain({Alone(ControlRow)}, "evidence_source_control")
      /\ Plain({Alone(SourceRow)}, "evidence_source_claims") /\ Plain({Alone(RoleRow(u.role))}, "role_leases")
      /\ Plain({Alone(JobRow(u.job))}, "jobs") /\ Plain(Admission(u), "role_leases") /\ Plain(RoleRows, "role_leases")
      /\ Plain({}, "jobs")
  BY PlainRows, AdmissionPlain
<1>3. CASE u.kind = "elect"
  <2> DEFINE C == IF batch.mode = "legacy" THEN JobRows(JobsOf(u.role, "legacy")) ELSE {}
             B == Go({Alone(RoleRow(u.role))})
  <2>1. Plain(C, "jobs") /\ Plain(B, "role_leases")
    BY <1>2, JobsOfRole, GoPlain
  <2>2. Locks(u) = <<{Share(BatchRow)}, B, C>>
    BY <1>3 DEF Locks
  <2> HIDE DEF B, C
  <2>3. Rises(<<{Share(BatchRow)}, B, C>>, kind)
    BY <1>1, <1>2, <2>1, Stages3
  <2> QED
    BY <2>2, <2>3
<1>4. CASE u.kind = "renew"
  <2>1. Locks(u) = <<{Share(BatchRow)}, {Alone(RoleRow(u.role))}>>
    BY <1>4 DEF Locks
  <2>3. Rises(<<{Share(BatchRow)}, {Alone(RoleRow(u.role))}>>, kind)
    BY <1>1, <1>2, Stages2
  <2> QED
    BY <2>1, <2>3
<1>5. CASE u.kind = "release"
  <2> DEFINE C == IF role[u.role].new THEN {} ELSE JobRows(JobsOf(u.role, "legacy"))
  <2>1. Plain(C, "jobs")
    BY <1>2, JobsOfRole
  <2>2. Locks(u) = <<{Share(BatchRow)}, {Alone(RoleRow(u.role))}, C>>
    BY <1>5 DEF Locks
  <2> HIDE DEF C
  <2>3. Rises(<<{Share(BatchRow)}, {Alone(RoleRow(u.role))}, C>>, kind)
    BY <1>1, <1>2, <2>1, Stages3
  <2> QED
    BY <2>2, <2>3
<1>6. CASE u.kind = "claim"
  <2> DEFINE B == Go(Admission(u))
             C == Go({Alone(JobRow(u.job))})
  <2>1. Plain(B, "role_leases") /\ Plain(C, "jobs")
    BY <1>2, GoPlain
  <2>2. Locks(u) = <<{Share(BatchRow)}, B, C>>
    BY <1>6 DEF Locks
  <2> HIDE DEF B, C
  <2>3. Rises(<<{Share(BatchRow)}, B, C>>, kind)
    BY <1>1, <1>2, <2>1, Stages3
  <2> QED
    BY <2>2, <2>3
<1>7. CASE u.kind \in {"beat", "ack"}
  <2>1. Locks(u) = <<{Alone(JobRow(u.job))}>>
    BY <1>7 DEF Locks
  <2> QED
    BY <1>1, <1>2, <1>7, <2>1, Stages1
<1>8. CASE u.kind = "due"
  <2>1. Locks(u) = <<{Share(BatchRow)}, JobRows(Scheduled)>> /\ Scheduled \in SUBSET Jobs
    BY <1>8 DEF Locks, Scheduled
  <2>2. Plain(JobRows(Scheduled), "jobs")
    BY <1>2, <2>1
  <2>3. Rises(<<{Share(BatchRow)}, JobRows(Scheduled)>>, kind)
    BY <1>1, <1>2, <2>2, Stages2
  <2> QED
    BY <2>1, <2>3
<1>9. CASE u.kind = "claimSource"
  <2> DEFINE B == Go(Admission(u))
             C == Go({Alone(ControlRow)})
             D == Go({Alone(SourceRow)})
             E == Go({Alone(JobRow(u.job))})
  <2>1. /\ Plain(B, "role_leases") /\ Plain(C, "evidence_source_control")
        /\ Plain(D, "evidence_source_claims") /\ Plain(E, "jobs")
    BY <1>2, GoPlain
  <2>2. Locks(u) = <<{Share(BatchRow)}, B, C, D, E>>
    BY <1>9 DEF Locks
  <2> HIDE DEF B, C, D, E
  <2>3. Rises(<<{Share(BatchRow)}, B, C, D, E>>, kind)
    BY <1>2, <1>9, <2>1, StagesLong
  <2> QED
    BY <2>2, <2>3
<1>10. CASE u.kind \in {"renewSource", "abandon"}
  <2>1. Locks(u) = <<{Share(ControlRow)}, {Alone(SourceRow)}, {Alone(JobRow(u.job))}>>
    BY <1>10 DEF Locks
  <2>3. Rises(<<{Share(ControlRow)}, {Alone(SourceRow)}, {Alone(JobRow(u.job))}>>, kind)
    BY <1>1, <1>2, Stages3
  <2> QED
    BY <2>1, <2>3
<1>11. CASE u.kind = "record"
  <2>1. Locks(u) = <<{Alone(ControlRow)}, {Alone(SourceRow)}, JobRows(SourceJobs)>>
    BY <1>11 DEF Locks
  <2>2. Plain(JobRows(SourceJobs), "jobs")
    BY <1>2, RolesAssumption
  <2>3. Rises(<<{Alone(ControlRow)}, {Alone(SourceRow)}, JobRows(SourceJobs)>>, kind)
    BY <1>1, <1>2, <2>2, Stages3
  <2> QED
    BY <2>1, <2>3
<1>12. CASE u.kind = "drain"
  <2>1. Locks(u) = <<{Alone(BatchRow)}>>
    BY <1>12 DEF Locks
  <2> QED
    BY <1>1, <1>2, <1>12, <2>1, Stages1
<1>13. CASE u.kind = "complete"
  <2>1. Locks(u) = <<{Alone(BatchRow)}, {Alone(ControlRow)}, RoleRows, JobRows(Jobs)>>
    BY <1>13 DEF Locks, Transition
  <2>2. Plain(JobRows(Jobs), "jobs")
    BY <1>2
  <2>3. Plain({}, "evidence_source_claims")
    BY PlainRows
  <2>4. Rises(<<{Alone(BatchRow)}, {Alone(ControlRow)}, RoleRows, JobRows(Jobs)>>, kind)
    BY <1>2, <1>13, <2>2, <2>3, StagesLong
  <2> QED
    BY <2>1, <2>4
<1>14. CASE u.kind = "none"
  <2>1. Locks(u) = << >>
    BY <1>14 DEF Locks
  <2>2. DOMAIN << >> = 1..0
    OBVIOUS
  <2> QED
    BY <2>1, <2>2 DEF Rises
<1> QED
  BY <1>3, <1>4, <1>5, <1>6, <1>7, <1>8, <1>9, <1>10, <1>11, <1>12, <1>13, <1>14 DEF AllKinds

-----------------------------------------------------------------------------
(* What a transaction is to lock *)

LEMMA BatchTypes ==
  ASSUME BatchTypeOK
  PROVE  /\ \A t \in Txs : /\ tx[t] \in Tx /\ tx[t].kind \in AllKinds \cup {"none"} /\ tx[t].role \in Roles
                           /\ tx[t].job \in Jobs /\ tx[t].held \in SUBSET Lock
         /\ \A r \in Roles : role[r] \in RoleLease /\ role[r].new \in BOOLEAN /\ role[r].live \in BOOLEAN
         /\ \A j \in Jobs : job[j] \in JobLease /\ job[j].live \in BOOLEAN /\ job[j].revived \in BOOLEAN
  BY DEF BatchTypeOK, Tx, RoleLease, JobLease

\* One stage of a tuple is among its locks.
LEMMA StageIn ==
  ASSUME NEW s, NEW n \in DOMAIN s
  PROVE  s[n] \subseteq UNION Range(s)
  BY DEF Range

LEMMA AllLocksOK ==
  ASSUME BatchTypeOK, NEW t \in Txs
  PROVE  AllLocks(t) \in SUBSET Lock /\ \A l \in AllLocks(t) : l.row.place <= Most
<1> DEFINE s == Locks(tx[t])
<1>1. Rises(s, tx[t].kind)
  BY BatchTypes, LocksRise
<1> HIDE DEF s
<1>2. ASSUME NEW n \in DOMAIN s PROVE s[n] \subseteq Lock /\ \A l \in s[n] : l.row.place <= Most
  BY <1>1 DEF Rises, Plain
<1>3. ASSUME NEW l \in UNION Range(s) PROVE l \in Lock /\ l.row.place <= Most
  <2>1. PICK n \in DOMAIN s : l \in s[n]
    BY <1>3 DEF Range
  <2> QED
    BY <1>2, <2>1
<1> QED
  BY <1>3 DEF AllLocks, s

LEMMA HasAllLocks ==
  ASSUME NEW t, HasAll(t)
  PROVE  AllLocks(t) \subseteq tx[t].held
  BY DEF HasAll, AllLocks, Range

\* The next lock comes before all others that are left.
LEMMA WantedIsNext ==
  ASSUME BatchTypeOK, NEW t \in Txs, NEW w \in Wanted(t)
  PROVE  /\ w \in AllLocks(t) /\ w \notin tx[t].held /\ tx[t].kind # "none"
         /\ \A v \in AllLocks(t) \ tx[t].held : v # w => Below(tx[t].kind, w.row, v.row)
<1> DEFINE s == Locks(tx[t])
           left(n) == s[n] \ tx[t].held
<1>1. Rises(s, tx[t].kind)
  BY BatchTypes, LocksRise
<1>2. PICK n \in DOMAIN s : /\ \A m \in 1..(n - 1) : left(m) = {}
                            /\ w \in left(n) /\ \A k \in left(n) : w.row.place <= k.row.place
  BY DEF Wanted
<1>3. tx[t].kind # "none"
  <2>1. ASSUME tx[t].kind = "none" PROVE FALSE
    <3>1. s = << >>
      BY <2>1 DEF Locks
    <3> QED
      BY <3>1
  <2> QED
    BY <2>1
<1> HIDE DEF s
<1>4. w \in UNION Range(s) /\ w \notin tx[t].held
  BY <1>2 DEF Range
<1>5. ASSUME NEW v \in UNION Range(s), v \notin tx[t].held, v # w
      PROVE  Below(tx[t].kind, w.row, v.row)
  <2>1. PICK m \in DOMAIN s : v \in s[m]
    BY <1>5 DEF Range
  <2>2. m \in Nat /\ n \in Nat /\ m >= 1 /\ ~(m < n)
    <3>1. PICK len \in Nat : DOMAIN s = 1..len
      BY <1>1 DEF Rises
    <3> QED
      BY <1>2, <1>5, <2>1, <3>1
  <2>3. CASE m = n
    <3>1. PICK table : Plain(s[n], table)
      BY <1>1 DEF Rises
    <3>2. w \in s[n] /\ v \in s[n] /\ w.row.place <= v.row.place
      BY <1>2, <1>5, <2>1, <2>3
    <3>3. w \in Lock /\ v \in Lock /\ w.row.table = v.row.table /\ w.row.place # v.row.place
      BY <1>5, <3>1, <3>2 DEF Plain
    <3>4. w.row.place \in Nat /\ v.row.place \in Nat
      BY <3>3 DEF Lock, Row
    <3> QED
      BY <3>2, <3>3, <3>4 DEF Below
  <2>4. CASE n < m
    BY <1>1, <1>2, <2>1, <2>4 DEF Rises, Below
  <2> QED
    BY <2>2, <2>3, <2>4
<1> QED
  BY <1>3, <1>4, <1>5 DEF AllLocks, s

\* Locks some transactions need.
LEMMA Needs ==
  ASSUME NEW t
  PROVE  /\ tx[t].kind \in {"elect", "renew", "release", "claim", "due", "claimSource"} => Share(BatchRow) \in AllLocks(t)
         /\ tx[t].kind \in {"drain", "complete"} => Alone(BatchRow) \in AllLocks(t)
         /\ tx[t].kind = "elect" /\ batch.mode # "draining" => Alone(RoleRow(tx[t].role)) \in AllLocks(t)
         /\ tx[t].kind = "release" => Alone(RoleRow(tx[t].role)) \in AllLocks(t)
         /\ tx[t].kind \in {"claim", "claimSource"} /\ batch.mode = "versioned" => Alone(RoleRow(tx[t].role)) \in AllLocks(t)
<1> DEFINE u == tx[t]
           s == Locks(u)
<1>1. \A n \in DOMAIN s : s[n] \subseteq AllLocks(t)
  BY StageIn DEF AllLocks
<1>2. CASE u.kind = "elect"
  <2>1. PICK C : s = <<{Share(BatchRow)}, Go({Alone(RoleRow(u.role))}), C>>
    BY <1>2 DEF Locks
  <2> HIDE DEF s
  <2>2. 1 \in DOMAIN s /\ 2 \in DOMAIN s /\ s[1] = {Share(BatchRow)} /\ s[2] = Go({Alone(RoleRow(u.role))})
    BY <2>1
  <2> QED
    BY <1>1, <1>2, <2>2 DEF Go
<1>3. CASE u.kind = "renew"
  <2>1. s = <<{Share(BatchRow)}, {Alone(RoleRow(u.role))}>>
    BY <1>3 DEF Locks
  <2> HIDE DEF s
  <2> QED
    BY <1>1, <1>3, <2>1
<1>4. CASE u.kind = "release"
  <2>1. PICK C : s = <<{Share(BatchRow)}, {Alone(RoleRow(u.role))}, C>>
    BY <1>4 DEF Locks
  <2> HIDE DEF s
  <2>2. 1 \in DOMAIN s /\ 2 \in DOMAIN s /\ s[1] = {Share(BatchRow)} /\ s[2] = {Alone(RoleRow(u.role))}
    BY <2>1
  <2> QED
    BY <1>1, <1>4, <2>2
<1>5. CASE u.kind = "claim"
  <2>1. PICK C : s = <<{Share(BatchRow)}, Go(Admission(u)), C>>
    BY <1>5 DEF Locks
  <2> HIDE DEF s
  <2>2. 1 \in DOMAIN s /\ 2 \in DOMAIN s /\ s[1] = {Share(BatchRow)} /\ s[2] = Go(Admission(u))
    BY <2>1
  <2> QED
    BY <1>1, <1>5, <2>2 DEF Go, Admission
<1>6. CASE u.kind = "due"
  <2>1. s = <<{Share(BatchRow)}, JobRows(Scheduled)>>
    BY <1>6 DEF Locks
  <2> HIDE DEF s
  <2>2. 1 \in DOMAIN s /\ s[1] = {Share(BatchRow)}
    BY <2>1
  <2> QED
    BY <1>1, <1>6, <2>2
<1>7. CASE u.kind = "claimSource"
  <2>1. PICK C, D, E : s = <<{Share(BatchRow)}, Go(Admission(u)), C, D, E>>
    BY <1>7 DEF Locks
  <2> HIDE DEF s
  <2>2. 1 \in DOMAIN s /\ 2 \in DOMAIN s /\ s[1] = {Share(BatchRow)} /\ s[2] = Go(Admission(u))
    BY <2>1
  <2> QED
    BY <1>1, <1>7, <2>2 DEF Go, Admission
<1>8. CASE u.kind = "drain"
  <2>1. s = <<{Alone(BatchRow)}>>
    BY <1>8 DEF Locks
  <2> HIDE DEF s
  <2> QED
    BY <1>1, <1>8, <2>1
<1>9. CASE u.kind = "complete"
  <2>1. s = <<{Alone(BatchRow)}, {Alone(ControlRow)}, RoleRows, JobRows(Jobs)>>
    BY <1>9 DEF Locks, Transition
  <2> HIDE DEF s
  <2>2. 1 \in DOMAIN s /\ s[1] = {Alone(BatchRow)}
    BY <2>1
  <2> QED
    BY <1>1, <1>9, <2>2
<1> QED
  BY <1>2, <1>3, <1>4, <1>5, <1>6, <1>7, <1>8, <1>9

\* A transaction that has a lock and starts with the batch row has that.
LEMMA BatchRowFirst ==
  ASSUME BatchTypeOK, NEW t \in Txs, InOrder(t), tx[t].kind \notin Detached \cup {"none"}, tx[t].held # {}
  PROVE  /\ \E h \in tx[t].held : h.row = BatchRow
         /\ tx[t].kind \in {"drain", "complete"} => Alone(BatchRow) \in tx[t].held
<1>1. PICK l \in AllLocks(t) : l.row = BatchRow /\ (tx[t].kind \in {"drain", "complete"} => l = Alone(BatchRow))
  <2>1. Share(BatchRow).row = BatchRow /\ Alone(BatchRow).row = BatchRow
    BY DEF Share, Alone
  <2>2. CASE tx[t].kind \in {"drain", "complete"}
    BY <2>1, <2>2, Needs
  <2>3. CASE tx[t].kind \in {"elect", "renew", "release", "claim", "due", "claimSource"}
    BY <2>1, <2>3, Needs
  <2> QED
    BY <2>2, <2>3, BatchTypes DEF Detached, AllKinds
<1>2. PICK h \in tx[t].held : h \in Lock
  BY BatchTypes
<1>3. l \in tx[t].held
  <2>1. ASSUME l \notin tx[t].held PROVE FALSE
    <3>1. Below(tx[t].kind, h.row, BatchRow)
      BY <1>1, <1>2, <2>1 DEF InOrder
    <3>2. h.row.table \in Tables /\ h.row.place \in Nat
      BY <1>2 DEF Lock, Row
    <3>3. BatchRow.table = "job_batch_control" /\ BatchRow.place = 0
      BY DEF BatchRow
    <3>4. Depth(tx[t].kind, h.row.table) >= 1
      BY <3>2, Depths DEF Tables
    <3> QED
      <4>1. Depth(tx[t].kind, "job_batch_control") = 1
        BY Depths
      <4>2. Depth(tx[t].kind, h.row.table) \in Nat
        BY <3>2, Depths DEF Tables
      <4> QED
        BY <3>1, <3>2, <3>3, <3>4, <4>1, <4>2 DEF Below
  <2> QED
    BY <2>1
<1> QED
  BY <1>1, <1>3

-----------------------------------------------------------------------------
(* What others do to a transaction's order *)

\* The order of locks is decided by the batch's mode and the role's batch.
LEMMA SamePlan ==
  ASSUME NEW t, tx'[t] = tx[t], batch'.mode = batch.mode,
         role'[tx[t].role].new = role[tx[t].role].new
  PROVE  AllLocks(t)' = AllLocks(t)
<1>1. Locks(tx[t])' = Locks(tx[t])
  BY DEF Locks, Go, Admission, Scheduled, JobsOf, Transition, RoleRows, JobRows
<1> QED
  BY <1>1 DEF AllLocks

LEMMA FixedPlan ==
  ASSUME NEW t, tx'[t] = tx[t], tx[t].kind \in Detached \cup {"renew", "drain", "complete", "none"}
  PROVE  AllLocks(t)' = AllLocks(t)
<1>1. Locks(tx[t])' = Locks(tx[t])
  BY DEF Locks, Detached, Transition, RoleRows, JobRows
<1> QED
  BY <1>1 DEF AllLocks

LEMMA ReleasePlan ==
  ASSUME BatchTypeOK, BatchTypeOK', NEW t \in Txs, tx'[t] = tx[t], tx[t].kind = "release"
  PROVE  \A l \in AllLocks(t)' : l \in AllLocks(t) \/ l.row.table = "jobs"
<1> DEFINE B == {Share(BatchRow)}
           R == {Alone(RoleRow(tx[t].role))}
           J == JobRows(JobsOf(tx[t].role, "legacy"))
           s == Locks(tx[t])
           z == Locks(tx[t])'
<1>1. \A l \in J : l.row.table = "jobs"
  BY PlainRows, JobsOfRole DEF Plain
<1>2. PICK C \in {{}, J} : z = <<B, R, C>>
  BY DEF Locks
<1>3. Share(BatchRow) \in AllLocks(t) /\ Alone(RoleRow(tx[t].role)) \in AllLocks(t)
  BY Needs
<1> HIDE DEF J, z
<1>4. ASSUME NEW l \in UNION Range(z) PROVE l \in AllLocks(t) \/ l.row.table = "jobs"
  <2>1. PICK n \in DOMAIN z : l \in z[n]
    BY <1>4 DEF Range
  <2>2. DOMAIN z = 1..3 /\ z[1] = B /\ z[2] = R /\ z[3] = C
    BY <1>2
  <2>3. n = 1 \/ n = 2 \/ n = 3
    BY <2>1, <2>2
  <2> QED
    BY <1>1, <1>2, <1>3, <2>1, <2>2, <2>3
<1> QED
  BY <1>4 DEF AllLocks, z

\* The batch's mode and the role's batch change under the row's lock only.
Locked(row, t) == \E h \in tx[t].held : h.row = row

LEMMA OrderKept ==
  ASSUME BatchTypeOK, BatchTypeOK', NEW t \in Txs, InOrder(t), OwnRows(t), tx'[t] = tx[t],
         batch'.mode # batch.mode => ~Locked(BatchRow, t),
         role'[tx[t].role].new # role[tx[t].role].new => ~Locked(RoleRow(tx[t].role), t)
  PROVE  InOrder(t)' /\ OwnRows(t)'
<1>1. OwnRows(t)'
  BY FixedPlan DEF OwnRows
<1>2. InOrder(t)'
  <2>1. CASE tx[t].held = {}
    BY <2>1 DEF InOrder
  <2>2. CASE tx[t].kind \in Detached \cup {"renew", "drain", "complete", "none"}
    BY <2>2, FixedPlan DEF InOrder
  <2>3. CASE tx[t].held # {} /\ tx[t].kind \notin Detached \cup {"renew", "drain", "complete", "none"}
    <3>1. batch'.mode = batch.mode
      BY <2>3, BatchRowFirst DEF Locked
    <3>2. CASE role'[tx[t].role].new = role[tx[t].role].new
      BY <3>1, <3>2, SamePlan DEF InOrder
    <3>3. CASE tx[t].kind # "release"
      <4>1. Locks(tx[t])' = Locks(tx[t])
        BY <3>1, <3>3 DEF Locks, Go, Admission, Scheduled, JobsOf, Transition, RoleRows, JobRows
      <4>2. AllLocks(t)' = AllLocks(t)
        BY <4>1 DEF AllLocks
      <4> QED
        BY <4>2 DEF InOrder
    <3>4. CASE role'[tx[t].role].new # role[tx[t].role].new /\ tx[t].kind = "release"
      <4> DEFINE x == Alone(RoleRow(tx[t].role))
      <4>1. x \in AllLocks(t) /\ x.row = RoleRow(tx[t].role) /\ x \notin tx[t].held
        BY <3>4, Needs DEF Locked, Alone
      <4>2. ASSUME NEW h \in tx[t].held
            PROVE  Depth("release", h.row.table) \in Nat /\ Depth("release", h.row.table) <= 2
        <5>1. h.row.table \in Tables
          BY BatchTypes DEF Lock, Row
        <5>2. Depth("release", h.row.table) \in Nat
          BY <5>1, Depths DEF Tables
        <5>3. Below("release", h.row, RoleRow(tx[t].role))
          BY <3>4, <4>1 DEF InOrder
        <5>4. RoleRow(tx[t].role).table = "role_leases" /\ Depth("release", "role_leases") = 2
          BY Depths DEF RoleRow
        <5> QED
          BY <5>2, <5>3, <5>4 DEF Below
      <4>3. ASSUME NEW h \in tx[t].held, NEW l \in AllLocks(t)', l \notin tx[t].held
            PROVE  Below("release", h.row, l.row)
        <5>1. CASE l \in AllLocks(t)
          BY <3>4, <4>3, <5>1 DEF InOrder
        <5>2. CASE l.row.table = "jobs"
          <6>1. Depth("release", l.row.table) = 5
            BY <5>2, Depths
          <6> QED
            BY <4>2, <6>1 DEF Below
        <5> QED
          BY <3>4, <4>3, <5>1, <5>2, ReleasePlan
      <4> QED
        BY <3>4, <4>3 DEF InOrder
    <3> QED
      BY <3>2, <3>3, <3>4
  <2> QED
    BY <2>1, <2>2, <2>3
<1> QED
  BY <1>1, <1>2
RowsOK ==
  /\ batch \in [mode : Modes \cup {"draining"}, from : Modes \cup {"none"}, epoch : 1..MaxEpoch]
  /\ role \in [Roles -> RoleLease] /\ job \in [Jobs -> JobLease] /\ source \in SourceLease

\* A row someone has to himself nobody else has.
LEMMA Excluded ==
  ASSUME BatchTypeOK, NEW t \in Txs, NEW u \in Txs, t # u, NEW row, Alone(row) \in tx[t].held
  PROVE  ~Locked(row, u)
<1>1. ASSUME NEW h \in tx[u].held, h.row = row PROVE FALSE
  <2>1. ~Blocks(Alone(row), h)
    BY DEF BatchTypeOK
  <2> QED
    BY <1>1, <2>1 DEF Blocks, Alone
<1> QED
  BY <1>1 DEF Locked

LEMMA OthersKept ==
  ASSUME BatchInv, BatchTypeOK', NEW t \in Txs, tx'[t] = tx[t],
         batch'.mode # batch.mode => ~Locked(BatchRow, t),
         role'[tx[t].role].new # role[tx[t].role].new => ~Locked(RoleRow(tx[t].role), t),
         \A j \in Jobs : Running(j)' /\ ~Running(j) /\ batch.mode = "versioned" => ~Locked(RoleRow(NewRole[j]), t)
  PROVE  InOrder(t)' /\ OwnRows(t)' /\ StaysIdle(t)'
<1>1. InOrder(t)' /\ OwnRows(t)'
  BY OrderKept DEF BatchInv
<1>2. StaysIdle(t)'
  <2> DEFINE r == tx[t].role
  <2>1. SUFFICES ASSUME tx[t].kind \in {"claim", "claimSource"}, batch'.mode = "versioned", r \in Exclusive,
                        Alone(RoleRow(r)) \in tx[t].held, ~tx[t].busy,
                        NEW j \in JobsOf(r, "versioned"), j # tx[t].job, Running(j)'
                 PROVE  FALSE
    BY DEF StaysIdle, JobsOf, RoleOf, RoleRow
  <2>2. batch.mode = "versioned"
    <3>1. tx[t].kind \notin Detached \cup {"none"} /\ tx[t].held # {}
      BY <2>1 DEF Detached
    <3> QED
      BY <2>1, <3>1, BatchRowFirst DEF BatchInv, Locked
  <2>3. j \in Jobs /\ NewRole[j] = r
    BY DEF JobsOf, RoleOf
  <2>4. Locked(RoleRow(r), t)
    BY <2>1 DEF Locked, Alone
  <2>5. Running(j)
    BY <2>1, <2>2, <2>3, <2>4
  <2> QED
    BY <2>1, <2>2, <2>5 DEF BatchInv, StaysIdle
<1> QED
  BY <1>1, <1>2

\* A transaction starts or ends with no lock, having written what it had to itself.
LEMMA Replaced ==
  ASSUME BatchInv, RowsOK', NEW t \in Txs, NEW v \in Tx, v.held = {}, tx' = [tx EXCEPT ![t] = v],
         batch'.mode # batch.mode => Alone(BatchRow) \in tx[t].held,
         \A r \in Roles : role'[r].new # role[r].new => Alone(RoleRow(r)) \in tx[t].held,
         \A j \in Jobs : Running(j)' /\ ~Running(j) /\ batch.mode = "versioned" =>
           Alone(RoleRow(NewRole[j])) \in tx[t].held
  PROVE  BatchTypeOK' /\ \A u \in Txs : InOrder(u)' /\ OwnRows(u)' /\ StaysIdle(u)'
<1>1. tx \in [Txs -> Tx] /\ BatchTypeOK
  BY DEF BatchInv, BatchTypeOK
<1>2. tx' \in [Txs -> Tx] /\ tx'[t] = v /\ \A u \in Txs : u # t => tx'[u] = tx[u]
  BY <1>1
<1>3. BatchTypeOK'
  <2>1. ASSUME NEW p \in Txs, NEW q \in Txs, p # q, NEW held \in tx'[p].held, NEW wanted \in tx'[q].held
        PROVE  ~Blocks(held, wanted)
    <3>1. tx'[p] = tx[p] /\ tx'[q] = tx[q]
      BY <1>2, <2>1
    <3> QED
      BY <1>1, <2>1, <3>1 DEF BatchTypeOK
  <2>2. \A held, wanted : Blocks(held, wanted)' <=> Blocks(held, wanted)
    BY DEF Blocks
  <2> QED
    BY <1>2, <2>1, <2>2 DEF BatchTypeOK, RowsOK
<1>4. InOrder(t)' /\ OwnRows(t)' /\ StaysIdle(t)'
  BY <1>2 DEF InOrder, OwnRows, StaysIdle
<1>5. ASSUME NEW u \in Txs, u # t PROVE InOrder(u)' /\ OwnRows(u)' /\ StaysIdle(u)'
  <2>1. tx[u].role \in Roles
    BY <1>1, BatchTypes
  <2>2. \A row : Alone(row) \in tx[t].held => ~Locked(row, u)
    BY <1>1, <1>5, Excluded
  <2> QED
    BY <1>2, <1>3, <1>5, <2>1, <2>2, OthersKept
<1> QED
  BY <1>3, <1>4, <1>5

\* Taking a lock.
LEMMA SameTxPlan ==
  ASSUME NEW t, tx'[t].kind = tx[t].kind, tx'[t].role = tx[t].role, tx'[t].job = tx[t].job,
         batch' = batch, role' = role
  PROVE  AllLocks(t)' = AllLocks(t)
<1>1. Locks(tx[t])' = Locks(tx[t])
  BY DEF Locks, Go, Admission, Scheduled, JobsOf, RoleOf, Transition, RoleRows, JobRows, RoleRow, JobRow
<1> QED
  BY <1>1 DEF AllLocks

LEMMA BatchTakeStep ==
  ASSUME BatchInv, NEW t \in Txs, TakeLock(t)
  PROVE  BatchInv'
<1>1. BatchTypeOK /\ InOrder(t) /\ OwnRows(t) /\ StaysIdle(t) /\ tx \in [Txs -> Tx]
  BY DEF BatchInv, BatchTypeOK
<1>2. PICK l \in Wanted(t) :
        tx' = [tx EXCEPT ![t].held = @ \cup {l},
                         ![t].busy = IF l.row = RoleRow(tx[t].role) THEN Busy(tx[t]) ELSE @]
  BY DEF TakeLock
<1>3. batch' = batch /\ role' = role /\ job' = job /\ source' = source /\ \A u \in Txs : ~WaitsFor(t, u)
  BY DEF TakeLock
<1>4. /\ l \in AllLocks(t) /\ l \notin tx[t].held /\ l \in Lock
      /\ \A v \in AllLocks(t) \ tx[t].held : v # l => Below(tx[t].kind, l.row, v.row)
  BY <1>1, WantedIsNext, AllLocksOK
<1>5. \A u \in Txs : u # t => tx'[u] = tx[u]
  BY <1>1, <1>2
<1>6. /\ tx'[t].kind = tx[t].kind /\ tx'[t].role = tx[t].role /\ tx'[t].job = tx[t].job
      /\ tx'[t].held = tx[t].held \cup {l}
      /\ tx'[t].busy = IF l.row = RoleRow(tx[t].role) THEN Busy(tx[t]) ELSE tx[t].busy
  BY <1>1, <1>2 DEF Tx
<1>7. tx' \in [Txs -> Tx]
  <2>1. Busy(tx[t]) \in BOOLEAN
    BY DEF Busy
  <2>2. tx'[t] \in Tx
    <3> DEFINE b == IF l.row = RoleRow(tx[t].role) THEN Busy(tx[t]) ELSE tx[t].busy
               c == tx[t]
    <3>1. c \in Tx /\ c.busy \in BOOLEAN
      BY <1>1 DEF Tx
    <3>2. b \in BOOLEAN
      BY <2>1, <3>1
    <3>3. tx'[t] = [c EXCEPT !.held = @ \cup {l}, !.busy = b]
      BY <1>1, <1>2
    <3> HIDE DEF b, c
    <3>4. [c EXCEPT !.held = @ \cup {l}, !.busy = b] \in Tx
      BY <1>4, <3>1, <3>2 DEF Tx
    <3> QED
      BY <3>3, <3>4
  <2> QED
    BY <1>1, <1>2, <2>2
<1>8. BatchTypeOK'
  <2>1. ASSUME NEW p \in Txs, NEW q \in Txs, p # q, NEW held \in tx'[p].held, NEW wanted \in tx'[q].held
        PROVE  ~Blocks(held, wanted)
    <3>1. CASE p # t /\ q # t
      BY <1>1, <1>5, <2>1, <3>1 DEF BatchTypeOK
    <3>2. CASE p = t /\ held # l
      BY <1>1, <1>5, <1>6, <2>1, <3>2 DEF BatchTypeOK
    <3>3. CASE q = t /\ wanted # l
      BY <1>1, <1>5, <1>6, <2>1, <3>3 DEF BatchTypeOK
    <3>4. CASE p = t /\ held = l
      <4>1. wanted \in tx[q].held
        BY <1>5, <2>1, <3>4
      <4> QED
        BY <1>3, <2>1, <3>4, <4>1 DEF WaitsFor, Blocks
    <3>5. CASE q = t /\ wanted = l
      <4>1. held \in tx[p].held
        BY <1>5, <2>1, <3>5
      <4> QED
        BY <1>3, <2>1, <3>5, <4>1 DEF WaitsFor, Blocks
    <3> QED
      BY <3>1, <3>2, <3>3, <3>4, <3>5
  <2>2. \A held, wanted : Blocks(held, wanted)' <=> Blocks(held, wanted)
    BY DEF Blocks
  <2> QED
    BY <1>1, <1>3, <1>7, <2>1, <2>2 DEF BatchTypeOK
<1>9. AllLocks(t)' = AllLocks(t)
  BY <1>3, <1>6, SameTxPlan
<1>10. InOrder(t)'
  <2>1. ASSUME NEW had \in tx'[t].held, NEW left \in AllLocks(t)' \ tx'[t].held
        PROVE  Below(tx[t].kind, had.row, left.row)
    BY <1>1, <1>4, <1>6, <1>9, <2>1 DEF InOrder
  <2> QED
    BY <1>6, <2>1 DEF InOrder, Below
<1>11. OwnRows(t)'
  BY <1>1, <1>4, <1>6, <1>9 DEF OwnRows
<1>12. StaysIdle(t)'
  <2> DEFINE r == tx[t].role
  <2>1. SUFFICES ASSUME tx[t].kind \in {"claim", "claimSource"}, batch.mode = "versioned", r \in Exclusive,
                        Alone(RoleRow(r)) \in tx'[t].held, ~tx'[t].busy,
                        NEW j \in JobsOf(r, "versioned"), j # tx[t].job, Running(j)
                 PROVE  FALSE
    BY <1>3, <1>6 DEF StaysIdle, JobsOf, RoleOf, RoleRow, Running
  <2>2. CASE l.row = RoleRow(r)
    BY <1>6, <2>1, <2>2 DEF Busy, Running
  <2>3. CASE l.row # RoleRow(r)
    <3>1. Alone(RoleRow(r)) \in tx[t].held
      BY <1>6, <2>1, <2>3 DEF Alone
    <3> QED
      BY <1>1, <1>6, <2>1, <2>3, <3>1 DEF StaysIdle
  <2> QED
    BY <2>2, <2>3
<1>13. ASSUME NEW u \in Txs, u # t PROVE InOrder(u)' /\ OwnRows(u)' /\ StaysIdle(u)'
  <2>1. \A j \in Jobs : Running(j)' => Running(j)
    BY <1>3 DEF Running
  <2> QED
    BY <1>3, <1>5, <1>8, <1>13, <2>1, OthersKept
<1>14. NoOldWork' /\ OneAtATime'
  <2>1. NoOldWork /\ OneAtATime
    BY DEF BatchInv
  <2> QED
    BY <1>3, <2>1 DEF NoOldWork, OneAtATime, Running, JobsOf, RoleOf
<1> QED
  BY <1>8, <1>10, <1>11, <1>12, <1>13, <1>14 DEF BatchInv

-----------------------------------------------------------------------------
(* The steps *)

LEMMA NoTxOK == NoTx \in Tx /\ NoTx.held = {}
  BY BatchNumbers DEF NoTx, Tx, Token, None

LEMMA BatchRows ==
  ASSUME BatchInv
  PROVE  /\ RowsOK /\ BatchTypeOK /\ tx \in [Txs -> Tx] /\ NoOldWork /\ OneAtATime
         /\ batch.epoch \in 1..MaxEpoch /\ batch.mode \in Modes \cup {"draining"}
         /\ \A t \in Txs : tx[t] \in Tx /\ tx[t].role \in Roles /\ tx[t].job \in Jobs
         /\ \A r \in Roles : role[r] \in RoleLease /\ role[r].token \in Token /\ role[r].live \in BOOLEAN
         /\ \A j \in Jobs : job[j] \in JobLease /\ job[j].token \in Token /\ job[j].live \in BOOLEAN
         /\ source \in SourceLease /\ source.token \in Token /\ source.job \in Jobs /\ source.jobToken \in Token
<1>1. RowsOK /\ BatchTypeOK /\ tx \in [Txs -> Tx] /\ NoOldWork /\ OneAtATime
  BY DEF BatchInv, BatchTypeOK, RowsOK
<1>2. \A t \in Txs : tx[t] \in Tx /\ tx[t].role \in Roles /\ tx[t].job \in Jobs
  BY <1>1 DEF Tx
<1>3. /\ \A r \in Roles : role[r] \in RoleLease /\ role[r].token \in Token /\ role[r].live \in BOOLEAN
      /\ \A j \in Jobs : job[j] \in JobLease /\ job[j].token \in Token /\ job[j].live \in BOOLEAN
  BY <1>1 DEF RowsOK, RoleLease, JobLease
<1>4. source \in SourceLease /\ source.token \in Token /\ source.job \in Jobs /\ source.jobToken \in Token
  BY <1>1 DEF RowsOK, SourceLease
<1>5. batch.epoch \in 1..MaxEpoch /\ batch.mode \in Modes \cup {"draining"}
  BY <1>1 DEF RowsOK
<1> QED
  BY <1>1, <1>2, <1>3, <1>4, <1>5

\* A step that leaves the rows alone.
LEMMA RowsUntouched ==
  ASSUME BatchInv, UNCHANGED <<batch, role, job, source>>
  PROVE  /\ RowsOK' /\ NoOldWork' /\ OneAtATime' /\ batch'.mode = batch.mode
         /\ \A r : role'[r].new = role[r].new
         /\ \A j \in Jobs : Running(j)' => Running(j)
  BY BatchRows DEF RowsOK, NoOldWork, OneAtATime, Running, JobsOf, RoleOf

LEMMA StartStep ==
  ASSUME BatchInv, NEW t \in Txs, NEW kind \in AllKinds, NEW u \in Tx, u.held = {}, Start(t, kind, u)
  PROVE  BatchInv'
<1> DEFINE v == [u EXCEPT !.kind = kind]
<1>1. v \in Tx /\ v.held = {}
  BY DEF Tx
<1>2. tx' = [tx EXCEPT ![t] = v] /\ UNCHANGED <<batch, role, job, source>>
  BY DEF Start
<1> HIDE DEF v
<1>3. BatchTypeOK' /\ \A p \in Txs : InOrder(p)' /\ OwnRows(p)' /\ StaysIdle(p)'
  BY <1>1, <1>2, RowsUntouched, Replaced
<1> QED
  BY <1>2, <1>3, RowsUntouched DEF BatchInv

LEMMA StartSteps ==
  ASSUME BatchInv, NEW t \in Txs,
         \/ \E r \in Roles : StartElect(t, r) \/ StartOwned(t, r)
         \/ \E j \in Jobs, r \in Roles : StartClaim(t, j, r) \/ StartClaimSource(t, j, r)
         \/ \E j \in Jobs : StartJob(t, j)
         \/ StartDue(t) \/ StartSource(t) \/ StartOperator(t)
  PROVE  BatchInv'
<1>1. NoTx \in Tx /\ NoTx.held = {}
  BY NoTxOK
<1>2. \A u \in Tx : \A r \in Roles, b \in BOOLEAN :
        LET v == [u EXCEPT !.role = r, !.seen = b] IN v \in Tx /\ v.held = u.held
  BY DEF Tx
<1>3. \A u \in Tx : \A r \in Roles, n \in Token :
        LET v == [u EXCEPT !.role = r, !.roleToken = n] IN v \in Tx /\ v.held = u.held
  BY DEF Tx
<1>4. \A u \in Tx : \A j \in Jobs, b \in BOOLEAN :
        LET v == [u EXCEPT !.job = j, !.seen = b] IN v \in Tx /\ v.held = u.held
  BY DEF Tx
<1>5. \A u \in Tx : \A j \in Jobs, n \in Token :
        LET v == [u EXCEPT !.job = j, !.jobToken = n] IN v \in Tx /\ v.held = u.held
  BY DEF Tx
<1>6. \A u \in Tx : \A b \in BOOLEAN : LET v == [u EXCEPT !.seen = b] IN v \in Tx /\ v.held = u.held
  BY DEF Tx
<1>7. \A u \in Tx : \A j \in Jobs, n \in Token :
        LET v == [u EXCEPT !.job = j, !.sourceToken = n] IN v \in Tx /\ v.held = u.held
  BY DEF Tx
<1>8. \A u \in Tx : \A n \in Token : LET v == [u EXCEPT !.jobToken = n] IN v \in Tx /\ v.held = u.held
  BY DEF Tx
<1>9. ASSUME NEW r \in Roles, StartElect(t, r) PROVE BatchInv'
  <2> DEFINE v == [NoTx EXCEPT !.role = r, !.seen = role[r].live]
  <2>1. v \in Tx /\ v.held = {}
    BY <1>1, <1>2, BatchRows
  <2>2. Start(t, "elect", v) /\ "elect" \in AllKinds
    BY <1>9 DEF StartElect, AllKinds
  <2> HIDE DEF v
  <2> QED
    BY <2>1, <2>2, StartStep
<1>10. ASSUME NEW r \in Roles, StartOwned(t, r) PROVE BatchInv'
  <2> DEFINE v == [NoTx EXCEPT !.role = r, !.roleToken = role[r].token]
  <2>1. v \in Tx /\ v.held = {}
    BY <1>1, <1>3, BatchRows
  <2>2. PICK kind \in AllKinds : Start(t, kind, v)
    BY <1>10 DEF StartOwned, AllKinds
  <2> HIDE DEF v
  <2> QED
    BY <2>1, <2>2, StartStep
<1>11. ASSUME NEW j \in Jobs, NEW r \in Roles, StartClaim(t, j, r) PROVE BatchInv'
  <2> DEFINE v == [NoTx EXCEPT !.role = r, !.roleToken = role[r].token, !.job = j, !.seen = job[j].live]
  <2>1. v \in Tx /\ v.held = {}
    <3> DEFINE w == [NoTx EXCEPT !.role = r, !.roleToken = role[r].token]
    <3>1. w \in Tx /\ w.held = {}
      BY <1>1, <1>3, BatchRows
    <3>2. v = [w EXCEPT !.job = j, !.seen = job[j].live]
      OBVIOUS
    <3> HIDE DEF v, w
    <3> QED
      BY <1>4, <3>1, <3>2, BatchRows
  <2>2. Start(t, "claim", v) /\ "claim" \in AllKinds
    BY <1>11 DEF StartClaim, AllKinds
  <2> HIDE DEF v
  <2> QED
    BY <2>1, <2>2, StartStep
<1>12. ASSUME NEW j \in Jobs, NEW r \in Roles, StartClaimSource(t, j, r) PROVE BatchInv'
  <2> DEFINE v == [NoTx EXCEPT !.role = r, !.roleToken = role[r].token, !.job = j, !.jobToken = job[j].token]
  <2>1. v \in Tx /\ v.held = {}
    <3> DEFINE w == [NoTx EXCEPT !.role = r, !.roleToken = role[r].token]
    <3>1. w \in Tx /\ w.held = {}
      BY <1>1, <1>3, BatchRows
    <3>2. v = [w EXCEPT !.job = j, !.jobToken = job[j].token]
      OBVIOUS
    <3> HIDE DEF v, w
    <3> QED
      BY <1>5, <3>1, <3>2, BatchRows
  <2>2. Start(t, "claimSource", v) /\ "claimSource" \in AllKinds
    BY <1>12 DEF StartClaimSource, AllKinds
  <2> HIDE DEF v
  <2> QED
    BY <2>1, <2>2, StartStep
<1>13. ASSUME NEW j \in Jobs, StartJob(t, j) PROVE BatchInv'
  <2> DEFINE v == [NoTx EXCEPT !.job = j, !.jobToken = job[j].token, !.seen = job[j].live]
  <2>1. v \in Tx /\ v.held = {}
    <3> DEFINE w == [NoTx EXCEPT !.job = j, !.jobToken = job[j].token]
    <3>1. w \in Tx /\ w.held = {}
      BY <1>1, <1>5, BatchRows
    <3>2. v = [w EXCEPT !.seen = job[j].live]
      OBVIOUS
    <3> HIDE DEF v, w
    <3> QED
      BY <1>6, <3>1, <3>2, BatchRows
  <2>2. PICK kind \in AllKinds : Start(t, kind, v)
    BY <1>13 DEF StartJob, AllKinds
  <2> HIDE DEF v
  <2> QED
    BY <2>1, <2>2, StartStep
<1>14. ASSUME StartSource(t) PROVE BatchInv'
  <2> DEFINE v == [NoTx EXCEPT !.job = source.job, !.sourceToken = source.token, !.jobToken = source.jobToken]
  <2>1. v \in Tx /\ v.held = {}
    <3> DEFINE w == [NoTx EXCEPT !.job = source.job, !.sourceToken = source.token]
    <3>1. w \in Tx /\ w.held = {}
      BY <1>1, <1>7, BatchRows
    <3>2. v = [w EXCEPT !.jobToken = source.jobToken]
      OBVIOUS
    <3> HIDE DEF v, w
    <3> QED
      BY <1>8, <3>1, <3>2, BatchRows
  <2>2. PICK kind \in AllKinds : Start(t, kind, v)
    BY <1>14 DEF StartSource, AllKinds
  <2> HIDE DEF v
  <2> QED
    BY <2>1, <2>2, StartStep
<1>15. ASSUME StartDue(t) \/ StartOperator(t) PROVE BatchInv'
  <2>1. PICK kind \in AllKinds : Start(t, kind, NoTx)
    BY <1>15 DEF StartDue, StartOperator, AllKinds
  <2> QED
    BY <1>1, <2>1, StartStep
<1> QED
  BY <1>9, <1>10, <1>11, <1>12, <1>13, <1>14, <1>15

LEMMA AbortStep ==
  ASSUME BatchInv, NEW t \in Txs, Abort(t) \/ Due(t)
  PROVE  BatchInv'
<1>1. tx' = [tx EXCEPT ![t] = NoTx] /\ UNCHANGED <<batch, role, job, source>>
  BY DEF Abort, Due, Commits
<1>2. BatchTypeOK' /\ \A p \in Txs : InOrder(p)' /\ OwnRows(p)' /\ StaysIdle(p)'
  BY <1>1, NoTxOK, RowsUntouched, Replaced
<1> QED
  BY <1>1, <1>2, RowsUntouched DEF BatchInv

\* What a commit that neither changes the batch nor starts a job shows.
LEMMA PlainCommit ==
  ASSUME BatchInv, RowsOK', NEW t \in Txs, tx' = [tx EXCEPT ![t] = NoTx], batch' = batch,
         \A r \in Roles : role'[r].new # role[r].new => Alone(RoleRow(r)) \in tx[t].held,
         \A j \in Jobs : Running(j)' => Running(j),
         NoOldWork'
  PROVE  BatchInv'
<1>1. BatchTypeOK' /\ \A p \in Txs : InOrder(p)' /\ OwnRows(p)' /\ StaysIdle(p)'
  BY NoTxOK, Replaced
<1>2. OneAtATime'
  BY BatchRows DEF OneAtATime, JobsOf, RoleOf
<1> QED
  BY <1>1, <1>2 DEF BatchInv

LEMMA Lowest ==
  ASSUME NEW S \in SUBSET Nat, S # {}
  PROVE  \E x \in S : \A y \in S : x <= y
<1>1. PICK x \in S : \A y \in S : ~ (<<y, x>> \in OpToRel(<, Nat))
  BY NatLessThanWellFounded, WFMin
<1>2. ASSUME NEW y \in S PROVE x <= y
  <2>1. <<y, x>> \in OpToRel(<, Nat) <=> y < x
    BY DEF OpToRel
  <2>2. ~(y < x)
    BY <1>1, <2>1
  <2> QED
    BY <2>2
<1> QED
  BY <1>2

LEMMA FreshToken ==
  ASSUME NEW used, NEW n \in Fresh(used)
  PROVE  n \in Token
<1> DEFINE free == (1..MaxToken) \ used
           least == CHOOSE x \in free : \A y \in free : x <= y
<1>1. free # {} /\ n = least
  BY DEF Fresh
<1>2. free \in SUBSET Nat
  BY BatchNumbers
<1> HIDE DEF free
<1>3. \E x \in free : \A y \in free : x <= y
  BY <1>1, <1>2, Lowest
<1>4. n \in free
  BY <1>1, <1>3
<1> QED
  BY <1>4, BatchNumbers DEF free, Token

\* Taking jobs from their holders.
LEMMA JobsFreed ==
  ASSUME BatchInv, NEW js
  PROVE  /\ WithoutJobs(js) \in [Jobs -> JobLease]
         /\ \A j \in Jobs : WithoutJobs(js)[j] = job[j] \/ WithoutJobs(js)[j] = Free
<1>1. Free \in JobLease
  BY BatchNumbers DEF Free, JobLease, Token, None
<1>2. \A j \in Jobs : job[j] \in JobLease
  BY BatchRows
<1> DEFINE w == WithoutJobs(js)
<1>3. w = [j \in Jobs |-> IF j \in js THEN Free ELSE job[j]]
  BY DEF WithoutJobs
<1> HIDE DEF w
<1>4. \A j \in Jobs : (w[j] = job[j] \/ w[j] = Free) /\ w[j] \in JobLease
  BY <1>1, <1>2, <1>3
<1>5. w \in [Jobs -> JobLease]
  BY <1>3, <1>4
<1> QED
  BY <1>4, <1>5 DEF w

LEMMA ElectStep ==
  ASSUME BatchInv, NEW t \in Txs, Elect(t)
  PROVE  BatchInv'
<1> DEFINE r == tx[t].role
<1>1. /\ tx' = [tx EXCEPT ![t] = NoTx] /\ HasAll(t) /\ tx[t].kind = "elect" /\ batch.mode # "draining"
      /\ batch' = batch /\ source' = source
      /\ job' = job \/ job' = WithoutJobs(JobsOf(r, "legacy"))
  BY DEF Elect, Commits
<1>2. PICK n \in FreshRole(r) :
        role' = [role EXCEPT ![r] = [token |-> n, live |-> TRUE, new |-> batch.mode = "versioned", born |-> batch.epoch]]
  BY DEF Elect
<1>3. n \in Token
  BY FreshToken DEF FreshRole
<1>4. r \in Roles /\ role \in [Roles -> RoleLease] /\ batch.epoch \in 1..MaxEpoch
  BY BatchRows DEF RowsOK
<1> DEFINE x == [token |-> n, live |-> TRUE, new |-> batch.mode = "versioned", born |-> batch.epoch]
<1>5. x \in RoleLease /\ x.born = batch.epoch
  BY <1>3, <1>4 DEF RoleLease
<1> HIDE DEF x, r
<1>6. role' = [role EXCEPT ![r] = x]
  BY <1>2 DEF x, r
<1>7. role' \in [Roles -> RoleLease] /\ role'[r] = x /\ \A s \in Roles : s # r => role'[s] = role[s]
  BY <1>4, <1>5, <1>6
<1>8. job' \in [Jobs -> JobLease] /\ \A j \in Jobs : job'[j] = job[j] \/ job'[j] = Free
  BY <1>1, JobsFreed, BatchRows DEF RowsOK
<1>9. RowsOK'
  BY <1>1, <1>7, <1>8, BatchRows DEF RowsOK
<1>10. Alone(RoleRow(r)) \in tx[t].held
  BY <1>1, Needs, HasAllLocks DEF r
<1>11. \A s \in Roles : role'[s].new # role[s].new => Alone(RoleRow(s)) \in tx[t].held
  BY <1>7, <1>10
<1>12. \A j \in Jobs : (Running(j)' => Running(j)) /\ (job'[j].live => job'[j] = job[j])
  BY <1>8 DEF Running, Free
<1>13. NoOldWork'
  <2>1. \A s \in Roles : role'[s].live => role'[s].born = batch.epoch
    BY <1>5, <1>7, BatchRows DEF NoOldWork
  <2>2. \A j \in Jobs : job'[j].live /\ ~job'[j].revived => job'[j].born = batch.epoch
    BY <1>12, BatchRows DEF NoOldWork
  <2> QED
    BY <1>1, <2>1, <2>2, BatchRows DEF NoOldWork
<1> QED
  BY <1>1, <1>9, <1>11, <1>12, <1>13, PlainCommit

LEMMA RoleSteps ==
  ASSUME BatchInv, NEW t \in Txs, Renew(t) \/ Release(t)
  PROVE  BatchInv'
<1> DEFINE r == tx[t].role
<1>1. r \in Roles /\ role \in [Roles -> RoleLease] /\ job \in [Jobs -> JobLease]
  BY BatchRows DEF RowsOK
<1>2. NoRole \in RoleLease /\ ~NoRole.live
  BY BatchNumbers DEF NoRole, RoleLease, Token, None
<1>3. CASE Renew(t)
  <2>1. /\ tx' = [tx EXCEPT ![t] = NoTx] /\ batch' = batch /\ job' = job /\ source' = source /\ role[r].live
        /\ role' = [role EXCEPT ![r].live = TRUE]
    BY <1>3 DEF Renew, Commits
  <2> HIDE DEF r
  <2>2. role' \in [Roles -> RoleLease] /\ role'[r] = [role[r] EXCEPT !.live = TRUE] /\ \A s \in Roles : s # r => role'[s] = role[s]
    BY <1>1, <2>1 DEF RoleLease
  <2>3. role'[r].new = role[r].new /\ role'[r].born = role[r].born
    BY <1>1, <2>2 DEF RoleLease
  <2>4. RowsOK' /\ NoOldWork' /\ \A j \in Jobs : Running(j)' => Running(j)
    BY <1>1, <2>1, <2>2, <2>3, BatchRows DEF RowsOK, NoOldWork, Running
  <2>5. \A s \in Roles : role'[s].new = role[s].new
    BY <2>2, <2>3
  <2> QED
    BY <2>1, <2>4, <2>5, PlainCommit
<1>4. CASE Release(t)
  <2>1. /\ tx' = [tx EXCEPT ![t] = NoTx] /\ HasAll(t) /\ tx[t].kind = "release" /\ batch' = batch /\ source' = source
        /\ job' = job \/ job' = WithoutJobs(JobsOf(r, "legacy"))
        /\ role' = [role EXCEPT ![r] = NoRole]
    BY <1>4 DEF Release, Commits
  <2>2. Alone(RoleRow(r)) \in tx[t].held
    BY <2>1, Needs, HasAllLocks
  <2> HIDE DEF r
  <2>3. role' \in [Roles -> RoleLease] /\ role'[r] = NoRole /\ \A s \in Roles : s # r => role'[s] = role[s]
    BY <1>1, <1>2, <2>1
  <2>4. job' \in [Jobs -> JobLease] /\ \A j \in Jobs : job'[j] = job[j] \/ job'[j] = Free
    BY <1>1, <2>1, JobsFreed
  <2>5. \A j \in Jobs : (Running(j)' => Running(j)) /\ (job'[j].live => job'[j] = job[j])
    BY <2>4 DEF Running, Free
  <2>6. RowsOK' /\ NoOldWork'
    BY <1>2, <2>1, <2>3, <2>4, <2>5, BatchRows DEF RowsOK, NoOldWork
  <2>7. \A s \in Roles : role'[s].new # role[s].new => Alone(RoleRow(s)) \in tx[t].held
    BY <2>2, <2>3
  <2> QED
    BY <2>1, <2>5, <2>6, <2>7, PlainCommit
<1> QED
  BY <1>3, <1>4

\* A claim in the versioned batch has the role to itself, and had found it idle.
LEMMA ClaimStep ==
  ASSUME BatchInv, NEW t \in Txs, Claim(t)
  PROVE  BatchInv'
<1> DEFINE c == tx[t].job
           r == tx[t].role
           mode == batch.mode
<1>1. /\ tx' = [tx EXCEPT ![t] = NoTx] /\ HasAll(t) /\ tx[t].kind = "claim" /\ Admitted(tx[t])
      /\ batch' = batch /\ role' = role /\ source' = source
  BY DEF Claim, Commits
<1>2. PICK n \in FreshJob(c) :
        job' = [job EXCEPT ![c] = [token |-> n, live |-> TRUE, born |-> batch.epoch, revived |-> FALSE]]
  BY DEF Claim
<1>3. n \in Token
  BY FreshToken DEF FreshJob
<1>4. c \in Jobs /\ r \in Roles /\ job \in [Jobs -> JobLease] /\ batch.epoch \in 1..MaxEpoch
  BY BatchRows DEF RowsOK
<1> DEFINE x == [token |-> n, live |-> TRUE, born |-> batch.epoch, revived |-> FALSE]
<1>5. x \in JobLease /\ x.born = batch.epoch
  BY <1>3, <1>4 DEF JobLease
<1>6. /\ c \in JobsOf(r, mode) /\ (mode = "versioned" => role[r].new /\ ~tx[t].busy)
  BY <1>1 DEF Admitted
<1>7. mode = "versioned" => Alone(RoleRow(r)) \in tx[t].held
  BY <1>1, Needs, HasAllLocks
<1>8. mode = "versioned" /\ r \in Exclusive => \A j \in JobsOf(r, "versioned") \ {c} : ~Running(j)
  BY <1>1, <1>6, <1>7 DEF BatchInv, StaysIdle
<1> HIDE DEF x, c
<1>9. job' = [job EXCEPT ![c] = x]
  BY <1>2 DEF x, c
<1>10. job' \in [Jobs -> JobLease] /\ job'[c] = x /\ \A j \in Jobs : j # c => job'[j] = job[j]
  BY <1>4, <1>5, <1>9
<1>11. RowsOK'
  BY <1>1, <1>10, BatchRows DEF RowsOK
<1>12. \A j \in Jobs : j # c /\ Running(j)' => Running(j)
  BY <1>10 DEF Running
<1>13. BatchTypeOK' /\ \A p \in Txs : InOrder(p)' /\ OwnRows(p)' /\ StaysIdle(p)'
  <2>1. ASSUME NEW j \in Jobs, Running(j)', ~Running(j), batch.mode = "versioned"
        PROVE  Alone(RoleRow(NewRole[j])) \in tx[t].held
    <3>1. j = c
      BY <1>12, <2>1
    <3>2. NewRole[j] = r
      BY <1>6, <2>1, <3>1 DEF JobsOf, RoleOf
    <3> QED
      BY <1>7, <2>1, <3>2
  <2> HIDE DEF r
  <2> QED
    BY <1>1, <1>11, <2>1, NoTxOK, Replaced
<1>14. NoOldWork'
  <2>1. \A j \in Jobs : job'[j].live /\ ~job'[j].revived => job'[j].born = batch.epoch
    BY <1>5, <1>10, BatchRows DEF NoOldWork
  <2> QED
    BY <1>1, <2>1, BatchRows DEF NoOldWork
<1>15. OneAtATime'
  <2>1. SUFFICES ASSUME batch.mode = "versioned", NEW s \in Exclusive, NEW i \in JobsOf(s, "versioned"),
                        NEW j \in JobsOf(s, "versioned"), Running(i)', Running(j)'
                 PROVE  i = j
    BY <1>1 DEF OneAtATime, JobsOf, RoleOf
  <2>2. i \in Jobs /\ j \in Jobs /\ NewRole[i] = s /\ NewRole[j] = s
    BY DEF JobsOf, RoleOf
  <2>3. i = c \/ j = c => s = r
    BY <1>6, <2>1, <2>2 DEF JobsOf, RoleOf
  <2>4. CASE i # c /\ j # c
    BY <1>12, <2>1, <2>2, <2>4, BatchRows DEF OneAtATime
  <2>5. CASE i = c /\ j # c
    BY <1>8, <1>12, <2>1, <2>2, <2>3, <2>5
  <2>6. CASE j = c /\ i # c
    BY <1>8, <1>12, <2>1, <2>2, <2>3, <2>6
  <2> QED
    BY <2>4, <2>5, <2>6
<1> QED
  BY <1>13, <1>14, <1>15 DEF BatchInv

LEMMA JobSteps ==
  ASSUME BatchInv, NEW t \in Txs, Beat(t) \/ Ack(t)
  PROVE  BatchInv'
<1> DEFINE c == tx[t].job
<1>1. c \in Jobs /\ job \in [Jobs -> JobLease]
  BY BatchRows DEF RowsOK
<1>2. tx' = [tx EXCEPT ![t] = NoTx] /\ batch' = batch /\ role' = role /\ source' = source
  BY DEF Beat, Ack, Commits
<1>3. PICK x \in JobLease : /\ job' = [job EXCEPT ![c] = x]
                            /\ x.live /\ ~x.revived => job[c].live /\ ~job[c].revived /\ x.born = job[c].born
  <2>1. CASE Beat(t)
    <3> DEFINE y == [job[c] EXCEPT !.live = TRUE, !.revived = @ \/ ~job[c].live]
               z == job[c]
               b == z.revived \/ ~z.live
    <3>1. job' = [job EXCEPT ![c] = [z EXCEPT !.live = TRUE, !.revived = b]]
      BY <1>1, <2>1 DEF Beat, JobLease
    <3>2. z \in JobLease
      BY <1>1
    <3>3. b \in BOOLEAN /\ (~b => z.live /\ ~z.revived)
      BY <3>2 DEF JobLease
    <3> DEFINE x == [z EXCEPT !.live = TRUE, !.revived = b]
    <3> HIDE DEF z, b
    <3>4. x \in JobLease /\ x.born = z.born /\ x.revived = b
      BY <3>2, <3>3 DEF JobLease
    <3> HIDE DEF x
    <3>5. job' = [job EXCEPT ![c] = x]
      BY <3>1 DEF x
    <3> QED
      BY <3>3, <3>4, <3>5 DEF z
  <2>2. CASE Ack(t)
    <3>1. Free \in JobLease /\ ~Free.live
      BY BatchNumbers DEF Free, JobLease, Token, None
    <3>2. job' = [job EXCEPT ![c] = Free]
      BY <2>2 DEF Ack
    <3> QED
      BY <3>1, <3>2
  <2> QED
    BY <2>1, <2>2
<1> HIDE DEF c
<1>4. job' \in [Jobs -> JobLease] /\ job'[c] = x /\ \A j \in Jobs : j # c => job'[j] = job[j]
  BY <1>1, <1>3
<1>5. RowsOK'
  BY <1>2, <1>4, BatchRows DEF RowsOK
<1>6. \A j \in Jobs : Running(j)' => Running(j) /\ job'[j].born = job[j].born
  BY <1>3, <1>4 DEF Running
<1>7. NoOldWork'
  BY <1>2, <1>6, BatchRows DEF NoOldWork, Running
<1> QED
  BY <1>2, <1>5, <1>6, <1>7, PlainCommit

LEMMA SourceSteps ==
  ASSUME BatchInv, NEW t \in Txs, ClaimSource(t) \/ RenewSource(t) \/ Record(t) \/ Abandon(t)
  PROVE  BatchInv'
<1>1. tx' = [tx EXCEPT ![t] = NoTx] /\ batch' = batch /\ role' = role /\ job' = job
  BY DEF ClaimSource, RenewSource, Record, Abandon, Commits
<1>2. source \in SourceLease /\ batch.epoch \in 1..MaxEpoch /\ (source.live => source.born = batch.epoch)
  BY BatchRows DEF NoOldWork
<1>3. source' \in SourceLease /\ (source'.live => source'.born = batch.epoch)
  <2>1. CASE ClaimSource(t)
    <3>1. PICK n \in FreshSource :
            source' = [token |-> n, live |-> TRUE, born |-> batch.epoch, job |-> tx[t].job, jobToken |-> tx[t].jobToken]
      BY <2>1 DEF ClaimSource
    <3>2. n \in Token /\ tx[t].job \in Jobs /\ tx[t].jobToken \in Token
      BY FreshToken, BatchRows DEF FreshSource, Tx
    <3> QED
      BY <1>2, <3>1, <3>2 DEF SourceLease
  <2>2. CASE RenewSource(t)
    <3>1. source' = [source EXCEPT !.live = TRUE] /\ source.live
      BY <2>2 DEF RenewSource
    <3>2. source' \in SourceLease /\ source'.born = source.born
      BY <1>2, <3>1 DEF SourceLease
    <3> QED
      BY <1>2, <3>1, <3>2
  <2>3. CASE Record(t) \/ Abandon(t)
    <3>1. source' = NoSource
      BY <2>3 DEF Record, Abandon, ClearSource
    <3> QED
      BY <3>1, BatchNumbers DEF NoSource, SourceLease, Token, None
  <2> QED
    BY <2>1, <2>2, <2>3
<1>4. RowsOK' /\ NoOldWork' /\ \A j \in Jobs : Running(j)' => Running(j)
  BY <1>1, <1>3, BatchRows DEF RowsOK, NoOldWork, Running
<1> QED
  BY <1>1, <1>4, PlainCommit

LEMMA OperatorSteps ==
  ASSUME BatchInv, NEW t \in Txs, Drain(t) \/ Complete(t)
  PROVE  BatchInv'
<1>1. tx' = [tx EXCEPT ![t] = NoTx] /\ role' = role /\ job' = job /\ source' = source
  BY DEF Drain, Complete, Commits
<1>2. Alone(BatchRow) \in tx[t].held
  BY Needs, HasAllLocks DEF Drain, Complete, Commits
<1>3. batch \in [mode : Modes \cup {"draining"}, from : Modes \cup {"none"}, epoch : 1..MaxEpoch]
  BY BatchRows DEF RowsOK
<1>4. /\ batch' \in [mode : Modes \cup {"draining"}, from : Modes \cup {"none"}, epoch : 1..MaxEpoch]
      /\ NoOldWork' /\ OneAtATime'
  <2>1. CASE Drain(t)
    <3>1. batch' = [batch EXCEPT !.mode = "draining", !.from = batch.mode] /\ batch.mode \in Modes
      BY <1>3, <2>1 DEF Drain
    <3>2. /\ batch' \in [mode : Modes \cup {"draining"}, from : Modes \cup {"none"}, epoch : 1..MaxEpoch]
          /\ batch'.epoch = batch.epoch /\ batch'.mode = "draining"
      BY <1>3, <3>1
    <3> QED
      BY <1>1, <3>2, BatchRows DEF NoOldWork, OneAtATime
  <2>2. CASE Complete(t)
    <3>1. /\ batch' = [mode |-> CHOOSE m \in Modes : m # batch.from, from |-> "none", epoch |-> batch.epoch + 1]
          /\ batch.epoch < MaxEpoch /\ Quiet
      BY <2>2 DEF Complete
    <3>2. (CHOOSE m \in Modes : m # batch.from) \in Modes
      <4>1. \E m \in Modes : m # batch.from
        BY DEF Modes
      <4> QED
        BY <4>1
    <3>3. batch.epoch + 1 \in 1..MaxEpoch
      BY <1>3, <3>1, BatchNumbers
    <3>4. batch' \in [mode : Modes \cup {"draining"}, from : Modes \cup {"none"}, epoch : 1..MaxEpoch]
      BY <3>1, <3>2, <3>3
    <3>5. NoOldWork'
      BY <1>1, <3>1 DEF Quiet, NoOldWork
    <3>6. \A j \in Jobs : ~Running(j)'
      BY <1>1, <3>1 DEF Quiet, Running
    <3> QED
      BY <3>4, <3>5, <3>6, JobsOfRole DEF OneAtATime, JobsOf
  <2> QED
    BY <2>1, <2>2
<1>5. RowsOK' /\ \A j \in Jobs : Running(j)' => Running(j)
  BY <1>1, <1>4, BatchRows DEF RowsOK, Running
<1>6. BatchTypeOK' /\ \A p \in Txs : InOrder(p)' /\ OwnRows(p)' /\ StaysIdle(p)'
  BY <1>1, <1>2, <1>5, NoTxOK, Replaced
<1> QED
  BY <1>4, <1>6 DEF BatchInv

LEMMA ExpirySteps ==
  ASSUME BatchInv, (\E r \in Roles : ExpireRole(r)) \/ (\E j \in Jobs : ExpireJob(j)) \/ ExpireSource
  PROVE  BatchInv'
<1>1. tx' = tx /\ batch' = batch
  BY DEF ExpireRole, ExpireJob, ExpireSource
<1>2. role \in [Roles -> RoleLease] /\ job \in [Jobs -> JobLease] /\ source \in SourceLease
  BY BatchRows DEF RowsOK
<1>3. /\ role' \in [Roles -> RoleLease]
      /\ \A r \in Roles : role'[r].new = role[r].new /\ role'[r].born = role[r].born /\ (role'[r].live => role[r].live)
  <2>1. ASSUME NEW r \in Roles, role' = [role EXCEPT ![r].live = FALSE]
        PROVE  /\ role' \in [Roles -> RoleLease]
               /\ \A s \in Roles : role'[s].new = role[s].new /\ role'[s].born = role[s].born /\ (role'[s].live => role[s].live)
    BY <1>2, <2>1 DEF RoleLease
  <2> QED
    BY <1>2, <2>1 DEF ExpireRole, ExpireJob, ExpireSource
<1>4. job' \in [Jobs -> JobLease] /\ \A j \in Jobs : job'[j] = job[j] \/ ~job'[j].live
  <2>1. ASSUME NEW j \in Jobs, job' = [job EXCEPT ![j].live = FALSE, ![j].revived = FALSE]
        PROVE  job' \in [Jobs -> JobLease] /\ \A i \in Jobs : job'[i] = job[i] \/ ~job'[i].live
    BY <1>2, <2>1 DEF JobLease
  <2> QED
    BY <1>2, <2>1 DEF ExpireRole, ExpireJob, ExpireSource
<1>5. source' \in SourceLease /\ (source' = source \/ ~source'.live)
  BY <1>2 DEF ExpireRole, ExpireJob, ExpireSource, SourceLease
<1>6. \A j \in Jobs : (Running(j)' => Running(j)) /\ (job'[j].live => job'[j] = job[j])
  BY <1>4 DEF Running
<1>7. RowsOK' /\ NoOldWork'
  BY <1>1, <1>3, <1>4, <1>5, <1>6, BatchRows DEF RowsOK, NoOldWork
<1>8. BatchTypeOK'
  <2>1. \A held, wanted : Blocks(held, wanted)' <=> Blocks(held, wanted)
    BY DEF Blocks
  <2> QED
    BY <1>1, <1>7, <2>1, BatchRows DEF RowsOK, BatchTypeOK
<1>9. ASSUME NEW t \in Txs PROVE InOrder(t)' /\ OwnRows(t)' /\ StaysIdle(t)'
  BY <1>1, <1>3, <1>6, <1>8, BatchRows, OthersKept
<1>10. OneAtATime'
  BY <1>1, <1>6, BatchRows DEF OneAtATime, JobsOf, RoleOf
<1> QED
  BY <1>7, <1>8, <1>9, <1>10 DEF BatchInv

LEMMA BatchStutters ==
  ASSUME BatchInv, UNCHANGED batchVars
  PROVE  BatchInv'
<1>1. tx' = tx /\ UNCHANGED <<batch, role, job, source>>
  BY DEF batchVars
<1>2. \A held, wanted : Blocks(held, wanted)' <=> Blocks(held, wanted)
  BY DEF Blocks
<1>3. BatchTypeOK'
  BY <1>1, <1>2, RowsUntouched, BatchRows DEF RowsOK, BatchTypeOK
<1>4. ASSUME NEW t \in Txs PROVE InOrder(t)' /\ OwnRows(t)' /\ StaysIdle(t)'
  BY <1>1, <1>3, RowsUntouched, OthersKept
<1> QED
  BY <1>1, <1>3, <1>4, RowsUntouched DEF BatchInv

LEMMA BatchInitInv == BatchInit => BatchInv
<1>1. SUFFICES ASSUME BatchInit PROVE BatchInv
  OBVIOUS
<1>2. /\ NoRole \in RoleLease /\ ~NoRole.live /\ Free \in JobLease /\ ~Free.live
      /\ NoSource \in SourceLease /\ ~NoSource.live /\ 1 \in 1..MaxEpoch
  BY BatchNumbers DEF NoRole, RoleLease, Free, JobLease, NoSource, SourceLease, Token, None
<1>3. /\ role = [r \in Roles |-> NoRole] /\ job = [j \in Jobs |-> Free] /\ source = NoSource /\ tx = [t \in Txs |-> NoTx]
      /\ batch = [mode |-> "legacy", from |-> "legacy", epoch |-> 1]
  BY <1>1 DEF BatchInit
<1>4. \A t \in Txs : tx[t].held = {}
  BY <1>3, NoTxOK
<1>5. BatchTypeOK
  <2>1. batch \in [mode : Modes \cup {"draining"}, from : Modes \cup {"none"}, epoch : 1..MaxEpoch]
    BY <1>2, <1>3 DEF Modes
  <2> QED
    BY <1>2, <1>3, <1>4, <2>1, NoTxOK DEF BatchTypeOK
<1>6. NoOldWork /\ OneAtATime
  BY <1>2, <1>3 DEF NoOldWork, OneAtATime
<1>7. \A t \in Txs : InOrder(t) /\ OwnRows(t) /\ StaysIdle(t)
  BY <1>4 DEF InOrder, OwnRows, StaysIdle
<1> QED
  BY <1>5, <1>6, <1>7 DEF BatchInv

LEMMA BatchNextInv == BatchInv /\ [BatchNext]_batchVars => BatchInv'
<1>1. SUFFICES ASSUME BatchInv, [BatchNext]_batchVars PROVE BatchInv'
  OBVIOUS
<1>2. CASE UNCHANGED batchVars
  BY <1>1, <1>2, BatchStutters
<1>3. ASSUME NEW t \in Txs,
             \/ \E r \in Roles : StartElect(t, r) \/ StartOwned(t, r)
             \/ \E j \in Jobs, r \in Roles : StartClaim(t, j, r) \/ StartClaimSource(t, j, r)
             \/ \E j \in Jobs : StartJob(t, j)
             \/ StartDue(t) \/ StartSource(t) \/ StartOperator(t)
      PROVE  BatchInv'
  BY <1>1, <1>3, StartSteps
<1>4. ASSUME NEW t \in Txs, TakeLock(t) PROVE BatchInv'
  BY <1>1, <1>4, BatchTakeStep
<1>5. ASSUME NEW t \in Txs, Abort(t) \/ Due(t) PROVE BatchInv'
  BY <1>1, <1>5, AbortStep
<1>6. ASSUME NEW t \in Txs, Elect(t) PROVE BatchInv'
  BY <1>1, <1>6, ElectStep
<1>7. ASSUME NEW t \in Txs, Renew(t) \/ Release(t) PROVE BatchInv'
  BY <1>1, <1>7, RoleSteps
<1>8. ASSUME NEW t \in Txs, Claim(t) PROVE BatchInv'
  BY <1>1, <1>8, ClaimStep
<1>9. ASSUME NEW t \in Txs, Beat(t) \/ Ack(t) PROVE BatchInv'
  BY <1>1, <1>9, JobSteps
<1>10. ASSUME NEW t \in Txs, ClaimSource(t) \/ RenewSource(t) \/ Record(t) \/ Abandon(t) PROVE BatchInv'
  BY <1>1, <1>10, SourceSteps
<1>11. ASSUME NEW t \in Txs, Drain(t) \/ Complete(t) PROVE BatchInv'
  BY <1>1, <1>11, OperatorSteps
<1>12. CASE (\E r \in Roles : ExpireRole(r)) \/ (\E j \in Jobs : ExpireJob(j)) \/ ExpireSource
  BY <1>1, <1>12, ExpirySteps
<1> QED
  BY <1>1, <1>2, <1>3, <1>4, <1>5, <1>6, <1>7, <1>8, <1>9, <1>10, <1>11, <1>12 DEF BatchNext

LEMMA BatchInvariant == BatchSpec => []BatchInv
<1>1. BatchInit => BatchInv
  BY BatchInitInv
<1>2. BatchInv /\ [BatchNext]_batchVars => BatchInv'
  BY BatchNextInv
<1> QED
  BY <1>1, <1>2, PTL DEF BatchSpec

\* One running job at most is one or none in number.
LEMMA OneIsEnough ==
  ASSUME BatchInv
  PROVE  OneTranslation
<1>1. SUFFICES ASSUME batch.mode = "versioned", NEW r \in Exclusive
               PROVE  Cardinality({j \in JobsOf(r, "versioned") : job[j].live /\ ~job[j].revived}) <= 1
  BY DEF OneTranslation
<1> DEFINE S == {j \in JobsOf(r, "versioned") : job[j].live /\ ~job[j].revived}
<1>2. ASSUME NEW i \in S, NEW j \in S PROVE i = j
  BY <1>1, <1>2, BatchRows DEF OneAtATime, Running
<1> HIDE DEF S
<1>3. Cardinality(S) <= 1
  <2>1. CASE S = {}
    BY <2>1, FS_EmptySet
  <2>2. CASE S # {}
    <3>1. PICK j : j \in S
      BY <2>2
    <3>2. S = {j}
      BY <1>2, <3>1
    <3> QED
      BY <3>2, FS_Singleton
  <2> QED
    BY <2>1, <2>2
<1> QED
  BY <1>3 DEF S

-----------------------------------------------------------------------------
(* No circle of waiting transactions *)

\* A bounded set of numbers has a greatest.
LEMMA Topmost ==
  ASSUME NEW S, NEW n \in Nat, S \subseteq 0..n, S # {}
  PROVE  \E x \in S : \A y \in S : y <= x
<1> DEFINE T == {n - y : y \in S}
<1>1. T \in SUBSET Nat
  <2>1. \A y \in S : n - y \in Nat
    OBVIOUS
  <2> QED
    BY <2>1
<1>2. T # {}
  OBVIOUS
<1>3. \E m \in T : \A y \in T : m <= y
  BY <1>1, <1>2, Lowest
<1>4. PICK x \in S : \A y \in S : n - x <= n - y
  BY <1>3
<1>5. \A y \in S : y <= x
  BY <1>4
<1> QED
  BY <1>5

\* A transaction that waits is open, and what it waits for is below all it has.
LEMMA WaitsBelow ==
  ASSUME BatchInv, NEW t \in Txs, NEW w \in Wanted(t)
  PROVE  /\ tx[t].kind \in AllKinds /\ w \in Lock /\ w.row.place \in Nat /\ w.row.place <= Most
         /\ \A h \in tx[t].held : h \in Lock /\ Below(tx[t].kind, h.row, w.row)
<1>1. BatchTypeOK /\ InOrder(t)
  BY BatchRows DEF BatchInv
<1>2. w \in AllLocks(t) /\ w \notin tx[t].held /\ tx[t].kind # "none"
  BY <1>1, WantedIsNext
<1>3. w \in Lock /\ w.row.place <= Most /\ tx[t].kind \in AllKinds /\ tx[t].held \subseteq Lock
  BY <1>1, <1>2, AllLocksOK, BatchTypes
<1> QED
  BY <1>1, <1>2, <1>3 DEF InOrder, Lock, Row

\* Beside a transition that has begun only transactions without the batch row run,
\* and these have no role to wait for.
LEMMA BesideTransition ==
  ASSUME BatchInv, NEW c \in Txs, NEW t \in Txs, c # t, tx[c].kind = "complete", tx[c].held # {}, tx[t].held # {},
         tx[t].kind \in AllKinds
  PROVE  tx[t].kind \in Detached
<1>1. BatchTypeOK /\ InOrder(t) /\ InOrder(c)
  BY BatchRows DEF BatchInv
<1>2. Alone(BatchRow) \in tx[c].held
  BY <1>1, BatchRowFirst DEF Detached
<1>3. ~Locked(BatchRow, t)
  BY <1>1, <1>2, Excluded
<1>4. "none" \notin AllKinds
  BY DEF AllKinds
<1> QED
  BY <1>1, <1>3, <1>4, BatchRowFirst DEF Locked

LEMMA DetachedLocks ==
  ASSUME NEW t \in Txs, tx[t].kind \in Detached, NEW l \in AllLocks(t)
  PROVE  l.row.table \in {"evidence_source_control", "evidence_source_claims", "jobs"}
<1> DEFINE u == tx[t]
           s == Locks(u)
           D == {"evidence_source_control", "evidence_source_claims", "jobs"}
<1>1. PICK n \in DOMAIN s : l \in s[n]
  BY DEF AllLocks, Range
<1>2. /\ Share(ControlRow).row.table \in D /\ Alone(ControlRow).row.table \in D
      /\ Alone(SourceRow).row.table \in D /\ Alone(JobRow(u.job)).row.table \in D
      /\ \A js : \A k \in JobRows(js) : k.row.table \in D
  BY DEF Share, Alone, ControlRow, SourceRow, JobRow, JobRows
<1>3. CASE u.kind \in {"beat", "ack"}
  <2>1. s = <<{Alone(JobRow(u.job))}>>
    BY <1>3 DEF Locks
  <2> HIDE DEF s
  <2> QED
    BY <1>1, <1>2, <2>1
<1>4. CASE u.kind \in {"renewSource", "abandon"}
  <2>1. s = <<{Share(ControlRow)}, {Alone(SourceRow)}, {Alone(JobRow(u.job))}>>
    BY <1>4 DEF Locks
  <2> HIDE DEF s
  <2>2. DOMAIN s = 1..3 /\ s[1] = {Share(ControlRow)} /\ s[2] = {Alone(SourceRow)} /\ s[3] = {Alone(JobRow(u.job))}
    BY <2>1
  <2>3. n = 1 \/ n = 2 \/ n = 3
    BY <1>1, <2>2
  <2> QED
    BY <1>1, <1>2, <2>2, <2>3
<1>5. CASE u.kind = "record"
  <2>1. s = <<{Alone(ControlRow)}, {Alone(SourceRow)}, JobRows(SourceJobs)>>
    BY <1>5 DEF Locks
  <2> HIDE DEF s
  <2>2. DOMAIN s = 1..3 /\ s[1] = {Alone(ControlRow)} /\ s[2] = {Alone(SourceRow)} /\ s[3] = JobRows(SourceJobs)
    BY <2>1
  <2>3. n = 1 \/ n = 2 \/ n = 3
    BY <1>1, <2>2
  <2> QED
    BY <1>1, <1>2, <2>2, <2>3
<1> QED
  BY <1>3, <1>4, <1>5 DEF Detached

\* One order for all that wait with a lock: the transition's where there is one.
LEMMA OneOrder ==
  ASSUME BatchInv, NEW S \in SUBSET Txs, \A t \in S : tx[t].held # {} /\ Wanted(t) # {}
  PROVE  \E kind \in {"none", "complete"} : \A t \in S : \A w \in Wanted(t), h \in tx[t].held : Below(kind, h.row, w.row)
<1>1. CASE \A t \in S : tx[t].kind # "complete"
  <2>1. ASSUME NEW t \in S, NEW w \in Wanted(t), NEW h \in tx[t].held PROVE Below("none", h.row, w.row)
    <3>1. Below(tx[t].kind, h.row, w.row) /\ tx[t].kind # "complete"
      BY <1>1, WaitsBelow
    <3>2. h.row.table \in Tables /\ w.row.table \in Tables
      BY WaitsBelow DEF Lock, Row
    <3>3. \A table \in Tables : Depth(tx[t].kind, table) = Depth("none", table)
      BY <3>1, Depths DEF Tables
    <3> QED
      BY <3>1, <3>2, <3>3 DEF Below
  <2> QED
    BY <2>1
<1>2. CASE \E c \in S : tx[c].kind = "complete"
  <2>1. PICK c \in S : tx[c].kind = "complete"
    BY <1>2
  <2>2. ASSUME NEW t \in S, NEW w \in Wanted(t), NEW h \in tx[t].held PROVE Below("complete", h.row, w.row)
    <3>1. Below(tx[t].kind, h.row, w.row) /\ tx[t].kind \in AllKinds
      BY WaitsBelow
    <3>2. CASE t = c
      BY <2>1, <3>1, <3>2
    <3>3. CASE t # c
      <4>1. tx[t].kind \in Detached
        BY <2>1, <3>1, <3>3, BesideTransition
      <4>2. w \in AllLocks(t) /\ h \in AllLocks(t)
        BY <4>1, BatchRows, WantedIsNext DEF BatchInv, OwnRows
      <4> DEFINE D == {"evidence_source_control", "evidence_source_claims", "jobs"}
      <4>3. w.row.table \in D /\ h.row.table \in D
        BY <4>1, <4>2, DetachedLocks
      <4>4. \A a, b \in D : Depth(tx[t].kind, a) < Depth(tx[t].kind, b) => Depth("complete", a) < Depth("complete", b)
        <5>1. tx[t].kind # "complete"
          BY <4>1 DEF Detached
        <5> QED
          BY <5>1, Depths
      <4> QED
        BY <3>1, <4>3, <4>4 DEF Below
    <3> QED
      BY <3>2, <3>3
  <2> QED
    BY <2>2
<1> QED
  BY <1>1, <1>2

LEMMA NoCircle ==
  ASSUME BatchInv
  PROVE  NoWaitCycle
<1>1. SUFFICES ASSUME NEW ts \in SUBSET Txs, ts # {}, \A t \in ts : \E u \in ts \ {t} : WaitsFor(t, u)
               PROVE  FALSE
  BY DEF NoWaitCycle
<1> DEFINE S == {t \in ts : tx[t].held # {}}
           Hot(l) == \E t \in S : l \in Wanted(t) /\ \E u \in S : \E h \in tx[u].held : h.row = l.row
<1>2. ASSUME NEW t \in ts PROVE \E u \in S : \E l \in Wanted(t), h \in tx[u].held : h.row = l.row
  <2>1. PICK u \in ts \ {t} : WaitsFor(t, u)
    BY <1>1
  <2>2. PICK l \in Wanted(t), h \in tx[u].held : Blocks(h, l)
    BY <2>1 DEF WaitsFor
  <2>3. u \in S /\ h.row = l.row
    BY <2>2 DEF Blocks
  <2> QED
    BY <2>2, <2>3
<1>3. \E t : t \in S
  <2>1. PICK t : t \in ts
    BY <1>1
  <2> QED
    BY <1>2, <2>1
<1>4. S \in SUBSET Txs /\ \A t \in S : tx[t].held # {} /\ Wanted(t) # {}
  BY <1>1, <1>2
<1> HIDE DEF S
<1>5. PICK kind \in {"none", "complete"} :
        \A t \in S : \A w \in Wanted(t), h \in tx[t].held : Below(kind, h.row, w.row)
  BY <1>4, OneOrder
<1>6. ASSUME NEW t \in S PROVE \E l \in Wanted(t) : Hot(l)
  BY <1>2, <1>6 DEF S
<1> DEFINE H == {l \in Lock : Hot(l)}
<1>7. ASSUME NEW l, Hot(l)
      PROVE  /\ l \in H /\ l.row.place \in 0..Most /\ Depth(kind, l.row.table) \in 0..5
             /\ \E k \in H : Below(kind, l.row, k.row)
  <2>1. PICK t \in S : l \in Wanted(t) /\ \E u \in S : \E h \in tx[u].held : h.row = l.row
    BY <1>7
  <2>2. PICK u \in S : \E h \in tx[u].held : h.row = l.row
    BY <2>1
  <2>3. l \in Lock /\ l.row.place \in 0..Most
    BY <1>4, <2>1, WaitsBelow, BatchNumbers
  <2>4. Depth(kind, l.row.table) \in 0..5
    <3>1. l.row.table \in Tables
      BY <2>3 DEF Lock, Row
    <3> QED
      BY <3>1, Depths DEF Tables
  <2>5. PICK k \in Wanted(u) : Hot(k)
    BY <1>6
  <2>6. k \in Lock
    BY <1>4, <2>5, WaitsBelow
  <2>7. Below(kind, l.row, k.row)
    BY <1>5, <2>2, <2>5
  <2> QED
    BY <1>7, <2>3, <2>4, <2>5, <2>6, <2>7
<1>8. \E l : l \in H
  BY <1>3, <1>6, <1>7
<1>9. \A l \in H : /\ l.row.place \in 0..Most /\ Depth(kind, l.row.table) \in 0..5
                   /\ \E k \in H : Below(kind, l.row, k.row)
  BY <1>7
<1> HIDE DEF H
<1>10. PICK a \in H : \A l \in H : Depth(kind, l.row.table) <= Depth(kind, a.row.table)
  <2> DEFINE D == {Depth(kind, l.row.table) : l \in H}
  <2>1. D \subseteq 0..5 /\ D # {}
    BY <1>8, <1>9
  <2>2. PICK x \in D : \A y \in D : y <= x
    BY <2>1, Topmost
  <2> QED
    BY <2>2
<1> DEFINE top == Depth(kind, a.row.table)
           P == {l.row.place : l \in {l \in H : Depth(kind, l.row.table) = top}}
<1>11. PICK b \in H : /\ Depth(kind, b.row.table) = top
                      /\ \A l \in H : Depth(kind, l.row.table) = top => l.row.place <= b.row.place
  <2>1. P \subseteq 0..Most /\ P # {} /\ Most \in Nat
    BY <1>9, <1>10, BatchNumbers
  <2>2. PICK x \in P : \A y \in P : y <= x
    BY <2>1, Topmost
  <2> QED
    BY <2>2
<1>12. PICK k \in H : Below(kind, b.row, k.row)
  BY <1>9
<1>13. k.row.place \in Nat /\ b.row.place \in Nat /\ Depth(kind, k.row.table) \in Nat /\ top \in Nat
  BY <1>9
<1>14. CASE Depth(kind, b.row.table) < Depth(kind, k.row.table)
  BY <1>10, <1>11, <1>13, <1>14
<1>15. CASE b.row.table = k.row.table /\ b.row.place < k.row.place
  BY <1>11, <1>13, <1>15
<1> QED
  BY <1>12, <1>14, <1>15 DEF Below

-----------------------------------------------------------------------------
(* Theorems *)

\* The batch, its leases and transactions keep their shape, and no two open
\* transactions hold locks that exclude each other.
THEOREM BatchTypeCorrect == BatchSpec => []BatchTypeOK
<1>1. BatchInv => BatchTypeOK
  BY DEF BatchInv
<1> QED
  BY <1>1, BatchInvariant, PTL

\* The epoch is raised only when the work of the old batch is over, and nothing
\* that was decided before brings it back.
THEOREM OldWorkIsOver == BatchSpec => []NoOldWork
<1>1. BatchInv => NoOldWork
  BY DEF BatchInv
<1> QED
  BY <1>1, BatchInvariant, PTL

\* One job of a translation role runs at a time: who admits a second one has had
\* the role row to himself since he looked.
THEOREM TranslationIsAlone == BatchSpec => []OneTranslation
  BY BatchInvariant, OneIsEnough, PTL

\* However many transactions run, they never wait for each other in a circle.
THEOREM NobodyWaitsInACircle == BatchSpec => []NoWaitCycle
  BY BatchInvariant, NoCircle, PTL
=============================================================================
