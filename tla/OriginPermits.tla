--------------------------- MODULE OriginPermits ---------------------------
(***************************************************************************)
(* The shared HTTP permits of lib/net/origin-permits.ts: one row of        *)
(* http_origin_hops per hop, charged to its origin (one hop at a time) and *)
(* to the physical host oracle-osaka-smoke (two at a time), and the        *)
(* callbacks of requestOriginHop that decide when the charge may end.      *)
(*                                                                         *)
(* Every request belongs to a process of its own.  Its dispatches, its     *)
(* body reader and its finish() transactions progress independently; the   *)
(* permit may be released only when all of them ended, and a permit that   *)
(* nobody will release any more stays charged until its process group is   *)
(* proved to have exited (releaseProcessExitedHops).                       *)
(***************************************************************************)
EXTENDS Naturals, FiniteSets

CONSTANTS
  Requests,       \* hops that are asked for
  Origins, Hosts, \* scheme, name and port; physical machines
  OriginOf, HostOf,
  Limited,        \* the host with a total: oracle-osaka-smoke
  HostLimit,      \* that total, 2 in the code
  MaxDispatches,  \* bound: undici dispatches of one fetch
  MaxRevision     \* bound: 9007199254740991, the last policy revision

ASSUME RequestsAssumption ==
  /\ IsFiniteSet(Requests)
  /\ OriginOf \in [Requests -> Origins]
  /\ HostOf \in [Requests -> Hosts]
ASSUME NumbersAssumption ==
  {HostLimit, MaxDispatches, MaxRevision} \subseteq Nat \ {0}

VARIABLES
  fence,    \* dr_writer_fence.state
  control,  \* http_origin_control
  hop,      \* http_origin_hops, by request
  call,     \* the locals of requestOriginHop, by request
  lost      \* history: requests with a begin or finish whose outcome was an error

vars == <<fence, control, hop, call, lost>>

-----------------------------------------------------------------------------
(* Data *)

\* fresh: reserved_until is ahead of the clock.
Hop == [state : {"none", "reserved", "dispatched", "indeterminate", "released", "cancelled"},
        revision : 0..MaxRevision, fresh : BOOLEAN]

\* Calls of finish() in flight, by the place that made them: "settle" and
\* "failed" (fetch rejected) release; "kept" and "interim" mark the hop
\* indeterminate, and "interim" goes on to settle().
Writes    == {"settle", "failed", "kept", "interim"}
Releasing == {"settle", "failed"}

\* closing: the promise of settle() exists.
Call == [phase : {"waiting", "reserved", "fetching", "body", "ended", "dead"},
         sent : 0..MaxDispatches, pending : 0..MaxDispatches, unknown : BOOLEAN,
         fetchSettled : BOOLEAN, bodySettled : BOOLEAN,
         reader : {"none", "live", "closed", "errored"},
         cancel : {"no", "ok", "rejected"}, cancelFailed : BOOLEAN,
         closing : BOOLEAN, writes : SUBSET Writes]

NoCall == [phase |-> "waiting", sent |-> 0, pending |-> 0, unknown |-> FALSE,
           fetchSettled |-> FALSE, bodySettled |-> FALSE, reader |-> "none",
           cancel |-> "no", cancelFailed |-> FALSE, closing |-> FALSE, writes |-> {}]

Charges == {"reserved", "dispatched", "indeterminate"}
Open    == {"dispatched", "indeterminate"}

Set(r, c)  == call' = [call EXCEPT ![r] = c]
Mark(r, s) == hop' = [hop EXCEPT ![r].state = s]

Init ==
  /\ fence = "active"
  /\ control = [mode |-> "open", revision |-> 1]
  /\ hop = [r \in Requests |-> [state |-> "none", revision |-> 0, fresh |-> FALSE]]
  /\ call = [r \in Requests |-> NoCall]
  /\ lost = {}

-----------------------------------------------------------------------------
(* The permit *)

\* A reservation past its time is cancelled by whoever reserves next.
Swept(r) == IF hop[r].state = "reserved" /\ ~hop[r].fresh
            THEN [hop[r] EXCEPT !.state = "cancelled"] ELSE hop[r]

\* Mutant: an indeterminate hop no longer counts.
RoomBesideUnknown(h, r) ==
  /\ \A s \in Requests : OriginOf[s] = OriginOf[r] =>
       h[s].state \notin {"reserved", "dispatched"}
  /\ HostOf[r] = Limited =>
       Cardinality({s \in Requests : HostOf[s] = Limited /\ h[s].state \in Charges}) < HostLimit

Room(h, r) ==
  /\ \A s \in Requests : OriginOf[s] = OriginOf[r] => h[s].state \notin Charges
  /\ HostOf[r] = Limited =>
       Cardinality({s \in Requests : HostOf[s] = Limited /\ h[s].state \in Charges}) < HostLimit

\* One round of the loop in reserve: without room it sweeps and polls again.  The
\* answer of a committed reservation may be lost, which ends the request.
Reserve(r) ==
  /\ call[r].phase = "waiting" /\ fence = "active" /\ control.mode = "open"
  /\ LET swept == [s \in Requests |-> Swept(s)] IN
     IF Room(swept, r)
     THEN /\ hop' = [swept EXCEPT ![r] = [state |-> "reserved",
                                          revision |-> control.revision, fresh |-> TRUE]]
          /\ \E phase \in {"reserved", "ended"} : Set(r, [call[r] EXCEPT !.phase = phase])
     ELSE hop' = swept /\ UNCHANGED call
  /\ UNCHANGED <<fence, control, lost>>

\* The control is not open, the site is fenced, or the caller's signal aborts
\* before the reservation or before begin: the request ends without dispatching.
GiveUp(r) ==
  /\ call[r].phase \in {"waiting", "reserved"}
  /\ Set(r, [call[r] EXCEPT !.phase = "ended"])
  /\ UNCHANGED <<fence, control, hop, lost>>

\* begin: the reservation is still valid under the mode and policy it was made for.
\* When the commit's answer is lost the request throws and the charge stays.
Begin(r) ==
  /\ call[r].phase = "reserved" /\ fence = "active"
  /\ control.mode = "open" /\ control.revision = hop[r].revision
  /\ hop[r].state = "reserved" /\ hop[r].fresh
  /\ Mark(r, "dispatched")
  /\ \/ Set(r, [call[r] EXCEPT !.phase = "fetching"]) /\ UNCHANGED lost
     \/ Set(r, [call[r] EXCEPT !.phase = "ended"]) /\ lost' = lost \cup {r}
  /\ UNCHANGED <<fence, control>>

\* finish changes an open hop only, so a late mark does not reopen a released one.
Finished(r, w) ==
  LET state == IF w \in Releasing THEN "released" ELSE "indeterminate" IN
  IF hop[r].state \in Open THEN [hop[r] EXCEPT !.state = state] ELSE hop[r]


-----------------------------------------------------------------------------
(* settle() and the callbacks of one request *)

\* settle: once per request, when fetch, body and every dispatch ended knowingly.
Settle(c) ==
  IF c.closing \/ ~c.fetchSettled \/ ~c.bodySettled \/ c.pending > 0
     \/ c.cancelFailed \/ c.unknown
  THEN c
  ELSE [c EXCEPT !.closing = TRUE, !.writes = @ \cup {"settle"}]

\* HopDispatcher.dispatch; a dispatcher that throws leaves no terminal to see.
Dispatch(r) ==
  /\ call[r].phase = "fetching" /\ call[r].sent < MaxDispatches
  /\ \/ Set(r, [call[r] EXCEPT !.sent = @ + 1, !.pending = @ + 1])
     \/ Set(r, [call[r] EXCEPT !.sent = @ + 1, !.unknown = TRUE])
  /\ UNCHANGED <<fence, control, hop, lost>>

\* Mutant: the end of a dispatch does not call settle().
NativeEndsQuietly(r) ==
  /\ call[r].phase # "dead" /\ call[r].pending > 0
  /\ Set(r, [call[r] EXCEPT !.pending = @ - 1])
  /\ UNCHANGED <<fence, control, hop, lost>>

\* onResponseEnd or onResponseError of one dispatch.
NativeEnds(r) ==
  /\ call[r].phase # "dead" /\ call[r].pending > 0
  /\ Set(r, Settle([call[r] EXCEPT !.pending = @ - 1]))
  /\ UNCHANGED <<fence, control, hop, lost>>

\* fetch rejects: released only with a terminal for every dispatch.
FetchRejects(r) ==
  /\ call[r].phase = "fetching"
  /\ LET c     == call[r]
         clean == c.sent > 0 /\ c.pending = 0 /\ ~c.unknown
     IN Set(r, [c EXCEPT !.phase = "ended", !.fetchSettled = TRUE, !.bodySettled = TRUE,
                         !.writes = @ \cup {IF clean THEN "failed" ELSE "kept"}])
  /\ UNCHANGED <<fence, control, hop, lost>>

\* fetch answers, with a body or without.
FetchAnswers(r) ==
  /\ call[r].phase = "fetching" /\ call[r].sent > 0
  /\ \/ Set(r, Settle([call[r] EXCEPT !.phase = "ended", !.fetchSettled = TRUE,
                                      !.bodySettled = TRUE]))
     \/ Set(r, [call[r] EXCEPT !.phase = "body", !.fetchSettled = TRUE, !.reader = "live"])
  /\ UNCHANGED <<fence, control, hop, lost>>

\* The body reader ends by itself: end of the body, or its error.
ReaderEnds(r) ==
  /\ call[r].phase = "body" /\ call[r].reader = "live"
  /\ \E s \in {"closed", "errored"} : Set(r, [call[r] EXCEPT !.reader = s])
  /\ UNCHANGED <<fence, control, hop, lost>>

\* pull learns that the body ended, before any cancellation.
Pull(r) ==
  /\ call[r].phase = "body" /\ call[r].reader # "live" /\ call[r].cancel = "no"
  /\ Set(r, Settle([call[r] EXCEPT !.phase = "ended", !.bodySettled = TRUE]))
  /\ UNCHANGED <<fence, control, hop, lost>>

\* cancel: by the consumer, the signal (onAbort) or an odd status.  Cancelling a
\* stream that failed is rejected; one that is readable is closed first and its
\* source is cancelled then, with either outcome.
Cancel(r) ==
  /\ call[r].phase = "body" /\ call[r].cancel = "no"
  /\ \E outcome \in CASE call[r].reader = "closed"  -> {"ok"}
                      [] call[r].reader = "errored" -> {"rejected"}
                      [] OTHER                      -> {"ok", "rejected"} :
       Set(r, [call[r] EXCEPT !.cancel = outcome,
                 !.reader = IF @ = "live" THEN "closed" ELSE @])
  /\ UNCHANGED <<fence, control, hop, lost>>

\* Mutant: an ended reader with a dispatch still pending is only marked.
AfterCancelUnsettled(c) ==
  IF c.cancel = "ok" THEN Settle([c EXCEPT !.bodySettled = TRUE])
  ELSE IF c.reader = "live"
       THEN [c EXCEPT !.cancelFailed = TRUE, !.writes = @ \cup {"kept"}]
       ELSE IF c.pending > 0 \/ c.unknown
            THEN [c EXCEPT !.writes = @ \cup {"interim"}]
            ELSE Settle([c EXCEPT !.bodySettled = TRUE])

\* What the answer of reader.cancel does: readerEnded is "not live".
AfterCancel(c) ==
  LET over == [c EXCEPT !.bodySettled = TRUE] IN
  IF c.cancel = "ok" THEN Settle(over)
  ELSE IF c.reader = "live"
       THEN [c EXCEPT !.cancelFailed = TRUE, !.writes = @ \cup {"kept"}]
       ELSE IF c.pending > 0 \/ c.unknown
            THEN [over EXCEPT !.writes = @ \cup {"interim"}]
            ELSE Settle(over)

CancelAnswered(r) ==
  /\ call[r].phase = "body" /\ call[r].cancel # "no"
  /\ Set(r, [AfterCancel(call[r]) EXCEPT !.phase = "ended"])
  /\ UNCHANGED <<fence, control, hop, lost>>

\* The await of a finish() is over.
Written(c, w) ==
  LET done == [c EXCEPT !.writes = @ \ {w}] IN
  IF w = "interim" THEN Settle(done) ELSE done

Finish(r) ==
  /\ call[r].phase # "dead"
  /\ \E w \in call[r].writes :
       /\ hop' = [hop EXCEPT ![r] = Finished(r, w)]
       /\ Set(r, Written(call[r], w))
  /\ UNCHANGED <<fence, control, lost>>

\* finish() fails; the error is swallowed and nothing calls it again.
FinishFails(r) ==
  /\ call[r].phase # "dead"
  /\ \E w \in call[r].writes : Set(r, Written(call[r], w))
  /\ lost' = lost \cup {r}
  /\ UNCHANGED <<fence, control, hop>>

-----------------------------------------------------------------------------
(* Processes, operators and time *)

\* The process group ends, with every socket it had.
Crash(r) ==
  /\ call[r].phase # "dead"
  /\ Set(r, [NoCall EXCEPT !.phase = "dead"])
  /\ UNCHANGED <<fence, control, hop, lost>>

\* releaseProcessExitedHops, with the recorded exit of the owner's groups.
Reclaim(r) ==
  /\ fence = "active" /\ call[r].phase = "dead" /\ hop[r].state \in Open
  /\ Mark(r, "released")
  /\ UNCHANGED <<fence, control, call, lost>>

\* reserved_until passes.
RunOut(r) ==
  /\ hop[r].state = "reserved" /\ hop[r].fresh
  /\ hop' = [hop EXCEPT ![r].fresh = FALSE]
  /\ UNCHANGED <<fence, control, call, lost>>

\* setHttpOriginPolicy
SetPolicy ==
  /\ fence = "active" /\ control.mode # "open" /\ control.revision < MaxRevision
  /\ control' = [control EXCEPT !.revision = @ + 1]
  /\ UNCHANGED <<fence, hop, call, lost>>

\* setHttpOriginMode
SetMode ==
  /\ fence = "active"
  /\ \E mode \in {"disabled", "draining", "open"} :
       /\ (control.mode = "draining") # (mode = "draining")
       /\ control' = [control EXCEPT !.mode = mode]
  /\ UNCHANGED <<fence, hop, call, lost>>

FenceSite ==
  /\ fence = "active"
  /\ fence' = "fenced"
  /\ UNCHANGED <<control, hop, call, lost>>

-----------------------------------------------------------------------------
Next ==
  \/ \E r \in Requests : \/ Reserve(r) \/ GiveUp(r) \/ Begin(r)
                         \/ Dispatch(r) \/ NativeEnds(r)
                         \/ FetchRejects(r) \/ FetchAnswers(r)
                         \/ ReaderEnds(r) \/ Pull(r) \/ Cancel(r) \/ CancelAnswered(r)
                         \/ Finish(r) \/ FinishFails(r)
                         \/ Crash(r) \/ Reclaim(r) \/ RunOut(r)
  \/ SetPolicy \/ SetMode \/ FenceSite

Spec == Init /\ [][Next]_vars

-----------------------------------------------------------------------------
(* Properties *)

TypeOK ==
  /\ fence \in {"active", "fenced"}
  /\ control \in [mode : {"disabled", "draining", "open"}, revision : 1..MaxRevision]
  /\ hop \in [Requests -> Hop]
  /\ call \in [Requests -> Call]
  /\ lost \subseteq Requests

\* A request with a socket, a response somebody may still read, or a dispatch
\* nobody saw end.
Connected(r) ==
  /\ call[r].phase # "dead"
  /\ \/ call[r].pending > 0 \/ call[r].unknown
     \/ call[r].phase \in {"fetching", "body"}

\* No two requests talk to one origin at the same time and no more than the limit
\* leave the limited host, although permits are released by callbacks, reservations
\* run out, policies change and processes die.
TrafficIsLimited ==
  /\ \A r, s \in Requests : r # s /\ Connected(r) /\ Connected(s) => OriginOf[r] # OriginOf[s]
  /\ Cardinality({r \in Requests : Connected(r) /\ HostOf[r] = Limited}) <= HostLimit

\* Whatever order fetch, body, dispatches and cancellation end in, some callback
\* releases the permit: a hop is still open after its request has nothing left to
\* do only if a transaction failed or a dispatch threw.
NothingIsLeftCharged ==
  \A r \in Requests :
    call[r].phase = "ended" /\ call[r].pending = 0 /\ call[r].writes = {}
    /\ call[r].sent > 0
    /\ ~call[r].unknown /\ r \notin lost
    => hop[r].state = "released"

\* A hop that ended is never charged again, by a late finish or anything else.
EndedStaysEnded ==
  [][\A r \in Requests : hop[r].state \in {"released", "cancelled"} => hop'[r] = hop[r]]_vars

-----------------------------------------------------------------------------
(* Liveness *)

\* Signals have a timeout, so every fetch, dispatch and body ends, and a transaction
\* ends one way or the other; the reclaim runs as maintenance.
Ends(r) ==
  \/ GiveUp(r) \/ Dispatch(r) \/ NativeEnds(r) \/ FetchRejects(r) \/ FetchAnswers(r)
  \/ Cancel(r) \/ CancelAnswered(r) \/ Finish(r) \/ FinishFails(r)

Fairness ==
  \A r \in Requests : WF_vars(Ends(r)) /\ WF_vars(Reclaim(r))

LiveSpec == Spec /\ Fairness

\* A hop that was dispatched is released, unless its live process lost track of it
\* or the site is fenced; the process's exit is the last resort.
EveryChargeEnds ==
  \A r \in Requests :
    hop[r].state \in Open
      ~> \/ hop[r].state \notin Open
         \/ fence # "active"
         \/ call[r].phase = "ended" /\ (r \in lost \/ call[r].unknown \/ call[r].sent = 0)
=============================================================================
