----------------------------- MODULE StarWrite -----------------------------
(***************************************************************************)
(* The GitHub star of one member: lib/domain/github-stars.  A page shows   *)
(* the state of a repository and its revision; a click sends a write with  *)
(* an operation id and the revision the member saw.  The server observes   *)
(* GitHub, claims the row for 30 seconds, calls GitHub and settles.        *)
(*                                                                         *)
(* Requests of several tabs run at once and may stop anywhere; a call to   *)
(* GitHub may be applied long after its caller gave up.  A call whose      *)
(* outcome is unknown keeps the row closed to writes for good: nothing the *)
(* server can read says that it is over.                                   *)
(***************************************************************************)
EXTENDS Integers, FiniteSets, FiniteSetsExt

CONSTANTS
  Repos,       \* repository ids
  Ops, NoOp,   \* operation ids a member's clicks carry; none
  Tabs,        \* requests at one time
  Foreign,     \* repositories the member also stars on GitHub itself
  MaxRevision  \* bound: revisions, the last ones kept for leases that end

ASSUME NamesAssumption == NoOp \notin Ops /\ Repos # {} /\ IsFiniteSet(Repos)
ASSUME BoundAssumption == MaxRevision \in Nat /\ Foreign \subseteq Repos

VARIABLES
  row,      \* github_star_operations of the member, by repository
  receipt,  \* github_star_operation_receipts, by operation
  tab,      \* the locals of the requests
  click,    \* what each operation asks for, and what its member saw
  star,     \* GitHub: the member's star
  call      \* GitHub: what became of each operation's call

vars == <<row, receipt, tab, click, star, call>>

-----------------------------------------------------------------------------
(* Data *)

Known == {"starred", "unstarred"}
States == Known \cup {"unknown", "needs_reconnect"}
Wish(starred) == IF starred THEN "starred" ELSE "unstarred"

\* desired is desired_starred, "none" when null; owner is the operation that
\* holds the lease, live until it expires.
Row == [state : States, revision : 0..MaxRevision, desired : Known \cup {"none"},
        owner : Ops \cup {NoOp}, live : BOOLEAN]
NoRow == [state |-> "unknown", revision |-> 0, desired |-> "none", owner |-> NoOp, live |-> FALSE]

\* A receipt is absent, open (no response yet) or holds its response.
Receipt == [state : States \cup {"absent", "open"}, revision : 0..MaxRevision]
NoReceipt == [state |-> "absent", revision |-> 0]

NoClick == [repo |-> CHOOSE r \in Repos : TRUE, wish |-> "starred", expected |-> 0, saw |-> "unknown"]
Click == [repo : Repos, wish : Known, expected : 0..MaxRevision, saw : States]
\* state is what the request last learned: the read, the state before the
\* claim, the result.
Tab == [phase : {"off", "opened", "loaded", "read", "checked", "claimed", "called", "answered"},
        op : Ops \cup {NoOp}, repo : Repos, revision : 0..MaxRevision, state : States]
Off == [phase |-> "off", op |-> NoOp, repo |-> CHOOSE r \in Repos : TRUE, revision |-> 0, state |-> "unknown"]

Init ==
  /\ row = [r \in Repos |-> NoRow]
  /\ receipt = [o \in Ops |-> NoReceipt]
  /\ tab = [t \in Tabs |-> Off]
  /\ click = [o \in Ops |-> NoClick]
  /\ star \in [Repos -> Known]
  /\ call = [o \in Ops |-> "none"]

SetTab(t, value) == tab' = [tab EXCEPT ![t] = value]
Stop(t) == SetTab(t, Off)
Write(r, value) == row' = [row EXCEPT ![r] = value]

\* nextRevision: one counter for all repositories of the member.
NextRevision == 1 + Max({row[r].revision : r \in Repos})
Room == NextRevision + Cardinality({r \in Repos : row[r].owner # NoOp}) < MaxRevision

Uncertain(x) == x.state = "unknown" /\ x.desired # "none"
\* What settles an expired lease: the outcome is unknown, the wish is kept.
Expired(x) == [x EXCEPT !.state = "unknown", !.revision = NextRevision, !.owner = NoOp, !.live = FALSE]
Response(x) == [state |-> x.state, revision |-> x.revision]

-----------------------------------------------------------------------------
(* The member *)

\* A page asks for the state.
View(t, r) ==
  /\ tab[t].phase = "off"
  /\ SetTab(t, [Off EXCEPT !.phase = "opened", !.repo = r])
  /\ UNCHANGED <<row, receipt, click, star, call>>

\* A click on what the page shows, under a new operation id.
ClickStar(t, o, r) ==
  /\ tab[t].phase = "off" /\ call[o] = "none" /\ receipt[o] = NoReceipt
  /\ \A u \in Tabs : tab[u].op # o
  /\ \E wish \in Known :
       click' = [click EXCEPT ![o] = [repo |-> r, wish |-> wish, expected |-> row[r].revision, saw |-> row[r].state]]
  /\ SetTab(t, [Off EXCEPT !.phase = "opened", !.op = o, !.repo = r])
  /\ UNCHANGED <<row, receipt, star, call>>

\* The browser repeats a write; one that has a receipt is answered from it.
Repeat(t, o) ==
  /\ tab[t].phase = "off" /\ receipt[o] = NoReceipt /\ \E u \in Tabs : tab[u].op = o
  /\ SetTab(t, [Off EXCEPT !.phase = "opened", !.op = o, !.repo = click[o].repo])
  /\ UNCHANGED <<row, receipt, click, star, call>>

\* The member stars or unstars on GitHub.
Elsewhere(r) ==
  /\ r \in Foreign
  /\ star' = [star EXCEPT ![r] = CHOOSE s \in Known : s # star[r]]
  /\ UNCHANGED <<row, receipt, tab, click, call>>

-----------------------------------------------------------------------------
(* Observation *)

Answered(o) == [receipt EXCEPT ![o] = Response(Expired(row[click[o].repo]))]

\* loadStarOperation: a row that is new, or older than one of another
\* repository, gets a revision of its own; an expired lease is settled.
Load(t) ==
  LET r == tab[t].repo  x == row[r]
      behind == x.owner = NoOp /\ (x.revision = 0 \/ x.revision < NextRevision - 1)
      over == x.owner # NoOp /\ ~x.live
      y == CASE behind -> [x EXCEPT !.revision = NextRevision] [] over -> Expired(x) [] OTHER -> x
      o == tab[t].op
  IN
  /\ tab[t].phase = "opened" /\ (behind => Room) /\ (over => NextRevision <= MaxRevision)
  /\ Write(r, y)
  /\ receipt' = IF over THEN Answered(x.owner) ELSE receipt
  /\ LET found == [tab[t] EXCEPT !.revision = y.revision, !.state = y.state] IN
     \/ \* Read GitHub, unless the row is leased; a write must have seen this revision.
        /\ y.owner = NoOp /\ (o # NoOp => y.desired = "none" /\ y.revision = click[o].expected)
        /\ SetTab(t, [found EXCEPT !.phase = "loaded"])
     \/ \* A write that will find the row closed goes on to the claim.
        /\ o # NoOp /\ (y.owner # NoOp \/ y.desired # "none") /\ y.state # "needs_reconnect"
        /\ ~(y.state = "unknown" /\ y.desired = "none")
        /\ SetTab(t, [found EXCEPT !.phase = "checked"])
     \/ \* Shown, or refused.
        Stop(t)
  /\ UNCHANGED <<click, star, call>>

\* GET /user/starred: what GitHub says, no answer, or 401.
Read(t) ==
  /\ tab[t].phase = "loaded"
  /\ \E s \in {star[tab[t].repo], "unknown", "needs_reconnect"} :
       SetTab(t, [tab[t] EXCEPT !.phase = "read", !.state = s])
  /\ UNCHANGED <<row, receipt, click, star, call>>

\* Mutant: an answer is taken whatever happened since the row was loaded.
UnchangedSinceLate(x, revision) == x.owner = NoOp /\ ~Uncertain(x)
\* An observation counts if nothing happened to the row since it was loaded; it
\* never ends an uncertain write, even when it agrees with it.
UnchangedSince(x, revision) == x.revision = revision /\ x.owner = NoOp /\ ~Uncertain(x)

\* Mutant: the revision stays when the state changes.
RevisionSame(x, state) == x.revision
RevisionAfter(x, state) == IF x.state = state THEN x.revision ELSE NextRevision

\* recordStarObservation
Observe(t) ==
  LET r == tab[t].repo  x == row[r]  s == tab[t].state  taken == UnchangedSince(x, tab[t].revision)
      y == IF taken THEN [x EXCEPT !.state = s, !.revision = RevisionAfter(x, s),
                                   !.desired = IF s # "unknown" THEN "none" ELSE @]
                    ELSE x
  IN
  /\ tab[t].phase = "read" /\ (taken /\ x.state # s => Room)
  /\ Write(r, y)
  /\ IF tab[t].op = NoOp \/ y.state = "needs_reconnect" \/ (y.state = "unknown" /\ y.desired = "none")
     THEN Stop(t)
     ELSE SetTab(t, [tab[t] EXCEPT !.phase = "checked", !.state = y.state])
  /\ UNCHANGED <<receipt, click, star, call>>

-----------------------------------------------------------------------------
(* The write *)

\* Mutant: an uncertain write does not close the row.
OpenUncertain(x) == x.owner = NoOp
OpenToWrites(x) == x.owner = NoOp /\ ~Uncertain(x)

\* claimStarWrite, after the rate limit and under the member's lock.
Claim(t) ==
  LET o == tab[t].op  r == tab[t].repo  x == row[r] IN
  /\ tab[t].phase = "checked"
  /\ IF receipt[o] = NoReceipt /\ OpenToWrites(x) /\ x.revision = click[o].expected
     THEN /\ Room
          /\ IF x.state = click[o].wish
             THEN /\ Write(r, [x EXCEPT !.revision = NextRevision])
                  /\ receipt' = [receipt EXCEPT ![o] = Response([x EXCEPT !.revision = NextRevision])]
                  /\ Stop(t)
             ELSE /\ Write(r, [x EXCEPT !.revision = NextRevision, !.desired = click[o].wish,
                                        !.owner = o, !.live = TRUE])
                  /\ receipt' = [receipt EXCEPT ![o] = [state |-> "open", revision |-> 0]]
                  /\ SetTab(t, [tab[t] EXCEPT !.phase = "claimed", !.revision = NextRevision, !.state = x.state])
     ELSE Stop(t) /\ UNCHANGED <<row, receipt>>
  /\ UNCHANGED <<click, star, call>>

\* The credential was revoked since: no call is made.
CredentialGone(t) ==
  /\ tab[t].phase = "claimed"
  /\ SetTab(t, [tab[t] EXCEPT !.phase = "answered", !.state = "needs_reconnect"])
  /\ UNCHANGED <<row, receipt, click, star, call>>

\* PUT or DELETE
Dispatch(t) ==
  /\ tab[t].phase = "claimed"
  /\ call' = [call EXCEPT ![tab[t].op] = "flight"]
  /\ SetTab(t, [tab[t] EXCEPT !.phase = "called"])
  /\ UNCHANGED <<row, receipt, click, star>>

\* GitHub, at any time after the dispatch.
Apply(o) ==
  /\ call[o] = "flight"
  /\ call' = [call EXCEPT ![o] = "applied"]
  /\ star' = [star EXCEPT ![click[o].repo] = click[o].wish]
  /\ UNCHANGED <<row, receipt, tab, click>>
Drop(o) ==
  /\ call[o] = "flight"
  /\ \E fate \in {"refused", "unauthorized", "lost"} : call' = [call EXCEPT ![o] = fate]
  /\ UNCHANGED <<row, receipt, tab, click, star>>

\* The request learns the outcome, or gives up waiting for it; on a rejection the
\* state is the one from before the claim.
Answer(t) ==
  LET o == tab[t].op IN
  /\ tab[t].phase = "called"
  /\ \E s \in {"unknown"} \cup (CASE call[o] = "applied" -> {click[o].wish}
                                  [] call[o] = "refused" -> {tab[t].state}
                                  [] call[o] = "unauthorized" -> {"needs_reconnect"}
                                  [] OTHER -> {}) :
       SetTab(t, [tab[t] EXCEPT !.phase = "answered", !.state = s])
  /\ UNCHANGED <<row, receipt, click, star, call>>

InTime(t, x) == x.owner = tab[t].op /\ x.revision = tab[t].revision /\ x.live

ReceiptAfter(t, x, y) == IF x.owner = tab[t].op THEN Response(y) ELSE receipt[tab[t].op]

\* settleStarWrite
Settle(t) ==
  LET o == tab[t].op  r == tab[t].repo  x == row[r]  s == tab[t].state
      y == IF InTime(t, x)
           THEN [x EXCEPT !.state = s, !.revision = NextRevision, !.owner = NoOp, !.live = FALSE,
                          !.desired = IF s = "unknown" THEN @ ELSE "none"]
           ELSE IF x.owner = o THEN Expired(x) ELSE x
  IN
  /\ tab[t].phase = "answered" /\ NextRevision <= MaxRevision
  /\ Write(r, y)
  /\ receipt' = [receipt EXCEPT ![o] = ReceiptAfter(t, x, y)]
  /\ Stop(t)
  /\ UNCHANGED <<click, star, call>>

-----------------------------------------------------------------------------
(* Faults and time *)

\* The server stops, the database does not answer.
Crash(t) ==
  /\ tab[t].phase # "off" /\ Stop(t)
  /\ UNCHANGED <<row, receipt, click, star, call>>

Elapse(r) ==
  /\ row[r].live /\ Write(r, [row[r] EXCEPT !.live = FALSE])
  /\ UNCHANGED <<receipt, tab, click, star, call>>

Next ==
  \/ \E t \in Tabs, r \in Repos : View(t, r)
  \/ \E t \in Tabs, o \in Ops, r \in Repos : ClickStar(t, o, r)
  \/ \E t \in Tabs, o \in Ops : Repeat(t, o)
  \/ \E r \in Repos : Elsewhere(r)
  \/ \E t \in Tabs : Load(t)
  \/ \E t \in Tabs : Read(t)
  \/ \E t \in Tabs : Observe(t)
  \/ \E t \in Tabs : Claim(t)
  \/ \E t \in Tabs : CredentialGone(t)
  \/ \E t \in Tabs : Dispatch(t)
  \/ \E o \in Ops : Apply(o)
  \/ \E o \in Ops : Drop(o)
  \/ \E t \in Tabs : Answer(t)
  \/ \E t \in Tabs : Settle(t)
  \/ \E t \in Tabs : Crash(t)
  \/ \E r \in Repos : Elapse(r)

Spec == Init /\ [][Next]_vars

-----------------------------------------------------------------------------
(* Properties *)

\* Every variable has its type.
TypeOK ==
  /\ row \in [Repos -> Row]
  /\ receipt \in [Ops -> Receipt]
  /\ tab \in [Tabs -> Tab]
  /\ click \in [Ops -> Click]
  /\ star \in [Repos -> Known]
  /\ call \in [Ops -> {"none", "flight", "applied", "refused", "unauthorized", "lost"}]

\* While a call to GitHub may still take effect no other one is made for that
\* repository, though its request is long over and its lease expired
\* (repository.ts:134, the uncertainty fence).
OneCallAtATime ==
  \A o, p \in Ops : call[o] = "flight" /\ call[p] = "flight" /\ click[o].repo = click[p].repo => o = p

\* A state on record, with no write going on, is the member's star on GitHub,
\* whatever answers came late or in another order (where the member uses only
\* these pages; repository.ts:96 and :157).
RecordIsTrue ==
  \A r \in Repos \ Foreign :
    row[r].state \in Known /\ row[r].owner = NoOp =>
      row[r].state = star[r] /\ \A o \in Ops : click[o].repo = r => call[o] # "flight"

\* A response on a receipt is final: a repeated request gets the same answer
\* (github-star-schema.ts:24, settleStarWrite).
ReceiptIsFinal == [][\A o \in Ops : receipt[o].state \in States => receipt'[o] = receipt[o]]_vars

\* A write is claimed only on the state its member saw: the revision he sent
\* stands for that state and no other (repository.ts:135).
ClaimedAsSeen ==
  [][\A o \in Ops : receipt[o].state = "absent" /\ receipt'[o].state = "open" =>
       row[click[o].repo].state = click[o].saw]_vars
=============================================================================
