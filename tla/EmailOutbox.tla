---------------------------- MODULE EmailOutbox ----------------------------
(***************************************************************************)
(* The notification mails of lib/me/email-outbox.ts: one row of            *)
(* email_outbox per mail, the ticks of the job email-outbox-send that      *)
(* claim, compose, post and settle it, the job email-weekly-digest that    *)
(* prunes rows at the same time, and the provider (Resend), which sends a  *)
(* repeated idempotency key once for as long as it remembers the key.      *)
(*                                                                         *)
(* A tick writes rows under the lease of its job only, but nothing checks  *)
(* the lease between the claim and the post: a tick that was superseded    *)
(* still sends what it has claimed, and then finds it may not settle it.   *)
(*                                                                         *)
(* Times are relative: age of a row, wait until its next attempt, time     *)
(* since the provider took its key.  Elapse moves all of them.             *)
(***************************************************************************)
EXTENDS Integers, FiniteSets, Sequences

CONSTANTS
  Rows,         \* dedupe keys: mails that may be queued
  Ticks,        \* processes running the job
  NoTick,       \* nobody
  MaxAttempts,  \* EMAIL_MAX_ATTEMPTS, 5
  Backoff,      \* BACKOFF_MINUTES: a sequence, 1, 5, 15, 60
  DeferDelay,   \* DEFER_MS
  Stale,        \* EMAIL_STALE_MS, 24 hours
  KeyMemory,    \* how long the provider remembers a key, 24 hours
  MaxStall      \* bound: the longest time a tick holds a claimed row

ASSUME NumbersAssumption ==
  /\ {MaxAttempts, DeferDelay, Stale, KeyMemory} \subseteq Nat \ {0}
  /\ MaxStall \in Nat
  /\ Backoff \in Seq(Nat \ {0}) /\ Backoff # <<>>
ASSUME NamesAssumption == Rows # {} /\ NoTick \notin Ticks

VARIABLES
  row,     \* email_outbox
  wanted,  \* the member still has the address and the setting, by row
  lease,   \* the tick that holds the job lease
  tick,    \* the locals of sendPendingEmails
  \* the provider:
  mails,   \* mails it sent, by row; two stands for more
  since    \* time since it took the key of the last one

provider == <<mails, since>>
vars == <<row, wanted, lease, tick, mails, since>>

-----------------------------------------------------------------------------
(* Data *)

Closed == {"accepted", "rejected", "unknown", "skipped"}
Row == [state : {"absent", "pending", "deleted"} \cup Closed,
        attempts : 0..MaxAttempts, wait : Nat, age : 0..Stale, expired : BOOLEAN]
NoRow == [state |-> "absent", attempts |-> 0, wait |-> 0, age |-> 0, expired |-> FALSE]

\* What settle() is told.
Results == {"accepted", "rejected", "unknown", "retry", "skipped", "deferred"}
Tick == [phase : {"off", "begun", "ready", "claimed", "composed", "answered"},
         row : Rows, attempts : 0..MaxAttempts, result : Results, held : 0..MaxStall]
Off == [phase |-> "off", row |-> CHOOSE r \in Rows : TRUE, attempts |-> 0,
        result |-> "retry", held |-> 0]

Holding == {"claimed", "composed"}

Init ==
  /\ row = [r \in Rows |-> NoRow]
  /\ wanted = [r \in Rows |-> TRUE]
  /\ lease = NoTick
  /\ tick = [t \in Ticks |-> Off]
  /\ mails = [r \in Rows |-> 0]
  /\ since = [r \in Rows |-> KeyMemory]

SetTick(t, value) == tick' = [tick EXCEPT ![t] = value]
Stop(t) == SetTick(t, Off)
Write(r, value) == row' = [row EXCEPT ![r] = value]

-----------------------------------------------------------------------------
(* Queueing and the member *)

\* enqueueNotificationEmails and queueWeeklyDigests: one row per dedupe key; a
\* digest with nothing in it leaves a skipped row, so that its week is over.
Enqueue(r) ==
  /\ row[r].state = "absent" /\ wanted[r]
  /\ \E state \in {"pending", "skipped"} : Write(r, [row[r] EXCEPT !.state = state])
  /\ UNCHANGED <<wanted, lease, tick, provider>>

\* The member turns the mail off or on again, or loses the address.
Choose(r) ==
  /\ wanted' = [wanted EXCEPT ![r] = ~@]
  /\ UNCHANGED <<row, lease, tick, provider>>

\* Leaving deletes the member's rows.
Leave(r) ==
  /\ row[r].state # "absent"
  /\ Write(r, [NoRow EXCEPT !.state = "deleted"])
  /\ wanted' = [wanted EXCEPT ![r] = FALSE]
  /\ UNCHANGED <<lease, tick, provider>>

-----------------------------------------------------------------------------
(* A tick of email-outbox-send *)

\* The runner gives the job to a tick; whoever had it is superseded.
Begin(t) ==
  /\ tick[t].phase = "off"
  /\ lease' = t
  /\ SetTick(t, [Off EXCEPT !.phase = "begun"])
  /\ UNCHANGED <<row, wanted, provider>>

\* Rows left pending by a crash in their last attempt are closed as unknown.
Exhausted(r) ==
  row[r].state = "pending" /\ row[r].wait = 0 /\ row[r].attempts >= MaxAttempts

Sweep(t) ==
  /\ tick[t].phase = "begun"
  /\ IF lease = t
     THEN /\ row' = [r \in Rows |-> IF Exhausted(r) THEN [row[r] EXCEPT !.state = "unknown"] ELSE row[r]]
          /\ SetTick(t, [Off EXCEPT !.phase = "ready"])
     ELSE Stop(t) /\ UNCHANGED row
  /\ UNCHANGED <<wanted, lease, provider>>

\* emailRetryDelayMs: the last delay serves all later attempts.
RetryDelay(n) == Backoff[IF n < Len(Backoff) THEN n ELSE Len(Backoff)]

\* Mutant: the age of the row is not asked.
ClaimableLate(r) ==
  row[r].state = "pending" /\ row[r].wait = 0 /\ row[r].attempts < MaxAttempts

Claimable(r) ==
  /\ row[r].state = "pending" /\ row[r].wait = 0
  /\ row[r].attempts < MaxAttempts /\ row[r].age < Stale

\* claimNext: the next attempt is written before this one is made.
ClaimNext(t) ==
  /\ tick[t].phase = "ready" /\ lease = t
  /\ \E r \in Rows :
       /\ Claimable(r)
       /\ LET attempts == row[r].attempts + 1 IN
          /\ Write(r, [row[r] EXCEPT !.attempts = attempts, !.wait = RetryDelay(attempts)])
          /\ SetTick(t, [Off EXCEPT !.phase = "claimed", !.row = r, !.attempts = attempts])
  /\ UNCHANGED <<wanted, lease, provider>>

\* compose: nothing to say to this member any more, or the text cannot be made.
Compose(t) ==
  /\ tick[t].phase = "claimed"
  /\ \/ wanted[tick[t].row] /\ SetTick(t, [tick[t] EXCEPT !.phase = "composed"])
     \/ /\ ~wanted[tick[t].row]
        /\ SetTick(t, [tick[t] EXCEPT !.phase = "answered", !.result = "skipped"])
     \/ SetTick(t, [tick[t] EXCEPT !.phase = "answered", !.result = "deferred"])
  /\ UNCHANGED <<row, wanted, lease, provider>>

\* What the tick makes of the answer of sendEmail.
ResultOf(t, answer) ==
  CASE answer = "unavailable" -> "deferred"
    [] answer = "unknown" /\ tick[t].attempts < MaxAttempts -> "retry"
    [] OTHER -> answer

Remembers(r) == mails[r] > 0 /\ since[r] < KeyMemory

\* The provider answers and sends, or the answer is lost with the mail sent or
\* not.  A key it remembers sends nothing: 200, or 409, which reads as unknown.
Post(t) ==
  /\ tick[t].phase = "composed"
  /\ LET r == tick[t].row IN
     \E answer \in {"accepted", "rejected", "unavailable", "unknown"}, sends \in BOOLEAN :
       /\ sends => ~Remembers(r) /\ answer \in {"accepted", "unknown"}
       /\ ~sends /\ answer = "accepted" => Remembers(r)
       /\ answer = "rejected" => ~Remembers(r)
       /\ IF sends
          THEN /\ mails' = [mails EXCEPT ![r] = IF @ = 0 THEN 1 ELSE 2]
               /\ since' = [since EXCEPT ![r] = 0]
          ELSE UNCHANGED provider
       /\ SetTick(t, [tick[t] EXCEPT !.phase = "answered", !.result = ResultOf(t, answer)])
  /\ UNCHANGED <<row, wanted, lease>>

\* Mutant: an attempt whose end is unknown is not counted.
SettledUncounted(old, attempts, result) ==
  CASE result \in {"deferred", "retry"} ->
         [old EXCEPT !.attempts = attempts - 1, !.wait = DeferDelay]
    [] OTHER -> [old EXCEPT !.state = result]

\* The columns settle() changes: a deferral takes the attempt back.
Settled(old, attempts, result) ==
  CASE result = "deferred" -> [old EXCEPT !.attempts = attempts - 1, !.wait = DeferDelay]
    [] result = "retry"    -> old
    [] OTHER               -> [old EXCEPT !.state = result]

\* Rows the update of settle() still finds.
Open(r) == row[r].state = "pending"

\* settle: under the lease, on a row that is still pending.  A deferral stops the
\* tick, a lost lease throws; otherwise the loop goes on.
Settle(t) ==
  /\ tick[t].phase = "answered"
  /\ LET r == tick[t].row IN
     IF lease = t /\ Open(r)
     THEN Write(r, Settled(row[r], tick[t].attempts, tick[t].result))
     ELSE UNCHANGED row
  /\ IF lease # t \/ tick[t].result = "deferred"
     THEN Stop(t) ELSE SetTick(t, [Off EXCEPT !.phase = "ready"])
  /\ UNCHANGED <<wanted, lease, provider>>

\* No row, no budget, an aborted signal, no sender configured, or a crash.
End(t) ==
  /\ tick[t].phase # "off"
  /\ Stop(t)
  /\ UNCHANGED <<row, wanted, lease, provider>>

-----------------------------------------------------------------------------
(* The other job, and time *)

\* Mutant: only rows never claimed are closed.
PrunedUnclaimed(r) ==
  IF row[r].state = "pending" /\ row[r].age = Stale /\ row[r].attempts = 0
  THEN [row[r] EXCEPT !.state = "skipped", !.expired = TRUE] ELSE row[r]

\* A row that is a day old is closed: never attempted, skipped; else unknown.
Pruned(r) ==
  IF row[r].state = "pending" /\ row[r].age = Stale
  THEN [row[r] EXCEPT !.state = IF row[r].attempts = 0 THEN "skipped" ELSE "unknown",
                      !.expired = TRUE]
  ELSE row[r]

\* pruneEmailOutbox closes old rows and deletes some of those closed long ago.
Prune ==
  /\ \E old \in SUBSET {r \in Rows : row[r].state \in Closed /\ row[r].age = Stale} :
       row' = [r \in Rows |-> IF r \in old THEN [NoRow EXCEPT !.state = "deleted"] ELSE Pruned(r)]
  /\ row' # row
  /\ UNCHANGED <<wanted, lease, tick, provider>>

Older(n, top) == IF n < top THEN n + 1 ELSE top
Sooner(n) == IF n > 0 THEN n - 1 ELSE 0

Elapse ==
  /\ \A t \in Ticks : tick[t].phase \in Holding => tick[t].held < MaxStall
  /\ row' = [r \in Rows |-> IF row[r].state \in {"absent", "deleted"} THEN row[r]
               ELSE [row[r] EXCEPT !.age = Older(@, Stale), !.wait = Sooner(@)]]
  /\ tick' = [t \in Ticks |-> IF tick[t].phase \in Holding
                              THEN [tick[t] EXCEPT !.held = @ + 1] ELSE tick[t]]
  /\ since' = [r \in Rows |-> Older(since[r], KeyMemory)]
  /\ UNCHANGED <<wanted, lease, mails>>

Next ==
  \/ \E r \in Rows : Enqueue(r) \/ Choose(r) \/ Leave(r)
  \/ \E t \in Ticks : Begin(t) \/ Sweep(t) \/ ClaimNext(t) \/ Compose(t)
                      \/ Post(t) \/ Settle(t) \/ End(t)
  \/ Prune \/ Elapse

Spec == Init /\ [][Next]_vars

\* Fairness: a tick that holds a row ends (the request has a limit of 8 seconds
\* and the runner a budget), the digest job runs every 15 minutes, time passes.
TickEnds(t) == tick[t].phase # "off" /\ (Compose(t) \/ Post(t) \/ Settle(t) \/ End(t))
Live ==
  /\ \A t \in Ticks : WF_vars(TickEnds(t))
  /\ WF_vars(Prune /\ \E r \in Rows : row[r].state = "pending" /\ row'[r].state # "pending")
  /\ WF_vars(Elapse)
LiveSpec == Spec /\ Live

-----------------------------------------------------------------------------
(* Properties *)

\* Every variable has its type; attempts stay under the limit of the table's check.
TypeOK ==
  /\ row \in [Rows -> Row] /\ wanted \in [Rows -> BOOLEAN]
  /\ lease \in Ticks \cup {NoTick} /\ tick \in [Ticks -> Tick]
  /\ mails \in [Rows -> 0..2] /\ since \in [Rows -> 0..KeyMemory]

\* A row is mailed at most once, whatever ticks crash, time out, are superseded
\* or run side by side: retries repeat the key while the provider knows it.
AtMostOneMail == \A r \in Rows : mails[r] <= 1

\* What a closed row says of its mail is true: accepted was sent, rejected was not,
\* and a row closed by its age as never attempted was not, and is not in the hands
\* of a tick that could still send it.
StateTellsTheTruth ==
  \A r \in Rows :
    /\ row[r].state = "accepted" => mails[r] > 0
    /\ row[r].state = "skipped" /\ row[r].expired =>
         /\ mails[r] = 0
         /\ \A t \in Ticks : ~(tick[t].phase \in Holding /\ tick[t].row = r)

\* A closed row is not reopened or judged again: the two jobs and a slow settlement
\* do not overwrite each other.
ClosedStaysClosed ==
  [][\A r \in Rows : row[r].state \in Closed => row'[r].state \in {row[r].state, "deleted"}]_vars

\* Every queued row is closed in the end, also when its ticks die or when the
\* sender stays unavailable.
EveryRowCloses == \A r \in Rows : row[r].state = "pending" ~> row[r].state # "pending"
=============================================================================
