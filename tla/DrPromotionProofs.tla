------------------------- MODULE DrPromotionProofs -------------------------
(***************************************************************************)
(* Proofs about DrPromotion for any databases, workers, jobs and times.    *)
(*                                                                         *)
(* The argument is about the database underway.  There is one, and while   *)
(* it waits no site is promoted and no worker starts: the databases that   *)
(* served and the workers that ran stay those of its plan.  A served       *)
(* database that is fenced or cut off takes writes never again, and what   *)
(* is recorded of a worker was so when it stopped.  When it is promoted,   *)
(* all of that is behind it at once.                                       *)
(***************************************************************************)
EXTENDS DrPromotion, FiniteSetTheorems, WellFoundedInduction, TLAPS

\* A database that has served, takes writes and can be reached.
Live(d) == d \in Served /\ Active(d) /\ db[d].reachable

\* A promotion names a database that was made, and no later one has its name.
Issued(d) ==
  /\ db[d].gone => ~db[d].made
  /\ ~db[d].made => db[d].promo.state = "none"
  /\ db[d].promo.state # "none" => db[db[d].promo.db].made \/ db[db[d].promo.db].gone

\* A worker: when it was stopped, and the call it may have left behind.
Runs(w) ==
  LET x == worker[w] IN
  /\ x.state = "off" => x.call = "none"
  /\ x.state = "stopped" => x.stopped <= now /\ x.call # "http" /\ (x.call # "none" => x.began <= x.stopped)
  /\ x.call # "none" => x.began <= now
  /\ x.call = "model" => now < x.began + Deadline

\* Who stored the last result of a database still runs, or stopped after it.
Stores(d) ==
  LET v == db[d].wrote IN
  v # Never => v <= now /\ \E w \in Declared : \/ worker[w].state = "up"
                                               \/ worker[w].state = "stopped" /\ v <= worker[w].stopped

\* What is recorded of a worker's stop is so.
Told(p, w) ==
  p.stop[w] # Never => worker[w].state = "stopped" /\ worker[w].stopped <= p.stop[w] + Skew

\* A sealed database before its promotion.
Waits(d) ==
  LET p == db[d].promo IN
  /\ d # First /\ db[d].fence = "sealed" /\ db[d].lease = Fresh.lease /\ db[d].open = {}
  /\ db[d].epoch = p.from /\ p.old = Served /\ \A o \in Served : db[o].epoch <= p.from
  /\ \A o \in p.vouched : ~Live(o)
  /\ \A w \in Declared : w \in p.required \/ worker[w].state = "off"
  /\ \A w \in Workers : Told(p, w)

\* A call a worker left behind when it was stopped.
Left(p, w) ==
  worker[w].state = "stopped" /\ w \in p.required /\ p.stop[w] # Never /\ Told(p, w)

\* A promoted database.
Serves(d) ==
  LET p == db[d].promo IN
  /\ \A j \in Jobs : db[d].lease[j] # NoToken => db[d].lease[j].db = d /\ db[d].lease[j].epoch = db[d].epoch
  /\ \A o \in p.old : o \in Served /\ ~Live(o) /\ db[o].wrote <= p.window + Skew
  /\ Live(d) => \A w \in Declared : worker[w].call # "none" =>
       worker[w].at = d \/ (Left(p, w) /\ worker[w].call \notin db[d].open)

\* The databases that have served, among each other.
Sites ==
  /\ db[First].made
  /\ \A d, e \in DBs : Live(d) /\ Live(e) => d = e
  /\ OneEpoch
  /\ \E d \in Served : \A e \in Served : db[e].epoch <= db[d].epoch
  /\ \A d, e \in DBs : Recording(d) /\ Recording(e) => d = e

IInv ==
  /\ TypeOK /\ Sites
  /\ \A d \in DBs : Issued(d) /\ Stores(d)
  /\ \A w \in Workers : Runs(w)
  /\ \A d \in DBs : Recording(d) => Waits(d)
  /\ \A d \in DBs : db[d].made /\ Promoted(d) => Serves(d)

-----------------------------------------------------------------------------
(* The types *)

LEMMA FreshType == Fresh \in Db /\ NoPromo \in Promo
BY SiteAssumption, TimeAssumption DEF Fresh, Db, NoPromo, Promo, Epochs, Times, Never, NoToken

LEMMA OffType == Off \in Worker
BY SiteAssumption, TimeAssumption DEF Off, Worker, Times, NoToken

LEMMA TypeInit == Init => TypeOK
<1> SUFFICES ASSUME Init PROVE TypeOK
  OBVIOUS
<1>1. \A d \in DBs : [Fresh EXCEPT !.made = (d = First)] \in Db
  BY FreshType DEF Db, Fresh
<1> QED
  BY <1>1, OffType, TimeAssumption DEF Init, TypeOK, Times

\* What a database holds.
LEMMA Holds ==
  ASSUME TypeOK, NEW d \in DBs
  PROVE  /\ db[d] \in Db /\ db[d].promo \in Promo /\ db[d].epoch \in Nat \ {0}
         /\ db[d].wrote \in Int /\ db[d].promo.window \in Int /\ db[d].promo.from \in Nat
         /\ \A w \in Workers : db[d].promo.stop[w] \in Times \cup {Never}
BY TimeAssumption DEF TypeOK, Db, Promo, Epochs, Times, Never

LEMMA WorkerType ==
  ASSUME TypeOK, NEW w \in Workers
  PROVE  /\ worker[w] \in Worker /\ worker[w].stopped \in Nat /\ worker[w].began \in Nat /\ now \in Nat
         /\ worker[w].state \in {"off", "up", "stopped"} /\ NoCall(w) \in Worker
<1>1. worker[w] \in Worker /\ now \in Times
  BY DEF TypeOK
<1>2. worker[w].stopped \in Nat /\ worker[w].began \in Nat /\ now \in Nat
  BY <1>1, TimeAssumption DEF Worker, Times
<1>3. NoCall(w) \in Worker
  <2>1. 0 \in Times /\ First \in DBs
    BY TimeAssumption, SiteAssumption DEF Times
  <2> QED
    BY <1>1, <2>1 DEF Worker, NoCall
<1> QED
  BY <1>1, <1>2, <1>3 DEF Worker

LEMMA TypeStep ==
  ASSUME TypeOK, [Next]_vars
  PROVE  TypeOK'
<1>1. ASSUME NEW d \in DBs, NEW v \in Db, PutDb(d, v) PROVE db' \in [DBs -> Db]
  BY <1>1 DEF PutDb, TypeOK
<1>2. ASSUME NEW w \in Workers, NEW v \in Worker, PutWorker(w, v) PROVE worker' \in [Workers -> Worker]
  BY <1>2 DEF PutWorker, TypeOK
<1>3. ASSUME db' \in [DBs -> Db], worker' \in [Workers -> Worker], now' \in Times PROVE TypeOK'
  BY <1>3 DEF TypeOK
<1>4. db \in [DBs -> Db] /\ worker \in [Workers -> Worker] /\ now \in Times
  BY DEF TypeOK
<1>5. CASE UNCHANGED vars
  BY <1>3, <1>4, <1>5 DEF vars
<1>6. ASSUME NEW w \in Workers, Start(w) PROVE TypeOK'
  <2>1. [Off EXCEPT !.state = "up"] \in Worker
    BY OffType DEF Worker, Off
  <2> QED
    BY <1>2, <1>3, <1>4, <1>6, <2>1 DEF Start
<1>7. ASSUME NEW w \in Workers, CallEnds(w) PROVE TypeOK'
  <2>1. worker' \in [Workers -> Worker]
    BY <1>2, <1>7, WorkerType DEF CallEnds
  <2>2. ASSUME NEW d \in DBs PROVE [db[d] EXCEPT !.rows = @ \ {<<w, worker[w].call>>}] \in Db
    BY Holds DEF Db
  <2>3. db' \in [DBs -> Db]
    BY <1>1, <1>4, <1>7, <2>2 DEF CallEnds
  <2> QED
    BY <1>3, <1>4, <1>7, <2>1, <2>3 DEF CallEnds
<1>8. ASSUME NEW w \in Workers, StopWorker(w) PROVE TypeOK'
  <2> DEFINE x == IF worker[w].call = "http" THEN NoCall(w) ELSE worker[w]
  <2>1. x \in Worker
    BY WorkerType
  <2>2. Off.token \in [Jobs -> Token \cup {NoToken}]
    BY DEF Off
  <2>3. [x EXCEPT !.state = "stopped", !.stopped = now, !.token = Off.token] \in Worker
    <3> HIDE DEF x
    <3> QED
      BY <2>1, <2>2, <1>4 DEF Worker
  <2> QED
    BY <1>2, <1>3, <1>4, <1>8, <2>3 DEF StopWorker
<1>9. ASSUME NEW w \in Workers, NEW d \in DBs, NEW j \in Jobs, Claim(w, d, j) PROVE TypeOK'
  <2> DEFINE t == [by |-> w, db |-> d, epoch |-> db[d].epoch]
  <2>1. t \in Token
    BY Holds DEF Token, Epochs
  <2> HIDE DEF t
  <2>2. [db[d] EXCEPT !.lease[j] = t] \in Db
    BY <2>1, Holds DEF Db
  <2>3. [worker[w] EXCEPT !.token[j] = t] \in Worker
    BY <2>1, WorkerType DEF Worker
  <2>4. PutDb(d, [db[d] EXCEPT !.lease[j] = t]) /\ PutWorker(w, [worker[w] EXCEPT !.token[j] = t]) /\ now' = now
    BY <1>9 DEF Claim, t
  <2> QED
    BY <1>1, <1>2, <1>3, <1>4, <2>2, <2>3, <2>4
<1>10. ASSUME NEW w \in Workers, NEW d \in DBs, NEW j \in Jobs, Commit(w, d, j) PROVE TypeOK'
  <2>1. [db[d] EXCEPT !.wrote = now] \in Db /\ db[d] \in Db
    BY <1>4, Holds DEF Db
  <2> QED
    BY <1>1, <1>3, <1>4, <1>10, <2>1 DEF Commit
<1>11. ASSUME NEW w \in Workers, NEW d \in DBs, StartCall(w, d) PROVE TypeOK'
  <2>1. PICK s \in db[d].open :
          /\ PutDb(d, [db[d] EXCEPT !.rows = @ \cup {<<w, s>>}])
          /\ PutWorker(w, [worker[w] EXCEPT !.call = s, !.at = d, !.began = now])
    BY <1>11 DEF StartCall
  <2>2. s \in Scopes
    BY Holds DEF Db
  <2>3. [db[d] EXCEPT !.rows = @ \cup {<<w, s>>}] \in Db
    BY <2>2, Holds DEF Db
  <2>4. [worker[w] EXCEPT !.call = s, !.at = d, !.began = now] \in Worker
    BY <2>2, <1>4, WorkerType DEF Worker
  <2> QED
    BY <1>1, <1>2, <1>3, <1>4, <1>11, <2>1, <2>3, <2>4 DEF StartCall
<1>12. ASSUME NEW d \in DBs, Restore(d) PROVE TypeOK'
  BY <1>1, <1>3, <1>4, <1>12, Holds DEF Restore
<1>13. ASSUME NEW d \in DBs, Discard(d) PROVE TypeOK'
  <2>1. [Fresh EXCEPT !.gone = TRUE] \in Db
    BY FreshType DEF Db, Fresh
  <2> QED
    BY <1>1, <1>3, <1>4, <1>13, <2>1 DEF Discard
<1>14. ASSUME NEW d \in DBs PROVE Fenced(d) \in Db
  <2>1. db[d] \in Db
    BY <1>4
  <2> QED
    BY <2>1 DEF Db, Fenced
<1>15. ASSUME NEW d \in DBs, FenceOld(d) PROVE TypeOK'
  BY <1>1, <1>3, <1>4, <1>14, <1>15 DEF FenceOld
<1>16. ASSUME NEW d \in DBs, Isolate(d) PROVE TypeOK'
  <2>1. [db[d] EXCEPT !.reachable = FALSE] \in Db
    <3>1. db[d] \in Db
      BY <1>4
    <3> QED
      BY <3>1 DEF Db
  <2> QED
    BY <1>1, <1>3, <1>4, <1>16, <2>1 DEF Isolate
<1>17. ASSUME NEW d \in DBs, Rejoin(d) PROVE TypeOK'
  <2> DEFINE x == IF Active(d) THEN Fenced(d) ELSE db[d]
  <2>1. x \in Db
    BY <1>14, Holds
  <2>2. [x EXCEPT !.reachable = TRUE] \in Db
    <3> HIDE DEF x
    <3> QED
      BY <2>1 DEF Db
  <2> QED
    BY <1>1, <1>3, <1>4, <1>17, <2>2 DEF Rejoin
<1>18. ASSUME NEW d \in DBs, Seal(d) PROVE TypeOK'
  <2> DEFINE p == [NoPromo EXCEPT !.state = "sealed", !.db = d, !.from = db[d].epoch, !.old = Served,
                                 !.required = Named \cup Shown(d)]
  <2>1. Served \subseteq DBs /\ Named \cup Shown(d) \subseteq Workers
    BY SiteAssumption DEF Served, Named, Shown
  <2>2. p \in Promo
    BY <2>1, FreshType, Holds DEF Promo, Epochs
  <2> HIDE DEF p
  <2>3. LeaseAfter(d) \in [Jobs -> Token \cup {NoToken}]
    BY DEF LeaseAfter, Fresh
  <2>4. [db[d] EXCEPT !.fence = "sealed", !.home = d, !.lease = LeaseAfter(d), !.open = {}, !.promo = p] \in Db
    <3>1. db[d] \in Db
      BY <1>4
    <3> QED
      BY <2>2, <2>3, <3>1 DEF Db
  <2>5. PutDb(d, [db[d] EXCEPT !.fence = "sealed", !.home = d, !.lease = LeaseAfter(d), !.open = {}, !.promo = p])
    BY <1>18 DEF Seal, p
  <2> QED
    BY <1>1, <1>3, <1>4, <1>18, <2>4, <2>5 DEF Seal
<1>19. ASSUME NEW d \in DBs, RecordReview(d) PROVE TypeOK'
  <2>1. ASSUME NEW t \in 0..now PROVE [db[d] EXCEPT !.promo.window = t] \in Db
    <3>1. t \in Times
      BY <1>4, TimeAssumption DEF Times
    <3> QED
      BY <3>1, Holds DEF Db, Promo
  <2> QED
    BY <1>1, <1>3, <1>4, <1>19, <2>1 DEF RecordReview
<1>20. ASSUME NEW d \in DBs, Promote(d) PROVE TypeOK'
  <2>1. PromoAfter(db[d].promo) \in Promo
    BY Holds DEF PromoAfter, Promo
  <2>2. [db[d] EXCEPT !.fence = "active", !.epoch = @ + 1, !.promo = PromoAfter(@)] \in Db
    <3>1. db[d] \in Db /\ db[d].epoch + 1 \in Epochs
      BY <1>4, Holds DEF Epochs
    <3> QED
      BY <2>1, <3>1 DEF Db
  <2> QED
    BY <1>1, <1>3, <1>4, <1>20, <2>2 DEF Promote
<1>21. ASSUME NEW d \in DBs, ReleaseDrained(d) PROVE TypeOK'
  <2>1. [db[d] EXCEPT !.rows = @ \ OldRows(d, "model")] \in Db
    BY Holds DEF Db
  <2> QED
    BY <1>1, <1>3, <1>4, <1>21, <2>1 DEF ReleaseDrained
<1>22. ASSUME NEW d \in DBs, NEW o \in DBs, Vouch(d, o) PROVE TypeOK'
  <2>1. [db[d] EXCEPT !.promo.vouched = @ \cup {o}] \in Db
    BY Holds DEF Db, Promo
  <2> QED
    BY <1>1, <1>3, <1>4, <1>22, <2>1 DEF Vouch
<1>23. ASSUME NEW d \in DBs, NEW w \in Workers, RecordStop(d, w) PROVE TypeOK'
  <2>1. ASSUME NEW t \in Times PROVE [db[d] EXCEPT !.promo.stop[w] = t] \in Db
    BY Holds DEF Db, Promo
  <2> QED
    BY <1>1, <1>3, <1>4, <1>23, <2>1 DEF RecordStop
<1>24. ASSUME NEW d \in DBs, NEW s \in Scopes, OpenPermits(d, s) PROVE TypeOK'
  <2>1. [db[d] EXCEPT !.rows = @ \ OldRows(d, s), !.open = @ \cup {s}] \in Db
    <3>1. db[d] \in Db
      BY <1>4
    <3> QED
      BY <3>1 DEF Db
  <2> QED
    BY <1>1, <1>3, <1>4, <1>24, <2>1 DEF OpenPermits
<1>25. CASE Tick
  <2>1. now + 1 \in Times
    BY <1>4, <1>25, TimeAssumption DEF Tick, Times
  <2> QED
    BY <1>3, <1>4, <1>25, <2>1 DEF Tick
<1> QED
  BY <1>5, <1>6, <1>7, <1>8, <1>9, <1>10, <1>11, <1>12, <1>13, <1>15, <1>16, <1>17, <1>18, <1>19,
     <1>20, <1>21, <1>22, <1>23, <1>24, <1>25 DEF Next

-----------------------------------------------------------------------------
(* Steps that promote, seal, restore and discard nothing *)

LEMMA DbIs ==
  ASSUME TypeOK, NEW d \in DBs, NEW v, PutDb(d, v)
  PROVE  db'[d] = v /\ \A e \in DBs \ {d} : db'[e] = db[e]
BY DEF PutDb, TypeOK

LEMMA WorkerIs ==
  ASSUME TypeOK, NEW w \in Workers, NEW v, PutWorker(w, v)
  PROVE  worker'[w] = v /\ \A x \in Workers \ {w} : worker'[x] = worker[x]
BY DEF PutWorker, TypeOK

\* A step after which the same databases have served, and no more are live.
Calm ==
  \A d \in DBs :
    /\ db'[d].made = db[d].made /\ db'[d].gone = db[d].gone /\ db'[d].epoch = db[d].epoch
    /\ db'[d].promo.state = db[d].promo.state /\ db'[d].promo.db = db[d].promo.db
    /\ Live(d)' => Live(d)

LEMMA SitesStay ==
  ASSUME TypeOK, Sites, \A d \in DBs : Issued(d), Calm
  PROVE  /\ Served' = Served /\ Sites'
         /\ \A d \in DBs : Issued(d)' /\ (Recording(d)' <=> Recording(d)) /\ (Promoted(d)' <=> Promoted(d))
<1>1. \A d \in DBs : (Recording(d)' <=> Recording(d)) /\ (Promoted(d)' <=> Promoted(d))
  BY DEF Calm, Recording, Promoted
<1>2. Served' = Served
  BY <1>1 DEF Calm, Served
<1>3. ASSUME NEW d \in DBs PROVE Issued(d)'
  <2>1. db[d].promo.db \in DBs
    BY DEF TypeOK, Db, Promo
  <2> QED
    BY <2>1 DEF Calm, Issued
<1>4. db[First].made'
  BY SiteAssumption DEF Calm, Sites
<1>5. \A d, e \in DBs : Live(d)' /\ Live(e)' => d = e
  BY DEF Calm, Sites
<1>6. Served \subseteq DBs
  BY DEF Served
<1>7. OneEpoch'
  BY <1>2, <1>6 DEF Calm, Sites, OneEpoch
<1>8. \E d \in Served' : \A e \in Served' : db'[e].epoch <= db'[d].epoch
  BY <1>2, <1>6 DEF Calm, Sites
<1>9. \A d, e \in DBs : Recording(d)' /\ Recording(e)' => d = e
  BY <1>1 DEF Sites
<1> QED
  BY <1>1, <1>2, <1>3, <1>4, <1>5, <1>7, <1>8, <1>9 DEF Sites

\* What the databases that wait or serve count on.
Still ==
  /\ Served' = Served
  /\ \A o \in Served : db'[o].epoch = db[o].epoch
  /\ \A o \in DBs : Live(o)' => Live(o)

LEMMA CalmIsStill ==
  ASSUME Calm, Served' = Served
  PROVE  Still /\ \A d \in DBs : db'[d].epoch = db[d].epoch
BY DEF Calm, Still, Served

\* The stop of a worker is not undone.
Stopped(w) ==
  worker[w].state = "stopped" => worker'[w].state = "stopped" /\ worker'[w].stopped = worker[w].stopped

LEMMA WaitsStay ==
  ASSUME TypeOK, Still, NEW d \in DBs, Waits(d), db'[d].epoch = db[d].epoch,
         db'[d].fence = db[d].fence, db'[d].lease = db[d].lease, db'[d].open = db[d].open, db'[d].promo = db[d].promo,
         \A w \in Workers : Stopped(w) /\ (worker[w].state = "off" => worker'[w].state = "off")
  PROVE  Waits(d)'
<1> DEFINE p == db[d].promo
<1>1. d # First /\ (db[d].fence = "sealed")' /\ (db[d].lease = Fresh.lease)' /\ (db[d].open = {})'
  BY DEF Waits, Fresh
<1>2. Served \subseteq DBs
  BY DEF Served
<1>3. (db[d].epoch = db[d].promo.from)' /\ (db[d].promo.old = Served)'
  BY DEF Waits, Still
<1>4. \A o \in Served' : db'[o].epoch <= db'[d].promo.from
  BY <1>2 DEF Waits, Still
<1>5. p.vouched \subseteq DBs
  BY DEF TypeOK, Db, Promo
<1>6. \A o \in p.vouched : ~Live(o)'
  BY <1>5 DEF Waits, Still
<1>7. \A w \in Declared : w \in p.required \/ worker'[w].state = "off"
  BY SiteAssumption DEF Waits
<1>8. \A w \in Workers : Told(db[d].promo, w)'
  BY DEF Waits, Told, Stopped
<1> QED
  BY <1>1, <1>3, <1>4, <1>6, <1>7, <1>8 DEF Waits

LEMMA ServesStay ==
  ASSUME TypeOK, Still, NEW d \in DBs, Serves(d), db'[d].epoch = db[d].epoch, db'[d].promo = db[d].promo,
         \A j \in Jobs : db'[d].lease[j] = db[d].lease[j] \/ (db'[d].lease[j].db = d /\ db'[d].lease[j].epoch = db[d].epoch),
         \A o \in Served : db'[o].wrote = db[o].wrote \/ Live(o),
         Live(d) => \A w \in Declared : \/ worker'[w].call = "none" \/ worker'[w].at = d
                                        \/ /\ worker'[w].call = worker[w].call /\ worker'[w].at = worker[w].at
                                           /\ Stopped(w)
                                           /\ worker[w].call \notin db[d].open => worker[w].call \notin db'[d].open
  PROVE  Serves(d)'
<1> DEFINE p == db[d].promo
<1>1. \A j \in Jobs : db'[d].lease[j] # NoToken => db'[d].lease[j].db = d /\ db'[d].lease[j].epoch = db'[d].epoch
  BY DEF Serves, Still
<1>2. p.old \subseteq DBs
  BY DEF TypeOK, Db, Promo
<1>3. \A o \in p.old : o \in Served' /\ ~Live(o)' /\ db'[o].wrote <= p.window + Skew
  BY <1>2 DEF Serves, Still
<1>4. ASSUME Live(d)', NEW w \in Declared, worker'[w].call # "none", worker'[w].at # d
      PROVE  Left(db[d].promo, w)' /\ worker'[w].call \notin db'[d].open
  <2>1. Live(d)
    BY <1>4 DEF Still
  <2>2. /\ worker'[w].call = worker[w].call /\ worker'[w].at = worker[w].at
        /\ Stopped(w)
        /\ worker[w].call \notin db[d].open => worker[w].call \notin db'[d].open
    BY <1>4, <2>1
  <2>3. Left(p, w) /\ worker[w].call \notin db[d].open
    BY <1>4, <2>1, <2>2 DEF Serves
  <2> QED
    BY <2>2, <2>3 DEF Left, Told, Stopped
<1> QED
  BY <1>1, <1>3, <1>4 DEF Serves

\* Workers run on, are stopped, or start when no database is underway.
Goes(w) ==
  /\ Stopped(w)
  /\ worker[w].state = "up" =>
       worker'[w].state = "up" \/ (worker'[w].state = "stopped" /\ worker'[w].stopped = now)
  /\ worker[w].state = "off" => worker'[w].state = "off" \/ ~Underway

\* What such a step may do beside: leases at a live database, results there,
\* calls that end or that it lets out.
GentleAt(d) ==
  /\ db'[d].promo = db[d].promo
  /\ Recording(d) => db'[d].fence = db[d].fence /\ db'[d].lease = db[d].lease /\ db'[d].open = db[d].open
  /\ \A j \in Jobs :
       db'[d].lease[j] = db[d].lease[j] \/ (db'[d].lease[j].db = d /\ db'[d].lease[j].epoch = db[d].epoch)
  /\ db'[d].wrote = db[d].wrote \/ Live(d)
  /\ Live(d) => \A w \in Declared :
       \/ worker'[w].call = "none" \/ worker'[w].at = d
       \/ /\ worker'[w].call = worker[w].call /\ worker'[w].at = worker[w].at
          /\ worker[w].call \notin db[d].open => worker[w].call \notin db'[d].open

Gentle == Calm /\ (\A d \in DBs : GentleAt(d)) /\ \A w \in Workers : Goes(w)

\* Calls go on where they were.
SameCalls == \A w \in Workers : worker'[w].call = worker[w].call /\ worker'[w].at = worker[w].at

LEMMA SameIsGentle ==
  ASSUME NEW d \in DBs, db'[d] = db[d], SameCalls
  PROVE  GentleAt(d)
BY SiteAssumption DEF GentleAt, SameCalls

LEMMA GentleStep ==
  ASSUME IInv, TypeOK', Gentle, \A d \in DBs : Stores(d)', \A w \in Workers : Runs(w)'
  PROVE  IInv'
<1>1. /\ Served' = Served /\ Sites'
      /\ \A d \in DBs : Issued(d)' /\ (Recording(d)' <=> Recording(d)) /\ (Promoted(d)' <=> Promoted(d))
  BY SitesStay DEF IInv, Gentle
<1>0. Still /\ TypeOK /\ \A d \in DBs : db'[d].epoch = db[d].epoch
  BY <1>1, CalmIsStill DEF Gentle, IInv
<1>2. ASSUME NEW d \in DBs, Recording(d)' PROVE Waits(d)'
  <2>1. Recording(d) /\ Waits(d)
    BY <1>1, <1>2 DEF IInv
  <2>2. Underway
    BY <2>1 DEF Underway, Recording
  <2>3. /\ db'[d].fence = db[d].fence /\ db'[d].lease = db[d].lease /\ db'[d].open = db[d].open
        /\ db'[d].promo = db[d].promo
    BY <2>1 DEF Gentle, GentleAt
  <2>4. \A w \in Workers : Stopped(w) /\ (worker[w].state = "off" => worker'[w].state = "off")
    BY <2>2 DEF Gentle, GentleAt, Goes
  <2> QED
    BY <1>0, <2>1, <2>3, <2>4, WaitsStay
<1>3. ASSUME NEW d \in DBs, db'[d].made, Promoted(d)' PROVE Serves(d)'
  <2>1. Serves(d) /\ TypeOK
    BY <1>1, <1>3 DEF IInv, Gentle, Calm
  <2>2. \A j \in Jobs : db'[d].lease[j] = db[d].lease[j] \/ (db'[d].lease[j].db = d /\ db'[d].lease[j].epoch = db[d].epoch)
    BY DEF Gentle, GentleAt
  <2>3. db'[d].promo = db[d].promo /\ \A o \in Served : db'[o].wrote = db[o].wrote \/ Live(o)
    BY DEF Gentle, GentleAt, Served
  <2>4. Live(d) => \A w \in Declared : \/ worker'[w].call = "none" \/ worker'[w].at = d
                                       \/ /\ worker'[w].call = worker[w].call /\ worker'[w].at = worker[w].at
                                          /\ Stopped(w)
                                          /\ worker[w].call \notin db[d].open => worker[w].call \notin db'[d].open
    BY SiteAssumption DEF Gentle, GentleAt, Goes
  <2> QED
    BY <1>0, <2>1, <2>2, <2>3, <2>4, ServesStay
<1> QED
  BY <1>1, <1>2, <1>3 DEF IInv

LEMMA StoresStay ==
  ASSUME IInv, NEW d \in DBs, \A w \in Workers : Goes(w), now' \in Nat, now' >= now, db'[d].wrote = db[d].wrote
  PROVE  Stores(d)'
<1>1. CASE db[d].wrote = Never
  BY <1>1 DEF Stores
<1>2. CASE db[d].wrote # Never
  <2>1. PICK w \in Declared : \/ worker[w].state = "up"
                              \/ worker[w].state = "stopped" /\ db[d].wrote <= worker[w].stopped
    BY <1>2 DEF IInv, Stores
  <2>2. db[d].wrote <= now /\ db[d].wrote \in Int /\ now \in Nat /\ w \in Workers
    BY <1>2, <2>1, Holds, WorkerType, SiteAssumption DEF IInv, Stores
  <2>3. \/ worker'[w].state = "up"
        \/ worker'[w].state = "stopped" /\ db[d].wrote <= worker'[w].stopped
    BY <2>1, <2>2 DEF Goes, Stopped
  <2> QED
    BY <2>1, <2>2, <2>3 DEF Stores
<1> QED
  BY <1>1, <1>2

\* A running worker's database that takes writes is live.
LEMMA ReachesLive ==
  ASSUME NEW w \in Workers, NEW d \in DBs, Reaches(w, d), Active(d)
  PROVE  Live(d) /\ worker[w].state = "up" /\ d \in Served
BY DEF Reaches, Active, Live

\* What no worker does and does not show at a database leaves it as it is.
SameSite(d) ==
  /\ db'[d].made = db[d].made /\ db'[d].gone = db[d].gone /\ db'[d].reachable = db[d].reachable
  /\ db'[d].epoch = db[d].epoch /\ db'[d].fence = db[d].fence
  /\ db'[d].promo.state = db[d].promo.state /\ db'[d].promo.db = db[d].promo.db

LEMMA SameIsCalm ==
  ASSUME \A d \in DBs : SameSite(d)
  PROVE  Calm
<1>1. \A d \in DBs : (Promoted(d)' <=> Promoted(d)) /\ (Active(d)' <=> Active(d))
  BY DEF SameSite, Promoted, Active
<1>2. Served' = Served
  BY <1>1 DEF SameSite, Served
<1> QED
  BY <1>1, <1>2 DEF Calm, Live, SameSite

\* Nothing waits where a live database is.
LEMMA LiveIsNotWaiting ==
  ASSUME IInv, NEW d \in DBs, Active(d) \/ d \in Served
  PROVE  ~Recording(d)
BY DEF IInv, Waits, Active, Recording, Served, Promoted

-----------------------------------------------------------------------------
(* The workers *)

LEMMA StartStep ==
  ASSUME IInv, NEW w \in Workers, Start(w), TypeOK'
  PROVE  IInv'
<1>1. db' = db /\ now' = now /\ worker[w].state = "off" /\ ~Underway
  BY DEF Start
<1>2. worker'[w] = [Off EXCEPT !.state = "up"] /\ \A x \in Workers \ {w} : worker'[x] = worker[x]
  BY WorkerIs DEF Start, IInv
<1>3. worker'[w].state = "up" /\ worker'[w].call = "none"
  BY <1>2 DEF Off
<1>4. \A x \in Workers : Goes(x)
  BY <1>1, <1>2, <1>3 DEF Goes, Stopped
<1>5. Calm
  BY <1>1, SameIsCalm DEF SameSite
<1>6. Gentle
  BY <1>1, <1>2, <1>3, <1>4, <1>5, SiteAssumption DEF Gentle, GentleAt
<1>7. \A d \in DBs : Stores(d)'
  <2>1. now \in Nat
    BY TimeAssumption DEF IInv, TypeOK, Times
  <2> QED
    BY <1>1, <1>4, <2>1, StoresStay
<1>8. \A x \in Workers : Runs(x)'
  BY <1>1, <1>2, <1>3 DEF IInv, Runs
<1> QED
  BY <1>6, <1>7, <1>8, GentleStep

LEMMA ClaimStep ==
  ASSUME IInv, NEW w \in Workers, NEW d \in DBs, NEW j \in Jobs, Claim(w, d, j), TypeOK'
  PROVE  IInv'
<1> DEFINE t == [by |-> w, db |-> d, epoch |-> db[d].epoch]
<1>1. now' = now /\ Live(d) /\ worker[w].state = "up" /\ Active(d)
  BY ReachesLive DEF Claim
<1>2. db'[d] = [db[d] EXCEPT !.lease[j] = t] /\ \A e \in DBs \ {d} : db'[e] = db[e]
  BY DbIs DEF Claim, IInv
<1>3. worker'[w] = [worker[w] EXCEPT !.token[j] = t] /\ \A x \in Workers \ {w} : worker'[x] = worker[x]
  BY WorkerIs DEF Claim, IInv
<1>4. db[d] \in Db /\ worker[w] \in Worker
  BY DEF IInv, TypeOK
<1>5. /\ db'[d].lease = [db[d].lease EXCEPT ![j] = t]
      /\ db'[d].made = db[d].made /\ db'[d].gone = db[d].gone /\ db'[d].reachable = db[d].reachable
      /\ db'[d].epoch = db[d].epoch /\ db'[d].fence = db[d].fence /\ db'[d].promo = db[d].promo
      /\ db'[d].wrote = db[d].wrote /\ db'[d].open = db[d].open
  BY <1>2, <1>4 DEF Db
<1>6. /\ worker'[w].state = worker[w].state /\ worker'[w].stopped = worker[w].stopped
      /\ worker'[w].call = worker[w].call /\ worker'[w].at = worker[w].at /\ worker'[w].began = worker[w].began
  BY <1>3, <1>4 DEF Worker
<1>7. \A x \in Workers : Goes(x)
  BY <1>1, <1>3, <1>6 DEF Goes, Stopped
<1>8. Calm
  BY <1>2, <1>5, SameIsCalm DEF SameSite
<1>9. \A i \in Jobs : db'[d].lease[i] = db[d].lease[i] \/ (db'[d].lease[i].db = d /\ db'[d].lease[i].epoch = db[d].epoch)
  BY <1>4, <1>5 DEF Db
<1>10. ~Recording(d)
  BY <1>1, LiveIsNotWaiting
<1>11. Gentle
  <2>1. SameCalls
    BY <1>3, <1>6 DEF SameCalls
  <2>2. GentleAt(d)
    BY <1>5, <1>9, <1>10, <2>1, SiteAssumption DEF GentleAt, SameCalls
  <2>3. \A e \in DBs : GentleAt(e)
    BY <1>2, <2>1, <2>2, SameIsGentle
  <2> QED
    BY <1>7, <1>8, <2>3 DEF Gentle
<1>12. \A e \in DBs : Stores(e)'
  <2>1. now' \in Nat /\ now' >= now
    BY <1>1, TimeAssumption DEF IInv, TypeOK, Times
  <2>2. \A e \in DBs : db'[e].wrote = db[e].wrote
    BY <1>2, <1>5
  <2> QED
    BY <1>7, <2>1, <2>2, StoresStay
<1>13. \A x \in Workers : Runs(x)'
  BY <1>1, <1>3, <1>6 DEF IInv, Runs
<1> QED
  BY <1>11, <1>12, <1>13, GentleStep

LEMMA CommitStep ==
  ASSUME IInv, NEW w \in Workers, NEW d \in DBs, NEW j \in Jobs, Commit(w, d, j), TypeOK'
  PROVE  IInv'
<1>1. now' = now /\ worker' = worker /\ Live(d) /\ worker[w].state = "up" /\ Active(d)
  BY ReachesLive DEF Commit, MayCommit
<1>2. /\ db'[d] = IF w \in Declared THEN [db[d] EXCEPT !.wrote = now] ELSE db[d]
      /\ \A e \in DBs \ {d} : db'[e] = db[e]
  BY DbIs DEF Commit, IInv
<1>3. db[d] \in Db /\ now \in Nat
  BY TimeAssumption DEF IInv, TypeOK, Times
<1>4. /\ db'[d].lease = db[d].lease
      /\ db'[d].made = db[d].made /\ db'[d].gone = db[d].gone /\ db'[d].reachable = db[d].reachable
      /\ db'[d].epoch = db[d].epoch /\ db'[d].fence = db[d].fence /\ db'[d].promo = db[d].promo
      /\ db'[d].open = db[d].open
      /\ db'[d].wrote = IF w \in Declared THEN now ELSE db[d].wrote
  <2>1. CASE w \in Declared
    BY <1>2, <1>3, <2>1 DEF Db
  <2>2. CASE w \notin Declared
    BY <1>2, <2>2
  <2> QED
    BY <2>1, <2>2
<1>5. \A x \in Workers : Goes(x)
  BY <1>1 DEF Goes, Stopped
<1>6. Calm
  BY <1>2, <1>4, SameIsCalm DEF SameSite
<1>7. Gentle
  BY <1>1, <1>2, <1>4, <1>5, <1>6, SiteAssumption DEF Gentle, GentleAt
<1>8. ASSUME NEW e \in DBs PROVE Stores(e)'
  <2>1. CASE db'[e].wrote = db[e].wrote
    <3>1. now' \in Nat /\ now' >= now
      BY <1>1, <1>3
    <3> QED
      BY <1>5, <2>1, <3>1, StoresStay
  <2>2. CASE e = d /\ w \in Declared
    BY <1>1, <1>3, <1>4, <2>2 DEF Stores
  <2> QED
    BY <1>2, <1>4, <2>1, <2>2
<1>9. \A x \in Workers : Runs(x)'
  BY <1>1 DEF IInv, Runs
<1> QED
  BY <1>7, <1>8, <1>9, GentleStep

LEMMA StartCallStep ==
  ASSUME IInv, NEW w \in Workers, NEW d \in DBs, StartCall(w, d), TypeOK'
  PROVE  IInv'
<1>1. PICK s \in db[d].open :
        /\ PutDb(d, [db[d] EXCEPT !.rows = @ \cup {<<w, s>>}])
        /\ PutWorker(w, [worker[w] EXCEPT !.call = s, !.at = d, !.began = now])
  BY DEF StartCall
<1>2. now' = now /\ Live(d) /\ worker[w].state = "up" /\ Active(d)
  BY ReachesLive DEF StartCall
<1>3. db'[d] = [db[d] EXCEPT !.rows = @ \cup {<<w, s>>}] /\ \A e \in DBs \ {d} : db'[e] = db[e]
  BY <1>1, DbIs DEF IInv
<1>4. /\ worker'[w] = [worker[w] EXCEPT !.call = s, !.at = d, !.began = now]
      /\ \A x \in Workers \ {w} : worker'[x] = worker[x]
  BY <1>1, WorkerIs DEF IInv
<1>5. db[d] \in Db /\ worker[w] \in Worker
  BY DEF IInv, TypeOK
<1>6. /\ db'[d].lease = db[d].lease /\ db'[d].wrote = db[d].wrote /\ db'[d].open = db[d].open
      /\ db'[d].made = db[d].made /\ db'[d].gone = db[d].gone /\ db'[d].reachable = db[d].reachable
      /\ db'[d].epoch = db[d].epoch /\ db'[d].fence = db[d].fence /\ db'[d].promo = db[d].promo
  BY <1>3, <1>5 DEF Db
<1>7. /\ worker'[w].state = "up" /\ worker'[w].stopped = worker[w].stopped
      /\ worker'[w].call = s /\ worker'[w].at = d /\ worker'[w].began = now
  BY <1>2, <1>4, <1>5 DEF Worker
<1>8. \A x \in Workers : Goes(x)
  BY <1>2, <1>4, <1>7 DEF Goes, Stopped
<1>9. Calm
  BY <1>3, <1>6, SameIsCalm DEF SameSite
<1>10. ASSUME NEW e \in DBs PROVE GentleAt(e)
  <2>1. /\ db'[e].lease = db[e].lease /\ db'[e].wrote = db[e].wrote /\ db'[e].open = db[e].open
        /\ db'[e].fence = db[e].fence /\ db'[e].promo = db[e].promo
    BY <1>3, <1>6
  <2>2. Live(e) => e = d
    BY <1>2 DEF IInv, Sites
  <2>3. Live(e) => worker'[w].at = e
    BY <1>7, <2>2
  <2> QED
    BY <1>4, <2>1, <2>3, SiteAssumption DEF GentleAt
<1>11. \A e \in DBs : Stores(e)'
  <2>1. now' \in Nat /\ now' >= now
    BY <1>2, TimeAssumption DEF IInv, TypeOK, Times
  <2>2. \A e \in DBs : db'[e].wrote = db[e].wrote
    BY <1>3, <1>6
  <2> QED
    BY <1>8, <2>1, <2>2, StoresStay
<1>12. ASSUME NEW x \in Workers PROVE Runs(x)'
  <2>1. CASE x = w
    <3>1. now < now + Deadline /\ now <= now
      BY TimeAssumption DEF IInv, TypeOK, Times
    <3> QED
      BY <1>2, <1>7, <2>1, <3>1 DEF Runs
  <2>2. CASE x # w
    BY <1>2, <1>4, <2>2 DEF IInv, Runs
  <2> QED
    BY <2>1, <2>2
<1> QED
  BY <1>8, <1>9, <1>10, <1>11, <1>12, GentleStep DEF Gentle

LEMMA CallEndsStep ==
  ASSUME IInv, NEW w \in Workers, CallEnds(w), TypeOK'
  PROVE  IInv'
<1>1. worker'[w] = NoCall(w) /\ \A x \in Workers \ {w} : worker'[x] = worker[x]
  BY WorkerIs DEF CallEnds, IInv
<1>2. worker[w] \in Worker /\ now' = now
  BY DEF IInv, TypeOK, CallEnds
<1>3. worker'[w].state = worker[w].state /\ worker'[w].stopped = worker[w].stopped /\ worker'[w].call = "none"
  BY <1>1, <1>2 DEF Worker, NoCall
<1>4. ASSUME NEW d \in DBs
      PROVE  /\ SameSite(d) /\ db'[d].lease = db[d].lease /\ db'[d].wrote = db[d].wrote /\ db'[d].open = db[d].open
             /\ db'[d].promo = db[d].promo /\ db'[d].fence = db[d].fence
  <2>1. CASE db' = db
    BY <2>1 DEF SameSite
  <2>2. ASSUME NEW e \in DBs, PutDb(e, [db[e] EXCEPT !.rows = @ \ {<<w, worker[w].call>>}])
        PROVE  /\ SameSite(d) /\ db'[d].lease = db[d].lease /\ db'[d].wrote = db[d].wrote /\ db'[d].open = db[d].open
               /\ db'[d].promo = db[d].promo /\ db'[d].fence = db[d].fence
    <3>1. db'[e] = [db[e] EXCEPT !.rows = @ \ {<<w, worker[w].call>>}] /\ \A f \in DBs \ {e} : db'[f] = db[f]
      BY <2>2, DbIs DEF IInv
    <3>2. db[e] \in Db
      BY DEF IInv, TypeOK
    <3>3. CASE d # e
      BY <3>1, <3>3 DEF SameSite
    <3>4. CASE d = e
      BY <3>1, <3>2, <3>4 DEF SameSite, Db
    <3> QED
      BY <3>3, <3>4
  <2> QED
    BY <2>1, <2>2 DEF CallEnds
<1>5. Calm
  BY <1>4, SameIsCalm
<1>6. \A x \in Workers : Goes(x)
  BY <1>1, <1>3 DEF Goes, Stopped
<1>7. \A d \in DBs : GentleAt(d)
  BY <1>1, <1>3, <1>4, SiteAssumption DEF GentleAt
<1>8. \A d \in DBs : Stores(d)'
  <2>1. now' \in Nat /\ now' >= now
    BY <1>2, TimeAssumption DEF IInv, TypeOK, Times
  <2> QED
    BY <1>4, <1>6, <2>1, StoresStay
<1>9. \A x \in Workers : Runs(x)'
  <2>1. Runs(w)'
    BY <1>2, <1>3 DEF IInv, Runs
  <2> QED
    BY <1>1, <1>2, <2>1 DEF IInv, Runs
<1> QED
  BY <1>5, <1>6, <1>7, <1>8, <1>9, GentleStep DEF Gentle

LEMMA StopWorkerStep ==
  ASSUME IInv, NEW w \in Workers, StopWorker(w), TypeOK'
  PROVE  IInv'
<1> DEFINE x == IF worker[w].call = "http" THEN NoCall(w) ELSE worker[w]
<1>1. /\ worker'[w] = [x EXCEPT !.state = "stopped", !.stopped = now, !.token = Off.token]
      /\ \A y \in Workers \ {w} : worker'[y] = worker[y]
  BY WorkerIs DEF StopWorker, IInv
<1>2. x \in Worker /\ db' = db /\ now' = now /\ worker[w].state = "up" /\ worker[w] \in Worker
  BY WorkerType DEF IInv, StopWorker
<1>3. /\ worker'[w].state = "stopped" /\ worker'[w].stopped = now
      /\ worker'[w].call = x.call /\ worker'[w].at = x.at /\ worker'[w].began = x.began
  <2> HIDE DEF x
  <2> QED
    BY <1>1, <1>2 DEF Worker
<1>4. \/ worker'[w].call = "none"
      \/ /\ worker[w].call # "http" /\ worker'[w].call = worker[w].call
         /\ worker'[w].at = worker[w].at /\ worker'[w].began = worker[w].began
  BY <1>2, <1>3 DEF NoCall, Worker
<1>5. Calm
  BY <1>2, SameIsCalm DEF SameSite
<1>6. \A y \in Workers : Goes(y)
  BY <1>1, <1>2, <1>3 DEF Goes, Stopped
<1>7. \A d \in DBs : GentleAt(d)
  BY <1>1, <1>2, <1>4, SiteAssumption DEF GentleAt
<1>8. \A d \in DBs : Stores(d)'
  <2>1. now' \in Nat /\ now' >= now
    BY <1>2, TimeAssumption DEF IInv, TypeOK, Times
  <2> QED
    BY <1>2, <1>6, <2>1, StoresStay
<1>9. ASSUME NEW y \in Workers PROVE Runs(y)'
  <2>1. CASE y = w
    <3>1. now <= now /\ "http" # "none" /\ now \in Nat
      BY TimeAssumption DEF IInv, TypeOK, Times
    <3>2. Runs(w)
      BY DEF IInv
    <3> QED
      BY <1>2, <1>3, <1>4, <2>1, <3>1, <3>2 DEF Runs
  <2>2. CASE y # w
    BY <1>1, <1>2, <2>2 DEF IInv, Runs
  <2> QED
    BY <2>1, <2>2
<1> QED
  BY <1>5, <1>6, <1>7, <1>8, <1>9, GentleStep DEF Gentle

LEMMA TickStep ==
  ASSUME IInv, Tick, TypeOK'
  PROVE  IInv'
<1>1. db' = db /\ worker' = worker /\ now' = now + 1 /\ now \in Nat
  BY TimeAssumption DEF IInv, TypeOK, Times, Tick
<1>2. Calm /\ (\A w \in Workers : Goes(w)) /\ \A d \in DBs : GentleAt(d)
  BY <1>1, SameIsCalm, SiteAssumption DEF SameSite, Goes, Stopped, GentleAt
<1>3. \A d \in DBs : Stores(d)'
  BY <1>1, <1>2, StoresStay
<1>4. ASSUME NEW w \in Workers PROVE Runs(w)'
  <2>1. Runs(w) /\ worker[w].stopped \in Nat /\ worker[w].began \in Nat
    BY WorkerType DEF IInv
  <2>2. worker[w].call = "model" => now + 1 < worker[w].began + Deadline
    BY DEF Tick
  <2> QED
    BY <1>1, <2>1, <2>2 DEF Runs
<1> QED
  BY <1>2, <1>3, <1>4, GentleStep DEF Gentle

-----------------------------------------------------------------------------
(* The databases *)

\* A step of a database that ends no lease and no call and stores nothing.
DbStep(d) ==
  /\ worker' = worker /\ now' = now
  /\ \A e \in DBs \ {d} : db'[e] = db[e]
  /\ db'[d].lease = db[d].lease /\ db'[d].wrote = db[d].wrote

LEMMA DbStepGoes ==
  ASSUME IInv, NEW d \in DBs, DbStep(d)
  PROVE  /\ \A w \in Workers : Goes(w) /\ Runs(w)'
         /\ \A e \in DBs : Stores(e)'
<1>1. \A w \in Workers : Goes(w)
  BY DEF DbStep, Goes, Stopped
<1>2. \A w \in Workers : Runs(w)'
  BY DEF DbStep, IInv, Runs
<1>3. \A e \in DBs : db'[e].wrote = db[e].wrote
  BY DEF DbStep
<1>4. now' \in Nat /\ now' >= now
  BY TimeAssumption DEF IInv, TypeOK, Times, DbStep
<1> QED
  BY <1>1, <1>2, <1>3, <1>4, StoresStay

LEMMA DbGentleStep ==
  ASSUME IInv, NEW d \in DBs, DbStep(d), Calm, GentleAt(d), TypeOK'
  PROVE  IInv'
<1>1. SameCalls
  BY DEF DbStep, SameCalls
<1>2. \A e \in DBs : GentleAt(e)
  BY <1>1, SameIsGentle DEF DbStep
<1> QED
  BY <1>2, DbStepGoes, GentleStep DEF Gentle

\* A database that has served is fenced, cut off or comes back fenced.
LEMMA FencedStep ==
  ASSUME IInv, NEW d \in DBs, NEW v \in Db, PutDb(d, v), worker' = worker, now' = now, ~Recording(d),
         v.made = db[d].made, v.gone = db[d].gone, v.epoch = db[d].epoch, v.promo = db[d].promo,
         v.lease = db[d].lease, v.wrote = db[d].wrote, v.open = db[d].open,
         v.fence = "active" /\ v.reachable => Active(d) /\ db[d].reachable, TypeOK'
  PROVE  IInv'
<1>1. db'[d] = v /\ \A e \in DBs \ {d} : db'[e] = db[e]
  BY DbIs DEF IInv
<1>2. DbStep(d)
  BY <1>1 DEF DbStep
<1>3. \A e \in DBs : (Promoted(e)' <=> Promoted(e))
  BY <1>1 DEF Promoted
<1>4. Served' = Served
  BY <1>1, <1>3 DEF Served
<1>5. \A e \in DBs : Live(e)' => Live(e)
  BY <1>1, <1>4 DEF Live, Active
<1>6. Calm
  BY <1>1, <1>5 DEF Calm
<1>7. GentleAt(d)
  BY <1>1, SiteAssumption DEF GentleAt
<1> QED
  BY <1>2, <1>6, <1>7, DbGentleStep

LEMMA OldSiteStep ==
  ASSUME IInv, NEW d \in DBs, FenceOld(d) \/ Isolate(d) \/ Rejoin(d), TypeOK'
  PROVE  IInv'
<1>1. db[d] \in Db /\ worker' = worker /\ now' = now
  BY DEF IInv, TypeOK, FenceOld, Isolate, Rejoin
<1>2. ~Recording(d)
  BY LiveIsNotWaiting DEF FenceOld, Isolate, Rejoin
<1>3. Fenced(d) \in Db
  BY <1>1 DEF Db, Fenced
<1>4. /\ Fenced(d).made = db[d].made /\ Fenced(d).gone = db[d].gone /\ Fenced(d).epoch = db[d].epoch
      /\ Fenced(d).promo = db[d].promo /\ Fenced(d).lease = db[d].lease /\ Fenced(d).wrote = db[d].wrote
      /\ Fenced(d).open = db[d].open /\ Fenced(d).fence = "operator"
  BY <1>1 DEF Db, Fenced
<1>5. CASE FenceOld(d)
  BY <1>1, <1>2, <1>3, <1>4, <1>5, FencedStep DEF FenceOld
<1>6. CASE Isolate(d)
  <2> DEFINE v == [db[d] EXCEPT !.reachable = FALSE]
  <2>1. v \in Db /\ PutDb(d, v)
    BY <1>1, <1>6 DEF Db, Isolate
  <2>2. /\ v.made = db[d].made /\ v.gone = db[d].gone /\ v.epoch = db[d].epoch /\ v.promo = db[d].promo
        /\ v.lease = db[d].lease /\ v.wrote = db[d].wrote /\ v.open = db[d].open
        /\ (v.fence = "active" /\ v.reachable => Active(d) /\ db[d].reachable)
    BY <1>1 DEF Db
  <2> HIDE DEF v
  <2> QED
    BY <1>1, <1>2, <2>1, <2>2, FencedStep
<1>7. CASE Rejoin(d)
  <2> DEFINE u == IF Active(d) THEN Fenced(d) ELSE db[d]
             v == [u EXCEPT !.reachable = TRUE]
  <2>1. /\ u \in Db
        /\ u.made = db[d].made /\ u.gone = db[d].gone /\ u.epoch = db[d].epoch /\ u.promo = db[d].promo
        /\ u.lease = db[d].lease /\ u.wrote = db[d].wrote /\ u.open = db[d].open
        /\ u.fence # "active"
    BY <1>1, <1>3, <1>4 DEF Active
  <2>2. PutDb(d, v)
    BY <1>7 DEF Rejoin
  <2> HIDE DEF u
  <2>3. /\ v \in Db
        /\ v.made = u.made /\ v.gone = u.gone /\ v.epoch = u.epoch /\ v.promo = u.promo
        /\ v.lease = u.lease /\ v.wrote = u.wrote /\ v.open = u.open /\ v.fence = u.fence
    BY <2>1 DEF Db
  <2> HIDE DEF v
  <2>4. /\ v.made = db[d].made /\ v.gone = db[d].gone /\ v.epoch = db[d].epoch /\ v.promo = db[d].promo
        /\ v.lease = db[d].lease /\ v.wrote = db[d].wrote /\ v.open = db[d].open
        /\ (v.fence = "active" /\ v.reachable => Active(d) /\ db[d].reachable)
    BY <2>1, <2>3
  <2> QED
    BY <1>1, <1>2, <2>2, <2>3, <2>4, FencedStep
<1> QED
  BY <1>5, <1>6, <1>7

\* What is left of the rows does not matter here.
LEMMA RowsStep ==
  ASSUME IInv, NEW d \in DBs, NEW v \in Db, PutDb(d, v), worker' = worker, now' = now, TypeOK',
         v.made = db[d].made, v.gone = db[d].gone, v.reachable = db[d].reachable, v.epoch = db[d].epoch,
         v.promo = db[d].promo, v.fence = db[d].fence, v.lease = db[d].lease, v.wrote = db[d].wrote,
         ~Recording(d),
         Live(d) => \A w \in Declared : \/ worker[w].call = "none" \/ worker[w].at = d
                                        \/ worker[w].call \notin db[d].open => worker[w].call \notin v.open
  PROVE  IInv'
<1>1. db'[d] = v /\ \A e \in DBs \ {d} : db'[e] = db[e]
  BY DbIs DEF IInv
<1>2. DbStep(d)
  BY <1>1 DEF DbStep
<1>3. Calm
  BY <1>1, SameIsCalm DEF SameSite
<1>4. GentleAt(d)
  BY <1>1, SiteAssumption DEF GentleAt
<1> QED
  BY <1>2, <1>3, <1>4, DbGentleStep

LEMMA ReleaseStep ==
  ASSUME IInv, NEW d \in DBs, ReleaseDrained(d), TypeOK'
  PROVE  IInv'
<1> DEFINE v == [db[d] EXCEPT !.rows = @ \ OldRows(d, "model")]
<1>1. db[d] \in Db /\ worker' = worker /\ now' = now /\ PutDb(d, v) /\ Active(d)
  BY DEF IInv, TypeOK, ReleaseDrained, PromotedHere
<1>2. /\ v \in Db
      /\ v.made = db[d].made /\ v.gone = db[d].gone /\ v.reachable = db[d].reachable /\ v.epoch = db[d].epoch
      /\ v.promo = db[d].promo /\ v.fence = db[d].fence /\ v.lease = db[d].lease /\ v.wrote = db[d].wrote
      /\ v.open = db[d].open
  BY <1>1 DEF Db
<1>3. ~Recording(d)
  BY <1>1, LiveIsNotWaiting
<1> HIDE DEF v
<1> QED
  BY <1>1, <1>2, <1>3, RowsStep

\* A set of naturals has a least member.
LEMMA Least ==
  ASSUME NEW S \in SUBSET Nat, S # {}
  PROVE  \E x \in S : \A y \in S : x <= y
<1>1. PICK x \in S : \A y \in S : ~ (<<y, x>> \in OpToRel(<, Nat))
  BY NatLessThanWellFounded, WFMin
<1>2. ASSUME NEW y \in S PROVE x <= y
  <2>1. <<y, x>> \in OpToRel(<, Nat) <=> y < x
    BY DEF OpToRel
  <2>2. ~(y < x)
    BY <1>1, <2>1
  <2> QED
    BY <2>2
<1> QED
  BY <1>2

\* A bounded one has a greatest member, which Max finds.
LEMMA Greatest ==
  ASSUME NEW S, NEW n \in Nat, S \subseteq 0..n, S # {}
  PROVE  Max(S) \in S /\ \A y \in S : Max(S) >= y
<1> DEFINE T == {n - y : y \in S}
<1>1. T \in SUBSET Nat
  <2>1. \A y \in S : n - y \in Nat
    OBVIOUS
  <2> QED
    BY <2>1
<1>2. T # {}
  OBVIOUS
<1>3. \E m \in T : \A y \in T : m <= y
  BY <1>1, <1>2, Least
<1>4. PICK x \in S : \A y \in S : n - x <= n - y
  BY <1>3
<1>5. \A y \in S : x >= y
  BY <1>4
<1> QED
  BY <1>5 DEF Max

\* The last recorded stop is the last.
LEMMA LastStopIs ==
  ASSUME TypeOK, NEW d \in DBs, StopsProven(db[d].promo)
  PROVE  /\ LastStop(db[d].promo) \in Nat
         /\ \A w \in db[d].promo.required : db[d].promo.stop[w] \in Nat /\ db[d].promo.stop[w] <= LastStop(db[d].promo)
<1> DEFINE p == db[d].promo
           S == {p.stop[w] : w \in p.required}
<1>1. p \in Promo
  BY Holds
<1>2. p.required \subseteq Workers /\ \A w \in Workers : p.stop[w] \in Times \cup {Never}
  BY <1>1 DEF Promo
<1>3. \A w \in p.required : p.stop[w] \in 0..MaxTime
  BY <1>2 DEF StopsProven, Times
<1>4. S \subseteq 0..MaxTime /\ S # {} /\ MaxTime \in Nat
  BY <1>3, TimeAssumption DEF StopsProven
<1>5. Max(S) \in S /\ \A y \in S : Max(S) >= y
  BY <1>4, Greatest
<1>6. Max(S) \in Nat
  BY <1>4, <1>5
<1> QED
  BY <1>3, <1>4, <1>5, <1>6 DEF LastStop

\* A call that was left behind is over when its scope is drained.
LEMMA DrainedIsOver ==
  ASSUME IInv, NEW d \in DBs, NEW w \in Declared, Left(db[d].promo, w), NEW s \in Scopes, Drained(db[d].promo, s)
  PROVE  worker[w].call # s
<1> DEFINE p == db[d].promo
<1>1. SUFFICES ASSUME worker[w].call = s PROVE FALSE
  OBVIOUS
<1>2. w \in Workers /\ TypeOK /\ Runs(w) /\ s \in {"http", "model"}
  BY SiteAssumption DEF IInv
<1>3. s = "model" /\ s # "none"
  BY <1>1, <1>2 DEF Runs, Left
<1>4. now < worker[w].began + Deadline /\ worker[w].began <= worker[w].stopped
  BY <1>1, <1>2, <1>3 DEF Runs, Left
<1>5. LastStop(p) \in Nat /\ p.stop[w] \in Nat /\ p.stop[w] <= LastStop(p)
  BY <1>2, LastStopIs DEF Drained, Left
<1>6. worker[w].stopped <= p.stop[w] + Skew
  BY DEF Left, Told
<1>7. now >= LastStop(p) + Deadline + Skew
  BY <1>3 DEF Drained, NotBeforeSkewed, NotBefore
<1>8. worker[w].began \in Nat /\ worker[w].stopped \in Nat /\ now \in Nat /\ Deadline \in Nat /\ Skew \in Nat
  BY <1>2, WorkerType, TimeAssumption
<1> HIDE DEF p
<1> QED
  BY <1>4, <1>5, <1>6, <1>7, <1>8

LEMMA OpenPermitsStep ==
  ASSUME IInv, NEW d \in DBs, NEW s \in Scopes, OpenPermits(d, s), TypeOK'
  PROVE  IInv'
<1> DEFINE v == [db[d] EXCEPT !.rows = @ \ OldRows(d, s), !.open = @ \cup {s}]
<1>1. /\ db[d] \in Db /\ worker' = worker /\ now' = now /\ PutDb(d, v) /\ PromotedHere(d)
      /\ Drained(db[d].promo, s)
  BY DEF IInv, TypeOK, OpenPermits
<1>2. /\ v \in Db
      /\ v.made = db[d].made /\ v.gone = db[d].gone /\ v.reachable = db[d].reachable /\ v.epoch = db[d].epoch
      /\ v.promo = db[d].promo /\ v.fence = db[d].fence /\ v.lease = db[d].lease /\ v.wrote = db[d].wrote
      /\ v.open = db[d].open \cup {s}
  BY <1>1 DEF Db
<1>3. ~Recording(d)
  BY <1>1, LiveIsNotWaiting DEF PromotedHere
<1>4. ASSUME Live(d), NEW w \in Declared, worker[w].call # "none", worker[w].at # d PROVE worker[w].call # s
  <2>1. Serves(d)
    BY <1>1 DEF IInv, PromotedHere
  <2>2. Left(db[d].promo, w)
    BY <1>4, <2>1 DEF Serves
  <2> QED
    BY <1>1, <2>2, DrainedIsOver
<1> HIDE DEF v
<1>5. Live(d) => \A w \in Declared : \/ worker[w].call = "none" \/ worker[w].at = d
                                     \/ worker[w].call \notin db[d].open => worker[w].call \notin v.open
  BY <1>2, <1>4
<1> QED
  BY <1>1, <1>2, <1>3, <1>5, RowsStep

-----------------------------------------------------------------------------
(* The evidence *)

\* One record of the database underway.
LEMMA RecordStep ==
  ASSUME IInv, NEW d \in DBs, NEW q \in Promo, PutDb(d, [db[d] EXCEPT !.promo = q]),
         worker' = worker, now' = now, TypeOK', Recording(d),
         q.state = "sealed", q.db = d, q.from = db[d].promo.from, q.old = db[d].promo.old, q.required = db[d].promo.required,
         \A o \in q.vouched : ~Live(o),
         \A w \in Workers : Told(q, w)
  PROVE  IInv'
<1>1. db'[d] = [db[d] EXCEPT !.promo = q] /\ \A e \in DBs \ {d} : db'[e] = db[e]
  BY DbIs DEF IInv
<1>2. db[d] \in Db
  BY DEF IInv, TypeOK
<1>3. /\ db'[d].made = db[d].made /\ db'[d].gone = db[d].gone /\ db'[d].reachable = db[d].reachable
      /\ db'[d].epoch = db[d].epoch /\ db'[d].fence = db[d].fence /\ db'[d].promo = q
      /\ db'[d].lease = db[d].lease /\ db'[d].open = db[d].open /\ db'[d].wrote = db[d].wrote
  BY <1>1, <1>2 DEF Db
<1>4. Calm
  <2>1. SameSite(d)
    BY <1>3 DEF SameSite, Recording
  <2>2. \A e \in DBs \ {d} : SameSite(e)
    BY <1>1 DEF SameSite
  <2> QED
    BY <2>1, <2>2, SameIsCalm
<1>5. /\ Served' = Served /\ Sites'
      /\ \A e \in DBs : Issued(e)' /\ (Recording(e)' <=> Recording(e)) /\ (Promoted(e)' <=> Promoted(e))
  BY <1>4, SitesStay DEF IInv
<1>6. DbStep(d)
  BY <1>1, <1>3 DEF DbStep
<1>7. (\A w \in Workers : Goes(w) /\ Runs(w)') /\ \A e \in DBs : Stores(e)'
  BY <1>6, DbStepGoes
<1>8. Waits(d)'
  <2>1. Waits(d)
    BY DEF IInv
  <2>2. d # First /\ (db[d].fence = "sealed")' /\ (db[d].lease = Fresh.lease)' /\ (db[d].open = {})'
    BY <1>3, <2>1 DEF Waits, Fresh
  <2>3. (db[d].epoch = db[d].promo.from)' /\ (db[d].promo.old = Served)'
    BY <1>3, <1>5, <2>1 DEF Waits
  <2>4. \A o \in Served' : db'[o].epoch <= db'[d].promo.from
    <3>1. Served \subseteq DBs /\ \A o \in DBs : db'[o].epoch = db[o].epoch
      BY <1>4 DEF Served, Calm
    <3>2. \A o \in Served : db[o].epoch <= q.from
      BY <2>1 DEF Waits
    <3> QED
      BY <1>3, <1>5, <3>1, <3>2
  <2>5. \A o \in q.vouched : ~Live(o)'
    BY <1>4 DEF Calm, Promo
  <2>6. \A w \in Declared : w \in q.required \/ worker'[w].state = "off"
    BY <2>1 DEF Waits
  <2>7. \A w \in Workers : Told(db[d].promo, w)'
    BY <1>3 DEF Told
  <2> QED
    BY <1>3, <2>2, <2>3, <2>4, <2>5, <2>6, <2>7 DEF Waits
<1>9. ASSUME NEW e \in DBs, Recording(e)' PROVE Waits(e)'
  BY <1>5, <1>8, <1>9 DEF IInv, Sites
<1>10. ASSUME NEW e \in DBs, db'[e].made, Promoted(e)' PROVE Serves(e)'
  <2>1. e # d
    BY <1>3, <1>10 DEF Promoted
  <2>2. Serves(e) /\ db'[e] = db[e] /\ TypeOK
    BY <1>1, <1>5, <1>10, <2>1 DEF IInv
  <2>3. Still /\ db'[e].epoch = db[e].epoch /\ \A o \in Served : db'[o].wrote = db[o].wrote
    BY <1>1, <1>3, <1>4, <1>5, CalmIsStill DEF Served
  <2>4. \A w \in Declared : worker'[w] = worker[w] /\ Stopped(w)
    BY DEF Stopped
  <2>5. \A j \in Jobs : db'[e].lease[j] = db[e].lease[j]
    BY <2>2
  <2> QED
    BY <2>2, <2>3, <2>4, <2>5, ServesStay
<1> QED
  BY <1>5, <1>7, <1>9, <1>10 DEF IInv

LEMMA VouchStep ==
  ASSUME IInv, NEW d \in DBs, NEW o \in DBs, Vouch(d, o), TypeOK'
  PROVE  IInv'
<1> DEFINE q == [db[d].promo EXCEPT !.vouched = @ \cup {o}]
<1>1. db[d] \in Db /\ db[d].promo \in Promo /\ Recording(d) /\ Waits(d)
  BY Holds DEF IInv, Vouch
<1>2. /\ q \in Promo /\ q.state = "sealed" /\ q.db = d /\ q.from = db[d].promo.from /\ q.old = db[d].promo.old
      /\ q.required = db[d].promo.required /\ q.stop = db[d].promo.stop /\ q.vouched = db[d].promo.vouched \cup {o}
  BY <1>1 DEF Promo, Recording
<1>3. PutDb(d, [db[d] EXCEPT !.promo = q]) /\ worker' = worker /\ now' = now
  BY DEF Vouch
<1>4. ~Live(o)
  BY DEF Vouch, Live, Active
<1> HIDE DEF q
<1>5. \A x \in q.vouched : ~Live(x)
  BY <1>1, <1>2, <1>4 DEF Waits
<1>6. \A w \in Workers : Told(q, w)
  BY <1>1, <1>2 DEF Waits, Told
<1> QED
  BY <1>1, <1>2, <1>3, <1>5, <1>6, RecordStep

LEMMA RecordStopStep ==
  ASSUME IInv, NEW d \in DBs, NEW w \in Workers, RecordStop(d, w), TypeOK'
  PROVE  IInv'
<1>1. PICK t \in Times : t - worker[w].stopped \in -Skew..Skew /\ PutDb(d, [db[d] EXCEPT !.promo.stop[w] = t])
  BY DEF RecordStop
<1> DEFINE q == [db[d].promo EXCEPT !.stop[w] = t]
<1>2. db[d] \in Db /\ db[d].promo \in Promo /\ Recording(d) /\ Waits(d)
  BY Holds DEF IInv, RecordStop
<1>3. /\ q \in Promo /\ q.state = "sealed" /\ q.db = d /\ q.from = db[d].promo.from /\ q.old = db[d].promo.old
      /\ q.required = db[d].promo.required /\ q.stop = [db[d].promo.stop EXCEPT ![w] = t]
      /\ q.vouched = db[d].promo.vouched
  BY <1>2 DEF Promo, Recording
<1>4. PutDb(d, [db[d] EXCEPT !.promo = q]) /\ worker' = worker /\ now' = now
  BY <1>1 DEF RecordStop
<1>5. worker[w].state = "stopped" /\ worker[w].stopped <= t + Skew
  <2>1. worker[w].stopped \in Nat /\ t \in Nat /\ Skew \in Nat
    BY WorkerType, TimeAssumption DEF IInv, Times
  <2> QED
    BY <1>1, <2>1 DEF RecordStop
<1> HIDE DEF q
<1>6. \A x \in q.vouched : ~Live(x)
  BY <1>2, <1>3 DEF Waits
<1>7. ASSUME NEW x \in Workers PROVE Told(q, x)
  <2>1. CASE x = w
    BY <1>2, <1>3, <1>5, <2>1 DEF Told, Promo
  <2>2. CASE x # w
    BY <1>2, <1>3, <2>2 DEF Told, Promo, Waits
  <2> QED
    BY <2>1, <2>2
<1> QED
  BY <1>2, <1>3, <1>4, <1>6, <1>7, RecordStep

LEMMA RecordReviewStep ==
  ASSUME IInv, NEW d \in DBs, RecordReview(d), TypeOK'
  PROVE  IInv'
<1>1. PICK t \in 0..now : PutDb(d, [db[d] EXCEPT !.promo.window = t])
  BY DEF RecordReview
<1> DEFINE q == [db[d].promo EXCEPT !.window = t]
<1>2. db[d] \in Db /\ db[d].promo \in Promo /\ Recording(d) /\ Waits(d)
  BY Holds DEF IInv, RecordReview
<1>3. t \in Times
  BY TimeAssumption DEF IInv, TypeOK, Times
<1>4. /\ q \in Promo /\ q.state = "sealed" /\ q.db = d /\ q.from = db[d].promo.from /\ q.old = db[d].promo.old
      /\ q.required = db[d].promo.required /\ q.stop = db[d].promo.stop /\ q.vouched = db[d].promo.vouched
  BY <1>2, <1>3 DEF Promo, Recording
<1>5. PutDb(d, [db[d] EXCEPT !.promo = q]) /\ worker' = worker /\ now' = now
  BY <1>1 DEF RecordReview
<1> HIDE DEF q
<1>6. \A x \in q.vouched : ~Live(x)
  BY <1>2, <1>4 DEF Waits
<1>7. \A w \in Workers : Told(q, w)
  BY <1>2, <1>4 DEF Told, Waits
<1> QED
  BY <1>2, <1>4, <1>5, <1>6, <1>7, RecordStep

-----------------------------------------------------------------------------
(* Restore, seal, discard *)

\* A step of a database that has not served and does not by it.
Aside(d) ==
  /\ worker' = worker /\ now' = now
  /\ \A e \in DBs \ {d} : db'[e] = db[e]
  /\ d # First /\ d \notin Served /\ ~Promoted(d)'

LEMMA AsideIsStill ==
  ASSUME NEW d \in DBs, Aside(d)
  PROVE  Still
<1>1. \A e \in DBs \ {d} : (Promoted(e)' <=> Promoted(e)) /\ (Active(e)' <=> Active(e))
  BY DEF Aside, Promoted, Active
<1>2. d \notin Served'
  BY DEF Aside, Served
<1>3. Served' = Served
  BY <1>1, <1>2 DEF Aside, Served
<1>4. Served \subseteq DBs \ {d}
  BY DEF Aside, Served
<1>5. \A o \in Served : db'[o].epoch = db[o].epoch
  BY <1>4 DEF Aside
<1>6. ASSUME NEW o \in DBs, Live(o)' PROVE Live(o)
  <2>1. o \in Served /\ o # d
    BY <1>3, <1>4, <1>6 DEF Live
  <2>2. db'[o] = db[o] /\ Active(o)
    BY <1>1, <1>6, <2>1 DEF Live, Aside
  <2> QED
    BY <1>6, <2>1, <2>2 DEF Live
<1> QED
  BY <1>3, <1>5, <1>6 DEF Still

LEMMA AsideStep ==
  ASSUME IInv, NEW d \in DBs, Aside(d), TypeOK', (db[d].made \/ db[d].gone)', Issued(d)', Stores(d)',
         Recording(d)' => Waits(d)' /\ ~Underway
  PROVE  IInv'
<1>1. Still
  BY AsideIsStill
<1>2. \A e \in DBs \ {d} : db'[e] = db[e] /\ (Recording(e)' <=> Recording(e)) /\ (Promoted(e)' <=> Promoted(e))
  BY DEF Aside, Recording, Promoted
<1>3. Served \subseteq DBs /\ d \notin Served /\ Served' = Served
  BY <1>1 DEF Served, Aside, Still
<1>4. Sites'
  <2>1. db[First].made'
    BY <1>2, SiteAssumption DEF IInv, Sites, Aside
  <2>2. \A e, f \in DBs : Live(e)' /\ Live(f)' => e = f
    BY <1>1 DEF IInv, Sites, Still
  <2>3. OneEpoch'
    BY <1>1, <1>3 DEF IInv, Sites, Still, OneEpoch
  <2>4. \E e \in Served' : \A f \in Served' : db'[f].epoch <= db'[e].epoch
    BY <1>1, <1>3 DEF IInv, Sites, Still
  <2>5. \A e, f \in DBs : Recording(e)' /\ Recording(f)' => e = f
    BY <1>2 DEF IInv, Sites, Underway, Recording
  <2> QED
    BY <2>1, <2>2, <2>3, <2>4, <2>5 DEF Sites
<1>5. ASSUME NEW e \in DBs PROVE Issued(e)'
  <2>1. CASE e = d
    BY <2>1
  <2>2. CASE e # d
    <3>1. db[e].promo.db \in DBs /\ Issued(e) /\ db'[e] = db[e]
      BY <1>2, <2>2 DEF IInv, TypeOK, Db, Promo
    <3> QED
      BY <1>2, <3>1 DEF Issued
  <2> QED
    BY <2>1, <2>2
<1>6. ASSUME NEW e \in DBs PROVE Stores(e)'
  <2>1. CASE e = d
    BY <2>1
  <2>2. CASE e # d
    BY <1>2, <2>2 DEF IInv, Stores, Aside
  <2> QED
    BY <2>1, <2>2
<1>7. \A w \in Workers : Runs(w)'
  BY DEF IInv, Runs, Aside
<1>8. \A w \in Workers : Stopped(w) /\ worker'[w] = worker[w]
  BY DEF Stopped, Aside
<1>9. ASSUME NEW e \in DBs, Recording(e)' PROVE Waits(e)'
  <2>1. CASE e = d
    BY <1>9, <2>1
  <2>2. CASE e # d
    <3>1. Waits(e) /\ db'[e] = db[e] /\ TypeOK
      BY <1>2, <1>9, <2>2 DEF IInv
    <3> QED
      BY <1>1, <1>8, <3>1, WaitsStay
  <2> QED
    BY <2>1, <2>2
<1>10. ASSUME NEW e \in DBs, db'[e].made, Promoted(e)' PROVE Serves(e)'
  <2>1. e # d
    BY <1>10 DEF Aside
  <2>2. Serves(e) /\ db'[e] = db[e] /\ TypeOK
    BY <1>2, <1>10, <2>1 DEF IInv
  <2>3. \A o \in Served : db'[o].wrote = db[o].wrote
    BY <1>2, <1>3
  <2>4. \A w \in Declared : worker'[w] = worker[w] /\ Stopped(w)
    BY <1>8, SiteAssumption
  <2>5. \A j \in Jobs : db'[e].lease[j] = db[e].lease[j]
    BY <2>2
  <2> QED
    BY <1>1, <2>2, <2>3, <2>4, <2>5, ServesStay
<1> QED
  BY <1>4, <1>5, <1>6, <1>7, <1>9, <1>10 DEF IInv

LEMMA RestoreStep ==
  ASSUME IInv, NEW d \in DBs, Restore(d), TypeOK'
  PROVE  IInv'
<1>1. PICK s \in DBs : db[s].made /\ PutDb(d, db[s])
  BY DEF Restore
<1>2. /\ db'[d] = db[s] /\ (\A e \in DBs \ {d} : db'[e] = db[e])
      /\ worker' = worker /\ now' = now /\ ~db[d].made /\ ~db[d].gone
  BY <1>1, DbIs DEF IInv, Restore
<1>3. db[s].promo.state # "none" => db[s].promo.db # d
  BY <1>2 DEF IInv, Issued
<1>4. Aside(d)
  <2>1. d # First
    BY <1>2 DEF IInv, Sites
  <2>2. d \notin Served
    BY <1>2 DEF Served
  <2>3. ~Promoted(d)'
    BY <1>2, <1>3 DEF Promoted
  <2> QED
    BY <1>2, <2>1, <2>2, <2>3 DEF Aside
<1>5. (db[d].made \/ db[d].gone)'
  BY <1>1, <1>2
<1>6. Issued(d)'
  <2>1. Issued(s) /\ db[s].promo.db \in DBs
    BY DEF IInv, TypeOK, Db, Promo
  <2> QED
    BY <1>1, <1>2, <1>3, <2>1 DEF Issued
<1>7. Stores(d)'
  BY <1>2 DEF IInv, Stores
<1>8. ~Recording(d)'
  BY <1>2, <1>3 DEF Recording
<1> QED
  BY <1>4, <1>5, <1>6, <1>7, <1>8, AsideStep

LEMMA DiscardStep ==
  ASSUME IInv, NEW d \in DBs, Discard(d), TypeOK'
  PROVE  IInv'
<1>1. /\ db'[d] = [Fresh EXCEPT !.gone = TRUE] /\ (\A e \in DBs \ {d} : db'[e] = db[e])
      /\ worker' = worker /\ now' = now /\ db[d].made /\ d \notin Served
  BY DbIs DEF IInv, Discard
<1>2. db'[d].gone /\ ~db'[d].made /\ db'[d].promo.state = "none" /\ db'[d].wrote = Never
  BY <1>1 DEF Fresh, NoPromo
<1>3. Aside(d)
  BY <1>1, <1>2 DEF Aside, Served, Promoted
<1>4. Issued(d)' /\ Stores(d)' /\ ~Recording(d)'
  BY <1>2 DEF Issued, Stores, Recording
<1> QED
  BY <1>2, <1>3, <1>4, AsideStep

\* The epoch of a plan is none below that of a database that has served.
LEMMA PlanIsLatest ==
  ASSUME IInv, NEW d \in DBs, PlanFor(d)
  PROVE  \A o \in Served : db[o].epoch <= db[d].epoch
<1> DEFINE S == {db[o].epoch : o \in Served}
<1>1. PICK e \in Served : \A o \in Served : db[o].epoch <= db[e].epoch
  BY DEF IInv, Sites
<1>2. \A o \in Served : db[o].epoch \in Nat
  BY Holds DEF IInv, Served
<1>3. db[e].epoch \in S /\ \A y \in S : db[e].epoch >= y
  BY <1>1, <1>2
<1>4. Max(S) \in S /\ \A y \in S : Max(S) >= y
  BY <1>3 DEF Max
<1> QED
  BY <1>2, <1>4 DEF PlanFor, KnownEpoch

LEMMA SealStep ==
  ASSUME IInv, NEW d \in DBs, Seal(d), TypeOK'
  PROVE  IInv'
<1> DEFINE p == [NoPromo EXCEPT !.state = "sealed", !.db = d, !.from = db[d].epoch, !.old = Served,
                                !.required = Named \cup Shown(d)]
<1>1. /\ db'[d] = [db[d] EXCEPT !.fence = "sealed", !.home = d, !.lease = LeaseAfter(d), !.open = {}, !.promo = p]
      /\ (\A e \in DBs \ {d} : db'[e] = db[e]) /\ worker' = worker /\ now' = now
  BY DbIs DEF IInv, Seal
<1>2. /\ p.state = "sealed" /\ p.db = d /\ p.from = db[d].epoch /\ p.old = Served /\ p.vouched = {}
      /\ p.required = Named \cup Shown(d) /\ p.stop = [w \in Workers |-> Never]
  BY DEF NoPromo
<1>3. db[d] \in Db /\ db[d].made /\ d \notin Served /\ ~Underway /\ PlanFor(d)
  BY DEF IInv, TypeOK, Seal, PlanFor
<1> HIDE DEF p
<1>4. /\ db'[d].fence = "sealed" /\ db'[d].lease = Fresh.lease /\ db'[d].open = {} /\ db'[d].promo = p
      /\ db'[d].made /\ db'[d].gone = db[d].gone /\ db'[d].epoch = db[d].epoch /\ db'[d].wrote = db[d].wrote
  BY <1>1, <1>3 DEF Db, LeaseAfter
<1>5. Aside(d)
  <2>1. d # First
    BY <1>3 DEF Served
  <2>2. ~Promoted(d)'
    BY <1>2, <1>4 DEF Promoted
  <2> QED
    BY <1>1, <1>3, <2>1, <2>2 DEF Aside
<1>6. Issued(d)'
  BY <1>2, <1>3, <1>4 DEF IInv, Issued
<1>7. Stores(d)'
  BY <1>1, <1>4 DEF IInv, Stores
<1>8. Waits(d)'
  <2>1. Still
    BY <1>5, AsideIsStill
  <2>2. d # First /\ (db[d].fence = "sealed")' /\ (db[d].lease = Fresh.lease)' /\ (db[d].open = {})'
    BY <1>4, <1>5 DEF Aside, Fresh
  <2>3. (db[d].epoch = db[d].promo.from)' /\ (db[d].promo.old = Served)'
    BY <1>2, <1>4, <2>1 DEF Still
  <2>4. \A o \in Served' : db'[o].epoch <= db'[d].promo.from
    BY <1>2, <1>3, <1>4, <2>1, PlanIsLatest DEF Still
  <2>5. \A w \in Declared : w \in p.required \/ worker'[w].state = "off"
    BY <1>1, <1>2 DEF Named
  <2>6. \A w \in Workers : Told(db[d].promo, w)'
    BY <1>2, <1>4 DEF Told
  <2> QED
    BY <1>2, <1>4, <2>2, <2>3, <2>4, <2>5, <2>6 DEF Waits
<1> QED
  BY <1>3, <1>4, <1>5, <1>6, <1>7, <1>8, AsideStep

-----------------------------------------------------------------------------
(* The promotion *)

\* The workers a ready promotion asks for are stopped, as it was told, and
\* those it does not ask for have not started.
LEMMA ReadyIsStopped ==
  ASSUME IInv, NEW d \in DBs, Waits(d), StopsProven(db[d].promo), NEW w \in Declared
  PROVE  worker[w].state = "off" \/ Left(db[d].promo, w)
BY SiteAssumption DEF Waits, StopsProven, Left, Told

\* What the old databases stored lies before the end of the review.
LEMMA ReadyIsReviewed ==
  ASSUME IInv, NEW d \in DBs, Waits(d), StopsProven(db[d].promo), Reviewed(db[d].promo), NEW o \in DBs
  PROVE  db[o].wrote <= db[d].promo.window + Skew
<1> DEFINE p == db[d].promo
<1>1. TypeOK /\ Stores(o)
  BY DEF IInv
<1>2. LastStop(p) \in Nat /\ p.window \in Int /\ p.window >= LastStop(p) /\ db[o].wrote \in Int /\ Skew \in Nat
  BY <1>1, LastStopIs, Holds, TimeAssumption DEF Reviewed
<1>3. CASE db[o].wrote = Never
  BY <1>2, <1>3 DEF Never
<1>4. CASE db[o].wrote # Never
  <2>1. PICK w \in Declared : \/ worker[w].state = "up"
                              \/ worker[w].state = "stopped" /\ db[o].wrote <= worker[w].stopped
    BY <1>1, <1>4 DEF Stores
  <2>2. Left(p, w) /\ w \in Workers
    BY <2>1, ReadyIsStopped, SiteAssumption
  <2>3. p.stop[w] \in Nat /\ p.stop[w] <= LastStop(p)
    BY <1>1, <2>2, LastStopIs DEF Left
  <2>4. worker[w].stopped <= p.stop[w] + Skew /\ db[o].wrote <= worker[w].stopped /\ worker[w].stopped \in Nat
    BY <1>1, <2>1, <2>2, WorkerType DEF Left, Told
  <2> QED
    BY <1>2, <2>3, <2>4
<1> QED
  BY <1>3, <1>4

LEMMA PromoteStep ==
  ASSUME IInv, NEW d \in DBs, Promote(d), TypeOK'
  PROVE  IInv'
<1> DEFINE p == db[d].promo
<1>1. /\ db'[d] = [db[d] EXCEPT !.fence = "active", !.epoch = @ + 1, !.promo = PromoAfter(@)]
      /\ (\A e \in DBs \ {d} : db'[e] = db[e]) /\ worker' = worker /\ now' = now
  BY DbIs DEF IInv, Promote
<1>2. /\ Recording(d) /\ OldFenced(p) /\ StopsProven(p) /\ Reviewed(p)
      /\ db[d].made /\ p.state = "sealed" /\ p.db = d
  BY DEF Promote, Ready, SealedHere, Recording
<1>3. Waits(d) /\ db[d] \in Db /\ p \in Promo /\ TypeOK
  BY <1>2, Holds DEF IInv
<1>4. /\ db'[d].made /\ db'[d].gone = db[d].gone /\ db'[d].epoch = db[d].epoch + 1 /\ db'[d].fence = "active"
      /\ db'[d].promo = PromoAfter(p) /\ db'[d].lease = db[d].lease /\ db'[d].open = db[d].open
      /\ db'[d].wrote = db[d].wrote
  BY <1>1, <1>2, <1>3 DEF Db
<1>5. /\ PromoAfter(p).state = "promoted" /\ PromoAfter(p).db = d /\ PromoAfter(p).from = p.from
      /\ PromoAfter(p).old = p.old /\ PromoAfter(p).required = p.required /\ PromoAfter(p).stop = p.stop
      /\ PromoAfter(p).window = p.window
  BY <1>2, <1>3 DEF PromoAfter, Promo
<1> HIDE DEF p
<1>6. Promoted(d)' /\ ~Recording(d)' /\ d # First /\ d \notin Served
  BY <1>2, <1>3, <1>4, <1>5 DEF Promoted, Recording, Waits, Served, p
<1>7. \A e \in DBs \ {d} : /\ Recording(e)' <=> Recording(e)
                           /\ Promoted(e)' <=> Promoted(e)
                           /\ Active(e)' <=> Active(e)
  BY <1>1 DEF Recording, Promoted, Active
<1>8. Served' = Served \cup {d}
  BY <1>1, <1>4, <1>6, <1>7 DEF Served
<1>9. p.old = Served /\ (\A o \in Served : db[o].epoch <= p.from) /\ db[d].epoch = p.from
  BY <1>3 DEF Waits, p
<1>10. \A o \in Served : o \in DBs \ {d} /\ ~Live(o)
  BY <1>2, <1>3, <1>6, <1>9 DEF Served, OldFenced, Waits, p
<1>11. \A o \in DBs \ {d} : ~Live(o)'
  <2>1. ASSUME NEW o \in DBs \ {d}, Live(o)' PROVE FALSE
    <3>1. o \in Served /\ Active(o) /\ db[o].reachable
      BY <1>1, <1>7, <1>8, <2>1 DEF Live
    <3> QED
      BY <1>10, <3>1 DEF Live
  <2> QED
    BY <2>1
<1>12. \A e \in DBs : ~Recording(e)'
  BY <1>2, <1>6, <1>7 DEF IInv, Sites
<1>13. db'[d].epoch \in Int /\ \A o \in Served : db'[o].epoch \in Int /\ db'[o].epoch < db'[d].epoch
  <2>1. \A o \in Served : db[o].epoch \in Nat /\ db'[o].epoch = db[o].epoch
    BY <1>1, <1>3, <1>10, Holds
  <2>2. db[d].epoch \in Nat
    BY <1>3, Holds
  <2> QED
    BY <1>4, <1>9, <2>1, <2>2
<1>14. Sites'
  <2>1. db[First].made'
    BY <1>1, <1>6, SiteAssumption DEF IInv, Sites
  <2>2. \A e, f \in DBs : Live(e)' /\ Live(f)' => e = f
    BY <1>11
  <2>3. OneEpoch'
    <3>1. ASSUME NEW e \in Served', NEW f \in Served', db'[e].epoch = db'[f].epoch PROVE e = f
      <4>1. \A o \in Served' : db'[o].epoch \in Int
        BY <1>8, <1>13
      <4>2. CASE e = d \/ f = d
        BY <1>8, <1>13, <3>1, <4>1, <4>2
      <4>3. CASE e # d /\ f # d
        BY <1>1, <1>8, <1>10, <3>1, <4>3 DEF IInv, Sites, OneEpoch
      <4> QED
        BY <4>2, <4>3
    <3> QED
      BY <3>1 DEF OneEpoch
  <2>4. \E e \in Served' : \A f \in Served' : db'[f].epoch <= db'[e].epoch
    <3>1. \A f \in Served' : db'[f].epoch <= db'[d].epoch
      <4>1. \A o \in Served' : db'[o].epoch \in Int
        BY <1>8, <1>13
      <4> QED
        BY <1>8, <1>13, <4>1
    <3> QED
      BY <1>8, <3>1
  <2>5. \A e, f \in DBs : Recording(e)' /\ Recording(f)' => e = f
    BY <1>12
  <2> QED
    BY <2>1, <2>2, <2>3, <2>4, <2>5 DEF Sites
<1>15. ASSUME NEW e \in DBs PROVE Issued(e)'
  <2>1. CASE e = d
    BY <1>2, <1>4, <1>5, <2>1 DEF Issued, IInv
  <2>2. CASE e # d
    <3>1. db[e].promo.db \in DBs /\ Issued(e) /\ db'[e] = db[e]
      BY <1>1, <2>2 DEF IInv, TypeOK, Db, Promo
    <3>2. ASSUME db[e].promo.state # "none" PROVE (db[db[e].promo.db].made \/ db[db[e].promo.db].gone)'
      <4>1. CASE db[e].promo.db = d
        BY <1>4, <3>1, <4>1
      <4>2. CASE db[e].promo.db # d
        BY <1>1, <3>1, <3>2, <4>2 DEF Issued
      <4> QED
        BY <4>1, <4>2
    <3> QED
      BY <3>1, <3>2 DEF Issued
  <2> QED
    BY <2>1, <2>2
<1>16. (\A e \in DBs : Stores(e)') /\ \A w \in Workers : Runs(w)'
  <2>1. \A e \in DBs : db'[e].wrote = db[e].wrote
    BY <1>1, <1>4
  <2> QED
    BY <1>1, <2>1 DEF IInv, Stores, Runs
<1>17. Serves(d)'
  <2>1. \A j \in Jobs : db'[d].lease[j] = NoToken
    BY <1>3, <1>4 DEF Waits, Fresh
  <2>2. \A o \in p.old : db'[o].wrote <= p.window + Skew
    <3>1. \A o \in Served : db[o].wrote <= p.window + Skew
      BY <1>2, <1>3, <1>10, ReadyIsReviewed DEF p
    <3> QED
      BY <1>1, <1>9, <1>10, <3>1
  <2>3. \A o \in p.old : o \in Served' /\ ~Live(o)'
    BY <1>8, <1>9, <1>10, <1>11
  <2>4. ASSUME NEW w \in Declared, worker'[w].call # "none"
        PROVE  Left(db[d].promo, w)' /\ worker'[w].call \notin db'[d].open
    <3>1. w \in Workers /\ Runs(w)
      BY SiteAssumption DEF IInv
    <3>2. Left(p, w)
      BY <1>1, <1>2, <1>3, <2>4, <3>1, ReadyIsStopped DEF Runs, p
    <3>3. db'[d].open = {}
      BY <1>3, <1>4 DEF Waits
    <3> QED
      BY <1>1, <1>4, <1>5, <3>2, <3>3 DEF Left, Told
  <2> QED
    BY <1>4, <1>5, <2>1, <2>2, <2>3, <2>4 DEF Serves
<1>18. ASSUME NEW e \in DBs, db'[e].made, Promoted(e)' PROVE Serves(e)'
  <2>1. CASE e = d
    BY <1>17, <2>1
  <2>2. CASE e # d
    <3>1. Serves(e) /\ db'[e] = db[e] /\ ~Live(e)'
      BY <1>1, <1>7, <1>11, <1>18, <2>2 DEF IInv
    <3>2. db[e].promo.old \subseteq DBs
      BY DEF IInv, TypeOK, Db, Promo
    <3>3. \A o \in db[e].promo.old : o \in Served' /\ ~Live(o)' /\ db'[o].wrote <= db[e].promo.window + Skew
      BY <1>1, <1>8, <1>10, <1>11, <3>1, <3>2 DEF Serves
    <3> QED
      BY <3>1, <3>3 DEF Serves
  <2> QED
    BY <2>1, <2>2
<1> QED
  BY <1>12, <1>14, <1>15, <1>16, <1>18 DEF IInv

-----------------------------------------------------------------------------
(* The invariant *)

LEMMA InitInv == Init => IInv
<1> SUFFICES ASSUME Init PROVE IInv
  OBVIOUS
<1>1. TypeOK /\ now = 0
  BY TypeInit DEF Init
<1>2. \A d \in DBs : /\ db[d].made <=> d = First
                     /\ ~db[d].gone /\ db[d].promo = NoPromo /\ db[d].wrote = Never
  BY DEF Init, Fresh
<1>3. \A d \in DBs : ~Recording(d) /\ ~Promoted(d) /\ Issued(d) /\ Stores(d)
  BY <1>2 DEF Recording, Promoted, Issued, Stores, NoPromo
<1>4. Served = {First}
  BY <1>2, <1>3, SiteAssumption DEF Served
<1>5. \A w \in Workers : Runs(w)
  BY SiteAssumption DEF Init, Off, Runs
<1>6. db[First].epoch \in Nat
  BY <1>1, Holds, SiteAssumption
<1>7. Sites
  BY <1>2, <1>3, <1>4, <1>6, SiteAssumption DEF Sites, Live, OneEpoch
<1> QED
  BY <1>1, <1>3, <1>5, <1>7 DEF IInv

LEMMA InvStep ==
  ASSUME IInv, [Next]_vars
  PROVE  IInv'
<1>1. TypeOK'
  BY TypeStep DEF IInv
<1>2. CASE UNCHANGED vars
  <2>1. db' = db /\ worker' = worker /\ now' = now
    BY <1>2 DEF vars
  <2>2. Calm /\ (\A w \in Workers : Goes(w) /\ Runs(w)') /\ \A d \in DBs : GentleAt(d) /\ Stores(d)'
    BY <2>1, SameIsCalm, SiteAssumption DEF SameSite, Goes, Stopped, GentleAt, IInv, Runs, Stores
  <2> QED
    BY <1>1, <2>2, GentleStep DEF Gentle
<1>3. CASE Next
  BY <1>1, <1>3, StartStep, CallEndsStep, StopWorkerStep, ClaimStep, CommitStep, StartCallStep, RestoreStep, DiscardStep,
     OldSiteStep, SealStep, RecordReviewStep, PromoteStep, ReleaseStep, VouchStep, RecordStopStep, OpenPermitsStep,
     TickStep DEF Next
<1> QED
  BY <1>2, <1>3

\* Everything above holds of every state (repository.ts 57-178, promotion.ts
\* 104-140, call-drain.ts 36-54).
THEOREM Invariant == Spec => []IInv
<1>1. Init => IInv
  BY InitInv
<1>2. IInv /\ [Next]_vars => IInv'
  BY InvStep
<1> QED
  BY <1>1, <1>2, PTL DEF Spec

\* Every variable has its type.
THEOREM TypeCorrect == Spec => []TypeOK
<1>1. IInv => TypeOK
  BY DEF IInv
<1> QED
  BY <1>1, Invariant, PTL

\* At most one database that has served takes writes and can be reached, of
\* however many, and after however many promotions (promotion.ts 116-123).
THEOREM OneSiteServes == Spec => []OneSite
<1>1. ASSUME IInv PROVE OneSite
  <2> DEFINE S == {d \in Served : Active(d) /\ db[d].reachable}
  <2>1. \A d, e \in S : d = e
    BY <1>1 DEF IInv, Sites, Live, Served
  <2>2. CASE S = {}
    BY <2>2, FS_EmptySet DEF OneSite
  <2>3. CASE S # {}
    <3>1. PICK d \in S : S = {d}
      BY <2>1, <2>3
    <3>2. Cardinality(S) = 1
      BY <3>1, FS_Singleton
    <3> QED
      BY <3>2 DEF OneSite
  <2> QED
    BY <2>2, <2>3
<1> QED
  BY <1>1, Invariant, PTL

\* No two databases ever serve in one writer epoch (promotion.ts 9-13,
\* repository.ts 65-69).
THEOREM EpochsAreDistinct == Spec => []OneEpoch
<1>1. IInv => OneEpoch
  BY DEF IInv, Sites
<1> QED
  BY <1>1, Invariant, PTL

\* A promoted database stores results only under leases drawn there after
\* its promotion, whoever holds the old ones (repository.ts 98-113).
THEOREM OldTokensAreVoid == Spec => []NoOldWork
<1>1. ASSUME IInv PROVE NoOldWork
  <2>1. ASSUME NEW w \in Workers, NEW d \in DBs, NEW j \in Jobs, MayCommit(w, d, j), Promoted(d)
        PROVE  worker[w].token[j].db = d /\ worker[w].token[j].epoch = db[d].epoch
    <3>1. Serves(d) /\ worker[w].token[j] # NoToken /\ db[d].lease[j] = worker[w].token[j]
      BY <1>1, <2>1 DEF IInv, MayCommit, Reaches
    <3> QED
      BY <3>1 DEF Serves
  <2> QED
    BY <2>1 DEF NoOldWork
<1> QED
  BY <1>1, Invariant, PTL

\* While a promoted database lets calls of a scope out, no call the old site
\* let out to a named worker still runs (call-drain.ts 36-54).
THEOREM OldCallsAreOver == Spec => []NoCallsOverlap
<1>1. ASSUME IInv PROVE NoCallsOverlap
  <2>1. ASSUME NEW d \in DBs, NEW w \in Declared, PromotedHere(d), db[d].reachable, worker[w].call \in db[d].open
        PROVE  worker[w].at = d
    <3>1. Serves(d) /\ Live(d)
      BY <1>1, <2>1 DEF IInv, PromotedHere, Live, Served
    <3>2. worker[w].call # "none"
      BY <1>1, <2>1, SiteAssumption DEF IInv, TypeOK, Db
    <3> QED
      BY <2>1, <3>1, <3>2 DEF Serves
  <2> QED
    BY <2>1 DEF NoCallsOverlap
<1> QED
  BY <1>1, Invariant, PTL

\* What named workers stored at the old site lies in the time that was
\* reviewed, but for the error of the clocks (promotion.ts 133-138).
THEOREM LossesAreReviewed == Spec => []LostWorkIsReviewed
<1>1. ASSUME IInv PROVE LostWorkIsReviewed
  <2>1. ASSUME NEW d \in DBs, Promoted(d) PROVE Serves(d)
    BY <1>1, <2>1 DEF IInv, Issued, Promoted
  <2> QED
    BY <2>1 DEF LostWorkIsReviewed, Serves
<1> QED
  BY <1>1, Invariant, PTL
=============================================================================
