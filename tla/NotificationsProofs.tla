------------------------ MODULE NotificationsProofs ------------------------
(***************************************************************************)
(* Notifications: a group that asks for no digest because one is queued    *)
(* has one, and nobody is named in more pushes than they asked for, for    *)
(* any number of actors, rows, deaths and nights.                          *)
(***************************************************************************)
EXTENDS Notifications, FiniteSetTheorems, TLAPS

\* A push of its own sets digest_at, and queues what it asks for.
OwnPush == worker.step \in {"aggregate", "enqueue"} => ~IsDigest

\* The digest_at a push has read is the row's when it is written back: no
\* other delivery runs, and a row that went does not come back.
Unchanged ==
    worker.step \in {"limit", "send", "named", "final"} =>
        /\ Row.there \/ Row.read
        /\ Row.there => worker.digest = Row.digest

Inv == TypeOK /\ OwnPush /\ Unchanged /\ QueuedHasJob

-----------------------------------------------------------------------------
(* The types.                                                              *)

LEMMA JobTypes ==
    /\ \A g \in Groups : Digest(g) \in Jobs
    /\ \A g \in Groups, a \in Actors : Single(g, a) \in Jobs
    /\ Idle \in Workers
  <1>1. \A g \in Groups : Digest(g) \in Jobs
    BY NotificationsAssumption DEF Digest, Jobs
  <1>2. \A g \in Groups, a \in Actors : Single(g, a) \in Jobs
    BY NotificationsAssumption DEF Single, Jobs
  <1>3. (CHOOSE j \in Jobs : TRUE) \in Jobs
    BY <1>1, NotificationsAssumption
  <1>4. Idle \in Workers
    BY <1>3 DEF Idle, Workers
  <1> QED
    BY <1>1, <1>2, <1>4

LEMMA RowTypes == Unborn \in Rows /\ Deleted \in Rows
  BY DEF Unborn, Deleted, Rows

LEMMA InitInv == Init => Inv
  <1>1. SUFFICES ASSUME Init PROVE Inv
    OBVIOUS
  <1>2. TypeOK
    <2>1. group \in [Groups -> Rows] /\ worker \in Workers
      BY <1>1, JobTypes, RowTypes DEF Init
    <2>2. waiting \in [Jobs -> Nat] /\ later \in [Jobs -> Nat]
      BY <1>1 DEF Init
    <2>3. asked \in [Actors -> Nat] /\ told \in [Actors -> Nat]
      BY <1>1 DEF Init
    <2>4. deaths \in Nat /\ drops \in Nat /\ nights \in Nat /\ hides \in Nat
      BY <1>1 DEF Init
    <2> QED
      BY <1>1, <2>1, <2>2, <2>3, <2>4 DEF Init, TypeOK
  <1>3. OwnPush /\ Unchanged
    BY <1>1 DEF Init, Idle, OwnPush, Unchanged
  <1>4. QueuedHasJob
    BY <1>1 DEF Init, Open, Unborn, QueuedHasJob
  <1> QED
    BY <1>2, <1>3, <1>4 DEF Inv

\* A job's row is one of the table, and its push names actors.
LEMMA JobRow ==
  ASSUME TypeOK
  PROVE  /\ worker \in Workers /\ Job \in Jobs /\ Job[1] \in Groups /\ Job[2] \subseteq Actors
         /\ Row \in Rows /\ Names \subseteq Actors
         /\ \A g \in Groups : IsDigest /\ Job[1] = g <=> Job \in Digests(g)
  <1>1. worker \in Workers /\ Job \in Jobs
    BY DEF TypeOK, Workers, Job
  <1>2. Job[1] \in Groups /\ Job[2] \subseteq Actors
    BY <1>1 DEF Jobs
  <1>3. Row \in Rows
    BY <1>2 DEF TypeOK, Row
  <1>4. Names \subseteq Actors
    BY <1>2, <1>3 DEF Names, Newly, Visible, Rows
  <1> QED
    BY <1>1, <1>2, <1>3, <1>4 DEF IsDigest, Digests

\* How a step of the worker leaves it.
LEMMA Moves ==
  ASSUME TypeOK
  PROVE  /\ Idle.step = "idle"
         /\ \A j \in Jobs : [Idle EXCEPT !.step = "view", !.job = j].step = "view"
         /\ \A j \in Jobs : [Idle EXCEPT !.step = "view", !.job = j].job = j
         /\ Done => worker'.step = "done" /\ worker'.job = Job
         /\ \A step : Doing(step) => /\ worker'.step = step /\ worker'.job = Job
                                   /\ worker'.digest = worker.digest
         /\ \A step : Go(step, Names) => /\ worker'.step = step /\ worker'.job = Job
                                       /\ worker'.digest = Row.digest
  <1>1. Idle.step = "idle" /\ \A j \in Jobs : [Idle EXCEPT !.step = "view", !.job = j].step = "view"
    BY DEF Idle
  <1>2. \A j \in Jobs : [Idle EXCEPT !.step = "view", !.job = j].job = j
    BY DEF Idle
  <1>3. Done => worker'.step = "done" /\ worker'.job = Job
    BY DEF Done, Idle
  <1>4. \A step : Doing(step) => /\ worker'.step = step /\ worker'.job = Job
                                /\ worker'.digest = worker.digest
    BY JobRow DEF Doing, Job, Workers
  <1>5. \A step : Go(step, Names) => /\ worker'.step = step /\ worker'.job = Job
                                    /\ worker'.digest = Row.digest
    BY JobRow DEF Go, Job, Workers
  <1> QED
    BY <1>1, <1>2, <1>3, <1>4, <1>5

LEMMA RequestTypes ==
  ASSUME TypeOK, Requested \/ MarkRead
  PROVE  TypeOK'
  <1>1. CASE Requested
    <2>1. PICK a \in Actors :
              \/ Remove(a) \/ Quietly(a) \/ Block(a) \/ Mute(a) \/ Reveal(a)
              \/ \E wants \in BOOLEAN : Emit(a, wants)
      BY <1>1 DEF Requested
    <2>2. CASE Remove(a)
      <3>1. \A g \in Groups : Left(g, a) \in Rows
        BY RowTypes DEF TypeOK, Left, Rows
      <3> QED
        BY <2>2, <3>1 DEF Remove, Settled, TypeOK, queue, counts
    <2>3. CASE Block(a) \/ Mute(a)
      BY <2>3 DEF Block, Mute, Hide, Settled, TypeOK, queue
    <2>5. CASE Quietly(a) \/ Reveal(a)
      BY <2>5 DEF Quietly, Reveal, TypeOK, queue, counts, history
    <2>4. ASSUME NEW wants \in BOOLEAN, Emit(a, wants) PROVE TypeOK'
      <3>1. PICK g \in Groups :
                /\ group' = [group EXCEPT ![g] = Written(g, a, wants)]
                /\ later' = IF wants /\ kind = "like" /\ Queues(g) THEN [later EXCEPT ![Digest(g)] = @ + 1] ELSE later
                /\ waiting' = IF wants /\ kind = "follow" THEN [waiting EXCEPT ![Single(g, a)] = @ + 1] ELSE waiting
                /\ missed' = IF wants /\ Overtaken(g, a) THEN missed \cup {a} ELSE missed \ {a}
        BY <2>4 DEF Emit, Joined
      <3>2. Written(g, a, wants) \in Rows
        BY DEF TypeOK, Written, Rows
      <3>3. group' \in [Groups -> Rows]
        BY <3>1, <3>2 DEF TypeOK
      <3>4. waiting' \in [Jobs -> Nat] /\ later' \in [Jobs -> Nat]
        BY <3>1, JobTypes DEF TypeOK
      <3>5. owed' \subseteq Actors /\ missed' \subseteq owed'
        BY <2>4, <3>1 DEF Emit, TypeOK
      <3>6. asked' \in [Actors -> Nat]
        BY <2>4 DEF Emit, TypeOK
      <3> QED
        BY <2>4, <3>3, <3>4, <3>5, <3>6 DEF Emit, TypeOK, counts
    <2> QED
      BY <2>1, <2>2, <2>3, <2>4, <2>5
  <1>2. CASE MarkRead
    <2>1. \A g \in Groups : group[g] \in Rows /\ [group[g] EXCEPT !.read = TRUE] \in Rows
      BY DEF TypeOK, Rows
    <2>2. group' \in [Groups -> Rows]
      BY <1>2, <2>1 DEF MarkRead
    <2> QED
      BY <1>2, <2>2 DEF MarkRead, Settled, TypeOK, world, queue, counts
  <1> QED
    BY <1>1, <1>2

\* The job as it is tried again, or queued once more.
LEMMA JobAgain ==
  ASSUME TypeOK
  PROVE  /\ Job[3] < Retries => <<Job[1], Job[2], Job[3] + 1>> \in Jobs
         /\ <<Job[1], Job[2], 0>> \in Jobs
  <1>1. Job \in Jobs
    BY JobRow
  <1> QED
    BY <1>1, NotificationsAssumption DEF Jobs

LEMMA QueueTypes ==
  ASSUME TypeOK, (\E j \in Jobs : Fetch(j) \/ Drop(j)) \/ Due \/ Die
  PROVE  TypeOK'
  <1>1. ASSUME NEW j \in Jobs, Fetch(j) PROVE TypeOK'
    <2>1. worker' \in Workers
      BY <1>1, JobTypes DEF Fetch, Workers
    <2>2. waiting' \in [Jobs -> Nat]
      <3>1. waiting \in [Jobs -> Nat]
        BY DEF TypeOK
      <3>2. waiting[j] > 0 /\ waiting' = [waiting EXCEPT ![j] = @ - 1]
        BY <1>1 DEF Fetch
      <3> QED
        BY <3>1, <3>2
    <2> QED
      BY <1>1, <2>1, <2>2 DEF Fetch, TypeOK, world, counts, history
  <1>2. ASSUME NEW j \in Jobs, Drop(j) PROVE TypeOK'
    <2>1. silent' \subseteq Groups /\ missed' \subseteq owed'
      BY <1>2 DEF Drop, Lost, Silenced, TypeOK, Jobs
    <2>2. waiting' \in [Jobs -> Nat]
      <3>1. waiting \in [Jobs -> Nat]
        BY DEF TypeOK
      <3>2. waiting[j] > 0 /\ waiting' = [waiting EXCEPT ![j] = @ - 1]
        BY <1>2 DEF Drop
      <3> QED
        BY <3>1, <3>2
    <2> QED
      BY <1>2, <2>1, <2>2 DEF Drop, TypeOK, world
  <1>3. CASE Due
    BY <1>3 DEF Due, TypeOK, world, counts, history
  <1>4. CASE Die
    <2>1. silent' \subseteq Groups /\ missed' \subseteq owed'
      BY <1>4, JobRow DEF Die, Again, GivenUp, Lost, Silenced, TypeOK
    <2>2. waiting' \in [Jobs -> Nat]
      BY <1>4, JobAgain DEF Die, Again, GivenUp, TypeOK
    <2> QED
      BY <1>4, <2>1, <2>2, JobTypes DEF Die, TypeOK, world
  <1> QED
    BY <1>1, <1>2, <1>3, <1>4

LEMMA DeliverTypes ==
  ASSUME TypeOK, Deliver
  PROVE  TypeOK'
  <1> USE JobRow, JobTypes
  <1>1. worker' \in Workers
    <2>1. ASSUME NEW step \in {"idle", "view", "defer", "aggregate", "enqueue", "done"} \cup Closing, Doing(step) PROVE worker' \in Workers
      BY <2>1 DEF Doing, Workers
    <2>2. ASSUME NEW step \in {"idle", "view", "defer", "aggregate", "enqueue", "done"} \cup Closing, Go(step, Names) PROVE worker' \in Workers
      BY <2>2 DEF Go, Workers, Rows
    <2>3. ASSUME Done PROVE worker' \in Workers
      BY <2>3 DEF Done, Workers, Idle
    <2>4. CASE View
      BY <2>2, <2>3, <2>4 DEF View, Gone, Refused, Quiet, Alone, Together, Closing
    <2>5. CASE Send
      BY <2>1, <2>5 DEF Send, Workers, Closing
    <2>6. CASE Complete
      BY <2>6 DEF Complete
    <2>7. CASE Defer \/ Aggregate \/ Enqueue \/ Clear \/ Skip \/ Limit \/ Named \/ Final
      BY <2>1, <2>3, <2>7 DEF Defer, Aggregate, Enqueue, Clear, Skip, Limit, Named, Final, Closing
    <2> QED
      BY <2>4, <2>5, <2>6, <2>7 DEF Deliver
  <1>2. group' \in [Groups -> Rows]
    <2>1. ASSUME NEW new \in Rows, group' = Updated(new) PROVE group' \in [Groups -> Rows]
      BY <2>1 DEF Updated, TypeOK
    <2>2. CASE Aggregate \/ Clear \/ Skip
      BY <2>1, <2>2 DEF Aggregate, Clear, Skip, Rows
    <2>3. CASE Named
      BY <2>1, <2>3 DEF Named, Rows
    <2>4. CASE Final
      <3>1. FinalRow \in Rows
        BY DEF FinalRow, Rows, Workers
      <3> QED
        BY <2>1, <2>4, <3>1 DEF Final
    <2> QED
      BY <2>2, <2>3, <2>4 DEF Deliver, View, Defer, Enqueue, Limit, Send, Complete, TypeOK
  <1>3. waiting' \in [Jobs -> Nat] /\ later' \in [Jobs -> Nat]
    BY JobAgain DEF Deliver, View, Defer, Aggregate, Enqueue, Clear, Skip, Limit, Send, Named, Final, Complete, TypeOK, queue
  <1>4. nights' \in Nat
    BY DEF Deliver, View, Gone, Refused, Quiet, Alone, Together,
        Defer, Aggregate, Enqueue, Clear, Skip, Limit, Send, Named, Final, Complete, TypeOK, counts
  <1>5. /\ told' \in [Actors -> Nat] /\ owed' \subseteq Actors
        /\ missed' \subseteq owed' /\ silent' \subseteq Groups
    <2>1. CASE Skip
      BY <2>1 DEF Skip, Settled, Silenced, TypeOK
    <2>2. CASE Send
      <3>1. \A a \in Actors : told[a] + (IF a \in worker.names THEN 1 ELSE 0) \in Nat
        BY DEF TypeOK
      <3> QED
        BY <2>2, <3>1 DEF Send, Settled, TypeOK
    <2>3. CASE Aggregate
      BY <2>3 DEF Aggregate, TypeOK
    <2>4. CASE ~Skip /\ ~Send /\ ~Aggregate
      BY <2>4 DEF Deliver, View, Defer, Enqueue, Clear, Limit, Named, Final, Complete, TypeOK, history
    <2> QED
      BY <2>1, <2>2, <2>3, <2>4
  <1>6. UNCHANGED <<kind, world, deaths, drops, hides>>
    BY DEF Deliver, View, Defer, Aggregate, Enqueue, Clear, Skip, Limit, Send, Named, Final, Complete, counts
  <1> QED
    BY <1>1, <1>2, <1>3, <1>4, <1>5, <1>6 DEF TypeOK, world

LEMMA NextTypes == ASSUME TypeOK, [Next]_vars PROVE TypeOK'
  <1>1. CASE UNCHANGED vars
    BY <1>1 DEF vars, world, queue, counts, history, TypeOK
  <1> QED
    BY <1>1, RequestTypes, QueueTypes, DeliverTypes DEF Next

-----------------------------------------------------------------------------
(* What a delivery has read, and the rows.                                 *)

\* Requests leave a row's digest_at alone while it is there, and no row that
\* was deleted is used again.
LEMMA RequestRows ==
  ASSUME TypeOK, Requested \/ MarkRead, NEW g \in Groups
  PROVE  /\ worker' = worker /\ kind' = kind
         /\ silent' = silent \/ ~Open(g)'
         /\ group'[g].there => group[g].there \/ group[g] = Unborn
         /\ group'[g].there /\ group[g].there => group'[g].digest = group[g].digest
         /\ group'[g].digest => group[g].digest
         /\ group[g].there \/ group[g].read => (group'[g].there => group[g].there) /\ (group'[g].there \/ group'[g].read)
         /\ Open(g)' => Open(g) \/ group[g] = Unborn
  <1>0. group[g] \in Rows
    BY DEF TypeOK
  <1>1. CASE MarkRead
    BY <1>0, <1>1 DEF MarkRead, Open, Rows, TypeOK
  <1>2. ASSUME NEW a \in Actors, Quietly(a) \/ Block(a) \/ Mute(a) \/ Reveal(a)
        PROVE  group' = group /\ worker' = worker /\ kind' = kind /\ silent' = silent
    BY <1>2 DEF Quietly, Block, Mute, Reveal, Hide, history
  <1>3. ASSUME NEW a \in Actors, Remove(a)
        PROVE  /\ group'[g] = Left(g, a)
               /\ worker' = worker /\ kind' = kind /\ silent' = silent
    BY <1>3 DEF Remove
  <1>4. ASSUME NEW a \in Actors, NEW wants \in BOOLEAN, Emit(a, wants)
        PROVE  /\ \/ group'[g] = group[g]
                  \/ group'[g] = Written(g, a, wants) /\ (Open(g) \/ group[g] = Unborn)
               /\ worker' = worker /\ kind' = kind /\ silent' = silent
    BY <1>4 DEF Emit, Joined, TypeOK
  <1>5. ASSUME NEW a \in Actors
        PROVE  /\ Left(g, a) = Deleted \/ (/\ Left(g, a).there = group[g].there /\ Left(g, a).read = group[g].read
                                           /\ Left(g, a).digest = group[g].digest)
    BY <1>0 DEF Left, Rows
  <1>6. ASSUME NEW a \in Actors, NEW wants \in BOOLEAN
        PROVE  /\ Written(g, a, wants).there /\ Written(g, a, wants).read = group[g].read
               /\ Written(g, a, wants).digest = group[g].digest
    BY <1>0 DEF Written, Rows
  <1>7. Unborn.there = FALSE /\ Unborn.read = FALSE /\ Deleted.there = FALSE /\ Deleted.read = TRUE /\ Deleted.digest = FALSE
    BY DEF Unborn, Deleted
  <1> QED
    BY <1>0, <1>1, <1>2, <1>3, <1>4, <1>5, <1>6, <1>7, Zenon DEF Requested, Open

LEMMA OwnPushStep == ASSUME TypeOK, OwnPush, [Next]_vars PROVE OwnPush'
  <1>1. ASSUME worker' = worker PROVE OwnPush'
    BY <1>1 DEF OwnPush, IsDigest, Job
  <1>2. ASSUME worker'.step \notin {"aggregate", "enqueue"} PROVE OwnPush'
    BY <1>2 DEF OwnPush
  <1>3. ASSUME Requested \/ MarkRead PROVE worker' = worker
    BY <1>3 DEF Requested, Remove, Quietly, Block, Mute, Reveal, Hide, Emit, MarkRead
  <1>4. ASSUME (\E j \in Jobs : Fetch(j) \/ Drop(j)) \/ Due \/ Die PROVE OwnPush'
    BY <1>1, <1>2, <1>4, Moves DEF Fetch, Drop, Due, Die
  <1>5. CASE View
    <2>1. CASE Alone
      BY <2>1, Moves DEF Alone, OwnPush, IsDigest, Job
    <2>2. CASE ~Alone
      BY <1>2, <1>5, <2>2, Moves DEF View, Gone, Refused, Quiet, Together
    <2> QED
      BY <2>1, <2>2
  <1>6. CASE Aggregate
    BY <1>6, Moves DEF Aggregate, OwnPush, IsDigest, Job
  <1>7. CASE Defer \/ Enqueue \/ Clear \/ Skip \/ Limit \/ Named \/ Final \/ Complete
    BY <1>2, <1>7, Moves DEF Defer, Enqueue, Clear, Skip, Limit, Named, Final, Complete
  <1>8. CASE Send
    <2>1. worker \in [step : {"idle", "view", "defer", "aggregate", "enqueue", "done"} \cup Closing,
                     job : Jobs, names : SUBSET Actors, digest : BOOLEAN, sent : BOOLEAN]
      BY JobRow DEF Workers
    <2>2. [worker EXCEPT !.step = "named", !.sent = TRUE].step = "named"
      BY <2>1
    <2>3. worker' = [worker EXCEPT !.step = "named", !.sent = TRUE] \/ Doing("final")
      BY <1>8 DEF Send
    <2>4. worker'.step \in {"named", "final"}
      BY <2>2, <2>3, Moves
    <2> QED
      BY <1>2, <2>4
  <1>9. CASE UNCHANGED vars
    BY <1>1, <1>9 DEF vars
  <1> QED
    BY <1>1, <1>3, <1>4, <1>5, <1>6, <1>7, <1>8, <1>9 DEF Next, Deliver

LEMMA UnchangedStep == ASSUME TypeOK, Unchanged, [Next]_vars PROVE Unchanged'
  <1> DEFINE Pushing == {"limit", "send", "named", "final"}
  <1>1. ASSUME worker'.step \notin Pushing PROVE Unchanged'
    BY <1>1 DEF Unchanged
  <1>2. ASSUME worker' = worker, group' = group PROVE Unchanged'
    BY <1>2 DEF Unchanged, Row, Job
  <1>3. CASE Requested \/ MarkRead
    BY <1>3, RequestRows, JobRow DEF Unchanged, Row, Job, Unborn
  <1>4. CASE (\E j \in Jobs : Fetch(j) \/ Drop(j)) \/ Due \/ Die
    BY <1>1, <1>2, <1>4, Moves DEF Fetch, Drop, Due, Die
  <1>5. CASE View
    <2>1. CASE Wanted
      BY <1>1, <1>5, <2>1, Moves DEF View, Wanted, Gone, Refused, Quiet, Alone, Together, Unchanged, Row, Job
    <2>2. CASE ~Wanted
      BY <1>1, <1>5, <2>2, Moves DEF View, Gone, Refused, Quiet, Alone, Together
    <2> QED
      BY <2>1, <2>2
  <1>6. CASE Limit \/ Send
    BY <1>6, JobRow DEF Limit, Send, Doing, Unchanged, Row, Job, Workers
  <1>7. CASE Named
    BY <1>7, JobRow DEF Named, Doing, Unchanged, Updated, Row, Job, Workers, Rows, TypeOK
  <1>8. CASE Defer \/ Aggregate \/ Enqueue \/ Clear \/ Skip \/ Final \/ Complete
    BY <1>1, <1>8, Moves DEF Defer, Aggregate, Enqueue, Clear, Skip, Final, Complete
  <1>9. CASE UNCHANGED vars
    BY <1>2, <1>9 DEF vars
  <1> QED
    BY <1>3, <1>4, <1>5, <1>6, <1>7, <1>8, <1>9 DEF Next, Deliver

-----------------------------------------------------------------------------
(* Every group that waits for a digest gets one.                           *)

\* One group.
Queued(g) == (kind = "like" /\ group[g].state = "queued") \/ group[g].digest

\* Its digests wait, or one is at work.
Waits(g) == \E j \in Digests(g) : waiting[j] + later[j] > 0
AtWork(g) == Job \in Digests(g) /\ worker.step \notin {"idle", "done"}

LEMMA WaysSame ==
  ASSUME TypeOK, TypeOK', NEW g \in Groups
  PROVE  /\ OnItsWay(g) <=> Waits(g) \/ AtWork(g) \/ (Job[1] = g /\ worker.step = "enqueue")
         /\ OnItsWay(g)' <=> Waits(g)' \/ AtWork(g)' \/ (worker'.job[1] = g /\ worker'.step = "enqueue")
         /\ (\A j \in Digests(g) : waiting'[j] >= waiting[j] /\ later'[j] >= later[j]) => (Waits(g) => Waits(g)')
         /\ \A j \in Digests(g) : waiting'[j] + later'[j] > 0 => Waits(g)'
         /\ worker' = worker => (AtWork(g)' <=> AtWork(g))
         /\ Digests(g) \subseteq Jobs /\ Digest(g) \in Digests(g)
  <1>1. Digests(g) \subseteq Jobs /\ Digests(g)' = Digests(g) /\ Digest(g) \in Digests(g)
    BY JobTypes DEF Digests, Digest
  <1>2. \A j \in Jobs : waiting[j] \in Nat /\ later[j] \in Nat /\ waiting'[j] \in Nat /\ later'[j] \in Nat
    BY DEF TypeOK
  <1>3. OnItsWay(g) <=> Waits(g) \/ AtWork(g) \/ (Job[1] = g /\ worker.step = "enqueue")
    BY DEF OnItsWay, Waits, AtWork
  <1>4. OnItsWay(g)' <=> Waits(g)' \/ AtWork(g)' \/ (worker'.job[1] = g /\ worker'.step = "enqueue")
    BY DEF OnItsWay, Waits, AtWork, Job
  <1>5. (\A j \in Digests(g) : waiting'[j] >= waiting[j] /\ later'[j] >= later[j]) => (Waits(g) => Waits(g)')
    BY <1>1, <1>2 DEF Waits
  <1>6. \A j \in Digests(g) : waiting'[j] + later'[j] > 0 => Waits(g)'
    BY <1>1 DEF Waits
  <1>7. worker' = worker => (AtWork(g)' <=> AtWork(g))
    BY <1>1 DEF AtWork, Job
  <1> QED
    BY <1>1, <1>3, <1>4, <1>5, <1>6, <1>7

\* One more job of some sort.
LEMMA OneMore ==
  ASSUME NEW old \in [Jobs -> Nat], NEW j \in Jobs, NEW new, new = [old EXCEPT ![j] = @ + 1]
  PROVE  new[j] = old[j] + 1 /\ \A k \in Jobs : new[k] >= old[k] /\ (k # j => new[k] = old[k])
  OBVIOUS

LEMMA RequestQueued ==
  ASSUME TypeOK, TypeOK', QueuedHasJob, Requested \/ MarkRead, NEW g \in Groups, Open(g)', Queued(g)'
  PROVE  OnItsWay(g)' \/ g \in silent'
  <1>1. worker' = worker /\ kind' = kind /\ silent' = silent
    BY RequestRows
  <1>2. waiting \in [Jobs -> Nat] /\ later \in [Jobs -> Nat] /\ Digests(g) \subseteq Jobs
    BY WaysSame DEF TypeOK
  <1>3. ASSUME Open(g), Queued(g), \A j \in Jobs : waiting'[j] >= waiting[j] /\ later'[j] >= later[j]
        PROVE  OnItsWay(g)' \/ g \in silent'
    BY <1>1, <1>2, <1>3, WaysSame DEF QueuedHasJob, Queued, Job
  <1>4. UNCHANGED queue => \A j \in Jobs : waiting'[j] >= waiting[j] /\ later'[j] >= later[j]
    BY <1>2 DEF queue
  <1>5. CASE MarkRead
    BY <1>1, <1>3, <1>4, <1>5 DEF MarkRead, Open, Queued, TypeOK
  <1>6. ASSUME NEW a \in Actors, Remove(a) \/ Quietly(a) \/ Block(a) \/ Mute(a) \/ Reveal(a)
        PROVE  OnItsWay(g)' \/ g \in silent'
    <2>1. group'[g] \in {group[g], Left(g, a)} /\ UNCHANGED queue
      BY <1>6 DEF Remove, Quietly, Block, Mute, Reveal, Hide
    <2>2. Open(g) /\ Queued(g)
      <3>1. group[g] \in Rows
        BY DEF TypeOK
      <3>2. \/ ~Left(g, a).there
            \/ /\ Left(g, a).there = group[g].there /\ Left(g, a).read = group[g].read
               /\ Left(g, a).state = group[g].state /\ Left(g, a).digest = group[g].digest
        BY <3>1 DEF Left, Deleted, Unborn, Rows
      <3> QED
        BY <1>1, <2>1, <3>2, Zenon DEF Open, Queued
    <2> QED
      BY <1>3, <1>4, <2>1, <2>2
  <1>7. ASSUME NEW a \in Actors, NEW wants \in BOOLEAN, Emit(a, wants) PROVE OnItsWay(g)' \/ g \in silent'
    <2>1. PICK h \in Groups :
              /\ Open(h) \/ group[h] = Unborn
              /\ group' = [group EXCEPT ![h] = Written(h, a, wants)]
              /\ later' = IF wants /\ kind = "like" /\ Queues(h) THEN [later EXCEPT ![Digest(h)] = @ + 1] ELSE later
              /\ waiting' = IF wants /\ kind = "follow" THEN [waiting EXCEPT ![Single(h, a)] = @ + 1] ELSE waiting
      BY <1>7 DEF Emit, Joined
    <2>2. \A j \in Jobs : waiting'[j] >= waiting[j] /\ later'[j] >= later[j]
      BY <1>2, <2>1, JobTypes, OneMore
    <2>3. CASE h # g
      BY <1>1, <1>3, <2>1, <2>2, <2>3 DEF Open, Queued, TypeOK
    <2>4. CASE h = g /\ wants /\ kind = "like" /\ Queues(g)
      <3>1. later'[Digest(g)] = later[Digest(g)] + 1 /\ waiting'[Digest(g)] \in Nat /\ later[Digest(g)] \in Nat
        BY <1>2, <2>1, <2>4, JobTypes DEF TypeOK
      <3> QED
        BY <3>1, WaysSame
    <2>5. CASE h = g /\ ~(wants /\ kind = "like" /\ Queues(g))
      <3>1. group[g] \in Rows /\ group'[g] = Written(g, a, wants)
        BY <2>1, <2>5 DEF TypeOK
      <3>2. Queued(g)
        BY <1>1, <2>5, <3>1 DEF Queued, Written, Queues, Rows
      <3>3. group[g] # Unborn
        BY <3>2 DEF Queued, Unborn
      <3> QED
        BY <1>3, <2>1, <2>2, <2>5, <3>2, <3>3
    <2> QED
      BY <2>3, <2>4, <2>5
  <1> QED
    BY <1>5, <1>6, <1>7 DEF Requested

LEMMA QueueQueued ==
  ASSUME TypeOK, TypeOK', QueuedHasJob, OwnPush, (\E j \in Jobs : Fetch(j) \/ Drop(j)) \/ Due \/ Die,
         NEW g \in Groups, Open(g)', Queued(g)'
  PROVE  OnItsWay(g)' \/ g \in silent'
  <1>1. group' = group /\ kind' = kind
    BY DEF Fetch, Drop, Due, Die
  <1>2. waiting \in [Jobs -> Nat] /\ later \in [Jobs -> Nat] /\ Digests(g) \subseteq Jobs
    BY WaysSame DEF TypeOK
  <1>3. Open(g) /\ (OnItsWay(g) \/ g \in silent)
    BY <1>1 DEF QueuedHasJob, Open, Queued
  <1>4. Silenced(g) = {g}
    BY <1>3 DEF Silenced
  \* A job that is taken was another one, or was this group's.
  <1>5. ASSUME NEW j \in Jobs, waiting' = [waiting EXCEPT ![j] = @ - 1], later' = later, j \notin Digests(g)
        PROVE  Waits(g) => Waits(g)'
    <2>1. \A k \in Digests(g) : waiting'[k] >= waiting[k] /\ later'[k] >= later[k]
      BY <1>2, <1>5
    <2> QED
      BY <2>1, WaysSame
  <1>6. ASSUME NEW j \in Jobs, Fetch(j) PROVE OnItsWay(g)' \/ g \in silent'
    <2>1. /\ worker.step = "idle" /\ silent' = silent /\ later' = later
          /\ waiting' = [waiting EXCEPT ![j] = @ - 1]
          /\ worker' = [Idle EXCEPT !.step = "view", !.job = j]
      BY <1>6 DEF Fetch, history
    <2>2. worker'.step = "view" /\ worker'.job = j
      BY <2>1, Moves
    <2>3. CASE j \in Digests(g)
      BY <2>2, <2>3, WaysSame DEF AtWork, Job, Digests
    <2>4. CASE j \notin Digests(g)
      BY <1>3, <1>5, <2>1, <2>4, WaysSame DEF AtWork
    <2> QED
      BY <2>3, <2>4
  <1>7. ASSUME NEW j \in Jobs, Drop(j) PROVE OnItsWay(g)' \/ g \in silent'
    <2>1. /\ worker' = worker /\ later' = later /\ waiting' = [waiting EXCEPT ![j] = @ - 1]
          /\ silent' = IF j[2] = {} THEN silent \cup Silenced(j[1]) ELSE silent
      BY <1>7 DEF Drop, Lost
    <2>2. CASE j \in Digests(g)
      BY <1>4, <2>1, <2>2 DEF Digests
    <2>3. CASE j \notin Digests(g)
      BY <1>3, <1>5, <2>1, <2>3, WaysSame DEF Job
    <2> QED
      BY <2>2, <2>3
  <1>8. CASE Due
    <2>1. /\ waiting' = [j \in Jobs |-> waiting[j] + later[j]] /\ later' = [j \in Jobs |-> 0]
          /\ worker' = worker /\ silent' = silent
      BY <1>8 DEF Due, history
    <2>2. \A j \in Digests(g) : waiting'[j] + later'[j] = waiting[j] + later[j]
      BY <1>2, <2>1
    <2>3. Waits(g) => Waits(g)'
      BY <2>2, WaysSame DEF Waits
    <2> QED
      BY <1>3, <2>1, <2>3, WaysSame DEF Job
  <1>9. CASE Die
    <2>1. later' = later /\ worker.step # "idle" /\ (Again \/ GivenUp)
      BY <1>9 DEF Die
    <2>2. Waits(g) => Waits(g)'
      <3>1. \A j \in Jobs : waiting'[j] >= waiting[j] /\ later'[j] >= later[j]
        BY <1>2, <2>1, JobAgain, OneMore DEF Again, GivenUp
      <3> QED
        BY <1>2, <3>1, WaysSame
    <2>3. silent \subseteq silent'
      BY <2>1 DEF Again, GivenUp, Lost
    <2>4. CASE Job[1] = g /\ worker.step = "enqueue"
      BY <1>4, <2>1, <2>4 DEF Again, GivenUp
    <2>5. CASE AtWork(g) /\ Again
      <3> DEFINE j == <<Job[1], Job[2], Job[3] + 1>>
      <3>1. j \in Jobs /\ waiting' = [waiting EXCEPT ![j] = @ + 1]
        BY <2>5, JobAgain DEF Again
      <3>2. j \in Digests(g)
        BY <2>5, <3>1 DEF AtWork, Digests
      <3> HIDE DEF j
      <3>3. waiting'[j] + later'[j] > 0
        BY <1>2, <2>1, <3>1, OneMore
      <3> QED
        BY <3>2, <3>3, WaysSame
    <2>6. CASE AtWork(g) /\ GivenUp
      BY <1>4, <2>6 DEF AtWork, GivenUp, Lost, Digests
    <2> QED
      BY <1>3, <2>1, <2>2, <2>3, <2>4, <2>5, <2>6, WaysSame
  <1> QED
    BY <1>6, <1>7, <1>8, <1>9

\* A delivery ends for a group only after it has settled the group's row.
LEMMA DeliverQueued ==
  ASSUME TypeOK, TypeOK', OwnPush, Unchanged, QueuedHasJob, Deliver, NEW g \in Groups, Open(g)', Queued(g)'
  PROVE  OnItsWay(g)' \/ g \in silent'
  <1>1. waiting \in [Jobs -> Nat] /\ later \in [Jobs -> Nat] /\ Digests(g) \subseteq Jobs
    BY WaysSame DEF TypeOK
  <1>2. waiting' = waiting /\ kind' = kind /\ silent \subseteq silent' /\ group[g] \in Rows
    BY DEF Deliver, View, Defer, Aggregate, Enqueue, Clear, Skip, Limit, Send, Named, Final, Complete, queue, history, TypeOK
  \* The jobs that wait stay; a digest at work goes on unless it ends here.
  <1>3. ASSUME Open(g), Queued(g), \A j \in Jobs : later'[j] >= later[j],
               \/ worker'.job = Job /\ worker'.step \notin {"idle", "done"} /\ worker.step # "enqueue"
               \/ Job \notin Digests(g) /\ ~(Job[1] = g /\ worker.step = "enqueue")
               \/ worker.step = "done"
        PROVE  OnItsWay(g)' \/ g \in silent'
    <2>1. OnItsWay(g) \/ g \in silent
      BY <1>3 DEF QueuedHasJob, Queued
    <2>2. Waits(g) => Waits(g)'
      BY <1>1, <1>2, <1>3, WaysSame
    <2>3. worker'.job = Job /\ worker'.step \notin {"idle", "done"} /\ AtWork(g) => AtWork(g)'
      BY DEF AtWork, Job, Digests
    <2> QED
      BY <1>2, <1>3, <2>1, <2>2, <2>3, WaysSame DEF AtWork
  <1>0. later' = later => \A j \in Jobs : later'[j] >= later[j]
    BY <1>1
  <1>4. ASSUME group' = group PROVE Open(g) /\ Queued(g)
    BY <1>2, <1>4 DEF Open, Queued
  <1>5. CASE View
    <2>1. group' = group /\ later' = later /\ worker.step = "view"
      BY <1>5 DEF View, queue
    <2>2. CASE Gone
      <3>1. Job \notin Digests(g)
        BY <2>1, <2>2 DEF Gone, Digests, Row, Open
      <3> QED
        BY <1>0, <1>3, <1>4, <2>1, <3>1
    <2>3. CASE Alone
      BY <1>0, <1>3, <1>4, <2>1, <2>3, JobRow DEF Alone
    <2>4. CASE Refused \/ Quiet \/ Together
      BY <1>0, <1>3, <1>4, <2>1, <2>4, Moves DEF Refused, Quiet, Together
    <2> QED
      BY <1>5, <2>2, <2>3, <2>4 DEF View
  <1>6. CASE Defer
    <2> DEFINE j == <<Job[1], Job[2], 0>>
    <2>1. group' = group /\ worker.step = "defer" /\ j \in Jobs /\ later' = [later EXCEPT ![j] = @ + 1]
      BY <1>6, JobAgain DEF Defer
    <2>2. Job \in Digests(g) => j \in Digests(g)
      BY <2>1 DEF Digests
    <2> HIDE DEF j
    <2>3. later'[j] = later[j] + 1 /\ \A k \in Jobs : later'[k] >= later[k]
      BY <1>1, <2>1, OneMore
    <2>4. CASE Job \in Digests(g)
      BY <1>1, <1>2, <2>1, <2>2, <2>3, <2>4, WaysSame
    <2>5. CASE Job \notin Digests(g)
      BY <1>3, <1>4, <2>1, <2>3, <2>5
    <2> QED
      BY <2>4, <2>5
  <1>7. CASE Aggregate
    <2>1. /\ worker.step = "aggregate" /\ later' = later /\ Job \notin Digests(g)
          /\ group' = Updated([Row EXCEPT !.digest = TRUE])
      BY <1>7 DEF Aggregate, OwnPush, IsDigest, Digests, queue
    <2>2. CASE Job[1] = g /\ Row.there /\ ~Row.digest
      <3>1. worker'.step = "enqueue" /\ worker'.job = Job
        BY <1>7, <2>2, Moves DEF Aggregate
      <3> QED
        BY <2>2, <3>1, WaysSame
    <2>3. CASE Job[1] # g
      <3>1. group'[g] = group[g]
        BY <2>1, <2>3 DEF Updated, TypeOK
      <3> QED
        BY <1>0, <1>2, <1>3, <2>1, <3>1 DEF Open, Queued
    <2>4. CASE Job[1] = g /\ ~(Row.there /\ ~Row.digest)
      <3>1. group'[g] = IF group[g].there THEN [group[g] EXCEPT !.digest = TRUE] ELSE group[g]
        BY <2>1, <2>4, JobRow DEF Updated, Row, TypeOK
      <3>2. Open(g) /\ Queued(g)
        BY <1>2, <2>4, <3>1 DEF Open, Queued, Row, Rows
      <3> QED
        BY <1>0, <1>3, <2>1, <3>2
    <2> QED
      BY <2>2, <2>3, <2>4
  <1>8. CASE Enqueue
    <2> DEFINE j == Digest(Job[1])
    <2>1. /\ group' = group /\ worker.step = "enqueue" /\ j \in Jobs /\ later' = [later EXCEPT ![j] = @ + 1]
          /\ Job \notin Digests(g) /\ (Job[1] = g => j \in Digests(g))
      BY <1>8, JobRow, JobTypes, WaysSame DEF Enqueue, OwnPush, IsDigest, Digests
    <2> HIDE DEF j
    <2>2. later'[j] = later[j] + 1 /\ \A k \in Jobs : later'[k] >= later[k]
      BY <1>1, <2>1, OneMore
    <2>3. CASE Job[1] = g
      BY <1>1, <1>2, <2>1, <2>2, <2>3, WaysSame
    <2>4. CASE Job[1] # g
      BY <1>3, <1>4, <2>1, <2>2, <2>4
    <2> QED
      BY <2>3, <2>4
  <1>9. CASE Clear
    <2>1. /\ worker.step = "clear" /\ later' = later /\ worker'.step = "skip" /\ worker'.job = Job
          /\ group' = Updated([Row EXCEPT !.digest = FALSE])
      BY <1>9, Moves DEF Clear, queue
    <2>2. group'[g] = group[g] \/ group'[g] = [group[g] EXCEPT !.digest = FALSE]
      BY <2>1, JobRow DEF Updated, Row, TypeOK
    <2>3. Open(g) /\ Queued(g)
      BY <1>2, <2>2 DEF Open, Queued, Rows
    <2> QED
      BY <1>0, <1>3, <2>1, <2>3
  <1>10. CASE Skip
    <2>1. /\ worker.step = "skip" /\ later' = later
          /\ group' = Updated([Row EXCEPT !.state = "skipped"])
          /\ silent' = IF IsDigest /\ Row.digest THEN silent \cup Silenced(Job[1]) ELSE silent
      BY <1>10 DEF Skip, queue
    <2>2. CASE Job[1] # g
      <3>1. group'[g] = group[g]
        BY <2>1, <2>2 DEF Updated, TypeOK
      <3> QED
        BY <1>0, <1>2, <1>3, <2>1, <2>2, <3>1 DEF Open, Queued, Digests
    <2>3. CASE Job[1] = g
      <3>1. group'[g] = IF group[g].there THEN [group[g] EXCEPT !.state = "skipped"] ELSE group[g]
        BY <2>1, <2>3, JobRow DEF Updated, Row, TypeOK
      <3>2. Open(g) /\ group[g].digest
        BY <1>2, <3>1 DEF Open, Queued, Rows
      <3>3. CASE IsDigest
        BY <2>1, <2>3, <3>2, <3>3 DEF Row, Silenced
      <3>4. CASE ~IsDigest
        BY <1>0, <1>3, <2>1, <3>2, <3>4, JobRow DEF Queued
      <3> QED
        BY <3>3, <3>4
    <2> QED
      BY <2>2, <2>3
  <1>11. CASE Limit \/ Send
    <2>1. group' = group /\ later' = later /\ worker.step \in {"limit", "send"}
      BY <1>11 DEF Limit, Send, queue
    <2>2. worker'.job = Job /\ worker'.step \notin {"idle", "done"}
      <3>1. CASE Limit
        BY <3>1, Moves DEF Limit
      <3>2. CASE Send
        <4>1. worker \in [step : {"idle", "view", "defer", "aggregate", "enqueue", "done"} \cup Closing,
                          job : Jobs, names : SUBSET Actors, digest : BOOLEAN, sent : BOOLEAN]
          BY JobRow DEF Workers
        <4>2. /\ [worker EXCEPT !.step = "named", !.sent = TRUE].step = "named"
              /\ [worker EXCEPT !.step = "named", !.sent = TRUE].job = Job
          BY <4>1 DEF Job
        <4>3. worker' = [worker EXCEPT !.step = "named", !.sent = TRUE] \/ Doing("final")
          BY <3>2 DEF Send
        <4>4. CASE worker' = [worker EXCEPT !.step = "named", !.sent = TRUE]
          BY <4>2, <4>4
        <4>5. CASE Doing("final")
          BY <4>5, Moves
        <4> QED
          BY <4>3, <4>4, <4>5
      <3> QED
        BY <1>11, <3>1, <3>2
    <2> QED
      BY <1>0, <1>3, <1>4, <2>1, <2>2
  <1>12. CASE Named
    <2>1. /\ worker.step = "named" /\ later' = later /\ worker'.step = "final" /\ worker'.job = Job
          /\ group' = Updated([Row EXCEPT !.pushed = @ \cup (worker.names \cap Row.who)])
      BY <1>12, Moves DEF Named, queue
    <2>2. group'[g] = group[g] \/ group'[g] = [group[g] EXCEPT !.pushed = @ \cup (worker.names \cap group[g].who)]
      BY <2>1, JobRow DEF Updated, Row, TypeOK
    <2>3. Open(g) /\ Queued(g)
      BY <1>2, <2>2 DEF Open, Queued, Rows
    <2> QED
      BY <1>0, <1>3, <2>1, <2>3
  <1>13. CASE Final
    <2>1. worker.step = "final" /\ later' = later /\ group' = Updated(FinalRow)
      BY <1>13 DEF Final, queue
    <2>2. CASE Job[1] # g
      <3>1. group'[g] = group[g]
        BY <2>1, <2>2 DEF Updated, TypeOK
      <3> QED
        BY <1>0, <1>2, <1>3, <2>1, <2>2, <3>1 DEF Open, Queued, Digests
    <2>3. CASE Job[1] = g
      <3>1. group'[g] = IF group[g].there THEN FinalRow ELSE group[g]
        BY <2>1, <2>3, JobRow DEF Updated, TypeOK
      <3>2. group[g].there
        BY <3>1 DEF Open
      <3>3. /\ FinalRow.there = group[g].there /\ FinalRow.read = group[g].read
            /\ FinalRow.state # "queued"
            /\ FinalRow.digest = IF IsDigest THEN FALSE ELSE worker.digest
        BY <1>2, <2>3 DEF FinalRow, Row, Rows
      <3>4. ~IsDigest /\ worker.digest = group[g].digest
        BY <2>1, <2>3, <3>1, <3>2, <3>3 DEF Queued, Unchanged, Row
      <3>5. Open(g) /\ Queued(g)
        BY <3>1, <3>2, <3>3, <3>4 DEF Open, Queued
      <3> QED
        BY <1>0, <1>3, <2>1, <3>4, <3>5, JobRow
    <2> QED
      BY <2>2, <2>3
  <1>14. CASE Complete
    BY <1>0, <1>2, <1>3, <1>4, <1>14 DEF Complete, queue
  <1> QED
    BY <1>5, <1>6, <1>7, <1>8, <1>9, <1>10, <1>11, <1>12, <1>13, <1>14 DEF Deliver

LEMMA NextInv == Inv /\ [Next]_vars => Inv'
  <1>1. SUFFICES ASSUME Inv, [Next]_vars PROVE Inv'
    OBVIOUS
  <1>2. TypeOK' /\ OwnPush' /\ Unchanged'
    BY <1>1, NextTypes, OwnPushStep, UnchangedStep DEF Inv
  <1>3. QueuedHasJob'
    <2>1. CASE UNCHANGED vars
      BY <1>1, <2>1, Zenon DEF Inv, vars, queue, history, QueuedHasJob, Open, OnItsWay, Digests, Job
    <2>2. ASSUME NEW g \in Groups, Open(g)', Queued(g)', Next PROVE OnItsWay(g)' \/ g \in silent'
      BY <1>1, <1>2, <2>2, RequestQueued, QueueQueued, DeliverQueued DEF Inv, Next
    <2> QED
      BY <1>1, <2>1, <2>2 DEF QueuedHasJob, Queued
  <1> QED
    BY <1>2, <1>3 DEF Inv

(* The types, for every instance.                                          *)
THEOREM TypeCorrect == Spec => []TypeOK
  <1>1. Inv => TypeOK
    BY DEF Inv
  <1> QED
    BY InitInv, NextInv, <1>1, PTL DEF Spec

(* No group that asks for no digest is without one, unless its own was      *)
(* lost: pg-boss dropped it or gave it up after any number of retries, its  *)
(* worker died between setting digest_at and queueing, or a rule skipped it *)
(* (notify/delivery.ts).                                                    *)
THEOREM QueuedCorrect == Spec => []QueuedHasJob
  <1>1. Inv => QueuedHasJob
    BY DEF Inv
  <1> QED
    BY InitInv, NextInv, <1>1, PTL DEF Spec

-----------------------------------------------------------------------------
(* How often an actor is told of. The number of pushes that name them, and *)
(* of those that still may, is covered by what they have asked for and by  *)
(* the deaths of the worker.                                               *)

\* One row at most is open (notifications_open_group_uq).
OneOpen == \A g, h \in Groups : Open(g) /\ Open(h) => g = h

\* A push of one actor names no other.
OwnName == worker.step # "idle" /\ ~IsDigest => worker.names \subseteq Job[2]

\* The pushes of their own that wait, one slip each.
Slip(j) == waiting[j] + later[j]
Slips(a) == {s \in Jobs \X (Nat \ {0}) : s[1][2] = {a} /\ s[2] <= Slip(s[1])}
Slipped(a) == Cardinality(Slips(a))

\* The one the worker has and has not sent.
OnHand(a) == IF worker.step \in {"view", "defer", "limit", "send"} /\ Job[2] = {a} THEN 1 ELSE 0

\* A digest may name them: one of the worker's row, which is naming them or has
\* them still to name, and one of another row.
Unnamed(g, a) == Open(g) /\ a \in group[g].who \ group[g].pushed
Naming(a, steps) == IsDigest /\ worker.step \in steps /\ a \in worker.names
Here(a) ==
    IF Naming(a, {"limit", "send"}) \/ (Unnamed(Job[1], a) /\ ~Naming(a, {"named"})) THEN 1 ELSE 0
Elsewhere(a) == IF \E g \in Groups \ {Job[1]} : Unnamed(g, a) THEN 1 ELSE 0

Allowed(a) == IF kind = "like" THEN asked[a] ELSE 2 * asked[a]

Budget(a) ==
    /\ IsFiniteSet(Slips(a))
    /\ told[a] + Slipped(a) + OnHand(a) + Elsewhere(a) + Here(a) <= Allowed(a) + deaths

Covered == OneOpen /\ OwnName /\ \A a \in Actors : Budget(a)

\* The slips.
LEMMA SlipTypes == ASSUME TypeOK PROVE \A j \in Jobs : Slip(j) \in Nat
  BY DEF Slip, TypeOK

LEMMA SlipsSame ==
    ASSUME NEW a, \A j \in Jobs : j[2] = {a} => Slip(j)' = Slip(j)
    PROVE  Slips(a)' = Slips(a) /\ Slipped(a)' = Slipped(a)
  BY DEF Slips, Slipped

LEMMA SlipsMore ==
    ASSUME NEW a, NEW g \in Jobs, g[2] = {a}, Slip(g) \in Nat, Slip(g)' = Slip(g) + 1,
           \A h \in Jobs \ {g} : h[2] = {a} => Slip(h)' = Slip(h),
           IsFiniteSet(Slips(a))
    PROVE  IsFiniteSet(Slips(a)') /\ Slipped(a)' = Slipped(a) + 1
  <1> DEFINE s == <<g, Slip(g) + 1>>
  <1>1. s \notin Slips(a)
    BY DEF Slips
  <1>2. Slips(a)' = Slips(a) \cup {s}
    <2>1. \A t \in Jobs \X (Nat \ {0}) : t[1][2] = {a} =>
              (t[2] <= Slip(t[1])' <=> t[2] <= Slip(t[1]) \/ t = s)
      <3> SUFFICES ASSUME NEW h \in Jobs, NEW n \in Nat \ {0}, h[2] = {a}
                   PROVE  n <= Slip(h)' <=> n <= Slip(h) \/ <<h, n>> = s
        OBVIOUS
      <3>1. CASE h = g
        BY <3>1
      <3>2. CASE h # g
        BY <3>2
      <3> QED
        BY <3>1, <3>2
    <2>2. s \in Jobs \X (Nat \ {0}) /\ s[1][2] = {a}
      OBVIOUS
    <2> HIDE DEF s
    <2> QED
      BY <2>1, <2>2 DEF Slips
  <1> HIDE DEF s
  <1> QED
    BY <1>1, <1>2, FS_AddElement DEF Slipped

LEMMA SlipsLess ==
    ASSUME NEW a, NEW g \in Jobs, g[2] = {a}, Slip(g) \in Nat \ {0}, Slip(g)' = Slip(g) - 1,
           \A h \in Jobs \ {g} : h[2] = {a} => Slip(h)' = Slip(h),
           IsFiniteSet(Slips(a))
    PROVE  IsFiniteSet(Slips(a)') /\ Slipped(a)' = Slipped(a) - 1
  <1> DEFINE s == <<g, Slip(g)>>
  <1>1. s \in Slips(a)
    BY DEF Slips
  <1>2. Slips(a)' = Slips(a) \ {s}
    <2>1. \A t \in Jobs \X (Nat \ {0}) : t[1][2] = {a} =>
              (t[2] <= Slip(t[1])' <=> t[2] <= Slip(t[1]) /\ t # s)
      <3> SUFFICES ASSUME NEW h \in Jobs, NEW n \in Nat \ {0}, h[2] = {a}
                   PROVE  n <= Slip(h)' <=> n <= Slip(h) /\ <<h, n>> # s
        OBVIOUS
      <3>1. CASE h = g
        BY <3>1
      <3>2. CASE h # g
        BY <3>2
      <3> QED
        BY <3>1, <3>2
    <2> HIDE DEF s
    <2> QED
      BY <2>1 DEF Slips
  <1> HIDE DEF s
  <1> QED
    BY <1>1, <1>2, FS_RemoveElement DEF Slipped

\* The numbers of a budget.
LEMMA Numbers ==
    ASSUME TypeOK, NEW a \in Actors, IsFiniteSet(Slips(a))
    PROVE  /\ told[a] \in Nat /\ Slipped(a) \in Nat /\ Allowed(a) \in Nat /\ deaths \in Nat
           /\ asked[a] \in Nat
           /\ OnHand(a) \in {0, 1} /\ Elsewhere(a) \in {0, 1} /\ Here(a) \in {0, 1}
  <1>1. Slipped(a) \in Nat
    BY FS_CardinalityType DEF Slipped
  <1>2. deaths \in Nat
    BY DEF TypeOK
  <1> QED
    BY <1>1, <1>2 DEF TypeOK, Allowed, OnHand, Elsewhere, Here

LEMMA NumbersNext ==
    ASSUME TypeOK', NEW a \in Actors, IsFiniteSet(Slips(a)')
    PROVE  /\ told'[a] \in Nat /\ Slipped(a)' \in Nat /\ Allowed(a)' \in Nat /\ deaths' \in Nat
           /\ asked'[a] \in Nat
           /\ OnHand(a)' \in {0, 1} /\ Elsewhere(a)' \in {0, 1} /\ Here(a)' \in {0, 1}
  <1>1. Slipped(a)' \in Nat
    BY FS_CardinalityType DEF Slipped
  <1>2. deaths' \in Nat
    BY DEF TypeOK
  <1> QED
    BY <1>1, <1>2 DEF TypeOK, Allowed, OnHand, Elsewhere, Here

\* Nobody is unnamed in two rows, so a worker that names nobody may be at any.
Anywhere(a) == \E g \in Groups : Unnamed(g, a)
Digesting(a) == Naming(a, {"limit", "send", "named"})

Spread ==
    TypeOK /\ OneOpen => \A a \in Actors :
        ~Digesting(a) => Elsewhere(a) + Here(a) = IF Anywhere(a) THEN 1 ELSE 0

LEMMA SpreadHolds == Spread
  <1> SUFFICES ASSUME TypeOK, OneOpen, NEW a \in Actors, ~Digesting(a)
               PROVE  Elsewhere(a) + Here(a) = IF Anywhere(a) THEN 1 ELSE 0
    BY DEF Spread
  <1>1. Job[1] \in Groups
    BY JobRow
  <1>2. \A g, h \in Groups : Unnamed(g, a) /\ Unnamed(h, a) => g = h
    BY DEF OneOpen, Unnamed
  <1>3. Here(a) = IF Unnamed(Job[1], a) THEN 1 ELSE 0
    BY DEF Digesting, Naming, Here
  <1>4. CASE Unnamed(Job[1], a)
    BY <1>1, <1>2, <1>3, <1>4 DEF Elsewhere, Anywhere
  <1>5. CASE ~Unnamed(Job[1], a)
    BY <1>1, <1>3, <1>5 DEF Elsewhere, Anywhere
  <1> QED
    BY <1>4, <1>5

LEMMA SpreadNext == Spread'
  BY SpreadHolds, PTL

\* A worker that stays where it is.
LEMMA SameWorker ==
    ASSUME NEW a \in Actors, worker' = worker
    PROVE  /\ OnHand(a)' = OnHand(a)
           /\ (\A g \in Groups : Unnamed(g, a)' => Unnamed(g, a)) /\ Job[1] \in Groups
              => Elsewhere(a)' <= Elsewhere(a) /\ Here(a)' <= Here(a)
  <1>1. Job' = Job /\ OnHand(a)' = OnHand(a)
    BY DEF Job, OnHand
  <1>2. \A steps : Naming(a, steps)' <=> Naming(a, steps)
    BY <1>1 DEF Naming, IsDigest
  <1>3. ASSUME \A g \in Groups : Unnamed(g, a)' => Unnamed(g, a), Job[1] \in Groups
        PROVE  Elsewhere(a)' <= Elsewhere(a) /\ Here(a)' <= Here(a)
    <2>1. (\E g \in Groups \ {Job[1]} : Unnamed(g, a)') => \E g \in Groups \ {Job[1]} : Unnamed(g, a)
      BY <1>3
    <2>2. Elsewhere(a)' = IF \E g \in Groups \ {Job[1]} : Unnamed(g, a)' THEN 1 ELSE 0
      BY <1>1 DEF Elsewhere
    <2>3. Elsewhere(a)' <= Elsewhere(a)
      BY <2>1, <2>2 DEF Elsewhere
    <2>4. Unnamed(Job[1], a)' => Unnamed(Job[1], a)
      <3>1. Unnamed(Job[1], a)' <=> group'[Job[1]].there /\ ~group'[Job[1]].read
                                     /\ a \in group'[Job[1]].who \ group'[Job[1]].pushed
        BY <1>1 DEF Unnamed, Open
      <3> QED
        BY <1>3, <3>1 DEF Unnamed, Open
    <2>5. Here(a)' = IF Naming(a, {"limit", "send"})' \/ (Unnamed(Job[1], a)' /\ ~Naming(a, {"named"})') THEN 1 ELSE 0
      BY DEF Here
    <2> QED
      BY <1>2, <2>3, <2>4, <2>5 DEF Here
  <1> QED
    BY <1>1, <1>3

\* Whom a step of the worker names.
LEMMA MovesNames ==
    ASSUME TypeOK
    PROVE  /\ Done => worker'.names = {}
           /\ \A step : Doing(step) => worker'.names = worker.names
           /\ \A step : Go(step, Names) => worker'.names = Names
           /\ Idle.names = {}
           /\ \A j \in Jobs : [Idle EXCEPT !.step = "view", !.job = j].names = {}
           /\ Send => /\ worker'.job = Job /\ worker'.names = worker.names
                      /\ worker'.step \in {"named", "final"}
                      /\ worker'.step = "named" =>
                            told' = [a \in Actors |-> told[a] + (IF a \in worker.names THEN 1 ELSE 0)]
                      /\ worker'.step = "final" => told' = told
  <1>1. worker \in Workers
    BY JobRow
  <1>2. Send => /\ worker'.job = Job /\ worker'.names = worker.names
                /\ worker'.step \in {"named", "final"}
                /\ worker'.step = "named" =>
                      told' = [a \in Actors |-> told[a] + (IF a \in worker.names THEN 1 ELSE 0)]
                /\ worker'.step = "final" => told' = told
    BY <1>1 DEF Send, Doing, Workers, Job
  <1>3. Done => worker'.names = {}
    BY DEF Done, Idle
  <1>4. \A step : Doing(step) => worker'.names = worker.names
    BY <1>1 DEF Doing, Workers
  <1>5. \A step : Go(step, Names) => worker'.names = Names
    BY <1>1 DEF Go, Workers
  <1>6. Idle.names = {} /\ \A j \in Jobs : [Idle EXCEPT !.step = "view", !.job = j].names = {}
    BY DEF Idle
  <1> QED
    BY <1>2, <1>3, <1>4, <1>5, <1>6

\* A delivery changes nobody's place in a row, and names who it pushed.
LEMMA DeliverRows ==
    ASSUME TypeOK, Deliver
    PROVE  /\ UNCHANGED <<kind, asked, waiting, deaths>>
           /\ \A g \in Groups :
                /\ group'[g].there = group[g].there /\ group'[g].read = group[g].read /\ group'[g].who = group[g].who
                /\ ~(Named /\ g = Job[1]) => group'[g].pushed = group[g].pushed
           /\ Named /\ Row.there => group'[Job[1]].pushed = Row.pushed \cup (worker.names \cap Row.who)
  <1>1. UNCHANGED <<kind, asked, waiting, deaths>>
    BY DEF Deliver, View, Defer, Aggregate, Enqueue, Clear, Skip, Limit, Send, Named, Final, Complete, world, queue, counts
  <1>2. \A g \in Groups : group[g] \in Rows
    BY DEF TypeOK
  <1>3. ASSUME NEW new \in Rows, group' = Updated(new), new.there = Row.there, new.read = Row.read, new.who = Row.who
        PROVE  /\ \A g \in Groups : /\ group'[g].there = group[g].there /\ group'[g].read = group[g].read /\ group'[g].who = group[g].who
                                    /\ new.pushed = Row.pushed \/ g # Job[1] => group'[g].pushed = group[g].pushed
               /\ Row.there => group'[Job[1]].pushed = new.pushed
    BY <1>3, JobRow DEF Updated, TypeOK, Row
  <1>4. ASSUME NEW new \in Rows, group' = Updated(new), new.there = Row.there, new.read = Row.read, new.who = Row.who, new.pushed = Row.pushed
        PROVE  \A g \in Groups : /\ group'[g].there = group[g].there /\ group'[g].read = group[g].read /\ group'[g].who = group[g].who
                                 /\ group'[g].pushed = group[g].pushed
    BY <1>3, <1>4
  <1>5. CASE Aggregate \/ Clear \/ Skip
    <2>1. PICK new : group' = Updated(new) /\ new \in {[Row EXCEPT !.digest = TRUE], [Row EXCEPT !.digest = FALSE], [Row EXCEPT !.state = "skipped"]}
      BY <1>5 DEF Aggregate, Clear, Skip
    <2>2. new \in Rows /\ new.there = Row.there /\ new.read = Row.read /\ new.who = Row.who /\ new.pushed = Row.pushed
      BY <2>1, JobRow DEF Rows
    <2>3. ~Named
      BY <1>5 DEF Aggregate, Clear, Skip, Named
    <2> QED
      BY <1>1, <1>4, <2>1, <2>2, <2>3
  <1>6. CASE Named
    <2> DEFINE new == [Row EXCEPT !.pushed = @ \cup (worker.names \cap Row.who)]
    <2>1. /\ new \in Rows /\ new.there = Row.there /\ new.read = Row.read /\ new.who = Row.who
          /\ new.pushed = Row.pushed \cup (worker.names \cap Row.who)
      BY JobRow DEF Rows
    <2>2. group' = Updated(new)
      BY <1>6 DEF Named
    <2> HIDE DEF new
    <2> QED
      BY <1>1, <1>3, <1>6, <2>1, <2>2
  <1>7. CASE Final
    <2>1. /\ FinalRow \in Rows /\ FinalRow.there = Row.there /\ FinalRow.read = Row.read /\ FinalRow.who = Row.who
          /\ FinalRow.pushed = Row.pushed
      BY JobRow DEF FinalRow, Rows, Workers
    <2>2. ~Named
      BY <1>7 DEF Final, Named
    <2> QED
      BY <1>1, <1>4, <1>7, <2>1, <2>2 DEF Final
  <1>8. CASE View \/ Defer \/ Enqueue \/ Limit \/ Send \/ Complete
    <2>1. group' = group
      BY <1>8 DEF View, Defer, Enqueue, Limit, Send, Complete
    <2>2. ~Named
      BY <1>8 DEF View, Defer, Enqueue, Limit, Send, Complete, Named
    <2> QED
      BY <1>1, <2>1, <2>2
  <1> QED
    BY <1>5, <1>6, <1>7, <1>8 DEF Deliver

LEMMA OneOpenStep ==
    ASSUME TypeOK, OneOpen, [Next]_vars
    PROVE  OneOpen'
  <1>1. ASSUME \A g \in Groups : Open(g)' => Open(g)
        PROVE  OneOpen'
    BY <1>1 DEF OneOpen
  <1>2. ASSUME group' = group PROVE OneOpen'
    BY <1>1, <1>2 DEF Open
  <1>3. CASE Deliver
    BY <1>1, <1>3, DeliverRows DEF Open
  <1>4. CASE (\E j \in Jobs : Fetch(j) \/ Drop(j)) \/ Due \/ Die \/ UNCHANGED vars
    BY <1>2, <1>4 DEF Fetch, Drop, Due, Die, vars
  <1>5. \A g \in Groups : group[g] \in Rows
    BY DEF TypeOK
  <1>6. CASE MarkRead
    BY <1>1, <1>5, <1>6 DEF MarkRead, Rows, Open
  <1>7. ASSUME NEW a \in Actors, Quietly(a) \/ Block(a) \/ Mute(a) \/ Reveal(a) PROVE OneOpen'
    BY <1>2, <1>7 DEF Quietly, Block, Mute, Reveal, Hide
  <1>8. ASSUME NEW a \in Actors, Remove(a) PROVE OneOpen'
    <2>1. \A g \in Groups : group'[g] = Left(g, a)
      BY <1>8 DEF Remove
    <2>2. \A g \in Groups : ~Left(g, a).there \/ (Left(g, a).there = group[g].there /\ Left(g, a).read = group[g].read)
      BY <1>5 DEF Left, Deleted, Unborn, Rows
    <2> QED
      BY <1>1, <2>1, <2>2 DEF Open
  <1>9. ASSUME NEW a \in Actors, NEW wants \in BOOLEAN, Emit(a, wants) PROVE OneOpen'
    <2>1. PICK g \in Groups : /\ Open(g) \/ \A h \in Groups : ~Open(h)
                              /\ group' = [group EXCEPT ![g] = Written(g, a, wants)]
      BY <1>9 DEF Emit, Joined
    <2>2. \A h \in Groups \ {g} : Open(h)' => Open(h)
      BY <2>1 DEF Open, TypeOK
    <2> QED
      BY <2>1, <2>2 DEF OneOpen
  <1> QED
    BY <1>3, <1>4, <1>6, <1>7, <1>8, <1>9 DEF Next, Requested

LEMMA OwnNameStep ==
    ASSUME TypeOK, OwnName, [Next]_vars
    PROVE  OwnName'
  <1>1. ASSUME (worker'.names = worker.names /\ worker.step # "idle") \/ worker'.names = {}, worker'.job = Job
        PROVE  OwnName'
    BY <1>1 DEF OwnName, IsDigest, Job
  <1>2. ASSUME worker'.step = "idle" PROVE OwnName'
    BY <1>2 DEF OwnName
  <1>3. ASSUME worker' = worker PROVE OwnName'
    BY <1>3 DEF OwnName, IsDigest, Job
  <1>4. CASE Requested \/ MarkRead
    BY <1>3, <1>4 DEF Requested, Remove, Quietly, Block, Mute, Reveal, Hide, Emit, MarkRead
  <1>5. ASSUME NEW j \in Jobs, Fetch(j) PROVE OwnName'
    <2>1. worker'.names = {}
      BY <1>5, MovesNames DEF Fetch
    <2> QED
      BY <2>1 DEF OwnName
  <1>6. CASE (\E j \in Jobs : Drop(j)) \/ Due \/ UNCHANGED vars
    BY <1>3, <1>6 DEF Drop, Due, vars
  <1>7. CASE Die \/ Complete
    BY <1>2, <1>7, Moves DEF Die, Complete
  <1>8. CASE View
    <2>1. ASSUME NEW step, Go(step, Names) PROVE OwnName'
      <3>1. worker'.names = Names /\ worker'.job = Job
        BY <2>1, Moves, MovesNames
      <3> QED
        BY <3>1 DEF OwnName, IsDigest, Names, Job
    <2>2. CASE Done
      BY <1>1, <2>2, Moves, MovesNames
    <2> QED
      BY <1>8, <2>1, <2>2 DEF View, Gone, Refused, Quiet, Alone, Together
  <1>9. CASE Send
    BY <1>1, <1>9, MovesNames DEF Send
  <1>10. CASE Defer \/ Aggregate \/ Enqueue \/ Clear \/ Skip \/ Limit \/ Named \/ Final
    BY <1>1, <1>10, Moves, MovesNames DEF Defer, Aggregate, Enqueue, Clear, Skip, Limit, Named, Final
  <1> QED
    BY <1>4, <1>5, <1>6, <1>7, <1>8, <1>9, <1>10 DEF Next, Deliver

\* What a step adds it must pay for.
LEMMA Spend ==
    ASSUME TypeOK, TypeOK', NEW a \in Actors, Budget(a), IsFiniteSet(Slips(a)'),
           told'[a] + Slipped(a)' + OnHand(a)' + (Elsewhere(a)' + Here(a)') + Allowed(a) + deaths
               <= told[a] + Slipped(a) + OnHand(a) + (Elsewhere(a) + Here(a)) + Allowed(a)' + deaths'
    PROVE  Budget(a)'
  <1>1. IsFiniteSet(Slips(a))
    BY DEF Budget
  <1>2. told'[a] + Slipped(a)' + OnHand(a)' + Elsewhere(a)' + Here(a)' <= Allowed(a)' + deaths'
    BY <1>1, Numbers, NumbersNext DEF Budget
  <1> QED
    BY <1>2 DEF Budget

\* No slip is written, taken or paid for.
LEMMA SpendSame ==
    ASSUME TypeOK, TypeOK', NEW a \in Actors, Budget(a), UNCHANGED <<kind, asked, told, deaths>>,
           \A j \in Jobs : Slip(j)' = Slip(j),
           OnHand(a)' + (Elsewhere(a)' + Here(a)') <= OnHand(a) + (Elsewhere(a) + Here(a))
    PROVE  Budget(a)'
  <1>1. Slips(a)' = Slips(a) /\ Slipped(a)' = Slipped(a) /\ IsFiniteSet(Slips(a))
    BY SlipsSame DEF Budget
  <1>2. Allowed(a)' = Allowed(a)
    BY DEF Allowed
  <1> QED
    BY <1>1, <1>2, Spend, Numbers, NumbersNext

LEMMA SlipsQueue ==
    ASSUME UNCHANGED queue
    PROVE  \A j \in Jobs : Slip(j)' = Slip(j)
  BY DEF Slip, queue

LEMMA EmitBudget ==
    ASSUME TypeOK, TypeOK', Covered, OneOpen', NEW a \in Actors, NEW wants \in BOOLEAN, Emit(a, wants), NEW b \in Actors
    PROVE  Budget(b)'
  <1>1. PICK g \in Groups :
            /\ Open(g) \/ group[g] = Unborn
            /\ group' = [group EXCEPT ![g] = Written(g, a, wants)]
            /\ later' = IF wants /\ kind = "like" /\ Queues(g) THEN [later EXCEPT ![Digest(g)] = @ + 1] ELSE later
            /\ waiting' = IF wants /\ kind = "follow" THEN [waiting EXCEPT ![Single(g, a)] = @ + 1] ELSE waiting
    BY DEF Emit, Joined
  <1>2. asked' = [asked EXCEPT ![a] = @ + 1] /\ UNCHANGED <<kind, worker, deaths, told>>
    BY DEF Emit, counts
  <1>3. Budget(b) /\ IsFiniteSet(Slips(b))
    BY DEF Covered, Budget
  <1>4. /\ group \in [Groups -> Rows] /\ group[g] \in Rows /\ asked \in [Actors -> Nat]
        /\ waiting \in [Jobs -> Nat] /\ later \in [Jobs -> Nat]
    BY DEF TypeOK
  <1>5. /\ Written(g, a, wants).who = group[g].who \cup {a} /\ Written(g, a, wants).pushed = group[g].pushed
        /\ Written(g, a, wants).there /\ Written(g, a, wants).read = group[g].read
    BY <1>4 DEF Written, Rows
  <1>6. /\ group'[g].who = group[g].who \cup {a} /\ group'[g].pushed = group[g].pushed /\ Open(g)'
        /\ \A h \in Groups \ {g} : group'[h] = group[h]
    BY <1>1, <1>4, <1>5 DEF Open, Unborn
  <1>7. Job[1] \in Groups /\ Job' = Job
    BY <1>2, JobRow DEF Job
  <1>8. OnHand(b)' = OnHand(b)
    BY <1>2, SameWorker
  <1>9. Digest(g) \in Jobs /\ Single(g, a) \in Jobs /\ Digest(g)[2] = {} /\ Single(g, a)[2] = {a}
    BY JobTypes DEF Digest, Single
  <1>10. CASE b # a
    <2>1. \A h \in Groups : Unnamed(h, b)' => Unnamed(h, b)
      BY <1>1, <1>6, <1>10 DEF Unnamed, Open, Unborn
    <2>2. Elsewhere(b)' <= Elsewhere(b) /\ Here(b)' <= Here(b)
      BY <1>2, <1>7, <2>1, SameWorker
    <2>3. \A j \in Jobs : j[2] = {b} => j # Digest(g) /\ j # Single(g, a)
      BY <1>9, <1>10
    <2>4. \A j \in Jobs : j[2] = {b} => Slip(j)' = Slip(j)
      BY <1>1, <1>4, <1>9, <2>3, OneMore DEF Slip
    <2>5. Slips(b)' = Slips(b) /\ Slipped(b)' = Slipped(b)
      BY <2>4, SlipsSame
    <2>6. asked'[b] = asked[b] /\ Allowed(b)' = Allowed(b)
      BY <1>2, <1>4, <1>10 DEF Allowed
    <2> QED
      BY <1>2, <1>3, <1>8, <2>2, <2>5, <2>6, Spend, Numbers, NumbersNext
  <1>11. CASE b = a
    <2>1. \A h \in Groups : Unnamed(h, a)' => h = g
      BY <1>6 DEF OneOpen, Unnamed
    <2>2. \A steps : Naming(a, steps)' <=> Naming(a, steps)
      BY <1>2, <1>7 DEF Naming, IsDigest
    <2>3. Elsewhere(a)' = IF \E h \in Groups \ {Job[1]} : Unnamed(h, a)' THEN 1 ELSE 0
      BY <1>7 DEF Elsewhere
    <2>4. Here(a)' = IF Naming(a, {"limit", "send"}) \/ (Unnamed(Job[1], a)' /\ ~Naming(a, {"named"})) THEN 1 ELSE 0
      BY <2>2 DEF Here
    <2>5. Unnamed(Job[1], a)' => Job[1] = g
      <3>1. \A h \in Groups : h = Job[1] => (Unnamed(Job[1], a)' <=> Unnamed(h, a)')
        BY <1>7 DEF Unnamed, Open
      <3> QED
        BY <1>7, <2>1, <3>1
    <2>6. Elsewhere(a)' + Here(a)' <= Elsewhere(a) + Here(a) + 1
      <3>1. Elsewhere(a) \in {0, 1} /\ Here(a) \in {0, 1}
        BY DEF Elsewhere, Here
      <3>2. CASE Job[1] = g
        <4>1. Elsewhere(a)' = 0
          BY <2>1, <2>3, <3>2
        <4>2. Here(a)' <= 1
          BY <2>4
        <4> QED
          BY <2>3, <2>4, <3>1, <4>1, <4>2
      <3>3. CASE Job[1] # g
        <4>1. Here(a)' = IF Naming(a, {"limit", "send"}) THEN 1 ELSE 0
          BY <2>4, <2>5, <3>3
        <4>2. Here(a)' <= Here(a)
          BY <4>1 DEF Here
        <4> QED
          BY <2>3, <3>1, <4>1, <4>2
      <3> QED
        BY <3>2, <3>3
    <2>7. asked[a] \in Nat /\ asked'[a] = asked[a] + 1
      BY <1>2, <1>4
    <2>8. CASE wants /\ kind = "follow"
      <3> DEFINE j == Single(g, a)
      <3>1. later' = later /\ waiting' = [waiting EXCEPT ![j] = @ + 1] /\ j \in Jobs /\ j[2] = {a}
        BY <1>1, <1>9, <2>8
      <3> HIDE DEF j
      <3>2. Slip(j)' = Slip(j) + 1 /\ Slip(j) \in Nat
        <4>1. Slip(j)' = waiting'[j] + later'[j]
          BY <3>1 DEF Slip
        <4> QED
          BY <1>4, <3>1, <4>1 DEF Slip
      <3>3. \A h \in Jobs \ {j} : Slip(h)' = Slip(h)
        BY <1>4, <3>1 DEF Slip
      <3>4. IsFiniteSet(Slips(a)') /\ Slipped(a)' = Slipped(a) + 1
        BY <1>3, <1>11, <3>1, <3>2, <3>3, SlipsMore
      <3>5. Allowed(a)' = Allowed(a) + 2
        BY <1>2, <2>7, <2>8 DEF Allowed
      <3> QED
        BY <1>2, <1>3, <1>8, <1>11, <2>6, <3>4, <3>5, Spend, Numbers, NumbersNext
    <2>9. CASE ~(wants /\ kind = "follow")
      <3>1. \A j \in Jobs : j[2] = {a} => Slip(j)' = Slip(j)
        BY <1>1, <1>4, <1>9, <2>9, OneMore DEF Slip
      <3>2. Slips(a)' = Slips(a) /\ Slipped(a)' = Slipped(a)
        BY <3>1, SlipsSame
      <3>3. Allowed(a)' >= Allowed(a) + 1
        BY <1>2, <2>7 DEF Allowed
      <3> QED
        BY <1>2, <1>3, <1>8, <1>11, <2>6, <3>2, <3>3, Spend, Numbers, NumbersNext
    <2> QED
      BY <2>8, <2>9
  <1> QED
    BY <1>10, <1>11

LEMMA LeaveBudget ==
    ASSUME TypeOK, TypeOK', Covered, NEW b \in Actors,
           (\E a \in Actors : Remove(a) \/ Quietly(a) \/ Block(a) \/ Mute(a) \/ Reveal(a)) \/ MarkRead
    PROVE  Budget(b)'
  <1>1. UNCHANGED <<kind, asked, told, deaths, worker, queue>>
    BY DEF Remove, Quietly, Block, Mute, Reveal, Hide, MarkRead, world, counts, history
  <1>2. \A g \in Groups : group[g] \in Rows
    BY DEF TypeOK
  <1>3. \A g \in Groups : Unnamed(g, b)' => Unnamed(g, b)
    <2>1. CASE MarkRead
      BY <1>2, <2>1 DEF MarkRead, Unnamed, Open, Rows
    <2>2. ASSUME NEW a \in Actors, Quietly(a) \/ Block(a) \/ Mute(a) \/ Reveal(a)
          PROVE  \A g \in Groups : Unnamed(g, b)' => Unnamed(g, b)
      BY <2>2 DEF Quietly, Block, Mute, Reveal, Hide, Unnamed, Open
    <2>3. ASSUME NEW a \in Actors, Remove(a) PROVE \A g \in Groups : Unnamed(g, b)' => Unnamed(g, b)
      <3> SUFFICES ASSUME NEW g \in Groups, Unnamed(g, b)' PROVE Unnamed(g, b)
        OBVIOUS
      <3>1. group'[g] = Left(g, a)
        BY <2>3 DEF Remove
      <3>2. b \in Left(g, a).who \ Left(g, a).pushed /\ Left(g, a).there /\ ~Left(g, a).read
        BY <3>1 DEF Unnamed, Open
      <3>3. \/ Left(g, a) = group[g] \/ Left(g, a).who = {}
            \/ /\ Left(g, a).who = group[g].who \ {a} /\ Left(g, a).pushed = group[g].pushed \ {a}
               /\ Left(g, a).there = group[g].there /\ Left(g, a).read = group[g].read
        BY <1>2 DEF Left, Deleted, Unborn, Rows
      <3> QED
        BY <3>2, <3>3 DEF Unnamed, Open
    <2> QED
      BY <2>1, <2>2, <2>3
  <1>4. \A j \in Jobs : Slip(j)' = Slip(j)
    BY <1>1, SlipsQueue
  <1>5. OnHand(b)' = OnHand(b) /\ Elsewhere(b)' <= Elsewhere(b) /\ Here(b)' <= Here(b)
    BY <1>1, <1>3, JobRow, SameWorker
  <1>6. Budget(b) /\ IsFiniteSet(Slips(b))
    BY DEF Covered, Budget
  <1>7. IsFiniteSet(Slips(b)')
    BY <1>4, <1>6, SlipsSame
  <1>8. OnHand(b)' + (Elsewhere(b)' + Here(b)') <= OnHand(b) + (Elsewhere(b) + Here(b))
    BY <1>5, <1>6, <1>7, Numbers, NumbersNext
  <1> QED
    BY <1>1, <1>4, <1>6, <1>8, SpendSame

\* A step of pg-boss.
LEMMA PgBossBudget ==
    ASSUME TypeOK, TypeOK', Covered, OneOpen', (\E j \in Jobs : Fetch(j) \/ Drop(j)) \/ Due \/ Die, NEW a \in Actors
    PROVE  Budget(a)'
  <1>1. UNCHANGED <<kind, group, asked, told>>
    BY DEF Fetch, Drop, Due, Die, world, history
  <1>2. Budget(a) /\ IsFiniteSet(Slips(a)) /\ OneOpen
    BY DEF Covered, Budget
  <1>3. waiting \in [Jobs -> Nat] /\ later \in [Jobs -> Nat] /\ Job \in Jobs
    BY JobRow DEF TypeOK
  <1>4. Allowed(a)' = Allowed(a)
    BY <1>1 DEF Allowed
  <1>5. Anywhere(a)' <=> Anywhere(a)
    BY <1>1 DEF Anywhere, Unnamed, Open
  <1>6. ASSUME worker.step = "idle" PROVE OnHand(a) = 0 /\ Elsewhere(a) + Here(a) = IF Anywhere(a) THEN 1 ELSE 0
    BY <1>2, <1>6, SpreadHolds DEF Spread, OnHand, Digesting, Naming
  <1>7. ASSUME worker'.step \in {"idle", "view"} PROVE Elsewhere(a)' + Here(a)' = IF Anywhere(a)' THEN 1 ELSE 0
    BY <1>7, SpreadNext DEF Spread, Digesting, Naming
  \* A job that is taken was a slip if it was their push.
  <1>8. ASSUME NEW j \in Jobs, waiting[j] > 0, waiting' = [waiting EXCEPT ![j] = @ - 1], later' = later
        PROVE  /\ IsFiniteSet(Slips(a)')
               /\ Slipped(a)' = IF j[2] = {a} THEN Slipped(a) - 1 ELSE Slipped(a)
    <2>1. \A h \in Jobs \ {j} : Slip(h)' = Slip(h)
      BY <1>3, <1>8 DEF Slip
    <2>2. CASE j[2] = {a}
      <3>1. waiting'[j] = waiting[j] - 1 /\ waiting[j] \in Nat /\ later[j] \in Nat
        BY <1>3, <1>8
      <3>2. Slip(j) \in Nat \ {0} /\ Slip(j)' = Slip(j) - 1
        BY <1>8, <3>1 DEF Slip
      <3> QED
        BY <1>2, <2>1, <2>2, <3>2, SlipsLess
    <2>3. CASE j[2] # {a}
      BY <1>2, <2>1, <2>3, SlipsSame
    <2> QED
      BY <2>2, <2>3
  <1>9. ASSUME NEW j \in Jobs, Fetch(j) PROVE Budget(a)'
    <2>1. /\ worker.step = "idle" /\ waiting[j] > 0 /\ waiting' = [waiting EXCEPT ![j] = @ - 1]
          /\ later' = later /\ deaths' = deaths
      BY <1>9 DEF Fetch, counts
    <2>2. worker'.step = "view" /\ worker'.job = j
      BY <1>9, Moves DEF Fetch
    <2>3. OnHand(a)' = IF j[2] = {a} THEN 1 ELSE 0
      BY <2>2 DEF OnHand, Job
    <2>4. /\ IsFiniteSet(Slips(a)')
          /\ Slipped(a)' = IF j[2] = {a} THEN Slipped(a) - 1 ELSE Slipped(a)
      BY <1>8, <2>1
    <2>5. Slipped(a)' + OnHand(a)' = Slipped(a) + OnHand(a)
      BY <1>2, <1>6, <2>1, <2>3, <2>4, Numbers
    <2>6. Elsewhere(a)' + Here(a)' = Elsewhere(a) + Here(a)
      BY <1>5, <1>6, <1>7, <2>1, <2>2
    <2> QED
      BY <1>1, <1>2, <1>4, <2>1, <2>4, <2>5, <2>6, Spend, Numbers, NumbersNext
  <1>10. ASSUME UNCHANGED worker
         PROVE  OnHand(a)' = OnHand(a) /\ Elsewhere(a)' <= Elsewhere(a) /\ Here(a)' <= Here(a)
    BY <1>1, <1>10, SameWorker, JobRow DEF Unnamed, Open
  <1>11. ASSUME NEW j \in Jobs, Drop(j) PROVE Budget(a)'
    <2>1. /\ waiting[j] > 0 /\ waiting' = [waiting EXCEPT ![j] = @ - 1]
          /\ later' = later /\ deaths' = deaths /\ worker' = worker
      BY <1>11 DEF Drop
    <2>2. /\ IsFiniteSet(Slips(a)')
          /\ Slipped(a)' = IF j[2] = {a} THEN Slipped(a) - 1 ELSE Slipped(a)
      BY <1>8, <2>1
    <2>3. Slipped(a)' <= Slipped(a)
      BY <1>2, <2>2, Numbers
    <2> QED
      BY <1>1, <1>2, <1>4, <1>10, <2>1, <2>2, <2>3, Spend, Numbers, NumbersNext
  <1>12. CASE Due
    <2>1. /\ waiting' = [j \in Jobs |-> waiting[j] + later[j]] /\ later' = [j \in Jobs |-> 0]
          /\ worker' = worker /\ deaths' = deaths
      BY <1>12 DEF Due, counts
    <2>2. \A j \in Jobs : Slip(j)' = Slip(j)
      <3> SUFFICES ASSUME NEW j \in Jobs PROVE Slip(j)' = Slip(j)
        OBVIOUS
      <3>1. waiting'[j] = waiting[j] + later[j] /\ later'[j] = 0
        BY <2>1
      <3>2. waiting[j] \in Nat /\ later[j] \in Nat
        BY <1>3
      <3> QED
        BY <3>1, <3>2 DEF Slip
    <2>3. IsFiniteSet(Slips(a)')
      BY <1>2, <2>2, SlipsSame
    <2>4. OnHand(a)' + (Elsewhere(a)' + Here(a)') <= OnHand(a) + (Elsewhere(a) + Here(a))
      BY <1>2, <1>10, <2>1, <2>3, Numbers, NumbersNext
    <2> QED
      BY <1>1, <1>2, <2>1, <2>2, <2>4, SpendSame
  \* The push on hand may be a slip again; what a digest has sent and not
  \* recorded, the death pays for.
  <1>13. CASE Die
    <2>0. PICK again : again = <<Job[1], Job[2], Job[3] + 1>>
      OBVIOUS
    <2>1. deaths' = deaths + 1 /\ later' = later /\ worker'.step = "idle"
      BY <1>13, Moves DEF Die
    <2>2. \/ waiting' = waiting
          \/ again \in Jobs /\ waiting' = [waiting EXCEPT ![again] = @ + 1]
      BY <1>13, <2>0, JobAgain DEF Die, Again, GivenUp
    <2>3. again[2] = Job[2]
      BY <2>0
    <2>4. OnHand(a)' = 0
      BY <2>1 DEF OnHand
    <2>5. Elsewhere(a)' + Here(a)' = IF Anywhere(a) THEN 1 ELSE 0
      BY <1>5, <1>7, <2>1
    <2>6. CASE again \in Jobs /\ waiting' = [waiting EXCEPT ![again] = @ + 1] /\ Job[2] = {a}
      <3>1. waiting[again] \in Nat /\ later[again] \in Nat /\ waiting'[again] = waiting[again] + 1
        BY <1>3, <2>6
      <3>2. Slip(again) \in Nat /\ Slip(again)' = Slip(again) + 1
        <4>1. Slip(again)' = waiting'[again] + later'[again]
          BY DEF Slip
        <4> QED
          BY <2>1, <3>1, <4>1 DEF Slip
      <3>3. \A h \in Jobs \ {again} : Slip(h)' = Slip(h)
        BY <1>3, <2>1, <2>6 DEF Slip
      <3>4. IsFiniteSet(Slips(a)') /\ Slipped(a)' = Slipped(a) + 1
        BY <1>2, <2>3, <2>6, <3>2, <3>3, SlipsMore
      <3>5. ~Digesting(a)
        BY <2>6 DEF Digesting, Naming, IsDigest
      <3>6. Elsewhere(a)' + Here(a)' = Elsewhere(a) + Here(a)
        BY <1>2, <2>5, <3>5, SpreadHolds DEF Spread
      <3> QED
        BY <1>1, <1>2, <1>4, <2>1, <2>4, <3>4, <3>6, Spend, Numbers, NumbersNext
    <2>7. CASE ~(again \in Jobs /\ waiting' = [waiting EXCEPT ![again] = @ + 1] /\ Job[2] = {a})
      <3>1. \A h \in Jobs : h[2] = {a} => Slip(h)' = Slip(h)
        BY <1>3, <2>1, <2>2, <2>3, <2>7 DEF Slip
      <3>2. Slips(a)' = Slips(a) /\ Slipped(a)' = Slipped(a)
        BY <3>1, SlipsSame
      <3>3. Elsewhere(a)' + Here(a)' <= 1
        BY <2>5
      <3>4. 0 <= OnHand(a) + (Elsewhere(a) + Here(a))
        BY <1>2, Numbers
      <3> QED
        BY <1>1, <1>2, <1>4, <2>1, <2>4, <3>2, <3>3, <3>4, Spend, Numbers, NumbersNext
    <2> QED
      BY <2>6, <2>7
  <1> QED
    BY <1>9, <1>11, <1>12, <1>13

\* A step of a delivery that stays with its job and neither names nor settles.
LEMMA Carries ==
    ASSUME TypeOK, OneOpen, Deliver, NEW a \in Actors, worker'.job = Job,
           worker'.step \in {"limit", "send"} /\ a \in worker'.names /\ IsDigest => Here(a) = 1,
           worker.step = "named" => Named
    PROVE  /\ Elsewhere(a)' = Elsewhere(a)
           /\ Here(a)' <= Here(a)
  <1>1. Job[1] \in Groups /\ Job' = Job
    BY JobRow DEF Job
  <1>2. \A g \in Groups \ {Job[1]} : Unnamed(g, a)' <=> Unnamed(g, a)
    BY DeliverRows DEF Unnamed, Open
  <1>3. Elsewhere(a)' = IF \E g \in Groups \ {Job[1]} : Unnamed(g, a)' THEN 1 ELSE 0
    BY <1>1 DEF Elsewhere
  <1>4. Elsewhere(a)' = Elsewhere(a)
    BY <1>2, <1>3 DEF Elsewhere
  <1>5. Unnamed(Job[1], a)' <=> /\ group'[Job[1]].there /\ ~group'[Job[1]].read
                               /\ a \in group'[Job[1]].who \ group'[Job[1]].pushed
    BY <1>1 DEF Unnamed, Open
  <1>6. Unnamed(Job[1], a)' => Unnamed(Job[1], a) /\ ~(Named /\ a \in worker.names)
    <2>1. CASE Named
      <3>1. /\ group'[Job[1]].who = Row.who /\ group'[Job[1]].there = Row.there
            /\ group'[Job[1]].read = Row.read
        BY <1>1, DeliverRows DEF Row
      <3>2. Row.there => group'[Job[1]].pushed = Row.pushed \cup (worker.names \cap Row.who)
        BY <2>1, DeliverRows
      <3> QED
        BY <1>5, <3>1, <3>2 DEF Unnamed, Open, Row
    <2>2. CASE ~Named
      BY <1>1, <1>5, <2>2, DeliverRows DEF Unnamed, Open
    <2> QED
      BY <2>1, <2>2
  <1>7. Naming(a, {"limit", "send"})' => Here(a) = 1
    BY <1>1 DEF Naming, IsDigest
  <1>8. Unnamed(Job[1], a)' => Here(a) = 1
    BY <1>6 DEF Here, Naming
  <1>9. Here(a)' = IF Naming(a, {"limit", "send"})' \/ (Unnamed(Job[1], a)' /\ ~Naming(a, {"named"})') THEN 1 ELSE 0
    BY DEF Here
  <1>10. Here(a)' <= Here(a)
    BY <1>7, <1>8, <1>9 DEF Here
  <1> QED
    BY <1>4, <1>10

\* A delivery that tells nobody and leaves the queue alone.
LEMMA CarriesBudget ==
    ASSUME TypeOK, TypeOK', Covered, Deliver, NEW a \in Actors, worker'.job = Job,
           UNCHANGED <<queue, told>>,
           worker'.step \in {"view", "defer", "limit", "send"} => worker.step \in {"view", "defer", "limit", "send"},
           worker'.step \in {"limit", "send"} /\ a \in worker'.names /\ IsDigest => Here(a) = 1,
           worker.step = "named" => Named
    PROVE  Budget(a)'
  <1>1. UNCHANGED <<kind, asked, deaths>> /\ OneOpen
    BY DeliverRows DEF Covered
  <1>2. \A j \in Jobs : Slip(j)' = Slip(j)
    BY SlipsQueue
  <1>3. Elsewhere(a)' = Elsewhere(a) /\ Here(a)' <= Here(a)
    BY <1>1, Carries
  <1>4. OnHand(a)' <= OnHand(a)
    BY DEF OnHand, Job
  <1>5. Budget(a) /\ IsFiniteSet(Slips(a)) /\ IsFiniteSet(Slips(a)')
    BY <1>2, SlipsSame DEF Covered, Budget
  <1>6. OnHand(a)' + (Elsewhere(a)' + Here(a)') <= OnHand(a) + (Elsewhere(a) + Here(a))
    BY <1>3, <1>4, <1>5, Numbers, NumbersNext
  <1> QED
    BY <1>1, <1>2, <1>5, <1>6, SpendSame

LEMMA ViewBudget ==
    ASSUME TypeOK, TypeOK', Covered, View, NEW a \in Actors
    PROVE  Budget(a)'
  <1>1. worker.step = "view" /\ UNCHANGED <<queue, told>> /\ Deliver
    BY DEF View, history, Deliver
  <1>2. ASSUME NEW step, Go(step, Names), step \in {"limit", "send"} => Row.there /\ ~Row.read PROVE Budget(a)'
    <2>1. worker'.step = step /\ worker'.job = Job /\ worker'.names = Names
      BY <1>2, Moves, MovesNames
    <2>2. Row.there /\ ~Row.read /\ IsDigest /\ a \in Names => Unnamed(Job[1], a)
      BY DEF Names, Newly, Visible, Unnamed, Open, Row
    <2>3. Unnamed(Job[1], a) => Here(a) = 1
      BY <1>1 DEF Here, Naming
    <2> QED
      BY <1>1, <1>2, <2>1, <2>2, <2>3, CarriesBudget
  <1>3. ASSUME Done PROVE Budget(a)'
    BY <1>1, <1>3, Moves, MovesNames, CarriesBudget
  <1> QED
    BY <1>2, <1>3 DEF View, Gone, Refused, Quiet, Alone, Together, Wanted

LEMMA DeferBudget ==
    ASSUME TypeOK, TypeOK', Covered, Defer, NEW a \in Actors
    PROVE  Budget(a)'
  <1>0. PICK again : again = <<Job[1], Job[2], 0>>
    OBVIOUS
  <1>1. /\ worker.step = "defer" /\ worker'.step = "done" /\ worker'.job = Job /\ worker'.names = {}
        /\ later' = [later EXCEPT ![again] = @ + 1] /\ UNCHANGED <<told, waiting>> /\ Deliver
    BY <1>0, Moves, MovesNames DEF Defer, history, Deliver
  <1>2. UNCHANGED <<kind, asked, deaths>> /\ OneOpen
    BY <1>1, DeliverRows DEF Covered
  <1>3. Elsewhere(a)' = Elsewhere(a) /\ Here(a)' <= Here(a)
    BY <1>1, <1>2, Carries
  <1>4. Budget(a) /\ IsFiniteSet(Slips(a)) /\ Allowed(a)' = Allowed(a)
    BY <1>2 DEF Covered, Budget, Allowed
  <1>5. waiting \in [Jobs -> Nat] /\ later \in [Jobs -> Nat] /\ again \in Jobs /\ again[2] = Job[2]
    BY <1>0, JobAgain DEF TypeOK
  <1>6. OnHand(a)' = 0 /\ OnHand(a) = IF Job[2] = {a} THEN 1 ELSE 0
    BY <1>1 DEF OnHand
  <1>7. CASE Job[2] = {a}
    <2>1. waiting[again] \in Nat /\ later[again] \in Nat /\ later'[again] = later[again] + 1
      BY <1>1, <1>5
    <2>2. Slip(again) \in Nat /\ Slip(again)' = Slip(again) + 1
      <3>1. Slip(again)' = waiting'[again] + later'[again]
        BY DEF Slip
      <3> QED
        BY <1>1, <2>1, <3>1 DEF Slip
    <2>3. \A h \in Jobs \ {again} : Slip(h)' = Slip(h)
      BY <1>1, <1>5 DEF Slip
    <2>4. IsFiniteSet(Slips(a)') /\ Slipped(a)' = Slipped(a) + 1
      BY <1>4, <1>5, <1>7, <2>2, <2>3, SlipsMore
    <2> QED
      BY <1>1, <1>2, <1>3, <1>4, <1>6, <1>7, <2>4, Spend, Numbers, NumbersNext
  <1>8. CASE Job[2] # {a}
    <2>1. \A h \in Jobs : h[2] = {a} => Slip(h)' = Slip(h)
      BY <1>1, <1>5, <1>8 DEF Slip
    <2>2. Slips(a)' = Slips(a) /\ Slipped(a)' = Slipped(a)
      BY <2>1, SlipsSame
    <2> QED
      BY <1>1, <1>2, <1>3, <1>4, <1>6, <1>8, <2>2, Spend, Numbers, NumbersNext
  <1> QED
    BY <1>7, <1>8

\* The digest that is queued is no one's own push.
LEMMA EnqueueBudget ==
    ASSUME TypeOK, TypeOK', Covered, Enqueue, NEW a \in Actors
    PROVE  Budget(a)'
  <1>1. /\ worker.step = "enqueue" /\ worker'.step = "done" /\ worker'.job = Job /\ worker'.names = {}
        /\ later' = [later EXCEPT ![Digest(Job[1])] = @ + 1] /\ UNCHANGED <<told, waiting>> /\ Deliver
    BY Moves, MovesNames DEF Enqueue, history, Deliver
  <1>2. UNCHANGED <<kind, asked, deaths>> /\ OneOpen
    BY <1>1, DeliverRows DEF Covered
  <1>3. Elsewhere(a)' = Elsewhere(a) /\ Here(a)' <= Here(a)
    BY <1>1, <1>2, Carries
  <1>4. Slips(a)' = Slips(a) /\ Slipped(a)' = Slipped(a)
    <2>1. later \in [Jobs -> Nat] /\ Digest(Job[1])[2] = {}
      BY DEF TypeOK, Digest
    <2>2. \A j \in Jobs : j[2] = {a} => j # Digest(Job[1])
      BY <2>1
    <2>3. \A j \in Jobs : j[2] = {a} => Slip(j)' = Slip(j)
      BY <1>1, <2>1, <2>2 DEF Slip
    <2> QED
      BY <2>3, SlipsSame
  <1>5. Budget(a) /\ IsFiniteSet(Slips(a)) /\ Allowed(a)' = Allowed(a)
    BY <1>2 DEF Covered, Budget, Allowed
  <1>6. OnHand(a)' = 0
    BY <1>1 DEF OnHand
  <1> QED
    BY <1>1, <1>2, <1>3, <1>4, <1>5, <1>6, Spend, Numbers, NumbersNext

\* A push that goes out was on hand, or named who was still to be named.
LEMMA SendBudget ==
    ASSUME TypeOK, TypeOK', Covered, Send, NEW a \in Actors
    PROVE  Budget(a)'
  <1>1. worker.step = "send" /\ UNCHANGED queue /\ Deliver
    BY DEF Send, Deliver
  <1>2. /\ worker'.job = Job /\ worker'.names = worker.names /\ worker'.step \in {"named", "final"}
        /\ worker'.step = "named" =>
              told' = [b \in Actors |-> told[b] + (IF b \in worker.names THEN 1 ELSE 0)]
        /\ worker'.step = "final" => told' = told
    BY MovesNames
  <1>3. CASE worker'.step = "final"
    BY <1>1, <1>2, <1>3, CarriesBudget
  <1>4. CASE worker'.step = "named"
    <2>1. UNCHANGED <<kind, asked, deaths>> /\ OneOpen
      BY <1>1, DeliverRows DEF Covered
    <2>2. Elsewhere(a)' = Elsewhere(a) /\ Here(a)' <= Here(a)
      BY <1>1, <1>2, <1>4, <2>1, Carries
    <2>3. Budget(a) /\ Allowed(a)' = Allowed(a)
      BY <2>1 DEF Covered, Budget, Allowed
    <2>4. Slips(a)' = Slips(a) /\ Slipped(a)' = Slipped(a) /\ IsFiniteSet(Slips(a)')
      BY <1>1, <2>3, SlipsQueue, SlipsSame DEF Budget
    <2>5. OnHand(a)' = 0
      BY <1>4 DEF OnHand
    <2>6. told'[a] = told[a] + (IF a \in worker.names THEN 1 ELSE 0)
      BY <1>2, <1>4
    <2>7. a \in worker.names => Here(a)' + 1 <= OnHand(a) + Here(a)
      <3>1. CASE a \in worker.names /\ IsDigest
        <4>1. Here(a) = 1
          BY <1>1, <3>1 DEF Here, Naming
        <4>2. Naming(a, {"named"})' /\ ~Naming(a, {"limit", "send"})'
          BY <1>2, <1>4, <3>1 DEF Naming, IsDigest, Job
        <4>3. Here(a)' = 0
          BY <4>2 DEF Here
        <4> QED
          BY <2>4, <4>1, <4>3, Numbers
      <3>2. CASE a \in worker.names /\ ~IsDigest
        <4>1. a \in Job[2]
          BY <1>1, <3>2 DEF Covered, OwnName
        <4>2. Job[2] = {a}
          BY <3>2, <4>1, JobRow DEF Jobs
        <4>3. OnHand(a) = 1
          BY <1>1, <4>2 DEF OnHand
        <4> QED
          BY <2>2, <2>4, <4>3, Numbers, NumbersNext
      <3> QED
        BY <3>1, <3>2
    <2> QED
      BY <2>1, <2>2, <2>3, <2>4, <2>5, <2>6, <2>7, Spend, Numbers, NumbersNext
  <1> QED
    BY <1>2, <1>3, <1>4

LEMMA RestBudget ==
    ASSUME TypeOK, TypeOK', Covered, OneOpen', NEW a \in Actors,
           Aggregate \/ Clear \/ Skip \/ Limit \/ Named \/ Final \/ Complete
    PROVE  Budget(a)'
  <1>1. UNCHANGED <<queue, told>> /\ Deliver
    BY DEF Aggregate, Clear, Skip, Limit, Named, Final, Complete, history, Deliver
  <1>2. CASE Limit
    <2>1. worker.step = "limit" /\ worker'.job = Job /\ worker'.names = worker.names
      BY <1>2, Moves, MovesNames DEF Limit
    <2>2. a \in worker.names /\ IsDigest => Here(a) = 1
      BY <2>1 DEF Here, Naming
    <2> QED
      BY <1>1, <2>1, <2>2, CarriesBudget
  <1>3. CASE Aggregate \/ Clear \/ Skip \/ Named \/ Final
    <2>1. /\ worker'.job = Job /\ worker'.step \in {"enqueue", "done", "skip", "final"}
          /\ worker.step = "named" => Named
      BY <1>3, Moves DEF Aggregate, Clear, Skip, Named, Final
    <2> QED
      BY <1>1, <2>1, CarriesBudget
  <1>4. CASE Complete
    <2>1. worker.step = "done" /\ worker'.step = "idle" /\ UNCHANGED group
      BY <1>4, Moves DEF Complete
    <2>2. UNCHANGED <<kind, asked, deaths>>
      BY <1>1, DeliverRows
    <2>3. Anywhere(a)' <=> Anywhere(a)
      BY <2>1 DEF Anywhere, Unnamed, Open
    <2>4. ~Digesting(a) /\ ~Digesting(a)'
      BY <2>1 DEF Digesting, Naming
    <2>5. Elsewhere(a)' + Here(a)' = Elsewhere(a) + Here(a)
      BY <2>3, <2>4, SpreadHolds, SpreadNext DEF Spread, Covered
    <2>6. OnHand(a)' = 0 /\ OnHand(a) = 0
      BY <2>1 DEF OnHand
    <2>7. \A j \in Jobs : Slip(j)' = Slip(j)
      BY <1>1, SlipsQueue
    <2>8. OnHand(a)' + (Elsewhere(a)' + Here(a)') <= OnHand(a) + (Elsewhere(a) + Here(a))
      <3>1. Elsewhere(a) + Here(a) \in Nat
        BY DEF Elsewhere, Here
      <3> QED
        BY <2>5, <2>6, <3>1
    <2> QED
      BY <1>1, <2>2, <2>7, <2>8, SpendSame DEF Covered
  <1> QED
    BY <1>2, <1>3, <1>4

LEMMA CoveredStep ==
    ASSUME Inv, Covered, [Next]_vars
    PROVE  Covered'
  <1>1. TypeOK /\ TypeOK'
    BY NextInv DEF Inv
  <1>2. OneOpen' /\ OwnName'
    BY <1>1, OneOpenStep, OwnNameStep DEF Covered
  <1>3. ASSUME NEW a \in Actors PROVE Budget(a)'
    <2>1. CASE UNCHANGED vars
      <3>1. UNCHANGED <<kind, group, asked, told, deaths, worker, queue>>
        BY <2>1 DEF vars, world, counts, history
      <3>2. \A j \in Jobs : Slip(j)' = Slip(j)
        BY <3>1, SlipsQueue
      <3>3. OnHand(a)' = OnHand(a) /\ Elsewhere(a)' <= Elsewhere(a) /\ Here(a)' <= Here(a)
        BY <1>1, <3>1, SameWorker, JobRow DEF Unnamed, Open
      <3>4. Budget(a) /\ IsFiniteSet(Slips(a)) /\ IsFiniteSet(Slips(a)')
        BY <3>2, SlipsSame DEF Covered, Budget
      <3>5. OnHand(a)' + (Elsewhere(a)' + Here(a)') <= OnHand(a) + (Elsewhere(a) + Here(a))
        BY <1>1, <3>3, <3>4, Numbers, NumbersNext
      <3> QED
        BY <1>1, <3>1, <3>2, <3>4, <3>5, SpendSame
    <2>2. CASE Requested \/ MarkRead
      BY <1>1, <1>2, <2>2, EmitBudget, LeaveBudget DEF Requested
    <2>3. CASE (\E j \in Jobs : Fetch(j) \/ Drop(j)) \/ Due \/ Die
      BY <1>1, <1>2, <2>3, PgBossBudget
    <2>4. CASE Deliver
      BY <1>1, <1>2, <2>4, ViewBudget, DeferBudget, EnqueueBudget, SendBudget, RestBudget DEF Deliver
    <2> QED
      BY <2>1, <2>2, <2>3, <2>4 DEF Next
  <1> QED
    BY <1>2, <1>3 DEF Covered

LEMMA InitCovered == Init => Covered
  <1> SUFFICES ASSUME Init PROVE Covered
    OBVIOUS
  <1>1. TypeOK
    BY InitInv DEF Inv
  <1>2. /\ \A g \in Groups : group[g] = Unborn
        /\ ~Unborn.there
    BY DEF Init, Unborn
  <1>3. worker.step = "idle"
    BY DEF Init, Idle
  <1>4. OneOpen
    BY <1>2 DEF OneOpen, Open
  <1>5. OwnName
    BY <1>3 DEF OwnName
  <1>6. ASSUME NEW a \in Actors PROVE Budget(a)
    <2>1. \A j \in Jobs : Slip(j) = 0
      BY DEF Init, Slip
    <2>2. Slips(a) = {}
      BY <2>1 DEF Slips
    <2>3. IsFiniteSet(Slips(a)) /\ Slipped(a) = 0
      BY <2>2, FS_EmptySet DEF Slipped
    <2>4. told[a] = 0 /\ asked[a] = 0 /\ deaths = 0
      BY DEF Init
    <2>5. OnHand(a) = 0 /\ Elsewhere(a) = 0 /\ Here(a) = 0
      BY <1>1, <1>2, <1>3, JobRow DEF OnHand, Elsewhere, Here, Naming, Unnamed, Open
    <2> QED
      BY <2>3, <2>4, <2>5 DEF Budget, Allowed
  <1> QED
    BY <1>4, <1>5, <1>6 DEF Covered

(* No reader is told more often than they were liked or followed: of a like *)
(* in one push, of a follow in its own and in one digest, and once more for *)
(* each death of the worker between a push and what records it              *)
(* (notify/delivery.ts).                                                    *)
THEOREM ToldCorrect == Spec => []ToldOnce
  <1>1. Inv /\ Covered => ToldOnce
    <2> SUFFICES ASSUME Inv, Covered, NEW a \in Actors
                 PROVE  told[a] <= (IF kind = "like" THEN 1 ELSE 2) * asked[a] + deaths
      BY DEF ToldOnce
    <2>1. Budget(a) /\ TypeOK
      BY DEF Covered, Inv
    <2> QED
      BY <2>1, Numbers DEF Budget, Allowed
  <1> QED
    BY InitInv, NextInv, InitCovered, CoveredStep, <1>1, PTL DEF Spec
=============================================================================
