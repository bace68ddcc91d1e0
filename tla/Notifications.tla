--------------------------- MODULE Notifications ---------------------------
(***************************************************************************)
(* The notifications one reader gets of the likes of one read, or of the   *)
(* follows of their account (apps/api/src/notify): the rows the requests   *)
(* write, in which actors aggregate, and the worker that turns the rows    *)
(* into pushes, one job at a time, each statement committed on its own.    *)
(*                                                                         *)
(* A request is one step: the counter triggers of likes and follows have   *)
(* locked the read or the profile before the Notifier is called. The       *)
(* reader's preferences, devices, quiet hours and daily cap are a choice   *)
(* of the environment at each delivery.                                    *)
(***************************************************************************)
EXTENDS Naturals, FiniteSets

CONSTANTS
    Actors,
    Kinds,          \* of "like" and "follow"
    Groups,         \* rows of notifications
    Retries,        \* of one job, until pg-boss gives it up
    MaxAsked,       \* likes or follows of all
    MaxDeaths,      \* of the worker
    MaxDrops,       \* jobs that pg-boss drops for their age
    MaxNights,      \* pushes held back for quiet hours
    MaxHides,       \* blocks and mutes
    MaxEvents       \* of these four together

ASSUME NotificationsAssumption ==
    /\ Kinds \subseteq {"like", "follow"} /\ Kinds # {}
    /\ Groups \subseteq Nat /\ Groups # {}
    /\ {Retries, MaxAsked, MaxDeaths, MaxDrops, MaxNights, MaxHides, MaxEvents} \subseteq Nat

VARIABLES
    kind,
    group,          \* the rows
    fans,           \* whose like or follow stands
    blocked,        \* actors with a block either way
    muted,
    waiting,        \* how many jobs of each sort can be fetched
    later,          \* and how many are due in an hour or when quiet hours end
    worker,
    deaths, drops, nights, hides,
    asked,          \* history: how often each actor liked or followed
    told,           \* history: in how many pushes they were named
    owed,           \* history: whose last like or follow is to be named
    missed,         \* history: of these, who will not be named by their row or job
    silent          \* history: the open groups whose digest was lost

queue == <<waiting, later>>
world == <<fans, blocked, muted, asked>>
counts == <<deaths, drops, nights, hides>>
history == <<told, owed, missed, silent>>
vars == <<kind, group, world, queue, worker, counts, history>>

Unborn == [there |-> FALSE, read |-> FALSE, state |-> "none", digest |-> FALSE, who |-> {}, pushed |-> {}]
Deleted == [Unborn EXCEPT !.read = TRUE]
Open(g) == group[g].there /\ ~group[g].read

Hidden == blocked \cup muted

\* The bounds: a block or a mute counts for two events.
Asks == Cardinality({n \in Actors \X (1 .. MaxAsked) : n[2] <= asked[n[1]]})
Events == deaths + drops + nights + 2 * hides

\* A digest of a group, or the push of one actor, and how often it was tried again.
Digest(g) == <<g, {}, 0>>
Single(g, a) == <<g, {a}, 0>>
Jobs == Groups \X ({{}} \cup {{a} : a \in Actors}) \X (0 .. Retries)

Idle == [step |-> "idle", job |-> CHOOSE j \in Jobs : TRUE, names |-> {}, digest |-> FALSE, sent |-> FALSE]
Doing(step) == worker' = [worker EXCEPT !.step = step]
Job == worker.job
Done == worker' = [Idle EXCEPT !.step = "done", !.job = Job]
Row == group[Job[1]]
IsDigest == Job[2] = {}

\* History: named, or to be named no more; and a group left without its digest.
Settled(names) == owed' = owed \ names /\ missed' = missed \ names
Silenced(g) == {h \in {g} : Open(h)}

\* UPDATE of the job's row, which may be gone.
Updated(new) == [group EXCEPT ![Job[1]] = IF @.there THEN new ELSE @]

-----------------------------------------------------------------------------
(* The Notifier.                                                           *)

\* The steps of a delivery that do not look at the row's actors again.
Closing == {"limit", "send", "named", "final", "clear", "skip"}

\* The open group, or a new row.
Joined == IF \E g \in Groups : Open(g) THEN {g \in Groups : Open(g)}
          ELSE {g \in Groups : group[g] = Unborn /\ \A h \in Groups : h < g => group[h] # Unborn}

Written(g, a, wants) ==
    [group[g] EXCEPT !.there = TRUE, !.who = @ \cup {a}, !.state = IF wants THEN "queued" ELSE @]

\* Mutant: the digest of a group is queued once.
QueuesNew(g) == group[g].state = "none"

\* The gate of the likes: a digest is on its way already.
Queues(g) == group[g].state # "queued"

\* A like too late for the digest under way, which has read the actors, or is
\* about to note that it named this one.
Overtaken(g, a) ==
    /\ kind = "like" /\ Job[1] = g /\ worker.step \in Closing
    /\ ~Queues(g) \/ a \in worker.names

\* follow, like, with #emit.
Emit(a, wants) ==
    /\ a \notin fans \cup Hidden /\ Asks < MaxAsked
    /\ fans' = fans \cup {a} /\ asked' = [asked EXCEPT ![a] = @ + 1]
    /\ \E g \in Joined :
        /\ group' = [group EXCEPT ![g] = Written(g, a, wants)]
        /\ later' = IF wants /\ kind = "like" /\ Queues(g) THEN [later EXCEPT ![Digest(g)] = @ + 1] ELSE later
        /\ waiting' = IF wants /\ kind = "follow" THEN [waiting EXCEPT ![Single(g, a)] = @ + 1] ELSE waiting
        /\ missed' = IF wants /\ Overtaken(g, a) THEN missed \cup {a} ELSE missed \ {a}
    /\ owed' = IF wants THEN owed \cup {a} ELSE owed \ {a}
    /\ UNCHANGED <<kind, blocked, muted, worker, counts, told, silent>>

\* #emit returns early: of a muted actor, or of a like whose request was
\* checked before a block.
Quietly(a) ==
    /\ a \in Hidden \ fans
    /\ kind = "follow" => a \notin blocked
    /\ fans' = fans \cup {a}
    /\ UNCHANGED <<kind, group, blocked, muted, asked, queue, worker, counts, history>>

\* unfollow, unlike, with #removeActor: of read rows too, and of an actor who
\* does not follow any more. A block made since their check does not stop them.
Left(g, a) ==
    IF a \notin group[g].who THEN group[g]
    ELSE IF group[g].who = {a} THEN Deleted
    ELSE [group[g] EXCEPT !.who = @ \ {a}, !.pushed = @ \ {a}]

Remove(a) ==
    /\ kind = "like" => a \in fans
    /\ fans' = fans \ {a}
    /\ group' = [g \in Groups |-> Left(g, a)]
    /\ Settled({a})
    /\ UNCHANGED <<kind, blocked, muted, asked, queue, worker, counts, told, silent>>

MarkRead ==
    /\ \E g \in Groups : Open(g)
    /\ group' = [g \in Groups |-> IF Open(g) THEN [group[g] EXCEPT !.read = TRUE] ELSE group[g]]
    /\ Settled(Actors)
    /\ silent' = {}
    /\ UNCHANGED <<kind, world, queue, worker, counts, told>>

\* A block or a mute leaves the rows as they are: viewSql hides the actor. A
\* block also ends the follow, and an unblock does not bring it back.
Hide(a) ==
    /\ hides < MaxHides /\ Events + 1 < MaxEvents
    /\ hides' = hides + 1
    /\ Settled({a})
    /\ UNCHANGED <<kind, group, asked, queue, worker, deaths, drops, nights, told, silent>>

Block(a) ==
    /\ a \notin blocked /\ blocked' = blocked \cup {a}
    /\ fans' = IF kind = "follow" THEN fans \ {a} ELSE fans
    /\ Hide(a)
    /\ UNCHANGED muted

Mute(a) ==
    /\ a \notin Hidden /\ muted' = muted \cup {a}
    /\ Hide(a)
    /\ UNCHANGED <<fans, blocked>>

\* unblockUser, unmuteUser.
Reveal(a) ==
    /\ \/ a \in blocked /\ blocked' = blocked \ {a} /\ UNCHANGED muted
       \/ a \in muted /\ muted' = muted \ {a} /\ UNCHANGED blocked
    /\ UNCHANGED <<kind, group, fans, asked, queue, worker, counts, history>>

-----------------------------------------------------------------------------
(* pg-boss, and the clock.                                                 *)

Fetch(j) ==
    /\ worker.step = "idle" /\ waiting[j] > 0
    /\ waiting' = [waiting EXCEPT ![j] = @ - 1]
    /\ worker' = [Idle EXCEPT !.step = "view", !.job = j]
    /\ UNCHANGED <<kind, group, world, later, counts, history>>

\* startAfter.
Due ==
    /\ \E j \in Jobs : later[j] > 0
    /\ waiting' = [j \in Jobs |-> waiting[j] + later[j]]
    /\ later' = [j \in Jobs |-> 0]
    /\ UNCHANGED <<kind, group, world, worker, counts, history>>

\* The job is gone, and with it whom it would have named.
Lost(j) ==
    /\ silent' = IF j[2] = {} THEN silent \cup Silenced(j[1]) ELSE silent
    /\ missed' = missed \cup (j[2] \cap owed)

\* A worker that was down for a day: pg-boss drops the job.
Drop(j) ==
    /\ waiting[j] > 0 /\ drops < MaxDrops /\ Events < MaxEvents
    /\ drops' = drops + 1
    /\ waiting' = [waiting EXCEPT ![j] = @ - 1]
    /\ Lost(j)
    /\ UNCHANGED <<kind, group, world, later, worker, deaths, nights, hides, told, owed>>

\* Retried: after digest_at is set, the push does not queue the digest.
Again ==
    /\ Job[3] < Retries
    /\ waiting' = [waiting EXCEPT ![<<Job[1], Job[2], Job[3] + 1>>] = @ + 1]
    /\ silent' = IF worker.step = "enqueue" THEN silent \cup Silenced(Job[1]) ELSE silent
    /\ UNCHANGED missed

\* Failed for good, after its work or before.
GivenUp ==
    /\ Job[3] = Retries
    /\ CASE worker.step = "done" -> UNCHANGED <<silent, missed>>
         [] worker.step = "enqueue" -> silent' = silent \cup Silenced(Job[1]) /\ UNCHANGED missed
         [] OTHER -> Lost(Job)
    /\ UNCHANGED waiting

\* The worker dies, or a statement throws.
Die ==
    /\ worker.step # "idle" /\ deaths < MaxDeaths /\ Events < MaxEvents
    /\ deaths' = deaths + 1
    /\ Again \/ GivenUp
    /\ worker' = Idle
    /\ UNCHANGED <<kind, group, world, later, drops, nights, hides, told, owed>>

-----------------------------------------------------------------------------
(* deliverNotification.                                                    *)

\* A like is not looked up again, a follow is.
Visible == IF kind = "like" THEN Row.who \ Hidden ELSE (Row.who \cap fans) \ Hidden

\* Mutant: everyone in the row.
NewlyAll == Visible

\* Not yet named in a push.
Newly == Visible \ Row.pushed

Go(step, names) == worker' = [worker EXCEPT !.step = step, !.names = names, !.digest = Row.digest]
Names == IF IsDigest THEN Newly ELSE Job[2] \cap Visible

\* viewNotification, and every rule up to the push.
Wanted == Row.there /\ Visible # {} /\ ~Row.read

Gone == ~Row.there /\ Done /\ UNCHANGED nights

\* Nobody to name, read in the app, switched off, too new an account, no device.
Refused == Row.there /\ Go("skip", Names) /\ UNCHANGED nights

Quiet ==
    /\ Wanted /\ nights < MaxNights /\ Events < MaxEvents
    /\ nights' = nights + 1
    /\ Go("defer", Names)

\* A follow's own push: three an hour of the reader's, then one digest.
Alone ==
    /\ Wanted /\ ~IsDigest
    /\ IF Names = {} THEN Done ELSE Go("limit", Names) \/ Go("aggregate", Names)
    /\ UNCHANGED nights

Together ==
    /\ Wanted /\ IsDigest
    /\ Go(IF Names = {} THEN "clear" ELSE "limit", Names)
    /\ UNCHANGED nights

View ==
    /\ worker.step = "view"
    /\ Gone \/ Refused \/ Quiet \/ Alone \/ Together
    /\ UNCHANGED <<kind, group, world, queue, deaths, drops, hides, history>>

\* A new job like it, for when quiet hours end.
Defer ==
    /\ worker.step = "defer"
    /\ later' = [later EXCEPT ![<<Job[1], Job[2], 0>>] = @ + 1]
    /\ Done
    /\ UNCHANGED <<kind, group, world, waiting, counts, history>>

\* Beyond the quota: the first one sets digest_at, and the digest will not name
\* whom the row has named for an earlier follow ...
Aggregate ==
    /\ worker.step = "aggregate"
    /\ group' = Updated([Row EXCEPT !.digest = TRUE])
    /\ IF Row.there /\ ~Row.digest THEN Doing("enqueue") ELSE Done
    /\ missed' = missed \cup (worker.names \cap owed \cap Row.pushed)
    /\ UNCHANGED <<kind, world, queue, counts, told, owed, silent>>

\* ... and queues the digest.
Enqueue ==
    /\ worker.step = "enqueue"
    /\ later' = [later EXCEPT ![Digest(Job[1])] = @ + 1]
    /\ Done
    /\ UNCHANGED <<kind, group, world, waiting, counts, history>>

Clear ==
    /\ worker.step = "clear"
    /\ group' = Updated([Row EXCEPT !.digest = FALSE])
    /\ Doing("skip")
    /\ UNCHANGED <<kind, world, queue, counts, history>>

Skip ==
    /\ worker.step = "skip"
    /\ group' = Updated([Row EXCEPT !.state = "skipped"])
    /\ Done
    /\ Settled(worker.names)
    /\ silent' = IF IsDigest /\ Row.digest THEN silent \cup Silenced(Job[1]) ELSE silent
    /\ UNCHANGED <<kind, world, queue, counts, told>>

\* The 5 a day.
Limit ==
    /\ worker.step = "limit"
    /\ Doing("send") \/ Doing(IF IsDigest THEN "clear" ELSE "skip")
    /\ UNCHANGED <<kind, group, world, queue, counts, history>>

\* sendToDevices: to one device at least, or to none.
Send ==
    /\ worker.step = "send"
    /\ \/ /\ worker' = [worker EXCEPT !.step = "named", !.sent = TRUE]
          /\ told' = [a \in Actors |-> told[a] + (IF a \in worker.names THEN 1 ELSE 0)]
       \/ /\ Doing("final")
          /\ UNCHANGED told
    /\ Settled(worker.names)
    /\ UNCHANGED <<kind, group, world, queue, counts, silent>>

Named ==
    /\ worker.step = "named"
    /\ group' = Updated([Row EXCEPT !.pushed = @ \cup (worker.names \cap Row.who)])
    /\ Doing("final")
    /\ UNCHANGED <<kind, world, queue, counts, history>>

\* Mutant: digest_at is never cleared.
FinalKept ==
    [Row EXCEPT !.state = IF worker.sent THEN "sent" ELSE "skipped"]

\* A digest is over; a push of its own writes back what it has read.
FinalRow ==
    [Row EXCEPT !.state = IF worker.sent THEN "sent" ELSE "skipped",
                !.digest = IF IsDigest THEN FALSE ELSE worker.digest]

Final ==
    /\ worker.step = "final"
    /\ group' = Updated(FinalRow)
    /\ Done
    /\ UNCHANGED <<kind, world, queue, counts, history>>

Complete ==
    /\ worker.step = "done"
    /\ worker' = Idle
    /\ UNCHANGED <<kind, group, world, queue, counts, history>>

Deliver ==
    \/ View \/ Defer \/ Aggregate \/ Enqueue \/ Clear \/ Skip \/ Limit \/ Send \/ Named \/ Final \/ Complete

-----------------------------------------------------------------------------

Requested ==
    \E a \in Actors :
        \/ Remove(a) \/ Quietly(a) \/ Block(a) \/ Mute(a) \/ Reveal(a)
        \/ \E wants \in BOOLEAN : Emit(a, wants)

Next ==
    \/ Requested \/ MarkRead
    \/ \E j \in Jobs : Fetch(j) \/ Drop(j)
    \/ Due \/ Die \/ Deliver

Init ==
    /\ kind \in Kinds
    /\ group = [g \in Groups |-> Unborn]
    /\ fans = {} /\ blocked = {} /\ muted = {}
    /\ waiting = [j \in Jobs |-> 0] /\ later = [j \in Jobs |-> 0]
    /\ worker = Idle /\ deaths = 0 /\ drops = 0 /\ nights = 0 /\ hides = 0
    /\ asked = [a \in Actors |-> 0] /\ told = [a \in Actors |-> 0]
    /\ owed = {} /\ missed = {} /\ silent = {}

Spec == Init /\ [][Next]_vars

\* The worker fetches and goes on; an hour passes.
Fairness == WF_vars((\E j \in Jobs : Fetch(j)) \/ Deliver) /\ WF_vars(Due)

FairSpec == Spec /\ Fairness

-----------------------------------------------------------------------------
(* Properties.                                                             *)

Rows == [there : BOOLEAN, read : BOOLEAN, state : {"none", "queued", "sent", "skipped"},
         digest : BOOLEAN, who : SUBSET Actors, pushed : SUBSET Actors]
Workers == [step : {"idle", "view", "defer", "aggregate", "enqueue", "done"} \cup Closing,
            job : Jobs, names : SUBSET Actors, digest : BOOLEAN, sent : BOOLEAN]

(* The types of the variables.                                             *)
TypeOK ==
    /\ kind \in Kinds
    /\ group \in [Groups -> Rows]
    /\ fans \subseteq Actors /\ blocked \subseteq Actors /\ muted \subseteq Actors
    /\ waiting \in [Jobs -> Nat] /\ later \in [Jobs -> Nat]
    /\ worker \in Workers
    /\ deaths \in Nat /\ drops \in Nat /\ nights \in Nat /\ hides \in Nat
    /\ asked \in [Actors -> Nat] /\ told \in [Actors -> Nat]
    /\ owed \subseteq Actors /\ missed \subseteq owed /\ silent \subseteq Groups

\* A digest of the group that will look at it.
Digests(g) == {j \in Jobs : j[1] = g /\ j[2] = {}}
OnItsWay(g) ==
    \/ \E j \in Digests(g) : waiting[j] + later[j] > 0
    \/ Job \in Digests(g) /\ worker.step \notin {"idle", "done"}
    \/ Job[1] = g /\ worker.step = "enqueue"

(* A group that asks for no digest, because one is queued, has one: likes   *)
(* are gated by push_state, follows beyond the quota by digest_at. Not the  *)
(* groups whose own digest was dropped by pg-boss for its age or given up   *)
(* after its retries, was never queued because the worker died between      *)
(* delivery.ts:146 and :149, or, of follows, was skipped and left digest_at *)
(* (DigestQueued and LikesQueued are the claims without them).              *)
QueuedHasJob ==
    \A g \in Groups \ silent :
        /\ Open(g)
        /\ (kind = "like" /\ group[g].state = "queued") \/ group[g].digest
        => OnItsWay(g)

(* A like is in one push at most, a follow in one of its own and in one     *)
(* digest; each death of the worker may repeat one.                         *)
ToldOnce ==
    \A a \in Actors : told[a] <= (IF kind = "like" THEN 1 ELSE 2) * asked[a] + deaths

(* Again and again nobody waits to be named: whoever liked or followed is   *)
(* named in the end, as likes and follows are finitely many here, unless    *)
(* the reader has seen the list or hid them, they took it back, or a rule   *)
(* held the push back. Left out                                             *)
(* are those whose like came too late for the digest under way, whose own   *)
(* push was dropped or given up, who follow again after a block in the row  *)
(* that has named them and are left to the digest, and the actors of a      *)
(* group whose digest was lost.                                             *)
Told == []<>(\A a \in owed \ missed : \E g \in silent : a \in group[g].who)

-----------------------------------------------------------------------------
(* Properties the code does not have.                                      *)

(* "Likes inside that hour join it" (notify/index.ts): no like is left      *)
(* without a digest.                                                        *)
LikesJoin == \A a \in owed, g \in Groups : kind = "like" /\ Open(g) /\ a \in group[g].who => OnItsWay(g)

(* "Beyond that the hour's follows are one digest" (notify/delivery.ts).    *)
DigestQueued == \A g \in Groups : Open(g) /\ group[g].digest => OnItsWay(g)

(* Likewise: a follow left to the digest is one that the digest will name,  *)
(* also the follow of somebody whom the row named before a block.           *)
FollowsInDigest == worker.step = "enqueue" => worker.names \cap owed \cap Row.pushed = {}

(* A row of likes that stays queued has its job, which pg-boss may have     *)
(* dropped for its age or given up.                                         *)
LikesQueued == \A g \in Groups : Open(g) /\ kind = "like" /\ group[g].state = "queued" => OnItsWay(g)

(* A follow is named in one push: its own, or the digest.                   *)
FollowToldOnce == deaths = 0 => \A a \in Actors : told[a] <= asked[a]
=============================================================================
