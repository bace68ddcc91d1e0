# Flyleaf in TLA+

Flyleaf is a reading diary: an Expo app that works offline (`apps/mobile`), an
API in TypeScript over PostgreSQL (`apps/api`), a worker that runs pg-boss jobs
(`apps/api/src/worker.ts`, `jobs/`), and object storage for avatars, imports
and exports. This directory holds TLA+ modules of the parts of it whose
difficulty is order, concurrency and failure, the TLC configurations that check
them on small instances, and proofs for TLAPS of what matters most, for every
value of the constants.

Paths below are relative to the repository.

1. [The system](#1-the-system)
2. [The modules](#2-the-modules)
3. [The runs](#3-the-runs)
4. [Where the code and its comments part](#4-where-the-code-and-its-comments-part)
5. [The proofs](#5-the-proofs)
6. [Limits](#6-limits)
7. [The plan](#7-the-plan)

To repeat everything: `tlc -config QueueReads.cfg MCMutationQueue` and likewise
for the other configurations (their module is the `MC` module of the same
component), and `tlapm` on the modules whose names end in `Proofs`.

## 1. The system

### What runs where

    screens ──> repository.ts ──one transaction──> SQLite: reads, progress_events,
                    │                               mutation_queue, read_aliases
                    └─> queue.ts: flush ──HTTP──> API services ──> PostgreSQL
    authFetch.ts: tokens, refresh                  │    ▲
                                                   │    │ pg-boss jobs (worker)
    uploads: PUT ──presigned──> object storage <───┴────┘

A write on the device changes the local tables and adds a row to
`mutation_queue` in one SQLite transaction, then asks for a flush. A flush
replays the rows against the API. The API's services each run one PostgreSQL
transaction per request at READ COMMITTED, and take row locks or advisory locks
where they say so. The worker's jobs run beside them. Nothing spans PostgreSQL
and object storage, or the device and the server.

### Components

| Component | State | Operations | What is hard | What makes it correct |
|---|---|---|---|---|
| **Offline write queue** (`apps/mobile/src/offline/queue.ts`, `sync.tsx`, `app/sync-issues.tsx`) | rows with action, entity, attempts, `next_retry_at`, status; `flushing`, `flushAgain`; aliases | enqueue, coalesce a like or follow, flush, classify a failure, remap a read, dead-letter, retry, dismiss | a single thread with awaits: writes arrive inside a flush; lost answers; death of the process; ids that change in the middle | per-read FIFO; what the user last asked for reaches the server; nothing waits for ever; a local id is never sent |
| **Offline repository** (`offline/repository.ts`, `db.ts`) | local reads, progress, `synced`, aliases | save progress, finish, dnf, review, cache server reads | a list fetched before a write was sent and cached after it | a local write is shown until the server has it; a deleted read stays deleted |
| **Sync session** (`offline/sync.tsx`, `lib/guest.ts`) | the signed-in user, the guest's books | sign-in, account switch, guest migration | steps of the last account still running | one account's writes never go out as another's |
| **Auth session on the device** (`lib/authFetch.ts`, `session.tsx`, `sessionFlow.ts`) | tokens, the refresh in flight | refresh once for many requests, sign-out | sign-out during a refresh; lost answers | a token is refreshed once; signed out stays signed out |
| **Identity and sessions** (`identity/index.ts`) | users, profiles, refresh-token families, reset tokens | register, login, rotate, detect reuse, revoke, reset, privacy | a revocation beside an uncommitted rotation | a revoked family has no live token |
| **Reading attempts** (`reading/index.ts`) | reads, progress events, activity | POST /reads, finish, dnf, delete, progress | two locks taken in two orders; unlocked SELECTs; four-statement requests | attempts numbered uniquely; terminal records kept; activity told once and never left behind |
| **Uploads and avatars** (`uploads/index.ts`, `jobs/index.ts:747`) | upload rows, objects, `profiles.avatar_key` | create, complete, set and remove the avatar, cleanup | two stores without a transaction; expiry; crash of the job | never a broken avatar; no orphaned object |
| **Social graph** (`social/index.ts`) | follows, blocks, mutes, activity, counters | follow, accept, unfollow, remove, block, unblock, mute | pairs locked in one direction only; triggers | no follow across a block; counters equal rows |
| **Duplicate works** (`catalog/dedupe.ts`) | works, editions, reads, shelves, merge log | merge, undo within 30 days | renumbering beside writers; undo after writes | undo restores; nobody's record is lost |
| **Imports** (`imports/`) | import rows, reads made by them | upload, chunked processing, resume, resolve | a job run twice; redo of a chunk row by row | every row committed at most once |
| **Exports** (`exports/`) | export rows, files, links | request, process, mail, download | two runs, failure after completion | one live link, and its file exists |
| **Retention** (`jobs/retention.ts`) | accounts past their term | delete objects, then rows | objects stored in between | no object without an owner |
| **Notifications** (`notify/`) | rows with actors, `digest_at`, push state | aggregate, push, digest, quiet hours | statement and job apart; a like during a delivery; jobs that die or grow stale | each actor named a bounded number of times; who is owed a push is named; a digest is not forgotten |
| **Reviews and interactions** (`reviews/`, `interactions/`) | reviews, likes, comments | write, like, comment, delete | counters, activity of deleted things | nothing left of what is deleted |
| **Shelves** (`shelves/index.ts`) | shelves, items with positions | add, move, remove, reorder | shifting positions concurrently | positions are 1..n, limits hold |
| **Moderation and admin** (`moderation/`, `admin/`) | reports, actions, strikes, appeals | report, escalate, reverse | two moderators on one case | one decision, reversible |
| **Rate limits, outbound calls** (`platform/`) | windows, circuit state | count, open, half-open, close | many callers in one half-open circuit | limits hold; the circuit closes again |
| **Telemetry** (`telemetry/`, `lib/events.ts`) | event buffer, backoff | record, flush, sign-out | a batch over a sign-out | bounded; one session's events stay its own |
| **Catalogue, feed, authorization, contract, web, providers, bench, deployment** | little of their own | queries, rendering, parsing, wiring | – | – |

The behaviours of each that a test would hardly reach are the hazards listed in
`PROJECT.json`, each at its line.

## 2. The modules

| Module | What it is |
|---|---|
| `MutationQueue` | the offline write queue with its flush, the callers that start it, and the server as far as likes and follows need it |
| `MutationQueueProofs` | its theorems |
| `MCMutationQueue` | its instances for TLC |
| `AttemptHistory` | abstract: what a reader's attempts and their activity look like when each request takes effect at once |
| `ReadingAttempts` | the reading service: transactions, locks, activity |
| `ReadingAttemptsProofs` | its theorems, with the refinement of `AttemptHistory` |
| `MCReadingAttempts` | its instances |
| `Uploads` | uploads, the avatar and the cleanup |
| `UploadsProofs` | its theorems |
| `MCUploads` | its instances |
| `FollowGraph` | abstract: who follows and who has blocked whom, changed in single steps |
| `SocialGraph` | follow, unfollow, accept, reject, block, unblock and the privacy switch, statement by statement |
| `SocialGraphProofs` | its theorems, with the refinement of `FollowGraph` |
| `MCSocialGraph` | its instances |
| `Sessions` | refresh-token families on the server and the devices that hold the tokens |
| `SessionsProofs` | its theorems |
| `MCSessions` | its instances |
| `OfflineReads` | the device's reads, the queue that sends them, the lists that refresh them, and the server with another device |
| `OfflineReadsProofs` | its theorems |
| `MCOfflineReads` | its instances |
| `Imports` | the import job with its retry, the requests on its rows, and the app beside them |
| `ImportsProofs` | its theorems |
| `MCImports` | its instances |
| `Notifications` | the rows of likes and follows and the worker that turns them into pushes |
| `NotificationsProofs` | its theorems |
| `MCNotifications` | its instances |

`OfflineReads` composes the device's tables with the queue, the network and the server's reads. It keeps of the
queue what `MutationQueue` and its proof of `Fifo` say: the oldest waiting row of an entity goes first.
`Sessions` composes the server's and the device's half of a session, `SocialGraph` the services
`social` and `identity` with the activity and notification rows both write.

### MutationQueue

A row is an id in `1 .. MaxRows`, in the order of insertion (its rowid), with a
`status`, an `action`, the `entity` it is keyed by and its `attempts`. Time is
reduced to what the code compares: `due` for `next_retry_at <= now`, `born` for
`created_at`, an epoch of the device clock, so a clock set back
(`ClockSetBack`) really changes `ORDER BY created_at, rowid`, and puts every queued row's
`next_retry_at` ahead of it.

JavaScript runs from one await to the next without interruption, so an action
is what stands between two awaits that matter:

| Action | Code |
|---|---|
| `Enqueue` | a repository write: its transaction, then `flush()` |
| `EnqueueDesiredState`, `Coalesce` | queue.ts:214-247, the SELECT, then the decision with its conditional DELETE |
| `CallFlush` inside `Foreground`, `TimerTick`, `Reconnect`, `RetryDeadLetter` | queue.ts:252-263: start, or set `flushAgain` |
| `FlushReset`, `FlushSelect` | 264-291: processing rows back to pending, the SELECT with its NOT EXISTS |
| `Claim`, `ReRead`, `Send` | 292-395: the conditional UPDATE, the row and the alias again, the request |
| `MarkSuccess`, `Wait`, `Throttle`, `Refuse`, `MarkFailure` | 396-471, 525-538: the answers, with the remap of a read |
| `MarkFound` | 355-366: the book was in the library already, a success with no id |
| `FlushEnd` | 315-325: the finally block, and the next flush |
| `RetryDeadLetter`, `DismissDeadLetter` | 492-506 |
| `Crash` | the process dies: rows stay, the flush and an open transaction do not |

Writes of a read are the `upsert` that creates it, the swipe's (`ifAbsent`), which a 409
satisfies, and any other (`write`); the queue treats all others alike. A like or follow is `set` or
`unset`. Variables `origin`, `ahead`, `died`, `sent`, `applied`, `found`, `cancelled`,
`doubted` and `owed` are history: no guard reads them, except that a write of a
local read needs the read to have been created and Retry needs a row the screen
has shown.

### ReadingAttempts and AttemptHistory

One reader, one work, several concurrent requests. `reads` is a sequence by id,
`feed` the activity verbs written about each, `events` what each client event id
was stored for. `advisory` is `#lockAttempts`; the lock of a row is not a
variable: `RowHeld(i)` says which request holds it, because a transaction keeps
it only across a wait for the advisory lock. A step is the stretch of a
transaction between two places where another may come in, and the last one
commits. `upsert` is two steps (`UpsertLook`, then `UpsertInsert` or
`UpsertUpdate`), `finish` and `dnf` one, or three when they make a new attempt
(`Finish`/`Dnf`, `NextAttempt`, `InsertNext`), `addProgress` up to four, each
committed on its own. The constraints `reads_dates_ck` and the unique attempt
number are guards with an error as their other branch, and PostgreSQL's deadlock
detector is `DeadlockAbort`. Dates are `0 .. Today + 1`, 0 for NULL and tomorrow because `readDate` accepts
the day of a reader ahead of UTC, with every COALESCE of the code; `Days` are the ones requests name.

`AttemptHistory` records attempts above the ones there, moves a non-terminal
one and removes one, each with its activity. `HistoryKept` is
`History!Spec` under the mapping that forgets the dates.

### Uploads

`status` is the row of an upload, `objects` what storage holds for it, `age`
what has passed of the URL's and the row's term. A request is a chain of steps
at one store or the other. `SetLook` is `SELECT ... FOR UPDATE`, and `RowLocked`
the lock it keeps to the commit in `SetTake`. `CleanSelect` reads without a lock,
`CleanDelete` deletes an object and `CleanMark` updates its row; `CleanCrash`
covers a worker that dies and a delete that throws, which end the run alike.
`Send` is the client's PUT: nothing of the server sees it, and it may replace
an object that was already looked at, for as long as the URL is valid. Two history variables name what breaks an avatar: `resent`, the
uploads whose file was sent again after a `complete` had decided, and `overdue`,
those the cleanup selected while a consumer held them.

### FollowGraph and SocialGraph

`follows`, `blocks` and `private` are the committed rows, `cards` the `followed` activity and `notes` the
notifications of follows and requests. A request is a transaction, and a step one statement of it:
`LockPair`, `Check`, `Write`, `Find`, `Rows`, `Count`, `Card`, `Profile`, `Commit`, in the order each request of the code takes them. It reads what is committed when it
begins (READ COMMITTED), and waits for locks: `pairLock` is `lockPair`, `rowLock` a row of `follows` that is written and
not committed, with what was written in `draft`, and `profileLock` the row of `profiles` that the follow counters'
trigger updates. A COMMIT is one step with the last statement before it, and publishes the drafts, the cards and the
notifications together. When PostgreSQL finds a circle of waiting
requests, `Victim` rolls one of them back. Unfollow and the requests' answers lock less than follow and block do, which is
why the order of the statements matters.

`FollowGraph` has the same requests as single steps, and the invariant `NoFollowAcrossBlock` as part of its
specification: a step that would break it is none of its steps.

### Sessions

`tokens` is the table `refresh_tokens`; a token is its place in it. `srv` has the requests the server is working
on: `Burn` is the conditional UPDATE of a refresh (identity/index.ts:562), which keeps the row locked until `Issue` commits
the successor, `Look` is what a refresh does that burned nothing, `Find` and `Revoke` are what an UPDATE of a family sees and writes, and so on for logout,
login with its restore, reset and deletion. On a device `caller` is a request of the app,
`flight` the one refresh all callers of a 401 share (authFetch.ts:61-85) and `sign` the sign-in or sign-out, each
one step from await to await, so a sign-out runs between the two writes of a refresh's tokens. `LoseRefresh` is
a lost answer to a refresh, or a failure of the secure storage that is to keep it, and `Kill` the death of the app; access tokens expire in the order of issue (`aged`). `ended` and `reused` are history.

### OfflineReads

The reads of one book. A write of the reader is a number, in the order of `mutation_queue`; a read's contents
are the writes it shows. `server` is what the server has, `reads`, `row` and `alias` the tables on the device, `list`
what a screen has fetched and not yet cached. `SaveReadStatus`, `WantToRead`, `AddProgress`, `FinishRead`, `DeleteRead`,
and a review in its two transactions (`ReviewUpdate`, `ReviewEnqueue`) are the repository's operations;
`Send`, `Serve`, `MarkSuccess`, `Lose`, `DeadLetter` the flush and the server; `Fetch` and `Cache` a list (repository.ts:483-537);
`Elsewhere` another device of the reader.
`SlowLists` lets a list be overtaken by the queue before it is cached. A list may be cached while a read made here waits for its id: the read then has
two rows until the answer, and if one of them is deleted meanwhile, `crossed` remembers what waited for either. `mixed` is history: the ids that stand for more than one read of the device, because a create
was answered with an id the device had already, and not by its own doing (`SameRead`): POST /reads answers with the open attempt, whoever made it.

### Imports

One import: `rows` are its `import_rows`, `job` its row, `reads` who made the reader's attempt at a
work, `shelf` how many shelves carry the tag. A run of the job matches a chunk, opens a transaction, and takes its
rows one by one in a savepoint (`LookRow`, `InsertRead`, `MakeShelf`); the insert's NOT EXISTS is evaluated before it waits for the attempt lock
(`Look`). `RecordRows`, `Commit` and the final counts follow. A run that throws or dies is followed by the next of `Runs`,
and an expired one goes on beside it. The requests resolve and skip rows, and the app logs and removes books.

### Notifications

`group` holds the rows of one read's likes, or of the reader's follows; one at most is open, because
of `notifications_open_group_uq`. `Emit` is a like or follow with `#emit`, one step, since counter triggers have locked
the read or the profile before. `waiting` and `later` count pg-boss jobs that can be fetched and that wait for
their time. The worker does one job at a time (jobs/index.ts:686-688), a statement a step: `View` with every rule that ends a
delivery early, `Defer`, `Aggregate` then `Enqueue` (the two statements of delivery.ts:146-150), `Limit`, `Send`, `Named`, `Final`.
Preferences, devices, quiet hours and the two quotas are the environment's choice at each delivery. `Die` is a death of the worker or a
statement that throws: pg-boss tries a job again (`Again`) up to its retry limit, which is 2 where the code sets none, and then gives it up (`GivenUp`).
`Drop` is its retention of a day. `Block` and `Mute` hide an actor from the views and leave the row's actors as they are, `Reveal` is an unblock or unmute, and
`Quietly` a like or follow that `#emit` returns from early; a block also ends the follow. `asked`, `told`, `owed`, `missed` and `silent` are history: `missed` are
those owed a push who will not get one, and `silent` the open rows whose digest was lost, each for a reason of the code.

## 3. The runs

Twelve configurations make up the regular check (`PROJECT.json`, "runs"), with one
mutant of the code for each property of a passing run: TLC finds every mutant.

| Run | Checks | Bounds |
|---|---|---|
| `QueueReads` | `TypeOK`, `Fifo`, `LocalIdHasNoRead` | 1 local read, 1 server id, 3 rows, 2 attempts, late reviews, any 2 of: 2 failed or lost exchanges, a crash, a retry, a reconnect |
| `QueueLive` | `ClaimHeld`, `WishesReachServer`, `PromptlySettled`, `EventuallySettled` | a read and a target, 2 rows, 2 attempts, any 3 of: a lost or failed exchange, a crash, 2 retries (also of one row), a clock set back; fair |
| `ReadFinishes` | `TypeOK`, `RefusedOnlyBackwards`, `HistoryKept` (refinement) | 3 requests by read id, 2 days and tomorrow |
| `ReadNumbers` | `NumbersAgreed`, `NoGhostActivity`, `ProgressKept`, `Answered` | 3 requests of all five endpoints, no day named, on a wanted, finished or abandoned attempt; fair |
| `UploadAvatar` | `TypeOK`, `AvatarServed`, `AcceptedStored`, `ExpiredGone` | 2 uploads, 4 requests, 1 failed cleanup |
| `SocialGraph` | `TypeOK`, `CardsHaveFollows`, `PrivateCards`, `Answered`, `GraphSpec` (refinement) | 2 users, 2 requests of every kind from every state; fair |
| `SessionDevice` | `NoFalseAlarm`, `CallersResume` | 1 device, 2 callers, 2 tokens, 1 of: a lost answer, a failed write, a killed app; fair |
| `SessionRevoked` | `TypeOK`, `OneLive`, `EndedForGood` | 1 device, 3 tokens, 2 requests at once, reset and deletion from elsewhere |
| `OfflineReads` | `QueuedShown`, `DeletedHidden`, `AddedTrue`, `RefreshTells` | 1 screen, 2 reads on the server, 1 made here, 3 writes, 1 fault, 1 request of another device |
| `OfflineDeleted` | `DeletedHiddenAsStated`, violated | see section 4 |
| `Imports` | `TypeOK`, `Accounted`, `CompleteRecorded`, `SettledStays`, `Ends` | 4 rows in chunks of 2, two of one work, 2 runs, 1 request, 1 fault; fair |
| `Notifications` | `QueuedHasJob`, `ToldOnce`, `Told` | 2 actors, 2 rows, 2 likes or follows, 1 retry of a job, any 2 of: 2 deaths, a night, a dropped job; or a block or mute; fair |

Configurations outside this list, for larger instances or further properties: `ReadUpserts`, `ImportTwo` (two requests),
`SocialThree` (three requests, without symmetry of users), `UploadCleaned` (`CleanedUp`: every upload nobody
consumed is cleaned in the end), `OfflineTwo` (two reads made here and two faults, with `TypeOK` and `DirtyQueued`: a row that lists leave alone
has something to be sent, or was refused). `QueueLive` also passes with a local read (`Locals <- OneLocal`). All pass; the ones of section 4 are violated.

What they show:

- **`Fifo`**: no write of a read is sent while an earlier, never refused one
  waits, over backoff, throttling, remaps, writes queued in the middle of a flush and
  crashes. Rows that were dead letters are left out, because the code lets the others
  pass them on purpose (queue.ts:413-417).
- **`LocalIdHasNoRead`**: a local id goes out only for a read whose creation made none:
  refused, or found in the library.
- **`ClaimHeld`** and **`WishesReachServer`**: a like decided from a row read
  before an await never removes a row a flush has claimed (only Retry does, tapped again), and once a target is at
  rest the server holds what the user last asked for, unless an exchange failed
  here and was applied there.
- **`PromptlySettled`**, **`EventuallySettled`**: a queued write is sent or dead-lettered; without
  failures by the flush it asked for or the one after, with failures by the
  timer and the end of a backoff.
- **`HistoryKept`**: the requests by read id, interleaved, do what they would do one at a
  time. `ReadUpserts.cfg` checks the same of POST /reads without finish and dnf beside it.
- **`NumbersAgreed`**: no insert meets the unique index, with the lock taken after the row
  in one handler and before it in the other.
- **`NoGhostActivity`**: a write under way while its read is deleted leaves no activity,
  which no foreign key would clean up: an upsert, looked at without the row's lock, may end as one.
- **`ProgressKept`**: acknowledged progress is stored for that read. An event
  id is spent on one read (`SharedEvents = FALSE`), which is what the app does.
- **`RefusedOnlyBackwards`**: a finish, today where it names no day, is refused for its date only by a start given with it or stored
  before, never by one the service fills in.
- **`AvatarServed`**, **`AcceptedStored`**, **`ExpiredGone`**: the avatar's
  file, the accepted file, no orphan, while completes, consumers, removals and the cleanup overlap as they like. The first two except
  `resent` and `overdue`, whose race with the code is lost (section 4).
- **`GraphSpec`**: follows, blocks and privacy change as if each request were one step, and no follow ever
  crosses a block, although unfollow and the privacy switch take fewer locks than follow and block.
- **`CardsHaveFollows`**, **`PrivateCards`**: a `followed` card stands for an accepted follow, one each, and is not
  public for a private account, also when the account closes while a card is written.
- **`Answered`** (`SocialGraph`): lock orders do cross (`NoLockCycle` is refuted), and every request is still answered.
- **`OneLive`**, **`EndedForGood`**: of a family one token at most can be used; a family a revocation found whole never
  comes back, not even through a rotation that was waiting for the row.
- **`NoFalseAlarm`**, **`CallersResume`**: as long as no answer is lost, in the network, at the device's storage or with the app, no device presents a token twice, and everyone who
  waits for the shared refresh goes on, through sign-outs, sign-ins and lost answers.
- **`QueuedShown`**, **`DeletedHidden`**, **`RefreshTells`**: what waits in the queue is on the screen, what is deleted
  is not, and a list cached with an empty queue shows what the server has. The first two except ids of two reads, and what waited for a read of
  two rows of which one was deleted (`crossed`): section 4 shows the code break the claims there.
- **`AddedTrue`**: a toast that says "added" is true, although another caller's flush may be running.
- **`Accounted`**, **`CompleteRecorded`**, **`SettledStays`**, **`Ends`**: with a run that overlaps its retry, every
  read the import made is on its row, a completed import has every row on record, a row with its book keeps it, and everything ends.
- **`QueuedHasJob`**: a row that asks for no digest because one is queued has one, unless its own digest was lost in one of four ways: dropped
  for its age, given up after its retries, never queued because the worker died between delivery.ts:146 and :149, or skipped with `digest_at` set. These rows
  (`silent`) do stay without one; `DigestQueued` and `LikesQueued` of section 4 are the claims without the exception, and fail.
- **`ToldOnce`**: a like is named once and a follow twice at most, plus once for each death of the worker, across retries, nights, and blocks with a new follow.
- **`Told`**: who is owed a push is named, except for the cases its comment lists, each of which is a behaviour of the code (section 4). Requests are
  finitely many, so that nobody is left waiting again and again means that each is named once they stop.

**Why the bounds are enough.** The shortest violation of each mutant and of each
configuration in section 4 needs at most three rows, three requests, or two
uploads: one to be overtaken or replaced, one to do it, and one in between. Three
rows of one read give a creation and two writes to reorder around its remap. Two
attempts (five in the source) give a failure that is not the last one. Two days
give an order of dates; with NULL every COALESCE is taken both ways. With two uploads an
avatar is replaced and the older one replayed. What the bounds cannot tell, the proofs
say for all of them. Two users have every pair, and every request of one against every request of the other, or of the same one;
`SocialThree` adds a third request. Three tokens are a family with a rotation and a reuse, or two families. Three writes are a
create, what follows it, and a delete, and a list may come between any two. Four rows in two chunks leave one chunk recorded and one to do when a run dies,
and a book twice, once in each chunk, beside another one; a row's match does not change between runs, and `ImportChanging` is the run without that. `ImportTwo` gives every row its own book. Two actors are one that is named and one that comes too late; two rows are a group read and its successor.
One retry and two deaths are a job tried again and one given up; two events let the worker die while a job is held back or dropped.

**Symmetry** is used for requests, uploads, devices and callers, with invariants, the action property
`SettledStays` and the safety refinement `HistoryKept` only, never with a liveness property.

**Fairness.** `FlushFairness`: a flush that has started goes on, and so does an open
transaction, because nothing in them waits for the user; a
request ends, because the phone's HTTP stack gives up on a silent one (the app sets no timeout of its own). `TimerFairness`: the 30 s timer (sync.tsx:112-116) fires while
writes wait, and a backoff ends. Neither a reconnect nor a return to the foreground is assumed.
`Fairness` of `ReadingAttempts`: a transaction that can go on does; PostgreSQL queues lock
waiters and detects deadlocks. `Fairness` of `Uploads`: requests go on, and the daily job is
retried and scheduled again by pg-boss. The number of failed runs is bounded by
`MaxCrashes`: with storage down for ever nothing is cleaned.
`Fairness` of `SocialGraph` and `Imports`: a statement that can go on does, one of the requests in a circle is PostgreSQL's victim, and pg-boss starts
the retry of a failed job. Nobody is assumed to make a request. `Fairness` of `Sessions`: the server finishes what it has begun, and a refresh goes on; strong,
because a refresh's request needs one of the server's slots, which other requests take and free. `Fairness` of `Notifications`: the worker
fetches and goes on with its job, and an hour passes.

## 4. Where the code and its comments part

Each of these states what a comment, a test or another file says, and
TLC finds a behaviour of the code that breaks it. `OfflineDeleted` is in the regular check
and listed as a finding in `PROJECT.json`; the others are run by hand. Where a configuration has several properties it checks the first, and names the others in comments
at its end, with the constants they need: put one in its place.

| Configuration | Property | Says | Does |
|---|---|---|---|
| `QueueRefuted` | `CancelledNeverApplied` | queue.ts:15-18, :209: like then unlike sends nothing, both are gone | a like whose answer was lost is pending again although applied; the unlike deletes it and the server keeps the like |
| `ReadRefuted` | `TerminalKept` | reading/index.ts:152-154: a finished record is never overwritten | upsert decides from an unlocked SELECT; a finish committed before its UPDATE is overwritten |
| `UploadRefuted` | `NoRaceWithConsumer` | uploads/index.ts:354-355: no race with a consumer | the cleanup selects an upload that expires inside a consumer's transaction, and deletes its object |
| `QueueRefuted` | `ForceHonoured` | sync.tsx:126: a reconnect skips the backoff | when a flush is running, the next one is not forced (queue.ts:255-258, 320-323) |
| `QueueRefuted` | `ClaimHeldAsStated` | queue.ts:17-18: only a row no flush has claimed is touched | retryDeadLetter (:494) sets a row to pending whatever its status |
| `QueueRefuted` | `DroppedCopySilent` | queue.ts:359-360: the book is in the library, as asked: no sync issue | the local copy is dropped, but the writes queued on it go out under the local id, are refused, and are the sync issue |
| `QueueRefuted` | `FifoAsStated` | queue.ts:4: FIFO per entity | a review keyed by an id that is remapped before its INSERT (repository.ts:599) overtakes |
| `QueueRefuted` | `FifoAsStated` | queue.ts:4 | the order is the wall clock's (:280) |
| `ReadRefuted` | `FinishToldOnce` | reading/index.ts:474-476: one activity, not two | upsert compares with a status read before the finish it overwrites (:270) |
| `ReadRefuted` | `ReplayedFinishOnce` | :476, reading-lifecycle.test.ts:110: a replayed finish is one | after a DNF, or on a re-read with its date, each replay starts another attempt (:306-307) |
| `ReadRefuted` | `NeverVanishes` | :486 throws as for an impossible case | a delete between upsert's two statements reaches it (:235, :254) |
| `ReadRefuted` | `UndatedFinishAccepted` | reading/index.ts:53-56: today is the user's, a day ahead of UTC is accepted | a start of tomorrow is accepted, and then a finish with no day, which is CURRENT_DATE (:319-323), is refused as before it |
| `ReadPastFinish` | `RefusedOnlyBackwards` | :321-322: a past finish dates the start | upsert's UPDATE (:257) fills in today instead, and refuses |
| `ReadDropped` | `ProgressKept` | :743-745: an event of another read is a conflict | the other read and its event are deleted between the INSERT and the SELECT (:746): answered with success, nothing stored |
| `UploadRefuted` | `NeverLost` | uploads/index.ts:243: a refused file is deleted | the delete (:244) takes the file that a second complete has accepted meanwhile |
| `UploadRefuted` | `NeverBroken` | uploads/index.ts:15-17: consumers must re-check the hash when they read the file | the import worker does, the avatar (:435-500) does not: a file sent again after `complete` is the one that is served |
| `OfflineDeleted` | `DeletedHiddenAsStated` | repository.ts:495: deleted here, not yet on the server: a refresh must not bring it back | a read made here and deleted before its create is answered is known to a list by the server's id, for which :497 finds neither row nor delete |
| `OfflineRefuted` | `DeletedStays` | repository.ts:495 | a list fetched before the delete was sent and cached after it inserts the read again, and nothing removes it |
| `OfflineRefuted` | `RowsNotAliased` | queue.ts:525-534: an alias stands for a row that moved | after another device has deleted its attempt, a row gets a second server id and an alias from the first, which a list may bring back |
| `OfflineRefuted` | `AlreadyTrue` | the toast of wantToRead (repository.ts:426-429) | "already" is also answered when another caller's flush has just added the book |
| `OfflineRefuted` | `QueuedShownAsStated` | repository.ts:487-500 | the row of a list stands beside the local one until the create is answered; once that row is written to and deleted, the answer moves the local one to its id, without what was written |
| `OfflineDelete` | `DeleteSparesLater` | queue.ts:4 and :268: writes go in order, by entity | a book deleted and taken up again has two entities: the delete may be sent after the new create, and takes it |
| `SocialRefuted` | `CardGoesWithFollow` | social/index.ts: the follow row and its activity go together | an unfollow without the pair lock deletes the card of a follow made after its DELETE of the row |
| `SocialRefuted` | `NoLockCycle` | drizzle/0036_social_graph_audit.sql: one lock order cannot cycle | rows of `follows` and of `profiles` are taken in both orders |
| `SocialRefuted` | `NoPendingOnPublic` | identity/index.ts:923: going public accepts the pending requests | a follow that read `private` before is written after, as a request |
| `SocialRefuted` | `RequestTold` | a waiting request has its notification | an answer that found no request to reject deletes the notification of one made meanwhile |
| `SessionRefuted` | `StaysSignedIn` | authFetch.ts: a network error keeps the user signed in | the refresh whose answer was lost is repeated with a used token: reuse, and the family ends |
| `SessionRefuted` | `NothingHeldAfter` | sessionFlow.ts: this device holds no token afterwards | a refresh answered after the sign-out saves its tokens |
| `SessionRefuted` | `ResetEndsAll` | identity/index.ts: a reset revokes all families | its UPDATE does not see a token a rotation has not yet committed |
| `SessionRefuted` | `EndsOwnSession` | authFetch.ts: only a refused refresh token ends the session | a refresh that was refused, or found no token to send, clears the tokens of a sign-in made meanwhile |
| `ImportChanging` | `Accounted` | imports/processor.ts: a resumed run sees what was made | two overlapping runs match a row to two works, and both make their read |
| `ImportRefuted` | `CountsTrue` | processor.ts:171-181: counts are those of the rows | counts read before another commit are written after it |
| `ImportRefuted` | `NoRace` | committer.ts:157-158: NOT EXISTS keeps an attempt that is there | it is evaluated before the wait for the lock: the unique index answers |
| `ImportRefuted` | `StaysCompleted` | processor.ts:70-76: a completed import is left alone | the expired run that fails after its retry's completion sets `failed` |
| `NotifyRefuted` | `LikesJoin` | notify/index.ts:360-361: likes inside that hour join it | one that comes after the delivery has read the actors, and before it writes `sent`, finds `queued` and is in no digest |
| `NotifyRefuted` | `DigestQueued` | delivery.ts:140-141: beyond that the hour's follows are one digest | a digest skipped by a rule, or a crash between :146 and :150, leaves `digest_at` set, and none is queued again |
| `NotifyRefuted` | `FollowToldOnce` | delivery.ts:157: everyone not yet named in a push | a push of its own does not look at `pushed_at`: held back for quiet hours or a worker that was down, it names a follower again after the digest |
| `NotifyRefuted` | `LikesQueued` | notify/index.ts:94-97: a stale push is not sent; jobs are retried | the row of a digest dropped for its age, or given up after its retries, stays `queued`, and later likes of the open row queue nothing |
| `NotifyRefuted` | `FollowsInDigest` | delivery.ts:140-141: the hour's follows are one digest | somebody blocked, unblocked and following again keeps `pushed_at` in the open row (index.ts:353-355): beyond the quota they are left to a digest that does not name them |

## 5. The proofs

**MutationQueueProofs** proves, for any number of rows, reads, targets, attempts and faults:

- `TypeCorrect`: `Spec => []TypeOK`, which includes that a row that failed `MAX_ATTEMPTS` times is
  not tried again.
- `FifoCorrect`: `Spec => []Fifo`. `Fifo` is not inductive: whether a row may be sent was decided at
  the SELECT, several steps earlier, about rows that were re-keyed and joined since.
  The invariant is `IInv == TypeOK /\ Control /\ Claimed /\ Lines /\ Plan /\ Fifo`. `Control` ties the
  flush's place to its variables, `Claimed` says which rows are processing, `Lines` that
  rows of one read stay keyed alike (a row and those it was queued behind are re-keyed together), and `Plan` that every
  row the flush has still to look at has its earlier rows either done, before it in its line, or
  dead. `Plan` is where the NOT EXISTS, the halt of a line after a failure and the order of the loops
  come together; it has a lemma for the SELECT, for a claim, and for the answers.
- `ClaimCorrect`: `Spec => []ClaimHeld`, a part of `IInv`. A row may leave its flush only where Retry was tapped on it while it was sent; without that exception `QueueRefuted` violates it.
- `LocalIdCorrect`: `Spec => []LocalIdHasNoRead`. `Created` says of every write of a read made here which upsert it is behind (`Creates`): that one was refused, or found its book in the library, or its
  answer gave the read an alias, or it waits under the same id. A row sent under a local id has no alias (`Unmapped`), and by `Plan` it waits for nothing; so the upsert has been answered without a read.
- `WishesCorrect`: `Spec => []WishesReachServer`. The waiting writes of a target take turns (`Chain`): two that follow one another want opposite states, the first
  is news to the server until its answer is on the way, the last is what the user wants. A decision between its SELECT and its DELETE has found the last one (`Tapped`), which is why taking
  it back is right, and why `Cancellable` must look at its status again. That a row in flight is the first follows from `Plan`, and `Front` keeps it so after the process dies.

They assume `QueueAssumption` only: naturals, and disjoint ids.

**UploadsProofs** proves, for any number of uploads and requests, any batch, any number of failed runs:

- `TypeCorrect`, and `NoOrphans`: `Spec => []ExpiredGone`, with no assumption on clients. It
  needs `Cleaning`: what the cleanup has taken has expired, and between its delete and its UPDATE nothing
  is stored for the upload. A presigned URL is dead by then, so no PUT can put it back.
- `AvatarCorrect` and `AcceptedCorrect`: `Spec => []AvatarServed` and `Spec => []AcceptedStored`, with no assumption on clients or
  on the length of a transaction. Their invariant is
  `Served`: what a `complete` is about to write is true of the file (`Checked`), a consumer that
  holds a row holds an accepted or consumed one, which the cleanup has only if it is overdue (`Taken`), a key about to be
  deleted belongs to a consumed upload that is not the avatar (`Replaced`), and the cleanup has a consumed upload only if
  it is overdue (`Kept`). Without the exceptions `UploadRefuted` violates both.

**ReadingAttemptsProofs** proves, for any number of requests, events and days:

- `TypeCorrect`, `NumbersCorrect` and `GhostCorrect`, with no hypothesis. Every step of a request does one of four things to the tables
  or none (`Added`, `Changed`, `Removed`, `Noted`), in one transaction and by what the request has seen; each action has a
  lemma that says which (`Effect`), and the invariants are then proved from the effects. `NumbersAgreed` needs `Numbering`: who holds the advisory lock knows a
  number above all others (`Fresh`), numbers stay below the table's length (`Bounded`), and any attempts have a last one
  (`Ranked`, an invariant because it is finiteness said without induction). Nobody else can add an attempt while the lock is held, although finish and dnf
  take the row before it and POST /reads after.
- `ProgressCorrect`: `~SharedEvents => (Spec => []ProgressKept)`, by `Sent` and `Stored`: an event is stored for a read it was sent for, and
  from its INSERT on for as long as that read exists. `ReadDropped` shows that the hypothesis is needed.
- `RefusedCorrect`: `RefusedOnlyBackwards` without POST /reads, which refuses more (`ReadPastFinish`).
- `HistoryImplemented`: `Tame => (Spec => HistoryKept)`, the refinement of `AttemptHistory`. `Tame` says that requests come by read id, or
  that POST /reads has no finish or dnf beside it; without it the refinement is false, as `TerminalKept` of `ReadRefuted` shows. `Current` is its invariant: what
  an upsert has seen of a status is still so when it writes, unless the read is deleted.

They assume `RequestsAssumption`, `TodayAssumption`, `DaysAssumption` and `WantedAssumption`.

**SessionsProofs** proves, for any number of devices, calls, requests and tokens:

- `TypeCorrect`, with the inductive `Inv == TypeOK /\ Known`: whatever a request, a device or an answer
  carries is a token that was issued.
- `OneLiveToken`: `Spec => []OneLive`. Between the UPDATE that burns a token and the COMMIT that issues the next, the
  family has none to use, and nobody else can be there: `Burning` says that whoever is to issue the next token holds the row's lock, and that the token it replaces is the live one; `Families`, that a family is
  named after its first token.
- `OverIsOver`: `Spec => []EndedForGood`, from `Single`, the conjunction of `Burning`, `Families`, `OneLive` and `EndedForGood`, which is inductive with `Inv`.
- `NoAlarm`: `Spec => []NoFalseAlarm`. While no answer is lost the system is `Careful`: a token is held by one device, which keeps it, has presented it,
  or is about to save it, and a request is awaited by one device (`Apart`); a refresh at work is awaited, and none was answered with a reuse (`Served`);
  and a device whose kept token is burned is getting or saving the next one (`Sound`, with `Replacing`), so it does not present the old one. Each action has one lemma; `HandKept` says
  what a device keeps when a step is not about it. A lost answer ends it: `SessionRefuted` shows what comes then.

They assume `SessionsAssumption`.

**ImportsProofs** proves, for any file, any size of a chunk, any number of runs, requests and faults:

- `TypeCorrect`, `CompleteCorrect` and `SettledCorrect`, with no hypothesis: runs may overlap, matches may change. The invariant is one predicate of each
  transaction, `Mine(t)`: `Proper`, that its place agrees with what it carries; `Kept`, that every row looked at has an outcome and every read made a row that says so;
  `Holds`, that the row locks of a run are of rows nobody has recorded and those of a request of rows that are open, which is why a settled row is never written;
  `Covers`, that what a run has not on its list is on record, which is `CompleteRecorded` when the list is empty. Each action has a lemma that it is a `Step(t)`, which says what
  it leaves of the others, and one lemma, `OthersMine`, does the rest. `RefusedAtRow` shows that no deadlock goes through the locks of rows, so that a chunk is never refused after its last row.
- `AccountedCorrect`: `Spec /\ []OneRun => []Accounted`. As long as a run begins only after the one before it is over, what the import made is accounted for, even when
  matches change between runs; `ImportChanging` shows what an overlap may lose. `Alone` is the invariant: the rows on a run's list are recorded by nobody.

That a set of rows has a lowest one, and a list a first chunk (`LowestIn`, `NextChunkIn`), is proved by a smallest counterexample, from the library's theorem that inclusion is well founded.
They assume `ImportAssumption`, and `LocksAssumption`: the id of a work is not the id of a row's lock.

**OfflineReadsProofs** proves, for any number of reads, writes, faults and screens:

- `TypeCorrect`, `DirtyCorrect`, `AddedCorrect` and `RefreshCorrect`: lists may be overtaken, and may be cached while a create waits for
  its id. The invariant is `Inv`, the types with `Real` (an alias is an attempt the server made), `Answer` (what is said of the row in flight), `Locals` (a local
  id is no read's any more once it was answered, and only a review may still be keyed by it), `Mixing` (an attempt that has an alias is mixed, and so is the alias), `Turns` (a row
  sent before an earlier one of its read overtook a dead letter) and `DirtyQueued`.
- `ShownCorrect` and `HiddenCorrect`: `Spec => []QueuedShown` and the same of `DeletedHidden`, whenever lists are cached. Their invariant is `HInv`, with `Shows`: what waits is
  in its row, and the row is left alone by lists, until it is deleted. The step that matters is the answer to a create whose read a list has shown already (`AnsweredOwn`): either no
  delete waits for one of the two rows, and what is written to the server's stays, or what waits is in `crossed`.

The attempt to prove them showed that `mixed` was too small: it counted an id only when the device had a row for it at the moment of the answer, and missed one that
was in use as an alias or in the queue, or that a refused create had made. With two reads made here, or two faults, `DeletedHidden` then failed for ids that do stand for
two reads. `SameRead` says when an answer is of the create itself, and `OfflineTwo` checks those bounds. They assume `OfflineAssumption`.

**SocialGraphProofs** proves, for any number of users and requests:

- `TypeCorrect`.
- `GraphImplemented`: `Spec => GraphSpec`, the refinement of `FollowGraph`: each statement either changes nothing committed, or its
  COMMIT is a step of the abstract graph. Everything is in what a request may rely on between its check and its COMMIT, `Mine(r)`: `Shape`, which request comes
  to which statement with what; `Holds`, who holds `lockPair`, and from which statement on; `Together`, that nobody blocks while a follow is being written;
  `Unopposed`, that the other does not block while a block is; `Severs`, that a block has deleted the follows of the two, or is about to,
  by the time it commits; and `Drafts`, what is written over what. The invariant is
  `TypeOK /\ NoFollowAcrossBlock /\ \A r \in Requests : Mine(r)`.
- `ApartCorrect`: `Spec => []NoFollowAcrossBlock`.
- `CardsCorrect` and `PrivateCorrect`: `Spec => []CardsHaveFollows` and `Spec => []PrivateCards`. No lock is taken for the cards themselves. They are right
  because of the order of the statements, and `Books(r)` says which part each request relies on: a follow's row is written, and locked, before its card; the
  counters' trigger locks the profile until COMMIT, so the account does not turn private between the check and the card (`Counts`, `Owns`); an unfollow that has the row
  takes all the row's cards with it (`Drops`); and a rejection takes only requests that wait, which have no card (`Rejects`). The invariant is `CardsKept`, inductive with the one above.

They assume `UsersAssumption` (users are ordered, as the ids that `lockPair` sorts are) and `NobodyAssumption`.

**NotificationsProofs** proves, for any number of actors, rows, deaths, dropped jobs, nights, blocks and mutes, and any limit on the retries of a job:

- `TypeCorrect`, and `QueuedCorrect`: `Spec => []QueuedHasJob`. The invariant adds `OwnPush`, that only the push of one actor sets
  `digest_at`, and `Unchanged`: the `digest_at` a push has read in its view is still the row's when it writes it back. That is what
  the single worker gives; with two, a push could write back a digest that another has finished, and no later follow would get one.
- `ToldCorrect`: `Spec => []ToldOnce`. The invariant `Covered` keeps a `Budget(a)` for each actor: the pushes that have named the actor, the jobs that wait to, the push
  on hand, and the digests in sight of the two rows add up to no more than what was asked for plus the worker's deaths. Every action moves one of these into
  another or takes one away; only a request and a death add one. `OneOpen` says that one row is open at most, so that an actor is still to be named by one row only, and `OwnName` that a push of one actor names that actor only.

They assume `NotificationsAssumption`: the kinds, rows that are naturals, and bounds that are naturals.

**Only model-checked**: liveness (`PromptlySettled`, `EventuallySettled`, `Answered`, `CallersResume`, `Ends`, `Told`, `CleanedUp`), which TLAPS does not
reach, and `Accounted` where runs overlap.

## 6. Limits

- **MutationQueue** models one signed-in user. `FlushReset` (queue.ts:266) resets the rows of
  all users, and an account may be switched while a flush runs: planned. The contents of a
  payload, and the merging of a queued progress into the local row, are not modelled.
  `Targets` stands for reads to like and users to follow, as the queue treats them alike. A clock
  set back by less than the queue holds delays a part of the rows, as a backoff would.
- **ReadingAttempts** leaves out visibility, ratings, goals, yearly statistics, milestones and
  notifications: they are computed from what is modelled, in the same transactions. The service
  does not retry a transaction PostgreSQL aborts, so a deadlock is answered with an error.
  Merges of works (`catalog/resolve.ts`) take other locks and are planned.
- **Uploads** models avatars. A file consumed by an import is checked again by its hash when it is
  read (imports/processor.ts:96-104). The weekly sweep of replaced avatars is planned.
- **SocialGraph** leaves out mutes, suspensions and deleted accounts, which only refuse a request
  before it writes, and the counters' arithmetic, of which it keeps the trigger's locks.
- **Sessions** has one account. A failure of the secure storage is modelled where it keeps the tokens of a refresh, not where it keeps those of a sign-in, which then fails, or clears them. Registration, verification mails and handles are left out, and the
  limits on requests.
- **OfflineReads** has one book. The third SELECT of wantToRead only words a toast and is left out. Shelves, reviews kept on the device, goals and the migration of a guest's data are
  left out. The queue is reduced to its order, which `MutationQueue` models in full.
- **Imports** begins with a stored file. Parsing and the search for titles are an external choice per row (`Matches`); ratings,
  reviews and dates of a row are part of its read. Goodreads and StoryGraph files differ in parsing only.
- **Notifications** has likes and follows, the two kinds that aggregate. Comments, replies, milestones, imports, reminders, and the receipts of
  pushes with their dead devices are left out, and so are the text of a push, deleted accounts, and private accounts whose reads somebody can no longer see. Dates are the order of `Due` and the worker's steps.
- **Not modelled at all**: rendering, parsing, search, statistics, contracts and provider adapters, which
  have no state to interleave; benchmarks, deployment and scripts.

## 7. The plan

In the order of the work, with what each is to say. To keep a full repetition short, a component
gets one run for its safety and liveness together where its bounds allow it.

1. `MutationQueue` and its proofs. Done.
2. `ReadingAttempts`, `AttemptHistory` and the proofs of its invariants and of the refinement. Done.
3. `Uploads` and its proofs. Done; the weekly sweep of replaced avatars is to be added.
4. `SocialGraph`, `FollowGraph`, the proof of the refinement and that of the cards. Done.
5. `Sessions` and its proofs. Done.
6. `OfflineReads` and its proofs. Done for one book and one account.
7. `Imports` and its proofs. Done; `Accounted` is proved for runs that do not overlap.
8. `Notifications` and its proofs. Done for likes and follows.
9. `SyncSession`: an account switched while a flush runs (sync.tsx, queue.ts:266), and the guest's books.
10. `Exports` and `Retention`: a job that fails after its commit, the link, the files.
11. `Dedupe`: merge and undo with writers beside them (`catalog/dedupe.ts:390` renumbers attempts after a max it has read); undo restores
    what was not changed since.
12. `Shelves` (positions), `RateLimits` (the circuit), as room allows.
