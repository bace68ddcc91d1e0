------------------------------- MODULE Uploads ------------------------------
(***************************************************************************)
(* Presigned uploads of one user (apps/api/src/uploads/index.ts): a client *)
(* sends a file straight to object storage, complete() looks at what       *)
(* arrived, PUT /me/avatar consumes the upload, and a daily job takes the  *)
(* uploads nobody consumed. The row of an upload lives in PostgreSQL and   *)
(* its bytes in object storage, with no transaction over both, so a        *)
(* request is a chain of steps at one or the other.                        *)
(***************************************************************************)
EXTENDS Naturals, FiniteSets

CONSTANTS
    Uploads,            \* upload ids; the object of an upload is named by it
    Requests,           \* calls of complete, set and remove, each made once
    NoUpload,           \* no avatar
    Batch,              \* how many stale uploads one cleanup run takes
    MaxCrashes          \* how often the worker dies in a cleanup run

ASSUME UploadsAssumption == NoUpload \notin Uploads
ASSUME BatchAssumption == Batch \in Nat \ {0}
ASSUME CrashesAssumption == MaxCrashes \in Nat

VARIABLES
    status,     \* uploads.status, "absent" before create
    age,        \* what has passed: 0 nothing, 1 the URL's TTL, 2 expires_at
    objects,    \* object storage: what is stored for an upload
    avatar,     \* profiles.avatar_key
    pc,         \* where each request is
    call,       \* what it asks
    seen,       \* what it has read so far
    cleaner,    \* the cleanup run: uploads to take, and the one whose object is deleted
    crashes     \* cleanup runs the worker died in

(***************************************************************************)
(* History, read by properties only.                                       *)
(***************************************************************************)
VARIABLES
    resent,     \* uploads sent again after a complete had decided on their file
    overdue     \* uploads the cleanup took out of the hands of a consumer

history == <<resent, overdue>>
vars == <<status, age, objects, avatar, pc, call, seen, cleaner, crashes, history>>

Statuses == {"absent", "pending", "uploaded", "consumed", "expired"}

\* A file that passes every check of complete, one of another size, and one
\* whose bytes are not what was declared.
Contents == {"good", "short", "garbage"}

NoCall == [kind |-> "none", upload |-> NoUpload]

Unconsumed == {u \in Uploads : status[u] \in {"pending", "uploaded"}}

\* SELECT ... FOR UPDATE of an upload holds its row to the commit.
RowLocked(u) == \E r \in Requests : pc[r] = "take" /\ call[r].upload = u

\* A complete has looked at the file and is about to write what it found.
Decided(u) == \E r \in Requests : pc[r] \in {"reject", "accept"} /\ call[r].upload = u

-----------------------------------------------------------------------------
(* The client and the clock.                                               *)

Create(u) ==
    /\ status[u] = "absent"
    /\ status' = [status EXCEPT ![u] = "pending"]
    /\ UNCHANGED <<age, objects, avatar, pc, call, seen, cleaner, crashes, history>>

\* The signed target accepts the bytes while it is valid, whatever became of the
\* upload.
Send(u) ==
    /\ status[u] # "absent" /\ age[u] = 0
    /\ \E content \in Contents : objects' = [objects EXCEPT ![u] = content]
    /\ resent' = IF status[u] = "pending" /\ ~Decided(u) THEN resent ELSE resent \cup {u}
    /\ UNCHANGED <<status, age, avatar, pc, call, seen, cleaner, crashes, overdue>>

Tick(u) ==
    /\ status[u] # "absent" /\ age[u] < 2
    /\ age' = [age EXCEPT ![u] = @ + 1]
    /\ UNCHANGED <<status, objects, avatar, pc, call, seen, cleaner, crashes, history>>

Calls == [kind : {"complete", "set"}, upload : {u \in Uploads : status[u] # "absent"}]
            \cup [kind : {"remove"}, upload : {NoUpload}]

Arrive(r) ==
    /\ pc[r] = "idle"
    /\ \E c \in Calls :
          /\ call' = [call EXCEPT ![r] = c]
          /\ pc' = [pc EXCEPT ![r] = c.kind]
    /\ UNCHANGED <<status, age, objects, avatar, seen, cleaner, crashes, history>>

-----------------------------------------------------------------------------
\* A request goes on with what it has seen, and ends with nothing.
GoOn(r, label, with) ==
    /\ pc' = [pc EXCEPT ![r] = label]
    /\ call' = [call EXCEPT ![r] = IF label = "done" THEN NoCall ELSE @]
    /\ seen' = [seen EXCEPT ![r] = IF label = "done" THEN NoUpload ELSE with]

GoTo(r, label) == GoOn(r, label, seen[r])

Drop(u) == objects' = [objects EXCEPT ![u] = "none"]

(* complete.                                                               *)

\* An upload already checked is returned as it is, an expired one is a 410.
CompleteLook(r) ==
    LET u == call[r].upload IN
    /\ pc[r] = "complete"
    /\ GoTo(r, IF status[u] = "pending" /\ age[u] < 2 THEN "head" ELSE "done")
    /\ UNCHANGED <<status, age, objects, avatar, cleaner, crashes, history>>

\* Mutant: what the client declared of the bytes is believed.
CompleteHeadOnly(r) ==
    LET u == call[r].upload IN
    /\ pc[r] = "head"
    /\ GoTo(r, IF objects[u] = "none" THEN "done"
               ELSE IF objects[u] = "short" THEN "reject" ELSE "accept")
    /\ UNCHANGED <<status, age, objects, avatar, cleaner, crashes, history>>

\* storage.head tells the size; a missing object is a 409.
CompleteHead(r) ==
    LET u == call[r].upload IN
    /\ pc[r] = "head"
    /\ GoTo(r, IF objects[u] = "none" THEN "done"
               ELSE IF objects[u] = "short" THEN "reject" ELSE "scan")
    /\ UNCHANGED <<status, age, objects, avatar, cleaner, crashes, history>>

\* #scan reads whatever is stored by then.
CompleteScan(r) ==
    LET u == call[r].upload IN
    /\ pc[r] = "scan"
    /\ GoTo(r, IF objects[u] = "none" THEN "done"
               ELSE IF objects[u] = "good" THEN "accept" ELSE "reject")
    /\ UNCHANGED <<status, age, objects, avatar, cleaner, crashes, history>>

\* reject: the object leaves storage, the row stays pending.
CompleteReject(r) ==
    /\ pc[r] = "reject"
    /\ Drop(call[r].upload)
    /\ GoTo(r, "done")
    /\ UNCHANGED <<status, age, avatar, cleaner, crashes, history>>

\* UPDATE ... WHERE status = 'pending'.
CompleteAccept(r) ==
    LET u == call[r].upload IN
    /\ pc[r] = "accept"
    /\ status' = [status EXCEPT ![u] = IF @ = "pending" THEN "uploaded" ELSE @]
    /\ GoTo(r, "done")
    /\ UNCHANGED <<age, objects, avatar, cleaner, crashes, history>>

-----------------------------------------------------------------------------
(* AvatarService.                                                          *)

\* What lockUploadForConsumer returns rather than refuses: a completed, unexpired
\* upload, and a consumed one, which is left to the caller.
Takeable(u) == status[u] = "consumed" \/ (status[u] = "uploaded" /\ age[u] < 2)

\* Mutant: the upload's row is read without FOR UPDATE, so the transaction
\* acts on a status that may have changed.
SetLookUnlocked(r) ==
    LET u == call[r].upload IN
    /\ pc[r] = "set"
    /\ GoOn(r, IF Takeable(u) THEN "take" ELSE "done", status[u])
    /\ UNCHANGED <<status, age, objects, avatar, cleaner, crashes, history>>

\* lockUploadForConsumer.
SetLook(r) ==
    LET u == call[r].upload IN
    /\ pc[r] = "set"
    /\ ~RowLocked(u)
    /\ GoOn(r, IF Takeable(u) THEN "take" ELSE "done", status[u])
    /\ UNCHANGED <<status, age, objects, avatar, cleaner, crashes, history>>

\* The profile's row, the switch and the commit. A replay is a success and an
\* older avatar's upload a 409; neither writes.
SetTake(r) ==
    LET u == call[r].upload IN
    /\ pc[r] = "take"
    /\ \/ /\ seen[r] = "consumed"
          /\ GoTo(r, "done")
          /\ UNCHANGED <<status, avatar>>
       \/ /\ seen[r] # "consumed"
          /\ avatar' = u
          /\ status' = [status EXCEPT ![u] = "consumed"]
          /\ GoOn(r, IF avatar \in Uploads \ {u} THEN "drop" ELSE "done", avatar)
    /\ UNCHANGED <<age, objects, cleaner, crashes, history>>

RemoveLook(r) ==
    /\ pc[r] = "remove"
    /\ GoOn(r, "clear", avatar)
    /\ UNCHANGED <<status, age, objects, avatar, cleaner, crashes, history>>

\* Mutant: the old key is deleted whether there was one or not.
RemoveClearAlwaysDrops(r) ==
    /\ pc[r] = "clear"
    /\ avatar' = NoUpload
    /\ GoTo(r, "drop")
    /\ UNCHANGED <<status, age, objects, cleaner, crashes, history>>

RemoveClear(r) ==
    /\ pc[r] = "clear"
    /\ avatar' = NoUpload
    /\ GoTo(r, IF seen[r] = NoUpload THEN "done" ELSE "drop")
    /\ UNCHANGED <<status, age, objects, cleaner, crashes, history>>

\* The previous object is deleted after the commit, as far as storage answers.
DropPrevious(r) ==
    /\ pc[r] = "drop"
    /\ Drop(seen[r]) \/ UNCHANGED objects
    /\ GoTo(r, "done")
    /\ UNCHANGED <<status, age, avatar, cleaner, crashes, history>>

-----------------------------------------------------------------------------
(* cleanupStorage, one run at a time in the worker.                        *)

Idle == [todo |-> {}, at |-> NoUpload]

\* Mutant: only uploads that were never completed are looked for.
StalePending == {u \in Uploads : status[u] = "pending" /\ age[u] = 2}

Stale == {u \in Unconsumed : age[u] = 2}

CleanSelect ==
    /\ cleaner = Idle
    /\ \E batch \in SUBSET Stale :
          /\ batch # {} /\ Cardinality(batch) <= Batch
          /\ cleaner' = [todo |-> batch, at |-> NoUpload]
          /\ overdue' = overdue \cup {u \in batch : RowLocked(u)}
    /\ UNCHANGED <<status, age, objects, avatar, pc, call, seen, crashes, resent>>

\* Mutant: a delete that fails is not a failure of the run.
CleanDeleteSwallows(u) ==
    /\ u \in cleaner.todo /\ cleaner.at = NoUpload
    /\ Drop(u) \/ UNCHANGED objects
    /\ cleaner' = [todo |-> cleaner.todo \ {u}, at |-> u]
    /\ UNCHANGED <<status, age, avatar, pc, call, seen, crashes, history>>

\* The object is deleted before its row is updated.
CleanDelete(u) ==
    /\ u \in cleaner.todo /\ cleaner.at = NoUpload
    /\ Drop(u)
    /\ cleaner' = [todo |-> cleaner.todo \ {u}, at |-> u]
    /\ UNCHANGED <<status, age, avatar, pc, call, seen, crashes, history>>

\* UPDATE ... WHERE status IN ('pending', 'uploaded'), which waits for the row.
CleanMark(u) ==
    /\ cleaner.at = u
    /\ ~RowLocked(u)
    /\ status' = [status EXCEPT ![u] = IF u \in Unconsumed THEN "expired" ELSE @]
    /\ cleaner' = [cleaner EXCEPT !.at = NoUpload]
    /\ UNCHANGED <<age, objects, avatar, pc, call, seen, crashes, history>>

\* The worker dies, or storage.delete throws: the job fails, the next one selects again.
CleanCrash ==
    /\ cleaner # Idle /\ crashes < MaxCrashes
    /\ cleaner' = Idle
    /\ crashes' = crashes + 1
    /\ UNCHANGED <<status, age, objects, avatar, pc, call, seen, history>>

-----------------------------------------------------------------------------
Init ==
    /\ status = [u \in Uploads |-> "absent"]
    /\ age = [u \in Uploads |-> 0]
    /\ objects = [u \in Uploads |-> "none"]
    /\ avatar = NoUpload
    /\ pc = [r \in Requests |-> "idle"]
    /\ call = [r \in Requests |-> NoCall]
    /\ seen = [r \in Requests |-> NoUpload]
    /\ cleaner = Idle
    /\ crashes = 0
    /\ resent = {} /\ overdue = {}

Serve(r) == \/ CompleteLook(r) \/ CompleteHead(r) \/ CompleteScan(r)
            \/ CompleteReject(r) \/ CompleteAccept(r)
            \/ SetLook(r) \/ SetTake(r)
            \/ RemoveLook(r) \/ RemoveClear(r) \/ DropPrevious(r)

Clean == CleanSelect \/ (\E u \in Uploads : CleanDelete(u) \/ CleanMark(u))

Next == \/ \E u \in Uploads : Create(u) \/ Send(u) \/ Tick(u)
        \/ \E r \in Requests : Arrive(r) \/ Serve(r)
        \/ Clean \/ CleanCrash

Spec == Init /\ [][Next]_vars

\* A request the API works on goes on, and the daily job runs to its end or is
\* run again (pg-boss retries it and schedules it every day).
Fairness == (\A r \in Requests : WF_vars(Serve(r))) /\ WF_vars(Clean)

FairSpec == Spec /\ Fairness

-----------------------------------------------------------------------------
(* Properties.                                                             *)

\* Every variable has its type, and a request carries what its place needs.
TypeOK ==
    /\ status \in [Uploads -> Statuses]
    /\ age \in [Uploads -> 0 .. 2]
    /\ objects \in [Uploads -> Contents \cup {"none"}]
    /\ avatar \in Uploads \cup {NoUpload}
    /\ pc \in [Requests -> {"idle", "complete", "head", "scan", "reject", "accept",
                            "set", "take", "remove", "clear", "drop", "done"}]
    /\ call \in [Requests -> [kind : {"complete", "set"}, upload : Uploads]
                   \cup [kind : {"remove", "none"}, upload : {NoUpload}]]
    /\ seen \in [Requests -> Uploads \cup Statuses \cup {NoUpload}]
    /\ \A r \in Requests : pc[r] = "drop" => seen[r] \in Uploads
    /\ cleaner \in [todo : SUBSET Uploads, at : Uploads \cup {NoUpload}]
    /\ crashes \in 0 .. MaxCrashes
    /\ resent \subseteq Uploads /\ overdue \subseteq Uploads

\* "Never a broken avatar" (AvatarService): what the profile points at is in
\* storage and is the file complete() checked, whatever the deletions of replaced
\* avatars, of refused files and of the daily job are in the middle of, and however
\* the requests overlap. Two races break it: another file sent to the same target
\* after complete() has decided, and a cleanup that takes an upload its consumer
\* holds, which needs the upload to expire inside the consumer's transaction.
AvatarServed == avatar \notin {NoUpload} \cup resent \cup overdue => objects[avatar] = "good"

\* An upload complete() accepted can be consumed until it expires: a refusal or
\* another complete of the same upload does not take its file away, unless another
\* file was sent after one of them had decided.
AcceptedStored == \A u \in Uploads \ resent :
    status[u] = "uploaded" /\ age[u] < 2 => objects[u] = "good"

\* The two without their exceptions.
NeverBroken == avatar # NoUpload => objects[avatar] = "good"

NeverLost == \A u \in Uploads :
    status[u] = "uploaded" /\ age[u] < 2 => objects[u] = "good"

\* The file of an avatar that was sent once is served: "Nothing consumes an upload
\* past expires_at, so there is no race with a consumer" (cleanupStorage).
NoRaceWithConsumer == avatar \notin {NoUpload} \cup resent => objects[avatar] = "good"

\* "An object is deleted before its row is updated, so a failed delete is retried
\* rather than orphaned" (cleanupStorage): no run looks at an expired row again,
\* so nothing may be stored for it, wherever the run before it stopped.
ExpiredGone == \A u \in Uploads : status[u] = "expired" => objects[u] = "none"

\* An upload nobody consumed before it expired leaves storage and the tables'
\* pending states, although runs fail half way.
CleanedUp == \A u \in Uploads :
    status[u] \in {"pending", "uploaded"} /\ age[u] = 2
        ~> status[u] \in {"expired", "consumed"}
=============================================================================
