--------------------------- MODULE ReadingAttempts --------------------------
(***************************************************************************)
(* The reading service of the API (apps/api/src/reading/index.ts): the     *)
(* requests one reader sends about one work, each a PostgreSQL transaction *)
(* at READ COMMITTED, run concurrently. A step is the stretch of a         *)
(* request between two points where another transaction can come in: a     *)
(* lock it waits for, or a statement that reads what a later one uses.     *)
(* A transaction's last stretch is its commit.                             *)
(*                                                                         *)
(* Two locks matter. The advisory lock of (user, work) is taken by         *)
(* #lockAttempts and kept to the commit. SELECT ... FOR UPDATE holds an    *)
(* attempt's row, against every other write of that row.                   *)
(***************************************************************************)
EXTENDS Naturals, Sequences, FiniteSets

CONSTANTS
    Requests,       \* the requests the reader's devices send, one call each
    Kinds,          \* which of the five endpoints they call
    Wanted,         \* the statuses they ask for, and the first attempt may have
    Events,         \* the client_event_ids their progress carries
    NoRequest,      \* the advisory lock is free
    Today,          \* CURRENT_DATE, of the days 1, 2, ...; 0 is SQL's NULL
    Days,           \* the days the requests name, tomorrow at the latest
    SharedEvents    \* TRUE: an event id may be sent for more than one read

ASSUME RequestsAssumption == NoRequest \notin Requests
ASSUME TodayAssumption == Today \in Nat \ {0}

VARIABLES
    reads,      \* table reads, by id in order of creation; Deleted once deleted
    feed,       \* table activity: for each read, the verbs written about it
    events,     \* table progress_events: the read each event id is stored for, or 0
    advisory,   \* the request that holds the advisory lock of (user, work)
    pc,         \* where each request is
    call,       \* what it asks
    seen,       \* what it has read so far
    reply       \* what it answered

tables == <<reads, feed, events>>
vars == <<reads, feed, events, advisory, pc, call, seen, reply>>

Statuses == {"want", "reading", "paused", "finished", "dnf"}
Terminal == {"finished", "dnf"}
\* readDate accepts the reader's today, which may be the server's tomorrow.
Dates == 0 .. Today + 1
Given == {0} \cup Days

ASSUME DaysAssumption == Days \subseteq Dates

ASSUME WantedAssumption == Wanted \subseteq Statuses

Deleted == [status |-> "gone", no |-> 0, started |-> 0, finished |-> 0]
NoCall == [kind |-> "none"]
NothingSeen == [read |-> 0, status |-> "gone", no |-> 0, started |-> 0]
NoReply == [code |-> "none", read |-> 0]

Live == {i \in DOMAIN reads : reads[i] # Deleted}

\* A request holds the row of the read it is about to add an attempt after.
RowHeld(i) == \E r \in Requests : pc[r] \in {"number", "insert"} /\ call[r].read = i

-----------------------------------------------------------------------------
(* The rows the statements write.                                          *)

Coalesce(a, b) == IF a # 0 THEN a ELSE b

\* CHECK reads_dates_ck.
DatesOrdered(row) == row.started # 0 /\ row.finished # 0 => row.started <= row.finished

StartsNewAttempt(current, next) ==
    current = "gone" \/ (current \in Terminal /\ next # current)

\* verbFor: `paused` and `want` write no activity.
VerbFor(status) == IF status = "reading" THEN <<"started">>
                   ELSE IF status \in Terminal THEN <<status>> ELSE <<>>

\* The VALUES of #insertAttempt.
NewRow(status, no, startedAt, finishedAt) ==
    [status   |-> status,
     no       |-> no,
     started  |-> Coalesce(startedAt,
                           IF status = "finished" THEN Coalesce(finishedAt, Today)
                           ELSE IF status = "reading" THEN Today ELSE 0),
     finished |-> Coalesce(finishedAt, IF status = "finished" THEN Today ELSE 0)]

\* The SET of upsert's UPDATE.
UpsertedRow(row, c) ==
    [row EXCEPT
        !.status   = c.status,
        !.started  = Coalesce(c.startedAt, Coalesce(@,
                         IF c.status \in {"reading", "finished"} THEN Today ELSE 0)),
        !.finished = IF c.status = "finished"
                     THEN Coalesce(c.finishedAt, Coalesce(@, Today)) ELSE @]

\* Mutant: a past finish date does not date the start.
FinishedRowStartedToday(row, finishedAt) ==
    [row EXCEPT
        !.status   = "finished",
        !.started  = Coalesce(@, Coalesce(row.finished, Today)),
        !.finished = Coalesce(finishedAt, Coalesce(@, Today))]

\* The SET of finish's UPDATE.
FinishedRow(row, finishedAt) ==
    [row EXCEPT
        !.status   = "finished",
        !.started  = Coalesce(@, Coalesce(finishedAt, Coalesce(row.finished, Today))),
        !.finished = Coalesce(finishedAt, Coalesce(@, Today))]

-----------------------------------------------------------------------------
(* Steps every handler shares.                                             *)

Answer(r, code, read) ==
    /\ pc' = [pc EXCEPT ![r] = "done"]
    /\ reply' = [reply EXCEPT ![r] = [code |-> code, read |-> read]]
    /\ UNCHANGED <<call, seen>>

\* The transaction is rolled back: nothing it wrote remains.
Refuse(r, code) == Answer(r, code, 0) /\ UNCHANGED tables

GoTo(r, label, notice) ==
    /\ pc' = [pc EXCEPT ![r] = label]
    /\ seen' = [seen EXCEPT ![r] = notice]
    /\ UNCHANGED <<call, reply, tables>>

Acquire(r) == advisory = NoRequest /\ advisory' = r

\* Mutant: a lock of the session, not of the transaction.
ReleaseNothing == UNCHANGED advisory

\* The end of a transaction gives the advisory lock back.
Release == advisory' = NoRequest

\* #insertAttempt, then #afterWrite and the commit.
InsertAttempt(r, row) ==
    \/ /\ ~DatesOrdered(row)
       /\ Refuse(r, "invalidDate")
    \/ /\ DatesOrdered(row)
       /\ \E i \in Live : reads[i].no = row.no
       /\ Refuse(r, "duplicate")
    \/ /\ DatesOrdered(row)
       /\ \A i \in Live : reads[i].no # row.no
       /\ reads' = Append(reads, row)
       /\ feed' = Append(feed, VerbFor(row.status))
       /\ Answer(r, "ok", Len(reads) + 1)
       /\ UNCHANGED events

\* An UPDATE of read i to row, then #afterWrite and the commit.
UpdateAttempt(r, i, row, statusChanged) ==
    \/ /\ ~DatesOrdered(row)
       /\ Refuse(r, "invalidDate")
    \/ /\ DatesOrdered(row)
       /\ reads' = [reads EXCEPT ![i] = row]
       /\ feed' = [feed EXCEPT ![i] =
                      IF statusChanged THEN @ \o VerbFor(row.status) ELSE @]
       /\ Answer(r, "ok", i)
       /\ UNCHANGED events

-----------------------------------------------------------------------------
(* A request arrives: POST /reads, POST /reads/:id/finish, .../dnf,        *)
(* .../progress, DELETE /reads/:id, for a read the reader has seen.        *)

UpsertCalls == [kind : {"upsert"}, status : Wanted, startedAt : Given,
                finishedAt : Given, ifAbsent : BOOLEAN]
FinishCalls(ids) == [kind : {"finish"}, read : ids, finishedAt : Given]
DnfCalls(ids) == [kind : {"dnf"}, read : ids]
DeleteCalls(ids) == [kind : {"delete"}, read : ids]
ProgressCalls(ids) == [kind : {"progress"}, read : ids, event : Events]

Calls(ids) == UpsertCalls \cup FinishCalls(ids) \cup DnfCalls(ids)
                  \cup DeleteCalls(ids) \cup ProgressCalls(ids)

\* A client spends an event id on one read only.
SpentElsewhere(c) == \E r \in Requests : /\ call[r].kind = "progress"
                                         /\ call[r].event = c.event
                                         /\ call[r].read # c.read

Arrive(r) ==
    /\ pc[r] = "idle"
    /\ \E c \in Calls(DOMAIN reads) :
          /\ c.kind \in Kinds
          /\ (c.kind = "progress" /\ ~SharedEvents) => ~SpentElsewhere(c)
          /\ call' = [call EXCEPT ![r] = c]
          /\ pc' = [pc EXCEPT ![r] = c.kind]
    /\ UNCHANGED <<tables, advisory, seen, reply>>

-----------------------------------------------------------------------------
(* upsert.                                                                 *)

\* SELECT ... ORDER BY attempt_no DESC LIMIT 1, without locking the row.
Latest == IF Live = {} THEN NothingSeen
          ELSE LET i == CHOOSE j \in Live : \A k \in Live : reads[k].no <= reads[j].no
               IN  [NothingSeen EXCEPT !.read = i, !.status = reads[i].status,
                                       !.no = reads[i].no]

\* Mutant: the refusal returns without ending the transaction.
UpsertLookKeepsLock(r) ==
    /\ pc[r] = "upsert"
    /\ Acquire(r)
    /\ \/ call[r].ifAbsent /\ Live # {} /\ Refuse(r, "alreadyInLibrary")
       \/ ~(call[r].ifAbsent /\ Live # {}) /\ GoTo(r, "write", Latest)

UpsertLook(r) ==
    /\ pc[r] = "upsert"
    /\ advisory = NoRequest
    /\ \/ /\ call[r].ifAbsent /\ Live # {}
          /\ Refuse(r, "alreadyInLibrary")
          /\ Release
       \/ /\ ~(call[r].ifAbsent /\ Live # {})
          /\ Acquire(r)
          /\ GoTo(r, "write", Latest)

UpsertStarts(r) == StartsNewAttempt(seen[r].status, call[r].status)

UpsertInsert(r) ==
    /\ pc[r] = "write"
    /\ UpsertStarts(r)
    /\ InsertAttempt(r, NewRow(call[r].status, seen[r].no + 1,
                               call[r].startedAt, call[r].finishedAt))
    /\ Release

\* Mutant: #afterWrite does not look whether the read is still there.
UpsertUpdateUnchecked(r) ==
    LET i == seen[r].read IN
    /\ pc[r] = "write"
    /\ ~UpsertStarts(r)
    /\ ~RowHeld(i)
    /\ \/ /\ i \notin Live
          /\ feed' = [feed EXCEPT ![i] =
                         IF seen[r].status # call[r].status THEN @ \o VerbFor(call[r].status)
                         ELSE @]
          /\ Answer(r, "ok", i)
          /\ UNCHANGED <<reads, events>>
       \/ /\ i \in Live
          /\ UpdateAttempt(r, i, UpsertedRow(reads[i], call[r]),
                           seen[r].status # call[r].status)
    /\ Release

\* The UPDATE is by id and waits for the row; an attempt deleted since the
\* SELECT makes #afterWrite throw 'read vanished mid-transaction'.
UpsertUpdate(r) ==
    LET i == seen[r].read IN
    /\ pc[r] = "write"
    /\ ~UpsertStarts(r)
    /\ ~RowHeld(i)
    /\ \/ i \notin Live /\ Refuse(r, "vanished")
       \/ /\ i \in Live
          /\ UpdateAttempt(r, i, UpsertedRow(reads[i], call[r]),
                           seen[r].status # call[r].status)
    /\ Release

-----------------------------------------------------------------------------
(* finish, dnf and delete start with #lockOwnRead.                         *)

\* SELECT ... FOR UPDATE waits for the row; a deleted read is a 404.
LockOwnRead(r, kind) ==
    /\ pc[r] = kind
    /\ ~RowHeld(call[r].read)

NoOwnRead(r) == call[r].read \notin Live /\ Refuse(r, "notFound")

\* Mutant: a finish on another date is the only new attempt.
IsRereadByDate(row, finishedAt) ==
    row.status = "finished" /\ finishedAt # 0 /\ finishedAt # row.finished

\* A DNF finished, or a finish on another date, is a new attempt.
IsReread(row, finishedAt) ==
    \/ row.status = "dnf"
    \/ row.status = "finished" /\ finishedAt # 0 /\ finishedAt # row.finished

Finish(r) ==
    LET i  == call[r].read
        on == call[r].finishedAt
        Backwards == on # 0 /\ reads[i].started # 0 /\ on < reads[i].started
    IN
    /\ LockOwnRead(r, "finish")
    /\ \/ NoOwnRead(r)
       \/ /\ i \in Live /\ IsReread(reads[i], on)
          /\ GoTo(r, "number", NothingSeen)
       \/ /\ i \in Live /\ ~IsReread(reads[i], on) /\ Backwards
          /\ Refuse(r, "invalidDate")
       \/ /\ i \in Live /\ ~IsReread(reads[i], on) /\ ~Backwards
          /\ UpdateAttempt(r, i, FinishedRow(reads[i], on), reads[i].status # "finished")
    /\ UNCHANGED advisory

Dnf(r) ==
    LET i == call[r].read IN
    /\ LockOwnRead(r, "dnf")
    /\ \/ NoOwnRead(r)
       \/ /\ i \in Live /\ reads[i].status = "finished"
          /\ GoTo(r, "number", NothingSeen)
       \/ /\ i \in Live /\ reads[i].status # "finished"
          /\ UpdateAttempt(r, i, [reads[i] EXCEPT !.status = "dnf"], reads[i].status # "dnf")
    /\ UNCHANGED advisory

\* Mutant: max(attempt_no) without #lockAttempts.
NextAttemptUnlocked(r) ==
    /\ pc[r] = "number"
    /\ GoTo(r, "insert", [NothingSeen EXCEPT !.no = Latest.no + 1])
    /\ UNCHANGED advisory

\* #nextAttempt: the advisory lock, then max(attempt_no) + 1.
NextAttempt(r) ==
    /\ pc[r] = "number"
    /\ Acquire(r)
    /\ GoTo(r, "insert", [NothingSeen EXCEPT !.no = Latest.no + 1])

InsertNext(r) ==
    /\ pc[r] = "insert"
    /\ InsertAttempt(r, IF call[r].kind = "finish"
                        THEN NewRow("finished", seen[r].no, 0, call[r].finishedAt)
                        ELSE NewRow("dnf", seen[r].no, 0, 0))
    /\ Release

\* The read and, by cascade, its progress.
RemoveRead(i) ==
    /\ reads' = [reads EXCEPT ![i] = Deleted]
    /\ events' = [e \in Events |-> IF events[e] = i THEN 0 ELSE events[e]]

\* The read, its progress and its activity.
Delete(r) ==
    LET i == call[r].read IN
    /\ LockOwnRead(r, "delete")
    /\ \/ NoOwnRead(r)
       \/ /\ i \in Live /\ RemoveRead(i) /\ Answer(r, "ok", i)
          /\ feed' = [feed EXCEPT ![i] = <<>>]
    /\ UNCHANGED advisory

-----------------------------------------------------------------------------
(* addProgress: four statements, each a transaction of its own.            *)

ProgressLook(r) ==
    LET i == call[r].read IN
    /\ pc[r] = "progress"
    /\ \/ i \notin Live /\ Refuse(r, "notFound")
       \/ i \in Live /\ GoTo(r, "record", [NothingSeen EXCEPT !.started = reads[i].started])
    /\ UNCHANGED advisory

\* Mutant: a locked row is skipped instead of waited for.
ProgressRecordSkipsLocked(r) ==
    LET i == call[r].read
        e == call[r].event
    IN
    /\ pc[r] = "record"
    /\ \/ events[e] # 0 /\ GoTo(r, "check", seen[r])
       \/ events[e] = 0 /\ RowHeld(i) /\ GoTo(r, "touch", seen[r])
       \/ /\ events[e] = 0 /\ ~RowHeld(i) /\ i \notin Live
          /\ Refuse(r, "invalidReference")
       \/ /\ events[e] = 0 /\ ~RowHeld(i) /\ i \in Live
          /\ events' = [events EXCEPT ![e] = i]
          /\ pc' = [pc EXCEPT ![r] = "touch"]
          /\ UNCHANGED <<reads, feed, call, seen, reply>>
    /\ UNCHANGED advisory

\* INSERT ... ON CONFLICT DO NOTHING; the foreign key waits for the row.
ProgressRecord(r) ==
    LET i == call[r].read
        e == call[r].event
    IN
    /\ pc[r] = "record"
    /\ \/ events[e] # 0 /\ GoTo(r, "check", seen[r])
       \/ /\ events[e] = 0 /\ ~RowHeld(i) /\ i \notin Live
          /\ Refuse(r, "invalidReference")
       \/ /\ events[e] = 0 /\ ~RowHeld(i) /\ i \in Live
          /\ events' = [events EXCEPT ![e] = i]
          /\ pc' = [pc EXCEPT ![r] = "touch"]
          /\ UNCHANGED <<reads, feed, call, seen, reply>>
    /\ UNCHANGED advisory

ProgressCheck(r) ==
    /\ pc[r] = "check"
    /\ \/ /\ events[call[r].event] \notin {0, call[r].read}
          /\ Refuse(r, "eventConflict")
       \/ /\ events[call[r].event] \in {0, call[r].read}
          /\ GoTo(r, "touch", seen[r])
    /\ UNCHANGED advisory

\* started_at = CURRENT_DATE when the first SELECT saw none, and the final get.
ProgressTouch(r) ==
    LET i   == call[r].read
        row == [reads[i] EXCEPT !.started = IF seen[r].started = 0 THEN Today ELSE @]
    IN
    /\ pc[r] = "touch"
    /\ ~RowHeld(i)
    /\ \/ i \notin Live /\ Refuse(r, "notFound")
       \/ i \in Live /\ ~DatesOrdered(row) /\ Refuse(r, "invalidField")
       \/ /\ i \in Live /\ DatesOrdered(row)
          /\ reads' = [reads EXCEPT ![i] = row]
          /\ Answer(r, "ok", i)
          /\ UNCHANGED <<feed, events>>
    /\ UNCHANGED advisory

-----------------------------------------------------------------------------
(* PostgreSQL aborts one of two transactions that wait for each other: one *)
(* holds a row and waits for the advisory lock, the other holds the        *)
(* advisory lock and waits for that row.                                   *)

WaitsForRowOf(s, r) == /\ pc[s] = "write" /\ ~UpsertStarts(s)
                       /\ pc[r] = "number" /\ call[r].read = seen[s].read

DeadlockAbort(r) ==
    /\ \E s \in Requests : WaitsForRowOf(s, r) \/ WaitsForRowOf(r, s)
    /\ Refuse(r, "deadlock")
    /\ advisory' = IF advisory = r THEN NoRequest ELSE advisory

-----------------------------------------------------------------------------
\* Nothing yet, or one attempt the reader logged earlier.
Init ==
    /\ \/ reads = <<>>
       \/ \E s \in Wanted, startedAt, finishedAt \in Given :
             LET row == NewRow(s, 1, startedAt, finishedAt) IN
             DatesOrdered(row) /\ reads = <<row>>
    /\ feed = [i \in DOMAIN reads |-> VerbFor(reads[i].status)]
    /\ events = [e \in Events |-> 0]
    /\ advisory = NoRequest
    /\ pc = [r \in Requests |-> "idle"]
    /\ call = [r \in Requests |-> NoCall]
    /\ seen = [r \in Requests |-> NothingSeen]
    /\ reply = [r \in Requests |-> NoReply]

\* A step of a request the server works on.
Serve(r) ==
    \/ UpsertLook(r) \/ UpsertInsert(r) \/ UpsertUpdate(r)
    \/ Finish(r) \/ Dnf(r) \/ NextAttempt(r) \/ InsertNext(r)
    \/ Delete(r)
    \/ ProgressLook(r) \/ ProgressRecord(r) \/ ProgressCheck(r) \/ ProgressTouch(r)
    \/ DeadlockAbort(r)

\* No request is being served.
Rest == (\A r \in Requests : pc[r] \in {"idle", "done"}) /\ UNCHANGED vars

Next == (\E r \in Requests : Arrive(r) \/ Serve(r)) \/ Rest

Spec == Init /\ [][Next]_vars

\* A transaction runs on, and a lock is granted once it is free: a lock is
\* given back at the end of a transaction, and transactions end.
Fairness == \A r \in Requests : WF_vars(Serve(r))

FairSpec == Spec /\ Fairness

-----------------------------------------------------------------------------
(* Properties.                                                             *)

Codes == {"none", "ok", "notFound", "alreadyInLibrary", "invalidDate", "vanished",
          "duplicate", "deadlock", "invalidReference", "invalidField", "eventConflict"}

\* Every variable has its type: rows numbered from 1, one activity list per row,
\* the advisory lock held by a request between its taking and its commit.
TypeOK ==
    /\ reads \in Seq([status : Statuses, no : Nat \ {0}, started : Dates, finished : Dates]
                     \cup {Deleted})
    /\ feed \in Seq(Seq({"started", "finished", "dnf"})) /\ Len(feed) = Len(reads)
    /\ events \in [Events -> 0 .. Len(reads)]
    /\ advisory \in Requests \cup {NoRequest}
    /\ pc \in [Requests -> {"idle", "upsert", "finish", "dnf", "delete", "progress",
                            "write", "number", "insert", "record", "check", "touch", "done"}]
    /\ call \in [Requests -> Calls(DOMAIN reads) \cup {NoCall}]
    /\ seen \in [Requests -> [read : 0 .. Len(reads), status : Statuses \cup {"gone"},
                              no : Nat, started : Dates]]
    /\ reply \in [Requests -> [code : Codes, read : 0 .. Len(reads)]]
    /\ \A r \in Requests : pc[r] \in {"write", "insert"} <=> advisory = r

\* The requests of the endpoints under /reads/:id, and those of POST /reads when
\* no finish or dnf runs beside them, have the effect of one step of
\* AttemptHistory each: a terminal attempt never changes, a new attempt is
\* numbered above the others, a status change writes its activity once and a
\* deleted attempt leaves none (startsNewAttempt, #insertAttempt, #afterWrite).
History == INSTANCE AttemptHistory WITH
    attempts <- [i \in DOMAIN reads |-> [status |-> reads[i].status, no |-> reads[i].no]]

HistoryKept == History!Spec

\* No two writers compute the same attempt number, so no insert meets the unique
\* index of (user, work, attempt_no) (SL-56, #lockAttempts).
NumbersAgreed == \A r \in Requests : reply[r].code # "duplicate"

\* No write that was under way while an attempt was deleted leaves activity
\* about it: activity has no foreign key, delete removes it (PRD 34.2).
NoGhostActivity == \A i \in DOMAIN reads : i \notin Live => feed[i] = <<>>

\* Progress answered with success is stored for its read, as long as that read
\* exists: the insert, the conflict check and the last UPDATE of addProgress are
\* separate statements, and the rows can change between them.
ProgressKept == \A r \in Requests :
    call[r].kind = "progress" /\ reply[r].code = "ok" /\ call[r].read \in Live
        => events[call[r].event] = call[r].read

\* A step refuses a write as out of order only if its finish, today where the
\* reader names no day, is before a start given with it or stored: a start the
\* service fills in never refuses one (PRD 8.5). A start of tomorrow, which
\* readDate accepts, does refuse a finish with no day.
RefusedOnlyBackwards == [][\A r \in Requests :
    reply'[r].code = "invalidDate" /\ reply[r].code = "none" =>
        LET stored  == IF call[r].kind = "finish" THEN reads[call[r].read].started
                       ELSE IF UpsertStarts(r) THEN 0 ELSE reads[seen[r].read].started
            started == IF call[r].kind = "finish" THEN stored
                       ELSE Coalesce(call[r].startedAt, stored)
        IN  Coalesce(call[r].finishedAt, Today) < started]_vars

\* Every request is answered, whatever it waits for: the handlers take the row
\* and the advisory lock in different orders, and a transaction that is refused
\* must give back what it holds.
Answered == \A r \in Requests : pc[r] # "idle" ~> pc[r] = "done"

-----------------------------------------------------------------------------
(* What comments of the code say, and some interleaving refutes.           *)

\* "A finished or abandoned record is never overwritten" (startsNewAttempt).
TerminalKept == [][\A i \in Live : reads[i].status \in Terminal =>
    i \notin Live' \/ reads'[i].status = reads[i].status]_vars

\* "A replayed or double-tapped finish writes one [activity], not two"
\* (#afterWrite): one read has one `finished` among its activity.
FinishToldOnce == \A i \in DOMAIN feed :
    Cardinality({k \in DOMAIN feed[i] : feed[i][k] = "finished"}) <= 1

\* The same comment, of the same finish sent twice: both are answered with the
\* same attempt, as the second of them is an edit of it.
ReplayedFinishOnce == \A r, s \in Requests :
    /\ call[r].kind = "finish" /\ call[s] = call[r]
    /\ reply[r].code = "ok" /\ reply[s].code = "ok"
    => reply[s].read = reply[r].read

\* "'Today' is the user's, not the server's" (readDate): a finish with no day,
\* which is today's, is never refused for its date.
UndatedFinishAccepted == \A r \in Requests :
    call[r].kind = "finish" /\ reply[r].code = "invalidDate" => call[r].finishedAt # 0

\* #afterWrite's assertion: the read it has just written is still there.
NeverVanishes == \A r \in Requests : reply[r].code # "vanished"
=============================================================================
