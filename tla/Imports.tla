------------------------------ MODULE Imports ------------------------------
(***************************************************************************)
(* One import of a reader's library (apps/api/src/imports): the runs of    *)
(* its background job, which match the rows of the file and commit them    *)
(* chunk by chunk, the requests that resolve and skip rows, and the app,   *)
(* which logs and removes the same books meanwhile.                        *)
(*                                                                         *)
(* A transaction reads what is committed when a statement of it begins and *)
(* what it has written itself; its writes and its locks are its own until  *)
(* it commits. A run that pg-boss has expired goes on beside its retry.    *)
(***************************************************************************)
EXTENDS Naturals, FiniteSets

CONSTANTS
    RowNos,         \* rows of the file
    Works,
    Matches,        \* by row: what it may be matched to
    Tagged,         \* rows with a tag; the tag is the same
    ChunkSize,
    ShelfRoom,      \* shelves the reader may still make
    Runs,           \* the job and its retries, numbered
    Requests,
    Kinds,          \* of the requests
    MaxFaults,      \* errors and deaths of runs
    NoWork, Nobody

ASSUME ImportAssumption ==
    /\ RowNos \subseteq Nat /\ IsFiniteSet(RowNos) /\ Runs \subseteq Nat \ {0}
    /\ ChunkSize \in Nat \ {0} /\ ShelfRoom \in Nat /\ MaxFaults \in Nat
    /\ Matches \in [RowNos -> SUBSET (Works \cup {NoWork})]
    /\ Tagged \subseteq RowNos
    /\ Kinds \subseteq {"resolve", "skip", "log", "drop"}
    /\ NoWork \notin Works /\ Nobody \notin Runs \cup Requests
    /\ Runs \cap Requests = {}

VARIABLES
    job,        \* the row of imports
    rows,       \* import_rows: what is committed
    reads,      \* the attempts of the reader, by work
    shelf,      \* shelves that carry the tag
    held,       \* locks: by work, by row, and the reader's shelves
    tx,         \* runs and requests
    faults

vars == <<job, rows, reads, shelf, held, tx, faults>>

Txs == Runs \cup Requests
TagLock == <<"shelves", 0>>
RowLock(r) == <<"row", r>>
Locks == Works \cup {TagLock} \cup {RowLock(r) : r \in RowNos}

\* No row is locked by locking a work.
ASSUME LocksAssumption == Works \cap ({TagLock} \cup {RowLock(r) : r \in RowNos}) = {}

JobStates == {"queued", "processing", "completed", "failed"}
Outcomes == [state : {"none", "matched", "unmatched", "resolved", "skipped"},
             work : Works \cup {NoWork},
             why : {"none", "no_match", "already_in_library", "commit_failed"}]
Absent == [state |-> "none", work |-> NoWork, why |-> "none"]
Recorded(r) == rows[r].state # "none"

Steps == {"off", "read", "mark", "load", "match", "row", "insert", "tag", "record",
          "count", "commit", "total", "finish", "take", "done", "dead"}

\* todo: rows of no chunk yet; chunk: rows of the chunk; left: those not looked at.
Off == [step |-> "off", kind |-> "run", todo |-> {}, chunk |-> {}, left |-> {},
        found |-> [r \in RowNos |-> NoWork], out |-> [r \in RowNos |-> Absent],
        isolate |-> FALSE, reads |-> {}, shelves |-> 0, own |-> {},
        matched |-> 0, unmatched |-> 0]

Lowest(S) == CHOOSE r \in S : \A q \in S : r <= q
Go(t, step) == tx' = [tx EXCEPT ![t].step = step]

-----------------------------------------------------------------------------
(* What a transaction sees, and its end.                                   *)

InLibrary(t, w) == reads[w] # "none" \/ w \in tx[t].reads
TagFound(t) == shelf + tx[t].shelves > 0
\* Mutant: ON CONFLICT DO UPDATE.
ViewOwn(t) == [r \in RowNos |-> IF tx[t].out[r] # Absent THEN tx[t].out[r] ELSE rows[r]]

View(t) == [r \in RowNos |-> IF tx[t].out[r] # Absent /\ held[RowLock(r)] = t THEN tx[t].out[r] ELSE rows[r]]
Counted(table, states) == Cardinality({r \in RowNos : table[r].state \in states})

Free(t, l) == held[l] \in {t, Nobody}
Taken(t, ls) == [l \in Locks |-> IF l \in ls THEN t ELSE held[l]]

\* Mutant: a lock of the session, not of the transaction.
ReleasedRows(t) == [l \in Locks |-> IF held[l] = t /\ l \notin Works THEN Nobody ELSE held[l]]

Released(t) == [l \in Locks |-> IF held[l] = t THEN Nobody ELSE held[l]]

\* A transaction without its writes.
Rolled(t, step) ==
    [tx[t] EXCEPT !.step = step, !.left = tx[t].chunk, !.out = Off.out, !.reads = {}, !.shelves = 0,
                  !.own = {}]

\* The holders a transaction is waiting for.
Wanted(t) ==
    CASE tx[t].step = "insert" -> {tx[t].found[Lowest(tx[t].left)]}
      [] tx[t].step = "tag"    -> {TagLock}
      [] tx[t].step = "record" -> {RowLock(r) : r \in {q \in tx[t].chunk : ~Recorded(q)}}
      [] OTHER -> {}
WaitsFor(t) == {held[l] : l \in Wanted(t)} \ {t, Nobody}
Deadlocked(t) ==
    \E S \in SUBSET Txs : t \in S /\ \A u \in S : WaitsFor(u) \cap S # {} /\ \E v \in S : u \in WaitsFor(v)

-----------------------------------------------------------------------------
(* processImport.                                                          *)

\* The first attempt, or a retry after an error, a death or the expiry.
Begin(t) ==
    /\ t \in Runs /\ tx[t].step = "off"
    /\ \A u \in Runs : u < t => tx[u].step # "off"
    /\ Go(t, "read")
    /\ UNCHANGED <<job, rows, reads, shelf, held, faults>>

ReadJob(t) ==
    /\ tx[t].step = "read"
    /\ Go(t, IF job.state = "completed" THEN "done" ELSE "mark")
    /\ UNCHANGED <<job, rows, reads, shelf, held, faults>>

MarkProcessing(t) ==
    /\ tx[t].step = "mark"
    /\ job' = [job EXCEPT !.state = "processing"]
    /\ Go(t, "load")
    /\ UNCHANGED <<rows, reads, shelf, held, faults>>

\* Resumption: the rows that are not recorded.
LoadRows(t) ==
    /\ tx[t].step = "load"
    /\ tx' = [tx EXCEPT ![t].todo = {r \in RowNos : ~Recorded(r)}, ![t].step = "match"]
    /\ UNCHANGED <<job, rows, reads, shelf, held, faults>>

NextChunk(todo) ==
    CHOOSE c \in SUBSET todo :
        /\ Cardinality(c) = (IF Cardinality(todo) < ChunkSize THEN Cardinality(todo) ELSE ChunkSize)
        /\ \A r \in c, q \in todo \ c : r < q

\* Outside of any transaction.
MatchChunk(t) ==
    /\ tx[t].step = "match"
    /\ \/ /\ tx[t].todo = {} /\ Go(t, "total")
       \/ /\ tx[t].todo # {}
          /\ \E found \in [RowNos -> Works \cup {NoWork}] :
                LET c == NextChunk(tx[t].todo)
                IN  /\ \A r \in RowNos : IF r \in c THEN found[r] \in Matches[r] ELSE found[r] = NoWork
                    /\ tx' = [tx EXCEPT ![t].todo = @ \ c, ![t].chunk = c, ![t].left = c, ![t].found = found,
                                        ![t].isolate = FALSE, ![t].out = Off.out, ![t].step = "row"]
    /\ UNCHANGED <<job, rows, reads, shelf, held, faults>>

-----------------------------------------------------------------------------
(* commitImportRow, for a row of a chunk or for the row of a resolve.      *)

AfterRow(t, r, outcome) ==
    [tx[t] EXCEPT !.out[r] = outcome, !.left = @ \ {r}, !.own = {},
                  !.step = IF tx[t].left # {r} THEN "row"
                           ELSE IF tx[t].kind = "run" THEN "record" ELSE "count"]

Committed(t, r) == [state |-> "resolved", work |-> tx[t].found[r], why |-> "none"]

\* Mutant: an insert without its NOT EXISTS.
LookNowhere(t, w) == FALSE

\* The NOT EXISTS of the statement: what it sees when it begins.
Look(t, w) == InLibrary(t, w)

LookRow(t) ==
    /\ tx[t].step = "row"
    /\ LET r == Lowest(tx[t].left)
           w == tx[t].found[r]
       IN  tx' = [tx EXCEPT ![t] =
               IF w = NoWork THEN AfterRow(t, r, [state |-> "unmatched", work |-> NoWork, why |-> "no_match"])
               ELSE IF Look(t, w)
               THEN AfterRow(t, r, [state |-> IF tx[t].kind = "run" THEN "matched" ELSE "resolved",
                                    work |-> w, why |-> "already_in_library"])
               ELSE [tx[t] EXCEPT !.step = "insert"]]
    /\ UNCHANGED <<job, rows, reads, shelf, held, faults>>

\* ... and then the lock of the attempts, for which it may wait.
InsertRead(t) ==
    /\ tx[t].step = "insert"
    /\ LET r == Lowest(tx[t].left)
           w == tx[t].found[r]
       IN  /\ Free(t, w) /\ ~InLibrary(t, w)
           /\ held' = Taken(t, {w})
           /\ tx' = [tx EXCEPT ![t] =
                  LET with == [tx[t] EXCEPT !.reads = @ \cup {w}, !.own = {w}]
                  IN  IF r \in Tagged /\ ~TagFound(t) THEN [with EXCEPT !.step = "tag"]
                      ELSE [AfterRow(t, r, Committed(t, r)) EXCEPT !.reads = with.reads]]
    /\ UNCHANGED <<job, rows, reads, shelf, faults>>

\* importShelf: the tag is not looked up again under the lock.
MakeShelf(t) ==
    /\ tx[t].step = "tag"
    /\ Free(t, TagLock)
    /\ held' = Taken(t, {TagLock})
    /\ LET r == Lowest(tx[t].left)
           room == shelf + tx[t].shelves < ShelfRoom
       IN  tx' = [tx EXCEPT ![t] = [AfterRow(t, r, Committed(t, r)) EXCEPT !.shelves = @ + (IF room THEN 1 ELSE 0)]]
    /\ UNCHANGED <<job, rows, reads, shelf, faults>>

\* The number of the attempt is taken, or the database breaks a deadlock.
Refusable(t) ==
    \/ tx[t].step = "insert" /\ LET w == tx[t].found[Lowest(tx[t].left)] IN Free(t, w) /\ InLibrary(t, w)
    \/ Deadlocked(t)

\* Mutant: the chunk is not redone.
RedoneNever(t) == [Rolled(t, "match") EXCEPT !.chunk = {}]

\* The chunk again, each row in its own savepoint.
Redone(t) == [Rolled(t, "row") EXCEPT !.isolate = TRUE]

Refused(t) ==
    /\ Refusable(t)
    /\ LET r == Lowest(tx[t].left)
           failed == [state |-> "unmatched", work |-> tx[t].found[r], why |-> "commit_failed"]
       IN  \/ /\ tx[t].kind = "run" /\ ~tx[t].isolate
              /\ held' = Released(t)
              /\ tx' = [tx EXCEPT ![t] = Redone(t)]
           \/ /\ tx[t].kind = "run" /\ tx[t].isolate
              /\ held' = [l \in Locks |-> IF l \in tx[t].own THEN Nobody ELSE held[l]]
              /\ tx' = [tx EXCEPT ![t] = [AfterRow(t, r, failed) EXCEPT !.reads = @ \ tx[t].own]]
           \/ /\ tx[t].kind = "resolve"
              /\ held' = Released(t)
              /\ tx' = [tx EXCEPT ![t] = Rolled(t, "done")]
    /\ UNCHANGED <<job, rows, reads, shelf, faults>>

-----------------------------------------------------------------------------
(* The end of a transaction, and of a run.                                 *)

\* One insert for the chunk; rows another run has recorded are left alone.
RecordRows(t) ==
    /\ tx[t].step = "record"
    /\ LET new == {r \in tx[t].chunk : ~Recorded(r)}
       IN  /\ \A r \in new : Free(t, RowLock(r))
           /\ held' = Taken(t, {RowLock(r) : r \in new})
    /\ Go(t, "count")
    /\ UNCHANGED <<job, rows, reads, shelf, faults>>

Counting(t, table, step) ==
    tx' = [tx EXCEPT ![t].matched = Counted(table, {"matched", "resolved"}),
                     ![t].unmatched = Counted(table, {"unmatched"}), ![t].step = step]

RefreshCounts(t) ==
    /\ tx[t].step = "count"
    /\ Counting(t, View(t), "commit")
    /\ UNCHANGED <<job, rows, reads, shelf, held, faults>>

Recount(t) == [job EXCEPT !.matched = tx[t].matched, !.unmatched = tx[t].unmatched]

\* The UPDATE of the counters, and the COMMIT.
Commit(t) ==
    /\ tx[t].step = "commit"
    /\ job' = Recount(t)
    /\ rows' = View(t)
    /\ reads' = [w \in Works |-> IF w \in tx[t].reads THEN "import" ELSE reads[w]]
    /\ shelf' = shelf + tx[t].shelves
    /\ held' = Released(t)
    /\ tx' = [tx EXCEPT ![t] = [Rolled(t, IF tx[t].kind = "run" THEN "match" ELSE "done")
                                    EXCEPT !.chunk = {}, !.left = {}]]
    /\ UNCHANGED faults

\* The final counts are read before the transaction that completes the import.
FinalCounts(t) ==
    /\ tx[t].step = "total"
    /\ Counting(t, rows, "finish")
    /\ UNCHANGED <<job, rows, reads, shelf, held, faults>>

Complete(t) ==
    /\ tx[t].step = "finish"
    /\ job' = [Recount(t) EXCEPT !.state = "completed"]
    /\ Go(t, "done")
    /\ UNCHANGED <<rows, reads, shelf, held, faults>>

\* An error: the transaction is rolled back and the import is marked failed.
Fail(t) ==
    /\ t \in Runs /\ tx[t].step \in Steps \ {"off", "read", "done", "dead"} /\ faults < MaxFaults
    /\ faults' = faults + 1
    /\ job' = [job EXCEPT !.state = "failed"]
    /\ held' = Released(t)
    /\ tx' = [tx EXCEPT ![t] = Rolled(t, "dead")]
    /\ UNCHANGED <<rows, reads, shelf>>

\* The worker dies.
Die(t) ==
    /\ t \in Runs /\ tx[t].step \notin {"off", "done", "dead"} /\ faults < MaxFaults
    /\ faults' = faults + 1
    /\ held' = Released(t)
    /\ tx' = [tx EXCEPT ![t] = Rolled(t, "dead")]
    /\ UNCHANGED <<job, rows, reads, shelf>>

-----------------------------------------------------------------------------
(* The requests.                                                           *)

\* #lockRow.
Takable(r) == Recorded(r) /\ held[RowLock(r)] = Nobody

\* resolveRow: a row that is not open is a replay or a conflict.
Resolve(t, r, w) ==
    /\ "resolve" \in Kinds /\ tx[t].step = "off" /\ Takable(r)
    /\ \/ /\ rows[r].state \in {"matched", "resolved"}
          /\ Go(t, "done") /\ UNCHANGED held
       \/ /\ rows[r].state \in {"unmatched", "skipped"}
          /\ held' = Taken(t, {RowLock(r)})
          /\ tx' = [tx EXCEPT ![t] = [Off EXCEPT !.kind = "resolve", !.chunk = {r}, !.left = {r},
                                                 !.found[r] = w, !.step = "row"]]
    /\ UNCHANGED <<job, rows, reads, shelf, faults>>

Skip(t, r) ==
    /\ "skip" \in Kinds /\ tx[t].step = "off" /\ Takable(r)
    /\ \/ /\ rows[r].state # "unmatched"
          /\ Go(t, "done") /\ UNCHANGED held
       \/ /\ rows[r].state = "unmatched"
          /\ held' = Taken(t, {RowLock(r)})
          /\ tx' = [tx EXCEPT ![t] = [Off EXCEPT !.kind = "skip", !.chunk = {r}, !.step = "count",
                                                 !.out[r] = [rows[r] EXCEPT !.state = "skipped"]]]
    /\ UNCHANGED <<job, rows, reads, shelf, faults>>

\* The app: POST /reads and DELETE /reads, under the lock of the attempts.
Log(t, w) ==
    /\ "log" \in Kinds /\ tx[t].step = "off" /\ held[w] = Nobody
    /\ reads' = [reads EXCEPT ![w] = IF @ = "none" THEN "app" ELSE @]
    /\ Go(t, "done")
    /\ UNCHANGED <<job, rows, shelf, held, faults>>

Drop(t, w) ==
    /\ "drop" \in Kinds /\ tx[t].step = "off" /\ held[w] = Nobody /\ reads[w] # "none"
    /\ reads' = [reads EXCEPT ![w] = "none"]
    /\ tx' = [tx EXCEPT ![t].step = "done", ![t].kind = "drop"]
    /\ UNCHANGED <<job, rows, shelf, held, faults>>

-----------------------------------------------------------------------------

Advance(t) ==
    \/ ReadJob(t) \/ MarkProcessing(t) \/ LoadRows(t) \/ MatchChunk(t)
    \/ LookRow(t) \/ InsertRead(t) \/ MakeShelf(t) \/ Refused(t)
    \/ RecordRows(t) \/ RefreshCounts(t) \/ Commit(t) \/ FinalCounts(t) \/ Complete(t)

Ask(t) ==
    \/ \E r \in RowNos : Skip(t, r) \/ \E w \in Works : Resolve(t, r, w)
    \/ \E w \in Works : Log(t, w) \/ Drop(t, w)

Next == \/ \E t \in Runs : Begin(t) \/ Fail(t) \/ Die(t)
        \/ \E t \in Requests : Ask(t)
        \/ \E t \in Txs : Advance(t)

Init ==
    /\ job = [state |-> "queued", matched |-> 0, unmatched |-> 0]
    /\ rows = [r \in RowNos |-> Absent]
    /\ reads = [w \in Works |-> "none"] /\ shelf = 0
    /\ held = [l \in Locks |-> Nobody]
    /\ tx = [t \in Txs |-> Off]
    /\ faults = 0

Spec == Init /\ [][Next]_vars

\* pg-boss starts a job and its retries; a transaction goes on.
FairSpec == Spec /\ (\A t \in Runs : WF_vars(Begin(t))) /\ \A t \in Txs : WF_vars(Advance(t))

-----------------------------------------------------------------------------
(* Properties.                                                             *)

(* The tables hold what they may, and only transactions hold locks.        *)
TypeOK ==
    /\ job.state \in JobStates /\ job.matched \in 0 .. Cardinality(RowNos) /\ job.unmatched \in 0 .. Cardinality(RowNos)
    /\ rows \in [RowNos -> Outcomes]
    /\ reads \in [Works -> {"none", "app", "import"}]
    /\ shelf \in Nat /\ faults \in 0 .. MaxFaults
    /\ held \in [Locks -> Txs \cup {Nobody}]
    /\ \A l \in Locks : held[l] # Nobody =>
          tx[held[l]].step \in {"row", "insert", "tag", "record", "count", "commit"}
    /\ \A t \in Txs :
          /\ tx[t].step \in Steps /\ tx[t].chunk \subseteq RowNos /\ tx[t].left \subseteq tx[t].chunk
          /\ \A w \in tx[t].reads : held[w] = t

(* A book of the import in the library is a row that says so, whatever runs *)
(* overlapped, unless the reader has removed a book meanwhile.             *)
Accounted ==
    (\A t \in Requests : tx[t].kind # "drop") =>
        \A w \in Works : reads[w] = "import" =>
            \E r \in RowNos : rows[r] = [state |-> "resolved", work |-> w, why |-> "none"]

(* A completed import has every row on record.                             *)
CompleteRecorded == job.state = "completed" => \A r \in RowNos : Recorded(r)

(* A row that has its book keeps it, whatever run or request comes after.  *)
SettledStays == [][\A r \in RowNos : rows[r].state \in {"matched", "resolved"} => rows'[r] = rows[r]]_vars

(* Every transaction ends, and the import is completed.                    *)
Ends ==
    /\ \A t \in Txs : (tx[t].step # "off") ~> (tx[t].step \in {"done", "dead"})
    /\ MaxFaults < Cardinality(Runs) => <>(job.state = "completed")

(* The counters are those of the rows once nothing is under way.           *)
CountsTrue ==
    (\A t \in Txs : tx[t].step \in {"off", "done", "dead"}) =>
        /\ job.matched = Counted(rows, {"matched", "resolved"})
        /\ job.unmatched = Counted(rows, {"unmatched"})

(* A completed import stays completed.                                     *)
StaysCompleted == [][job.state = "completed" => job'.state = "completed"]_vars

(* A log of the app does not make the import fail.                         *)
NoRace ==
    [][\A t \in Txs : ~ (tx[t].step = "insert" /\ tx'[t].step = "done")]_vars
=============================================================================
