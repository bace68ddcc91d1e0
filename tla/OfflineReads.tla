---------------------------- MODULE OfflineReads ----------------------------
(***************************************************************************)
(* The reads of one book on a device (apps/mobile/src/offline/             *)
(* repository.ts), the queue that sends what is written to them            *)
(* (queue.ts), the lists of reads that screens fetch and cache, and the    *)
(* server with another device behind it.                                   *)
(*                                                                         *)
(* A write of the reader is a number, in the order of mutation_queue. The  *)
(* contents of a read are the writes it shows, and whether it is over      *)
(* (finished or DNF). The flush is kept as far as the reads need it: a     *)
(* row is sent when it is the oldest waiting one of its entity, which is   *)
(* what MutationQueue says of it.                                          *)
(***************************************************************************)
EXTENDS Naturals, Sequences, FiniteSets

CONSTANTS
    MaxReads,       \* attempts the server makes
    MaxLocal,       \* reads made on the device
    MaxWrites,      \* rows of the queue
    MaxFaults,      \* answers lost and writes refused for what they say
    MaxElsewhere,   \* requests of the other device
    Screens,        \* fetch a list each, at most one at a time
    SlowLists       \* a list may be overtaken by the queue before it is cached

ASSUME OfflineAssumption ==
    /\ MaxReads \in Nat /\ MaxLocal \in Nat /\ MaxWrites \in Nat
    /\ MaxFaults \in Nat /\ MaxElsewhere \in Nat
    /\ SlowLists \in BOOLEAN

VARIABLES
    server,         \* the attempts on the server, in order of creation
    reads,          \* the table reads: by id
    row,            \* the table mutation_queue: by number
    alias,          \* the table read_aliases
    flight,         \* the row being sent, and the answer
    list,           \* by screen: the list it has received
    drafting,       \* saveReview between its UPDATE and its INSERT
    asking,         \* wantToRead between the flush and its answer
    meant,          \* history: the id the reader pointed at, by number
    died,           \* history: rows that were dead letters
    mixed,          \* history: ids of more than one read of the device
    crossed,        \* history: writes that waited for a read of two rows, one of them deleted
    faults, elsewhere

vars == <<server, reads, row, alias, flight, list, drafting, asking, meant, died, mixed, crossed, faults, elsewhere>>

ServerIds == 1 .. MaxReads
LocalIds == MaxReads + 1 .. MaxReads + MaxLocal
Ids == ServerIds \cup LocalIds
Writes == 1 .. MaxWrites
Actions == {"upsert", "absent", "write", "finish", "delete", "review"}

Put(f, i, v) == [j \in DOMAIN f \cup {i} |-> IF j = i THEN v ELSE f[j]]
Without(f, i) == [j \in DOMAIN f \ {i} |-> f[j]]

Made == DOMAIN server
Live == {s \in Made : server[s].live}
Queued(w) == w \in DOMAIN row /\ row[w].status \in {"pending", "processing"}
Highest(nos) == CHOOSE n \in nos : \A k \in nos : k <= n

Landed == [step |-> "idle", w |-> 0, said |-> "none", id |-> 0]
NotAsking == [step |-> "idle", local |-> 0, id |-> 0, w |-> 0]

-----------------------------------------------------------------------------
(* The repository: a transaction each, which ends with a row queued.       *)

\* One hop, as in resolveReadId.
Resolve(i) == IF i \in DOMAIN alias THEN alias[i] ELSE i

Next1 == Cardinality(DOMAIN row) + 1
CanWrite == Next1 \in Writes /\ drafting = 0

Enqueue(i, tapped, action) ==
    /\ row' = Put(row, Next1, [entity |-> i, action |-> action, status |-> "pending"])
    /\ meant' = Put(meant, Next1, tapped)

\* An id a screen may hold: of a row, or one that a row once had.
OnScreen(i) == Resolve(i) \in DOMAIN reads

Shown(i) == [reads[i] EXCEPT !.shows = @ \cup {Next1}, !.synced = FALSE]

AddProgress(i) ==
    /\ CanWrite /\ OnScreen(i)
    /\ reads' = [reads EXCEPT ![Resolve(i)] = Shown(Resolve(i))]
    /\ Enqueue(Resolve(i), i, "write")
    /\ UNCHANGED <<server, alias, flight, list, drafting, asking, died, mixed, crossed, faults, elsewhere>>

FinishRead(i) ==
    /\ CanWrite /\ OnScreen(i) /\ ~reads[Resolve(i)].over
    /\ reads' = [reads EXCEPT ![Resolve(i)] = [Shown(Resolve(i)) EXCEPT !.over = TRUE]]
    /\ Enqueue(Resolve(i), i, "finish")
    /\ UNCHANGED <<server, alias, flight, list, drafting, asking, died, mixed, crossed, faults, elsewhere>>

DeleteRead(i) ==
    /\ CanWrite /\ OnScreen(i)
    /\ reads' = Without(reads, Resolve(i))
    /\ Enqueue(Resolve(i), i, "delete")
    /\ UNCHANGED <<server, alias, flight, list, drafting, asking, died, mixed, crossed, faults, elsewhere>>

FreshLocal == LocalIds \ (DOMAIN reads \cup DOMAIN alias \cup {row[w].entity : w \in DOMAIN row})

\* saveReadStatus: over the latest attempt, or as a new one of a local id.
Latest == {i \in DOMAIN reads : \A j \in DOMAIN reads : reads[j].no <= reads[i].no}

\* Mutant: a read made on the device counts as sent.
NewRowSynced == [over |-> FALSE, no |-> Highest({0} \cup {reads[i].no : i \in DOMAIN reads}) + 1,
                 shows |-> {Next1}, synced |-> TRUE]

NewRow == [over |-> FALSE, no |-> Highest({0} \cup {reads[i].no : i \in DOMAIN reads}) + 1,
           shows |-> {Next1}, synced |-> FALSE]

SaveReadStatus ==
    /\ CanWrite
    /\ \/ \E i \in Latest :
            /\ ~reads[i].over
            /\ reads' = [reads EXCEPT ![i] = Shown(i)]
            /\ Enqueue(i, i, "upsert")
       \/ /\ Latest = {} \/ \E i \in Latest : reads[i].over
          /\ FreshLocal # {}
          /\ LET l == CHOOSE l \in FreshLocal : \A k \in FreshLocal : l <= k
             IN  reads' = Put(reads, l, NewRow) /\ Enqueue(l, l, "upsert")
    /\ UNCHANGED <<server, alias, flight, list, drafting, asking, died, mixed, crossed, faults, elsewhere>>

\* wantToRead. It then waits for a flush, or for nothing when one is running.
WantToRead ==
    /\ CanWrite /\ DOMAIN reads = {} /\ FreshLocal # {} /\ asking.step = "idle"
    /\ LET l == CHOOSE l \in FreshLocal : \A k \in FreshLocal : l <= k
       IN  /\ reads' = Put(reads, l, NewRow)
           /\ Enqueue(l, l, "absent")
           /\ asking' = [NotAsking EXCEPT !.step = "alias", !.local = l, !.w = Next1]
    /\ UNCHANGED <<server, alias, flight, list, drafting, died, mixed, crossed, faults, elsewhere>>

\* Its SELECTs. The toast that follows changes nothing; a third SELECT only words the
\* toast of a row that is not synced.
AskAlias ==
    /\ asking.step = "alias"
    /\ asking' = [asking EXCEPT !.step = "row", !.id = Resolve(asking.local)]
    /\ UNCHANGED <<server, reads, row, alias, flight, list, drafting, meant, died, mixed, crossed, faults, elsewhere>>

Toast == IF asking.id \notin DOMAIN reads THEN "already"
         ELSE IF reads[asking.id].synced THEN "added" ELSE "queued"

AskRow ==
    /\ asking.step = "row"
    /\ asking' = NotAsking
    /\ UNCHANGED <<server, reads, row, alias, flight, list, drafting, meant, died, mixed, crossed, faults, elsewhere>>

\* saveReview: no transaction, and synced stays as it is.
ReviewUpdate(i) ==
    /\ CanWrite /\ OnScreen(i)
    /\ reads' = [reads EXCEPT ![Resolve(i)].shows = @ \cup {Next1}]
    /\ drafting' = Resolve(i)
    /\ UNCHANGED <<server, row, alias, flight, list, asking, meant, died, mixed, crossed, faults, elsewhere>>

ReviewEnqueue ==
    /\ drafting # 0
    /\ Enqueue(drafting, drafting, "review")
    /\ drafting' = 0
    /\ UNCHANGED <<server, reads, alias, flight, list, asking, died, mixed, crossed, faults, elsewhere>>

-----------------------------------------------------------------------------
(* The queue.                                                              *)

Rekey(i, j) == [w \in DOMAIN row |-> IF row[w].entity = i THEN [row[w] EXCEPT !.entity = j] ELSE row[w]]

\* Claimed, and keyed by the alias if its read has one. Between entities any order
\* is possible: the flush sends entity by entity, and one backing off is passed over.
Send(w) ==
    /\ flight.step = "idle"
    /\ w \in DOMAIN row /\ row[w].status = "pending"
    /\ \A v \in 1 .. w - 1 : row[v].entity = row[w].entity => row[v].status # "pending"
    /\ row' = [Rekey(row[w].entity, Resolve(row[w].entity)) EXCEPT ![w].status = "processing"]
    /\ flight' = [Landed EXCEPT !.step = "sent", !.w = w]
    /\ UNCHANGED <<server, reads, alias, list, drafting, asking, meant, died, mixed, crossed, faults, elsewhere>>

Clean(table, queue, i) ==
    IF i \in DOMAIN table /\ ~ \E w \in DOMAIN queue : queue[w].entity = i /\ queue[w].status = "pending"
    THEN [table EXCEPT ![i].synced = TRUE] ELSE table

Gone(queue, w) == [queue EXCEPT ![w].status = "gone"]

\* remapRead: the row moves to the server's id, unless that has one.
Moved(i, s) ==
    IF s \in DOMAIN reads \/ i \notin DOMAIN reads THEN Without(reads, i)
    ELSE Put(Without(reads, i), s, reads[i])

\* Ids the device has used already.
Known == DOMAIN reads \cup {alias[l] : l \in DOMAIN alias} \cup {row[w].entity : w \in DOMAIN row}

\* The answered id is that of the read made here alone: new to the device, or made by this
\* very create, which was never refused, and given to no other.
SameRead(i, w, s) ==
    i \in LocalIds /\ (s \notin Known \/ (w \in server[s].by \ died /\ \A l \in DOMAIN alias : alias[l] # s))

\* A list came before the answer: the read had a row of the id s too. When one of the
\* two was deleted, the other stays with what waits for either.
Crossed(i, s) ==
    LET waiting == {v \in DOMAIN row : Queued(v) /\ row[v].entity \in {i, s}}
    IN  IF s \in Known /\ \E v \in waiting : row[v].action = "delete" THEN waiting ELSE {}

\* markSuccess, after dropping the local copy of a 409 already_in_library.
MarkSuccess ==
    /\ flight.step = "answered" /\ flight.said \in {"ok", "exists"}
    /\ LET w == flight.w
           i == row[w].entity
           s == flight.id
           remap == row[w].action \in {"upsert", "absent"} /\ flight.said = "ok" /\ s # i
       IN  IF remap
           THEN /\ row' = Gone(Rekey(i, s), w)
                /\ reads' = Clean(Moved(i, s), Gone(Rekey(i, s), w), s)
                /\ alias' = Put(alias, i, s)
                /\ mixed' = IF SameRead(i, w, s) THEN mixed ELSE mixed \cup {i, s}
                /\ crossed' = crossed \cup Crossed(i, s)
           ELSE /\ row' = Gone(row, w)
                /\ reads' = IF flight.said = "exists" /\ i \in DOMAIN reads /\ ~reads[i].synced
                            THEN Without(reads, i) ELSE Clean(reads, Gone(row, w), i)
                /\ UNCHANGED <<alias, mixed, crossed>>
    /\ flight' = Landed
    /\ UNCHANGED <<server, list, drafting, asking, meant, died, faults, elsewhere>>

DeadLetter ==
    /\ flight.step = "answered" /\ flight.said = "refused"
    /\ row' = [row EXCEPT ![flight.w].status = "dead"]
    /\ died' = died \cup {flight.w}
    /\ flight' = Landed
    /\ UNCHANGED <<server, reads, alias, list, drafting, asking, meant, mixed, crossed, faults, elsewhere>>

\* No answer, wherever the request got to: the row waits, and is sent again.
Lose ==
    /\ flight.step \in {"sent", "answered"} /\ faults < MaxFaults
    /\ faults' = faults + 1
    /\ row' = [row EXCEPT ![flight.w].status = "pending"]
    /\ flight' = Landed
    /\ UNCHANGED <<server, reads, alias, list, drafting, asking, meant, died, mixed, crossed, elsewhere>>

Retry(w) ==
    /\ w \in DOMAIN row /\ row[w].status = "dead"
    /\ row' = [row EXCEPT ![w].status = "pending"]
    /\ UNCHANGED <<server, reads, alias, flight, list, drafting, asking, meant, died, mixed, crossed, faults, elsewhere>>

Dismiss(w) ==
    /\ w \in DOMAIN row /\ row[w].status = "dead"
    /\ row' = Gone(row, w)
    /\ UNCHANGED <<server, reads, alias, flight, list, drafting, asking, meant, died, mixed, crossed, faults, elsewhere>>

-----------------------------------------------------------------------------
(* The server.                                                             *)

Newest == {s \in Live : \A t \in Live : t <= s}

NewAttempt(ws) == [live |-> TRUE, over |-> FALSE, has |-> ws, by |-> ws,
                   no |-> Highest({0} \cup {server[s].no : s \in Live}) + 1]

\* POST /reads: the newest attempt if it is not over, else a new one.
Upserted(ws) ==
    LET open == {s \in Newest : ~server[s].over}
    IN  IF open # {} THEN [s \in Made |-> IF s \in open THEN [server[s] EXCEPT !.has = @ \cup ws] ELSE server[s]]
        ELSE Append(server, NewAttempt(ws))

UpsertedId == IF \E s \in Newest : ~server[s].over THEN CHOOSE s \in Newest : TRUE ELSE Len(server) + 1

Says(said, id) == flight' = [flight EXCEPT !.step = "answered", !.said = said, !.id = id]

Serve ==
    /\ flight.step = "sent"
    /\ LET w == flight.w
           s == row[w].entity
           do == row[w].action
       IN  \/ /\ do = "upsert" \/ (do = "absent" /\ Live = {})
              /\ UpsertedId \in ServerIds
              /\ server' = Upserted({w}) /\ Says("ok", UpsertedId)
              /\ UNCHANGED faults
           \/ /\ do = "absent" /\ Live # {}
              /\ Says("exists", 0)
              /\ UNCHANGED <<server, faults>>
           \/ /\ do \in {"write", "finish", "review"} /\ s \in Live
              /\ server' = [server EXCEPT ![s].has = @ \cup {w}, ![s].over = @ \/ do = "finish"]
              /\ Says("ok", s)
              /\ UNCHANGED faults
           \/ /\ do = "delete" /\ s \in Live
              /\ server' = [server EXCEPT ![s].live = FALSE]
              /\ Says("ok", s)
              /\ UNCHANGED faults
           \/ /\ do \notin {"upsert", "absent"} /\ s \notin Live
              /\ Says(IF do = "delete" THEN "ok" ELSE "refused", s)
              /\ UNCHANGED <<server, faults>>
           \/ /\ faults < MaxFaults
              /\ faults' = faults + 1
              /\ Says("refused", 0)
              /\ UNCHANGED server
    /\ UNCHANGED <<reads, row, alias, list, drafting, asking, meant, died, mixed, crossed, elsewhere>>

\* The other device: a status, a finish, a delete.
Elsewhere ==
    /\ elsewhere < MaxElsewhere
    /\ elsewhere' = elsewhere + 1
    /\ \/ UpsertedId \in ServerIds /\ server' = Upserted({})
       \/ \E s \in Live : server' = [server EXCEPT ![s].over = TRUE]
       \/ \E s \in Live : server' = [server EXCEPT ![s].live = FALSE]
    /\ UNCHANGED <<reads, row, alias, flight, list, drafting, asking, meant, died, mixed, crossed, faults>>

-----------------------------------------------------------------------------
(* The lists.                                                              *)

Told == [s \in Live |-> [over |-> server[s].over, no |-> server[s].no, shows |-> server[s].has, synced |-> TRUE]]
NoList == [s \in {} |-> 0]

Fetch(c) ==
    /\ list[c] = NoList
    /\ list' = [list EXCEPT ![c] = Told]
    /\ UNCHANGED <<server, reads, row, alias, flight, drafting, asking, meant, died, mixed, crossed, faults, elsewhere>>

\* Mutants: a list overwrites a write that waits, and brings a deleted read back;
\* it passes over every row there is already.
KeptUnlessDeleted(s) == \E w \in DOMAIN row : row[w].entity = s /\ row[w].action = "delete" /\ Queued(w)
KeptWhenUnsynced(s) == s \in DOMAIN reads /\ ~reads[s].synced
KeptWhenThere(s) == s \in DOMAIN reads \/ KeptUnlessDeleted(s)

\* cacheServerReads: all but the rows with a write of their own, and those whose
\* delete is queued.
Kept(s) ==
    \/ s \in DOMAIN reads /\ ~reads[s].synced
    \/ \E w \in DOMAIN row : row[w].entity = s /\ row[w].action = "delete" /\ Queued(w)

Cache(c) ==
    /\ list[c] # NoList
    /\ SlowLists \/ list[c] = Told
    /\ LET news == {s \in DOMAIN list[c] : ~Kept(s)}
       IN  reads' = [i \in DOMAIN reads \cup news |-> IF i \in news THEN list[c][i] ELSE reads[i]]
    /\ list' = [list EXCEPT ![c] = NoList]
    /\ UNCHANGED <<server, row, alias, flight, drafting, asking, meant, died, mixed, crossed, faults, elsewhere>>

-----------------------------------------------------------------------------

Reader ==
    \/ \E i \in Ids : AddProgress(i) \/ FinishRead(i) \/ DeleteRead(i) \/ ReviewUpdate(i)
    \/ SaveReadStatus \/ WantToRead

Sync == (\E w \in DOMAIN row : Send(w)) \/ Serve \/ MarkSuccess \/ DeadLetter

Next ==
    \/ Reader \/ ReviewEnqueue \/ AskAlias \/ AskRow
    \/ Sync \/ Lose \/ (\E w \in DOMAIN row : Retry(w) \/ Dismiss(w))
    \/ Elsewhere
    \/ \E c \in Screens : Fetch(c) \/ Cache(c)

Init ==
    /\ server = <<>>
    /\ reads = [i \in {} |-> 0] /\ row = <<>> /\ alias = [i \in {} |-> 0]
    /\ flight = Landed /\ list = [c \in Screens |-> NoList]
    /\ drafting = 0 /\ asking = NotAsking
    /\ meant = <<>> /\ died = {} /\ mixed = {} /\ crossed = {} /\ faults = 0 /\ elsewhere = 0

Spec == Init /\ [][Next]_vars

-----------------------------------------------------------------------------
(* Properties.                                                             *)

(* The tables hold what they may; the one row being sent is the flush's,    *)
(* and a local id that was answered is no row's any more.                   *)
TypeOK ==
    /\ \A s \in Made : server[s] \in [live : BOOLEAN, over : BOOLEAN, has : SUBSET Writes,
                                     by : SUBSET Writes, no : ServerIds]
    /\ DOMAIN reads \subseteq Ids
    /\ \A i \in DOMAIN reads : reads[i] \in [over : BOOLEAN, no : Nat, shows : SUBSET Writes, synced : BOOLEAN]
    /\ DOMAIN row \subseteq Writes
    /\ \A w \in DOMAIN row :
          row[w] \in [entity : Ids, action : Actions, status : {"pending", "processing", "dead", "gone"}]
    /\ DOMAIN alias \subseteq Ids /\ \A i \in DOMAIN alias : alias[i] \in ServerIds
    /\ {w \in DOMAIN row : row[w].status = "processing"} = {flight.w} \ {0}
    /\ DOMAIN reads \cap DOMAIN alias \cap LocalIds = {}
    /\ asking.step \in {"idle", "alias", "row"}
    /\ drafting \in Ids \cup {0} /\ faults \in 0 .. MaxFaults /\ elsewhere \in 0 .. MaxElsewhere

ShownBut(passed) ==
    \A w \in DOMAIN row :
        /\ Queued(w) /\ row[w].action \notin {"delete", "review"} /\ row[w].entity \notin mixed /\ w \notin passed
        /\ meant[w] = row[w].entity /\ meant[w] \in ServerIds /\ meant[w] \in DOMAIN reads
        /\ \A v \in died : row[v].entity # row[w].entity
        => w \in reads[meant[w]].shows

(* What is queued for a read that the server knew when it was written is    *)
(* shown: neither a list nor an answer takes it off the screen. (Reviews    *)
(* are written without the flag, a read of which the server refused a       *)
(* write is not the reader's alone, and of the two rows a read has between  *)
(* a list that shows it and the answer to its create, one may be deleted.)  *)
QueuedShown == ShownBut(crossed)

(* The same with no exception for two rows of one read.                     *)
QueuedShownAsStated == ShownBut({})

(* A deleted read is not shown while its delete waits, unless its id is     *)
(* that of another read too, or the delete took one of the two rows a read  *)
(* has between a list that shows it and the answer to its create.           *)
DeletedHidden ==
    \A w \in DOMAIN row \ (died \cup crossed) :
        Queued(w) /\ row[w].action = "delete" /\ row[w].entity \notin mixed
        => row[w].entity \notin DOMAIN reads

(* As repository.ts:495 states it: a locally deleted read must not          *)
(* reappear, whenever the list was fetched.                                 *)
DeletedHiddenAsStated ==
    \A w \in DOMAIN row \ died :
        Queued(w) /\ row[w].action = "delete" /\ row[w].entity \notin mixed
        => row[w].entity \notin DOMAIN reads

(* A row that lists leave alone has something to be sent, or was refused.   *)
DirtyQueued ==
    \A i \in DOMAIN reads \ DOMAIN alias :
        ~reads[i].synced => \E w \in DOMAIN row : row[w].entity = i /\ (Queued(w) \/ w \in died)

(* A list that is cached while nothing is queued or was refused shows what  *)
(* the server has.                                                          *)
RefreshTells ==
    [][\A c \in Screens :
         list[c] = Told /\ list'[c] # list[c] /\ DOMAIN alias \cap ServerIds = {}
         /\ died = {} /\ (\A w \in DOMAIN row : ~Queued(w))
         => \A s \in Live : reads'[s] = Told[s]]_vars

(* No row answers to the id of another.                                     *)
RowsNotAliased == DOMAIN reads \cap DOMAIN alias = {}

(* A toast that says "added" is true.                                       *)
AddedTrue == asking.step = "row" /\ Toast = "added" => asking.id \in Made

(* A toast that says "already" is true.                                     *)
AlreadyTrue ==
    asking.step = "row" /\ Toast = "already" /\ (\A w \in DOMAIN row : row[w].action # "delete")
    => ~ \E s \in Made : asking.w \in server[s].has

(* A delete takes nothing that was written after it: the create of a book   *)
(* taken up again is of another entity, and may overtake the delete.        *)
DeleteSparesLater ==
    [][\A s \in Live : ~server'[s].live /\ elsewhere' = elsewhere
                       => \A w \in server[s].has : w < flight.w]_vars

(* A read deleted here and on the server stays deleted.                     *)
DeletedStays ==
    [][\A s \in DOMAIN reads' \ DOMAIN reads :
         ~ \E w \in DOMAIN row : row[w].action = "delete" /\ row[w].status = "gone" /\ row[w].entity = s
                                 /\ w \notin died]_vars
=============================================================================
