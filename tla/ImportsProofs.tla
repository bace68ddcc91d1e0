--------------------------- MODULE ImportsProofs ---------------------------
(***************************************************************************)
(* An import, its overlapping runs and the requests beside them: types, a  *)
(* completed import, rows that keep their book, and the account of what    *)
(* was made, for any file, any number of runs and requests.                *)
(***************************************************************************)
EXTENDS Imports, FiniteSetTheorems, WellFoundedInduction, TLAPS

InTx == {"row", "insert", "tag", "record", "count", "commit"}
Working == InTx \cup {"match", "total", "finish"}
Settled == {"matched", "resolved"}
Open == {"unmatched", "skipped"}
Made(w) == [state |-> "resolved", work |-> w, why |-> "none"]

Tallies == 0 .. Cardinality(RowNos)
Jobs == [state : JobStates, matched : Tallies, unmatched : Tallies]
TxStates ==
    [step : Steps, kind : {"run", "resolve", "skip", "drop"}, todo : SUBSET RowNos, chunk : SUBSET RowNos,
     left : SUBSET RowNos, found : [RowNos -> Works \cup {NoWork}], out : [RowNos -> Outcomes],
     isolate : BOOLEAN, reads : SUBSET Works, shelves : Nat, own : SUBSET Works,
     matched : Tallies, unmatched : Tallies]

Tables ==
    /\ job \in Jobs /\ rows \in [RowNos -> Outcomes] /\ reads \in [Works -> {"none", "app", "import"}]
    /\ shelf \in Nat /\ faults \in 0 .. MaxFaults /\ held \in [Locks -> Txs \cup {Nobody}]
    /\ tx \in [Txs -> TxStates]

\* A transaction's place agrees with what it carries.
Proper(x) ==
    /\ x.left \subseteq x.chunk /\ x.todo \cap x.chunk = {}
    /\ x.step \in {"row", "insert", "tag"} => x.left # {}
    /\ x.step \in {"record", "count", "commit"} => x.left = {} /\ x.chunk # {}
    /\ x.step \in {"insert", "tag"} => x.found[Lowest(x.left)] \in Works
    /\ x.step = "tag" => x.own = {x.found[Lowest(x.left)]}
    /\ x.step # "tag" => x.own = {}
    /\ x.own \subseteq x.reads
    /\ x.step \notin InTx => x.reads = {}
    /\ x.step \in {"off", "read", "mark", "load", "match", "total", "finish"} => x.chunk = {}
    /\ x.step \in {"total", "finish"} => x.todo = {}

\* Every row looked at has an outcome, and every read made a row that says so.
Kept(x) ==
    /\ \A r \in RowNos : x.out[r] = Absent \/ x.out[r].state # "none"
    /\ \A r \in x.chunk \ x.left : x.out[r] # Absent
    /\ \A w \in x.reads \ x.own : \E r \in x.chunk \ x.left : x.out[r] = Made(w)

OfKind(t, x) ==
    /\ t \in Runs => x.kind = "run"
    /\ t \in Requests => x.step \in {"off", "done", "row", "insert", "tag", "count", "commit"}
    /\ t \in Requests /\ x.kind \in {"run", "drop"} => x.step \in {"off", "done"}

\* Its locks: those of its reads, and those of the rows it is about to write.
Holds(t) ==
    /\ \A l \in Locks : held[l] = t => tx[t].step \in InTx
    /\ \A w \in tx[t].reads : held[w] = t
    /\ \A r \in RowNos : held[RowLock(r)] = t =>
          \/ t \in Runs /\ ~Recorded(r) /\ r \in tx[t].chunk /\ tx[t].step \in {"count", "commit"}
          \/ t \in Requests /\ rows[r].state \in Open
    /\ t \in Runs /\ tx[t].step \in {"count", "commit"} =>
          \A r \in tx[t].chunk : Recorded(r) \/ held[RowLock(r)] = t
    /\ t \in Requests /\ tx[t].step \in InTx => \A r \in tx[t].chunk : held[RowLock(r)] = t

\* What a run has not on its list is on record.
Covers(t) == t \in Runs /\ tx[t].step \in Working =>
    \A r \in RowNos : Recorded(r) \/ r \in tx[t].todo \cup tx[t].chunk

Mine(t) == Proper(tx[t]) /\ Kept(tx[t]) /\ OfKind(t, tx[t]) /\ Holds(t) /\ Covers(t)

Inv == Tables /\ (\A t \in Txs : Mine(t)) /\ CompleteRecorded

\* A run begins only when the one before it is over, as without the expiry of a job.
OneRun == \A s, t \in Runs :
    tx[s].step \notin {"off", "done", "dead"} /\ tx[t].step \notin {"off", "done", "dead"} => s = t

\* Then the rows on its list are on record for nobody.
Alone == \A t \in Runs : tx[t].step \in Working =>
    \A r \in tx[t].todo \cup tx[t].chunk : ~Recorded(r)

\* Whatever is removed meanwhile.
AllAccounted == \A w \in Works : reads[w] = "import" => \E r \in RowNos : rows[r] = Made(w)

-----------------------------------------------------------------------------
(* Finite sets of row numbers: their least, and the next chunk.            *)

LEMMA RowSets ==
  ASSUME NEW S \in SUBSET RowNos
  PROVE  IsFiniteSet(S) /\ Cardinality(S) \in Nat /\ Cardinality(S) \in Tallies /\ S \subseteq Nat
  <1>1. IsFiniteSet(RowNos) /\ RowNos \subseteq Nat
    BY ImportAssumption
  <1>2. IsFiniteSet(S) /\ Cardinality(S) <= Cardinality(RowNos)
    BY <1>1, FS_Subset
  <1> QED
    BY <1>1, <1>2, FS_CardinalityType DEF Tallies

\* Of a family of sets of rows, one that contains no other.
LEMMA SmallestOf ==
  ASSUME NEW F \in SUBSET (SUBSET RowNos), F # {}
  PROVE  \E d \in F : \A c \in F : c \subseteq d => c = d
  <1>1. \A c \in SUBSET RowNos : IsFiniteSet(c)
    BY RowSets
  <1>2. F \subseteq FiniteSubsetsOf(RowNos)
    BY <1>1 DEF FiniteSubsetsOf
  <1>3. \E d \in F : \A c \in F : ~ (<<c, d>> \in StrictSubsetOrdering(RowNos))
    BY <1>2, FS_StrictSubsetOrderingWellFounded, WFMin
  <1>4. \A c, d \in F : c \subseteq d /\ c # d => <<c, d>> \in StrictSubsetOrdering(RowNos)
    BY DEF StrictSubsetOrdering
  <1> QED
    BY <1>3, <1>4

LEMMA LowestIn ==
  ASSUME NEW S \in SUBSET RowNos, S # {}
  PROVE  Lowest(S) \in S /\ \A q \in S : Lowest(S) <= q
  <1> DEFINE Below(n) == {q \in S : q <= n}
             F == {Below(n) : n \in S}
  <1>1. S \subseteq Nat
    BY RowSets
  <1>2. F \in SUBSET (SUBSET RowNos) /\ F # {}
    OBVIOUS
  <1>3. PICK n \in S : \A c \in F : c \subseteq Below(n) => c = Below(n)
    <2>1. PICK d \in F : \A c \in F : c \subseteq d => c = d
      BY <1>2, SmallestOf
    <2> QED
      BY <2>1
  <1>4. \A q \in S : n <= q
    <2>1. SUFFICES ASSUME NEW q \in S, ~(n <= q) PROVE FALSE
      OBVIOUS
    <2>2. Below(q) \subseteq Below(n)
      <3>1. \A x \in S : x <= q => x <= n
        BY <1>1, <2>1
      <3> QED
        BY <3>1
    <2>3. Below(q) = Below(n)
      BY <1>3, <2>2
    <2>4. n \in Below(n) /\ n \notin Below(q)
      BY <1>1, <2>1
    <2> QED
      BY <2>3, <2>4
  <1> QED
    BY <1>4 DEF Lowest

\* A chunk is taken from the list, and it is not empty.
LEMMA NextChunkIn ==
  ASSUME NEW todo \in SUBSET RowNos, todo # {}
  PROVE  NextChunk(todo) \subseteq todo /\ NextChunk(todo) # {}
  <1> DEFINE size == IF Cardinality(todo) < ChunkSize THEN Cardinality(todo) ELSE ChunkSize
             Fits(c) == /\ Cardinality(c) <= size
                        /\ \A r \in c, q \in todo \ c : r < q
             F == {d \in SUBSET todo : Fits(todo \ d)}
  <1>1. /\ size \in Nat \ {0} /\ size <= Cardinality(todo) /\ Cardinality(todo) \in Nat
        /\ IsFiniteSet(todo) /\ todo \subseteq Nat
    BY RowSets, FS_EmptySet, ImportAssumption
  <1>2. Fits({}) /\ todo \ todo = {}
    BY <1>1, FS_EmptySet
  <1>3. todo \in F /\ F \in SUBSET (SUBSET RowNos)
    BY <1>2
  <1>4. PICK d \in F : \A c \in F : c \subseteq d => c = d
    BY <1>3, SmallestOf
  <1>5. Cardinality(todo \ d) = size
    <2>1. SUFFICES ASSUME Cardinality(todo \ d) # size PROVE FALSE
      OBVIOUS
    <2>2. Cardinality(todo \ d) \in Nat /\ Cardinality(todo \ d) < size
      BY <1>1, <2>1, RowSets
    <2>3. d # {}
      BY <1>1, <2>2
    <2>4. Lowest(d) \in d /\ \A q \in d : Lowest(d) <= q
      BY <2>3, LowestIn
    <2> DEFINE c == d \ {Lowest(d)}
    <2>5. todo \ c = (todo \ d) \cup {Lowest(d)} /\ Lowest(d) \notin todo \ d
      BY <2>4
    <2>6. Cardinality(todo \ c) = Cardinality(todo \ d) + 1
      BY <2>5, RowSets, FS_AddElement
    <2>7. \A r \in todo \ c, q \in todo \ (todo \ c) : r < q
      <3>1. SUFFICES ASSUME NEW r \in todo \ c, NEW q \in todo \ (todo \ c) PROVE r < q
        OBVIOUS
      <3>2. q \in c /\ q \in d /\ q # Lowest(d)
        BY <3>1
      <3>3. CASE r = Lowest(d)
        BY <3>2, <3>3, <2>4, <1>1
      <3>4. CASE r # Lowest(d)
        BY <3>1, <3>2, <3>4, <2>5
      <3> QED
        BY <3>3, <3>4
    <2>8. c \in F
      <3>1. Cardinality(todo \ c) <= size
        BY <1>1, <2>2, <2>6
      <3> QED
        BY <3>1, <2>7
    <2> QED
      BY <1>4, <2>4, <2>8
  <1>6. \E c \in SUBSET todo : Cardinality(c) = size /\ \A r \in c, q \in todo \ c : r < q
    BY <1>5
  <1>7. NextChunk(todo) \in SUBSET todo /\ Cardinality(NextChunk(todo)) = size
    BY <1>6 DEF NextChunk
  <1> QED
    BY <1>1, <1>7, FS_EmptySet

-----------------------------------------------------------------------------
(* What a step of a transaction does.                                      *)

Local(t) == \A u \in Txs \ {t} : tx'[u] = tx[u]

Locking(t) == \A l \in Locks :
    \/ held'[l] = held[l]
    \/ held[l] = t /\ held'[l] = Nobody
    \/ held[l] = Nobody /\ held'[l] = t

\* The tables change at its COMMIT only, the job's row apart.
Writing(t) == rows' = rows \/ (tx[t].step = "commit" /\ rows' = View(t))

Importing(t) == \A w \in Works : reads'[w] = "import" =>
    \/ reads[w] = "import"
    \/ tx[t].step = "commit" /\ w \in tx[t].reads /\ rows' = View(t)

Ending == job'.state = "completed" => job.state = "completed" \/ \A r \in RowNos : Recorded(r)

\* A run's list is read once, and gets shorter.
Listing(t) == t \in Runs /\ tx'[t].step \in Working =>
    \/ /\ rows' = rows
       /\ \A r \in tx'[t].todo \cup tx'[t].chunk : ~Recorded(r)
    \/ /\ tx[t].step \in Working
       /\ tx'[t].todo \cup tx'[t].chunk \subseteq tx[t].todo \cup tx[t].chunk
       /\ rows' = rows \/ tx'[t].todo \cup tx'[t].chunk \subseteq tx[t].todo

Step(t) ==
    /\ Tables' /\ Mine(t)'
    /\ Local(t) /\ Locking(t) /\ Writing(t) /\ Importing(t) /\ Ending /\ Listing(t)

-----------------------------------------------------------------------------
(* Locks and records.                                                      *)

LEMMA LockFacts ==
  /\ TagLock \in Locks /\ TagLock \notin Works /\ Works \subseteq Locks
  /\ \A r \in RowNos : RowLock(r) \in Locks /\ RowLock(r) \notin Works /\ RowLock(r) # TagLock
  /\ \A r, q \in RowNos : RowLock(r) = RowLock(q) => r = q
  <1>1. \A r \in RowNos : RowLock(r) # TagLock
    BY DEF RowLock, TagLock
  <1>2. \A r, q \in RowNos : RowLock(r) = RowLock(q) => r = q
    BY DEF RowLock
  <1> QED
    BY <1>1, <1>2, LocksAssumption DEF Locks

LEMMA TxFacts == Runs \subseteq Txs /\ Requests \subseteq Txs /\ Runs \cap Requests = {} /\ Nobody \notin Txs
  BY ImportAssumption DEF Txs

LEMMA Unheld ==
  ASSUME NEW t \in Txs, Mine(t), tx[t].step \notin InTx
  PROVE  \A l \in Locks : held[l] # t
  BY DEF Mine, Holds

LEMMA Letting ==
  ASSUME NEW t \in Txs, Tables, held' = Released(t)
  PROVE  /\ held' \in [Locks -> Txs \cup {Nobody}] /\ Locking(t)
         /\ \A l \in Locks : held'[l] # t
  BY TxFacts DEF Tables, Released, Locking

\* Who has a lock taken, or none, has it and nothing else has changed.
LEMMA Taking ==
  ASSUME NEW t \in Txs, Tables, NEW ls \in SUBSET Locks, held' = Taken(t, ls), \A l \in ls : Free(t, l)
  PROVE  /\ held' \in [Locks -> Txs \cup {Nobody}] /\ Locking(t)
         /\ \A l \in Locks : held'[l] = t <=> held[l] = t \/ l \in ls
  BY TxFacts DEF Tables, Taken, Free, Locking

LEMMA NotTaking ==
  ASSUME NEW t \in Txs, Tables, held' = held
  PROVE  held' \in [Locks -> Txs \cup {Nobody}] /\ Locking(t)
  BY DEF Tables, Locking

\* Holding nothing.
LEMMA EmptyHanded ==
  ASSUME NEW t \in Txs, \A l \in Locks : held'[l] # t, tx'[t].reads = {},
         tx'[t].step \notin {"count", "commit"}, t \in Runs \/ tx'[t].step \notin InTx
  PROVE  Holds(t)'
  <1>1. \A r \in RowNos : held'[RowLock(r)] # t
    BY LockFacts
  <1>2. Runs' = Runs /\ Requests' = Requests /\ RowNos' = RowNos
    OBVIOUS
  <1> QED
    BY <1>1, TxFacts DEF Holds, Recorded

LEMMA Replacing ==
  ASSUME NEW t \in Txs, Tables, NEW n, tx' = [tx EXCEPT ![t] = n], n \in TxStates
  PROVE  tx' \in [Txs -> TxStates] /\ tx'[t] = n /\ Local(t)
  BY DEF Tables, Local

LEMMA Going ==
  ASSUME NEW t \in Txs, Tables, NEW step \in Steps, Go(t, step)
  PROVE  /\ tx' \in [Txs -> TxStates] /\ Local(t)
         /\ tx'[t] = [tx[t] EXCEPT !.step = step]
         /\ tx'[t].step = step
         /\ tx'[t].todo = tx[t].todo /\ tx'[t].chunk = tx[t].chunk /\ tx'[t].left = tx[t].left
         /\ tx'[t].found = tx[t].found /\ tx'[t].out = tx[t].out /\ tx'[t].reads = tx[t].reads
         /\ tx'[t].own = tx[t].own /\ tx'[t].kind = tx[t].kind
  <1>1. tx[t] \in TxStates
    BY DEF Tables
  <1>2. [tx[t] EXCEPT !.step = step] \in TxStates
    BY <1>1 DEF TxStates
  <1>3. tx' = [tx EXCEPT ![t] = [tx[t] EXCEPT !.step = step]]
    BY DEF Go
  <1>4. tx' \in [Txs -> TxStates] /\ Local(t) /\ tx'[t] = [tx[t] EXCEPT !.step = step]
    BY <1>2, <1>3, Replacing
  <1> QED
    BY <1>1, <1>4 DEF TxStates

\* A step that goes elsewhere and touches no table keeps what was seen.
LEMMA SameKept ==
  ASSUME NEW x \in TxStates, NEW y \in TxStates, Kept(x),
         y.out = x.out, y.chunk = x.chunk, y.left = x.left, y.reads = x.reads, y.own = x.own
  PROVE  Kept(y)
  BY DEF Kept

-----------------------------------------------------------------------------
(* One lemma for each action: the step is one of those above.              *)

\* Nothing of the file changes.
LEMMA Untouched ==
  ASSUME NEW t \in Txs, rows' = rows, reads' = reads,
         tx'[t].step \in Working => /\ tx[t].step \in Working
                                    /\ tx'[t].todo \cup tx'[t].chunk \subseteq tx[t].todo \cup tx[t].chunk
  PROVE  Writing(t) /\ Importing(t) /\ Listing(t)
  <1>1. Writing(t) /\ Importing(t)
    BY DEF Writing, Importing
  <1>2. Listing(t)
    BY DEF Listing
  <1> QED
    BY <1>1, <1>2

\* What a run covers, it still covers.
LEMMA StillCovers ==
  ASSUME NEW t \in Txs, Covers(t), rows' = rows,
         tx'[t].step \in Working => /\ tx[t].step \in Working
                                    /\ tx[t].todo \cup tx[t].chunk \subseteq tx'[t].todo \cup tx'[t].chunk
  PROVE  Covers(t)'
  BY DEF Covers, Recorded

LEMMA BeginStep ==
  ASSUME Inv, NEW t \in Txs, Begin(t) PROVE Step(t)
  <1>1. tx[t] \in TxStates /\ tx[t].step = "off" /\ t \in Runs /\ Go(t, "read") /\ "read" \in Steps
    BY DEF Inv, Tables, Begin, Steps
  <1>2. UNCHANGED <<job, rows, reads, shelf, held, faults>>
    BY DEF Begin
  <1>3. Tables /\ Mine(t)
    BY DEF Inv
  <1>4. /\ tx' \in [Txs -> TxStates] /\ Local(t) /\ tx'[t] \in TxStates
        /\ tx'[t].step = "read"
        /\ tx'[t].todo = tx[t].todo /\ tx'[t].chunk = tx[t].chunk /\ tx'[t].left = tx[t].left
        /\ tx'[t].found = tx[t].found /\ tx'[t].out = tx[t].out /\ tx'[t].reads = tx[t].reads
        /\ tx'[t].own = tx[t].own /\ tx'[t].kind = tx[t].kind
    BY <1>1, <1>3, Going
  <1>5. Tables'
    BY <1>2, <1>3, <1>4 DEF Tables
  <1>6. Proper(tx'[t])
    BY <1>1, <1>3, <1>4 DEF Mine, Proper, InTx
  <1>7. Kept(tx'[t])
    BY <1>1, <1>3, <1>4, SameKept DEF Mine
  <1>8. OfKind(t, tx'[t])
    BY <1>1, <1>3, <1>4, TxFacts DEF Mine, OfKind
  <1>9. Holds(t)'
    BY <1>1, <1>2, <1>3, <1>4, Unheld, EmptyHanded DEF Mine, Proper, InTx
  <1>10. Covers(t)' /\ Writing(t) /\ Importing(t) /\ Listing(t) /\ Ending
    BY <1>1, <1>2, <1>3, <1>4, StillCovers, Untouched DEF Mine, Working, InTx, Ending
  <1> QED
    BY <1>2, <1>3, <1>4, <1>5, <1>6, <1>7, <1>8, <1>9, <1>10, NotTaking DEF Step, Mine

\* Outside a transaction, a run goes from one step to the next.
LEMMA OutsideStep ==
  ASSUME Inv, NEW t \in Txs, NEW step \in {"mark", "done", "load"}, Go(t, step),
         tx[t].step \in {"read", "mark"},
         UNCHANGED <<rows, reads, shelf, held, faults>>, job' \in Jobs, Ending
  PROVE  Step(t)
  <1>1. tx[t] \in TxStates /\ step \in Steps
    BY DEF Inv, Tables, Steps
  <1>2. Tables /\ Mine(t)
    BY DEF Inv
  <1>3. /\ tx' \in [Txs -> TxStates] /\ Local(t) /\ tx'[t] \in TxStates
        /\ tx'[t].step = step
        /\ tx'[t].todo = tx[t].todo /\ tx'[t].chunk = tx[t].chunk /\ tx'[t].left = tx[t].left
        /\ tx'[t].found = tx[t].found /\ tx'[t].out = tx[t].out /\ tx'[t].reads = tx[t].reads
        /\ tx'[t].own = tx[t].own /\ tx'[t].kind = tx[t].kind
    BY <1>1, <1>2, Going
  <1>4. Tables'
    BY <1>2, <1>3 DEF Tables
  <1>5. Proper(tx'[t])
    BY <1>2, <1>3 DEF Mine, Proper, InTx
  <1>6. Kept(tx'[t])
    BY <1>1, <1>2, <1>3, SameKept DEF Mine
  <1>7. OfKind(t, tx'[t]) /\ t \in Runs
    BY <1>2, <1>3, TxFacts DEF Mine, OfKind, Txs
  <1>8. Holds(t)'
    BY <1>2, <1>3, <1>7, Unheld, EmptyHanded DEF Mine, Proper, InTx
  <1>9. Covers(t)' /\ Writing(t) /\ Importing(t) /\ Listing(t)
    BY <1>2, <1>3, StillCovers, Untouched DEF Mine, Working, InTx
  <1> QED
    BY <1>2, <1>3, <1>4, <1>5, <1>6, <1>7, <1>8, <1>9, NotTaking DEF Step, Mine

LEMMA ReadJobStep ==
  ASSUME Inv, NEW t \in Txs, ReadJob(t) PROVE Step(t)
  <1>1. PICK step \in {"mark", "done", "load"} : Go(t, step)
    BY DEF ReadJob
  <1> QED
    BY <1>1, OutsideStep DEF ReadJob, Ending, Inv, Tables

LEMMA MarkProcessingStep ==
  ASSUME Inv, NEW t \in Txs, MarkProcessing(t) PROVE Step(t)
  <1>1. job' \in Jobs /\ job'.state = "processing"
    BY DEF MarkProcessing, Inv, Tables, Jobs, JobStates
  <1> QED
    BY <1>1, OutsideStep DEF MarkProcessing, Ending

LEMMA LoadRowsStep ==
  ASSUME Inv, NEW t \in Txs, LoadRows(t) PROVE Step(t)
  <1> DEFINE new == {r \in RowNos : ~Recorded(r)}
             n == [tx[t] EXCEPT !.todo = new, !.step = "match"]
  <1>1. tx[t] \in TxStates /\ tx[t].step = "load"
    BY DEF Inv, Tables, LoadRows
  <1>2. Tables /\ Mine(t)
    BY DEF Inv
  <1>3. tx' = [tx EXCEPT ![t] = n] /\ UNCHANGED <<job, rows, reads, shelf, held, faults>>
    BY <1>2 DEF LoadRows, Tables
  <1>4. n \in TxStates
    BY <1>1 DEF TxStates, Steps
  <1>5. /\ tx' \in [Txs -> TxStates] /\ Local(t) /\ tx'[t] \in TxStates
        /\ tx'[t].step = "match" /\ tx'[t].todo = new
        /\ tx'[t].chunk = tx[t].chunk /\ tx'[t].left = tx[t].left
        /\ tx'[t].found = tx[t].found /\ tx'[t].out = tx[t].out /\ tx'[t].reads = tx[t].reads
        /\ tx'[t].own = tx[t].own /\ tx'[t].kind = tx[t].kind
    <2>1. tx'[t] = n /\ tx' \in [Txs -> TxStates] /\ Local(t)
      BY <1>2, <1>3, <1>4, Replacing
    <2> QED
      BY <1>1, <1>4, <2>1 DEF TxStates
  <1>6. Tables'
    BY <1>2, <1>3, <1>5 DEF Tables
  <1>7. Proper(tx'[t])
    BY <1>1, <1>2, <1>5 DEF Mine, Proper, InTx
  <1>8. Kept(tx'[t])
    BY <1>1, <1>2, <1>5, SameKept DEF Mine
  <1>9. OfKind(t, tx'[t]) /\ t \in Runs
    BY <1>1, <1>2, <1>5, TxFacts DEF Mine, OfKind, Txs
  <1>10. Holds(t)'
    BY <1>1, <1>2, <1>3, <1>5, <1>9, Unheld, EmptyHanded DEF Mine, Proper, InTx
  <1>11. tx'[t].chunk = {}
    BY <1>7, <1>5 DEF Proper
  <1>12. Covers(t)' /\ Writing(t) /\ Importing(t) /\ Listing(t) /\ Ending
    BY <1>3, <1>5, <1>11 DEF Covers, Recorded, Writing, Importing, Listing, Ending
  <1> QED
    BY <1>2, <1>3, <1>5, <1>6, <1>7, <1>8, <1>9, <1>10, <1>12, NotTaking DEF Step, Mine

LEMMA OffFacts == Absent \in Outcomes /\ Off.out = [r \in RowNos |-> Absent] /\ Off \in TxStates
  <1>1. Absent \in Outcomes
    BY DEF Absent, Outcomes
  <1>2. Off.out = [r \in RowNos |-> Absent]
    BY DEF Off
  <1>3. 0 \in Tallies
    BY RowSets DEF Tallies
  <1> QED
    BY <1>1, <1>2, <1>3 DEF Off, TxStates, Steps

\* With nothing on its list, a run goes on to the total.
LEMMA TotalStep ==
  ASSUME Inv, NEW t \in Txs, tx[t].step = "match", tx[t].todo = {}, Go(t, "total"),
         UNCHANGED <<job, rows, reads, shelf, held, faults>>
  PROVE  Step(t)
  <1>1. tx[t] \in TxStates /\ "total" \in Steps
    BY DEF Inv, Tables, Steps
  <1>2. Tables /\ Mine(t)
    BY DEF Inv
  <1>3. /\ tx' \in [Txs -> TxStates] /\ Local(t) /\ tx'[t] \in TxStates
        /\ tx'[t].step = "total"
        /\ tx'[t].todo = tx[t].todo /\ tx'[t].chunk = tx[t].chunk /\ tx'[t].left = tx[t].left
        /\ tx'[t].found = tx[t].found /\ tx'[t].out = tx[t].out /\ tx'[t].reads = tx[t].reads
        /\ tx'[t].own = tx[t].own /\ tx'[t].kind = tx[t].kind
    BY <1>1, <1>2, Going
  <1>4. Tables'
    BY <1>2, <1>3 DEF Tables
  <1>5. Proper(tx'[t])
    BY <1>2, <1>3 DEF Mine, Proper, InTx
  <1>6. Kept(tx'[t])
    BY <1>1, <1>2, <1>3, SameKept DEF Mine
  <1>7. OfKind(t, tx'[t]) /\ t \in Runs
    BY <1>2, <1>3, TxFacts DEF Mine, OfKind, Txs
  <1>8. Holds(t)'
    BY <1>2, <1>3, <1>7, Unheld, EmptyHanded DEF Mine, Proper, InTx
  <1>9. Covers(t)' /\ Writing(t) /\ Importing(t) /\ Listing(t) /\ Ending
    BY <1>2, <1>3, StillCovers, Untouched DEF Mine, Working, InTx, Ending
  <1> QED
    BY <1>2, <1>3, <1>4, <1>5, <1>6, <1>7, <1>8, <1>9, NotTaking DEF Step, Mine

Chunked(t, c, found) ==
    tx' = [tx EXCEPT ![t].todo = @ \ c, ![t].chunk = c, ![t].left = c, ![t].found = found,
                     ![t].isolate = FALSE, ![t].out = Off.out, ![t].step = "row"]

LEMMA ChunkStep ==
  ASSUME Inv, NEW t \in Txs, tx[t].step = "match", tx[t].todo # {},
         NEW found \in [RowNos -> Works \cup {NoWork}], NEW c, c = NextChunk(tx[t].todo),
         Chunked(t, c, found), UNCHANGED <<job, rows, reads, shelf, held, faults>>
  PROVE  Step(t)
  <1> DEFINE n == [tx[t] EXCEPT !.todo = @ \ c, !.chunk = c, !.left = c, !.found = found,
                                !.isolate = FALSE, !.out = Off.out, !.step = "row"]
  <1>1. tx[t] \in TxStates /\ Tables /\ Mine(t)
    BY DEF Inv, Tables
  <1>2. c \subseteq tx[t].todo /\ c # {}
    BY <1>1, NextChunkIn DEF TxStates
  <1>3. tx' = [tx EXCEPT ![t] = n]
    BY <1>1 DEF Tables, Chunked
  <1>4. n \in TxStates
    BY <1>1, <1>2, OffFacts DEF TxStates, Steps
  <1>5. /\ tx' \in [Txs -> TxStates] /\ Local(t) /\ tx'[t] \in TxStates
        /\ tx'[t].step = "row" /\ tx'[t].todo = tx[t].todo \ c
        /\ tx'[t].chunk = c /\ tx'[t].left = c /\ tx'[t].out = [r \in RowNos |-> Absent]
        /\ tx'[t].reads = tx[t].reads /\ tx'[t].own = tx[t].own /\ tx'[t].kind = tx[t].kind
    <2>1. tx'[t] = n /\ tx' \in [Txs -> TxStates] /\ Local(t)
      BY <1>1, <1>3, <1>4, Replacing
    <2>2. /\ n.step = "row" /\ n.todo = tx[t].todo \ c /\ n.chunk = c /\ n.left = c /\ n.out = Off.out
          /\ n.reads = tx[t].reads /\ n.own = tx[t].own /\ n.kind = tx[t].kind
      BY <1>1 DEF TxStates
    <2>3. Off.out = [r \in RowNos |-> Absent]
      BY OffFacts
    <2> QED
      BY <1>4, <2>1, <2>2, <2>3
  <1>6. tx[t].reads = {} /\ tx[t].own = {} /\ tx[t].chunk = {}
    BY <1>1 DEF Mine, Proper, InTx
  <1>7. Tables'
    BY <1>1, <1>5 DEF Tables
  <1>8. Proper(tx'[t])
    BY <1>2, <1>5, <1>6 DEF Proper, InTx
  <1>9. Kept(tx'[t])
    <2>1. tx'[t].reads \ tx'[t].own = {} /\ tx'[t].chunk \ tx'[t].left = {}
      BY <1>5, <1>6
    <2>2. \A r \in RowNos : tx'[t].out[r] = Absent
      BY <1>5
    <2> QED
      BY <2>1, <2>2 DEF Kept
  <1>10. OfKind(t, tx'[t]) /\ t \in Runs
    BY <1>1, <1>5, TxFacts DEF Mine, OfKind, Txs
  <1>11. Holds(t)'
    <2>1. \A l \in Locks : held'[l] # t
      BY <1>1, Unheld DEF InTx
    <2> QED
      BY <1>5, <1>6, <1>10, <2>1, EmptyHanded
  <1>12. Covers(t)'
    <2>1. Covers(t) /\ rows' = rows /\ tx[t].step \in Working
      BY <1>1 DEF Mine, Working
    <2>2. tx[t].todo \cup tx[t].chunk \subseteq tx'[t].todo \cup tx'[t].chunk
      BY <1>5, <1>6
    <2> QED
      BY <2>1, <2>2, StillCovers
  <1>13. Writing(t) /\ Importing(t) /\ Listing(t) /\ Ending
    BY <1>2, <1>5, Untouched DEF Working, InTx, Ending
  <1> QED
    BY <1>1, <1>5, <1>7, <1>8, <1>9, <1>10, <1>11, <1>12, <1>13, NotTaking DEF Step, Mine

LEMMA MatchChunkStep ==
  ASSUME Inv, NEW t \in Txs, MatchChunk(t) PROVE Step(t)
  <1>1. CASE tx[t].todo = {} /\ Go(t, "total")
    BY <1>1, TotalStep DEF MatchChunk
  <1>2. CASE tx[t].todo # {} /\ ~(tx[t].todo = {} /\ Go(t, "total"))
    <2> DEFINE c == NextChunk(tx[t].todo)
    <2>1. PICK found \in [RowNos -> Works \cup {NoWork}] :
             Chunked(t, c, found)
      BY <1>2 DEF MatchChunk, Chunked
    <2> QED
      BY <1>2, <2>1, ChunkStep DEF MatchChunk
  <1> QED
    BY <1>1, <1>2 DEF MatchChunk

-----------------------------------------------------------------------------
(* The rows of a chunk.                                                    *)

\* From x to n, row r has got its outcome.
Passed(x, n, r, outcome) ==
    /\ n.out = [x.out EXCEPT ![r] = outcome] /\ n.left = x.left \ {r} /\ n.own = {}
    /\ n.chunk = x.chunk /\ n.todo = x.todo /\ n.found = x.found /\ n.kind = x.kind
    /\ \/ x.left # {r} /\ n.step = "row"
       \/ x.left = {r} /\ x.kind = "run" /\ n.step = "record"
       \/ x.left = {r} /\ x.kind # "run" /\ n.step = "count"

LEMMA AfterRowPasses ==
  ASSUME NEW t \in Txs, tx[t] \in TxStates, NEW r \in RowNos, NEW outcome \in Outcomes
  PROVE  /\ AfterRow(t, r, outcome) \in TxStates
         /\ AfterRow(t, r, outcome).reads = tx[t].reads
         /\ Passed(tx[t], AfterRow(t, r, outcome), r, outcome)
  <1> DEFINE next == IF tx[t].left # {r} THEN "row" ELSE IF tx[t].kind = "run" THEN "record" ELSE "count"
             n == [tx[t] EXCEPT !.out[r] = outcome, !.left = @ \ {r}, !.own = {}, !.step = next]
  <1>1. n = AfterRow(t, r, outcome)
    BY DEF AfterRow
  <1>2. next \in Steps
    BY DEF Steps
  <1>3. /\ n.out = [tx[t].out EXCEPT ![r] = outcome] /\ n.left = tx[t].left \ {r} /\ n.own = {}
        /\ n.chunk = tx[t].chunk /\ n.todo = tx[t].todo /\ n.found = tx[t].found /\ n.kind = tx[t].kind
        /\ n.reads = tx[t].reads /\ n.step = next
    BY DEF TxStates
  <1>4. [tx[t].out EXCEPT ![r] = outcome] \in [RowNos -> Outcomes]
    BY DEF TxStates
  <1>5. n = [tx[t] EXCEPT !.out = [tx[t].out EXCEPT ![r] = outcome], !.left = tx[t].left \ {r}, !.own = {}, !.step = next]
    OBVIOUS
  <1>6. n \in TxStates
    BY <1>2, <1>4, <1>5 DEF TxStates
  <1>7. Passed(tx[t], n, r, outcome)
    BY <1>3 DEF Passed
  <1> QED
    BY <1>1, <1>3, <1>6, <1>7

LEMMA PassedProper ==
  ASSUME NEW x \in TxStates, NEW n \in TxStates, NEW r \in x.left, NEW outcome \in Outcomes,
         Proper(x), Kept(x), Passed(x, n, r, outcome), x.step \in {"row", "insert", "tag"},
         outcome.state # "none", \A w \in n.reads : w \in x.reads \ x.own \/ outcome = Made(w)
  PROVE  Proper(n) /\ Kept(n)
  <1>1. r \in RowNos /\ r \in x.chunk /\ x.left \subseteq x.chunk /\ x.todo \cap x.chunk = {}
    BY DEF TxStates, Proper
  <1>2. n.left \subseteq n.chunk /\ n.todo \cap n.chunk = {} /\ n.own = {} /\ n.chunk # {}
    BY <1>1 DEF Passed
  <1>3. n.step = "row" => n.left # {}
    BY DEF Passed
  <1>4. n.step \in {"record", "count"} => n.left = {}
    BY DEF Passed
  <1>5. n.step \in {"row", "record", "count"}
    BY DEF Passed
  <1>6. Proper(n)
    BY <1>2, <1>3, <1>4, <1>5 DEF Proper, InTx
  <1>7. outcome # Absent
    BY DEF Absent
  <1>8. n.chunk \ n.left = (x.chunk \ x.left) \cup {r}
    BY <1>1 DEF Passed
  <1>9. n.out[r] = outcome /\ \A q \in RowNos : q # r => n.out[q] = x.out[q]
    BY <1>1 DEF Passed, TxStates
  <1>10. x.chunk \subseteq RowNos
    BY DEF TxStates
  <1>11. \A q \in RowNos : n.out[q] = Absent \/ n.out[q].state # "none"
    BY <1>9 DEF Kept
  <1>12. \A q \in n.chunk \ n.left : n.out[q] # Absent
    BY <1>7, <1>8, <1>9, <1>10 DEF Kept
  <1>13. \A w \in n.reads \ n.own : \E q \in n.chunk \ n.left : n.out[q] = Made(w)
    <2>1. SUFFICES ASSUME NEW w \in n.reads PROVE \E q \in n.chunk \ n.left : n.out[q] = Made(w)
      OBVIOUS
    <2>2. CASE outcome = Made(w)
      BY <2>2, <1>8, <1>9
    <2>3. CASE w \in x.reads \ x.own
      <3>1. PICK q \in x.chunk \ x.left : x.out[q] = Made(w)
        BY <2>3 DEF Kept
      <3> QED
        BY <3>1, <1>8, <1>9, <1>10
    <2> QED
      BY <2>1, <2>2, <2>3
  <1> QED
    BY <1>6, <1>11, <1>12, <1>13 DEF Kept

\* The locks of a transaction that goes on with its rows.
LEMMA HoldsOn ==
  ASSUME NEW t \in Txs, Holds(t), tx[t].step \in {"row", "insert", "tag"}, rows' = rows,
         tx'[t].step \in InTx \ {"commit"}, tx'[t].step = "count" => t \in Requests,
         tx'[t].chunk = tx[t].chunk, tx[t].chunk \in SUBSET RowNos,
         \A w \in tx'[t].reads : held'[w] = t,
         \A r \in RowNos : held'[RowLock(r)] = t <=> held[RowLock(r)] = t
  PROVE  Holds(t)'
  <1>1. \A r \in RowNos : held'[RowLock(r)] = t => t \in Requests /\ rows'[r].state \in Open
    BY DEF Holds
  <1>2. t \in Runs => tx'[t].step \notin {"count", "commit"}
    BY TxFacts DEF InTx
  <1>3. t \in Requests => \A r \in tx[t].chunk : held[RowLock(r)] = t
    BY DEF Holds, InTx
  <1>4. t \in Requests => \A r \in tx[t].chunk : r \in RowNos => held'[RowLock(r)] = t
    BY <1>3
  <1>5. \A l \in Locks : held'[l] = t => tx'[t].step \in InTx
    OBVIOUS
  <1>6. t \in Requests => \A r \in tx'[t].chunk : held'[RowLock(r)] = t
    BY <1>4
  <1> QED
    BY <1>1, <1>2, <1>5, <1>6 DEF Holds

\* Row r has its outcome; the locks changed only by those of works and shelves.
LEMMA PassedStep ==
  ASSUME Inv, NEW t \in Txs, tx[t].step \in {"row", "insert", "tag"},
         NEW n \in TxStates, tx' = [tx EXCEPT ![t] = n],
         NEW r \in tx[t].left, NEW outcome \in Outcomes, Passed(tx[t], n, r, outcome),
         outcome.state # "none", \A w \in n.reads : w \in tx[t].reads \ tx[t].own \/ outcome = Made(w),
         held' \in [Locks -> Txs \cup {Nobody}], Locking(t),
         \A w \in n.reads : held'[w] = t,
         \A q \in RowNos : held'[RowLock(q)] = t <=> held[RowLock(q)] = t,
         UNCHANGED <<job, rows, reads, shelf, faults>>
  PROVE  Step(t)
  <1>1. tx[t] \in TxStates /\ Tables /\ Mine(t)
    BY DEF Inv, Tables
  <1>2. tx' \in [Txs -> TxStates] /\ Local(t) /\ tx'[t] = n
    BY <1>1, Replacing
  <1>3. Tables'
    BY <1>1, <1>2 DEF Tables
  <1>4. Proper(tx'[t]) /\ Kept(tx'[t])
    BY <1>1, <1>2, PassedProper DEF Mine
  <1>5. n.step \in {"row", "record", "count"} /\ (n.step = "count" => t \in Requests)
        /\ (n.step = "record" => t \in Runs) /\ n.chunk = tx[t].chunk /\ n.todo = tx[t].todo /\ n.kind = tx[t].kind
    <2>1. t \in Runs => tx[t].kind = "run"
      BY <1>1 DEF Mine, OfKind
    <2>2. t \in Requests => tx[t].kind # "run"
      BY <1>1 DEF Mine, OfKind
    <2> QED
      BY <2>1, <2>2, TxFacts DEF Passed, Txs
  <1>6. OfKind(t, tx'[t])
    BY <1>1, <1>2, <1>5, TxFacts DEF Mine, OfKind
  <1>7. Holds(t)'
    <2>1. tx[t].chunk \in SUBSET RowNos /\ Holds(t) /\ tx'[t].step \in InTx \ {"commit"} /\ tx'[t].chunk = tx[t].chunk
      BY <1>1, <1>2, <1>5 DEF TxStates, Mine, InTx
    <2>2. \A w \in tx'[t].reads : held'[w] = t
      BY <1>2
    <2>3. tx'[t].step = "count" => t \in Requests
      BY <1>2, <1>5
    <2> QED
      BY <2>1, <2>2, <2>3, HoldsOn
  <1>8. Covers(t)' /\ Writing(t) /\ Importing(t) /\ Listing(t)
    <2>1. Covers(t) /\ tx[t].step \in Working /\ tx'[t].todo \cup tx'[t].chunk = tx[t].todo \cup tx[t].chunk
      BY <1>1, <1>2, <1>5 DEF Mine, Working, InTx
    <2> QED
      BY <2>1, StillCovers, Untouched
  <1> QED
    BY <1>2, <1>3, <1>4, <1>6, <1>7, <1>8 DEF Step, Mine, Ending

\* From a row to the wait for its locks: what is read and made, n.own and n.reads.
LEMMA WaitingStep ==
  ASSUME Inv, NEW t \in Txs, tx[t].step \in {"row", "insert"},
         NEW n \in TxStates, tx' = [tx EXCEPT ![t] = n],
         n.step \in {"insert", "tag"}, n.found[Lowest(n.left)] \in Works,
         n.todo = tx[t].todo, n.chunk = tx[t].chunk, n.left = tx[t].left, n.found = tx[t].found,
         n.out = tx[t].out, n.kind = tx[t].kind, n.reads = tx[t].reads \cup n.own,
         n.own = (IF n.step = "tag" THEN {n.found[Lowest(n.left)]} ELSE {}),
         held' \in [Locks -> Txs \cup {Nobody}], Locking(t),
         \A w \in n.reads : held'[w] = t,
         \A q \in RowNos : held'[RowLock(q)] = t <=> held[RowLock(q)] = t,
         UNCHANGED <<job, rows, reads, shelf, faults>>
  PROVE  Step(t)
  <1>1. tx[t] \in TxStates /\ Tables /\ Mine(t)
    BY DEF Inv, Tables
  <1>2. tx' \in [Txs -> TxStates] /\ Local(t) /\ tx'[t] = n
    BY <1>1, Replacing
  <1>3. Tables'
    BY <1>1, <1>2 DEF Tables
  <1>4. Proper(n)
    BY <1>1 DEF Mine, Proper, InTx
  <1>5. Kept(n)
    <2>1. tx[t].own = {}
      BY <1>1 DEF Mine, Proper
    <2>2. n.reads \ n.own \subseteq tx[t].reads \ tx[t].own
      BY <2>1
    <2> QED
      BY <1>1, <2>2 DEF Mine, Kept
  <1>6. OfKind(t, n)
    BY <1>1, TxFacts DEF Mine, OfKind
  <1>7. t \in Requests => n.step \in InTx
    BY DEF InTx
  <1>8. OfKind(t, tx'[t]) /\ Proper(tx'[t]) /\ Kept(tx'[t])
    BY <1>2, <1>4, <1>5, <1>6
  <1>9. Holds(t)'
    <2>1. tx[t].chunk \in SUBSET RowNos /\ Holds(t) /\ tx'[t].step \in InTx \ {"commit"} /\ tx'[t].chunk = tx[t].chunk
      BY <1>1, <1>2 DEF TxStates, Mine, InTx
    <2>2. \A w \in tx'[t].reads : held'[w] = t
      BY <1>2
    <2>3. tx'[t].step # "count" /\ tx[t].step \in {"row", "insert", "tag"}
      BY <1>2
    <2> QED
      BY <2>1, <2>2, <2>3, HoldsOn
  <1>10. Covers(t)' /\ Writing(t) /\ Importing(t) /\ Listing(t)
    <2>1. Covers(t) /\ tx[t].step \in Working /\ tx'[t].todo \cup tx'[t].chunk = tx[t].todo \cup tx[t].chunk
      BY <1>1, <1>2 DEF Mine, Working, InTx
    <2> QED
      BY <2>1, StillCovers, Untouched
  <1> QED
    BY <1>2, <1>3, <1>8, <1>9, <1>10 DEF Step, Mine, Ending

\* The row a transaction is at.
LEMMA AtRow ==
  ASSUME Inv, NEW t \in Txs, tx[t].step \in {"row", "insert", "tag"}
  PROVE  /\ Lowest(tx[t].left) \in tx[t].left /\ Lowest(tx[t].left) \in RowNos
         /\ tx[t] \in TxStates /\ tx[t].found[Lowest(tx[t].left)] \in Works \cup {NoWork}
         /\ tx[t].step # "row" => tx[t].found[Lowest(tx[t].left)] \in Works
  <1>1. tx[t] \in TxStates /\ Mine(t)
    BY DEF Inv, Tables
  <1>2. tx[t].left # {} /\ tx[t].left \in SUBSET RowNos
    BY <1>1 DEF Mine, Proper, TxStates
  <1>3. Lowest(tx[t].left) \in tx[t].left
    BY <1>2, LowestIn
  <1>4. tx[t].step # "row" => tx[t].found[Lowest(tx[t].left)] \in Works
    BY <1>1 DEF Mine, Proper
  <1>5. tx[t].found \in [RowNos -> Works \cup {NoWork}]
    BY <1>1 DEF TxStates
  <1> QED
    BY <1>1, <1>2, <1>3, <1>4, <1>5

LEMMA OutcomeTypes ==
  /\ \A w \in Works \cup {NoWork} : [state |-> "unmatched", work |-> w, why |-> "commit_failed"] \in Outcomes
  /\ [state |-> "unmatched", work |-> NoWork, why |-> "no_match"] \in Outcomes
  /\ \A w \in Works : \A s \in Settled : [state |-> s, work |-> w, why |-> "already_in_library"] \in Outcomes
  /\ \A w \in Works : Made(w) \in Outcomes /\ Made(w).state = "resolved"
  BY DEF Outcomes, Made, Settled

\* A row is done without a read.
LEMMA PassingBy ==
  ASSUME Inv, NEW t \in Txs, tx[t].step = "row", NEW outcome \in Outcomes, outcome.state # "none",
         tx' = [tx EXCEPT ![t] = AfterRow(t, Lowest(tx[t].left), outcome)],
         UNCHANGED <<job, rows, reads, shelf, held, faults>>
  PROVE  Step(t)
  <1> DEFINE r == Lowest(tx[t].left)
             n == AfterRow(t, r, outcome)
  <1>1. r \in tx[t].left /\ r \in RowNos /\ tx[t] \in TxStates /\ Tables /\ Mine(t)
    BY AtRow DEF Inv
  <1>2. n \in TxStates /\ n.reads = tx[t].reads /\ Passed(tx[t], n, r, outcome)
    BY <1>1, AfterRowPasses
  <1>3. tx[t].own = {} /\ \A w \in tx[t].reads : held[w] = t
    BY <1>1 DEF Mine, Proper, Holds
  <1> HIDE DEF n
  <1>4. tx' = [tx EXCEPT ![t] = n]
    BY DEF n
  <1>5. \A w \in n.reads : held'[w] = t /\ w \in tx[t].reads \ tx[t].own
    BY <1>2, <1>3
  <1>6. held' \in [Locks -> Txs \cup {Nobody}] /\ Locking(t)
    BY <1>1, NotTaking
  <1>7. /\ \A w \in n.reads : held'[w] = t
        /\ \A w \in n.reads : w \in tx[t].reads \ tx[t].own \/ outcome = Made(w)
        /\ \A q \in RowNos : held'[RowLock(q)] = t <=> held[RowLock(q)] = t
    BY <1>5
  <1> HIDE DEF r
  <1> QED
    BY <1>1, <1>2, <1>4, <1>6, <1>7, PassedStep

LEMMA LookRowStep ==
  ASSUME Inv, NEW t \in Txs, LookRow(t) PROVE Step(t)
  <1> DEFINE r == Lowest(tx[t].left)
             w == tx[t].found[r]
  <1>1. /\ tx[t].step = "row" /\ UNCHANGED <<job, rows, reads, shelf, held, faults>>
        /\ tx[t] \in TxStates /\ w \in Works \cup {NoWork} /\ r \in tx[t].left
    BY AtRow DEF LookRow
  <1>2. CASE w = NoWork
    <2>1. tx' = [tx EXCEPT ![t] = AfterRow(t, r, [state |-> "unmatched", work |-> NoWork, why |-> "no_match"])]
      BY <1>2 DEF LookRow
    <2> QED
      BY <1>1, <2>1, OutcomeTypes, PassingBy
  <1>3. CASE w # NoWork /\ Look(t, w)
    <2> DEFINE s == IF tx[t].kind = "run" THEN "matched" ELSE "resolved"
    <2>1. tx' = [tx EXCEPT ![t] = AfterRow(t, r, [state |-> s, work |-> w, why |-> "already_in_library"])]
      BY <1>3 DEF LookRow
    <2>2. s \in Settled /\ s # "none"
      BY DEF Settled
    <2>3. [state |-> s, work |-> w, why |-> "already_in_library"] \in Outcomes
      BY <1>1, <1>3, <2>2, OutcomeTypes
    <2> QED
      BY <1>1, <2>1, <2>2, <2>3, PassingBy
  <1>4. CASE w # NoWork /\ ~Look(t, w)
    <2> DEFINE n == [tx[t] EXCEPT !.step = "insert"]
    <2>1. tx' = [tx EXCEPT ![t] = n]
      BY <1>4 DEF LookRow
    <2>2. /\ n \in TxStates /\ n.step = "insert"
          /\ n.todo = tx[t].todo /\ n.chunk = tx[t].chunk /\ n.left = tx[t].left /\ n.found = tx[t].found
          /\ n.out = tx[t].out /\ n.kind = tx[t].kind /\ n.reads = tx[t].reads /\ n.own = tx[t].own
      BY <1>1 DEF TxStates, Steps
    <2>3. Tables /\ tx[t].own = {} /\ \A v \in tx[t].reads : held[v] = t
      BY <1>1 DEF Inv, Mine, Proper, Holds
    <2> HIDE DEF n
    <2>4. /\ n.own = (IF n.step = "tag" THEN {n.found[Lowest(n.left)]} ELSE {})
          /\ n.reads = tx[t].reads \cup n.own /\ n.found[Lowest(n.left)] \in Works
          /\ \A v \in n.reads : held'[v] = t
      BY <1>1, <1>4, <2>2, <2>3
    <2> QED
      BY <1>1, <2>1, <2>2, <2>3, <2>4, NotTaking, WaitingStep
  <1> QED
    BY <1>2, <1>3, <1>4

\* Only a work or a shelf is locked: what is known of the rows' locks stays.
LEMMA TakingWork ==
  ASSUME NEW t \in Txs, Tables, NEW l \in Works \cup {TagLock}, held' = Taken(t, {l}), Free(t, l)
  PROVE  /\ held' \in [Locks -> Txs \cup {Nobody}] /\ Locking(t)
         /\ \A k \in Locks : held[k] = t => held'[k] = t
         /\ held'[l] = t
         /\ \A q \in RowNos : held'[RowLock(q)] = t <=> held[RowLock(q)] = t
  <1>1. l \in Locks /\ \A q \in RowNos : RowLock(q) # l /\ RowLock(q) \in Locks
    BY LockFacts
  <1>2. /\ held' \in [Locks -> Txs \cup {Nobody}] /\ Locking(t)
        /\ \A k \in Locks : held'[k] = t <=> held[k] = t \/ k \in {l}
    BY <1>1, Taking
  <1> QED
    BY <1>1, <1>2

LEMMA InsertReadStep ==
  ASSUME Inv, NEW t \in Txs, InsertRead(t) PROVE Step(t)
  <1> DEFINE r == Lowest(tx[t].left)
             w == tx[t].found[r]
             with == [tx[t] EXCEPT !.reads = @ \cup {w}, !.own = {w}]
  <1>1. /\ tx[t].step = "insert" /\ UNCHANGED <<job, rows, reads, shelf, faults>>
        /\ tx[t] \in TxStates /\ w \in Works /\ r \in tx[t].left /\ r \in RowNos
        /\ held' = Taken(t, {w}) /\ Free(t, w)
    BY AtRow DEF InsertRead
  <1>2. /\ held' \in [Locks -> Txs \cup {Nobody}] /\ Locking(t)
        /\ \A k \in Locks : held[k] = t => held'[k] = t
        /\ held'[w] = t
        /\ \A q \in RowNos : held'[RowLock(q)] = t <=> held[RowLock(q)] = t
    BY <1>1, TakingWork DEF Inv
  <1>3. tx[t].own = {} /\ tx[t].reads \subseteq Locks /\ \A v \in tx[t].reads : held[v] = t
    BY <1>1, LockFacts DEF Inv, Mine, Proper, Holds, TxStates
  <1>4. \A v \in tx[t].reads \cup {w} : held'[v] = t
    BY <1>2, <1>3
  <1>5. CASE r \in Tagged /\ ~TagFound(t)
    <2> DEFINE n == [with EXCEPT !.step = "tag"]
    <2>1. tx' = [tx EXCEPT ![t] = n]
      BY <1>5 DEF InsertRead
    <2>2. n = [tx[t] EXCEPT !.reads = tx[t].reads \cup {w}, !.own = {w}, !.step = "tag"]
      OBVIOUS
    <2>3. tx[t].reads \cup {w} \in SUBSET Works /\ {w} \in SUBSET Works
      BY <1>1 DEF TxStates
    <2>4. /\ n \in TxStates /\ n.step = "tag"
          /\ n.todo = tx[t].todo /\ n.chunk = tx[t].chunk /\ n.left = tx[t].left /\ n.found = tx[t].found
          /\ n.out = tx[t].out /\ n.kind = tx[t].kind /\ n.reads = tx[t].reads \cup {w} /\ n.own = {w}
      BY <1>1, <2>2, <2>3 DEF TxStates, Steps
    <2> HIDE DEF n
    <2>5. /\ n.own = (IF n.step = "tag" THEN {n.found[Lowest(n.left)]} ELSE {})
          /\ n.reads = tx[t].reads \cup n.own /\ n.found[Lowest(n.left)] \in Works
          /\ \A v \in n.reads : held'[v] = t
      BY <1>1, <1>4, <2>4
    <2> HIDE DEF r
    <2> QED
      BY <1>1, <1>2, <2>1, <2>4, <2>5, WaitingStep
  <1>6. CASE ~(r \in Tagged /\ ~TagFound(t))
    <2> DEFINE m == AfterRow(t, r, Committed(t, r))
               n == [m EXCEPT !.reads = with.reads]
    <2>1. tx' = [tx EXCEPT ![t] = n]
      BY <1>6 DEF InsertRead
    <2>2. Committed(t, r) = Made(w) /\ Made(w) \in Outcomes /\ Made(w).state = "resolved"
      BY <1>1, OutcomeTypes DEF Committed, Made
    <2>3. m \in TxStates /\ m.reads = tx[t].reads /\ Passed(tx[t], m, r, Made(w))
      BY <1>1, <2>2, AfterRowPasses
    <2>4. with.reads = tx[t].reads \cup {w} /\ with.reads \in SUBSET Works
      BY <1>1 DEF TxStates
    <2> HIDE DEF m, with
    <2>5. n \in TxStates /\ n.reads = tx[t].reads \cup {w}
      BY <2>3, <2>4 DEF TxStates
    <2>6. Passed(tx[t], n, r, Made(w))
      <3>1. /\ n.out = m.out /\ n.left = m.left /\ n.own = m.own /\ n.chunk = m.chunk
            /\ n.todo = m.todo /\ n.found = m.found /\ n.kind = m.kind /\ n.step = m.step
        BY <2>3 DEF TxStates
      <3> HIDE DEF n, r
      <3> QED
        BY <2>3, <3>1 DEF Passed
    <2> HIDE DEF n
    <2>7. /\ \A v \in n.reads : held'[v] = t
          /\ \A v \in n.reads : v \in tx[t].reads \ tx[t].own \/ Made(w) = Made(v)
      BY <1>3, <1>4, <2>5
    <2> HIDE DEF r
    <2> QED
      BY <1>1, <1>2, <2>1, <2>2, <2>5, <2>6, <2>7, PassedStep
  <1> QED
    BY <1>5, <1>6

LEMMA MakeShelfStep ==
  ASSUME Inv, NEW t \in Txs, MakeShelf(t) PROVE Step(t)
  <1> DEFINE r == Lowest(tx[t].left)
             w == tx[t].found[r]
             more == IF shelf + tx[t].shelves < ShelfRoom THEN 1 ELSE 0
             m == AfterRow(t, r, Committed(t, r))
             n == [m EXCEPT !.shelves = @ + more]
  <1>1. /\ tx[t].step = "tag" /\ UNCHANGED <<job, rows, reads, shelf, faults>>
        /\ tx[t] \in TxStates /\ w \in Works /\ r \in tx[t].left /\ r \in RowNos
        /\ held' = Taken(t, {TagLock}) /\ Free(t, TagLock)
    BY AtRow DEF MakeShelf
  <1>2. /\ held' \in [Locks -> Txs \cup {Nobody}] /\ Locking(t)
        /\ \A k \in Locks : held[k] = t => held'[k] = t
        /\ \A q \in RowNos : held'[RowLock(q)] = t <=> held[RowLock(q)] = t
    BY <1>1, TakingWork DEF Inv
  <1>3. tx[t].own = {w} /\ tx[t].reads \subseteq Locks /\ \A v \in tx[t].reads : held[v] = t
    BY <1>1, LockFacts DEF Inv, Mine, Proper, Holds, TxStates
  <1>4. tx' = [tx EXCEPT ![t] = n]
    BY DEF MakeShelf
  <1>5. Committed(t, r) = Made(w) /\ Made(w) \in Outcomes /\ Made(w).state = "resolved"
    BY <1>1, OutcomeTypes DEF Committed, Made
  <1>6. m \in TxStates /\ m.reads = tx[t].reads /\ Passed(tx[t], m, r, Made(w))
    BY <1>1, <1>5, AfterRowPasses
  <1> HIDE DEF m
  <1>7. more \in Nat /\ m.shelves \in Nat
    BY <1>6 DEF TxStates
  <1> HIDE DEF more
  <1>8. n \in TxStates /\ n.reads = tx[t].reads
    BY <1>6, <1>7 DEF TxStates
  <1>9. Passed(tx[t], n, r, Made(w))
    <2>1. /\ n.out = m.out /\ n.left = m.left /\ n.own = m.own /\ n.chunk = m.chunk
          /\ n.todo = m.todo /\ n.found = m.found /\ n.kind = m.kind /\ n.step = m.step
      BY <1>6 DEF TxStates
    <2> HIDE DEF n, r
    <2> QED
      BY <1>6, <2>1 DEF Passed
  <1> HIDE DEF n
  <1>10. /\ \A v \in n.reads : held'[v] = t
         /\ \A v \in n.reads : v \in tx[t].reads \ tx[t].own \/ Made(w) = Made(v)
    BY <1>2, <1>3, <1>8
  <1> HIDE DEF r
  <1> QED
    BY <1>1, <1>2, <1>4, <1>5, <1>8, <1>9, <1>10, PassedStep

-----------------------------------------------------------------------------
(* Refusals and ends.                                                      *)

\* Who has locked a row waits for nothing, so nobody is refused for a row's lock.
LEMMA RefusedAtRow ==
  ASSUME Inv, NEW t \in Txs, Refusable(t)
  PROVE  tx[t].step \in {"insert", "tag"}
  <1>1. SUFFICES ASSUME tx[t].step \notin {"insert", "tag"} PROVE FALSE
    OBVIOUS
  <1>2. PICK S \in SUBSET Txs : t \in S /\ \A u \in S : WaitsFor(u) \cap S # {}
    BY <1>1 DEF Refusable, Deadlocked
  <1>3. tx[t].step = "record"
    BY <1>1, <1>2 DEF WaitsFor, Wanted
  <1>4. PICK v \in S : v \in WaitsFor(t)
    BY <1>2
  <1>5. v \in Txs /\ v \in {held[l] : l \in {RowLock(r) : r \in {q \in tx[t].chunk : ~Recorded(q)}}}
    BY <1>3, <1>4 DEF WaitsFor, Wanted
  <1>6. PICK q \in tx[t].chunk : ~Recorded(q) /\ held[RowLock(q)] = v
    BY <1>5
  <1>7. q \in RowNos
    BY DEF Inv, Tables, TxStates
  <1>8. tx[v].step \in {"count", "commit"}
    <2>1. Holds(v)
      BY <1>5 DEF Inv, Mine
    <2>2. \/ v \in Runs /\ tx[v].step \in {"count", "commit"}
          \/ rows[q].state \in Open
      BY <1>6, <1>7, <2>1 DEF Holds
    <2> QED
      BY <1>6, <2>2 DEF Recorded, Open
  <1>9. WaitsFor(v) = {}
    BY <1>8 DEF WaitsFor, Wanted
  <1> QED
    BY <1>2, <1>9

LEMMA RolledIs ==
  ASSUME NEW t \in Txs, tx[t] \in TxStates, NEW step \in Steps
  PROVE  LET n == Rolled(t, step)
         IN  /\ n \in TxStates /\ n.step = step /\ n.left = tx[t].chunk /\ n.chunk = tx[t].chunk
             /\ n.out = [r \in RowNos |-> Absent] /\ n.reads = {} /\ n.own = {}
             /\ n.todo = tx[t].todo /\ n.kind = tx[t].kind
  BY OffFacts DEF Rolled, TxStates

LEMMA BackStep ==
  ASSUME Inv, NEW t \in Txs, NEW n \in TxStates, tx' = [tx EXCEPT ![t] = n],
         n.left = tx[t].chunk, n.chunk = tx[t].chunk, n.out = [r \in RowNos |-> Absent],
         n.reads = {}, n.own = {}, n.todo = tx[t].todo, n.kind = tx[t].kind,
         \/ n.step = "row" /\ t \in Runs /\ tx[t].step \in InTx
         \/ n.step = "done" /\ t \in Requests
         \/ n.step = "dead" /\ t \in Runs,
         held' = Released(t), rows' = rows, reads' = reads, shelf' = shelf,
         faults' \in 0 .. MaxFaults, job' \in Jobs, Ending
  PROVE  Step(t)
  <1>1. tx[t] \in TxStates /\ Tables /\ Mine(t)
    BY DEF Inv, Tables
  <1>2. tx' \in [Txs -> TxStates] /\ Local(t) /\ tx'[t] = n
    BY <1>1, Replacing
  <1>3. held' \in [Locks -> Txs \cup {Nobody}] /\ Locking(t) /\ \A l \in Locks : held'[l] # t
    BY <1>1, Letting
  <1>4. Tables'
    BY <1>1, <1>2, <1>3 DEF Tables
  <1>5. tx[t].step \in InTx => tx[t].chunk # {}
    BY <1>1 DEF Mine, Proper, InTx
  <1>6. Proper(n)
    BY <1>1, <1>5 DEF Mine, Proper, InTx
  <1>7. Kept(n)
    <2>1. n.reads \ n.own = {} /\ n.chunk \ n.left = {} /\ \A r \in RowNos : n.out[r] = Absent
      OBVIOUS
    <2> QED
      BY <2>1 DEF Kept
  <1>8. OfKind(t, n)
    BY <1>1, TxFacts DEF Mine, OfKind
  <1>9. Proper(tx'[t]) /\ Kept(tx'[t]) /\ OfKind(t, tx'[t])
    BY <1>2, <1>6, <1>7, <1>8
  <1>10. Holds(t)'
    <2>1. /\ tx'[t].reads = {} /\ tx'[t].step \notin {"count", "commit"}
          /\ t \in Runs \/ tx'[t].step \notin InTx
      BY <1>2 DEF InTx
    <2> QED
      BY <1>3, <2>1, EmptyHanded
  <1>11. tx'[t].step \in Working => tx[t].step \in Working /\ tx'[t].todo = tx[t].todo /\ tx'[t].chunk = tx[t].chunk
    BY <1>2 DEF Working, InTx
  <1>12. Covers(t)' /\ Writing(t) /\ Importing(t) /\ Listing(t)
    <2>1. Covers(t)
      BY <1>1 DEF Mine
    <2> QED
      BY <1>11, <2>1, StillCovers, Untouched
  <1> QED
    BY <1>2, <1>3, <1>4, <1>9, <1>10, <1>12 DEF Step, Mine

LEMMA EndsQuietly ==
  ASSUME job' = job PROVE Ending
  BY DEF Ending

LEMMA RefusedStep ==
  ASSUME Inv, NEW t \in Txs, Refused(t) PROVE Step(t)
  <1> DEFINE r == Lowest(tx[t].left)
             w == tx[t].found[r]
             failed == [state |-> "unmatched", work |-> w, why |-> "commit_failed"]
  <1>1. tx[t].step \in {"insert", "tag"} /\ UNCHANGED <<job, rows, reads, shelf, faults>>
    BY RefusedAtRow DEF Refused
  <1>2. /\ tx[t] \in TxStates /\ w \in Works /\ r \in tx[t].left /\ r \in RowNos
        /\ Tables /\ Mine(t)
    BY <1>1, AtRow DEF Inv
  <1>3. job' \in Jobs /\ faults' \in 0 .. MaxFaults /\ Ending
    BY <1>1, <1>2, EndsQuietly DEF Tables
  <1>4. t \in Runs <=> tx[t].kind = "run"
    BY <1>1, <1>2, TxFacts DEF Mine, OfKind, Txs
  <1>5. CASE tx[t].kind = "run" /\ ~tx[t].isolate /\ held' = Released(t) /\ tx' = [tx EXCEPT ![t] = Redone(t)]
    <2> DEFINE m == Rolled(t, "row")
               n == [m EXCEPT !.isolate = TRUE]
    <2>1. Redone(t) = n
      BY DEF Redone
    <2>2. /\ m \in TxStates /\ m.step = "row" /\ m.left = tx[t].chunk /\ m.chunk = tx[t].chunk
          /\ m.out = [q \in RowNos |-> Absent] /\ m.reads = {} /\ m.own = {}
          /\ m.todo = tx[t].todo /\ m.kind = tx[t].kind
      BY <1>2, RolledIs DEF Steps
    <2> HIDE DEF m
    <2>3. /\ n \in TxStates /\ n.step = "row" /\ n.left = tx[t].chunk /\ n.chunk = tx[t].chunk
          /\ n.out = [q \in RowNos |-> Absent] /\ n.reads = {} /\ n.own = {}
          /\ n.todo = tx[t].todo /\ n.kind = tx[t].kind
      BY <2>2 DEF TxStates
    <2>4. tx' = [tx EXCEPT ![t] = n]
      BY <1>5, <2>1
    <2>5. t \in Runs /\ tx[t].step \in InTx
      BY <1>1, <1>4, <1>5 DEF InTx
    <2> HIDE DEF n, r
    <2> QED
      BY <1>1, <1>3, <1>5, <2>3, <2>4, <2>5, BackStep
  <1>6. CASE /\ tx[t].kind = "run" /\ held' = [l \in Locks |-> IF l \in tx[t].own THEN Nobody ELSE held[l]]
             /\ tx' = [tx EXCEPT ![t] = [AfterRow(t, r, failed) EXCEPT !.reads = @ \ tx[t].own]]
    <2> DEFINE m == AfterRow(t, r, failed)
               n == [m EXCEPT !.reads = @ \ tx[t].own]
    <2>1. failed \in Outcomes /\ failed.state # "none"
      BY <1>2, OutcomeTypes
    <2>2. m \in TxStates /\ m.reads = tx[t].reads /\ Passed(tx[t], m, r, failed)
      BY <1>2, <2>1, AfterRowPasses
    <2> HIDE DEF m, failed
    <2>3. n \in TxStates /\ n.reads = tx[t].reads \ tx[t].own
      BY <2>2 DEF TxStates
    <2>4. Passed(tx[t], n, r, failed)
      <3>1. /\ n.out = m.out /\ n.left = m.left /\ n.own = m.own /\ n.chunk = m.chunk
            /\ n.todo = m.todo /\ n.found = m.found /\ n.kind = m.kind /\ n.step = m.step
        BY <2>2 DEF TxStates
      <3> HIDE DEF n, r
      <3> QED
        BY <2>2, <3>1 DEF Passed
    <2>5. tx' = [tx EXCEPT ![t] = n]
      BY <1>6 DEF m, failed
    <2> HIDE DEF n
    <2>6. tx[t].own \subseteq tx[t].reads /\ tx[t].reads \subseteq Works /\ \A v \in tx[t].reads : held[v] = t
      BY <1>2 DEF Mine, Proper, Holds, TxStates
    <2>7. held' \in [Locks -> Txs \cup {Nobody}] /\ Locking(t)
      BY <1>2, <1>6, <2>6, TxFacts DEF Locking, Tables
    <2>8. \A q \in RowNos : held'[RowLock(q)] = held[RowLock(q)]
      BY <1>6, <2>6, LockFacts
    <2>9. /\ \A v \in n.reads : held'[v] = t
          /\ \A v \in n.reads : v \in tx[t].reads \ tx[t].own
      BY <1>6, <2>3, <2>6, LockFacts
    <2> HIDE DEF r
    <2> QED
      BY <1>1, <1>2, <2>1, <2>3, <2>4, <2>5, <2>7, <2>8, <2>9, PassedStep
  <1>7. CASE tx[t].kind = "resolve" /\ held' = Released(t) /\ tx' = [tx EXCEPT ![t] = Rolled(t, "done")]
    <2> DEFINE n == Rolled(t, "done")
    <2>1. /\ n \in TxStates /\ n.step = "done" /\ n.left = tx[t].chunk /\ n.chunk = tx[t].chunk
          /\ n.out = [q \in RowNos |-> Absent] /\ n.reads = {} /\ n.own = {}
          /\ n.todo = tx[t].todo /\ n.kind = tx[t].kind
      BY <1>2, RolledIs DEF Steps
    <2>2. t \in Requests
      BY <1>4, <1>7 DEF Txs
    <2> HIDE DEF n, r
    <2> QED
      BY <1>1, <1>3, <1>7, <2>1, <2>2, BackStep DEF n
  <1> QED
    BY <1>5, <1>6, <1>7 DEF Refused

LEMMA RecordRowsStep ==
  ASSUME Inv, NEW t \in Txs, RecordRows(t) PROVE Step(t)
  <1> DEFINE new == {r \in tx[t].chunk : ~Recorded(r)}
             ls == {RowLock(r) : r \in new}
  <1>1. /\ tx[t].step = "record" /\ Go(t, "count") /\ UNCHANGED <<job, rows, reads, shelf, faults>>
        /\ held' = Taken(t, ls) /\ \A r \in new : Free(t, RowLock(r))
    BY DEF RecordRows
  <1>2. tx[t] \in TxStates /\ Tables /\ Mine(t) /\ tx[t].chunk \subseteq RowNos
    BY DEF Inv, Tables, TxStates
  <1>3. /\ tx' \in [Txs -> TxStates] /\ Local(t) /\ tx'[t] \in TxStates
        /\ tx'[t].step = "count"
        /\ tx'[t].todo = tx[t].todo /\ tx'[t].chunk = tx[t].chunk /\ tx'[t].left = tx[t].left
        /\ tx'[t].found = tx[t].found /\ tx'[t].out = tx[t].out /\ tx'[t].reads = tx[t].reads
        /\ tx'[t].own = tx[t].own /\ tx'[t].kind = tx[t].kind
    BY <1>1, <1>2, Going DEF Steps
  <1>4. /\ held' \in [Locks -> Txs \cup {Nobody}] /\ Locking(t)
        /\ \A l \in Locks : held'[l] = t <=> held[l] = t \/ l \in ls
    <2>1. ls \in SUBSET Locks /\ \A l \in ls : Free(t, l)
      BY <1>1, <1>2, LockFacts
    <2> QED
      BY <1>1, <1>2, <2>1, Taking
  <1>5. Tables'
    BY <1>1, <1>2, <1>3, <1>4 DEF Tables
  <1>6. Proper(tx'[t])
    BY <1>1, <1>2, <1>3 DEF Mine, Proper, InTx
  <1>7. Kept(tx'[t])
    BY <1>1, <1>2, <1>3, SameKept DEF Mine
  <1>8. OfKind(t, tx'[t]) /\ t \in Runs /\ t \notin Requests
    BY <1>1, <1>2, <1>3, TxFacts DEF Mine, OfKind, Txs
  <1>9. Holds(t)'
    <2>1. \A r \in RowNos : held[RowLock(r)] # t
      BY <1>1, <1>2, <1>8 DEF Mine, Holds
    <2>2. \A r \in RowNos : held'[RowLock(r)] = t <=> r \in new
      <3>1. SUFFICES ASSUME NEW r \in RowNos PROVE held'[RowLock(r)] = t <=> r \in new
        OBVIOUS
      <3>2. held'[RowLock(r)] = t <=> RowLock(r) \in ls
        BY <1>4, <2>1, LockFacts
      <3>3. RowLock(r) \in ls <=> r \in new
        BY <1>2, LockFacts
      <3> QED
        BY <3>2, <3>3
    <2>3. \A w \in tx'[t].reads : held'[w] = t
      <3>1. tx[t].reads \subseteq Locks /\ \A w \in tx[t].reads : held[w] = t
        BY <1>2, LockFacts DEF TxStates, Mine, Holds
      <3> QED
        BY <1>3, <1>4, <3>1
    <2>4. \A r \in RowNos : held'[RowLock(r)] = t =>
            t \in Runs /\ ~Recorded(r)' /\ r \in tx'[t].chunk /\ tx'[t].step \in {"count", "commit"}
      BY <1>1, <1>3, <1>8, <2>2 DEF Recorded
    <2>5. \A r \in tx'[t].chunk : Recorded(r)' \/ held'[RowLock(r)] = t
      BY <1>1, <1>2, <1>3, <2>2 DEF Recorded
    <2>6. \A l \in Locks : held'[l] = t => tx'[t].step \in InTx
      BY <1>3 DEF InTx
    <2> QED
      BY <1>8, <2>3, <2>4, <2>5, <2>6 DEF Holds
  <1>10. Covers(t)' /\ Writing(t) /\ Importing(t) /\ Listing(t) /\ Ending
    <2>1. Covers(t) /\ tx[t].step \in Working
      BY <1>1, <1>2 DEF Mine, Working, InTx
    <2> QED
      BY <1>1, <1>3, <2>1, StillCovers, Untouched, EndsQuietly
  <1> QED
    BY <1>2, <1>3, <1>4, <1>5, <1>6, <1>7, <1>8, <1>9, <1>10 DEF Step, Mine

LEMMA ViewIs ==
  ASSUME Inv, NEW t \in Txs
  PROVE  /\ View(t) \in [RowNos -> Outcomes]
         /\ \A r \in RowNos : Recorded(r) => View(t)[r].state # "none"
         /\ \A r \in RowNos : held[RowLock(r)] # t => View(t)[r] = rows[r]
         /\ \A r \in tx[t].chunk \ tx[t].left :
               held[RowLock(r)] = t => View(t)[r] = tx[t].out[r] /\ View(t)[r].state # "none"
  <1>1. /\ tx[t].out \in [RowNos -> Outcomes] /\ rows \in [RowNos -> Outcomes] /\ tx[t].chunk \subseteq RowNos
        /\ Kept(tx[t])
    BY DEF Inv, Tables, TxStates, Mine
  <1>2. View(t) \in [RowNos -> Outcomes]
    BY <1>1 DEF View
  <1>3. \A r \in RowNos : Recorded(r) => View(t)[r].state # "none"
    BY <1>1 DEF View, Kept, Recorded
  <1>4. \A r \in tx[t].chunk \ tx[t].left : tx[t].out[r] # Absent /\ tx[t].out[r].state # "none"
    BY <1>1 DEF Kept
  <1> QED
    BY <1>1, <1>2, <1>3, <1>4 DEF View

LEMMA CountingIs ==
  ASSUME Tables, NEW t \in Txs, NEW table, NEW step \in Steps, Counting(t, table, step)
  PROVE  /\ tx' \in [Txs -> TxStates] /\ Local(t) /\ tx'[t] \in TxStates
         /\ tx'[t].step = step
         /\ tx'[t].todo = tx[t].todo /\ tx'[t].chunk = tx[t].chunk /\ tx'[t].left = tx[t].left
         /\ tx'[t].found = tx[t].found /\ tx'[t].out = tx[t].out /\ tx'[t].reads = tx[t].reads
         /\ tx'[t].own = tx[t].own /\ tx'[t].kind = tx[t].kind
  <1> DEFINE a == Counted(table, {"matched", "resolved"})
             b == Counted(table, {"unmatched"})
             n == [tx[t] EXCEPT !.matched = a, !.unmatched = b, !.step = step]
  <1>1. a \in Tallies /\ b \in Tallies
    BY RowSets DEF Counted
  <1>2. tx[t] \in TxStates
    BY DEF Tables
  <1>3. tx' = [tx EXCEPT ![t] = n]
    BY DEF Counting, Tables
  <1> HIDE DEF a, b
  <1>4. n \in TxStates
    BY <1>1, <1>2 DEF TxStates
  <1>5. tx' \in [Txs -> TxStates] /\ Local(t) /\ tx'[t] = n
    BY <1>3, <1>4, Replacing
  <1> QED
    BY <1>2, <1>4, <1>5 DEF TxStates

LEMMA RefreshCountsStep ==
  ASSUME Inv, NEW t \in Txs, RefreshCounts(t) PROVE Step(t)
  <1>1. /\ tx[t].step = "count" /\ Counting(t, View(t), "commit")
        /\ UNCHANGED <<job, rows, reads, shelf, held, faults>>
    BY DEF RefreshCounts
  <1>2. Tables /\ Mine(t) /\ tx[t] \in TxStates
    BY DEF Inv, Tables
  <1>3. /\ tx' \in [Txs -> TxStates] /\ Local(t) /\ tx'[t] \in TxStates
        /\ tx'[t].step = "commit"
        /\ tx'[t].todo = tx[t].todo /\ tx'[t].chunk = tx[t].chunk /\ tx'[t].left = tx[t].left
        /\ tx'[t].found = tx[t].found /\ tx'[t].out = tx[t].out /\ tx'[t].reads = tx[t].reads
        /\ tx'[t].own = tx[t].own /\ tx'[t].kind = tx[t].kind
    BY <1>1, <1>2, CountingIs DEF Steps
  <1>4. Tables'
    BY <1>1, <1>2, <1>3 DEF Tables
  <1>5. Proper(tx'[t])
    BY <1>1, <1>2, <1>3 DEF Mine, Proper, InTx
  <1>6. Kept(tx'[t])
    BY <1>1, <1>2, <1>3, SameKept DEF Mine
  <1>7. OfKind(t, tx'[t])
    BY <1>1, <1>2, <1>3, TxFacts DEF Mine, OfKind
  <1>8. Holds(t)'
    BY <1>1, <1>2, <1>3 DEF Mine, Holds, Recorded, InTx
  <1>9. Covers(t)' /\ Writing(t) /\ Importing(t) /\ Listing(t) /\ Ending
    <2>1. Covers(t) /\ tx[t].step \in Working
      BY <1>1, <1>2 DEF Mine, Working, InTx
    <2> QED
      BY <1>1, <1>3, <2>1, StillCovers, Untouched, EndsQuietly
  <1> QED
    BY <1>1, <1>2, <1>3, <1>4, <1>5, <1>6, <1>7, <1>8, <1>9, NotTaking DEF Step, Mine

LEMMA CommitStep ==
  ASSUME Inv, NEW t \in Txs, Commit(t) PROVE Step(t)
  <1> DEFINE next == IF tx[t].kind = "run" THEN "match" ELSE "done"
             m == Rolled(t, next)
             n == [m EXCEPT !.chunk = {}, !.left = {}]
  <1>1. /\ tx[t].step = "commit" /\ job' = Recount(t) /\ rows' = View(t)
        /\ reads' = [w \in Works |-> IF w \in tx[t].reads THEN "import" ELSE reads[w]]
        /\ shelf' = shelf + tx[t].shelves /\ held' = Released(t) /\ UNCHANGED faults
        /\ tx' = [tx EXCEPT ![t] = n]
    BY DEF Commit
  <1>2. Tables /\ Mine(t) /\ tx[t] \in TxStates
    BY DEF Inv, Tables
  <1>3. next \in Steps /\ (next = "match" <=> tx[t].kind = "run") /\ next \in {"match", "done"}
    BY DEF Steps
  <1>4. /\ m \in TxStates /\ m.step = next /\ m.out = [q \in RowNos |-> Absent] /\ m.reads = {} /\ m.own = {}
        /\ m.todo = tx[t].todo /\ m.kind = tx[t].kind
    BY <1>2, <1>3, RolledIs
  <1> HIDE DEF m, next
  <1>5. /\ n \in TxStates /\ n.step = next /\ n.out = [q \in RowNos |-> Absent] /\ n.reads = {} /\ n.own = {}
        /\ n.todo = tx[t].todo /\ n.kind = tx[t].kind /\ n.chunk = {} /\ n.left = {}
    BY <1>4 DEF TxStates
  <1> HIDE DEF n
  <1>6. tx' \in [Txs -> TxStates] /\ Local(t) /\ tx'[t] = n
    BY <1>1, <1>2, <1>5, Replacing
  <1>7. held' \in [Locks -> Txs \cup {Nobody}] /\ Locking(t) /\ \A l \in Locks : held'[l] # t
    BY <1>1, <1>2, Letting
  <1>8. job' \in Jobs /\ job'.state = job.state
    BY <1>1, <1>2 DEF Recount, Tables, Jobs, TxStates
  <1>9. Tables'
    <2>1. rows' \in [RowNos -> Outcomes]
      BY <1>1, ViewIs
    <2>2. reads' \in [Works -> {"none", "app", "import"}] /\ shelf' \in Nat
      BY <1>1, <1>2 DEF Tables, TxStates
    <2> QED
      BY <1>1, <1>2, <1>6, <1>7, <1>8, <2>1, <2>2 DEF Tables
  <1>10. Proper(tx'[t])
    BY <1>3, <1>5, <1>6 DEF Proper, InTx
  <1>11. Kept(tx'[t])
    <2>1. n.reads \ n.own = {} /\ n.chunk \ n.left = {} /\ \A r \in RowNos : n.out[r] = Absent
      BY <1>5
    <2> QED
      BY <1>6, <2>1 DEF Kept
  <1>12. t \in Runs <=> tx[t].kind = "run"
    BY <1>1, <1>2, TxFacts DEF Mine, OfKind, Txs
  <1>13. OfKind(t, tx'[t])
    BY <1>1, <1>2, <1>3, <1>5, <1>6, <1>12, TxFacts DEF Mine, OfKind
  <1>14. Holds(t)'
    <2>1. tx'[t].reads = {} /\ tx'[t].step \notin InTx
      BY <1>3, <1>5, <1>6 DEF InTx
    <2> QED
      BY <1>7, <2>1, EmptyHanded DEF InTx
  <1>15. t \in Runs => \A r \in RowNos : rows'[r].state # "none" \/ r \in tx[t].todo
    <2>1. SUFFICES ASSUME t \in Runs, NEW r \in RowNos, r \notin tx[t].todo PROVE rows'[r].state # "none"
      OBVIOUS
    <2>2. Recorded(r) \/ r \in tx[t].chunk
      BY <1>1, <1>2, <2>1 DEF Mine, Covers, Working, InTx
    <2>3. CASE Recorded(r)
      BY <1>1, <2>3, ViewIs
    <2>4. CASE r \in tx[t].chunk /\ ~Recorded(r)
      <3>1. held[RowLock(r)] = t /\ tx[t].left = {}
        BY <1>1, <1>2, <2>1, <2>4 DEF Mine, Holds, Proper
      <3> QED
        BY <1>1, <2>4, <3>1, ViewIs
    <2> QED
      BY <2>2, <2>3, <2>4
  <1>16. Covers(t)'
    BY <1>5, <1>6, <1>15 DEF Covers, Recorded
  <1>17. Writing(t) /\ Importing(t) /\ Ending
    BY <1>1, <1>8 DEF Writing, Importing, Ending
  <1>18. Listing(t)
    <2>1. tx[t].step \in Working /\ tx'[t].todo \cup tx'[t].chunk = tx[t].todo
      BY <1>1, <1>5, <1>6 DEF Working, InTx
    <2> QED
      BY <2>1 DEF Listing
  <1> QED
    BY <1>6, <1>7, <1>9, <1>10, <1>11, <1>13, <1>14, <1>16, <1>17, <1>18 DEF Step, Mine

\* The last steps of a run, outside any transaction.
LEMMA LastStep ==
  ASSUME Inv, NEW t \in Txs, tx[t].step \in {"total", "finish"},
         tx' \in [Txs -> TxStates], Local(t), tx'[t].step \in {"finish", "done"},
         tx'[t].todo = tx[t].todo, tx'[t].chunk = tx[t].chunk, tx'[t].left = tx[t].left,
         tx'[t].out = tx[t].out, tx'[t].reads = tx[t].reads, tx'[t].own = tx[t].own, tx'[t].kind = tx[t].kind,
         UNCHANGED <<rows, reads, shelf, held, faults>>, job' \in Jobs, Ending
  PROVE  Step(t)
  <1>1. Tables /\ Mine(t) /\ tx[t] \in TxStates /\ tx'[t] \in TxStates
    BY DEF Inv, Tables
  <1>2. Tables'
    BY <1>1 DEF Tables
  <1>3. Proper(tx'[t])
    BY <1>1 DEF Mine, Proper, InTx
  <1>4. Kept(tx'[t])
    BY <1>1, SameKept DEF Mine
  <1>5. OfKind(t, tx'[t]) /\ t \in Runs
    BY <1>1, TxFacts DEF Mine, OfKind, Txs
  <1>6. Holds(t)'
    BY <1>1, <1>5, Unheld, EmptyHanded DEF Mine, Proper, InTx
  <1>7. Covers(t)' /\ Writing(t) /\ Importing(t) /\ Listing(t)
    BY <1>1, StillCovers, Untouched DEF Mine, Working, InTx
  <1> QED
    BY <1>1, <1>2, <1>3, <1>4, <1>5, <1>6, <1>7, NotTaking DEF Step, Mine

LEMMA FinalCountsStep ==
  ASSUME Inv, NEW t \in Txs, FinalCounts(t) PROVE Step(t)
  <1>1. tx[t].step = "total" /\ Counting(t, rows, "finish") /\ UNCHANGED <<job, rows, reads, shelf, held, faults>>
    BY DEF FinalCounts
  <1>2. Tables /\ job' \in Jobs /\ Ending /\ "finish" \in Steps
    BY <1>1, EndsQuietly DEF Inv, Tables, Steps
  <1> QED
    BY <1>1, <1>2, CountingIs, LastStep

LEMMA CompleteStep ==
  ASSUME Inv, NEW t \in Txs, Complete(t) PROVE Step(t)
  <1>1. tx[t].step = "finish" /\ Go(t, "done") /\ UNCHANGED <<rows, reads, shelf, held, faults>>
        /\ job' = [Recount(t) EXCEPT !.state = "completed"]
    BY DEF Complete
  <1>2. Tables /\ Mine(t) /\ tx[t] \in TxStates /\ "done" \in Steps
    BY DEF Inv, Tables, Steps
  <1>3. job' \in Jobs
    BY <1>1, <1>2 DEF Recount, Tables, Jobs, JobStates, TxStates
  <1>4. t \in Runs /\ tx[t].todo = {} /\ tx[t].chunk = {}
    BY <1>1, <1>2, TxFacts DEF Mine, OfKind, Proper, Txs
  <1>5. Ending
    BY <1>1, <1>2, <1>4 DEF Mine, Covers, Working, Ending
  <1> QED
    BY <1>1, <1>2, <1>3, <1>5, Going, LastStep

LEMMA DeathStep ==
  ASSUME Inv, NEW t \in Txs, Fail(t) \/ Die(t) PROVE Step(t)
  <1> DEFINE n == Rolled(t, "dead")
  <1>1. /\ t \in Runs /\ tx' = [tx EXCEPT ![t] = n] /\ held' = Released(t)
        /\ rows' = rows /\ reads' = reads /\ shelf' = shelf
        /\ faults < MaxFaults /\ faults' = faults + 1
        /\ job' = job \/ job' = [job EXCEPT !.state = "failed"]
    BY DEF Fail, Die
  <1>2. Tables /\ tx[t] \in TxStates /\ "dead" \in Steps
    BY DEF Inv, Tables, Steps
  <1>3. job' \in Jobs /\ Ending
    BY <1>1, <1>2 DEF Tables, Jobs, JobStates, Ending
  <1>4. faults' \in 0 .. MaxFaults
    BY <1>1, <1>2, ImportAssumption DEF Tables
  <1>5. /\ n \in TxStates /\ n.step = "dead" /\ n.left = tx[t].chunk /\ n.chunk = tx[t].chunk
        /\ n.out = [r \in RowNos |-> Absent] /\ n.reads = {} /\ n.own = {}
        /\ n.todo = tx[t].todo /\ n.kind = tx[t].kind
    BY <1>2, RolledIs
  <1> HIDE DEF n
  <1> QED
    BY <1>1, <1>3, <1>4, <1>5, BackStep

-----------------------------------------------------------------------------
(* The requests.                                                           *)

\* A request that is answered at once.
LEMMA AnswerStep ==
  ASSUME Inv, NEW t \in Requests, tx[t].step = "off",
         NEW n \in TxStates, tx' = [tx EXCEPT ![t] = n], n.step = "done",
         n.todo = tx[t].todo, n.chunk = tx[t].chunk, n.left = tx[t].left,
         n.out = tx[t].out, n.reads = tx[t].reads, n.own = tx[t].own,
         UNCHANGED <<job, rows, shelf, held, faults>>,
         reads' \in [Works -> {"none", "app", "import"}],
         \A w \in Works : reads'[w] = "import" => reads[w] = "import"
  PROVE  Step(t)
  <1>1. t \in Txs /\ t \notin Runs /\ Tables /\ Mine(t) /\ tx[t] \in TxStates
    BY TxFacts DEF Inv, Tables
  <1>2. tx' \in [Txs -> TxStates] /\ Local(t) /\ tx'[t] = n
    BY <1>1, Replacing
  <1>3. Tables'
    BY <1>1, <1>2 DEF Tables
  <1>4. Proper(tx'[t])
    BY <1>1, <1>2 DEF Mine, Proper, InTx
  <1>5. Kept(tx'[t])
    BY <1>1, <1>2, SameKept DEF Mine
  <1>6. OfKind(t, tx'[t])
    BY <1>1, <1>2 DEF OfKind
  <1>7. Holds(t)'
    <2>1. \A l \in Locks : held'[l] # t
      BY <1>1, Unheld DEF InTx
    <2>2. tx'[t].reads = {} /\ tx'[t].step \notin InTx
      BY <1>1, <1>2 DEF Mine, Proper, InTx
    <2> QED
      BY <1>1, <2>1, <2>2, EmptyHanded DEF InTx
  <1>8. Covers(t)' /\ Listing(t)
    BY <1>1 DEF Covers, Listing
  <1>9. Writing(t) /\ Importing(t) /\ Ending
    BY DEF Writing, Importing, Ending
  <1> QED
    BY <1>1, <1>2, <1>3, <1>4, <1>5, <1>6, <1>7, <1>8, <1>9, NotTaking DEF Step, Mine

\* A request that locks row r to write it.
LEMMA LockStep ==
  ASSUME Inv, NEW t \in Requests, tx[t].step = "off", NEW r \in RowNos,
         held[RowLock(r)] = Nobody, rows[r].state \in Open,
         NEW n \in TxStates, tx' = [tx EXCEPT ![t] = n], held' = Taken(t, {RowLock(r)}),
         n.kind \in {"resolve", "skip"}, n.todo = {}, n.chunk = {r}, n.reads = {}, n.own = {},
         \/ n.step = "row" /\ n.left = {r}
         \/ n.step = "count" /\ n.left = {} /\ n.out[r] # Absent,
         \A q \in RowNos : n.out[q] = Absent \/ n.out[q].state # "none",
         UNCHANGED <<job, rows, reads, shelf, faults>>
  PROVE  Step(t)
  <1>1. t \in Txs /\ t \notin Runs /\ Tables /\ Mine(t) /\ tx[t] \in TxStates
    BY TxFacts DEF Inv, Tables
  <1>2. tx' \in [Txs -> TxStates] /\ Local(t) /\ tx'[t] = n
    BY <1>1, Replacing
  <1>3. /\ held' \in [Locks -> Txs \cup {Nobody}] /\ Locking(t)
        /\ \A l \in Locks : held'[l] = t <=> l = RowLock(r)
    <2>1. {RowLock(r)} \in SUBSET Locks /\ \A l \in {RowLock(r)} : Free(t, l)
      BY LockFacts DEF Free
    <2>2. /\ held' \in [Locks -> Txs \cup {Nobody}] /\ Locking(t)
          /\ \A l \in Locks : held'[l] = t <=> held[l] = t \/ l \in {RowLock(r)}
      BY <1>1, <2>1, Taking
    <2> QED
      BY <1>1, <2>2, Unheld DEF InTx
  <1>4. Tables'
    BY <1>1, <1>2, <1>3 DEF Tables
  <1>5. Proper(n)
    BY DEF Proper, InTx
  <1>6. Kept(n)
    BY DEF Kept
  <1>7. OfKind(t, n)
    BY <1>1 DEF OfKind
  <1>8. Proper(tx'[t]) /\ Kept(tx'[t]) /\ OfKind(t, tx'[t])
    BY <1>2, <1>5, <1>6, <1>7
  <1>9. Holds(t)'
    <2>1. \A l \in Locks : held'[l] = t => tx'[t].step \in InTx
      BY <1>2 DEF InTx
    <2>2. \A q \in RowNos : held'[RowLock(q)] = t <=> q = r
      BY <1>3, LockFacts
    <2>3. tx'[t].reads = {} /\ tx'[t].chunk = {r} /\ rows' = rows
      BY <1>2
    <2> QED
      BY <1>1, <2>1, <2>2, <2>3 DEF Holds
  <1>10. Covers(t)' /\ Listing(t)
    BY <1>1 DEF Covers, Listing
  <1>11. Writing(t) /\ Importing(t) /\ Ending
    BY DEF Writing, Importing, Ending
  <1> QED
    BY <1>1, <1>2, <1>3, <1>4, <1>8, <1>9, <1>10, <1>11 DEF Step, Mine

LEMMA AnswerAtOnce ==
  ASSUME Inv, NEW t \in Requests, tx[t].step = "off", Go(t, "done"),
         UNCHANGED <<job, rows, shelf, held, faults>>,
         reads' \in [Works -> {"none", "app", "import"}],
         \A w \in Works : reads'[w] = "import" => reads[w] = "import"
  PROVE  Step(t)
  <1> DEFINE n == [tx[t] EXCEPT !.step = "done"]
  <1>1. t \in Txs /\ tx[t] \in TxStates
    BY TxFacts DEF Inv, Tables
  <1>2. tx' = [tx EXCEPT ![t] = n]
    BY DEF Go
  <1>3. /\ n \in TxStates /\ n.step = "done"
        /\ n.todo = tx[t].todo /\ n.chunk = tx[t].chunk /\ n.left = tx[t].left
        /\ n.out = tx[t].out /\ n.reads = tx[t].reads /\ n.own = tx[t].own
    BY <1>1 DEF TxStates, Steps
  <1> HIDE DEF n
  <1> QED
    BY <1>2, <1>3, AnswerStep

LEMMA ResolveStep ==
  ASSUME Inv, NEW t \in Requests, NEW r \in RowNos, NEW w \in Works, Resolve(t, r, w) PROVE Step(t)
  <1>1. /\ tx[t].step = "off" /\ held[RowLock(r)] = Nobody /\ UNCHANGED <<job, rows, reads, shelf, faults>>
    BY DEF Resolve, Takable
  <1>2. CASE Go(t, "done") /\ held' = held
    BY <1>1, <1>2, AnswerAtOnce DEF Inv, Tables
  <1>3. CASE /\ rows[r].state \in {"unmatched", "skipped"}
             /\ held' = Taken(t, {RowLock(r)})
             /\ tx' = [tx EXCEPT ![t] = [Off EXCEPT !.kind = "resolve", !.chunk = {r}, !.left = {r},
                                                    !.found[r] = w, !.step = "row"]]
    <2> DEFINE n == [Off EXCEPT !.kind = "resolve", !.chunk = {r}, !.left = {r}, !.found[r] = w, !.step = "row"]
    <2>1. [Off.found EXCEPT ![r] = w] \in [RowNos -> Works \cup {NoWork}]
      BY DEF Off
    <2>2. n = [Off EXCEPT !.kind = "resolve", !.chunk = {r}, !.left = {r},
                          !.found = [Off.found EXCEPT ![r] = w], !.step = "row"]
      OBVIOUS
    <2>3. n \in TxStates
      BY <2>1, <2>2, OffFacts DEF TxStates, Steps
    <2>4. /\ n.kind = "resolve" /\ n.todo = {} /\ n.chunk = {r} /\ n.reads = {} /\ n.own = {}
          /\ n.step = "row" /\ n.left = {r} /\ \A q \in RowNos : n.out[q] = Absent
      BY DEF Off
    <2>5. rows[r].state \in Open
      BY <1>3 DEF Open
    <2>6. tx' = [tx EXCEPT ![t] = n]
      BY <1>3
    <2> HIDE DEF n
    <2>7. \A q \in RowNos : n.out[q] = Absent \/ n.out[q].state # "none"
      BY <2>4
    <2>8. n.kind \in {"resolve", "skip"} /\ n.step = "row" /\ n.left = {r}
      BY <2>4
    <2> QED
      BY <1>1, <1>3, <2>3, <2>4, <2>5, <2>6, <2>7, <2>8, LockStep
  <1> QED
    BY <1>2, <1>3 DEF Resolve

LEMMA SkipStep ==
  ASSUME Inv, NEW t \in Requests, NEW r \in RowNos, Skip(t, r) PROVE Step(t)
  <1>1. /\ tx[t].step = "off" /\ held[RowLock(r)] = Nobody /\ UNCHANGED <<job, rows, reads, shelf, faults>>
    BY DEF Skip, Takable
  <1>2. CASE Go(t, "done") /\ held' = held
    BY <1>1, <1>2, AnswerAtOnce DEF Inv, Tables
  <1>3. CASE /\ rows[r].state = "unmatched"
             /\ held' = Taken(t, {RowLock(r)})
             /\ tx' = [tx EXCEPT ![t] = [Off EXCEPT !.kind = "skip", !.chunk = {r}, !.step = "count",
                                                    !.out[r] = [rows[r] EXCEPT !.state = "skipped"]]]
    <2> DEFINE o == [rows[r] EXCEPT !.state = "skipped"]
               n == [Off EXCEPT !.kind = "skip", !.chunk = {r}, !.step = "count", !.out[r] = o]
    <2>1. o \in Outcomes /\ o.state = "skipped" /\ o # Absent
      <3>1. rows[r] \in Outcomes
        BY DEF Inv, Tables
      <3> QED
        BY <3>1 DEF Outcomes, Absent
    <2> HIDE DEF o
    <2>2. [Off.out EXCEPT ![r] = o] \in [RowNos -> Outcomes]
      BY <2>1, OffFacts
    <2>3. n = [Off EXCEPT !.kind = "skip", !.chunk = {r}, !.step = "count", !.out = [Off.out EXCEPT ![r] = o]]
      OBVIOUS
    <2>4. n \in TxStates
      BY <2>2, <2>3, OffFacts DEF TxStates, Steps
    <2>5. /\ n.kind = "skip" /\ n.todo = {} /\ n.chunk = {r} /\ n.reads = {} /\ n.own = {}
          /\ n.step = "count" /\ n.left = {} /\ n.out = [Off.out EXCEPT ![r] = o]
      BY DEF Off
    <2>6. n.out[r] # Absent /\ \A q \in RowNos : n.out[q] = Absent \/ n.out[q].state # "none"
      BY <2>1, <2>5, OffFacts
    <2>7. rows[r].state \in Open
      BY <1>3 DEF Open
    <2>8. tx' = [tx EXCEPT ![t] = n]
      BY <1>3 DEF o
    <2> HIDE DEF n
    <2> QED
      BY <1>1, <1>3, <2>4, <2>5, <2>6, <2>7, <2>8, LockStep
  <1> QED
    BY <1>2, <1>3 DEF Skip

LEMMA LogStep ==
  ASSUME Inv, NEW t \in Requests, NEW w \in Works, Log(t, w) PROVE Step(t)
  <1>1. /\ tx[t].step = "off" /\ Go(t, "done") /\ UNCHANGED <<job, rows, shelf, held, faults>>
        /\ reads' = [reads EXCEPT ![w] = IF @ = "none" THEN "app" ELSE @]
    BY DEF Log
  <1>2. reads \in [Works -> {"none", "app", "import"}]
    BY DEF Inv, Tables
  <1>3. /\ reads' \in [Works -> {"none", "app", "import"}]
        /\ \A v \in Works : reads'[v] = "import" => reads[v] = "import"
    BY <1>1, <1>2
  <1> QED
    BY <1>1, <1>3, AnswerAtOnce

LEMMA DropStep ==
  ASSUME Inv, NEW t \in Requests, NEW w \in Works, Drop(t, w) PROVE Step(t)
  <1> DEFINE n == [tx[t] EXCEPT !.step = "done", !.kind = "drop"]
  <1>1. /\ tx[t].step = "off" /\ UNCHANGED <<job, rows, shelf, held, faults>>
        /\ reads' = [reads EXCEPT ![w] = "none"]
    BY DEF Drop
  <1>2. reads \in [Works -> {"none", "app", "import"}] /\ t \in Txs /\ tx[t] \in TxStates /\ tx \in [Txs -> TxStates]
    BY TxFacts DEF Inv, Tables
  <1>3. /\ reads' \in [Works -> {"none", "app", "import"}]
        /\ \A v \in Works : reads'[v] = "import" => reads[v] = "import"
    BY <1>1, <1>2
  <1>4. tx' = [tx EXCEPT ![t] = n]
    BY <1>2 DEF Drop
  <1>5. /\ n \in TxStates /\ n.step = "done"
        /\ n.todo = tx[t].todo /\ n.chunk = tx[t].chunk /\ n.left = tx[t].left
        /\ n.out = tx[t].out /\ n.reads = tx[t].reads /\ n.own = tx[t].own
    BY <1>2 DEF TxStates, Steps
  <1> HIDE DEF n
  <1> QED
    BY <1>1, <1>3, <1>4, <1>5, AnswerStep

LEMMA NextIsStep ==
  ASSUME Inv, Next
  PROVE  \E t \in Txs : Step(t)
  <1>1. ASSUME NEW t \in Runs, Begin(t) \/ Fail(t) \/ Die(t) PROVE Step(t)
    BY <1>1, TxFacts, BeginStep, DeathStep
  <1>2. ASSUME NEW t \in Requests, Ask(t) PROVE Step(t)
    BY <1>2, SkipStep, ResolveStep, LogStep, DropStep DEF Ask
  <1>3. ASSUME NEW t \in Txs, Advance(t) PROVE Step(t)
    BY <1>3, ReadJobStep, MarkProcessingStep, LoadRowsStep, MatchChunkStep, LookRowStep, InsertReadStep, MakeShelfStep,
       RefusedStep, RecordRowsStep, RefreshCountsStep, CommitStep, FinalCountsStep, CompleteStep DEF Advance
  <1> QED
    BY <1>1, <1>2, <1>3, TxFacts DEF Next

-----------------------------------------------------------------------------
(* The invariant.                                                          *)

LEMMA InvStart == Init => Inv
  <1> SUFFICES ASSUME Init PROVE Inv
    OBVIOUS
  <1>1. 0 \in Tallies /\ 0 \in 0 .. MaxFaults
    BY RowSets, ImportAssumption DEF Tallies
  <1>2. Tables
    BY <1>1, OffFacts DEF Init, Tables, Jobs, JobStates
  <1>3. ASSUME NEW t \in Txs PROVE Mine(t)
    <2>1. /\ tx[t].step = "off" /\ tx[t].kind = "run" /\ tx[t].todo = {} /\ tx[t].chunk = {} /\ tx[t].left = {}
          /\ tx[t].reads = {} /\ tx[t].own = {} /\ tx[t].out = [r \in RowNos |-> Absent]
      BY DEF Init, Off
    <2>2. Proper(tx[t]) /\ Kept(tx[t]) /\ OfKind(t, tx[t]) /\ Covers(t)
      BY <2>1 DEF Proper, Kept, OfKind, Covers, Working, InTx
    <2>3. \A l \in Locks : held[l] # t
      BY TxFacts DEF Init
    <2>4. Holds(t)
      BY <2>1, <2>3, LockFacts DEF Holds, InTx
    <2> QED
      BY <2>2, <2>4 DEF Mine
  <1> QED
    BY <1>2, <1>3 DEF Inv, CompleteRecorded, Init

\* A transaction's commit writes only rows it has locked.
LEMMA WrittenRows ==
  ASSUME Inv, NEW t \in Txs, Step(t), NEW r \in RowNos
  PROVE  /\ rows'[r] # rows[r] => held[RowLock(r)] = t
         /\ Recorded(r) => Recorded(r)'
  BY ViewIs DEF Step, Writing, Recorded

LEMMA OthersMine ==
  ASSUME Inv, NEW t \in Txs, Step(t), NEW u \in Txs \ {t}
  PROVE  Mine(u)'
  <1>1. tx'[u] = tx[u] /\ Mine(u) /\ tx[u] \in TxStates
    BY DEF Inv, Tables, Step, Local
  <1>2. \A l \in Locks : held'[l] = u <=> held[l] = u
    BY TxFacts DEF Step, Locking
  <1>3. \A r \in RowNos : held[RowLock(r)] = u => rows'[r] = rows[r]
    BY WrittenRows
  <1>4. \A r \in RowNos : Recorded(r) => Recorded(r)'
    BY WrittenRows
  <1>5. \A r \in RowNos : RowLock(r) \in Locks
    BY LockFacts
  <1>6. Proper(tx'[u]) /\ Kept(tx'[u]) /\ OfKind(u, tx'[u])
    BY <1>1 DEF Mine
  <1>7. Holds(u)'
    <2>1. \A w \in tx[u].reads : w \in Locks
      BY <1>1, LockFacts DEF TxStates
    <2>2. tx[u].chunk \subseteq RowNos
      BY <1>1 DEF TxStates
    <2>3. \A l \in Locks : held'[l] = u => tx'[u].step \in InTx
      BY <1>1, <1>2 DEF Mine, Holds
    <2>4. \A w \in tx'[u].reads : held'[w] = u
      BY <1>1, <1>2, <2>1 DEF Mine, Holds
    <2>5. \A r \in RowNos : held'[RowLock(r)] = u =>
             \/ u \in Runs /\ ~Recorded(r)' /\ r \in tx'[u].chunk /\ tx'[u].step \in {"count", "commit"}
             \/ u \in Requests /\ rows'[r].state \in Open
      BY <1>1, <1>2, <1>3, <1>5 DEF Mine, Holds, Recorded
    <2>6. u \in Runs /\ tx'[u].step \in {"count", "commit"} =>
             \A r \in tx'[u].chunk : Recorded(r)' \/ held'[RowLock(r)] = u
      BY <1>1, <1>2, <1>4, <1>5, <2>2 DEF Mine, Holds
    <2>7. u \in Requests /\ tx'[u].step \in InTx => \A r \in tx'[u].chunk : held'[RowLock(r)] = u
      BY <1>1, <1>2, <1>5, <2>2 DEF Mine, Holds
    <2> QED
      BY <2>3, <2>4, <2>5, <2>6, <2>7 DEF Holds
  <1>8. Covers(u)'
    BY <1>1, <1>4 DEF Mine, Covers
  <1> QED
    BY <1>6, <1>7, <1>8 DEF Mine

LEMMA InvStep == Inv /\ [Next]_vars => Inv'
  <1> SUFFICES ASSUME Inv, [Next]_vars PROVE Inv'
    OBVIOUS
  <1>1. CASE Next
    <2>1. PICK t \in Txs : Step(t)
      BY <1>1, NextIsStep
    <2>2. \A u \in Txs : Mine(u)'
      BY <2>1, OthersMine DEF Step
    <2>3. CompleteRecorded'
      BY <2>1, WrittenRows DEF Step, Ending, CompleteRecorded, Inv
    <2> QED
      BY <2>1, <2>2, <2>3 DEF Inv, Step
  <1>2. CASE UNCHANGED vars
    BY <1>2 DEF vars, Inv, Tables, Mine, Holds, Covers, Recorded, CompleteRecorded
  <1> QED
    BY <1>1, <1>2

LEMMA InvCorrect == Spec => []Inv
  BY InvStart, InvStep, PTL DEF Spec

\* The tables hold what they may, and only a transaction that is under way holds
\* locks, those of the reads it has made among them (processImport, commitChunk).
THEOREM TypeCorrect == Spec => []TypeOK
  <1>1. Inv => TypeOK
    <2> SUFFICES ASSUME Inv PROVE TypeOK
      OBVIOUS
    <2>1. ASSUME NEW l \in Locks, held[l] # Nobody
          PROVE  tx[held[l]].step \in {"row", "insert", "tag", "record", "count", "commit"}
      <3>1. held[l] \in Txs
        BY <2>1 DEF Inv, Tables
      <3> QED
        BY <3>1 DEF Inv, Mine, Holds, InTx
    <2>2. ASSUME NEW t \in Txs
          PROVE  /\ tx[t].step \in Steps /\ tx[t].chunk \subseteq RowNos /\ tx[t].left \subseteq tx[t].chunk
                 /\ \A w \in tx[t].reads : held[w] = t
      BY DEF Inv, Tables, TxStates, Mine, Proper, Holds
    <2>3. job.state \in JobStates /\ job.matched \in 0 .. Cardinality(RowNos) /\ job.unmatched \in 0 .. Cardinality(RowNos)
      BY DEF Inv, Tables, Jobs, Tallies
    <2> QED
      BY <2>1, <2>2, <2>3 DEF TypeOK, Inv, Tables
  <1> QED
    BY <1>1, InvCorrect, PTL

\* However runs overlap, fail, die and redo chunks, a completed import has every
\* row of the file on record (processImport).
THEOREM CompleteCorrect == Spec => []CompleteRecorded
  <1>1. Inv => CompleteRecorded
    BY DEF Inv
  <1> QED
    BY <1>1, InvCorrect, PTL

\* A row that has its book is never written again, by a run that overlaps or
\* resumes or by a request (commitChunk: onConflictDoNothing; resolveRow, skipRow: #lockRow).
THEOREM SettledCorrect == Spec => SettledStays
  <1>1. Inv /\ [Next]_vars => [\A r \in RowNos : rows[r].state \in {"matched", "resolved"} => rows'[r] = rows[r]]_vars
    <2> SUFFICES ASSUME Inv, Next, NEW r \in RowNos, rows[r].state \in {"matched", "resolved"}, rows'[r] # rows[r]
                 PROVE  FALSE
      OBVIOUS
    <2>1. PICK t \in Txs : Step(t)
      BY NextIsStep
    <2>2. held[RowLock(r)] = t
      BY <2>1, WrittenRows
    <2> QED
      BY <2>2 DEF Inv, Mine, Holds, Recorded, Open
  <1> QED
    BY <1>1, InvCorrect, PTL DEF SettledStays, Spec

-----------------------------------------------------------------------------
(* The account of what an import has made, when no run overlaps another.   *)
(* ImportChanging.cfg shows that two that overlap may lose it.             *)

LEMMA AloneStep ==
  ASSUME Inv, OneRun, Alone, NEW t \in Txs, Step(t)
  PROVE  Alone'
  <1> SUFFICES ASSUME NEW u \in Runs, tx'[u].step \in Working, NEW r \in tx'[u].todo \cup tx'[u].chunk
               PROVE  ~Recorded(r)'
    BY DEF Alone
  <1>1. u \in Txs /\ r \in RowNos
    BY TxFacts DEF Step, Tables, TxStates
  <1>2. held[RowLock(r)] = t =>
          \/ t \in Runs /\ r \in tx[t].chunk /\ tx[t].step \in {"count", "commit"}
          \/ t \in Requests /\ Recorded(r)
    BY <1>1 DEF Inv, Mine, Holds, Recorded, Open
  <1>3. rows'[r] # rows[r] => held[RowLock(r)] = t
    BY <1>1, WrittenRows
  <1>4. CASE u = t
    <2>1. CASE rows' = rows /\ \A q \in tx'[t].todo \cup tx'[t].chunk : ~Recorded(q)
      BY <1>4, <2>1 DEF Recorded
    <2>2. CASE /\ tx[t].step \in Working
               /\ tx'[t].todo \cup tx'[t].chunk \subseteq tx[t].todo \cup tx[t].chunk
               /\ rows' = rows \/ tx'[t].todo \cup tx'[t].chunk \subseteq tx[t].todo
      <3>1. ~Recorded(r)
        BY <1>4, <2>2 DEF Alone
      <3>2. CASE rows' = rows
        BY <3>1, <3>2 DEF Recorded
      <3>3. CASE r \in tx[t].todo
        <4>1. r \notin tx[t].chunk
          BY <3>3 DEF Inv, Mine, Proper
        <4> QED
          BY <1>2, <1>3, <3>1, <4>1 DEF Recorded
      <3> QED
        BY <1>4, <2>2, <3>2, <3>3
    <2> QED
      BY <1>4, <2>1, <2>2 DEF Step, Listing
  <1>5. CASE u # t
    <2>1. tx'[u] = tx[u]
      BY <1>1, <1>5 DEF Step, Local
    <2>2. ~Recorded(r)
      BY <2>1 DEF Alone
    <2>3. ~(t \in Runs /\ tx[t].step \in {"count", "commit"})
      BY <1>5, <2>1 DEF OneRun, Working, InTx
    <2> QED
      BY <1>2, <1>3, <2>2, <2>3 DEF Recorded
  <1> QED
    BY <1>4, <1>5

LEMMA AccountStep ==
  ASSUME Inv, Alone, AllAccounted, NEW t \in Txs, Step(t)
  PROVE  AllAccounted'
  <1> SUFFICES ASSUME NEW w \in Works, reads'[w] = "import"
               PROVE  \E r \in RowNos : rows'[r] = Made(w)
    BY DEF AllAccounted, Made
  <1>1. CASE reads[w] = "import"
    <2>1. PICK r \in RowNos : rows[r] = Made(w)
      BY <1>1 DEF AllAccounted
    <2>2. rows[r].state = "resolved"
      BY <2>1 DEF Made
    <2>3. held[RowLock(r)] # t
      BY <2>2 DEF Inv, Mine, Holds, Recorded, Open
    <2> QED
      BY <2>1, <2>3, WrittenRows
  <1>2. CASE tx[t].step = "commit" /\ w \in tx[t].reads /\ rows' = View(t)
    <2>1. /\ Proper(tx[t]) /\ Kept(tx[t]) /\ Holds(t) /\ tx[t].chunk \subseteq RowNos
      BY DEF Inv, Mine, Tables, TxStates
    <2>2. tx[t].own = {}
      BY <1>2, <2>1 DEF Proper
    <2>3. PICK q \in tx[t].chunk \ tx[t].left : tx[t].out[q] = Made(w)
      BY <1>2, <2>1, <2>2 DEF Kept
    <2>4. t \in Runs => ~Recorded(q)
      BY <1>2, <2>3 DEF Alone, Working, InTx
    <2>5. held[RowLock(q)] = t
      BY <1>2, <2>1, <2>3, <2>4 DEF Holds, Txs, InTx
    <2> QED
      BY <1>2, <2>1, <2>3, <2>5, ViewIs
  <1> QED
    BY <1>1, <1>2 DEF Step, Importing

\* As long as a run begins only when the one before it is over, every book the
\* import has put in the library is a row that says so, whatever matches change
\* between the runs, and whatever fails, dies, is redone, resolved, skipped, logged
\* or removed meanwhile (processImport: resumption; commitChunk).
THEOREM AccountedCorrect == Spec /\ []OneRun => []Accounted
  <1>1. Init => Alone /\ AllAccounted
    BY TxFacts DEF Init, Off, Alone, AllAccounted, Working, InTx
  <1>2. Inv /\ OneRun /\ Alone /\ AllAccounted /\ [Next]_vars => (Alone /\ AllAccounted)'
    <2> SUFFICES ASSUME Inv, OneRun, Alone, AllAccounted, [Next]_vars PROVE Alone' /\ AllAccounted'
      OBVIOUS
    <2>1. CASE Next
      BY <2>1, NextIsStep, AloneStep, AccountStep
    <2>2. CASE UNCHANGED vars
      BY <2>2 DEF vars, Alone, AllAccounted, Recorded
    <2> QED
      BY <2>1, <2>2
  <1>3. AllAccounted => Accounted
    BY DEF AllAccounted, Accounted, Made
  <1> QED
    BY <1>1, <1>2, <1>3, InvCorrect, PTL DEF Spec

=============================================================================
