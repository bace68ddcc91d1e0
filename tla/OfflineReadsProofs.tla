------------------------- MODULE OfflineReadsProofs -------------------------
(***************************************************************************)
(* The reads of one book on a device: types, what a toast may say, what a  *)
(* refresh shows, and that neither a list nor an answer hides a write or   *)
(* shows a deleted read, for any number of reads, writes, faults and       *)
(* screens.                                                                *)
(***************************************************************************)
EXTENDS OfflineReads, FiniteSetTheorems, SequenceTheorems, WellFoundedInduction, TLAPS

Attempt == [live : BOOLEAN, over : BOOLEAN, has : SUBSET Writes, by : SUBSET Writes, no : Nat \ {0}]
Read == [over : BOOLEAN, no : Nat, shows : SUBSET Writes, synced : BOOLEAN]
Row == [entity : Ids, action : Actions, status : {"pending", "processing", "dead", "gone"}]
Creates == {"upsert", "absent"}

-----------------------------------------------------------------------------
(* Types, by table.                                                        *)

ServerOK ==
    /\ server \in Seq(Attempt) /\ Len(server) <= MaxReads
    /\ \A s \in Made : server[s].no <= s

ReadsOK == DOMAIN reads \subseteq Ids /\ reads \in [DOMAIN reads -> Read]

\* Writes are numbered without a gap.
RowsOK ==
    /\ Next1 \in Nat /\ DOMAIN row = 1 .. Next1 - 1 /\ DOMAIN row \subseteq Writes
    /\ row \in [DOMAIN row -> Row]

AliasOK == DOMAIN alias \subseteq Ids /\ alias \in [DOMAIN alias -> ServerIds]

FlightOK ==
    /\ flight \in [step : {"idle", "sent", "answered"}, w : Nat,
                   said : {"none", "ok", "exists", "refused"}, id : Nat]
    /\ flight.step = "idle" => flight.w = 0
    /\ flight.step # "idle" => flight.w \in DOMAIN row
    /\ \A w \in DOMAIN row : row[w].status = "processing" <=> w = flight.w
    /\ flight.step = "answered" => flight.said # "none"

ListsOK ==
    /\ DOMAIN list = Screens
    /\ \A c \in Screens : /\ list[c] \in [DOMAIN list[c] -> Read]
                          /\ DOMAIN list[c] \subseteq Made
                          /\ \A s \in DOMAIN list[c] : list[c][s].synced

AskingOK ==
    /\ asking \in [step : {"idle", "alias", "row"}, local : Nat, id : Nat, w : Nat]
    /\ drafting \in Ids \cup {0}
    /\ drafting # 0 => Next1 \in Writes

HistoryOK ==
    /\ DOMAIN meant = DOMAIN row
    /\ died \subseteq DOMAIN row /\ mixed \subseteq Ids
    /\ \A s \in Made : server[s].by \subseteq DOMAIN row
    /\ faults \in 0 .. MaxFaults /\ elsewhere \in 0 .. MaxElsewhere

Types == ServerOK /\ ReadsOK /\ RowsOK /\ AliasOK /\ FlightOK /\ ListsOK /\ AskingOK /\ HistoryOK

-----------------------------------------------------------------------------
(* What ids stand for.                                                     *)

\* An id of the server, wherever it is, is of an attempt the server made.
Real ==
    /\ \A i \in DOMAIN reads : i \in ServerIds => i \in Made
    /\ \A i \in DOMAIN alias : alias[i] \in Made
    /\ \A w \in DOMAIN row : row[w].entity \in ServerIds => row[w].entity \in Made
    /\ drafting \in ServerIds => drafting \in Made

\* What was answered: an attempt, which for a write is the one it names.
Answer ==
    flight.step = "answered" =>
        /\ flight.said = "ok" /\ row[flight.w].action \in Creates => flight.id \in Made
        /\ flight.said = "ok" /\ row[flight.w].action \notin Creates => flight.id = row[flight.w].entity
        /\ flight.said = "ok" /\ row[flight.w].action \notin Creates \cup {"delete"} => flight.id \in Made
        /\ flight.said = "exists" => row[flight.w].action = "absent"

\* A local id: its read is on the device only until it is answered, and then no row
\* is left to it but a review's, that was being written.
Locals ==
    /\ \A i \in DOMAIN reads : i \in LocalIds => i \notin DOMAIN alias /\ ~reads[i].synced
    /\ \A w \in DOMAIN row : row[w].entity \in LocalIds =>
          /\ meant[w] = row[w].entity
          /\ row[w].entity \in DOMAIN alias => row[w].action = "review"
          /\ row[w].action = "delete" => row[w].entity \notin DOMAIN reads
          /\ row[w].action = "absent" => \A v \in 1 .. w - 1 : row[v].entity # row[w].entity

\* Ids of two reads: an attempt that has another's id for an alias, and that id.
Mixing ==
    /\ \A i \in mixed : i \in LocalIds => i \in DOMAIN alias
    /\ \A s \in DOMAIN alias : s \in ServerIds => s \in mixed /\ alias[s] \in mixed

\* A row the device may still send out of its turn was a dead letter.
Turns ==
    /\ \A w \in DOMAIN row : row[w].status = "dead" => w \in died
    /\ flight.step # "idle" /\ row[flight.w].action # "review" /\ row[flight.w].entity \notin mixed =>
          \A v \in 1 .. flight.w - 1 :
             row[v].entity = row[flight.w].entity /\ row[v].status = "pending" => v \in died
    /\ \A w \in DOMAIN row : row[w].action = "absent" /\ Queued(w) /\ row[w].entity \in ServerIds =>
          row[w].entity \in mixed \/ w \in died

\* What waits for an attempt is shown, and marked as unsent, until it is deleted.
Waits(w) ==
    /\ Queued(w) /\ row[w].action \notin {"delete", "review"} /\ row[w].entity \notin mixed /\ w \notin crossed
    /\ meant[w] = row[w].entity /\ row[w].entity \in ServerIds
    /\ \A v \in died : row[v].entity # row[w].entity

StillThere(w) ==
    LET e == row[w].entity
    IN  \/ e \in DOMAIN reads /\ w \in reads[e].shows /\ ~reads[e].synced
        \/ e \notin DOMAIN reads /\ \E d \in DOMAIN row :
              d > w /\ row[d].entity = e /\ row[d].action = "delete" /\ Queued(d)

Shows == \A w \in DOMAIN row : Waits(w) => StillThere(w)

Inv == Types /\ Real /\ Answer /\ Locals /\ Mixing /\ Turns /\ DirtyQueued

-----------------------------------------------------------------------------
(* Ids, and the highest of finitely many numbers.                          *)

LEMMA IdSets ==
  /\ MaxReads \in Nat /\ MaxLocal \in Nat /\ MaxWrites \in Nat /\ MaxFaults \in Nat /\ MaxElsewhere \in Nat
  /\ Ids \subseteq Nat \ {0} /\ Writes \subseteq Nat \ {0}
  /\ ServerIds \cap LocalIds = {} /\ Ids = ServerIds \cup LocalIds
  /\ 0 \notin Ids /\ ServerIds \subseteq Nat
  <1> QED
    BY OfflineAssumption DEF Ids, ServerIds, LocalIds, Writes

\* Of finitely many things, one has the highest number.
LEMMA TopOf ==
  ASSUME NEW D, IsFiniteSet(D), NEW f \in [D -> Nat], D # {}
  PROVE  \E i \in D : \A k \in D : f[k] <= f[i]
  <1> DEFINE Above(i) == {k \in D : f[k] > f[i]}
             F == {Above(i) : i \in D}
  <1>1. F \subseteq SUBSET D /\ F # {}
    <2>1. PICK x \in D : TRUE
      OBVIOUS
    <2>2. Above(x) \in F
      BY <2>1
    <2>3. \A i \in D : Above(i) \subseteq D
      OBVIOUS
    <2> QED
      BY <2>2, <2>3
  <1>2. \A c \in SUBSET D : IsFiniteSet(c)
    BY FS_Subset
  <1>3. F \subseteq FiniteSubsetsOf(D)
    BY <1>1, <1>2 DEF FiniteSubsetsOf
  <1>4. \E d \in F : \A c \in F : ~ (<<c, d>> \in StrictSubsetOrdering(D))
    <2>1. IsWellFoundedOn(StrictSubsetOrdering(D), FiniteSubsetsOf(D))
      BY FS_StrictSubsetOrderingWellFounded
    <2> HIDE DEF F
    <2> QED
      BY <2>1, <1>1, <1>3, WFMin
  <1>5. \A c, d \in F : c \subseteq d /\ c # d => <<c, d>> \in StrictSubsetOrdering(D)
    BY <1>1 DEF StrictSubsetOrdering
  <1>6. PICK d \in F : \A c \in F : c \subseteq d => c = d
    BY <1>4, <1>5
  <1>7. PICK i \in D : d = Above(i)
    BY <1>6
  <1>8. ASSUME NEW k \in D, ~ (f[k] <= f[i])
        PROVE  FALSE
    <2>1. f[k] \in Nat /\ f[i] \in Nat /\ f[k] > f[i]
      BY <1>8
    <2>2. Above(k) \subseteq Above(i)
      <3>1. \A x \in D : f[x] \in Nat
        OBVIOUS
      <3> QED
        BY <2>1, <3>1
    <2>3. k \in Above(i) /\ k \notin Above(k)
      BY <2>1
    <2>4. Above(k) \in F
      BY <1>8
    <2> QED
      BY <2>2, <2>3, <2>4, <1>6, <1>7
  <1> QED
    BY <1>8

LEMMA HighestOf ==
  ASSUME NEW D, IsFiniteSet(D), NEW f \in [D -> Nat]
  PROVE  LET nos == {0} \cup {f[i] : i \in D}
         IN  Highest(nos) \in nos /\ Highest(nos) \in Nat /\ \A k \in nos : k <= Highest(nos)
  <1> DEFINE nos == {0} \cup {f[i] : i \in D}
  <1>1. nos \subseteq Nat
    OBVIOUS
  <1>2. \E n \in nos : \A k \in nos : k <= n
    <2>1. CASE D = {}
      <3>1. 0 \in nos /\ \A k \in nos : k <= 0
        BY <2>1
      <3> QED
        BY <3>1
    <2>2. CASE D # {}
      <3>1. PICK i \in D : \A k \in D : f[k] <= f[i]
        BY <2>2, TopOf
      <3>2. f[i] \in nos /\ 0 <= f[i]
        BY <3>1
      <3> QED
        BY <3>1, <3>2
    <2> QED
      BY <2>1, <2>2
  <1>3. Highest(nos) \in nos /\ \A k \in nos : k <= Highest(nos)
    <2> HIDE DEF nos
    <2> QED
      BY <1>2 DEF Highest
  <1> QED
    BY <1>1, <1>3

-----------------------------------------------------------------------------
(* What a step does to a table.                                            *)

LEMMA MadeIds ==
  ASSUME ServerOK
  PROVE  /\ Len(server) \in Nat /\ Made = 1 .. Len(server) /\ Made \subseteq ServerIds
         /\ \A s \in Made : server[s] \in Attempt
         /\ IsFiniteSet(Made)
  <1>1. Len(server) \in Nat /\ Made = 1 .. Len(server) /\ \A s \in 1 .. Len(server) : server[s] \in Attempt
    BY DEF ServerOK, Made
  <1>2. 1 .. Len(server) \subseteq ServerIds
    BY <1>1, IdSets DEF ServerOK, ServerIds
  <1>3. IsFiniteSet(1 .. Len(server))
    BY <1>1, FS_Interval
  <1> QED
    BY <1>1, <1>2, <1>3

LEMMA ReadsFinite ==
  ASSUME ReadsOK
  PROVE  IsFiniteSet(DOMAIN reads)
  <1>1. IsFiniteSet(1 .. MaxReads + MaxLocal) /\ Ids \subseteq 1 .. MaxReads + MaxLocal
    BY IdSets, FS_Interval DEF Ids, ServerIds, LocalIds
  <1> QED
    BY <1>1, FS_Subset DEF ReadsOK

\* A read that shows one write more.
LEMMA ShownReads ==
  ASSUME ReadsOK, NEW e \in DOMAIN reads, Next1 \in Writes
  PROVE  /\ Shown(e) \in Read /\ [Shown(e) EXCEPT !.over = TRUE] \in Read
         /\ Shown(e).shows = reads[e].shows \cup {Next1} /\ ~Shown(e).synced
         /\ [Shown(e) EXCEPT !.over = TRUE].shows = reads[e].shows \cup {Next1}
         /\ ~[Shown(e) EXCEPT !.over = TRUE].synced
  <1>1. reads[e] \in Read
    BY DEF ReadsOK
  <1> QED
    BY <1>1 DEF Shown, Read

LEMMA NewRows ==
  ASSUME ReadsOK, Next1 \in Writes
  PROVE  NewRow \in Read /\ ~NewRow.synced
  <1> DEFINE f == [i \in DOMAIN reads |-> reads[i].no]
  <1>1. f \in [DOMAIN reads -> Nat]
    BY DEF ReadsOK, Read
  <1>2. IsFiniteSet(DOMAIN reads)
    BY ReadsFinite
  <1>3. {reads[i].no : i \in DOMAIN reads} = {f[i] : i \in DOMAIN reads}
    OBVIOUS
  <1>4. Highest({0} \cup {f[i] : i \in DOMAIN reads}) \in Nat
    <2> HIDE DEF f
    <2> QED
      BY <1>1, <1>2, HighestOf
  <1>5. Highest({0} \cup {reads[i].no : i \in DOMAIN reads}) \in Nat
    BY <1>3, <1>4
  <1> QED
    BY <1>5 DEF NewRow, Read

\* A row more.
LEMMA EnqueuedRows ==
  ASSUME RowsOK, DOMAIN meant = DOMAIN row, NEW n, n = Next1, n \in Writes,
         NEW e \in Ids, NEW t, NEW a \in Actions, Enqueue(e, t, a)
  PROVE  /\ RowsOK' /\ n \in Nat /\ n \notin DOMAIN row
         /\ DOMAIN row' = DOMAIN row \cup {n} /\ DOMAIN meant' = DOMAIN row'
         /\ row'[n] = [entity |-> e, action |-> a, status |-> "pending"] /\ meant'[n] = t
         /\ \A w \in DOMAIN row : w < n /\ row'[w] = row[w] /\ meant'[w] = meant[w]
  <1>1. n \in Nat /\ DOMAIN row = 1 .. n - 1
    BY DEF RowsOK
  <1>2. /\ n \notin DOMAIN row /\ \A w \in DOMAIN row : w < n /\ w # n
        /\ 1 .. n = DOMAIN row \cup {n}
    BY <1>1, IdSets
  <1>3. /\ DOMAIN row' = DOMAIN row \cup {n} /\ DOMAIN meant' = DOMAIN row'
        /\ row'[n] = [entity |-> e, action |-> a, status |-> "pending"] /\ meant'[n] = t
        /\ \A w \in DOMAIN row : row'[w] = row[w] /\ meant'[w] = meant[w]
        /\ row' = [w \in DOMAIN row' |-> row'[w]]
    BY <1>2 DEF Enqueue, Put
  <1>4. Cardinality(1 .. n) = n
    BY <1>1, IdSets, FS_Interval
  <1>5. Next1' = n + 1
    BY <1>2, <1>3, <1>4 DEF Next1
  <1>6. row'[n] \in Row
    BY <1>3 DEF Row
  <1>7. RowsOK'
    <2>1. \A w \in DOMAIN row' : row'[w] \in Row
      BY <1>3, <1>6 DEF RowsOK
    <2>2. row' \in [DOMAIN row' -> Row]
      BY <2>1, <1>3
    <2>3. DOMAIN row' = 1 .. Next1' - 1 /\ Next1' \in Nat
      BY <1>1, <1>2, <1>3, <1>5
    <2>4. DOMAIN row' \subseteq Writes
      BY <1>3 DEF RowsOK
    <2> QED
      BY <2>2, <2>3, <2>4 DEF RowsOK
  <1> QED
    BY <1>1, <1>2, <1>3, <1>7

-----------------------------------------------------------------------------
(* A write of the reader: a row of the queue, and what it does to reads.   *)

Written == <<server, alias, flight, list, died, mixed, crossed, faults, elsewhere>>

Rewrote(e, t, a) ==
    /\ CanWrite /\ e \in DOMAIN reads /\ (e \in LocalIds => t = e)
    /\ a \in {"write", "finish", "upsert"}
    /\ \E r \in {Shown(e), [Shown(e) EXCEPT !.over = TRUE]} : reads' = [reads EXCEPT ![e] = r]
    /\ Enqueue(e, t, a) /\ UNCHANGED <<Written, drafting, asking>>

Created(l, a) ==
    /\ CanWrite /\ l \in FreshLocal /\ a \in Creates
    /\ reads' = Put(reads, l, NewRow)
    /\ Enqueue(l, l, a) /\ UNCHANGED <<Written, drafting>>
    /\ AskingOK => AskingOK'

Deleted(e, t) ==
    /\ CanWrite /\ e \in DOMAIN reads /\ (e \in LocalIds => t = e)
    /\ reads' = Without(reads, e)
    /\ Enqueue(e, t, "delete") /\ UNCHANGED <<Written, drafting, asking>>

LEMMA FreshIds ==
  ASSUME Types, NEW l \in FreshLocal
  PROVE  /\ l \in LocalIds /\ l \in Ids /\ l \notin ServerIds /\ l \notin DOMAIN reads /\ l \notin DOMAIN alias
         /\ \A w \in DOMAIN row : row[w].entity # l
  <1> QED
    BY IdSets DEF FreshLocal

LEMMA LeastFresh ==
  ASSUME Types, FreshLocal # {}
  PROVE  (CHOOSE l \in FreshLocal : \A k \in FreshLocal : l <= k) \in FreshLocal
  <1>1. FreshLocal \subseteq Nat
    BY IdSets DEF FreshLocal
  <1>2. \E l \in FreshLocal : \A k \in FreshLocal : l <= k
    <2>1. IsWellFoundedOn(OpToRel(<, Nat), Nat)
      BY NatLessThanWellFounded
    <2>2. PICK l \in FreshLocal : \A k \in FreshLocal : ~ (<<k, l>> \in OpToRel(<, Nat))
      <3> HIDE DEF FreshLocal
      <3> QED
        BY <1>1, <2>1, WFMin
    <2>3. \A k \in FreshLocal : ~ (k < l)
      BY <1>1, <2>2 DEF OpToRel
    <2> HIDE DEF FreshLocal
    <2> QED
      BY <1>1, <2>3
  <1> QED
    BY <1>2

LEMMA ReaderEffects ==
  ASSUME Types, Reader
  PROVE  \/ \E e \in Ids, t \in Ids, a \in Actions : Rewrote(e, t, a)
         \/ \E l \in FreshLocal, a \in Actions : Created(l, a)
         \/ \E e \in Ids, t \in Ids : Deleted(e, t)
         \/ \E i \in Ids : ReviewUpdate(i)
  <1>1. ASSUME NEW i \in Ids, Resolve(i) \in DOMAIN reads
        PROVE  Resolve(i) \in Ids /\ (Resolve(i) \in LocalIds => i = Resolve(i))
    BY <1>1, IdSets DEF Types, ReadsOK, AliasOK, Resolve
  <1>2. ASSUME NEW i \in Ids, AddProgress(i)
        PROVE  Rewrote(Resolve(i), i, "write")
    BY <1>1, <1>2 DEF AddProgress, OnScreen, Rewrote, Written
  <1>3. ASSUME NEW i \in Ids, FinishRead(i)
        PROVE  Rewrote(Resolve(i), i, "finish")
    BY <1>1, <1>3 DEF FinishRead, OnScreen, Rewrote, Written
  <1>4. ASSUME NEW i \in Ids, DeleteRead(i)
        PROVE  Deleted(Resolve(i), i)
    BY <1>1, <1>4 DEF DeleteRead, OnScreen, Deleted, Written
  <1>5. ASSUME SaveReadStatus
        PROVE  \/ \E e \in Ids : Rewrote(e, e, "upsert")
               \/ \E l \in FreshLocal : Created(l, "upsert")
    <2>1. CASE \E i \in Latest : /\ ~reads[i].over
                                 /\ reads' = [reads EXCEPT ![i] = Shown(i)]
                                 /\ Enqueue(i, i, "upsert")
      BY <1>5, <2>1 DEF SaveReadStatus, Rewrote, Written, Latest, Types, ReadsOK
    <2>2. CASE /\ FreshLocal # {}
               /\ LET l == CHOOSE l \in FreshLocal : \A k \in FreshLocal : l <= k
                  IN  reads' = Put(reads, l, NewRow) /\ Enqueue(l, l, "upsert")
      <3>1. AskingOK => AskingOK'
        BY <1>5 DEF SaveReadStatus, CanWrite, AskingOK
      <3> QED
        BY <1>5, <2>2, <3>1, LeastFresh DEF SaveReadStatus, Created, Written, Creates
    <2> QED
      BY <1>5, <2>1, <2>2 DEF SaveReadStatus
  <1>6. ASSUME WantToRead
        PROVE  \E l \in FreshLocal : Created(l, "absent")
    <2> DEFINE l == CHOOSE l \in FreshLocal : \A k \in FreshLocal : l <= k
    <2>1. l \in FreshLocal
      BY <1>6, LeastFresh DEF WantToRead
    <2>2. /\ asking' = [NotAsking EXCEPT !.step = "alias", !.local = l, !.w = Next1]
          /\ CanWrite /\ reads' = Put(reads, l, NewRow) /\ Enqueue(l, l, "absent")
          /\ UNCHANGED <<Written, drafting>>
      BY <1>6 DEF WantToRead, Written
    <2>3. l \in Nat /\ Next1 \in Nat
      BY <2>1, IdSets, FreshIds DEF Types, RowsOK
    <2>4. AskingOK => AskingOK'
      BY <2>2, <2>3 DEF AskingOK, NotAsking, CanWrite
    <2> QED
      BY <2>1, <2>2, <2>4 DEF Created, Creates
  <1>7. {"write", "finish", "upsert", "absent"} \subseteq Actions
    BY DEF Actions
  <1> QED
    BY <1>1, <1>2, <1>3, <1>4, <1>5, <1>6, <1>7 DEF Reader, AddProgress, FinishRead, DeleteRead, OnScreen

\* What a new row leaves as it was, whatever it does to reads.
LEMMA EnqueuedKeeps ==
  ASSUME Types, Answer, Mixing, Turns, Real, NEW n, n = Next1, n \in Writes,
         NEW e \in Ids, NEW t, NEW a \in Actions, Enqueue(e, t, a),
         e \in ServerIds => e \in Made,
         a = "absent" => e \in LocalIds,
         UNCHANGED Written
  PROVE  /\ ServerOK' /\ RowsOK' /\ AliasOK' /\ FlightOK' /\ ListsOK' /\ HistoryOK'
         /\ Answer' /\ Mixing' /\ Turns'
         /\ \A i \in DOMAIN alias' : alias'[i] \in Made'
         /\ \A w \in DOMAIN row' : row'[w].entity \in ServerIds => row'[w].entity \in Made'
  <1> USE DEF Written, Types
  <1>1. /\ RowsOK' /\ n \in Nat /\ n \notin DOMAIN row
        /\ DOMAIN row' = DOMAIN row \cup {n} /\ DOMAIN meant' = DOMAIN row'
        /\ row'[n] = [entity |-> e, action |-> a, status |-> "pending"] /\ meant'[n] = t
        /\ \A w \in DOMAIN row : w < n /\ row'[w] = row[w] /\ meant'[w] = meant[w]
    BY EnqueuedRows DEF HistoryOK
  <1>2. Made' = Made /\ UNCHANGED Made
    BY DEF Made
  <1>3. ServerOK' /\ AliasOK' /\ ListsOK'
    BY <1>2 DEF ServerOK, AliasOK, ListsOK
  <1>4. FlightOK'
    <2>1. flight.w # n
      BY <1>1, IdSets DEF FlightOK
    <2>2. row'[n].status = "pending"
      BY <1>1
    <2> QED
      BY <1>1, <2>1, <2>2 DEF FlightOK
  <1>5. HistoryOK'
    BY <1>1, <1>2 DEF HistoryOK
  <1>6. Answer'
    BY <1>1, <1>2 DEF Answer, FlightOK
  <1>7. Mixing'
    BY DEF Mixing
  <1>8. Turns'
    <2>1. \A w \in DOMAIN row' : row'[w].status = "dead" => w \in died'
      BY <1>1 DEF Turns
    <2>2. flight'.step # "idle" /\ row'[flight'.w].action # "review" /\ row'[flight'.w].entity \notin mixed' =>
             \A v \in 1 .. flight'.w - 1 :
                row'[v].entity = row'[flight'.w].entity /\ row'[v].status = "pending" => v \in died'
      <3>1. flight.step # "idle" => flight.w \in DOMAIN row /\ \A v \in 1 .. flight.w - 1 : v \in DOMAIN row
        BY DEF FlightOK, RowsOK
      <3> QED
        BY <3>1, <1>1 DEF Turns
    <2>3. \A w \in DOMAIN row' : row'[w].action = "absent" /\ Queued(w)' /\ row'[w].entity \in ServerIds =>
             row'[w].entity \in mixed' \/ w \in died'
      BY <1>1, IdSets DEF Turns, Queued
    <2> QED
      BY <2>1, <2>2, <2>3 DEF Turns
  <1>9. \A i \in DOMAIN alias' : alias'[i] \in Made'
    BY <1>2 DEF Real
  <1>10. \A w \in DOMAIN row' : row'[w].entity \in ServerIds => row'[w].entity \in Made'
    BY <1>1, <1>2 DEF Real
  <1> QED
    BY <1>1, <1>3, <1>4, <1>5, <1>6, <1>7, <1>8, <1>9, <1>10

LEMMA RewroteKeeps ==
  ASSUME Inv, NEW e \in Ids, NEW t \in Ids, NEW a \in Actions, Rewrote(e, t, a)
  PROVE  Inv'
  <1>n. PICK n \in Nat : n = Next1
    BY DEF Inv, Types, RowsOK
  <1>0. /\ n \in Writes /\ e \in DOMAIN reads /\ drafting = 0 /\ a \in {"write", "finish", "upsert"}
        /\ Enqueue(e, t, a) /\ UNCHANGED <<Written, drafting, asking>> /\ (e \in LocalIds => t = e)
    BY <1>n DEF Rewrote, CanWrite
  <1>1. e \in ServerIds => e \in Made
    BY <1>0 DEF Inv, Real
  <1>2. /\ ServerOK' /\ RowsOK' /\ AliasOK' /\ FlightOK' /\ ListsOK' /\ HistoryOK'
        /\ Answer' /\ Mixing' /\ Turns'
        /\ \A i \in DOMAIN alias' : alias'[i] \in Made'
        /\ \A w \in DOMAIN row' : row'[w].entity \in ServerIds => row'[w].entity \in Made'
    BY <1>n, <1>0, <1>1, EnqueuedKeeps DEF Inv
  <1>3. /\ n \notin DOMAIN row
        /\ DOMAIN row' = DOMAIN row \cup {n}
        /\ row'[n] = [entity |-> e, action |-> a, status |-> "pending"] /\ meant'[n] = t
        /\ \A w \in DOMAIN row : w < n /\ row'[w] = row[w] /\ meant'[w] = meant[w]
    BY <1>n, <1>0, EnqueuedRows DEF Inv, Types, HistoryOK
  <1>4. /\ DOMAIN reads' = DOMAIN reads /\ ReadsOK' /\ ~reads'[e].synced
        /\ \A i \in DOMAIN reads : i # e => reads'[i] = reads[i]
    <2>1. PICK r \in {Shown(e), [Shown(e) EXCEPT !.over = TRUE]} : reads' = [reads EXCEPT ![e] = r]
      BY DEF Rewrote
    <2>2. r \in Read /\ ~r.synced
      BY <2>1, <1>n, <1>0, ShownReads DEF Inv, Types
    <2> QED
      BY <2>1, <2>2, <1>0 DEF Inv, Types, ReadsOK
  <1>5. AskingOK'
    BY <1>0 DEF Inv, Types, AskingOK
  <1>6. Made' = Made
    BY <1>0 DEF Made, Written
  <1>7. Real'
    BY <1>0, <1>2, <1>4, <1>6 DEF Inv, Real, Written
  <1>8. Locals'
    <2>1. \A i \in DOMAIN reads' : i \in LocalIds => i \notin DOMAIN alias' /\ ~reads'[i].synced
      BY <1>0, <1>4 DEF Inv, Locals, Written
    <2>2. ASSUME NEW w \in DOMAIN row, row[w].entity \in LocalIds
          PROVE  /\ meant'[w] = row'[w].entity
                 /\ row'[w].entity \in DOMAIN alias' => row'[w].action = "review"
                 /\ row'[w].action = "delete" => row'[w].entity \notin DOMAIN reads'
                 /\ row'[w].action = "absent" => \A v \in 1 .. w - 1 : row'[v].entity # row'[w].entity
      <3>1. \A v \in 1 .. w - 1 : v \in DOMAIN row
        BY DEF Inv, Types, RowsOK
      <3> QED
        BY <2>2, <3>1, <1>0, <1>3, <1>4 DEF Inv, Locals, Written
    <2>3. row'[n].entity \in LocalIds =>
                 /\ meant'[n] = row'[n].entity
                 /\ row'[n].entity \in DOMAIN alias' => row'[n].action = "review"
                 /\ row'[n].action \notin {"delete", "absent"}
      BY <1>0, <1>3 DEF Inv, Locals, Written
    <2> QED
      BY <1>3, <2>1, <2>2, <2>3 DEF Locals
  <1>9. DirtyQueued'
    <2>1. \A w \in DOMAIN row : Queued(w) => Queued(w)'
      BY <1>3 DEF Queued
    <2>2. Queued(n)'
      BY <1>3 DEF Queued
    <2>3. UNCHANGED <<alias, died>>
      BY <1>0 DEF Written
    <2> QED
      BY <2>1, <2>2, <2>3, <1>3, <1>4 DEF Inv, DirtyQueued
  <1> QED
    BY <1>2, <1>4, <1>5, <1>7, <1>8, <1>9 DEF Inv, Types

LEMMA CreatedKeeps ==
  ASSUME Inv, NEW l \in FreshLocal, NEW a \in Actions, Created(l, a)
  PROVE  Inv'
  <1>n. PICK n \in Nat : n = Next1
    BY DEF Inv, Types, RowsOK
  <1>l. /\ l \in LocalIds /\ l \in Ids /\ l \notin ServerIds /\ l \notin DOMAIN reads /\ l \notin DOMAIN alias
        /\ \A w \in DOMAIN row : row[w].entity # l
    BY FreshIds DEF Inv
  <1>0. /\ n \in Writes /\ drafting = 0 /\ a \in Creates
        /\ Enqueue(l, l, a) /\ UNCHANGED <<Written, drafting>>
    BY <1>n DEF Created, CanWrite
  <1>2. /\ ServerOK' /\ RowsOK' /\ AliasOK' /\ FlightOK' /\ ListsOK' /\ HistoryOK'
        /\ Answer' /\ Mixing' /\ Turns'
        /\ \A i \in DOMAIN alias' : alias'[i] \in Made'
        /\ \A w \in DOMAIN row' : row'[w].entity \in ServerIds => row'[w].entity \in Made'
    BY <1>n, <1>0, <1>l, EnqueuedKeeps DEF Inv
  <1>3. /\ n \notin DOMAIN row
        /\ DOMAIN row' = DOMAIN row \cup {n}
        /\ row'[n] = [entity |-> l, action |-> a, status |-> "pending"] /\ meant'[n] = l
        /\ \A w \in DOMAIN row : w < n /\ row'[w] = row[w] /\ meant'[w] = meant[w]
    BY <1>n, <1>0, <1>l, EnqueuedRows DEF Inv, Types, HistoryOK
  <1>4. /\ DOMAIN reads' = DOMAIN reads \cup {l} /\ ReadsOK' /\ ~reads'[l].synced
        /\ \A i \in DOMAIN reads : reads'[i] = reads[i]
    <2>1. NewRow \in Read /\ ~NewRow.synced
      BY <1>n, <1>0, NewRows DEF Inv, Types
    <2> QED
      BY <2>1, <1>l DEF Inv, Types, ReadsOK, Created, Put
  <1>5. AskingOK'
    BY DEF Inv, Types, Created
  <1>6. Made' = Made
    BY <1>0 DEF Made, Written
  <1>7. Real'
    <2>2. drafting' \in ServerIds => drafting' \in Made'
      BY <1>0, <1>6 DEF Inv, Real
    <2>3. \A i \in DOMAIN reads' : i \in ServerIds => i \in Made'
      BY <1>4, <1>l, <1>6 DEF Inv, Real
    <2> QED
      BY <2>2, <2>3, <1>2 DEF Real
  <1>8. Locals'
    <2>1. \A i \in DOMAIN reads' : i \in LocalIds => i \notin DOMAIN alias' /\ ~reads'[i].synced
      BY <1>0, <1>4, <1>l DEF Inv, Locals, Written
    <2>2. ASSUME NEW w \in DOMAIN row, row[w].entity \in LocalIds
          PROVE  /\ meant'[w] = row'[w].entity
                 /\ row'[w].entity \in DOMAIN alias' => row'[w].action = "review"
                 /\ row'[w].action = "delete" => row'[w].entity \notin DOMAIN reads'
                 /\ row'[w].action = "absent" => \A v \in 1 .. w - 1 : row'[v].entity # row'[w].entity
      <3>1. \A v \in 1 .. w - 1 : v \in DOMAIN row
        BY DEF Inv, Types, RowsOK
      <3> QED
        BY <2>2, <3>1, <1>0, <1>l, <1>3, <1>4 DEF Inv, Locals, Written
    <2>3. /\ meant'[n] = row'[n].entity
          /\ row'[n].entity \notin DOMAIN alias' /\ row'[n].action # "delete"
          /\ \A v \in 1 .. n - 1 : row'[v].entity # row'[n].entity
      <3>1. \A v \in 1 .. n - 1 : v \in DOMAIN row
        BY <1>n DEF Inv, Types, RowsOK
      <3> QED
        BY <3>1, <1>0, <1>l, <1>3 DEF Written, Creates
    <2> QED
      BY <1>3, <2>1, <2>2, <2>3 DEF Locals
  <1>9. DirtyQueued'
    <2>1. \A w \in DOMAIN row : Queued(w) => Queued(w)'
      BY <1>3 DEF Queued
    <2>2. Queued(n)'
      BY <1>3 DEF Queued
    <2>3. UNCHANGED <<alias, died>>
      BY <1>0 DEF Written
    <2> QED
      BY <2>1, <2>2, <2>3, <1>3, <1>4 DEF Inv, DirtyQueued
  <1> QED
    BY <1>2, <1>4, <1>5, <1>7, <1>8, <1>9 DEF Inv, Types

LEMMA DeletedKeeps ==
  ASSUME Inv, NEW e \in Ids, NEW t \in Ids, Deleted(e, t)
  PROVE  Inv'
  <1>n. PICK n \in Nat : n = Next1
    BY DEF Inv, Types, RowsOK
  <1>0. /\ n \in Writes /\ e \in DOMAIN reads /\ drafting = 0 /\ "delete" \in Actions
        /\ Enqueue(e, t, "delete") /\ UNCHANGED <<Written, drafting, asking>> /\ (e \in LocalIds => t = e)
    BY <1>n DEF Deleted, CanWrite, Actions
  <1>1. e \in ServerIds => e \in Made
    BY <1>0 DEF Inv, Real
  <1>2. /\ ServerOK' /\ RowsOK' /\ AliasOK' /\ FlightOK' /\ ListsOK' /\ HistoryOK'
        /\ Answer' /\ Mixing' /\ Turns'
        /\ \A i \in DOMAIN alias' : alias'[i] \in Made'
        /\ \A w \in DOMAIN row' : row'[w].entity \in ServerIds => row'[w].entity \in Made'
    BY <1>n, <1>0, <1>1, EnqueuedKeeps DEF Inv
  <1>3. /\ n \notin DOMAIN row
        /\ DOMAIN row' = DOMAIN row \cup {n}
        /\ row'[n] = [entity |-> e, action |-> "delete", status |-> "pending"] /\ meant'[n] = t
        /\ \A w \in DOMAIN row : w < n /\ row'[w] = row[w] /\ meant'[w] = meant[w]
    BY <1>n, <1>0, EnqueuedRows DEF Inv, Types, HistoryOK
  <1>4. /\ DOMAIN reads' = DOMAIN reads \ {e} /\ ReadsOK'
        /\ \A i \in DOMAIN reads' : reads'[i] = reads[i]
    BY DEF Inv, Types, ReadsOK, Deleted, Without
  <1>5. AskingOK'
    BY <1>0 DEF Inv, Types, AskingOK
  <1>6. Made' = Made
    BY <1>0 DEF Made, Written
  <1>7. Real'
    BY <1>0, <1>2, <1>4, <1>6 DEF Inv, Real, Written
  <1>8. Locals'
    <2>1. \A i \in DOMAIN reads' : i \in LocalIds => i \notin DOMAIN alias' /\ ~reads'[i].synced
      BY <1>0, <1>4 DEF Inv, Locals, Written
    <2>2. ASSUME NEW w \in DOMAIN row, row[w].entity \in LocalIds
          PROVE  /\ meant'[w] = row'[w].entity
                 /\ row'[w].entity \in DOMAIN alias' => row'[w].action = "review"
                 /\ row'[w].action = "delete" => row'[w].entity \notin DOMAIN reads'
                 /\ row'[w].action = "absent" => \A v \in 1 .. w - 1 : row'[v].entity # row'[w].entity
      <3>1. \A v \in 1 .. w - 1 : v \in DOMAIN row
        BY DEF Inv, Types, RowsOK
      <3> QED
        BY <2>2, <3>1, <1>0, <1>3, <1>4 DEF Inv, Locals, Written
    <2>3. row'[n].entity \in LocalIds =>
                 /\ meant'[n] = row'[n].entity
                 /\ row'[n].entity \notin DOMAIN alias' /\ row'[n].entity \notin DOMAIN reads'
                 /\ row'[n].action # "absent"
      BY <1>0, <1>3, <1>4 DEF Inv, Locals, Written
    <2> QED
      BY <1>3, <2>1, <2>2, <2>3 DEF Locals
  <1>9. DirtyQueued'
    <2>1. \A w \in DOMAIN row : Queued(w) => Queued(w)'
      BY <1>3 DEF Queued
    <2>3. UNCHANGED <<alias, died>>
      BY <1>0 DEF Written
    <2> QED
      BY <2>1, <2>3, <1>3, <1>4 DEF Inv, DirtyQueued
  <1> QED
    BY <1>2, <1>4, <1>5, <1>7, <1>8, <1>9 DEF Inv, Types

LEMMA ReviewUpdateKeeps ==
  ASSUME Inv, NEW i \in Ids, ReviewUpdate(i)
  PROVE  Inv'
  <1>0. /\ Next1 \in Writes /\ UNCHANGED <<server, row, alias, flight, list, asking, meant, died, mixed, crossed, faults, elsewhere>>
    BY DEF ReviewUpdate, CanWrite
  <1>1. PICK e \in Ids : e = Resolve(i)
    BY DEF ReviewUpdate, OnScreen, Inv, Types, ReadsOK
  <1>2. /\ e \in DOMAIN reads /\ drafting' = e
        /\ reads' = [reads EXCEPT ![e].shows = @ \cup {Next1}]
    BY <1>1 DEF ReviewUpdate, OnScreen
  <1>3. /\ DOMAIN reads' = DOMAIN reads /\ ReadsOK'
        /\ \A j \in DOMAIN reads : reads'[j].synced = reads[j].synced /\ reads[j].shows \subseteq reads'[j].shows
    <2>1. \A j \in DOMAIN reads : j # e => reads'[j] = reads[j]
      BY <1>2
    <2>2. reads'[e] = [reads[e] EXCEPT !.shows = @ \cup {Next1}] /\ DOMAIN reads' = DOMAIN reads
      BY <1>2
    <2>3. reads[e] \in Read
      BY <1>2 DEF Inv, Types, ReadsOK
    <2>4. reads'[e] \in Read /\ reads'[e].synced = reads[e].synced /\ reads[e].shows \subseteq reads'[e].shows
      BY <2>2, <2>3, <1>0 DEF Read
    <2>5. reads' = [j \in DOMAIN reads |-> reads'[j]]
      BY <1>2
    <2> QED
      BY <2>1, <2>2, <2>4, <2>5 DEF Inv, Types, ReadsOK
  <1>4. Made' = Made /\ (\A w : Queued(w)' <=> Queued(w)) /\ Next1' = Next1
    BY <1>0 DEF Made, Queued, Next1
  <1>5. Types'
    <2>1. ServerOK' /\ AliasOK' /\ FlightOK'
      BY <1>0, <1>4 DEF Inv, Types, ServerOK, AliasOK, FlightOK
    <2>2. RowsOK'
      BY <1>0, <1>4 DEF Inv, Types, RowsOK
    <2>3. ListsOK' /\ HistoryOK'
      BY <1>0, <1>4 DEF Inv, Types, ListsOK, HistoryOK
    <2>4. AskingOK'
      BY <1>0, <1>2, <1>4 DEF Inv, Types, AskingOK
    <2> QED
      BY <2>1, <2>2, <2>3, <2>4, <1>3 DEF Types
  <1>6. Real'
    BY <1>0, <1>2, <1>3, <1>4 DEF Inv, Real
  <1>7. Answer' /\ Mixing'
    BY <1>0, <1>4 DEF Inv, Answer, Mixing
  <1>8. Locals'
    BY <1>0, <1>3 DEF Inv, Locals
  <1>9. Turns'
    BY <1>0, <1>4 DEF Inv, Turns
  <1>10. DirtyQueued'
    BY <1>0, <1>3, <1>4 DEF Inv, DirtyQueued
  <1> QED
    BY <1>5, <1>6, <1>7, <1>8, <1>9, <1>10 DEF Inv

LEMMA ReviewEnqueueKeeps ==
  ASSUME Inv, ReviewEnqueue
  PROVE  Inv'
  <1>n. PICK n \in Nat : n = Next1
    BY DEF Inv, Types, RowsOK
  <1>e. PICK e \in Ids : e = drafting
    BY DEF Inv, Types, AskingOK, ReviewEnqueue
  <1>0. /\ n \in Writes /\ "review" \in Actions /\ drafting' = 0
        /\ Enqueue(e, e, "review") /\ UNCHANGED <<Written, reads, asking>>
    BY <1>n, <1>e DEF ReviewEnqueue, Actions, Written, Inv, Types, AskingOK
  <1>1. e \in ServerIds => e \in Made
    BY <1>e DEF Inv, Real
  <1>2. /\ ServerOK' /\ RowsOK' /\ AliasOK' /\ FlightOK' /\ ListsOK' /\ HistoryOK'
        /\ Answer' /\ Mixing' /\ Turns'
        /\ \A i \in DOMAIN alias' : alias'[i] \in Made'
        /\ \A w \in DOMAIN row' : row'[w].entity \in ServerIds => row'[w].entity \in Made'
    BY <1>n, <1>0, <1>1, EnqueuedKeeps DEF Inv
  <1>3. /\ n \notin DOMAIN row
        /\ DOMAIN row' = DOMAIN row \cup {n}
        /\ row'[n] = [entity |-> e, action |-> "review", status |-> "pending"] /\ meant'[n] = e
        /\ \A w \in DOMAIN row : w < n /\ row'[w] = row[w] /\ meant'[w] = meant[w]
    BY <1>n, <1>0, EnqueuedRows DEF Inv, Types, HistoryOK
  <1>4. ReadsOK' /\ AskingOK'
    BY <1>0 DEF Inv, Types, ReadsOK, AskingOK
  <1>6. Made' = Made
    BY <1>0 DEF Made, Written
  <1>7. Real'
    BY <1>0, <1>2, <1>6, IdSets DEF Inv, Real, Written, Ids
  <1>8. Locals'
    <2>2. ASSUME NEW w \in DOMAIN row, row[w].entity \in LocalIds
          PROVE  /\ meant'[w] = row'[w].entity
                 /\ row'[w].entity \in DOMAIN alias' => row'[w].action = "review"
                 /\ row'[w].action = "delete" => row'[w].entity \notin DOMAIN reads'
                 /\ row'[w].action = "absent" => \A v \in 1 .. w - 1 : row'[v].entity # row'[w].entity
      <3>1. \A v \in 1 .. w - 1 : v \in DOMAIN row
        BY DEF Inv, Types, RowsOK
      <3> QED
        BY <2>2, <3>1, <1>0, <1>3 DEF Inv, Locals, Written
    <2>3. meant'[n] = row'[n].entity /\ row'[n].action = "review"
      BY <1>3
    <2> QED
      BY <1>0, <1>3, <2>2, <2>3 DEF Inv, Locals, Written
  <1>9. DirtyQueued'
    <2>1. \A w \in DOMAIN row : Queued(w) => Queued(w)'
      BY <1>3 DEF Queued
    <2>3. UNCHANGED <<alias, died, reads>>
      BY <1>0 DEF Written
    <2> QED
      BY <2>1, <2>3, <1>3 DEF Inv, DirtyQueued
  <1> QED
    BY <1>2, <1>4, <1>7, <1>8, <1>9 DEF Inv, Types

-----------------------------------------------------------------------------
(* Steps that leave the tables of the device as they are.                  *)

Tables == <<reads, row, alias, drafting, meant, died, mixed, crossed>>

LEMMA TablesKeep ==
  ASSUME Inv, UNCHANGED Tables, ServerOK', Made \subseteq Made', FlightOK', ListsOK', HistoryOK', Answer',
         asking' \in [step : {"idle", "alias", "row"}, local : Nat, id : Nat, w : Nat],
         flight'.step # "idle" => flight.step # "idle" /\ flight'.w = flight.w
  PROVE  Inv'
  <1>0. UNCHANGED <<reads, row, alias, drafting, meant, died, mixed, crossed>>
    BY DEF Tables
  <1>1. (\A w : Queued(w)' <=> Queued(w)) /\ Next1' = Next1
    BY <1>0 DEF Queued, Next1
  <1>2. Types'
    BY <1>0, <1>1 DEF Inv, Types, ReadsOK, RowsOK, AliasOK, AskingOK
  <1>3. Real'
    BY <1>0 DEF Inv, Real
  <1>4. Locals' /\ Mixing'
    BY <1>0 DEF Inv, Locals, Mixing
  <1>5. Turns'
    BY <1>0, <1>1 DEF Inv, Turns
  <1>6. DirtyQueued'
    BY <1>0, <1>1 DEF Inv, DirtyQueued
  <1> QED
    BY <1>2, <1>3, <1>4, <1>5, <1>6 DEF Inv

Asks == AskAlias \/ AskRow

LEMMA AskKeeps ==
  ASSUME Inv, Asks
  PROVE  Inv' /\ UNCHANGED <<Tables, server, flight>>
  <1>0. /\ UNCHANGED <<Tables, server, flight, list, faults, elsewhere>>
    BY DEF Asks, AskAlias, AskRow, Tables
  <1>1. Made' = Made
    BY <1>0 DEF Made
  <1>2. asking' \in [step : {"idle", "alias", "row"}, local : Nat, id : Nat, w : Nat]
    <2>0. asking \in [step : {"idle", "alias", "row"}, local : Nat, id : Nat, w : Nat]
      BY DEF Inv, Types, AskingOK
    <2>1. CASE AskAlias
      <3>1. Resolve(asking.local) \in Nat
        BY <2>0, IdSets DEF Inv, Types, AliasOK, Resolve
      <3>2. asking' = [asking EXCEPT !.step = "row", !.id = Resolve(asking.local)]
        BY <2>1 DEF AskAlias
      <3> QED
        BY <2>0, <3>1, <3>2
    <2>2. CASE AskRow
      BY <2>2 DEF AskRow, NotAsking
    <2> QED
      BY <2>1, <2>2 DEF Asks
  <1>4. ServerOK' /\ FlightOK' /\ ListsOK' /\ HistoryOK' /\ Answer'
    <2>1. UNCHANGED <<row, meant, died, mixed, crossed>>
      BY <1>0 DEF Tables
    <2> QED
      BY <1>0, <1>1, <2>1 DEF Inv, Types, ServerOK, FlightOK, ListsOK, HistoryOK, Answer
  <1> QED
    BY <1>0, <1>1, <1>2, <1>4, TablesKeep DEF Inv, Types

\* Requests that reach the server, of this device and of the other.
LEMMA UpsertedServer ==
  ASSUME ServerOK, UpsertedId \in ServerIds, NEW ws \in SUBSET Writes
  PROVE  /\ UpsertedId \in Nat
         /\ Upserted(ws) \in Seq(Attempt) /\ Len(Upserted(ws)) <= MaxReads /\ Len(server) <= Len(Upserted(ws))
         /\ \A s \in DOMAIN Upserted(ws) : Upserted(ws)[s].no <= s
         /\ \A s \in Made : Upserted(ws)[s].by = server[s].by
         /\ UpsertedId \in DOMAIN Upserted(ws)
         /\ \A s \in DOMAIN Upserted(ws) \ Made : Upserted(ws)[s].by = ws
  <1> DEFINE open == {s \in Newest : ~server[s].over}
  <1>1. /\ Len(server) \in Nat /\ Made = 1 .. Len(server) /\ Made \subseteq ServerIds
        /\ \A s \in Made : server[s] \in Attempt
        /\ IsFiniteSet(Made) /\ server \in Seq(Attempt)
    BY MadeIds DEF ServerOK
  <1>2. Newest \subseteq Made
    BY DEF Newest, Live
  <1>3. CASE open # {}
    <2>1. UpsertedId = CHOOSE s \in Newest : TRUE
      BY <1>3 DEF UpsertedId
    <2>2. UpsertedId \in Made
      BY <2>1, <1>2, <1>3
    <2>3. Upserted(ws) = [s \in Made |-> IF s \in open THEN [server[s] EXCEPT !.has = @ \cup ws] ELSE server[s]]
      BY <1>3 DEF Upserted
    <2> DEFINE f(s) == IF s \in open THEN [server[s] EXCEPT !.has = @ \cup ws] ELSE server[s]
    <2>4. \A s \in Made : f(s) \in Attempt /\ f(s).no = server[s].no /\ f(s).by = server[s].by
      BY <1>1 DEF Attempt
    <2>5. Upserted(ws) = [s \in 1 .. Len(server) |-> f(s)]
      BY <1>1, <2>3
    <2> HIDE DEF f, open
    <2>6. Upserted(ws) \in [1 .. Len(server) -> Attempt]
      BY <2>4, <2>5, <1>1
    <2>7. Upserted(ws) \in Seq(Attempt) /\ Len(Upserted(ws)) = Len(server)
      BY <2>6, <1>1, LenProperties, SeqDef
    <2> QED
      BY <1>1, <2>2, <2>4, <2>5, <2>7, IdSets DEF ServerOK
  <1>4. CASE open = {}
    <2>1. UpsertedId = Len(server) + 1
      BY <1>4 DEF UpsertedId
    <2>2. Upserted(ws) = Append(server, NewAttempt(ws))
      BY <1>4 DEF Upserted
    <2> DEFINE f == [s \in Live |-> server[s].no]
               top == Highest({0} \cup {f[s] : s \in Live})
    <2>3. f \in [Live -> Nat] /\ IsFiniteSet(Live) /\ Live \subseteq Made
      <3>1. Live \in SUBSET Made
        BY DEF Live
      <3> QED
        BY <3>1, <1>1, FS_Subset DEF Attempt
    <2>4. top \in {0} \cup {f[s] : s \in Live} /\ top \in Nat
      <3> HIDE DEF f
      <3> QED
        BY <2>3, HighestOf
    <2>5. top <= Len(server)
      <3>1. \A s \in Live : f[s] <= Len(server)
        BY <2>3, <1>1 DEF ServerOK, Attempt
      <3> HIDE DEF f
      <3> QED
        BY <2>4, <3>1, <1>1
    <2>6. NewAttempt(ws) = [live |-> TRUE, over |-> FALSE, has |-> ws, by |-> ws, no |-> top + 1]
      <3>1. {server[s].no : s \in Live} = {f[s] : s \in Live}
        OBVIOUS
      <3> QED
        BY <3>1 DEF NewAttempt
    <2>7. NewAttempt(ws) \in Attempt /\ NewAttempt(ws).no <= Len(server) + 1 /\ NewAttempt(ws).by = ws
      <3>1. top + 1 \in Nat \ {0} /\ top + 1 <= Len(server) + 1
        BY <2>4, <2>5, <1>1
      <3> HIDE DEF top
      <3> QED
        BY <2>6, <3>1 DEF Attempt
    <2> HIDE DEF f, top, open
    <2>8. /\ Upserted(ws) \in Seq(Attempt) /\ Len(Upserted(ws)) = Len(server) + 1
          /\ Upserted(ws)[Len(server) + 1] = NewAttempt(ws)
          /\ \A s \in 1 .. Len(server) : Upserted(ws)[s] = server[s]
          /\ DOMAIN Upserted(ws) = 1 .. Len(server) + 1
      BY <2>2, <2>7, <1>1
    <2>9. Len(server) + 1 <= MaxReads
      BY <2>1, <1>1, IdSets DEF ServerIds
    <2>10. \A s \in DOMAIN Upserted(ws) : s \in Made \/ s = Len(server) + 1
      BY <2>8, <1>1
    <2> QED
      BY <1>1, <2>1, <2>7, <2>8, <2>9, <2>10 DEF ServerOK
  <1> QED
    BY <1>3, <1>4

\* What the server does to what it has: it makes attempts, and forgets none.
Grown ==
    /\ ServerOK' /\ Made \subseteq Made'
    /\ \A s \in Made : server'[s].by = server[s].by
    /\ \A s \in Made' \ Made : server'[s].by \subseteq {flight.w} /\ server'[s].by \subseteq DOMAIN row

LEMMA GrownKeeps ==
  ASSUME Inv, Grown, UNCHANGED <<Tables, list>>,
         faults' \in 0 .. MaxFaults, elsewhere' \in 0 .. MaxElsewhere
  PROVE  ServerOK' /\ Made \subseteq Made' /\ ListsOK' /\ HistoryOK'
  <1>1. UNCHANGED <<row, meant, died, mixed, crossed, list>>
    BY DEF Tables
  <1>2. ServerOK' /\ Made \subseteq Made'
    BY DEF Grown
  <1>3. ListsOK'
    BY <1>1, <1>2 DEF Inv, Types, ListsOK
  <1>4. \A s \in Made' : server'[s].by \subseteq DOMAIN row
    BY DEF Grown, Inv, Types, HistoryOK
  <1>5. HistoryOK'
    BY <1>1, <1>4 DEF Inv, Types, HistoryOK
  <1> QED
    BY <1>2, <1>3, <1>5

\* An attempt that is written to, or deleted.
LEMMA WrittenServer ==
  ASSUME ServerOK, NEW s \in Made, NEW r \in Attempt, r.no = server[s].no, r.by = server[s].by,
         server' = [server EXCEPT ![s] = r]
  PROVE  ServerOK' /\ Made' = Made /\ \A t \in Made : server'[t].by = server[t].by
  <1>1. /\ Len(server) \in Nat /\ Made = 1 .. Len(server) /\ server \in Seq(Attempt)
    BY MadeIds DEF ServerOK
  <1>2. server' \in Seq(Attempt) /\ Len(server') = Len(server)
    BY <1>1, ExceptSeq
  <1>3. Made' = Made
    BY <1>1, <1>2 DEF Made
  <1>4. \A t \in Made : server'[t] = IF t = s THEN r ELSE server[t]
    BY DEF Made
  <1> QED
    BY <1>2, <1>3, <1>4 DEF ServerOK

LEMMA SaysFlight ==
  ASSUME Inv, NEW said \in {"ok", "exists", "refused"}, NEW id \in Nat, flight.step = "sent", Says(said, id),
         row' = row
  PROVE  /\ FlightOK' /\ flight'.w = flight.w /\ flight'.said = said /\ flight'.id = id
         /\ flight'.step = "answered"
  <1>1. flight' = [flight EXCEPT !.step = "answered", !.said = said, !.id = id]
    BY DEF Says
  <1>2. flight \in [step : {"idle", "sent", "answered"}, w : Nat,
                    said : {"none", "ok", "exists", "refused"}, id : Nat]
    BY DEF Inv, Types, FlightOK
  <1>3. /\ flight' \in [step : {"idle", "sent", "answered"}, w : Nat,
                        said : {"none", "ok", "exists", "refused"}, id : Nat]
        /\ flight'.w = flight.w /\ flight'.said = said /\ flight'.id = id /\ flight'.step = "answered"
    BY <1>1, <1>2
  <1> QED
    BY <1>3 DEF Inv, Types, FlightOK

LEMMA ServeKeeps ==
  ASSUME Inv, Serve
  PROVE  Inv' /\ Grown /\ UNCHANGED Tables
  <1>0. UNCHANGED <<Tables, list, elsewhere>> /\ UNCHANGED <<row, reads, alias, drafting, meant, died, mixed, crossed>>
    BY DEF Serve, Tables
  <1>1. PICK w \in DOMAIN row : w = flight.w
    BY DEF Serve, Inv, Types, FlightOK
  <1>2. PICK s \in Ids, do \in Actions : s = row[w].entity /\ do = row[w].action
    BY DEF Inv, Types, RowsOK, Row
  <1>3. flight.step = "sent" /\ w \in Writes /\ s \in Nat /\ 0 \in Nat
    BY IdSets DEF Serve, Inv, Types, RowsOK
  <1>u. UNCHANGED server => Grown
    <2>1. UNCHANGED server => Made' = Made /\ ServerOK'
      BY DEF Made, Inv, Types, ServerOK
    <2> QED
      BY <2>1 DEF Grown
  <1>f. faults \in 0 .. MaxFaults /\ elsewhere \in 0 .. MaxElsewhere /\ Made \subseteq ServerIds
    BY MadeIds DEF Inv, Types, HistoryOK
  <1>4. /\ Grown /\ FlightOK' /\ faults' \in 0 .. MaxFaults
        /\ flight'.w = w /\ flight'.step = "answered"
        /\ flight'.said = "ok" /\ do \in Creates => flight'.id \in Made'
        /\ flight'.said = "ok" /\ do \notin Creates => flight'.id = s
        /\ flight'.said = "ok" /\ do \notin Creates \cup {"delete"} => flight'.id \in Made'
        /\ flight'.said = "exists" => do = "absent"
    <2>1. CASE /\ do = "upsert" \/ (do = "absent" /\ Live = {})
               /\ UpsertedId \in ServerIds
               /\ server' = Upserted({w}) /\ Says("ok", UpsertedId)
               /\ UNCHANGED faults
      <3>1. {w} \in SUBSET Writes /\ ServerOK
        BY <1>3 DEF Inv, Types
      <3>2. /\ UpsertedId \in Nat /\ ServerOK' /\ Made \subseteq Made' /\ UpsertedId \in Made'
            /\ \A t \in Made : server'[t].by = server[t].by
            /\ \A t \in Made' \ Made : server'[t].by = {w}
        <4>1. /\ UpsertedId \in Nat
              /\ server' \in Seq(Attempt) /\ Len(server') <= MaxReads /\ Len(server) <= Len(server')
              /\ \A t \in DOMAIN server' : server'[t].no <= t
              /\ \A t \in Made : server'[t].by = server[t].by
              /\ UpsertedId \in DOMAIN server'
              /\ \A t \in DOMAIN server' \ Made : server'[t].by = {w}
          BY <2>1, <3>1, UpsertedServer
        <4>2. ServerOK' /\ Made' = DOMAIN server'
          BY <4>1 DEF ServerOK, Made
        <4>3. Made = 1 .. Len(server) /\ Made' = 1 .. Len(server') /\ Len(server) \in Nat /\ Len(server') \in Nat
          BY <3>1, <4>1, <4>2, MadeIds
        <4>4. Made \subseteq Made'
          BY <4>1, <4>3
        <4> QED
          BY <4>1, <4>2, <4>4
      <3>3. FlightOK' /\ flight'.w = flight.w /\ flight'.said = "ok" /\ flight'.id = UpsertedId /\ flight'.step = "answered"
        BY <2>1, <1>0, <1>3, <3>2, SaysFlight
      <3>4. Grown
        BY <3>2, <1>1 DEF Grown
      <3> QED
        BY <2>1, <3>2, <3>3, <3>4, <1>1, <1>f DEF Creates
    <2>2. CASE do = "absent" /\ Says("exists", 0) /\ UNCHANGED <<server, faults>>
      <3>1. FlightOK' /\ flight'.w = flight.w /\ flight'.said = "exists" /\ flight'.step = "answered"
        BY <2>2, <1>0, <1>3, SaysFlight
      <3> QED
        BY <2>2, <3>1, <1>1, <1>u, <1>f
    <2>3. CASE /\ do \in {"write", "finish", "review"} /\ s \in Live
               /\ server' = [server EXCEPT ![s].has = @ \cup {w}, ![s].over = @ \/ do = "finish"]
               /\ Says("ok", s)
               /\ UNCHANGED faults
      <3>1. s \in Made /\ server[s] \in Attempt
        BY <2>3, MadeIds DEF Live, Inv, Types
      <3> DEFINE r == [server[s] EXCEPT !.has = @ \cup {w}, !.over = @ \/ do = "finish"]
      <3>a. r = [server[s] EXCEPT !.has = server[s].has \cup {w}, !.over = server[s].over \/ do = "finish"]
        OBVIOUS
      <3>b. (server[s].over \/ do = "finish") \in BOOLEAN /\ server[s].has \cup {w} \in SUBSET Writes
        BY <3>1, <1>3 DEF Attempt
      <3>2. r \in Attempt /\ r.no = server[s].no /\ r.by = server[s].by
        <4>1. \A b \in BOOLEAN, h \in SUBSET Writes :
                 LET q == [server[s] EXCEPT !.has = h, !.over = b]
                 IN  q \in Attempt /\ q.no = server[s].no /\ q.by = server[s].by
          BY <3>1 DEF Attempt
        <4> QED
          BY <4>1, <3>a, <3>b
      <3>3. server' = [server EXCEPT ![s] = r]
        BY <2>3, <3>1
      <3> HIDE DEF r
      <3>4. ServerOK' /\ Made' = Made /\ \A t \in Made : server'[t].by = server[t].by
        BY <3>1, <3>2, <3>3, WrittenServer DEF Inv, Types
      <3>5. FlightOK' /\ flight'.w = flight.w /\ flight'.said = "ok" /\ flight'.id = s /\ flight'.step = "answered"
        BY <2>3, <1>0, <1>3, SaysFlight
      <3> QED
        BY <2>3, <3>1, <3>4, <3>5, <1>1, <1>f DEF Creates, Grown
    <2>4. CASE /\ do = "delete" /\ s \in Live
               /\ server' = [server EXCEPT ![s].live = FALSE]
               /\ Says("ok", s)
               /\ UNCHANGED faults
      <3>1. s \in Made /\ server[s] \in Attempt
        BY <2>4, MadeIds DEF Live, Inv, Types
      <3> DEFINE r == [server[s] EXCEPT !.live = FALSE]
      <3>2. r \in Attempt /\ r.no = server[s].no /\ r.by = server[s].by
        BY <3>1 DEF Attempt
      <3>3. server' = [server EXCEPT ![s] = r]
        BY <2>4, <3>1
      <3> HIDE DEF r
      <3>4. ServerOK' /\ Made' = Made /\ \A t \in Made : server'[t].by = server[t].by
        BY <3>1, <3>2, <3>3, WrittenServer DEF Inv, Types
      <3>5. FlightOK' /\ flight'.w = flight.w /\ flight'.said = "ok" /\ flight'.id = s /\ flight'.step = "answered"
        BY <2>4, <1>0, <1>3, SaysFlight
      <3> QED
        BY <2>4, <3>1, <3>4, <3>5, <1>1, <1>f DEF Creates, Grown
    <2>5. CASE /\ do \notin {"upsert", "absent"}
               /\ Says(IF do = "delete" THEN "ok" ELSE "refused", s)
               /\ UNCHANGED <<server, faults>>
      <3>1. CASE do = "delete"
        <4>1. Says("ok", s)
          BY <2>5, <3>1
        <4>2. FlightOK' /\ flight'.w = flight.w /\ flight'.said = "ok" /\ flight'.id = s /\ flight'.step = "answered"
          BY <4>1, <1>0, <1>3, SaysFlight
        <4> QED
          BY <2>5, <3>1, <4>2, <1>1, <1>u, <1>f DEF Creates
      <3>2. CASE do # "delete"
        <4>1. Says("refused", s)
          BY <2>5, <3>2
        <4>2. FlightOK' /\ flight'.w = flight.w /\ flight'.said = "refused" /\ flight'.step = "answered"
          BY <4>1, <1>0, <1>3, SaysFlight
        <4> QED
          BY <2>5, <4>2, <1>1, <1>u, <1>f
      <3> QED
        BY <3>1, <3>2
    <2>6. CASE faults < MaxFaults /\ faults' = faults + 1 /\ Says("refused", 0) /\ UNCHANGED server
      <3>1. FlightOK' /\ flight'.w = flight.w /\ flight'.said = "refused" /\ flight'.step = "answered"
        BY <2>6, <1>0, <1>3, SaysFlight
      <3>2. faults' \in 0 .. MaxFaults
        BY <2>6, <1>f, IdSets
      <3> QED
        BY <2>6, <3>1, <3>2, <1>1, <1>u
    <2> QED
      BY <2>1, <2>2, <2>3, <2>4, <2>5, <2>6, <1>1, <1>2 DEF Serve
  <1>5. ServerOK' /\ Made \subseteq Made' /\ ListsOK' /\ HistoryOK'
    BY <1>0, <1>4, <1>f, GrownKeeps
  <1>6. Answer'
    BY <1>0, <1>1, <1>2, <1>4 DEF Answer
  <1>7. asking' = asking
    BY DEF Serve
  <1>8. flight'.step # "idle" => flight.step # "idle" /\ flight'.w = flight.w
    BY <1>1, <1>3, <1>4
  <1>10. Inv'
    BY <1>0, <1>4, <1>5, <1>6, <1>7, <1>8, TablesKeep DEF Inv, Types, AskingOK
  <1> QED
    BY <1>0, <1>4, <1>10

LEMMA ElsewhereKeeps ==
  ASSUME Inv, Elsewhere
  PROVE  Inv' /\ Grown /\ UNCHANGED Tables
  <1>0. UNCHANGED <<Tables, list, flight, asking, faults>> /\ UNCHANGED <<row, reads, alias, drafting, meant, died, mixed, crossed>>
    BY DEF Elsewhere, Tables
  <1>1. Grown
    <2>1. CASE UpsertedId \in ServerIds /\ server' = Upserted({})
      <3>1. {} \in SUBSET Writes /\ ServerOK
        BY DEF Inv, Types
      <3>2. /\ server' \in Seq(Attempt) /\ Len(server') <= MaxReads /\ Len(server) <= Len(server')
            /\ \A t \in DOMAIN server' : server'[t].no <= t
            /\ \A t \in Made : server'[t].by = server[t].by
            /\ \A t \in DOMAIN server' \ Made : server'[t].by = {}
        BY <2>1, <3>1, UpsertedServer
      <3>3. ServerOK' /\ Made' = DOMAIN server'
        BY <3>2 DEF ServerOK, Made
      <3>4. Made = 1 .. Len(server) /\ Made' = 1 .. Len(server') /\ Len(server) \in Nat /\ Len(server') \in Nat
        BY <3>1, <3>2, <3>3, MadeIds
      <3>5. Made \subseteq Made'
        BY <3>2, <3>4
      <3> QED
        BY <3>2, <3>3, <3>5 DEF Grown
    <2>2. ASSUME NEW s \in Live, NEW r, r \in {[server[s] EXCEPT !.over = TRUE], [server[s] EXCEPT !.live = FALSE]},
                 server' = [server EXCEPT ![s] = r]
          PROVE  Grown
      <3>1. s \in Made /\ server[s] \in Attempt
        BY <2>2, MadeIds DEF Live, Inv, Types
      <3>2. r \in Attempt /\ r.no = server[s].no /\ r.by = server[s].by
        BY <2>2, <3>1 DEF Attempt
      <3>3. ServerOK' /\ Made' = Made /\ \A t \in Made : server'[t].by = server[t].by
        BY <2>2, <3>1, <3>2, WrittenServer DEF Inv, Types
      <3> QED
        BY <3>3 DEF Grown
    <2>3. CASE \E s \in Live : server' = [server EXCEPT ![s].over = TRUE]
      <3>1. PICK s \in Live : server' = [server EXCEPT ![s] = [server[s] EXCEPT !.over = TRUE]]
        BY <2>3 DEF Live, Made
      <3> QED
        BY <3>1, <2>2
    <2>4. CASE \E s \in Live : server' = [server EXCEPT ![s].live = FALSE]
      <3>1. PICK s \in Live : server' = [server EXCEPT ![s] = [server[s] EXCEPT !.live = FALSE]]
        BY <2>4 DEF Live, Made
      <3> QED
        BY <3>1, <2>2
    <2> QED
      BY <2>1, <2>3, <2>4 DEF Elsewhere
  <1>2. faults' \in 0 .. MaxFaults /\ elsewhere' \in 0 .. MaxElsewhere
    BY <1>0, IdSets DEF Elsewhere, Inv, Types, HistoryOK
  <1>3. ServerOK' /\ Made \subseteq Made' /\ ListsOK' /\ HistoryOK'
    BY <1>0, <1>1, <1>2, GrownKeeps
  <1>4. Answer' /\ FlightOK'
    BY <1>0, <1>3 DEF Inv, Types, Answer, FlightOK
  <1>6. Inv'
    BY <1>0, <1>3, <1>4, TablesKeep DEF Inv, Types, AskingOK
  <1> QED
    BY <1>0, <1>1, <1>6

\* A list, received and cached.
LEMMA FetchKeeps ==
  ASSUME Inv, NEW c \in Screens, Fetch(c)
  PROVE  Inv' /\ Grown /\ UNCHANGED Tables
  <1>0. /\ UNCHANGED <<Tables, server, flight, asking, faults, elsewhere>>
        /\ UNCHANGED <<row, reads, alias, drafting, meant, died, mixed, crossed>>
        /\ list' = [list EXCEPT ![c] = Told]
    BY DEF Fetch, Tables
  <1>1. Made' = Made /\ ServerOK' /\ HistoryOK' /\ Answer' /\ FlightOK'
    BY <1>0 DEF Made, Inv, Types, ServerOK, HistoryOK, Answer, FlightOK
  <1>2. Grown
    BY <1>0, <1>1 DEF Grown
  <1>3. Told \in [DOMAIN Told -> Read] /\ DOMAIN Told \subseteq Made /\ \A s \in DOMAIN Told : Told[s].synced
    <2>1. \A s \in Live : s \in Made /\ server[s] \in Attempt
      BY MadeIds DEF Live, Inv, Types
    <2> QED
      BY <2>1 DEF Told, Read, Attempt
  <1>4. ListsOK'
    BY <1>0, <1>1, <1>3 DEF Inv, Types, ListsOK
  <1>6. Inv'
    BY <1>0, <1>1, <1>4, TablesKeep DEF Inv, Types, AskingOK
  <1> QED
    BY <1>0, <1>2, <1>6

LEMMA CachedReads ==
  ASSUME Inv, NEW c \in Screens, Cache(c)
  PROVE  /\ UNCHANGED <<server, row, alias, flight, drafting, asking, meant, died, mixed, crossed, faults, elsewhere>>
         /\ ReadsOK' /\ ListsOK'
         /\ \A i \in DOMAIN reads : i \in DOMAIN reads' /\ (reads'[i] = reads[i] \/ (~Kept(i) /\ i \in Made /\ reads'[i].synced))
         /\ \A i \in DOMAIN reads' \ DOMAIN reads : i \in Made /\ ~Kept(i) /\ reads'[i].synced
  <1>0. /\ UNCHANGED <<server, row, alias, flight, drafting, asking, meant, died, mixed, crossed, faults, elsewhere>>
        /\ list' = [list EXCEPT ![c] = NoList]
    BY DEF Cache
  <1>1. Made' = Made /\ Made \subseteq ServerIds /\ ServerIds \subseteq Ids
    BY <1>0, MadeIds DEF Made, Inv, Types, Ids
  <1>2. /\ list[c] \in [DOMAIN list[c] -> Read] /\ DOMAIN list[c] \subseteq Made
        /\ \A s \in DOMAIN list[c] : list[c][s].synced
    BY DEF Inv, Types, ListsOK
  <1>3. NoList \in [DOMAIN NoList -> Read] /\ DOMAIN NoList = {}
    BY DEF NoList
  <1>4. ListsOK'
    BY <1>0, <1>1, <1>3 DEF Inv, Types, ListsOK
  <1> DEFINE news == {s \in DOMAIN list[c] : ~Kept(s)}
  <1>5. reads' = [i \in DOMAIN reads \cup news |-> IF i \in news THEN list[c][i] ELSE reads[i]]
    BY DEF Cache
  <1>6. \A s \in news : s \in Made /\ ~Kept(s) /\ list[c][s] \in Read /\ list[c][s].synced
    BY <1>2
  <1> HIDE DEF news
  <1>7. ReadsOK'
    <2>1. DOMAIN reads' = DOMAIN reads \cup news
      BY <1>5
    <2>2. \A i \in DOMAIN reads' : reads'[i] \in Read
      BY <1>5, <1>6 DEF Inv, Types, ReadsOK
    <2> QED
      BY <2>1, <2>2, <1>1, <1>5, <1>6 DEF Inv, Types, ReadsOK
  <1>8. ASSUME NEW i \in DOMAIN reads
        PROVE  i \in DOMAIN reads' /\ (reads'[i] = reads[i] \/ (~Kept(i) /\ i \in Made /\ reads'[i].synced))
    <2> HIDE DEF Kept
    <2> QED
      BY <1>5, <1>6, <1>8
  <1>9. ASSUME NEW i \in DOMAIN reads' \ DOMAIN reads
        PROVE  i \in Made /\ ~Kept(i) /\ reads'[i].synced
    BY <1>5, <1>6, <1>9
  <1> QED
    BY <1>0, <1>4, <1>7, <1>8, <1>9

LEMMA CacheKeeps ==
  ASSUME Inv, NEW c \in Screens, Cache(c)
  PROVE  Inv'
  <1>0. UNCHANGED <<server, row, alias, flight, drafting, asking, meant, died, mixed, crossed, faults, elsewhere>>
    BY CachedReads
  <1>1. /\ ReadsOK' /\ ListsOK'
        /\ \A i \in DOMAIN reads : i \in DOMAIN reads' /\ (reads'[i] = reads[i] \/ (~Kept(i) /\ i \in Made /\ reads'[i].synced))
        /\ \A i \in DOMAIN reads' \ DOMAIN reads : i \in Made /\ ~Kept(i) /\ reads'[i].synced
    BY CachedReads
  <1>2. Made' = Made /\ Made \subseteq ServerIds /\ (\A w : Queued(w)' <=> Queued(w)) /\ Next1' = Next1
    BY <1>0, MadeIds DEF Made, Queued, Next1, Inv, Types
  <1>3. Types'
    <2>1. ServerOK' /\ AliasOK' /\ FlightOK'
      BY <1>0, <1>2 DEF Inv, Types, ServerOK, AliasOK, FlightOK
    <2>2. RowsOK' /\ AskingOK' /\ HistoryOK'
      BY <1>0, <1>2 DEF Inv, Types, RowsOK, AskingOK, HistoryOK
    <2> QED
      BY <2>1, <2>2, <1>1 DEF Types
  <1>4. Real'
    BY <1>0, <1>1, <1>2 DEF Inv, Real
  <1>5. Answer' /\ Mixing'
    BY <1>0, <1>2 DEF Inv, Answer, Mixing
  <1>6. Locals'
    <2>1. \A i \in LocalIds : i \in DOMAIN reads' <=> i \in DOMAIN reads
      BY <1>1, <1>2, IdSets
    <2>2. \A i \in LocalIds : i \in DOMAIN reads => reads'[i] = reads[i]
      BY <1>1, <1>2, IdSets
    <2> QED
      BY <2>1, <2>2, <1>0 DEF Inv, Locals
  <1>7. Turns'
    BY <1>0, <1>2 DEF Inv, Turns
  <1>8. DirtyQueued'
    BY <1>0, <1>1, <1>2 DEF Inv, DirtyQueued
  <1> QED
    BY <1>3, <1>4, <1>5, <1>6, <1>7, <1>8 DEF Inv

-----------------------------------------------------------------------------
(* The queue.                                                              *)

\* Rows stay, of the same action, and say what they say in their turn.
LEMMA RowsStay ==
  ASSUME RowsOK, DOMAIN row' = DOMAIN row, row' = [w \in DOMAIN row |-> row'[w]],
         \A w \in DOMAIN row : row'[w] \in Row
  PROVE  RowsOK' /\ Next1' = Next1
  <1>1. Next1' = Next1
    BY DEF Next1
  <1>2. row' \in [DOMAIN row' -> Row]
    OBVIOUS
  <1> QED
    BY <1>1, <1>2 DEF RowsOK

\* A row of which the status changes: it is refused, waits again, or is given up.
Restated(w, status) ==
    /\ w \in DOMAIN row /\ row' = [row EXCEPT ![w].status = status]
    /\ \/ /\ flight.step # "idle" /\ w = flight.w /\ flight' = Landed
          /\ \/ status = "pending" /\ died' = died
             \/ status = "dead" /\ died' = died \cup {w}
       \/ /\ row[w].status = "dead" /\ status \in {"pending", "gone"}
          /\ UNCHANGED <<flight, died>>
    /\ faults' \in 0 .. MaxFaults
    /\ UNCHANGED <<server, reads, alias, list, drafting, asking, meant, mixed, crossed, elsewhere>>

LEMMA RestatedRows ==
  ASSUME Inv, NEW w, NEW status, Restated(w, status)
  PROVE  /\ RowsOK' /\ Next1' = Next1 /\ DOMAIN row' = DOMAIN row
         /\ \A v \in DOMAIN row : row'[v].entity = row[v].entity /\ row'[v].action = row[v].action
         /\ \A v \in DOMAIN row : row'[v].status = IF v = w THEN status ELSE row[v].status
  <1>1. w \in DOMAIN row /\ row' = [row EXCEPT ![w].status = status] /\ status \in {"pending", "dead", "gone"}
    BY DEF Restated
  <1>2. \A v \in DOMAIN row : row[v] \in Row
    BY DEF Inv, Types, RowsOK
  <1>3. DOMAIN row' = DOMAIN row /\ \A v \in DOMAIN row : row'[v] = IF v = w THEN [row[v] EXCEPT !.status = status] ELSE row[v]
    BY <1>1
  <1>4. \A v \in DOMAIN row : /\ row'[v] \in Row /\ row'[v].entity = row[v].entity /\ row'[v].action = row[v].action
                              /\ row'[v].status = IF v = w THEN status ELSE row[v].status
    BY <1>1, <1>2, <1>3 DEF Row
  <1>5. row' = [v \in DOMAIN row |-> row'[v]]
    BY <1>1
  <1>6. RowsOK' /\ Next1' = Next1
    BY <1>3, <1>4, <1>5, RowsStay DEF Inv, Types
  <1> QED
    BY <1>3, <1>4, <1>6

LEMMA RestatedKeeps ==
  ASSUME Inv, NEW w, NEW status, Restated(w, status)
  PROVE  Inv'
  <1>0. UNCHANGED <<server, reads, alias, list, drafting, asking, meant, mixed, crossed, elsewhere>>
    BY DEF Restated
  <1>1. /\ RowsOK' /\ Next1' = Next1 /\ DOMAIN row' = DOMAIN row
        /\ \A v \in DOMAIN row : row'[v].entity = row[v].entity /\ row'[v].action = row[v].action
        /\ \A v \in DOMAIN row : row'[v].status = IF v = w THEN status ELSE row[v].status
    BY RestatedRows
  <1>2. w \in DOMAIN row /\ Made' = Made /\ 0 \notin DOMAIN row
    BY <1>0, IdSets DEF Restated, Made, Inv, Types, RowsOK
  <1>3. died \subseteq died' /\ died' \subseteq DOMAIN row /\ (flight' = flight \/ flight' = Landed)
    BY DEF Restated, Inv, Types, HistoryOK
  <1>4. FlightOK'
    <2>1. CASE w = flight.w /\ flight' = Landed /\ status \in {"pending", "dead"}
      <3>1. /\ Landed \in [step : {"idle", "sent", "answered"}, w : Nat,
                           said : {"none", "ok", "exists", "refused"}, id : Nat]
            /\ Landed.step = "idle" /\ Landed.w = 0
        BY DEF Landed
      <3> QED
        BY <2>1, <3>1, <1>1, <1>2 DEF Inv, Types, FlightOK
    <2>2. CASE flight' = flight /\ row[w].status = "dead" /\ status \in {"pending", "gone"}
      <3>1. w # flight.w
        BY <2>2, <1>2 DEF Inv, Types, FlightOK
      <3>2. \A v \in DOMAIN row' : row'[v].status = "processing" <=> v = flight'.w
        BY <2>2, <3>1, <1>1 DEF Inv, Types, FlightOK
      <3> QED
        BY <2>2, <3>2, <1>1 DEF Inv, Types, FlightOK
    <2> QED
      BY <2>1, <2>2 DEF Restated
  <1>5. Types'
    <2>1. ServerOK' /\ ReadsOK' /\ AliasOK' /\ ListsOK'
      BY <1>0, <1>2 DEF Inv, Types, ServerOK, ReadsOK, AliasOK, ListsOK
    <2>2. AskingOK' /\ HistoryOK'
      BY <1>0, <1>1, <1>2, <1>3 DEF Inv, Types, AskingOK, HistoryOK, Restated
    <2> QED
      BY <2>1, <2>2, <1>1, <1>4 DEF Types
  <1>6. Real'
    BY <1>0, <1>1, <1>2 DEF Inv, Real
  <1>7. Answer'
    BY <1>1, <1>2, <1>3 DEF Inv, Answer, Landed, Types, FlightOK
  <1>8. Mixing'
    BY <1>0 DEF Inv, Mixing
  <1>9. Locals'
    <2>1. \A v \in DOMAIN row : \A u \in 1 .. v - 1 : u \in DOMAIN row
      BY DEF Inv, Types, RowsOK
    <2> QED
      BY <2>1, <1>0, <1>1 DEF Inv, Locals
  <1>10. \A v \in DOMAIN row : Queued(v)' => Queued(v) \/ v \in died
    BY <1>1, <1>2 DEF Queued, Restated, Inv, Turns, Types, FlightOK
  <1>11. \A v \in DOMAIN row : Queued(v) \/ v \in died => Queued(v)' \/ v \in died'
    BY <1>1, <1>2, <1>3 DEF Queued, Restated, Inv, Turns, Types, FlightOK
  <1>12. Turns'
    <2>1. \A v \in DOMAIN row : row'[v].status = "dead" => v \in died'
      BY <1>1, <1>3 DEF Inv, Turns, Restated
    <2>2. flight'.step # "idle" => /\ flight' = flight /\ flight.w \in DOMAIN row
                                   /\ \A v \in 1 .. flight.w - 1 :
                                         v \in DOMAIN row /\ (row'[v].status = "pending" => row[v].status = "pending" \/ v \in died)
      <3>1. flight'.step # "idle" => flight' = flight
        BY <1>3 DEF Landed
      <3>2. flight' = flight => /\ row[w].status = "dead" \/ flight'.step = "idle"
        BY DEF Restated, Landed
      <3>3. flight.step # "idle" => flight.w \in DOMAIN row /\ \A v \in 1 .. flight.w - 1 : v \in DOMAIN row
        BY DEF Inv, Types, FlightOK, RowsOK
      <3>4. row[w].status = "dead" => w \in died
        BY <1>2 DEF Inv, Turns
      <3> QED
        BY <3>1, <3>2, <3>3, <3>4, <1>1
    <2>3. flight'.step # "idle" /\ row'[flight'.w].action # "review" /\ row'[flight'.w].entity \notin mixed' =>
             \A v \in 1 .. flight'.w - 1 :
                row'[v].entity = row'[flight'.w].entity /\ row'[v].status = "pending" => v \in died'
      BY <2>2, <1>0, <1>1, <1>3 DEF Inv, Turns
    <2>4. \A v \in DOMAIN row : row'[v].action = "absent" /\ Queued(v)' /\ row'[v].entity \in ServerIds =>
             row'[v].entity \in mixed' \/ v \in died'
      BY <1>0, <1>1, <1>3, <1>10 DEF Inv, Turns
    <2> QED
      BY <2>1, <2>3, <2>4, <1>1 DEF Turns
  <1>13. DirtyQueued'
    BY <1>0, <1>1, <1>11 DEF Inv, DirtyQueued
  <1> QED
    BY <1>5, <1>6, <1>7, <1>8, <1>9, <1>12, <1>13 DEF Inv

LEMMA RestatedActions ==
  ASSUME Inv, DeadLetter \/ Lose \/ \E w \in DOMAIN row : Retry(w) \/ Dismiss(w)
  PROVE  \E w \in DOMAIN row, status \in {"pending", "dead", "gone"} : Restated(w, status)
  <1>1. flight.step # "idle" => flight.w \in DOMAIN row
    BY DEF Inv, Types, FlightOK
  <1>2. faults \in 0 .. MaxFaults
    BY DEF Inv, Types, HistoryOK
  <1>3. CASE DeadLetter
    BY <1>1, <1>2, <1>3 DEF DeadLetter, Restated
  <1>4. CASE Lose
    <2>1. faults' \in 0 .. MaxFaults
      BY <1>2, <1>4, IdSets DEF Lose
    <2> QED
      BY <1>1, <2>1, <1>4 DEF Lose, Restated
  <1>5. ASSUME NEW w \in DOMAIN row, Retry(w)
        PROVE  Restated(w, "pending")
    BY <1>2, <1>5 DEF Retry, Restated
  <1>6. ASSUME NEW w \in DOMAIN row, Dismiss(w)
        PROVE  Restated(w, "gone")
    BY <1>2, <1>6 DEF Dismiss, Restated, Gone
  <1> QED
    BY <1>3, <1>4, <1>5, <1>6

\* A row that is sent, and what is re-keyed with it.
LEMMA SentRows ==
  ASSUME Inv, NEW w \in DOMAIN row, Send(w), NEW e, e = row[w].entity, NEW s, s = Resolve(e)
  PROVE  /\ RowsOK' /\ Next1' = Next1 /\ DOMAIN row' = DOMAIN row
         /\ \A v \in DOMAIN row : row'[v].action = row[v].action
         /\ \A v \in DOMAIN row : row'[v].entity = IF row[v].entity = e THEN s ELSE row[v].entity
         /\ \A v \in DOMAIN row : row'[v].status = IF v = w THEN "processing" ELSE row[v].status
         /\ e \in Ids /\ s \in Ids
         /\ IF e \in DOMAIN alias THEN s = alias[e] /\ s \in ServerIds /\ s \in Made ELSE s = e
  <1>1. row' = [Rekey(e, s) EXCEPT ![w].status = "processing"]
    BY DEF Send
  <1>2. \A v \in DOMAIN row : row[v] \in Row
    BY DEF Inv, Types, RowsOK
  <1>3. e \in Ids
    BY <1>2 DEF Row
  <1>4. IF e \in DOMAIN alias THEN s = alias[e] /\ s \in ServerIds /\ s \in Made ELSE s = e
    BY DEF Inv, Types, AliasOK, Real, Resolve
  <1>5. s \in Ids
    BY <1>3, <1>4 DEF Ids
  <1>6. /\ DOMAIN Rekey(e, s) = DOMAIN row
        /\ \A v \in DOMAIN row : Rekey(e, s)[v] = IF row[v].entity = e THEN [row[v] EXCEPT !.entity = s] ELSE row[v]
    BY DEF Rekey
  <1>7. \A v \in DOMAIN row : /\ Rekey(e, s)[v] \in Row /\ Rekey(e, s)[v].action = row[v].action
                              /\ Rekey(e, s)[v].status = row[v].status
                              /\ Rekey(e, s)[v].entity = IF row[v].entity = e THEN s ELSE row[v].entity
    BY <1>2, <1>5, <1>6 DEF Row
  <1>8. /\ DOMAIN row' = DOMAIN row /\ row' = [v \in DOMAIN row |-> row'[v]]
        /\ \A v \in DOMAIN row : row'[v] = IF v = w THEN [Rekey(e, s)[v] EXCEPT !.status = "processing"] ELSE Rekey(e, s)[v]
    BY <1>1, <1>6
  <1>9. \A v \in DOMAIN row : /\ row'[v] \in Row /\ row'[v].action = row[v].action
                              /\ row'[v].entity = IF row[v].entity = e THEN s ELSE row[v].entity
                              /\ row'[v].status = IF v = w THEN "processing" ELSE row[v].status
    BY <1>7, <1>8 DEF Row
  <1>10. RowsOK' /\ Next1' = Next1
    BY <1>8, <1>9, RowsStay DEF Inv, Types
  <1> QED
    BY <1>3, <1>4, <1>5, <1>8, <1>9, <1>10

LEMMA SendKeeps ==
  ASSUME Inv, NEW w \in DOMAIN row, Send(w)
  PROVE  Inv'
  <1>0. /\ UNCHANGED <<server, reads, alias, list, drafting, asking, meant, died, mixed, crossed, faults, elsewhere>>
        /\ flight.step = "idle" /\ row[w].status = "pending"
        /\ \A v \in 1 .. w - 1 : row[v].entity = row[w].entity => row[v].status # "pending"
        /\ flight' = [Landed EXCEPT !.step = "sent", !.w = w]
    BY DEF Send
  <1>e. PICK e, s : e = row[w].entity /\ s = Resolve(e)
    OBVIOUS
  <1>1. /\ RowsOK' /\ Next1' = Next1 /\ DOMAIN row' = DOMAIN row
        /\ \A v \in DOMAIN row : row'[v].action = row[v].action
        /\ \A v \in DOMAIN row : row'[v].entity = IF row[v].entity = e THEN s ELSE row[v].entity
        /\ \A v \in DOMAIN row : row'[v].status = IF v = w THEN "processing" ELSE row[v].status
        /\ e \in Ids /\ s \in Ids
        /\ IF e \in DOMAIN alias THEN s = alias[e] /\ s \in ServerIds /\ s \in Made ELSE s = e
    BY <1>e, SentRows
  <1>2. Made' = Made
    BY <1>0 DEF Made
  <1>3. FlightOK'
    <2>1. w \in Nat /\ flight.w = 0 /\ 0 \notin DOMAIN row
      BY <1>0, IdSets DEF Inv, Types, RowsOK, FlightOK
    <2>2. /\ flight' \in [step : {"idle", "sent", "answered"}, w : Nat,
                          said : {"none", "ok", "exists", "refused"}, id : Nat]
          /\ flight'.step = "sent" /\ flight'.w = w
      BY <2>1, <1>0 DEF Landed
    <2>3. \A v \in DOMAIN row : row[v].status # "processing"
      BY <2>1 DEF Inv, Types, FlightOK
    <2> QED
      BY <2>2, <2>3, <1>1 DEF FlightOK
  <1>4. Types'
    <2>1. ServerOK' /\ ReadsOK' /\ AliasOK' /\ ListsOK'
      BY <1>0, <1>2 DEF Inv, Types, ServerOK, ReadsOK, AliasOK, ListsOK
    <2>2. AskingOK' /\ HistoryOK'
      BY <1>0, <1>1, <1>2 DEF Inv, Types, AskingOK, HistoryOK
    <2> QED
      BY <2>1, <2>2, <1>1, <1>3 DEF Types
  <1>5. Real'
    BY <1>0, <1>1, <1>2 DEF Inv, Real
  <1>6. Answer'
    BY <1>0 DEF Answer, Landed
  <1>7. Mixing'
    BY <1>0 DEF Inv, Mixing
  <1>8. \A v \in DOMAIN row : row'[v].entity \in LocalIds => row'[v].entity = row[v].entity
    BY <1>1, IdSets
  <1>9. Locals'
    <2>1. \A v \in DOMAIN row : \A u \in 1 .. v - 1 : u \in DOMAIN row
      BY DEF Inv, Types, RowsOK
    <2>2. ASSUME NEW v \in DOMAIN row, row'[v].entity \in LocalIds
          PROVE  row'[v].action = "absent" => \A u \in 1 .. v - 1 : row'[u].entity # row'[v].entity
      BY <2>1, <2>2, <1>1, <1>8, IdSets DEF Inv, Locals
    <2> QED
      BY <2>2, <1>0, <1>1, <1>8 DEF Inv, Locals
  \* What is re-keyed is a review, or comes to an id of two reads.
  <1>10. \A v \in DOMAIN row : row'[v].entity # row[v].entity => row[v].action = "review" \/ row'[v].entity \in mixed
    BY <1>1, IdSets DEF Inv, Locals, Mixing
  <1>11. \A v \in DOMAIN row : Queued(v)' <=> Queued(v)
    BY <1>0, <1>1 DEF Queued
  <1>12. Turns'
    <2>1. \A v \in DOMAIN row : row'[v].status = "dead" => v \in died'
      BY <1>0, <1>1 DEF Inv, Turns
    <2>2. \A v \in DOMAIN row : row'[v].action = "absent" /\ Queued(v)' /\ row'[v].entity \in ServerIds =>
             row'[v].entity \in mixed' \/ v \in died'
      BY <1>0, <1>1, <1>10, <1>11 DEF Inv, Turns
    <2>3. flight'.w = w
      BY <1>0 DEF Landed
    <2>4. ASSUME row'[w].action # "review", row'[w].entity \notin mixed, NEW v \in 1 .. w - 1,
                 row'[v].entity = row'[w].entity, row'[v].status = "pending"
          PROVE  FALSE
      <3>1. v \in DOMAIN row /\ v # w
        BY DEF Inv, Types, RowsOK
      <3>2. row'[w].entity = row[w].entity
        BY <2>4, <1>1, <1>10
      <3>3. row[v].entity = row[w].entity /\ row[v].status = "pending"
        BY <2>4, <3>1, <3>2, <1>1, <1>e
      <3> QED
        BY <3>3, <2>4, <1>0
    <2> QED
      BY <2>1, <2>2, <2>3, <2>4, <1>0, <1>1 DEF Turns
  <1>13. DirtyQueued'
    <2>1. \A v \in DOMAIN row : row[v].entity \notin DOMAIN alias => row'[v].entity = row[v].entity
      BY <1>1
    <2> QED
      BY <2>1, <1>0, <1>1, <1>11 DEF Inv, DirtyQueued
  <1> QED
    BY <1>4, <1>5, <1>6, <1>7, <1>9, <1>12, <1>13 DEF Inv

-----------------------------------------------------------------------------
(* An answer.                                                              *)

Remaps(w, i, s) ==
    /\ flight.step = "answered" /\ flight.said = "ok"
    /\ w = flight.w /\ w \in DOMAIN row /\ i = row[w].entity /\ s = flight.id
    /\ row[w].action \in Creates /\ s # i
    /\ row' = Gone(Rekey(i, s), w)
    /\ reads' = Clean(Moved(i, s), Gone(Rekey(i, s), w), s)
    /\ alias' = Put(alias, i, s)
    /\ mixed' = IF SameRead(i, w, s) THEN mixed ELSE mixed \cup {i, s}
    /\ crossed' = crossed \cup Crossed(i, s)
    /\ flight' = Landed
    /\ UNCHANGED <<server, list, drafting, asking, meant, died, faults, elsewhere>>

Settles(w, i) ==
    /\ flight.step = "answered" /\ flight.said \in {"ok", "exists"}
    /\ w = flight.w /\ w \in DOMAIN row /\ i = row[w].entity
    /\ flight.said = "exists" \/ row[w].action \notin Creates \/ flight.id = i
    /\ row' = Gone(row, w)
    /\ reads' = IF flight.said = "exists" /\ i \in DOMAIN reads /\ ~reads[i].synced
                THEN Without(reads, i) ELSE Clean(reads, Gone(row, w), i)
    /\ flight' = Landed
    /\ UNCHANGED <<server, alias, mixed, crossed, list, drafting, asking, meant, died, faults, elsewhere>>

LEMMA SuccessEffects ==
  ASSUME Inv, MarkSuccess
  PROVE  (\E w, i, s : Remaps(w, i, s)) \/ (\E w, i : Settles(w, i))
  <1>1. flight.w \in DOMAIN row
    BY DEF MarkSuccess, Inv, Types, FlightOK
  <1> DEFINE w == flight.w
             i == row[w].entity
             s == flight.id
  <1>2. CASE row[w].action \in {"upsert", "absent"} /\ flight.said = "ok" /\ s # i
    <2>1. Remaps(w, i, s)
      BY <1>1, <1>2 DEF MarkSuccess, Remaps, Creates
    <2> QED
      BY <2>1
  <1>3. CASE ~ (row[w].action \in {"upsert", "absent"} /\ flight.said = "ok" /\ s # i)
    <2>1. Settles(w, i)
      BY <1>1, <1>3 DEF MarkSuccess, Settles, Creates
    <2> QED
      BY <2>1
  <1> QED
    BY <1>2, <1>3

LEMMA LandedFlight ==
  ASSUME flight' = Landed, 0 \notin DOMAIN row', \A v \in DOMAIN row' : row'[v].status # "processing"
  PROVE  FlightOK'
  <1> QED
    BY DEF FlightOK, Landed

\* A table of reads after clean: the row of the answered id, if it is there.
LEMMA CleanReads ==
  ASSUME NEW table, DOMAIN table \subseteq Ids, table \in [DOMAIN table -> Read], NEW queue, NEW s
  PROVE  /\ DOMAIN Clean(table, queue, s) = DOMAIN table
         /\ Clean(table, queue, s) \in [DOMAIN table -> Read]
         /\ \A j \in DOMAIN table : /\ j # s => Clean(table, queue, s)[j] = table[j]
                                    /\ Clean(table, queue, s)[j].shows = table[j].shows
                                    /\ table[j].synced => Clean(table, queue, s)[j].synced
         /\ s \in DOMAIN table /\ (\E v \in DOMAIN queue : queue[v].entity = s /\ queue[v].status = "pending") =>
               Clean(table, queue, s)[s] = table[s]
         /\ s \in DOMAIN table /\ ~Clean(table, queue, s)[s].synced =>
               \E v \in DOMAIN queue : queue[v].entity = s /\ queue[v].status = "pending"
  <1>1. CASE s \in DOMAIN table /\ ~ \E v \in DOMAIN queue : queue[v].entity = s /\ queue[v].status = "pending"
    <2>1. Clean(table, queue, s) = [table EXCEPT ![s].synced = TRUE]
      BY <1>1 DEF Clean
    <2>2. table[s] \in Read
      BY <1>1
    <2>3. /\ [table[s] EXCEPT !.synced = TRUE] \in Read
          /\ [table[s] EXCEPT !.synced = TRUE].synced
          /\ [table[s] EXCEPT !.synced = TRUE].shows = table[s].shows
      BY <2>2 DEF Read
    <2>4. /\ DOMAIN Clean(table, queue, s) = DOMAIN table
          /\ \A j \in DOMAIN table : Clean(table, queue, s)[j] = IF j = s THEN [table[s] EXCEPT !.synced = TRUE] ELSE table[j]
          /\ Clean(table, queue, s) = [j \in DOMAIN table |-> Clean(table, queue, s)[j]]
      BY <2>1
    <2> QED
      BY <1>1, <2>3, <2>4
  <1>2. CASE ~ (s \in DOMAIN table /\ ~ \E v \in DOMAIN queue : queue[v].entity = s /\ queue[v].status = "pending")
    <2>1. Clean(table, queue, s) = table
      BY <1>2 DEF Clean
    <2> QED
      BY <1>2, <2>1
  <1> QED
    BY <1>1, <1>2

LEMMA RemappedRows ==
  ASSUME Inv, NEW w, NEW i, NEW s, Remaps(w, i, s)
  PROVE  /\ RowsOK' /\ Next1' = Next1 /\ DOMAIN row' = DOMAIN row
         /\ \A v \in DOMAIN row : row'[v].action = row[v].action
         /\ \A v \in DOMAIN row : row'[v].entity = IF row[v].entity = i THEN s ELSE row[v].entity
         /\ \A v \in DOMAIN row : row'[v].status = IF v = w THEN "gone" ELSE row[v].status
         /\ i \in Ids /\ s \in Made /\ s \in ServerIds /\ s \in Ids
  <1>1. row' = [Rekey(i, s) EXCEPT ![w].status = "gone"]
    BY DEF Remaps, Gone
  <1>2. \A v \in DOMAIN row : row[v] \in Row
    BY DEF Inv, Types, RowsOK
  <1>3. i \in Ids /\ s \in Made /\ s \in ServerIds
    BY <1>2, MadeIds DEF Remaps, Row, Inv, Types, Answer
  <1>5. s \in Ids
    BY <1>3 DEF Ids
  <1>6. /\ DOMAIN Rekey(i, s) = DOMAIN row
        /\ \A v \in DOMAIN row : Rekey(i, s)[v] = IF row[v].entity = i THEN [row[v] EXCEPT !.entity = s] ELSE row[v]
    BY DEF Rekey
  <1>7. \A v \in DOMAIN row : /\ Rekey(i, s)[v] \in Row /\ Rekey(i, s)[v].action = row[v].action
                              /\ Rekey(i, s)[v].status = row[v].status
                              /\ Rekey(i, s)[v].entity = IF row[v].entity = i THEN s ELSE row[v].entity
    BY <1>2, <1>5, <1>6 DEF Row
  <1>8. /\ DOMAIN row' = DOMAIN row /\ row' = [v \in DOMAIN row |-> row'[v]]
        /\ \A v \in DOMAIN row : row'[v] = IF v = w THEN [Rekey(i, s)[v] EXCEPT !.status = "gone"] ELSE Rekey(i, s)[v]
    BY <1>1, <1>6
  <1>9. \A v \in DOMAIN row : /\ row'[v] \in Row /\ row'[v].action = row[v].action
                              /\ row'[v].entity = IF row[v].entity = i THEN s ELSE row[v].entity
                              /\ row'[v].status = IF v = w THEN "gone" ELSE row[v].status
    BY <1>7, <1>8 DEF Row
  <1>10. RowsOK' /\ Next1' = Next1
    BY <1>8, <1>9, RowsStay DEF Inv, Types
  <1> QED
    BY <1>3, <1>5, <1>8, <1>9, <1>10

LEMMA RemappedReads ==
  ASSUME Inv, NEW w, NEW i, NEW s, Remaps(w, i, s)
  PROVE  /\ ReadsOK' /\ i \notin DOMAIN reads'
         /\ \A j \in DOMAIN reads' : j # s => j \in DOMAIN reads /\ j # i /\ reads'[j] = reads[j]
         /\ \A j \in DOMAIN reads : j # i => j \in DOMAIN reads'
         /\ s \in DOMAIN reads' => s \in DOMAIN reads \/ i \in DOMAIN reads
         /\ s \in DOMAIN reads' /\ ~reads'[s].synced =>
               \E v \in DOMAIN row : row'[v].entity = s /\ row'[v].status = "pending"
  <1>0. s # i /\ s \in Ids /\ i \in Ids /\ DOMAIN row' = DOMAIN row
        /\ reads' = Clean(Moved(i, s), row', s)
    BY RemappedRows DEF Remaps
  <1>1. DOMAIN reads \subseteq Ids /\ reads \in [DOMAIN reads -> Read]
    BY DEF Inv, Types, ReadsOK
  <1> DEFINE table == Moved(i, s)
  <1>2. /\ DOMAIN table \subseteq Ids /\ table \in [DOMAIN table -> Read] /\ i \notin DOMAIN table
        /\ \A j \in DOMAIN table : j # s => j \in DOMAIN reads /\ j # i /\ table[j] = reads[j]
        /\ \A j \in DOMAIN reads : j # i => j \in DOMAIN table
        /\ s \in DOMAIN table => s \in DOMAIN reads \/ i \in DOMAIN reads
    <2>1. CASE s \in DOMAIN reads \/ i \notin DOMAIN reads
      <3>1. table = Without(reads, i)
        BY <2>1 DEF Moved
      <3> QED
        BY <2>1, <3>1, <1>0, <1>1 DEF Without
    <2>2. CASE ~ (s \in DOMAIN reads \/ i \notin DOMAIN reads)
      <3>1. table = Put(Without(reads, i), s, reads[i])
        BY <2>2 DEF Moved
      <3>2. /\ DOMAIN table = (DOMAIN reads \ {i}) \cup {s}
            /\ \A j \in DOMAIN table : table[j] = IF j = s THEN reads[i] ELSE reads[j]
            /\ table = [j \in DOMAIN table |-> table[j]]
        BY <3>1 DEF Put, Without
      <3>3. reads[i] \in Read
        BY <2>2, <1>1
      <3> HIDE DEF table
      <3>4. \A j \in DOMAIN table : table[j] \in Read
        BY <3>2, <3>3, <1>1
      <3> QED
        BY <2>2, <3>2, <3>4, <1>0, <1>1
    <2> QED
      BY <2>1, <2>2
  <1> HIDE DEF table
  <1>3. reads' = Clean(table, row', s)
    BY <1>0 DEF table
  <1>4. /\ DOMAIN reads' = DOMAIN table
        /\ reads' \in [DOMAIN table -> Read]
        /\ \A j \in DOMAIN table : j # s => reads'[j] = table[j]
        /\ s \in DOMAIN table /\ ~reads'[s].synced =>
              \E v \in DOMAIN row' : row'[v].entity = s /\ row'[v].status = "pending"
    BY <1>2, <1>3, CleanReads
  <1>5. ReadsOK'
    BY <1>2, <1>4 DEF ReadsOK
  <1> QED
    BY <1>0, <1>2, <1>4, <1>5

LEMMA RemapsKeeps ==
  ASSUME Inv, NEW w, NEW i, NEW s, Remaps(w, i, s)
  PROVE  Inv'
  <1>0. /\ flight.step = "answered" /\ w = flight.w /\ w \in DOMAIN row /\ i = row[w].entity
        /\ row[w].action \in Creates /\ s # i /\ flight' = Landed
        /\ UNCHANGED <<server, list, drafting, asking, meant, died, faults, elsewhere>>
    BY DEF Remaps
  <1>1. /\ RowsOK' /\ Next1' = Next1 /\ DOMAIN row' = DOMAIN row
        /\ \A v \in DOMAIN row : row'[v].action = row[v].action
        /\ \A v \in DOMAIN row : row'[v].entity = IF row[v].entity = i THEN s ELSE row[v].entity
        /\ \A v \in DOMAIN row : row'[v].status = IF v = w THEN "gone" ELSE row[v].status
        /\ i \in Ids /\ s \in Made /\ s \in ServerIds /\ s \in Ids
    BY RemappedRows
  <1>2. /\ ReadsOK' /\ i \notin DOMAIN reads'
        /\ \A j \in DOMAIN reads' : j # s => j \in DOMAIN reads /\ j # i /\ reads'[j] = reads[j]
        /\ s \in DOMAIN reads' => s \in DOMAIN reads \/ i \in DOMAIN reads
        /\ s \in DOMAIN reads' /\ ~reads'[s].synced =>
              \E v \in DOMAIN row : row'[v].entity = s /\ row'[v].status = "pending"
    BY RemappedReads
  <1>3. /\ DOMAIN alias' = DOMAIN alias \cup {i} /\ alias'[i] = s
        /\ \A j \in DOMAIN alias : j # i => alias'[j] = alias[j]
        /\ alias' = [j \in DOMAIN alias' |-> alias'[j]]
    BY DEF Remaps, Put
  <1>4. mixed \subseteq mixed' /\ mixed' \subseteq mixed \cup {i, s} /\ (i \notin LocalIds => mixed' = mixed \cup {i, s})
    BY DEF Remaps, SameRead
  <1>5. Made' = Made /\ 0 \notin DOMAIN row
    BY <1>0, IdSets DEF Made, Inv, Types, RowsOK
  <1>6. \A v \in DOMAIN row : row[v].status = "processing" <=> v = w
    BY <1>0 DEF Inv, Types, FlightOK
  <1>7. Types'
    <2>1. FlightOK'
      BY <1>0, <1>1, <1>5, <1>6, LandedFlight
    <2>2. AliasOK'
      <3>1. \A j \in DOMAIN alias' : j \in Ids /\ alias'[j] \in ServerIds
        BY <1>1, <1>3 DEF Inv, Types, AliasOK
      <3> QED
        BY <3>1, <1>3 DEF AliasOK
    <2>3. ServerOK' /\ ListsOK'
      BY <1>0, <1>5 DEF Inv, Types, ServerOK, ListsOK
    <2>4. AskingOK' /\ HistoryOK'
      BY <1>0, <1>1, <1>4, <1>5 DEF Inv, Types, AskingOK, HistoryOK
    <2> QED
      BY <2>1, <2>2, <2>3, <2>4, <1>1, <1>2 DEF Types
  <1>8. Real'
    BY <1>0, <1>1, <1>2, <1>3, <1>5 DEF Inv, Real
  <1>9. Answer'
    BY <1>0 DEF Answer, Landed
  <1>10. Mixing'
    BY <1>1, <1>3, <1>4, IdSets DEF Inv, Mixing
  <1>11. \A v \in DOMAIN row : row'[v].entity \in LocalIds => row'[v].entity = row[v].entity /\ row[v].entity # i
    BY <1>1, IdSets
  <1>12. Locals'
    <2>1. \A v \in DOMAIN row : \A u \in 1 .. v - 1 : u \in DOMAIN row
      BY DEF Inv, Types, RowsOK
    <2>2. ASSUME NEW v \in DOMAIN row, row'[v].entity \in LocalIds
          PROVE  row'[v].action = "absent" => \A u \in 1 .. v - 1 : row'[u].entity # row'[v].entity
      BY <2>1, <2>2, <1>1, <1>11, IdSets DEF Inv, Locals
    <2>3. \A j \in DOMAIN reads' : j \in LocalIds => j \notin DOMAIN alias' /\ ~reads'[j].synced
      BY <1>1, <1>2, <1>3, IdSets DEF Inv, Locals
    <2>4. ASSUME NEW v \in DOMAIN row, row'[v].entity \in LocalIds
          PROVE  /\ meant'[v] = row'[v].entity
                 /\ row'[v].entity \in DOMAIN alias' => row'[v].action = "review"
                 /\ row'[v].action = "delete" => row'[v].entity \notin DOMAIN reads'
      <3>1. row[v].entity # s
        BY <2>4, <1>1, <1>11, IdSets
      <3> QED
        BY <2>4, <3>1, <1>0, <1>1, <1>2, <1>3, <1>11 DEF Inv, Locals
    <2> QED
      BY <2>2, <2>3, <2>4, <1>1 DEF Locals
  <1>13. Turns'
    <2>1. \A v \in DOMAIN row : row'[v].status = "dead" => v \in died'
      BY <1>0, <1>1 DEF Inv, Turns
    <2>2. ASSUME NEW v \in DOMAIN row, row'[v].action = "absent", Queued(v)', row'[v].entity \in ServerIds
          PROVE  row'[v].entity \in mixed' \/ v \in died'
      <3>1. v # w /\ Queued(v) /\ row[v].action = "absent"
        BY <2>2, <1>1 DEF Queued
      <3>2. CASE row[v].entity # i
        BY <2>2, <3>1, <3>2, <1>0, <1>1, <1>4 DEF Inv, Turns
      <3>3. CASE row[v].entity = i /\ i \in ServerIds
        BY <3>3, <1>1, <1>4, IdSets
      <3>4. CASE row[v].entity = i /\ i \in LocalIds
        <4>1. i \notin mixed
          BY <3>4, <1>0 DEF Inv, Mixing, Locals, Creates
        <4>2. v \in Nat /\ w \in Nat /\ v > 0 /\ w > 0
          BY <1>0, IdSets DEF Inv, Types, RowsOK
        <4>3. ~ (w < v)
          <5>1. \A u \in 1 .. v - 1 : row[u].entity # i
            BY <3>1, <3>4 DEF Inv, Locals
          <5> QED
            BY <4>2, <5>1, <1>0
        <4>4. v \in 1 .. w - 1
          BY <3>1, <4>2, <4>3
        <4>5. row[v].status = "pending"
          BY <3>1, <1>6 DEF Queued
        <4> QED
          BY <3>4, <4>1, <4>4, <4>5, <1>0 DEF Inv, Turns, Creates
      <3> QED
        BY <3>2, <3>3, <3>4, <1>1 DEF Ids
    <2> QED
      BY <2>1, <2>2, <1>0, <1>1 DEF Turns, Landed
  <1>14. DirtyQueued'
    <2>1. ASSUME NEW j \in DOMAIN reads' \ DOMAIN alias', ~reads'[j].synced, j # s
          PROVE  \E v \in DOMAIN row : row'[v].entity = j /\ (Queued(v)' \/ v \in died')
      <3>1. j \in DOMAIN reads \ DOMAIN alias /\ ~reads[j].synced /\ j # i
        BY <2>1, <1>2, <1>3
      <3>2. PICK v \in DOMAIN row : row[v].entity = j /\ (Queued(v) \/ v \in died)
        BY <3>1 DEF Inv, DirtyQueued
      <3>3. v # w /\ row'[v].entity = j /\ (Queued(v) => Queued(v)')
        BY <3>1, <3>2, <1>0, <1>1 DEF Queued
      <3> QED
        BY <3>2, <3>3, <1>0
    <2>2. ASSUME s \in DOMAIN reads', ~reads'[s].synced
          PROVE  \E v \in DOMAIN row : row'[v].entity = s /\ (Queued(v)' \/ v \in died')
      <3>1. PICK v \in DOMAIN row : row'[v].entity = s /\ row'[v].status = "pending"
        BY <2>2, <1>2
      <3>2. Queued(v)'
        BY <3>1, <1>1 DEF Queued
      <3> QED
        BY <3>1, <3>2
    <2> QED
      BY <2>1, <2>2, <1>1 DEF DirtyQueued
  <1> QED
    BY <1>7, <1>8, <1>9, <1>10, <1>12, <1>13, <1>14 DEF Inv

LEMMA SettledRows ==
  ASSUME Inv, NEW w, NEW i, Settles(w, i)
  PROVE  /\ RowsOK' /\ Next1' = Next1 /\ DOMAIN row' = DOMAIN row
         /\ \A v \in DOMAIN row : row'[v].action = row[v].action /\ row'[v].entity = row[v].entity
         /\ \A v \in DOMAIN row : row'[v].status = IF v = w THEN "gone" ELSE row[v].status
  <1>1. w \in DOMAIN row /\ row' = [row EXCEPT ![w].status = "gone"]
    BY DEF Settles, Gone
  <1>2. \A v \in DOMAIN row : row[v] \in Row
    BY DEF Inv, Types, RowsOK
  <1>3. /\ DOMAIN row' = DOMAIN row /\ row' = [v \in DOMAIN row |-> row'[v]]
        /\ \A v \in DOMAIN row : row'[v] = IF v = w THEN [row[v] EXCEPT !.status = "gone"] ELSE row[v]
    BY <1>1
  <1>4. \A v \in DOMAIN row : /\ row'[v] \in Row /\ row'[v].action = row[v].action
                              /\ row'[v].entity = row[v].entity
                              /\ row'[v].status = IF v = w THEN "gone" ELSE row[v].status
    BY <1>2, <1>3 DEF Row
  <1>5. RowsOK' /\ Next1' = Next1
    BY <1>3, <1>4, RowsStay DEF Inv, Types
  <1> QED
    BY <1>3, <1>4, <1>5

LEMMA SettledReads ==
  ASSUME Inv, NEW w, NEW i, Settles(w, i)
  PROVE  /\ ReadsOK' /\ DOMAIN reads' \subseteq DOMAIN reads
         /\ \A j \in DOMAIN reads : j # i => j \in DOMAIN reads' /\ reads'[j] = reads[j]
         /\ i \in DOMAIN reads /\ i \notin DOMAIN reads' => flight.said = "exists"
         /\ i \in DOMAIN reads' => i \in ServerIds
         /\ i \in DOMAIN reads' /\ (\E v \in DOMAIN row : row'[v].entity = i /\ row'[v].status = "pending") =>
               reads'[i] = reads[i]
         /\ i \in DOMAIN reads' /\ ~reads'[i].synced =>
               \E v \in DOMAIN row : row'[v].entity = i /\ row'[v].status = "pending"
  <1>0. /\ w = flight.w /\ w \in DOMAIN row /\ i = row[w].entity /\ flight.step = "answered"
        /\ flight.said \in {"ok", "exists"}
        /\ flight.said = "exists" \/ row[w].action \notin Creates \/ flight.id = i
        /\ reads' = IF flight.said = "exists" /\ i \in DOMAIN reads /\ ~reads[i].synced
                    THEN Without(reads, i) ELSE Clean(reads, row', i)
    BY DEF Settles
  <1>1. DOMAIN reads \subseteq Ids /\ reads \in [DOMAIN reads -> Read] /\ DOMAIN row' = DOMAIN row
    BY SettledRows DEF Inv, Types, ReadsOK
  <1>2. CASE flight.said = "exists" /\ i \in DOMAIN reads /\ ~reads[i].synced
    <2>1. reads' = Without(reads, i)
      BY <1>0, <1>2
    <2> QED
      BY <1>1, <1>2, <2>1 DEF Without, ReadsOK
  <1>3. CASE ~ (flight.said = "exists" /\ i \in DOMAIN reads /\ ~reads[i].synced)
    <2>1. reads' = Clean(reads, row', i)
      BY <1>0, <1>3
    <2>2. /\ DOMAIN reads' = DOMAIN reads /\ reads' \in [DOMAIN reads -> Read]
          /\ \A j \in DOMAIN reads : j # i => reads'[j] = reads[j]
          /\ i \in DOMAIN reads /\ (\E v \in DOMAIN row' : row'[v].entity = i /\ row'[v].status = "pending") =>
                reads'[i] = reads[i]
          /\ i \in DOMAIN reads /\ ~reads'[i].synced =>
                \E v \in DOMAIN row' : row'[v].entity = i /\ row'[v].status = "pending"
      BY <1>1, <2>1, CleanReads
    <2>3. ReadsOK'
      BY <1>1, <2>2 DEF ReadsOK
    <2>4. i \in DOMAIN reads => i \in ServerIds
      <3>1. SUFFICES ASSUME i \in DOMAIN reads, i \in LocalIds
                     PROVE  FALSE
        BY <1>1 DEF Ids
      <3>2. ~reads[i].synced
        BY <3>1 DEF Inv, Locals
      <3>3. flight.said = "ok"
        BY <3>1, <3>2, <1>0, <1>3
      <3>4. row[w].action # "delete"
        BY <3>1, <1>0 DEF Inv, Locals
      <3>5. flight.id = i
        BY <3>3, <1>0 DEF Inv, Answer
      <3>6. flight.id \in Made
        BY <3>3, <3>4, <1>0 DEF Inv, Answer
      <3> QED
        BY <3>1, <3>5, <3>6, MadeIds, IdSets DEF Inv, Types
    <2> QED
      BY <1>1, <2>2, <2>3, <2>4
  <1> QED
    BY <1>2, <1>3

LEMMA SettlesKeeps ==
  ASSUME Inv, NEW w, NEW i, Settles(w, i)
  PROVE  Inv'
  <1>0. /\ flight.step = "answered" /\ w = flight.w /\ w \in DOMAIN row /\ i = row[w].entity
        /\ flight' = Landed
        /\ UNCHANGED <<server, alias, mixed, crossed, list, drafting, asking, meant, died, faults, elsewhere>>
    BY DEF Settles
  <1>1. /\ RowsOK' /\ Next1' = Next1 /\ DOMAIN row' = DOMAIN row
        /\ \A v \in DOMAIN row : row'[v].action = row[v].action /\ row'[v].entity = row[v].entity
        /\ \A v \in DOMAIN row : row'[v].status = IF v = w THEN "gone" ELSE row[v].status
    BY SettledRows
  <1>2. /\ ReadsOK' /\ DOMAIN reads' \subseteq DOMAIN reads
        /\ \A j \in DOMAIN reads : j # i => j \in DOMAIN reads' /\ reads'[j] = reads[j]
        /\ i \in DOMAIN reads' => i \in ServerIds
        /\ i \in DOMAIN reads' /\ ~reads'[i].synced =>
              \E v \in DOMAIN row : row'[v].entity = i /\ row'[v].status = "pending"
    BY SettledReads
  <1>5. Made' = Made /\ 0 \notin DOMAIN row
    BY <1>0, IdSets DEF Made, Inv, Types, RowsOK
  <1>6. \A v \in DOMAIN row : row[v].status = "processing" <=> v = w
    BY <1>0 DEF Inv, Types, FlightOK
  <1>7. Types'
    <2>1. FlightOK'
      BY <1>0, <1>1, <1>5, <1>6, LandedFlight
    <2>2. ServerOK' /\ AliasOK' /\ ListsOK'
      BY <1>0, <1>5 DEF Inv, Types, ServerOK, AliasOK, ListsOK
    <2>3. AskingOK' /\ HistoryOK'
      BY <1>0, <1>1, <1>5 DEF Inv, Types, AskingOK, HistoryOK
    <2> QED
      BY <2>1, <2>2, <2>3, <1>1, <1>2 DEF Types
  <1>8. Real'
    BY <1>0, <1>1, <1>2, <1>5 DEF Inv, Real
  <1>9. Answer'
    BY <1>0 DEF Answer, Landed
  <1>10. Mixing'
    BY <1>0 DEF Inv, Mixing
  <1>11. Locals'
    <2>1. \A v \in DOMAIN row : \A u \in 1 .. v - 1 : u \in DOMAIN row
      BY DEF Inv, Types, RowsOK
    <2>2. \A j \in DOMAIN reads' : j \in LocalIds => j \notin DOMAIN alias' /\ ~reads'[j].synced
      BY <1>0, <1>2, IdSets DEF Inv, Locals
    <2> QED
      BY <2>1, <2>2, <1>0, <1>1, <1>2 DEF Inv, Locals
  <1>12. \A v \in DOMAIN row : Queued(v)' <=> Queued(v) /\ v # w
    BY <1>0, <1>1 DEF Queued
  <1>13. Turns'
    BY <1>0, <1>1, <1>12 DEF Inv, Turns, Landed
  <1>14. DirtyQueued'
    <2>1. ASSUME NEW j \in DOMAIN reads' \ DOMAIN alias', ~reads'[j].synced
          PROVE  \E v \in DOMAIN row : row'[v].entity = j /\ (Queued(v)' \/ v \in died')
      <3>1. CASE j = i
        BY <2>1, <3>1, <1>1, <1>2 DEF Queued
      <3>2. CASE j # i
        <4>1. PICK v \in DOMAIN row : row[v].entity = j /\ (Queued(v) \/ v \in died)
          BY <2>1, <3>2, <1>0, <1>2 DEF Inv, DirtyQueued
        <4> QED
          BY <4>1, <3>2, <1>0, <1>1, <1>12
      <3> QED
        BY <3>1, <3>2
    <2> QED
      BY <2>1, <1>1 DEF DirtyQueued
  <1> QED
    BY <1>7, <1>8, <1>9, <1>10, <1>11, <1>13, <1>14 DEF Inv

-----------------------------------------------------------------------------
(* The invariant.                                                          *)

LEMMA InvInit == Init => Inv
  <1> SUFFICES ASSUME Init
               PROVE  Inv
    OBVIOUS
  <1>1. /\ server = <<>> /\ DOMAIN reads = {} /\ reads = [i \in {} |-> 0] /\ row = <<>> /\ DOMAIN row = {} /\ DOMAIN alias = {}
        /\ alias = [i \in {} |-> 0] /\ flight = Landed /\ list = [c \in Screens |-> NoList]
        /\ drafting = 0 /\ asking = NotAsking /\ DOMAIN meant = {} /\ died = {} /\ mixed = {} /\ crossed = {} /\ faults = 0 /\ elsewhere = 0
    BY DEF Init
  <1>2. Made = {} /\ ServerOK
    BY <1>1, IdSets DEF Made, ServerOK
  <1>3. Next1 = 1
    BY <1>1, FS_EmptySet DEF Next1
  <1>4. RowsOK /\ ReadsOK /\ AliasOK
    BY <1>1, <1>3 DEF RowsOK, ReadsOK, AliasOK
  <1>5. FlightOK
    BY <1>1 DEF FlightOK, Landed
  <1>6. ListsOK
    BY <1>1 DEF ListsOK, NoList
  <1>7. AskingOK /\ HistoryOK
    BY <1>1, <1>2, IdSets DEF AskingOK, NotAsking, HistoryOK
  <1>8. Real /\ Answer /\ Locals /\ Mixing /\ Turns /\ DirtyQueued
    BY <1>1, IdSets DEF Real, Answer, Locals, Mixing, Turns, DirtyQueued, Landed, NotAsking, Ids
  <1> QED
    BY <1>2, <1>4, <1>5, <1>6, <1>7, <1>8 DEF Inv, Types

\* Every step is of one of these kinds.
LEMMA Kinds ==
  ASSUME Inv, Next
  PROVE  \/ \E e \in Ids, t \in Ids, a \in Actions : Rewrote(e, t, a)
         \/ \E l \in FreshLocal, a \in Actions : Created(l, a)
         \/ \E e \in Ids, t \in Ids : Deleted(e, t)
         \/ \E i \in Ids : ReviewUpdate(i)
         \/ ReviewEnqueue \/ Asks \/ Serve \/ Elsewhere
         \/ \E w \in DOMAIN row : Send(w)
         \/ \E w, i, s : Remaps(w, i, s)
         \/ \E w, i : Settles(w, i)
         \/ \E w \in DOMAIN row, status \in {"pending", "dead", "gone"} : Restated(w, status)
         \/ \E c \in Screens : Fetch(c) \/ Cache(c)
  <1>1. CASE Reader
    BY <1>1, ReaderEffects DEF Inv
  <1>2. CASE MarkSuccess
    BY <1>2, SuccessEffects
  <1>3. CASE DeadLetter \/ Lose \/ \E w \in DOMAIN row : Retry(w) \/ Dismiss(w)
    BY <1>3, RestatedActions
  <1> QED
    BY <1>1, <1>2, <1>3 DEF Next, Sync, Asks

LEMMA InvStep == Inv /\ [Next]_vars => Inv'
  <1> SUFFICES ASSUME Inv, [Next]_vars
               PROVE  Inv'
    OBVIOUS
  <1>1. CASE Next
    BY <1>1, Kinds, RewroteKeeps, CreatedKeeps, DeletedKeeps, ReviewUpdateKeeps, ReviewEnqueueKeeps, AskKeeps,
       ServeKeeps, ElsewhereKeeps, SendKeeps, RemapsKeeps, SettlesKeeps, RestatedKeeps, FetchKeeps, CacheKeeps
  <1>2. CASE UNCHANGED vars
    <2>1. UNCHANGED <<Tables, server, flight, list, asking, faults, elsewhere>>
          /\ UNCHANGED <<row, reads, alias, drafting, meant, died, mixed, crossed>>
      BY <1>2 DEF vars, Tables
    <2>2. Made' = Made
      BY <2>1 DEF Made
    <2>3. ServerOK' /\ FlightOK' /\ ListsOK' /\ HistoryOK' /\ Answer'
      BY <2>1, <2>2 DEF Inv, Types, ServerOK, FlightOK, ListsOK, HistoryOK, Answer
    <2> QED
      BY <2>1, <2>2, <2>3, TablesKeep DEF Inv, Types, AskingOK, Real
  <1> QED
    BY <1>1, <1>2

LEMMA InvAlways == Spec => []Inv
  <1> QED
    BY InvInit, InvStep, PTL DEF Spec

(* The tables hold what they may; the one row being sent is the flush's,    *)
(* and a local id that was answered is no row's any more (queue.ts:525-534).*)
THEOREM TypeCorrect == Spec => []TypeOK
  <1>1. Inv => TypeOK
    <2> SUFFICES ASSUME Inv
                 PROVE  TypeOK
      OBVIOUS
    <2>1. \A s \in Made : server[s] \in [live : BOOLEAN, over : BOOLEAN, has : SUBSET Writes,
                                         by : SUBSET Writes, no : ServerIds]
      <3>1. ASSUME NEW s \in Made
            PROVE  server[s] \in Attempt /\ server[s].no \in ServerIds
        <4>1. s \in ServerIds /\ server[s] \in Attempt /\ server[s].no <= s
          BY MadeIds DEF Inv, Types, ServerOK
        <4> QED
          BY <4>1, IdSets DEF ServerIds, Attempt
      <3> QED
        BY <3>1 DEF Attempt
    <2>2. /\ DOMAIN reads \subseteq Ids
          /\ \A i \in DOMAIN reads : reads[i] \in [over : BOOLEAN, no : Nat, shows : SUBSET Writes, synced : BOOLEAN]
      BY DEF Inv, Types, ReadsOK, Read
    <2>3. /\ DOMAIN row \subseteq Writes
          /\ \A w \in DOMAIN row :
                row[w] \in [entity : Ids, action : Actions, status : {"pending", "processing", "dead", "gone"}]
      BY DEF Inv, Types, RowsOK, Row
    <2>4. DOMAIN alias \subseteq Ids /\ \A i \in DOMAIN alias : alias[i] \in ServerIds
      BY DEF Inv, Types, AliasOK
    <2>5. {w \in DOMAIN row : row[w].status = "processing"} = {flight.w} \ {0}
      <3>1. 0 \notin DOMAIN row /\ (flight.w = 0 \/ flight.w \in DOMAIN row)
        BY IdSets DEF Inv, Types, RowsOK, FlightOK
      <3> QED
        BY <3>1 DEF Inv, Types, FlightOK
    <2>6. DOMAIN reads \cap DOMAIN alias \cap LocalIds = {}
      BY DEF Inv, Locals
    <2>7. /\ asking.step \in {"idle", "alias", "row"}
          /\ drafting \in Ids \cup {0} /\ faults \in 0 .. MaxFaults /\ elsewhere \in 0 .. MaxElsewhere
      BY DEF Inv, Types, AskingOK, HistoryOK
    <2> QED
      BY <2>1, <2>2, <2>3, <2>4, <2>5, <2>6, <2>7 DEF TypeOK
  <1> QED
    BY <1>1, InvAlways, PTL

(* A row that lists leave alone has something to be sent, or was refused:  *)
(* markSuccess (queue.ts:440-447) leaves synced only where a row waits.     *)
THEOREM DirtyCorrect == Spec => []DirtyQueued
  <1>1. Inv => DirtyQueued
    BY DEF Inv
  <1> QED
    BY <1>1, InvAlways, PTL

(* A toast that says "added" is true (repository.ts:423-433): the id that   *)
(* was looked up is of an attempt the server made.                          *)
THEOREM AddedCorrect == Spec => []AddedTrue
  <1>1. Inv => AddedTrue
    BY IdSets DEF Inv, Types, ReadsOK, Locals, Real, AddedTrue, Toast
  <1> QED
    BY <1>1, InvAlways, PTL

(* A list that is cached while nothing is queued or was refused shows what  *)
(* the server has (cacheServerReads, repository.ts:483-537).                *)
THEOREM RefreshCorrect == Spec => RefreshTells
  <1>1. Inv /\ [Next]_vars =>
        [\A c \in Screens :
            list[c] = Told /\ list'[c] # list[c] /\ DOMAIN alias \cap ServerIds = {}
            /\ died = {} /\ (\A w \in DOMAIN row : ~Queued(w))
            => \A s \in Live : reads'[s] = Told[s]]_vars
    <2> SUFFICES ASSUME Inv, Next, NEW c \in Screens,
                        list[c] = Told, list'[c] # list[c], DOMAIN alias \cap ServerIds = {},
                        died = {}, \A w \in DOMAIN row : ~Queued(w), NEW s \in Live
                 PROVE  reads'[s] = Told[s]
      OBVIOUS
    <2>1. DOMAIN list = Screens
      BY DEF Inv, Types, ListsOK
    <2>2. ~ UNCHANGED list
      OBVIOUS
    <2>3. \A d \in Screens : ~Fetch(d)
      <3>1. ASSUME NEW d \in Screens, Fetch(d)
            PROVE  FALSE
        <4>1. d = c
          BY <3>1, <2>1 DEF Fetch
        <4>2. list' = [list EXCEPT ![c] = Told]
          BY <3>1, <4>1 DEF Fetch
        <4> QED
          BY <4>2, <2>1
      <3> QED
        BY <3>1
    <2>4. PICK d \in Screens : Cache(d)
      BY <2>2, <2>3, Kinds DEF Rewrote, Created, Deleted, Written, ReviewUpdate, ReviewEnqueue, Asks, AskAlias, AskRow,
         Serve, Elsewhere, Send, Remaps, Settles, Restated
    <2>5. d = c
      BY <2>1, <2>4 DEF Cache
    <2>6. s \in ServerIds /\ s \in DOMAIN Told
      BY MadeIds DEF Inv, Types, Live, Told
    <2>7. ~Kept(s)
      BY <2>6 DEF Kept, Inv, DirtyQueued
    <2>8. LET news == {i \in DOMAIN list[c] : ~Kept(i)}
          IN  reads' = [i \in DOMAIN reads \cup news |-> IF i \in news THEN list[c][i] ELSE reads[i]]
      BY <2>4, <2>5 DEF Cache
    <2> DEFINE news == {i \in DOMAIN list[c] : ~Kept(i)}
    <2>9. s \in news
      BY <2>6, <2>7
    <2> HIDE DEF Kept, Told
    <2> QED
      BY <2>8, <2>9
  <1> QED
    BY <1>1, InvAlways, PTL DEF Spec, RefreshTells

-----------------------------------------------------------------------------
(* What is shown, when no list comes between a create and its answer.      *)

LEMMA RewroteTables ==
  ASSUME Inv, NEW e \in Ids, NEW t \in Ids, NEW a \in Actions, Rewrote(e, t, a), NEW n, n = Next1
  PROVE  /\ n \notin DOMAIN row /\ DOMAIN row' = DOMAIN row \cup {n}
         /\ row'[n] = [entity |-> e, action |-> a, status |-> "pending"] /\ meant'[n] = t
         /\ \A w \in DOMAIN row : w < n /\ row'[w] = row[w] /\ meant'[w] = meant[w]
         /\ e \in DOMAIN reads /\ DOMAIN reads' = DOMAIN reads
         /\ reads'[e].shows = reads[e].shows \cup {n} /\ ~reads'[e].synced
         /\ \A i \in DOMAIN reads : i # e => reads'[i] = reads[i]
         /\ UNCHANGED <<server, alias, died, mixed, crossed, drafting>>
  <1>0. /\ n \in Writes /\ e \in DOMAIN reads
        /\ Enqueue(e, t, a) /\ UNCHANGED <<Written, drafting, asking>>
    BY DEF Rewrote, CanWrite
  <1>3. /\ n \notin DOMAIN row
        /\ DOMAIN row' = DOMAIN row \cup {n}
        /\ row'[n] = [entity |-> e, action |-> a, status |-> "pending"] /\ meant'[n] = t
        /\ \A w \in DOMAIN row : w < n /\ row'[w] = row[w] /\ meant'[w] = meant[w]
    BY <1>0, EnqueuedRows DEF Inv, Types, HistoryOK
  <1>4. /\ DOMAIN reads' = DOMAIN reads /\ reads'[e].shows = reads[e].shows \cup {n} /\ ~reads'[e].synced
        /\ \A i \in DOMAIN reads : i # e => reads'[i] = reads[i]
    <2>1. PICK r \in {Shown(e), [Shown(e) EXCEPT !.over = TRUE]} : reads' = [reads EXCEPT ![e] = r]
      BY DEF Rewrote
    <2>2. r.shows = reads[e].shows \cup {n} /\ ~r.synced
      BY <2>1, <1>0, ShownReads DEF Inv, Types
    <2> QED
      BY <2>1, <2>2, <1>0
  <1> QED
    BY <1>0, <1>3, <1>4 DEF Written

LEMMA CreatedTables ==
  ASSUME Inv, NEW l \in FreshLocal, NEW a \in Actions, Created(l, a), NEW n, n = Next1
  PROVE  /\ n \notin DOMAIN row /\ DOMAIN row' = DOMAIN row \cup {n}
         /\ row'[n] = [entity |-> l, action |-> a, status |-> "pending"] /\ meant'[n] = l
         /\ \A w \in DOMAIN row : row'[w] = row[w] /\ meant'[w] = meant[w] /\ row[w].entity # l
         /\ l \in LocalIds /\ l \notin ServerIds /\ a \in Creates
         /\ DOMAIN reads' = DOMAIN reads \cup {l}
         /\ \A i \in DOMAIN reads : reads'[i] = reads[i]
         /\ UNCHANGED <<server, alias, died, mixed, crossed, drafting>>
  <1>l. /\ l \in LocalIds /\ l \in Ids /\ l \notin ServerIds /\ l \notin DOMAIN reads
        /\ \A w \in DOMAIN row : row[w].entity # l
    BY FreshIds DEF Inv
  <1>0. n \in Writes /\ a \in Creates /\ Enqueue(l, l, a) /\ UNCHANGED <<Written, drafting>>
    BY DEF Created, CanWrite
  <1>3. /\ n \notin DOMAIN row
        /\ DOMAIN row' = DOMAIN row \cup {n}
        /\ row'[n] = [entity |-> l, action |-> a, status |-> "pending"] /\ meant'[n] = l
        /\ \A w \in DOMAIN row : row'[w] = row[w] /\ meant'[w] = meant[w]
    BY <1>0, <1>l, EnqueuedRows DEF Inv, Types, HistoryOK
  <1>4. /\ DOMAIN reads' = DOMAIN reads \cup {l}
        /\ \A i \in DOMAIN reads : reads'[i] = reads[i]
    BY <1>l DEF Created, Put
  <1> QED
    BY <1>0, <1>l, <1>3, <1>4 DEF Written

LEMMA DeletedTables ==
  ASSUME Inv, NEW e \in Ids, NEW t \in Ids, Deleted(e, t), NEW n, n = Next1
  PROVE  /\ n \notin DOMAIN row /\ DOMAIN row' = DOMAIN row \cup {n}
         /\ row'[n] = [entity |-> e, action |-> "delete", status |-> "pending"]
         /\ \A w \in DOMAIN row : w < n /\ row'[w] = row[w] /\ meant'[w] = meant[w]
         /\ e \in DOMAIN reads /\ DOMAIN reads' = DOMAIN reads \ {e}
         /\ \A i \in DOMAIN reads' : reads'[i] = reads[i]
         /\ UNCHANGED <<server, alias, died, mixed, crossed, drafting>>
  <1>0. /\ n \in Writes /\ e \in DOMAIN reads /\ "delete" \in Actions
        /\ Enqueue(e, t, "delete") /\ UNCHANGED <<Written, drafting, asking>>
    BY DEF Deleted, CanWrite, Actions
  <1>3. /\ n \notin DOMAIN row
        /\ DOMAIN row' = DOMAIN row \cup {n}
        /\ row'[n] = [entity |-> e, action |-> "delete", status |-> "pending"]
        /\ \A w \in DOMAIN row : w < n /\ row'[w] = row[w] /\ meant'[w] = meant[w]
    BY <1>0, EnqueuedRows DEF Inv, Types, HistoryOK
  <1>4. /\ DOMAIN reads' = DOMAIN reads \ {e}
        /\ \A i \in DOMAIN reads' : reads'[i] = reads[i]
    BY DEF Deleted, Without
  <1> QED
    BY <1>0, <1>3, <1>4 DEF Written

LEMMA ReviewedTables ==
  ASSUME Inv, ReviewEnqueue, NEW n, n = Next1
  PROVE  /\ n \notin DOMAIN row /\ DOMAIN row' = DOMAIN row \cup {n}
         /\ row'[n] = [entity |-> drafting, action |-> "review", status |-> "pending"]
         /\ \A w \in DOMAIN row : w < n /\ row'[w] = row[w] /\ meant'[w] = meant[w]
         /\ drafting' = 0
         /\ UNCHANGED <<server, reads, alias, died, mixed, crossed>>
  <1>e. PICK e \in Ids : e = drafting
    BY DEF Inv, Types, AskingOK, ReviewEnqueue
  <1>0. /\ n \in Writes /\ "review" \in Actions /\ drafting' = 0
        /\ Enqueue(e, e, "review") /\ UNCHANGED <<server, reads, alias, died, mixed, crossed>>
    BY <1>e DEF ReviewEnqueue, Actions, Inv, Types, AskingOK
  <1>3. /\ n \notin DOMAIN row
        /\ DOMAIN row' = DOMAIN row \cup {n}
        /\ row'[n] = [entity |-> e, action |-> "review", status |-> "pending"]
        /\ \A w \in DOMAIN row : w < n /\ row'[w] = row[w] /\ meant'[w] = meant[w]
    BY <1>0, EnqueuedRows DEF Inv, Types, HistoryOK
  <1> QED
    BY <1>e, <1>0, <1>3

LEMMA DraftedTables ==
  ASSUME Inv, NEW i \in Ids, ReviewUpdate(i)
  PROVE  /\ drafting' \in DOMAIN reads /\ DOMAIN reads' = DOMAIN reads
         /\ \A j \in DOMAIN reads : reads'[j].synced = reads[j].synced /\ reads[j].shows \subseteq reads'[j].shows
         /\ UNCHANGED <<server, row, alias, meant, died, mixed, crossed>>
  <1>1. PICK e \in DOMAIN reads : e = Resolve(i)
    BY DEF ReviewUpdate, OnScreen
  <1>2. /\ drafting' = e /\ reads' = [reads EXCEPT ![e].shows = @ \cup {Next1}]
        /\ UNCHANGED <<server, row, alias, meant, died, mixed, crossed>>
    BY <1>1 DEF ReviewUpdate
  <1>3. \A j \in DOMAIN reads : reads'[j] = IF j = e THEN [reads[e] EXCEPT !.shows = @ \cup {Next1}] ELSE reads[j]
    BY <1>2
  <1>4. reads[e] \in Read
    BY <1>1 DEF Inv, Types, ReadsOK
  <1>5. /\ [reads[e] EXCEPT !.shows = @ \cup {Next1}].synced = reads[e].synced
        /\ [reads[e] EXCEPT !.shows = @ \cup {Next1}].shows = reads[e].shows \cup {Next1}
    BY <1>4 DEF Read
  <1> QED
    BY <1>1, <1>2, <1>3, <1>5

\* A row of the answered id that shows what waits for it stays as it is.
LEMMA AnsweredKept ==
  ASSUME Inv, NEW w, NEW i, NEW s, Remaps(w, i, s), s \in DOMAIN reads,
         NEW v \in DOMAIN row, row'[v].entity = s, row'[v].status = "pending"
  PROVE  s \in DOMAIN reads' /\ reads'[s] = reads[s]
  <1>1. s # i /\ DOMAIN row' = DOMAIN row /\ reads' = Clean(Moved(i, s), row', s)
    BY RemappedRows DEF Remaps
  <1>2. Moved(i, s) = Without(reads, i)
    BY DEF Moved
  <1>3. Clean(Moved(i, s), row', s) = Moved(i, s)
    BY <1>1 DEF Clean
  <1> QED
    BY <1>1, <1>2, <1>3 DEF Without

\* An answer brings a local read to an id the device did not know, or what waits for
\* either is remembered, if a delete does, or the id becomes one of two reads.
LEMMA AnsweredOwn ==
  ASSUME Inv, NEW w, NEW i, NEW s, Remaps(w, i, s), s \notin mixed',
         NEW v \in DOMAIN row, Queued(v), row[v].entity \in {i, s}, v \notin crossed'
  PROVE  /\ i \in LocalIds
         /\ \/ s \notin DOMAIN reads /\ \A u \in DOMAIN row : row[u].entity # s
            \/ \A u \in DOMAIN row : Queued(u) /\ row[u].entity \in {i, s} => row[u].action # "delete"
  <1>1. /\ mixed' = IF SameRead(i, w, s) THEN mixed ELSE mixed \cup {i, s}
        /\ crossed' = crossed \cup Crossed(i, s)
    BY DEF Remaps
  <1>2. i \in LocalIds
    BY <1>1 DEF SameRead
  <1>3. v \notin Crossed(i, s)
    BY <1>1
  <1>4. CASE s \notin Known
    BY <1>2, <1>4 DEF Known
  <1>5. CASE s \in Known
    BY <1>2, <1>3, <1>5 DEF Crossed
  <1> QED
    BY <1>4, <1>5

\* What is re-keyed when it is sent is a review, or comes to an id of two reads.
LEMMA SentAlike ==
  ASSUME Inv, NEW w \in DOMAIN row, Send(w), NEW v \in DOMAIN row
  PROVE  \/ row'[v].entity = row[v].entity
         \/ row[v].action = "review" \/ row'[v].entity \in mixed
  <1>e. PICK e, s : e = row[w].entity /\ s = Resolve(e)
    OBVIOUS
  <1>1. /\ row'[v].entity = IF row[v].entity = e THEN s ELSE row[v].entity
        /\ e \in Ids
        /\ IF e \in DOMAIN alias THEN s = alias[e] /\ s \in ServerIds /\ s \in Made ELSE s = e
    BY <1>e, SentRows
  <1> QED
    BY <1>1 DEF Inv, Locals, Mixing, Ids

LEMMA HiddenStep ==
  ASSUME Inv, DeletedHidden, Next
  PROVE  DeletedHidden'
  <1>n. PICK n : n = Next1
    OBVIOUS
  \* The rows there were, read as before, and ids not added to reads.
  <1>1. ASSUME NEW e, n \notin DOMAIN row, DOMAIN row' = DOMAIN row \cup {n}, row'[n].entity = e,
               row'[n].action = "delete" => e \notin DOMAIN reads',
               \A w \in DOMAIN row : row'[w] = row[w],
               \A i \in DOMAIN reads' \ DOMAIN reads : \A w \in DOMAIN row : row[w].entity # i,
               UNCHANGED <<died, mixed, crossed>>
        PROVE  DeletedHidden'
    BY <1>1 DEF DeletedHidden, Queued
  <1>2. ASSUME NEW e \in Ids, NEW t \in Ids, NEW a \in Actions, Rewrote(e, t, a)
        PROVE  DeletedHidden'
    <2>1. /\ n \notin DOMAIN row /\ DOMAIN row' = DOMAIN row \cup {n}
          /\ row'[n] = [entity |-> e, action |-> a, status |-> "pending"] /\ meant'[n] = t
          /\ \A w \in DOMAIN row : w < n /\ row'[w] = row[w] /\ meant'[w] = meant[w]
          /\ e \in DOMAIN reads /\ DOMAIN reads' = DOMAIN reads
          /\ reads'[e].shows = reads[e].shows \cup {n} /\ ~reads'[e].synced
          /\ \A i \in DOMAIN reads : i # e => reads'[i] = reads[i]
          /\ UNCHANGED <<server, alias, died, mixed, crossed, drafting>>
      BY <1>2, <1>n, RewroteTables
    <2>2. a # "delete"
      BY <1>2 DEF Rewrote
    <2> QED
      BY <2>1, <2>2, <1>1
  <1>3. ASSUME NEW l \in FreshLocal, NEW a \in Actions, Created(l, a)
        PROVE  DeletedHidden'
    <2>1. /\ n \notin DOMAIN row /\ DOMAIN row' = DOMAIN row \cup {n}
          /\ row'[n] = [entity |-> l, action |-> a, status |-> "pending"] /\ meant'[n] = l
          /\ \A w \in DOMAIN row : row'[w] = row[w] /\ meant'[w] = meant[w] /\ row[w].entity # l
          /\ l \in LocalIds /\ l \notin ServerIds /\ a \in Creates
          /\ DOMAIN reads' = DOMAIN reads \cup {l}
          /\ UNCHANGED <<server, alias, died, mixed, crossed, drafting>>
      BY <1>3, <1>n, CreatedTables
    <2> QED
      BY <2>1, <1>1 DEF Creates
  <1>4. ASSUME NEW e \in Ids, NEW t \in Ids, Deleted(e, t)
        PROVE  DeletedHidden'
    <2>1. /\ n \notin DOMAIN row /\ DOMAIN row' = DOMAIN row \cup {n}
          /\ row'[n] = [entity |-> e, action |-> "delete", status |-> "pending"]
          /\ \A w \in DOMAIN row : row'[w] = row[w]
          /\ e \in DOMAIN reads /\ DOMAIN reads' = DOMAIN reads \ {e}
          /\ UNCHANGED <<server, alias, died, mixed, crossed, drafting>>
      BY <1>4, <1>n, DeletedTables
    <2> QED
      BY <2>1, <1>1
  <1>5. ASSUME ReviewEnqueue
        PROVE  DeletedHidden'
    <2>1. /\ n \notin DOMAIN row /\ DOMAIN row' = DOMAIN row \cup {n}
          /\ row'[n] = [entity |-> drafting, action |-> "review", status |-> "pending"]
          /\ \A w \in DOMAIN row : row'[w] = row[w]
          /\ UNCHANGED <<server, reads, alias, died, mixed, crossed>>
      BY <1>5, <1>n, ReviewedTables
    <2> QED
      BY <2>1, <1>1
  <1>6. ASSUME NEW i \in Ids, ReviewUpdate(i)
        PROVE  DeletedHidden'
    <2>1. DOMAIN reads' = DOMAIN reads /\ UNCHANGED <<server, row, alias, died, mixed, crossed>>
      BY <1>6, DraftedTables
    <2> QED
      BY <2>1 DEF DeletedHidden, Queued
  <1>7. CASE Asks \/ Serve \/ Elsewhere \/ \E c \in Screens : Fetch(c)
    <2>1. UNCHANGED Tables
      BY <1>7, AskKeeps, ServeKeeps, ElsewhereKeeps, FetchKeeps
    <2> QED
      BY <2>1 DEF DeletedHidden, Queued, Tables
  <1>9. ASSUME NEW w \in DOMAIN row, Send(w)
        PROVE  DeletedHidden'
    <2>0. UNCHANGED <<reads, died, mixed, crossed>> /\ row[w].status = "pending"
      BY <1>9 DEF Send
    <2>1. /\ DOMAIN row' = DOMAIN row
          /\ \A v \in DOMAIN row : row'[v].action = row[v].action
          /\ \A v \in DOMAIN row : row'[v].status = IF v = w THEN "processing" ELSE row[v].status
      BY <1>9, SentRows
    <2>2. \A v \in DOMAIN row : Queued(v)' => Queued(v)
      BY <2>0, <2>1 DEF Queued
    <2>3. \A v \in DOMAIN row : row'[v].entity = row[v].entity \/ row[v].action = "review" \/ row'[v].entity \in mixed
      BY <1>9, SentAlike
    <2> QED
      BY <2>0, <2>1, <2>2, <2>3 DEF DeletedHidden
  <1>10. ASSUME NEW w, NEW i, NEW s, Remaps(w, i, s)
         PROVE  DeletedHidden'
    <2>0. died' = died /\ mixed \subseteq mixed' /\ crossed \subseteq crossed' /\ i = row[w].entity /\ s # i
      BY <1>10 DEF Remaps
    <2>1. /\ DOMAIN row' = DOMAIN row
          /\ \A v \in DOMAIN row : row'[v].action = row[v].action
          /\ \A v \in DOMAIN row : row'[v].entity = IF row[v].entity = i THEN s ELSE row[v].entity
          /\ \A v \in DOMAIN row : row'[v].status = IF v = w THEN "gone" ELSE row[v].status
          /\ i \in Ids /\ s \in ServerIds
      BY <1>10, RemappedRows
    <2>2. /\ \A j \in DOMAIN reads' : j # s => j \in DOMAIN reads
          /\ s \in DOMAIN reads' => s \in DOMAIN reads \/ i \in DOMAIN reads
      BY <1>10, RemappedReads
    <2>3. \A v \in DOMAIN row : Queued(v)' => Queued(v)
      BY <2>1 DEF Queued
    <2>4. ASSUME NEW v \in DOMAIN row \ (died \cup crossed'), Queued(v)', row'[v].action = "delete", row'[v].entity \notin mixed',
                 row'[v].entity \in DOMAIN reads'
          PROVE  FALSE
      <3>1. CASE row'[v].entity # s
        BY <3>1, <2>0, <2>1, <2>2, <2>3, <2>4 DEF DeletedHidden
      <3>2. CASE row'[v].entity = s
        <4>0. Queued(v) /\ row[v].action = "delete" /\ row[v].entity \in {i, s}
          BY <2>1, <2>3, <2>4, <3>2
        <4>1. i \in LocalIds /\ s \notin DOMAIN reads /\ \A u \in DOMAIN row : row[u].entity # s
          BY <1>10, <2>4, <3>2, <4>0, AnsweredOwn
        <4>2. row[v].entity = i /\ row[v].action = "delete" /\ i \in DOMAIN reads
          BY <4>0, <4>1, <2>2, <2>4, <3>2
        <4> QED
          BY <4>1, <4>2 DEF Inv, Locals
      <3> QED
        BY <3>1, <3>2
    <2> QED
      BY <2>0, <2>1, <2>4 DEF DeletedHidden
  <1>11. ASSUME NEW w, NEW i, Settles(w, i)
         PROVE  DeletedHidden'
    <2>0. UNCHANGED <<mixed, crossed, died>>
      BY <1>11 DEF Settles
    <2>1. /\ DOMAIN row' = DOMAIN row
          /\ \A v \in DOMAIN row : row'[v].action = row[v].action /\ row'[v].entity = row[v].entity
          /\ \A v \in DOMAIN row : row'[v].status = IF v = w THEN "gone" ELSE row[v].status
          /\ DOMAIN reads' \subseteq DOMAIN reads
      BY <1>11, SettledRows, SettledReads
    <2>2. \A v \in DOMAIN row : Queued(v)' => Queued(v)
      BY <2>1 DEF Queued
    <2> QED
      BY <2>0, <2>1, <2>2 DEF DeletedHidden
  <1>12. ASSUME NEW w, NEW status, Restated(w, status)
         PROVE  DeletedHidden'
    <2>0. UNCHANGED <<reads, mixed, crossed>> /\ died \subseteq died'
      BY <1>12 DEF Restated
    <2>1. /\ DOMAIN row' = DOMAIN row
          /\ \A v \in DOMAIN row : row'[v].entity = row[v].entity /\ row'[v].action = row[v].action
          /\ \A v \in DOMAIN row : row'[v].status = IF v = w THEN status ELSE row[v].status
      BY <1>12, RestatedRows
    <2>2. \A v \in DOMAIN row : Queued(v)' => Queued(v) \/ v \in died
      BY <1>12, <2>1 DEF Queued, Restated, Inv, Turns, Types, FlightOK
    <2> QED
      BY <2>0, <2>1, <2>2 DEF DeletedHidden
  <1>13. ASSUME NEW c \in Screens, Cache(c)
         PROVE  DeletedHidden'
    <2>1. UNCHANGED <<row, died, mixed, crossed>> /\ \A i \in DOMAIN reads' \ DOMAIN reads : ~Kept(i)
      BY <1>13, CachedReads
    <2>2. \A w : Queued(w)' <=> Queued(w)
      BY <2>1 DEF Queued
    <2> QED
      BY <2>1, <2>2 DEF DeletedHidden, Kept
  <1> QED
    BY <1>2, <1>3, <1>4, <1>5, <1>6, <1>7, <1>9, <1>10, <1>11, <1>12, <1>13, Kinds

LEMMA ShowsStep ==
  ASSUME Inv, Shows, Next
  PROVE  Shows'
  <1>n. PICK n : n = Next1
    OBVIOUS
  <1>d. died \subseteq DOMAIN row
    BY DEF Inv, Types, HistoryOK
  \* The rows there were wait as before.
  <1>1. ASSUME DOMAIN row' = DOMAIN row \cup {n},
               \A w \in DOMAIN row : row'[w] = row[w] /\ meant'[w] = meant[w],
               UNCHANGED <<died, mixed, crossed>>, NEW w \in DOMAIN row, Waits(w)'
        PROVE  StillThere(w)
    <2>1. Waits(w)
      BY <1>1, <1>d DEF Waits, Queued
    <2> QED
      BY <2>1 DEF Shows
  <1>2. ASSUME NEW e \in Ids, NEW t \in Ids, NEW a \in Actions, Rewrote(e, t, a)
        PROVE  Shows'
    <2>1. /\ n \notin DOMAIN row /\ DOMAIN row' = DOMAIN row \cup {n}
          /\ row'[n] = [entity |-> e, action |-> a, status |-> "pending"] /\ meant'[n] = t
          /\ \A w \in DOMAIN row : w < n /\ row'[w] = row[w] /\ meant'[w] = meant[w]
          /\ e \in DOMAIN reads /\ DOMAIN reads' = DOMAIN reads
          /\ reads'[e].shows = reads[e].shows \cup {n} /\ ~reads'[e].synced
          /\ \A i \in DOMAIN reads : i # e => reads'[i] = reads[i]
          /\ UNCHANGED <<server, alias, died, mixed, crossed, drafting>>
      BY <1>2, <1>n, RewroteTables
    <2>2. ASSUME NEW w \in DOMAIN row, Waits(w)'
          PROVE  StillThere(w)'
      <3>1. StillThere(w)
        BY <2>1, <2>2, <1>1
      <3> QED
        BY <2>1, <3>1 DEF StillThere, Queued
    <2>3. StillThere(n)'
      BY <2>1 DEF StillThere
    <2> QED
      BY <2>1, <2>2, <2>3 DEF Shows
  <1>3. ASSUME NEW l \in FreshLocal, NEW a \in Actions, Created(l, a)
        PROVE  Shows'
    <2>1. /\ n \notin DOMAIN row /\ DOMAIN row' = DOMAIN row \cup {n}
          /\ row'[n] = [entity |-> l, action |-> a, status |-> "pending"] /\ meant'[n] = l
          /\ \A w \in DOMAIN row : row'[w] = row[w] /\ meant'[w] = meant[w] /\ row[w].entity # l
          /\ l \in LocalIds /\ l \notin ServerIds /\ a \in Creates
          /\ DOMAIN reads' = DOMAIN reads \cup {l}
          /\ \A i \in DOMAIN reads : reads'[i] = reads[i]
          /\ UNCHANGED <<server, alias, died, mixed, crossed, drafting>>
      BY <1>3, <1>n, CreatedTables, SMTT(60)
    <2>2. ASSUME NEW w \in DOMAIN row, Waits(w)'
          PROVE  StillThere(w)'
      <3>1. StillThere(w)
        BY <2>1, <2>2, <1>1
      <3> QED
        BY <2>1, <3>1 DEF StillThere, Queued
    <2>3. ~Waits(n)'
      BY <2>1 DEF Waits
    <2> QED
      BY <2>1, <2>2, <2>3 DEF Shows
  <1>4. ASSUME NEW e \in Ids, NEW t \in Ids, Deleted(e, t)
        PROVE  Shows'
    <2>1. /\ n \notin DOMAIN row /\ DOMAIN row' = DOMAIN row \cup {n}
          /\ row'[n] = [entity |-> e, action |-> "delete", status |-> "pending"]
          /\ \A w \in DOMAIN row : w < n /\ row'[w] = row[w] /\ meant'[w] = meant[w]
          /\ e \in DOMAIN reads /\ DOMAIN reads' = DOMAIN reads \ {e}
          /\ \A i \in DOMAIN reads' : reads'[i] = reads[i]
          /\ UNCHANGED <<server, alias, died, mixed, crossed, drafting>>
      BY <1>4, <1>n, DeletedTables
    <2>2. ASSUME NEW w \in DOMAIN row, Waits(w)'
          PROVE  StillThere(w)'
      <3>1. StillThere(w)
        BY <2>1, <2>2, <1>1
      <3>2. n > w /\ Queued(n)'
        <4>1. w \in Nat /\ n \in Nat
          BY <1>n DEF Inv, Types, RowsOK
        <4> QED
          BY <4>1, <2>1 DEF Queued
      <3>3. CASE row[w].entity = e
        BY <2>1, <3>2, <3>3 DEF StillThere
      <3>4. CASE row[w].entity # e
        BY <2>1, <3>1, <3>4 DEF StillThere, Queued
      <3> QED
        BY <3>3, <3>4
    <2>3. ~Waits(n)'
      BY <2>1 DEF Waits
    <2> QED
      BY <2>1, <2>2, <2>3 DEF Shows
  <1>5. ASSUME ReviewEnqueue
        PROVE  Shows'
    <2>1. /\ n \notin DOMAIN row /\ DOMAIN row' = DOMAIN row \cup {n}
          /\ row'[n] = [entity |-> drafting, action |-> "review", status |-> "pending"]
          /\ \A w \in DOMAIN row : w < n /\ row'[w] = row[w] /\ meant'[w] = meant[w]
          /\ UNCHANGED <<server, reads, alias, died, mixed, crossed>>
      BY <1>5, <1>n, ReviewedTables
    <2>2. ASSUME NEW w \in DOMAIN row, Waits(w)'
          PROVE  StillThere(w)'
      <3>1. StillThere(w)
        BY <2>1, <2>2, <1>1
      <3> QED
        BY <2>1, <3>1 DEF StillThere, Queued
    <2>3. ~Waits(n)'
      BY <2>1 DEF Waits
    <2> QED
      BY <2>1, <2>2, <2>3 DEF Shows
  <1>6. ASSUME NEW i \in Ids, ReviewUpdate(i)
        PROVE  Shows'
    <2>1. /\ DOMAIN reads' = DOMAIN reads
          /\ \A j \in DOMAIN reads : reads'[j].synced = reads[j].synced /\ reads[j].shows \subseteq reads'[j].shows
          /\ UNCHANGED <<server, row, alias, meant, died, mixed, crossed>>
      BY <1>6, DraftedTables
    <2>2. \A w : (Waits(w)' <=> Waits(w)) /\ (Queued(w)' <=> Queued(w))
      BY <2>1 DEF Waits, Queued
    <2> QED
      BY <2>1, <2>2 DEF Shows, StillThere
  <1>7. CASE Asks \/ Serve \/ Elsewhere \/ \E c \in Screens : Fetch(c)
    <2>1. UNCHANGED Tables
      BY <1>7, AskKeeps, ServeKeeps, ElsewhereKeeps, FetchKeeps
    <2> QED
      BY <2>1 DEF Shows, Waits, StillThere, Queued, Tables
  <1>9. ASSUME NEW w \in DOMAIN row, Send(w)
        PROVE  Shows'
    <2>0. UNCHANGED <<reads, meant, died, mixed, crossed>> /\ row[w].status = "pending"
      BY <1>9 DEF Send
    <2>e. PICK e, s : e = row[w].entity /\ s = Resolve(e)
      OBVIOUS
    <2>1. /\ DOMAIN row' = DOMAIN row
          /\ \A v \in DOMAIN row : row'[v].action = row[v].action
          /\ \A v \in DOMAIN row : row'[v].entity = IF row[v].entity = e THEN s ELSE row[v].entity
          /\ \A v \in DOMAIN row : row'[v].status = IF v = w THEN "processing" ELSE row[v].status
          /\ e \in Ids
          /\ IF e \in DOMAIN alias THEN s = alias[e] /\ s \in ServerIds /\ s \in Made ELSE s = e
      BY <1>9, <2>e, SentRows
    <2>2. \A v \in DOMAIN row : Queued(v)' <=> Queued(v)
      BY <2>0, <2>1 DEF Queued
    <2>3. ASSUME NEW v \in DOMAIN row, Waits(v)'
          PROVE  StillThere(v)'
      <3>1. row'[v].entity = row[v].entity \/ row[v].action = "review" \/ row'[v].entity \in mixed
        BY <1>9, SentAlike
      <3>2. row'[v].entity = row[v].entity
        BY <2>0, <2>1, <2>3, <3>1 DEF Waits
      <3>3. \A u \in DOMAIN row : row[u].entity = row[v].entity => row'[u].entity = row[v].entity
        BY <2>1, <3>2
      <3>4. Waits(v)
        BY <2>0, <2>1, <2>2, <2>3, <3>2, <3>3, <1>d DEF Waits
      <3>5. StillThere(v)
        BY <3>4 DEF Shows
      <3> QED
        BY <2>0, <2>1, <2>2, <3>2, <3>3, <3>5 DEF StillThere
    <2> QED
      BY <2>1, <2>3 DEF Shows
  <1>10. ASSUME NEW w, NEW i, NEW s, Remaps(w, i, s)
         PROVE  Shows'
    <2>0. /\ UNCHANGED <<meant, died>> /\ mixed \subseteq mixed' /\ crossed \subseteq crossed'
          /\ i = row[w].entity /\ s # i /\ w \in DOMAIN row /\ row[w].action \in Creates /\ w = flight.w
      BY <1>10 DEF Remaps
    <2>1. /\ DOMAIN row' = DOMAIN row
          /\ \A v \in DOMAIN row : row'[v].action = row[v].action
          /\ \A v \in DOMAIN row : row'[v].entity = IF row[v].entity = i THEN s ELSE row[v].entity
          /\ \A v \in DOMAIN row : row'[v].status = IF v = w THEN "gone" ELSE row[v].status
          /\ i \in Ids /\ s \in ServerIds
      BY <1>10, RemappedRows
    <2>2. /\ \A j \in DOMAIN reads' : j # s => j \in DOMAIN reads /\ reads'[j] = reads[j]
          /\ \A j \in DOMAIN reads : j # i => j \in DOMAIN reads'
      BY <1>10, RemappedReads
    <2>3. \A v \in DOMAIN row : Queued(v)' <=> Queued(v) /\ v # w
      BY <2>0, <2>1 DEF Queued
    <2>4. ASSUME NEW v \in DOMAIN row, Waits(v)'
          PROVE  StillThere(v)'
      <3>0. /\ Queued(v) /\ v # w /\ row'[v].entity \notin mixed /\ row'[v].entity \notin mixed'
            /\ v \notin crossed /\ v \notin crossed' /\ meant[v] = row'[v].entity
        BY <2>0, <2>3, <2>4 DEF Waits
      <3>1. CASE row'[v].entity = s
        <4>0. row[v].entity \in {i, s}
          BY <2>1, <3>1
        <4>1. i \in LocalIds
          BY <1>10, <3>0, <3>1, <4>0, AnsweredOwn
        <4>2. row[v].entity = s
          BY <4>0, <4>1, <3>0, <3>1, <2>0 DEF Inv, Locals
        <4>3. \A u \in DOMAIN row : Queued(u) /\ row[u].entity \in {i, s} => row[u].action # "delete"
          BY <1>10, <3>0, <3>1, <4>0, <4>2, AnsweredOwn
        <4>4. \A u \in DOMAIN row : row[u].entity = s => row'[u].entity = s
          BY <2>1
        <4>5. Waits(v)
          BY <2>0, <2>1, <2>4, <3>0, <3>1, <4>2, <4>4, <1>d DEF Waits
        <4>6. s \in DOMAIN reads /\ v \in reads[s].shows /\ ~reads[s].synced
          BY <4>2, <4>3, <4>5 DEF Shows, StillThere
        <4>7. row[v].status = "pending" /\ row'[v].status = "pending"
          BY <2>0, <2>1, <3>0 DEF Queued, Inv, Types, FlightOK
        <4>8. s \in DOMAIN reads' /\ reads'[s] = reads[s]
          BY <1>10, <3>1, <4>6, <4>7, AnsweredKept
        <4> QED
          BY <3>1, <4>6, <4>8 DEF StillThere
      <3>2. CASE row'[v].entity # s
        <4>0. row'[v].entity = row[v].entity /\ row[v].entity # i /\ row[v].entity # s
          BY <2>1, <3>2
        <4>1. \A u \in DOMAIN row : row[u].entity = row[v].entity => row'[u].entity = row[v].entity
          BY <2>1, <4>0
        <4>2. Waits(v)
          BY <2>0, <2>1, <2>4, <3>0, <4>0, <4>1, <1>d DEF Waits
        <4>3. StillThere(v)
          BY <4>2 DEF Shows
        <4>4. CASE row[v].entity \in DOMAIN reads
          BY <2>2, <4>0, <4>3, <4>4 DEF StillThere
        <4>5. CASE row[v].entity \notin DOMAIN reads
          <5>1. PICK d \in DOMAIN row : d > v /\ row[d].entity = row[v].entity /\ row[d].action = "delete" /\ Queued(d)
            BY <4>3, <4>5 DEF StillThere
          <5>2. d # w
            BY <5>1, <2>0 DEF Creates
          <5>3. row'[v].entity \notin DOMAIN reads'
            BY <4>0, <4>5, <2>2
          <5>4. row'[d].entity = row'[v].entity /\ row'[d].action = "delete" /\ Queued(d)'
            BY <5>1, <5>2, <4>0, <4>1, <2>1, <2>3
          <5> QED
            BY <5>1, <5>3, <5>4, <2>1 DEF StillThere
        <4> QED
          BY <4>4, <4>5
      <3> QED
        BY <3>1, <3>2
    <2> QED
      BY <2>1, <2>4 DEF Shows
  <1>11. ASSUME NEW w, NEW i, Settles(w, i)
         PROVE  Shows'
    <2>0. /\ UNCHANGED <<meant, mixed, crossed, died>> /\ w = flight.w /\ w \in DOMAIN row /\ i = row[w].entity
          /\ flight.step = "answered"
      BY <1>11 DEF Settles
    <2>1. /\ DOMAIN row' = DOMAIN row
          /\ \A v \in DOMAIN row : row'[v].action = row[v].action /\ row'[v].entity = row[v].entity
          /\ \A v \in DOMAIN row : row'[v].status = IF v = w THEN "gone" ELSE row[v].status
      BY <1>11, SettledRows
    <2>2. /\ DOMAIN reads' \subseteq DOMAIN reads
          /\ \A j \in DOMAIN reads : j # i => j \in DOMAIN reads' /\ reads'[j] = reads[j]
          /\ i \in DOMAIN reads /\ i \notin DOMAIN reads' => flight.said = "exists"
          /\ i \in DOMAIN reads' /\ (\E v \in DOMAIN row : row'[v].entity = i /\ row'[v].status = "pending") =>
                reads'[i] = reads[i]
      BY <1>11, SettledReads
    <2>3. \A v \in DOMAIN row : Queued(v)' <=> Queued(v) /\ v # w
      BY <2>0, <2>1 DEF Queued
    <2>4. \A v \in DOMAIN row : row[v].status = "processing" <=> v = w
      BY <2>0 DEF Inv, Types, FlightOK
    <2>5. ASSUME NEW v \in DOMAIN row, Waits(v)'
          PROVE  StillThere(v)'
      <3>1. Waits(v) /\ v # w
        BY <2>0, <2>1, <2>3, <2>5, <1>d DEF Waits
      <3>2. StillThere(v)
        BY <3>1 DEF Shows
      <3>3. CASE row[v].entity # i
        <4>1. \A d \in DOMAIN row : row[d].entity = row[v].entity => d # w
          BY <3>3, <2>0
        <4>2. CASE row[v].entity \in DOMAIN reads
          BY <4>2, <3>2, <3>3, <2>1, <2>2 DEF StillThere
        <4>3. CASE row[v].entity \notin DOMAIN reads
          <5>1. PICK d \in DOMAIN row : d > v /\ row[d].entity = row[v].entity /\ row[d].action = "delete" /\ Queued(d)
            BY <3>2, <4>3 DEF StillThere
          <5>2. row'[v].entity \notin DOMAIN reads' /\ Queued(d)'
            BY <5>1, <4>1, <4>3, <2>1, <2>2, <2>3
          <5> QED
            BY <5>1, <5>2, <2>1 DEF StillThere
        <4> QED
          BY <4>2, <4>3
      <3>4. CASE row[v].entity = i
        <4>1. row[v].status = "pending" /\ i \in ServerIds /\ i \notin mixed
          BY <3>1, <3>4, <2>4 DEF Waits, Queued
        <4>2. w \notin died
          BY <3>1, <3>4, <2>0 DEF Waits
        <4>3. flight.said # "exists"
          <5>1. flight.said = "exists" => row[w].action = "absent"
            BY <2>0 DEF Inv, Answer
          <5>2. Queued(w)
            BY <2>0, <2>4 DEF Queued
          <5>3. row[w].action # "absent"
            BY <4>1, <4>2, <5>2, <2>0 DEF Inv, Turns
          <5> QED
            BY <5>1, <5>3
        <4>4. row'[v].entity = i /\ row'[v].status = "pending"
          BY <4>1, <3>1, <3>4, <2>1
        <4>5. CASE i \in DOMAIN reads
          <5>1. i \in DOMAIN reads' /\ reads'[i] = reads[i]
            BY <4>3, <4>4, <4>5, <2>2
          <5> QED
            BY <5>1, <4>4, <4>5, <3>2, <3>4 DEF StillThere
        <4>6. CASE i \notin DOMAIN reads
          <5>1. PICK d \in DOMAIN row : d > v /\ row[d].entity = i /\ row[d].action = "delete" /\ Queued(d)
            BY <3>2, <3>4, <4>6 DEF StillThere
          <5>2. d # w
            <6>1. SUFFICES ASSUME d = w
                           PROVE  FALSE
              OBVIOUS
            <6>2. v \in Nat /\ w \in Nat /\ v > 0
              BY <2>0, IdSets DEF Inv, Types, RowsOK
            <6>3. v \in 1 .. w - 1
              BY <5>1, <6>1, <6>2
            <6>4. v \in died
              BY <6>1, <6>3, <5>1, <4>1, <3>4, <2>0 DEF Inv, Turns
            <6> QED
              BY <6>4, <3>1 DEF Waits
          <5>3. i \notin DOMAIN reads' /\ Queued(d)' /\ row'[d].entity = i /\ row'[d].action = "delete"
            BY <5>1, <5>2, <4>6, <2>1, <2>2, <2>3
          <5> QED
            BY <5>1, <5>3, <4>4, <2>1 DEF StillThere
        <4> QED
          BY <4>5, <4>6
      <3> QED
        BY <3>3, <3>4
    <2> QED
      BY <2>1, <2>5 DEF Shows
  <1>12. ASSUME NEW w, NEW status, Restated(w, status)
         PROVE  Shows'
    <2>0. /\ UNCHANGED <<reads, meant, mixed, crossed>> /\ died \subseteq died' /\ died' \subseteq died \cup {w} /\ w \in DOMAIN row
      BY <1>12 DEF Restated
    <2>1. /\ DOMAIN row' = DOMAIN row
          /\ \A v \in DOMAIN row : row'[v].entity = row[v].entity /\ row'[v].action = row[v].action
          /\ \A v \in DOMAIN row : row'[v].status = IF v = w THEN status ELSE row[v].status
      BY <1>12, RestatedRows
    <2>2. \A v \in DOMAIN row : Queued(v)' => Queued(v) \/ v \in died
      BY <1>12, <2>1 DEF Queued, Restated, Inv, Turns, Types, FlightOK
    <2>3. \A v \in DOMAIN row : Queued(v) => Queued(v)' \/ v \in died'
      BY <1>12, <2>1 DEF Queued, Restated
    <2>4. ASSUME NEW v \in DOMAIN row, Waits(v)'
          PROVE  StillThere(v)'
      <3>1. \A u \in died' : row[u].entity # row[v].entity
        BY <2>0, <2>1, <2>4, <1>d DEF Waits
      <3>2. Waits(v)
        BY <2>0, <2>1, <2>2, <2>4, <3>1 DEF Waits
      <3>3. StillThere(v)
        BY <3>2 DEF Shows
      <3> QED
        BY <2>0, <2>1, <2>3, <3>1, <3>3 DEF StillThere
    <2> QED
      BY <2>1, <2>4 DEF Shows
  <1>13. ASSUME NEW c \in Screens, Cache(c)
         PROVE  Shows'
    <2>1. /\ UNCHANGED <<row, meant, died, mixed, crossed>>
          /\ \A i \in DOMAIN reads : i \in DOMAIN reads' /\ (reads'[i] = reads[i] \/ ~Kept(i))
          /\ \A i \in DOMAIN reads' \ DOMAIN reads : ~Kept(i)
      BY <1>13, CachedReads
    <2>2. \A w : (Queued(w)' <=> Queued(w)) /\ (Waits(w)' <=> Waits(w))
      BY <2>1 DEF Queued, Waits
    <2>3. ASSUME NEW v \in DOMAIN row, Waits(v)
          PROVE  StillThere(v)'
      <3>1. StillThere(v)
        BY <2>3 DEF Shows
      <3>2. Kept(row[v].entity)
        BY <3>1 DEF StillThere, Kept
      <3> QED
        BY <2>1, <2>2, <3>1, <3>2 DEF StillThere
    <2> QED
      BY <2>1, <2>2, <2>3 DEF Shows
  <1> QED
    BY <1>2, <1>3, <1>4, <1>5, <1>6, <1>7, <1>9, <1>10, <1>11, <1>12, <1>13, Kinds

-----------------------------------------------------------------------------

HInv == Inv /\ Shows /\ DeletedHidden

LEMMA HInvAlways == Spec => []HInv
  <1>1. Init => HInv
    <2>1. Init => DOMAIN row = {}
      BY DEF Init
    <2> QED
      BY <2>1, InvInit DEF HInv, Shows, DeletedHidden
  <1>2. HInv /\ [Next]_vars => HInv'
    <2> SUFFICES ASSUME HInv, [Next]_vars
                 PROVE  HInv'
      OBVIOUS
    <2>1. CASE Next
      BY <2>1, InvStep, ShowsStep, HiddenStep DEF HInv
    <2>2. CASE UNCHANGED vars
      <3>1. Inv'
        BY <2>2, InvStep DEF HInv
      <3>2. UNCHANGED <<server, reads, row, alias, drafting, meant, died, mixed, crossed>>
        BY <2>2 DEF vars
      <3>3. Made' = Made /\ (\A w : Queued(w)' <=> Queued(w))
        BY <3>2 DEF Made, Queued
      <3>4. DeletedHidden'
        BY <3>2, <3>3 DEF HInv, DeletedHidden
      <3>5. Shows'
        BY <3>2, <3>3 DEF HInv, Shows, Waits, StillThere
      <3> QED
        BY <3>1, <3>4, <3>5 DEF HInv
    <2> QED
      BY <2>1, <2>2
  <1> QED
    BY <1>1, <1>2, PTL DEF Spec

(* What is queued for a read that the server knew when it was written is    *)
(* shown: neither a list (repository.ts:483-537) nor an answer              *)
(* (queue.ts:358-449) takes it off the screen.                              *)
THEOREM ShownCorrect == Spec => []QueuedShown
  <1>1. HInv => QueuedShown
    <2> SUFFICES ASSUME HInv, NEW w \in DOMAIN row,
                        Queued(w), row[w].action \notin {"delete", "review"}, row[w].entity \notin mixed, w \notin crossed,
                        meant[w] = row[w].entity, meant[w] \in ServerIds, meant[w] \in DOMAIN reads,
                        \A v \in died : row[v].entity # row[w].entity
                 PROVE  w \in reads[meant[w]].shows
      BY DEF QueuedShown, ShownBut
    <2>1. Waits(w)
      BY DEF Waits
    <2> QED
      BY <2>1 DEF HInv, Shows, StillThere
  <1> QED
    BY <1>1, HInvAlways, PTL

(* A deleted read is not shown while its delete waits (repository.ts:495),  *)
(* unless its id is that of another read too, or the delete took one of the *)
(* two rows a read has between a list that shows it and the answer to its   *)
(* create (queue.ts:525-534).                                               *)
THEOREM HiddenCorrect == Spec => []DeletedHidden
  <1>1. HInv => DeletedHidden
    BY DEF HInv
  <1> QED
    BY <1>1, HInvAlways, PTL
=============================================================================
