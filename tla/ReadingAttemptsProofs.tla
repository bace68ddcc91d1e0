----------------------- MODULE ReadingAttemptsProofs -----------------------
(***************************************************************************)
(* The reading service: types, attempt numbers, activity, progress, dates, *)
(* and the implementation of AttemptHistory, for any number of requests,   *)
(* events and days.                                                        *)
(***************************************************************************)
EXTENDS ReadingAttempts, SequenceTheorems, TLAPS

Rows == [status : Statuses, no : Nat \ {0}, started : Dates, finished : Dates]
Notices(n) == [read : 0 .. n, status : Statuses \cup {"gone"}, no : Nat, started : Dates]
Replies(n) == [code : Codes, read : 0 .. n]
Verbs == {"started", "finished", "dnf"}
Labels == {"idle", "upsert", "finish", "dnf", "delete", "progress",
           "write", "number", "insert", "record", "check", "touch", "done"}

\* TypeOK, of the tables and of the requests.
TablesOK ==
    /\ reads \in Seq(Rows \cup {Deleted})
    /\ feed \in Seq(Seq(Verbs)) /\ Len(feed) = Len(reads)
    /\ events \in [Events -> 0 .. Len(reads)]

RequestsOK ==
    /\ advisory \in Requests \cup {NoRequest}
    /\ pc \in [Requests -> Labels]
    /\ call \in [Requests -> Calls(1 .. Len(reads)) \cup {NoCall}]
    /\ seen \in [Requests -> Notices(Len(reads))]
    /\ reply \in [Requests -> Replies(Len(reads))]
    /\ \A r \in Requests : pc[r] \in {"write", "insert"} <=> advisory = r

\* A request is where its kind takes it, and is answered at its end.
Belongs(kind, label) ==
    \/ label = "done"
    \/ label = "idle" /\ kind = "none"
    \/ label \in {"upsert", "write"} /\ kind = "upsert"
    \/ label \in {"number", "insert"} /\ kind \in {"finish", "dnf"}
    \/ label \in {"finish", "dnf", "delete"} /\ kind = label
    \/ label \in {"progress", "record", "check", "touch"} /\ kind = "progress"

Phase == \A r \in Requests :
    /\ Belongs(call[r].kind, pc[r])
    /\ call[r].kind \in Kinds \cup {"none"}
    /\ pc[r] # "done" => reply[r] = NoReply

Inv == TypeOK /\ Phase

-----------------------------------------------------------------------------
(* The rows a statement writes are rows.                                   *)

LEMMA TypeParts == TypeOK <=> TablesOK /\ RequestsOK
  <1>1. reads \in Seq(Rows \cup {Deleted}) => DOMAIN reads = 1 .. Len(reads)
    OBVIOUS
  <1> QED
    BY <1>1 DEF TypeOK, TablesOK, RequestsOK, Rows, Notices, Replies, Verbs, Labels

LEMMA GivenDates == Given \subseteq Dates
  BY DaysAssumption, TodayAssumption DEF Given, Dates

LEMMA RowTypes ==
  /\ \A s \in Statuses, n \in Nat \ {0}, a \in Dates, b \in Dates : NewRow(s, n, a, b) \in Rows
  /\ \A row \in Rows, c \in UpsertCalls : UpsertedRow(row, c) \in Rows
  /\ \A row \in Rows, d \in Dates : FinishedRow(row, d) \in Rows
  /\ \A row \in Rows : [row EXCEPT !.status = "dnf"] \in Rows
  /\ \A row \in Rows, d \in Dates : [row EXCEPT !.started = d] \in Rows
  <1>0. 0 \in Dates /\ Today \in Dates /\ \A a, b \in Dates : Coalesce(a, b) \in Dates
    BY TodayAssumption DEF Dates, Coalesce
  <1>1. \A s \in Statuses, n \in Nat \ {0}, a \in Dates, b \in Dates : NewRow(s, n, a, b) \in Rows
    BY <1>0 DEF NewRow, Rows
  <1>2. \A row \in Rows, c \in UpsertCalls : UpsertedRow(row, c) \in Rows
    BY <1>0, WantedAssumption, GivenDates DEF UpsertedRow, UpsertCalls, Rows
  <1>3. \A row \in Rows, d \in Dates : FinishedRow(row, d) \in Rows
    BY <1>0 DEF FinishedRow, Rows, Statuses
  <1>4. \A row \in Rows : [row EXCEPT !.status = "dnf"] \in Rows
    BY DEF Rows, Statuses
  <1>5. \A row \in Rows, d \in Dates : [row EXCEPT !.started = d] \in Rows
    BY DEF Rows
  <1> QED
    BY <1>1, <1>2, <1>3, <1>4, <1>5

LEMMA VerbTypes == \A s \in Statuses : VerbFor(s) \in Seq(Verbs)
  <1>1. \A v \in Verbs : <<v>> \in Seq(Verbs)
    OBVIOUS
  <1>2. <<>> \in Seq(Verbs)
    OBVIOUS
  <1>3. \A s \in Statuses : s = "reading" \/ s \in Terminal => <<IF s = "reading" THEN "started" ELSE s>> \in Seq(Verbs)
    BY <1>1 DEF Verbs, Terminal
  <1> QED
    BY <1>2, <1>3 DEF VerbFor

LEMMA LiveRows ==
  ASSUME TablesOK
  PROVE  /\ \A i \in Live : i \in 1 .. Len(reads) /\ reads[i] \in Rows
         /\ \A i \in 1 .. Len(reads) : i \in Live <=> reads[i].status # "gone"
         /\ \A i \in 1 .. Len(reads) : reads[i] \in Rows \cup {Deleted}
         /\ \A s \in Statuses : VerbFor(s) \in Seq(Verbs)
         /\ Len(reads) \in Nat
  <1>1. \A s \in Statuses : VerbFor(s) \in Seq(Verbs)
    BY VerbTypes
  <1>2. /\ Len(reads) \in Nat /\ DOMAIN reads = 1 .. Len(reads)
        /\ \A i \in 1 .. Len(reads) : reads[i] \in Rows \cup {Deleted}
    BY DEF TablesOK
  <1>3. \A row \in Rows : row # Deleted /\ row.status # "gone"
    BY DEF Rows, Deleted, Statuses
  <1>4. Deleted.status = "gone"
    BY DEF Deleted
  <1> QED
    BY <1>1, <1>2, <1>3, <1>4 DEF Live

-----------------------------------------------------------------------------
(* What a step does to the tables: nothing, or one of these four.          *)

Kept == UNCHANGED tables

Added(row) ==
    /\ reads' = Append(reads, row)
    /\ feed' = Append(feed, VerbFor(row.status))
    /\ UNCHANGED events

Changed(i, row, told) ==
    /\ reads' = [reads EXCEPT ![i] = row]
    /\ feed' = [feed EXCEPT ![i] = IF told THEN @ \o VerbFor(row.status) ELSE @]
    /\ UNCHANGED events

Removed(i) == RemoveRead(i) /\ feed' = [feed EXCEPT ![i] = <<>>]

Noted(e, i) == events' = [events EXCEPT ![e] = i] /\ UNCHANGED <<reads, feed>>

LEMMA AddedTables ==
  ASSUME TablesOK, NEW row \in Rows, Added(row)
  PROVE  /\ TablesOK' /\ Len(reads') = Len(reads) + 1
         /\ Live' = Live \cup {Len(reads) + 1}
         /\ reads'[Len(reads) + 1] = row
         /\ \A i \in 1 .. Len(reads) : reads'[i] = reads[i] /\ feed'[i] = feed[i]
         /\ feed'[Len(reads) + 1] = VerbFor(row.status)
  <1>1. /\ reads \in Seq(Rows \cup {Deleted}) /\ feed \in Seq(Seq(Verbs)) /\ Len(feed) = Len(reads)
        /\ VerbFor(row.status) \in Seq(Verbs) /\ row # Deleted
    BY LiveRows DEF TablesOK, Rows, Deleted, Statuses
  <1>2. /\ reads' \in Seq(Rows \cup {Deleted}) /\ Len(reads') = Len(reads) + 1
        /\ DOMAIN reads' = 1 .. Len(reads) + 1
        /\ reads'[Len(reads) + 1] = row
        /\ \A i \in 1 .. Len(reads) : reads'[i] = reads[i]
    BY <1>1 DEF Added
  <1>3. /\ feed' \in Seq(Seq(Verbs)) /\ Len(feed') = Len(feed) + 1
        /\ feed'[Len(feed) + 1] = VerbFor(row.status)
        /\ \A i \in 1 .. Len(feed) : feed'[i] = feed[i]
    BY <1>1 DEF Added
  <1>4. events' \in [Events -> 0 .. Len(reads')]
    BY <1>1, <1>2 DEF Added, TablesOK
  <1>5. Live' = Live \cup {Len(reads) + 1}
    BY <1>1, <1>2 DEF Live
  <1> QED
    BY <1>1, <1>2, <1>3, <1>4, <1>5 DEF TablesOK

LEMMA ChangedTables ==
  ASSUME TablesOK, NEW i \in Live, NEW row \in Rows, NEW told \in BOOLEAN, Changed(i, row, told)
  PROVE  /\ TablesOK' /\ Len(reads') = Len(reads) /\ Live' = Live
         /\ reads'[i] = row
         /\ \A j \in 1 .. Len(reads) \ {i} : reads'[j] = reads[j] /\ feed'[j] = feed[j]
         /\ feed'[i] = IF told THEN feed[i] \o VerbFor(row.status) ELSE feed[i]
  <1>1. /\ reads \in Seq(Rows \cup {Deleted}) /\ feed \in Seq(Seq(Verbs)) /\ Len(feed) = Len(reads)
        /\ row.status \in Statuses /\ row # Deleted /\ i \in 1 .. Len(reads)
    BY LiveRows DEF TablesOK, Rows, Deleted, Statuses
  <1>2. (IF told THEN feed[i] \o VerbFor(row.status) ELSE feed[i]) \in Seq(Verbs)
    <2>1. feed[i] \in Seq(Verbs) /\ VerbFor(row.status) \in Seq(Verbs)
      BY <1>1, LiveRows
    <2> QED
      BY <2>1
  <1>3. /\ reads' \in Seq(Rows \cup {Deleted}) /\ Len(reads') = Len(reads)
        /\ DOMAIN reads' = 1 .. Len(reads) /\ DOMAIN reads = 1 .. Len(reads)
        /\ reads'[i] = row
        /\ \A j \in 1 .. Len(reads) \ {i} : reads'[j] = reads[j]
    BY <1>1, ExceptSeq DEF Changed
  <1>4. /\ feed' \in Seq(Seq(Verbs)) /\ Len(feed') = Len(feed)
        /\ feed'[i] = IF told THEN feed[i] \o VerbFor(row.status) ELSE feed[i]
        /\ \A j \in 1 .. Len(reads) \ {i} : feed'[j] = feed[j]
    BY <1>1, <1>2, ExceptSeq DEF Changed
  <1>5. Live' = Live
    BY <1>1, <1>3 DEF Live
  <1> QED
    BY <1>1, <1>3, <1>4, <1>5 DEF TablesOK, Changed

LEMMA RemovedTables ==
  ASSUME TablesOK, NEW i \in Live, Removed(i)
  PROVE  /\ TablesOK' /\ Len(reads') = Len(reads) /\ Live' = Live \ {i}
         /\ reads'[i] = Deleted /\ feed'[i] = <<>>
         /\ \A j \in 1 .. Len(reads) \ {i} : reads'[j] = reads[j] /\ feed'[j] = feed[j]
         /\ \A e \in Events : events'[e] = IF events[e] = i THEN 0 ELSE events[e]
  <1>1. /\ reads \in Seq(Rows \cup {Deleted}) /\ feed \in Seq(Seq(Verbs)) /\ Len(feed) = Len(reads)
        /\ i \in 1 .. Len(reads)
    BY LiveRows DEF TablesOK
  <1>2. /\ reads' \in Seq(Rows \cup {Deleted}) /\ Len(reads') = Len(reads)
        /\ DOMAIN reads' = 1 .. Len(reads) /\ DOMAIN reads = 1 .. Len(reads)
        /\ reads'[i] = Deleted
        /\ \A j \in 1 .. Len(reads) \ {i} : reads'[j] = reads[j]
    BY <1>1, ExceptSeq DEF Removed, RemoveRead
  <1>3. /\ feed' \in Seq(Seq(Verbs)) /\ Len(feed') = Len(feed) /\ feed'[i] = <<>>
        /\ \A j \in 1 .. Len(reads) \ {i} : feed'[j] = feed[j]
    BY <1>1, ExceptSeq DEF Removed
  <1>4. Live' = Live \ {i}
    BY <1>1, <1>2 DEF Live
  <1>5. /\ events' \in [Events -> 0 .. Len(reads')]
        /\ \A e \in Events : events'[e] = IF events[e] = i THEN 0 ELSE events[e]
    BY <1>1, <1>2 DEF Removed, RemoveRead, TablesOK
  <1> QED
    BY <1>1, <1>2, <1>3, <1>4, <1>5 DEF TablesOK

LEMMA NotedTables ==
  ASSUME TablesOK, NEW i \in Live, NEW e \in Events, Noted(e, i)
  PROVE  TablesOK' /\ Live' = Live
  BY LiveRows DEF TablesOK, Noted, Live

LEMMA KeptTables ==
  ASSUME TablesOK, Kept
  PROVE  TablesOK' /\ Live' = Live
  BY DEF TablesOK, Kept, tables, Live

-----------------------------------------------------------------------------
(* How a step leaves the requests.                                         *)

LEMMA Parts ==
  ASSUME Inv, NEW r \in Requests
  PROVE  /\ TablesOK /\ RequestsOK /\ Phase
         /\ pc[r] \in Labels /\ call[r] \in Calls(1 .. Len(reads)) \cup {NoCall}
         /\ seen[r] \in Notices(Len(reads)) /\ reply[r] \in Replies(Len(reads))
         /\ Belongs(call[r].kind, pc[r])
         /\ pc[r] \in {"write", "insert"} <=> advisory = r
         /\ DOMAIN reads = 1 .. Len(reads) /\ Len(reads) \in Nat
  BY TypeParts DEF Inv, TablesOK, RequestsOK, Phase

LEMMA Grown ==
  ASSUME NEW m \in Nat, NEW n \in Nat, m <= n
  PROVE  /\ Calls(1 .. m) \cup {NoCall} \subseteq Calls(1 .. n) \cup {NoCall}
         /\ Notices(m) \subseteq Notices(n) /\ Replies(m) \subseteq Replies(n)
  <1>1. 1 .. m \subseteq 1 .. n /\ 0 .. m \subseteq 0 .. n
    OBVIOUS
  <1>2. Calls(1 .. m) \subseteq Calls(1 .. n)
    BY <1>1 DEF Calls, UpsertCalls, FinishCalls, DnfCalls, DeleteCalls, ProgressCalls
  <1> QED
    BY <1>1, <1>2 DEF Notices, Replies

\* Request r comes to label, with what it has seen and its answer.
Comes(r, label, notice, answer) ==
    /\ call' = call
    /\ pc' = [pc EXCEPT ![r] = label]
    /\ seen' = [seen EXCEPT ![r] = notice]
    /\ reply' = [reply EXCEPT ![r] = answer]

\* The advisory lock is r's, exactly where r holds it, and as it was for the others.
LockFollows(r, label) ==
    /\ advisory' \in Requests \cup {NoRequest}
    /\ label \in {"write", "insert"} <=> advisory' = r
    /\ \A s \in Requests \ {r} : advisory' = s <=> advisory = s

LEMMA Stepping ==
  ASSUME Inv, TablesOK', Len(reads) <= Len(reads'),
         NEW r \in Requests, NEW label \in Labels,
         NEW notice \in Notices(Len(reads')), NEW answer \in Replies(Len(reads')),
         Comes(r, label, notice, answer), LockFollows(r, label),
         Belongs(call[r].kind, label), label = "done" \/ answer = NoReply
  PROVE  Inv'
  <1>1. Len(reads) \in Nat /\ Len(reads') \in Nat
    BY Parts DEF TablesOK
  <1>2. /\ Calls(1 .. Len(reads)) \cup {NoCall} \subseteq Calls(1 .. Len(reads')) \cup {NoCall}
        /\ Notices(Len(reads)) \subseteq Notices(Len(reads'))
        /\ Replies(Len(reads)) \subseteq Replies(Len(reads'))
    BY <1>1, Grown
  <1>3. RequestsOK /\ Phase
    BY Parts
  <1>4. RequestsOK'
    <2>1. pc' \in [Requests -> Labels] /\ advisory' \in Requests \cup {NoRequest}
      BY <1>3 DEF RequestsOK, Comes, LockFollows
    <2>2. call' \in [Requests -> Calls(1 .. Len(reads')) \cup {NoCall}]
      BY <1>2, <1>3 DEF RequestsOK, Comes
    <2>3. seen' \in [Requests -> Notices(Len(reads'))]
      BY <1>2, <1>3 DEF RequestsOK, Comes
    <2>4. reply' \in [Requests -> Replies(Len(reads'))]
      BY <1>2, <1>3 DEF RequestsOK, Comes
    <2>5. \A s \in Requests : pc'[s] \in {"write", "insert"} <=> advisory' = s
      BY <1>3 DEF RequestsOK, Comes, LockFollows
    <2> QED
      BY <2>1, <2>2, <2>3, <2>4, <2>5 DEF RequestsOK
  <1>5. Phase'
    <2>1. \A s \in Requests : /\ pc'[s] = IF s = r THEN label ELSE pc[s]
                              /\ reply'[s] = IF s = r THEN answer ELSE reply[s]
                              /\ call'[s] = call[s]
      BY <1>3 DEF RequestsOK, Comes
    <2>2. \A s \in Requests : /\ Belongs(call'[s].kind, pc'[s])
                              /\ call'[s].kind \in Kinds \cup {"none"}
      BY <2>1, <1>3 DEF Phase
    <2>3. \A s \in Requests : pc'[s] # "done" => reply'[s] = NoReply
      BY <2>1, <1>3 DEF Phase
    <2> QED
      BY <2>2, <2>3 DEF Phase
  <1>6. TypeOK'
    BY <1>4, TypeParts, PTL
  <1> QED
    BY <1>5, <1>6 DEF Inv

LEMMA Answering ==
  ASSUME Inv, TablesOK', Len(reads) <= Len(reads'),
         NEW r \in Requests, pc[r] # "idle",
         NEW code \in Codes, NEW k \in 0 .. Len(reads'), Answer(r, code, k),
         advisory' = IF advisory = r THEN NoRequest ELSE advisory
  PROVE  Inv'
  <1>1. Comes(r, "done", seen[r], [code |-> code, read |-> k])
    BY Parts DEF RequestsOK, Comes, Answer
  <1>2. LockFollows(r, "done")
    BY Parts, RequestsAssumption DEF RequestsOK, LockFollows
  <1>3. seen[r] \in Notices(Len(reads')) /\ [code |-> code, read |-> k] \in Replies(Len(reads'))
    <2>1. Len(reads) \in Nat /\ Len(reads') \in Nat /\ seen[r] \in Notices(Len(reads))
      BY Parts DEF TablesOK
    <2> QED
      BY <2>1, Grown DEF Replies
  <1>4. Belongs(call[r].kind, "done")
    BY DEF Belongs
  <1> QED
    BY <1>1, <1>2, <1>3, <1>4, Stepping DEF Labels

LEMMA Going ==
  ASSUME Inv, NEW r \in Requests, NEW label \in Labels \ {"done"},
         NEW notice \in Notices(Len(reads)), GoTo(r, label, notice),
         Belongs(call[r].kind, label), pc[r] # "done", LockFollows(r, label)
  PROVE  Inv'
  <1>1. Comes(r, label, notice, reply[r]) /\ reply[r] = NoReply
    BY Parts DEF RequestsOK, Comes, GoTo, Phase
  <1>2. TablesOK' /\ Len(reads') = Len(reads) /\ Len(reads) \in Nat
    BY Parts, KeptTables DEF GoTo, Kept, tables
  <1>3. reply[r] \in Replies(Len(reads'))
    BY <1>2, Parts
  <1> QED
    BY <1>1, <1>2, <1>3, Stepping

-----------------------------------------------------------------------------
(* The invariants.                                                         *)

\* Among any attempts there is a last one.
Ranked == \A S \in SUBSET Live :
    S # {} => \E j \in S : \A k \in S : reads[k].no <= reads[j].no

Bounded == \A i \in Live : reads[i].no <= Len(reads)

\* Who holds the advisory lock knows a number above all others.
Fresh == \A r \in Requests :
    /\ pc[r] = "write" => /\ seen[r].no <= Len(reads)
                          /\ \A i \in Live : reads[i].no <= seen[r].no
    /\ pc[r] = "insert" => /\ seen[r].no \in 1 .. Len(reads) + 1
                           /\ \A i \in Live : reads[i].no < seen[r].no

Numbering == Ranked /\ Bounded /\ Fresh

\* What upsert has seen of a status is still so, or the read is deleted.
Current == \A r \in Requests :
    pc[r] = "write" /\ seen[r].status # "gone" =>
        /\ seen[r].read \in 1 .. Len(reads)
        /\ seen[r].read \in Live => reads[seen[r].read].status = seen[r].status

\* The CHECK constraint holds of every attempt.
Ordered == \A i \in Live : DatesOrdered(reads[i])

\* An event id is spent on one read, and stored for a read it was sent for.
OnePurpose == \A r, s \in Requests :
    /\ call[r].kind = "progress" /\ call[s].kind = "progress"
    /\ call[r].event = call[s].event
    => call[r].read = call[s].read

Sent == \A e \in Events : events[e] # 0 =>
    \E r \in Requests : call[r].kind = "progress" /\ call[r].event = e /\ call[r].read = events[e]

\* From the INSERT on, an event is stored for its read for as long as that exists.
Stored == \A r \in Requests :
    /\ call[r].kind = "progress" /\ call[r].read \in Live
    /\ pc[r] \in {"check", "touch"} \/ reply[r].code = "ok"
    => events[call[r].event] = call[r].read

-----------------------------------------------------------------------------
(* What a step of a request does.                                          *)

Effect(r) ==
    \/ Kept
    \/ \E i \in Live, row \in Rows, told \in BOOLEAN :
          Changed(i, row, told) /\ row.no = reads[i].no /\ DatesOrdered(row)
    \/ \E i \in Live : Removed(i)
    \/ \E i \in Live, e \in Events : Noted(e, i)
    \/ \E row \in Rows :
          /\ Added(row) /\ DatesOrdered(row) /\ pc[r] \in {"write", "insert"}
          /\ row.no = IF pc[r] = "write" THEN seen[r].no + 1 ELSE seen[r].no

Local(r) ==
    /\ call' = call
    /\ \A s \in Requests \ {r} : pc'[s] = pc[s] /\ seen'[s] = seen[s] /\ reply'[s] = reply[s]

Step(r) == Inv' /\ Effect(r) /\ Local(r)

\* The advisory lock goes with the transaction.
Leaves(r) == advisory' = IF advisory = r THEN NoRequest ELSE advisory

LEMMA Refusing ==
  ASSUME Inv, NEW r \in Requests, pc[r] # "idle", NEW code \in Codes, Refuse(r, code), Leaves(r)
  PROVE  Step(r)
  <1>1. Kept /\ Answer(r, code, 0)
    BY DEF Refuse, Kept
  <1>2. TablesOK' /\ Len(reads') = Len(reads) /\ Len(reads) \in Nat
    BY <1>1, Parts, KeptTables DEF Kept, tables
  <1>3. Inv'
    BY <1>1, <1>2, Answering DEF Leaves
  <1>4. Local(r)
    BY <1>1, Parts DEF Answer, Local, RequestsOK
  <1> QED
    BY <1>1, <1>3, <1>4 DEF Step, Effect

LEMMA Proceeding ==
  ASSUME Inv, NEW r \in Requests, NEW label \in Labels \ {"done"},
         NEW notice \in Notices(Len(reads)), GoTo(r, label, notice),
         Belongs(call[r].kind, label), pc[r] # "done", LockFollows(r, label)
  PROVE  Step(r)
  <1>1. Kept /\ Local(r)
    BY Parts DEF GoTo, Kept, tables, Local, RequestsOK
  <1> QED
    BY <1>1, Going DEF Step, Effect

LEMMA Updating ==
  ASSUME Inv, NEW r \in Requests, pc[r] # "idle", NEW i \in Live, NEW row \in Rows,
         row.no = reads[i].no, NEW told \in BOOLEAN,
         UpdateAttempt(r, i, row, told), Leaves(r)
  PROVE  Step(r)
  <1>1. CASE Refuse(r, "invalidDate")
    BY <1>1, Refusing DEF Codes
  <1>2. CASE DatesOrdered(row) /\ Changed(i, row, told) /\ Answer(r, "ok", i)
    <2>1. TablesOK' /\ Len(reads') = Len(reads) /\ Len(reads) \in Nat /\ i \in 0 .. Len(reads')
      BY <1>2, Parts, LiveRows, ChangedTables
    <2>2. Inv'
      BY <1>2, <2>1, Answering DEF Leaves, Codes
    <2>3. Local(r)
      BY <1>2, Parts DEF Answer, Local, RequestsOK
    <2> QED
      BY <1>2, <2>2, <2>3 DEF Step, Effect
  <1> QED
    BY <1>1, <1>2 DEF UpdateAttempt, Changed

LEMMA Inserting ==
  ASSUME Inv, NEW r \in Requests, pc[r] \in {"write", "insert"}, NEW row \in Rows,
         row.no = IF pc[r] = "write" THEN seen[r].no + 1 ELSE seen[r].no,
         InsertAttempt(r, row), Release
  PROVE  Step(r)
  <1>1. Leaves(r)
    BY Parts DEF Leaves, Release
  <1>2. CASE Refuse(r, "invalidDate") \/ Refuse(r, "duplicate")
    BY <1>1, <1>2, Refusing DEF Codes
  <1>3. CASE DatesOrdered(row) /\ Added(row) /\ Answer(r, "ok", Len(reads) + 1)
    <2>1. TablesOK' /\ Len(reads') = Len(reads) + 1 /\ Len(reads) \in Nat
      BY <1>3, Parts, AddedTables
    <2>2. Inv'
      BY <1>1, <1>3, <2>1, Answering DEF Leaves, Codes
    <2>3. Local(r)
      BY <1>3, Parts DEF Answer, Local, RequestsOK
    <2> QED
      BY <1>3, <2>2, <2>3 DEF Step, Effect
  <1> QED
    BY <1>2, <1>3 DEF InsertAttempt, Added

-----------------------------------------------------------------------------
(* The steps, one by one.                                                  *)

\* A request's call is one of its kind.
LEMMA CallTypes ==
  ASSUME Inv, NEW r \in Requests
  PROVE  /\ call[r].kind = "upsert" => call[r] \in UpsertCalls
         /\ call[r].kind = "finish" => call[r] \in FinishCalls(1 .. Len(reads))
         /\ call[r].kind \in {"finish", "dnf", "delete", "progress"} => call[r].read \in 1 .. Len(reads)
         /\ call[r].kind = "progress" => call[r].event \in Events
  <1>1. call[r] \in Calls(1 .. Len(reads)) \cup {NoCall}
    BY Parts
  <1> QED
    BY <1>1 DEF Calls, UpsertCalls, FinishCalls, DnfCalls, DeleteCalls, ProgressCalls, NoCall

LEMMA NothingIsNotice ==
  ASSUME NEW n \in Nat
  PROVE  /\ NothingSeen \in Notices(n)
         /\ \A d \in Dates : [NothingSeen EXCEPT !.started = d] \in Notices(n)
         /\ \A k \in Nat : [NothingSeen EXCEPT !.no = k] \in Notices(n)
         /\ \A i \in 0 .. n, s \in Statuses, k \in Nat :
               [NothingSeen EXCEPT !.read = i, !.status = s, !.no = k] \in Notices(n)
  <1>1. 0 \in Dates /\ 0 \in 0 .. n
    BY TodayAssumption DEF Dates
  <1>2. NothingSeen \in Notices(n)
    BY <1>1 DEF NothingSeen, Notices
  <1>3. \A d \in Dates : [NothingSeen EXCEPT !.started = d] \in Notices(n)
    BY <1>2 DEF Notices
  <1>4. \A k \in Nat : [NothingSeen EXCEPT !.no = k] \in Notices(n)
    BY <1>2 DEF Notices
  <1>5. \A i \in 0 .. n, s \in Statuses, k \in Nat :
           [NothingSeen EXCEPT !.read = i, !.status = s, !.no = k] \in Notices(n)
    BY <1>1 DEF NothingSeen, Notices
  <1> QED
    BY <1>2, <1>3, <1>4, <1>5

LEMMA LatestIs ==
  ASSUME Inv, Numbering
  PROVE  /\ Latest \in Notices(Len(reads)) /\ Latest.no <= Len(reads)
         /\ \A i \in Live : reads[i].no <= Latest.no
         /\ Live = {} => Latest.status = "gone"
         /\ Live # {} => Latest.read \in Live /\ Latest.status = reads[Latest.read].status
  <1>1. /\ Len(reads) \in Nat
        /\ \A i \in Live : /\ i \in 1 .. Len(reads)
                           /\ reads[i].status \in Statuses /\ reads[i].no \in Nat
    BY TypeParts, LiveRows DEF Inv, Rows
  <1>2. CASE Live = {}
    <2>1. Latest = NothingSeen /\ NothingSeen \in Notices(Len(reads))
      BY <1>1, <1>2, NothingIsNotice DEF Latest
    <2> QED
      BY <1>1, <1>2, <2>1 DEF NothingSeen
  <1>3. CASE Live # {}
    <2> DEFINE i == CHOOSE j \in Live : \A k \in Live : reads[k].no <= reads[j].no
    <2>1. \E j \in Live : \A k \in Live : reads[k].no <= reads[j].no
      BY <1>3 DEF Numbering, Ranked
    <2>2. i \in Live /\ \A k \in Live : reads[k].no <= reads[i].no
      BY <2>1
    <2>3. Latest = [NothingSeen EXCEPT !.read = i, !.status = reads[i].status, !.no = reads[i].no]
      BY <1>3 DEF Latest
    <2>4. reads[i].no <= Len(reads)
      BY <2>2 DEF Numbering, Bounded
    <2>5. Latest \in Notices(Len(reads))
      <3>1. i \in 0 .. Len(reads) /\ reads[i].status \in Statuses /\ reads[i].no \in Nat
        BY <1>1, <2>2
      <3> QED
        BY <1>1, <2>3, <3>1, NothingIsNotice
    <2>6. Latest.read = i /\ Latest.status = reads[i].status /\ Latest.no = reads[i].no
      BY <2>3 DEF NothingSeen
    <2> QED
      BY <1>3, <2>2, <2>4, <2>5, <2>6
  <1> QED
    BY <1>2, <1>3

LEMMA UpsertSteps ==
  ASSUME Inv, Numbering, NEW r \in Requests,
         UpsertLook(r) \/ UpsertInsert(r) \/ UpsertUpdate(r)
  PROVE  Step(r)
  <1>1. CASE UpsertLook(r)
    <2>1. CASE Refuse(r, "alreadyInLibrary") /\ Release
      <3>1. Leaves(r)
        BY <1>1, <2>1 DEF UpsertLook, Release, Leaves
      <3> QED
        BY <1>1, <2>1, <3>1, Refusing DEF UpsertLook, Codes
    <2>2. CASE Acquire(r) /\ GoTo(r, "write", Latest)
      <3>1. LockFollows(r, "write")
        BY <2>2, RequestsAssumption, Parts DEF Acquire, LockFollows
      <3>2. Belongs(call[r].kind, "write")
        BY <1>1, Parts DEF UpsertLook, Belongs
      <3> QED
        BY <1>1, <2>2, <3>1, <3>2, LatestIs, Proceeding DEF UpsertLook, Labels
    <2> QED
      BY <1>1, <2>1, <2>2 DEF UpsertLook
  <1>2. pc[r] = "write" => /\ call[r] \in UpsertCalls /\ call[r].kind = "upsert"
                           /\ seen[r] \in Notices(Len(reads))
                           /\ advisory = r
    BY Parts, CallTypes DEF Belongs
  <1>3. CASE UpsertInsert(r)
    <2> DEFINE row == NewRow(call[r].status, seen[r].no + 1, call[r].startedAt, call[r].finishedAt)
    <2>0. /\ call[r].status \in Statuses /\ seen[r].no + 1 \in Nat \ {0}
          /\ call[r].startedAt \in Dates /\ call[r].finishedAt \in Dates
      BY <1>2, <1>3, WantedAssumption, GivenDates DEF UpsertInsert, UpsertCalls, Notices
    <2>1. row \in Rows
      BY <2>0, RowTypes
    <2>2. row.no = seen[r].no + 1
      BY DEF NewRow
    <2> QED
      BY <1>3, <2>1, <2>2, Inserting DEF UpsertInsert
  <1>4. CASE UpsertUpdate(r)
    <2> DEFINE i == seen[r].read
               row == UpsertedRow(reads[i], call[r])
    <2>1. Leaves(r)
      BY <1>2, <1>4 DEF UpsertUpdate, Release, Leaves
    <2>2. CASE Refuse(r, "vanished")
      BY <1>4, <2>1, <2>2, Refusing DEF UpsertUpdate, Codes
    <2>3. CASE i \in Live /\ UpdateAttempt(r, i, row, seen[r].status # call[r].status)
      <3>1. row \in Rows
        BY <1>2, <1>4, <2>3, RowTypes, LiveRows, Parts DEF UpsertUpdate
      <3>2. row.no = reads[i].no
        BY <2>3, LiveRows, Parts DEF UpsertedRow, Rows
      <3> QED
        BY <1>4, <2>1, <2>3, <3>1, <3>2, Updating DEF UpsertUpdate
    <2> QED
      BY <1>4, <2>2, <2>3 DEF UpsertUpdate
  <1> QED
    BY <1>1, <1>3, <1>4

\* A request that holds no lock stays without.
LEMMA Unlocked ==
  ASSUME Inv, NEW r \in Requests, pc[r] \notin {"write", "insert"}, UNCHANGED advisory
  PROVE  Leaves(r) /\ \A label \in Labels \ {"write", "insert"} : LockFollows(r, label)
  BY Parts DEF Leaves, LockFollows, RequestsOK

LEMMA FinishStep ==
  ASSUME Inv, NEW r \in Requests, Finish(r)
  PROVE  Step(r)
  <1> DEFINE i == call[r].read
             on == call[r].finishedAt
             row == FinishedRow(reads[i], on)
  <1>1. pc[r] = "finish" /\ call[r].kind = "finish" /\ i \in 1 .. Len(reads) /\ on \in Dates
    BY Parts, CallTypes, GivenDates DEF Finish, LockOwnRead, Belongs, FinishCalls
  <1>2. /\ Leaves(r) /\ LockFollows(r, "number") /\ NothingSeen \in Notices(Len(reads))
        /\ Belongs(call[r].kind, "number") /\ "number" \in Labels \ {"done"}
    <2>1. UNCHANGED advisory /\ Len(reads) \in Nat /\ "number" \in Labels \ {"write", "insert"}
      BY Parts DEF Finish, Labels
    <2>2. Leaves(r) /\ LockFollows(r, "number")
      BY <1>1, <2>1, Unlocked
    <2> QED
      BY <1>1, <2>1, <2>2, NothingIsNotice DEF Labels, Belongs
  <1>3. CASE Refuse(r, "notFound") \/ Refuse(r, "invalidDate")
    BY <1>1, <1>2, <1>3, Refusing DEF Codes
  <1>4. CASE GoTo(r, "number", NothingSeen)
    BY <1>1, <1>2, <1>4, Proceeding
  <1>5. CASE i \in Live /\ UpdateAttempt(r, i, row, reads[i].status # "finished")
    <2>1. row \in Rows /\ row.no = reads[i].no
      BY <1>1, <1>5, RowTypes, LiveRows, Parts DEF FinishedRow, Rows
    <2> QED
      BY <1>1, <1>2, <1>5, <2>1, Updating
  <1> QED
    BY <1>3, <1>4, <1>5 DEF Finish, NoOwnRead

LEMMA DnfStep ==
  ASSUME Inv, NEW r \in Requests, Dnf(r)
  PROVE  Step(r)
  <1> DEFINE i == call[r].read
             row == [reads[i] EXCEPT !.status = "dnf"]
  <1>1. pc[r] = "dnf" /\ call[r].kind = "dnf" /\ i \in 1 .. Len(reads)
    BY Parts, CallTypes DEF Dnf, LockOwnRead, Belongs
  <1>2. /\ Leaves(r) /\ LockFollows(r, "number") /\ NothingSeen \in Notices(Len(reads))
        /\ Belongs(call[r].kind, "number") /\ "number" \in Labels \ {"done"}
    <2>1. UNCHANGED advisory /\ Len(reads) \in Nat /\ "number" \in Labels \ {"write", "insert"}
      BY Parts DEF Dnf, Labels
    <2>2. Leaves(r) /\ LockFollows(r, "number")
      BY <1>1, <2>1, Unlocked
    <2> QED
      BY <1>1, <2>1, <2>2, NothingIsNotice DEF Labels, Belongs
  <1>3. CASE Refuse(r, "notFound")
    BY <1>1, <1>2, <1>3, Refusing DEF Codes
  <1>4. CASE GoTo(r, "number", NothingSeen)
    BY <1>1, <1>2, <1>4, Proceeding
  <1>5. CASE i \in Live /\ UpdateAttempt(r, i, row, reads[i].status # "dnf")
    <2>1. row \in Rows /\ row.no = reads[i].no
      BY <1>1, <1>5, RowTypes, LiveRows, Parts DEF Rows
    <2> QED
      BY <1>1, <1>2, <1>5, <2>1, Updating
  <1> QED
    BY <1>3, <1>4, <1>5 DEF Dnf, NoOwnRead

LEMMA NextAttemptSteps ==
  ASSUME Inv, Numbering, NEW r \in Requests, NextAttempt(r) \/ InsertNext(r)
  PROVE  Step(r)
  <1>1. CASE NextAttempt(r)
    <2>1. LockFollows(r, "insert")
      BY <1>1, RequestsAssumption, Parts DEF NextAttempt, Acquire, LockFollows
    <2>2. Belongs(call[r].kind, "insert")
      BY <1>1, Parts DEF NextAttempt, Belongs
    <2>3. [NothingSeen EXCEPT !.no = Latest.no + 1] \in Notices(Len(reads))
      <3>1. Len(reads) \in Nat /\ Latest.no + 1 \in Nat
        BY Parts, LatestIs DEF Notices
      <3> QED
        BY <3>1, NothingIsNotice
    <2> QED
      BY <1>1, <2>1, <2>2, <2>3, Proceeding DEF NextAttempt, Labels
  <1>2. CASE InsertNext(r)
    <2> DEFINE row == IF call[r].kind = "finish"
                      THEN NewRow("finished", seen[r].no, 0, call[r].finishedAt)
                      ELSE NewRow("dnf", seen[r].no, 0, 0)
    <2>1. pc[r] = "insert" /\ InsertAttempt(r, row) /\ Release
      BY <1>2 DEF InsertNext
    <2>2. seen[r].no \in Nat \ {0}
      BY <2>1 DEF Numbering, Fresh
    <2>3. /\ {"finished", "dnf"} \subseteq Statuses /\ 0 \in Dates
          /\ call[r].kind = "finish" => call[r].finishedAt \in Dates
      <3>1. {"finished", "dnf"} \subseteq Statuses /\ 0 \in Dates
        BY TodayAssumption DEF Statuses, Dates
      <3>2. call[r].kind = "finish" => call[r].finishedAt \in Dates
        BY CallTypes, GivenDates DEF FinishCalls
      <3> QED
        BY <3>1, <3>2
    <2>4. row \in Rows
      BY <2>2, <2>3, RowTypes
    <2>5. row.no = seen[r].no
      BY DEF NewRow
    <2> QED
      BY <2>1, <2>4, <2>5, Inserting
  <1> QED
    BY <1>1, <1>2

LEMMA DeleteStep ==
  ASSUME Inv, NEW r \in Requests, Delete(r)
  PROVE  Step(r)
  <1> DEFINE i == call[r].read
  <1>1. pc[r] = "delete" /\ Leaves(r)
    BY Unlocked DEF Delete, LockOwnRead
  <1>2. CASE Refuse(r, "notFound")
    BY <1>1, <1>2, Refusing DEF Codes
  <1>3. CASE i \in Live /\ Removed(i) /\ Answer(r, "ok", i)
    <2>1. TablesOK' /\ Len(reads') = Len(reads) /\ Len(reads) \in Nat /\ i \in 0 .. Len(reads')
      BY <1>3, Parts, LiveRows, RemovedTables
    <2>2. Inv'
      BY <1>1, <1>3, <2>1, Answering DEF Leaves, Codes
    <2>3. Local(r)
      BY <1>3, Parts DEF Answer, Local, RequestsOK
    <2> QED
      BY <1>3, <2>2, <2>3 DEF Step, Effect
  <1> QED
    BY <1>2, <1>3 DEF Delete, NoOwnRead, Removed

LEMMA ProgressLookStep ==
  ASSUME Inv, NEW r \in Requests, ProgressLook(r)
  PROVE  Step(r)
  <1> DEFINE i == call[r].read
  <1>1. pc[r] = "progress" /\ Leaves(r) /\ LockFollows(r, "record")
    BY Unlocked DEF ProgressLook, Labels
  <1>2. CASE Refuse(r, "notFound")
    BY <1>1, <1>2, Refusing DEF Codes
  <1>3. CASE i \in Live /\ GoTo(r, "record", [NothingSeen EXCEPT !.started = reads[i].started])
    <2>1. [NothingSeen EXCEPT !.started = reads[i].started] \in Notices(Len(reads))
      BY <1>3, Parts, LiveRows, NothingIsNotice DEF Rows
    <2>2. Belongs(call[r].kind, "record")
      BY <1>1, Parts DEF Belongs
    <2> QED
      BY <1>1, <1>3, <2>1, <2>2, Proceeding DEF Labels
  <1> QED
    BY <1>2, <1>3 DEF ProgressLook

LEMMA ProgressRecordStep ==
  ASSUME Inv, NEW r \in Requests, ProgressRecord(r)
  PROVE  Step(r)
  <1> DEFINE i == call[r].read
             e == call[r].event
  <1>1. /\ pc[r] = "record" /\ Leaves(r) /\ LockFollows(r, "check") /\ LockFollows(r, "touch")
        /\ call[r].kind = "progress" /\ e \in Events
    BY Unlocked, Parts, CallTypes DEF ProgressRecord, Labels, Belongs
  <1>2. Belongs(call[r].kind, "check") /\ Belongs(call[r].kind, "touch")
    BY <1>1 DEF Belongs
  <1>3. CASE Refuse(r, "invalidReference")
    BY <1>1, <1>3, Refusing DEF Codes
  <1>4. CASE GoTo(r, "check", seen[r])
    BY <1>1, <1>2, <1>4, Parts, Proceeding DEF Labels
  <1>5. CASE /\ i \in Live
             /\ events' = [events EXCEPT ![e] = i]
             /\ pc' = [pc EXCEPT ![r] = "touch"]
             /\ UNCHANGED <<reads, feed, call, seen, reply>>
    <2>1. Noted(e, i) /\ Local(r)
      BY <1>5, Parts DEF Noted, Local, RequestsOK
    <2>2. TablesOK' /\ Len(reads') = Len(reads) /\ Len(reads) \in Nat
      BY <1>1, <1>5, <2>1, NotedTables, Parts
    <2>3. Comes(r, "touch", seen[r], reply[r]) /\ reply[r] = NoReply
      BY <1>1, <1>5, Parts DEF RequestsOK, Comes, Phase
    <2>4. Inv'
      BY <1>1, <1>2, <2>2, <2>3, Parts, Stepping DEF Labels
    <2> QED
      BY <1>1, <1>5, <2>1, <2>4 DEF Step, Effect
  <1> QED
    BY <1>3, <1>4, <1>5 DEF ProgressRecord

LEMMA ProgressCheckStep ==
  ASSUME Inv, NEW r \in Requests, ProgressCheck(r)
  PROVE  Step(r)
  <1>1. pc[r] = "check" /\ Leaves(r) /\ LockFollows(r, "touch") /\ Belongs(call[r].kind, "touch")
    BY Unlocked, Parts DEF ProgressCheck, Labels, Belongs
  <1>2. CASE Refuse(r, "eventConflict")
    BY <1>1, <1>2, Refusing DEF Codes
  <1>3. CASE GoTo(r, "touch", seen[r])
    BY <1>1, <1>3, Parts, Proceeding DEF Labels
  <1> QED
    BY <1>2, <1>3 DEF ProgressCheck

LEMMA ProgressTouchStep ==
  ASSUME Inv, NEW r \in Requests, ProgressTouch(r)
  PROVE  Step(r)
  <1> DEFINE i == call[r].read
             row == [reads[i] EXCEPT !.started = IF seen[r].started = 0 THEN Today ELSE @]
  <1>1. pc[r] = "touch" /\ Leaves(r)
    BY Unlocked DEF ProgressTouch
  <1>2. CASE Refuse(r, "notFound") \/ Refuse(r, "invalidField")
    BY <1>1, <1>2, Refusing DEF Codes
  <1>3. CASE /\ i \in Live /\ DatesOrdered(row)
             /\ reads' = [reads EXCEPT ![i] = row]
             /\ Answer(r, "ok", i)
             /\ UNCHANGED <<feed, events>>
    <2>1. row \in Rows /\ row.no = reads[i].no
      <3>1. reads[i] \in Rows /\ (IF seen[r].started = 0 THEN Today ELSE reads[i].started) \in Dates
        BY <1>3, Parts, LiveRows, TodayAssumption DEF Rows, Dates
      <3> QED
        BY <3>1, RowTypes DEF Rows
    <2>2. feed \in Seq(Seq(Verbs)) /\ [feed EXCEPT ![i] = @] = feed
      BY Parts DEF TablesOK
    <2>3. Changed(i, row, FALSE)
      BY <1>3, <2>2 DEF Changed
    <2>4. UpdateAttempt(r, i, row, FALSE)
      BY <1>3, <2>3 DEF UpdateAttempt, Changed
    <2> QED
      BY <1>1, <1>3, <2>1, <2>4, Updating
  <1> QED
    BY <1>2, <1>3 DEF ProgressTouch

LEMMA DeadlockStep ==
  ASSUME Inv, NEW r \in Requests, DeadlockAbort(r)
  PROVE  Step(r)
  <1>1. Leaves(r) /\ Refuse(r, "deadlock") /\ pc[r] # "idle"
    BY DEF DeadlockAbort, Leaves, WaitsForRowOf
  <1> QED
    BY <1>1, Refusing DEF Codes

LEMMA Serves ==
  ASSUME Inv, Numbering, NEW r \in Requests, Serve(r)
  PROVE  Step(r)
  BY UpsertSteps, FinishStep, DnfStep, NextAttemptSteps, DeleteStep, ProgressLookStep,
     ProgressRecordStep, ProgressCheckStep, ProgressTouchStep, DeadlockStep DEF Serve

LEMMA Arrives ==
  ASSUME Inv, NEW r \in Requests, Arrive(r)
  PROVE  /\ Inv' /\ Kept /\ UNCHANGED <<advisory, seen, reply>>
         /\ pc[r] = "idle" /\ pc'[r] \in {"upsert", "finish", "dnf", "delete", "progress"}
         /\ pc'[r] = call'[r].kind
         /\ \A s \in Requests \ {r} : pc'[s] = pc[s] /\ call'[s] = call[s]
  <1>1. PICK c \in Calls(DOMAIN reads) :
           /\ c.kind \in Kinds
           /\ call' = [call EXCEPT ![r] = c] /\ pc' = [pc EXCEPT ![r] = c.kind]
    BY DEF Arrive
  <1>2. c.kind \in {"upsert", "finish", "dnf", "delete", "progress"}
    BY DEF Calls, UpsertCalls, FinishCalls, DnfCalls, DeleteCalls, ProgressCalls
  <1>3. Kept /\ UNCHANGED <<advisory, seen, reply>> /\ pc[r] = "idle"
    BY DEF Arrive, Kept
  <1>4. TablesOK' /\ Len(reads') = Len(reads) /\ c \in Calls(1 .. Len(reads))
    BY <1>3, Parts, KeptTables DEF Kept, tables
  <1>5. RequestsOK /\ Phase
    BY Parts
  <1>6. /\ \A s \in Requests : pc'[s] = IF s = r THEN c.kind ELSE pc[s]
        /\ \A s \in Requests : call'[s] = IF s = r THEN c ELSE call[s]
    BY <1>1, <1>5 DEF RequestsOK
  <1>7. RequestsOK'
    <2>1. pc' \in [Requests -> Labels]
      BY <1>1, <1>2, <1>5 DEF RequestsOK, Labels
    <2>2. call' \in [Requests -> Calls(1 .. Len(reads')) \cup {NoCall}]
      BY <1>1, <1>4, <1>5 DEF RequestsOK
    <2>3. seen' \in [Requests -> Notices(Len(reads'))] /\ reply' \in [Requests -> Replies(Len(reads'))]
      BY <1>3, <1>4, <1>5 DEF RequestsOK
    <2>4. \A s \in Requests : pc'[s] \in {"write", "insert"} <=> advisory' = s
      BY <1>2, <1>3, <1>5, <1>6 DEF RequestsOK
    <2> QED
      BY <1>3, <1>5, <2>1, <2>2, <2>3, <2>4 DEF RequestsOK
  <1>8. Phase'
    <2>1. Belongs(c.kind, c.kind)
      BY <1>2 DEF Belongs
    <2> QED
      BY <1>1, <1>3, <1>5, <1>6, <2>1 DEF Phase
  <1>9. TypeOK'
    BY <1>4, <1>7, TypeParts, PTL
  <1> QED
    BY <1>2, <1>3, <1>6, <1>8, <1>9 DEF Inv

-----------------------------------------------------------------------------
(* Types and numbers.                                                      *)

LEMMA Start ==
  ASSUME Init
  PROVE  /\ \/ reads = <<>>
            \/ \E row \in Rows : reads = <<row>> /\ row.no = 1 /\ DatesOrdered(row)
         /\ \A r \in Requests : /\ pc[r] = "idle" /\ call[r] = NoCall
                                /\ seen[r] = NothingSeen /\ reply[r] = NoReply
         /\ \A e \in Events : events[e] = 0
         /\ feed = [i \in DOMAIN reads |-> VerbFor(reads[i].status)]
         /\ Inv
  <1>1. \/ reads = <<>>
        \/ \E row \in Rows : reads = <<row>> /\ row.no = 1 /\ DatesOrdered(row)
    <2>1. \A s \in Wanted, a, b \in Dates : NewRow(s, 1, a, b) \in Rows /\ NewRow(s, 1, a, b).no = 1
      <3>1. Wanted \subseteq Statuses /\ 1 \in Nat \ {0}
        BY WantedAssumption
      <3> QED
        BY <3>1, RowTypes DEF NewRow
    <2> QED
      BY <2>1, GivenDates DEF Init
  <1>2. TablesOK
    <2>1. reads \in Seq(Rows \cup {Deleted}) /\ Len(reads) \in Nat
      <3>1. CASE reads = <<>>
        BY <3>1
      <3>2. ASSUME NEW row \in Rows, reads = <<row>> PROVE reads \in Seq(Rows \cup {Deleted})
        BY <3>2
      <3> QED
        BY <1>1, <3>1, <3>2
    <2>2. feed = [i \in 1 .. Len(reads) |-> VerbFor(reads[i].status)]
      BY <2>1 DEF Init
    <2>3. \A i \in 1 .. Len(reads) : reads[i] \in Rows
      BY <1>1
    <2>4. \A i \in 1 .. Len(reads) : VerbFor(reads[i].status) \in Seq(Verbs)
      BY <2>3, VerbTypes DEF Rows
    <2>5. feed \in Seq(Seq(Verbs)) /\ Len(feed) = Len(reads)
      BY <2>1, <2>2, <2>4
    <2>6. events \in [Events -> 0 .. Len(reads)]
      BY <2>1 DEF Init
    <2> QED
      BY <2>1, <2>5, <2>6 DEF TablesOK
  <1>3. RequestsOK
    <2>1. Len(reads) \in Nat
      BY <1>1
    <2>2. NothingSeen \in Notices(Len(reads)) /\ NoReply \in Replies(Len(reads))
      <3>1. NoReply \in Replies(Len(reads))
        BY <2>1 DEF NoReply, Replies, Codes
      <3> QED
        BY <2>1, <3>1, NothingIsNotice
    <2> QED
      BY <2>2, RequestsAssumption DEF Init, RequestsOK, Labels
  <1>4. Phase
    BY DEF Init, Phase, NoCall, Belongs
  <1> QED
    BY <1>1, <1>2, <1>3, <1>4, TypeParts DEF Inv, Init

LEMMA StartNumbering ==
  ASSUME Init
  PROVE  Numbering /\ NumbersAgreed /\ Ordered /\ NoGhostActivity
  <1>1. \A r \in Requests : pc[r] = "idle" /\ reply[r].code # "duplicate"
    BY Start DEF NoReply
  <1>2. CASE reads = <<>>
    <2>1. Live = {} /\ DOMAIN reads = {}
      BY <1>2 DEF Live
    <2> QED
      BY <1>1, <2>1
      DEF Numbering, Ranked, Bounded, Fresh, NumbersAgreed, Ordered, NoGhostActivity
  <1>3. CASE reads # <<>>
    <2>1. PICK row \in Rows : reads = <<row>> /\ row.no = 1 /\ DatesOrdered(row)
      BY <1>3, Start
    <2>2. DOMAIN reads = {1} /\ Live = {1} /\ Len(reads) = 1 /\ reads[1] = row
      BY <2>1 DEF Live, Rows, Deleted, Statuses
    <2>3. Ranked /\ Bounded
      <3>1. \A S \in SUBSET Live : S # {} => 1 \in S /\ \A k \in S : reads[k].no <= reads[1].no
        <4>1. ASSUME NEW S \in SUBSET Live, S # {} PROVE S = {1}
          BY <2>2, <4>1
        <4>2. reads[1].no <= reads[1].no
          BY <2>1, <2>2
        <4> QED
          BY <4>1, <4>2
      <3> QED
        BY <2>1, <2>2, <3>1 DEF Ranked, Bounded
    <2> QED
      BY <1>1, <2>1, <2>2, <2>3
      DEF Numbering, Fresh, NumbersAgreed, Ordered, NoGhostActivity
  <1> QED
    BY <1>2, <1>3

\* A number above all others keeps the attempts in order; changes keep it too.
LEMMA Renumbered ==
  ASSUME TablesOK, RequestsOK, Numbering, Ordered, NoGhostActivity, NEW r \in Requests, Effect(r)
  PROVE  Ranked' /\ Bounded' /\ Ordered' /\ NoGhostActivity'
  <1>0. /\ DOMAIN reads = 1 .. Len(reads) /\ Len(reads) \in Nat /\ Live \subseteq 1 .. Len(reads)
        /\ \A i \in Live : reads[i].no \in Nat
    BY LiveRows DEF TablesOK, Rows
  <1>1. ASSUME Live' \subseteq Live, DOMAIN reads' = DOMAIN reads, Len(reads') = Len(reads),
               \A i \in Live' : reads'[i].no = reads[i].no
        PROVE  Ranked' /\ Bounded'
    BY <1>1 DEF Numbering, Ranked, Bounded
  <1>2. CASE Kept
    BY <1>2 DEF Kept, tables, Numbering, Ranked, Bounded, Ordered, NoGhostActivity, Live
  <1>3. ASSUME NEW i \in Live, NEW row \in Rows, NEW told \in BOOLEAN,
               Changed(i, row, told), row.no = reads[i].no, DatesOrdered(row)
        PROVE  Ranked' /\ Bounded' /\ Ordered' /\ NoGhostActivity'
    <2>1. /\ TablesOK' /\ Len(reads') = Len(reads) /\ Live' = Live /\ reads'[i] = row
          /\ \A j \in 1 .. Len(reads) \ {i} : reads'[j] = reads[j] /\ feed'[j] = feed[j]
      BY <1>3, ChangedTables
    <2>2. DOMAIN reads' = DOMAIN reads
      BY <1>0, <2>1 DEF TablesOK
    <2>3. Ranked' /\ Bounded'
      BY <1>0, <1>1, <1>3, <2>1, <2>2
    <2>4. Ordered' /\ NoGhostActivity'
      BY <1>0, <1>3, <2>1, <2>2 DEF Ordered, NoGhostActivity
    <2> QED
      BY <2>3, <2>4
  <1>4. ASSUME NEW i \in Live, Removed(i)
        PROVE  Ranked' /\ Bounded' /\ Ordered' /\ NoGhostActivity'
    <2>1. /\ TablesOK' /\ Len(reads') = Len(reads) /\ Live' = Live \ {i} /\ feed'[i] = <<>>
          /\ \A j \in 1 .. Len(reads) \ {i} : reads'[j] = reads[j] /\ feed'[j] = feed[j]
      BY <1>4, RemovedTables
    <2>2. DOMAIN reads' = DOMAIN reads
      BY <1>0, <2>1 DEF TablesOK
    <2>3. Ranked' /\ Bounded'
      BY <1>0, <1>1, <1>4, <2>1, <2>2
    <2>4. Ordered' /\ NoGhostActivity'
      BY <1>0, <1>4, <2>1, <2>2 DEF Ordered, NoGhostActivity
    <2> QED
      BY <2>3, <2>4
  <1>5. ASSUME NEW i \in Live, NEW e \in Events, Noted(e, i)
        PROVE  Ranked' /\ Bounded' /\ Ordered' /\ NoGhostActivity'
    BY <1>5 DEF Noted, Numbering, Ranked, Bounded, Ordered, NoGhostActivity, Live
  <1>6. ASSUME NEW row \in Rows, Added(row), DatesOrdered(row), pc[r] \in {"write", "insert"},
               row.no = IF pc[r] = "write" THEN seen[r].no + 1 ELSE seen[r].no
        PROVE  Ranked' /\ Bounded' /\ Ordered' /\ NoGhostActivity'
    <2> DEFINE n == Len(reads) + 1
    <2>1. /\ TablesOK' /\ Len(reads') = n /\ Live' = Live \cup {n} /\ reads'[n] = row
          /\ \A j \in 1 .. Len(reads) : reads'[j] = reads[j] /\ feed'[j] = feed[j]
      BY <1>6, AddedTables
    <2>2. row.no <= n /\ \A i \in Live : reads[i].no < row.no
      <3>1. seen[r].no \in Nat /\ row.no \in Nat
        BY <1>6 DEF RequestsOK, Notices, Rows
      <3>2. CASE pc[r] = "write"
        BY <1>0, <1>6, <3>1, <3>2 DEF Numbering, Fresh
      <3>3. CASE pc[r] = "insert"
        BY <1>0, <1>6, <3>1, <3>3 DEF Numbering, Fresh
      <3> QED
        BY <1>6, <3>2, <3>3
    <2>3. Bounded'
      <3>1. \A i \in Live : reads'[i].no = reads[i].no /\ reads[i].no <= Len(reads)
        BY <1>0, <2>1 DEF Numbering, Bounded
      <3>2. reads'[n].no <= n
        BY <2>1, <2>2
      <3>3. \A i \in Live' : reads'[i].no <= n
        <4>1. \A i \in Live : reads[i].no \in Nat /\ reads[i].no <= n
          BY <1>0, <3>1
        <4> HIDE DEF n
        <4> QED
          BY <2>1, <3>1, <3>2, <4>1
      <3>4. Len(reads') = n
        BY <2>1
      <3> HIDE DEF n
      <3> QED
        BY <3>3, <3>4 DEF Bounded
    <2>4. Ranked'
      <3> SUFFICES ASSUME NEW S \in SUBSET (Live'), S # {}
                   PROVE  \E j \in S : \A k \in S : reads'[k].no <= reads'[j].no
        BY DEF Ranked
      <3>1. \A i \in Live : reads'[i].no = reads[i].no
        BY <1>0, <2>1
      <3>2. CASE n \in S
        <4>1. \A k \in S : reads'[k].no <= reads'[n].no
          BY <1>0, <2>1, <2>2, <3>1 DEF Rows
        <4> QED
          BY <3>2, <4>1
      <3>3. CASE n \notin S
        BY <2>1, <3>1, <3>3 DEF Numbering, Ranked
      <3> QED
        BY <3>2, <3>3
    <2>5. Ordered' /\ NoGhostActivity'
      <3>1. DOMAIN reads' = 1 .. n
        BY <2>1 DEF TablesOK
      <3>2. Ordered'
        BY <1>0, <1>6, <2>1 DEF Ordered
      <3>3. NoGhostActivity'
        BY <1>0, <1>6, <2>1, <3>1 DEF NoGhostActivity
      <3> QED
        BY <3>2, <3>3
    <2> QED
      BY <2>3, <2>4, <2>5
  <1> QED
    BY <1>2, <1>3, <1>4, <1>5, <1>6 DEF Effect

\* A deleted read does not come back.
LEMMA NothingReturns ==
  ASSUME TablesOK, NEW r \in Requests, Effect(r)
  PROVE  Live' \ {Len(reads) + 1} \subseteq Live
  <1>1. CASE Kept \/ \E i \in Live, e \in Events : Noted(e, i)
    BY <1>1 DEF Kept, tables, Noted, Live
  <1>2. ASSUME NEW i \in Live, NEW row \in Rows, NEW told \in BOOLEAN, Changed(i, row, told)
        PROVE  Live' \subseteq Live
    BY <1>2, ChangedTables
  <1>3. ASSUME NEW i \in Live, Removed(i)
        PROVE  Live' \subseteq Live
    BY <1>3, RemovedTables
  <1>4. ASSUME NEW row \in Rows, Added(row)
        PROVE  Live' \ {Len(reads) + 1} \subseteq Live
    BY <1>4, AddedTables
  <1> QED
    BY <1>1, <1>2, <1>3, <1>4 DEF Effect

\* The two steps that take the advisory lock, and who else can be there.
LEMMA Refreshed ==
  ASSUME Inv, Numbering, Inv', NEW r \in Requests, Serve(r), Effect(r), Local(r), Bounded'
  PROVE  Fresh'
  <1>0. /\ TablesOK /\ RequestsOK /\ RequestsOK' /\ DOMAIN reads = 1 .. Len(reads) /\ Len(reads) \in Nat
    <2>1. TypeOK' => RequestsOK'
      BY TypeParts, PTL
    <2> QED
      BY <2>1, Parts DEF Inv
  <1>1. CASE (UpsertLook(r) /\ pc'[r] = "write") \/ NextAttempt(r)
    <2>1. Kept /\ seen' = [seen EXCEPT ![r] = IF pc[r] = "upsert" THEN Latest
                                             ELSE [NothingSeen EXCEPT !.no = Latest.no + 1]]
          /\ advisory' = r /\ pc'[r] = IF pc[r] = "upsert" THEN "write" ELSE "insert"
      BY <1>0, <1>1 DEF UpsertLook, NextAttempt, GoTo, Acquire, Kept, Refuse, Answer, RequestsOK
    <2>2. \A s \in Requests : pc'[s] \in {"write", "insert"} => s = r
      BY <1>0, <2>1 DEF RequestsOK
    <2>3. Live' = Live /\ reads' = reads
      BY <2>1 DEF Kept, tables, Live
    <2>4. /\ Latest.no \in Nat /\ Latest.no <= Len(reads)
          /\ \A i \in Live : reads[i].no <= Latest.no /\ reads[i].no \in Nat
      BY <1>0, LatestIs, LiveRows DEF Notices, Rows
    <2>5. [NothingSeen EXCEPT !.no = Latest.no + 1].no = Latest.no + 1
      BY DEF NothingSeen
    <2>6. seen'[r] = IF pc[r] = "upsert" THEN Latest
                     ELSE [NothingSeen EXCEPT !.no = Latest.no + 1]
      BY <1>0, <2>1 DEF RequestsOK
    <2>7. CASE pc[r] = "upsert"
      BY <1>0, <2>1, <2>2, <2>3, <2>4, <2>6, <2>7 DEF Fresh
    <2>8. CASE pc[r] # "upsert"
      <3>1. pc'[r] = "insert" /\ seen'[r].no = Latest.no + 1
        BY <2>1, <2>5, <2>6, <2>8, <1>0 DEF RequestsOK
      <3>2. seen'[r].no \in 1 .. Len(reads) + 1 /\ \A i \in Live : reads[i].no < seen'[r].no
        BY <1>0, <2>4, <3>1
      <3> QED
        BY <2>2, <2>3, <3>1, <3>2 DEF Fresh
    <2> QED
      BY <2>7, <2>8
  <1>2. CASE ~((UpsertLook(r) /\ pc'[r] = "write") \/ NextAttempt(r))
    <2>1. pc'[r] \notin {"write", "insert"}
      BY <1>0, <1>2
      DEF Serve, UpsertLook, UpsertInsert, UpsertUpdate, Finish, Dnf, InsertNext, Delete,
          ProgressLook, ProgressRecord, ProgressCheck, ProgressTouch, DeadlockAbort,
          InsertAttempt, UpdateAttempt, NoOwnRead, Refuse, Answer, GoTo, RequestsOK
    <2> SUFFICES ASSUME NEW s \in Requests \ {r}, pc[s] \in {"write", "insert"}
                 PROVE  /\ pc[s] = "write" => /\ seen[s].no <= Len(reads')
                                              /\ \A i \in Live' : reads'[i].no <= seen[s].no
                        /\ pc[s] = "insert" => /\ seen[s].no \in 1 .. Len(reads') + 1
                                               /\ \A i \in Live' : reads'[i].no < seen[s].no
      BY <2>1 DEF Local, Fresh
    <2>2. pc[r] \notin {"write", "insert"}
      BY <1>0 DEF RequestsOK
    <2> DEFINE Stays == /\ Len(reads') = Len(reads) /\ Live' \subseteq Live
                        /\ \A i \in Live' : reads'[i].no = reads[i].no
    <2>3. Stays
      <3>1. CASE Kept \/ \E i \in Live, e \in Events : Noted(e, i)
        BY <3>1 DEF Kept, tables, Noted, Live
      <3>2. ASSUME NEW i \in Live, NEW row \in Rows, NEW told \in BOOLEAN,
                   Changed(i, row, told), row.no = reads[i].no
            PROVE  Stays
        BY <1>0, <3>2, ChangedTables, LiveRows
      <3>3. ASSUME NEW i \in Live, Removed(i)
            PROVE  Stays
        BY <1>0, <3>3, RemovedTables, LiveRows
      <3> QED
        BY <2>2, <3>1, <3>2, <3>3 DEF Effect
    <2> QED
      BY <2>3 DEF Numbering, Fresh
  <1> QED
    BY <1>1, <1>2

LEMMA Agreed ==
  ASSUME Inv, Numbering, NumbersAgreed, NEW r \in Requests, Serve(r), Local(r)
  PROVE  NumbersAgreed'
  <1>1. \A n : \/ pc[r] = "write" /\ n = seen[r].no + 1
               \/ pc[r] = "insert" /\ n = seen[r].no
               => \A i \in Live : reads[i].no # n
    <2>1. \A i \in Live : reads[i].no \in Nat
      BY Parts, LiveRows DEF Rows
    <2>2. seen[r].no \in Nat
      BY Parts DEF Notices
    <2> QED
      BY <2>1, <2>2 DEF Numbering, Fresh
  <1>2. ASSUME NEW row, \A i \in Live : reads[i].no # row.no, InsertAttempt(r, row)
        PROVE  reply'[r].code # "duplicate"
    BY <1>2, Parts DEF InsertAttempt, Refuse, Answer, RequestsOK
  <1>3. CASE UpsertInsert(r)
    <2>1. NewRow(call[r].status, seen[r].no + 1, call[r].startedAt, call[r].finishedAt).no
             = seen[r].no + 1
      BY DEF NewRow
    <2> QED
      BY <1>1, <1>2, <1>3, <2>1 DEF UpsertInsert, NumbersAgreed, Local
  <1>4. CASE InsertNext(r)
    <2>1. /\ NewRow("finished", seen[r].no, 0, call[r].finishedAt).no = seen[r].no
          /\ NewRow("dnf", seen[r].no, 0, 0).no = seen[r].no
      BY DEF NewRow
    <2> QED
      BY <1>1, <1>2, <1>4, <2>1 DEF InsertNext, NumbersAgreed, Local
  <1>5. CASE ~UpsertInsert(r) /\ ~InsertNext(r)
    <2>1. reply'[r].code # "duplicate"
      BY <1>5, Parts
      DEF Serve, UpsertLook, UpsertUpdate, Finish, Dnf, NextAttempt, Delete, NumbersAgreed,
          ProgressLook, ProgressRecord, ProgressCheck, ProgressTouch, DeadlockAbort,
          UpdateAttempt, NoOwnRead, Refuse, Answer, GoTo, RequestsOK
    <2> QED
      BY <2>1 DEF NumbersAgreed, Local
  <1> QED
    BY <1>3, <1>4, <1>5

Core == Inv /\ Numbering /\ NumbersAgreed /\ Ordered /\ NoGhostActivity

LEMMA CoreStart == Init => Core
  BY Start, StartNumbering DEF Core

LEMMA CoreServe ==
  ASSUME Core, NEW r \in Requests, Serve(r)
  PROVE  Core' /\ Step(r)
  <1>1. Step(r)
    BY Serves DEF Core
  <1>2. Ranked' /\ Bounded' /\ Ordered' /\ NoGhostActivity'
    BY <1>1, Parts, Renumbered DEF Core, Step
  <1>3. Fresh'
    BY <1>1, <1>2, Refreshed DEF Core, Step
  <1>4. NumbersAgreed'
    BY <1>1, Agreed DEF Core, Step
  <1> QED
    BY <1>1, <1>2, <1>3, <1>4 DEF Core, Numbering, Step

LEMMA CoreArrive ==
  ASSUME Core, NEW r \in Requests, Arrive(r)
  PROVE  Core'
  <1>1. /\ Inv' /\ Kept /\ UNCHANGED <<advisory, seen, reply>>
        /\ pc'[r] \notin {"write", "insert"}
        /\ \A s \in Requests \ {r} : pc'[s] = pc[s]
    BY Arrives DEF Core
  <1>2. Live' = Live
    BY <1>1 DEF Kept, tables, Live
  <1>3. Numbering'
    BY <1>1, <1>2 DEF Core, Kept, tables, Numbering, Ranked, Bounded, Fresh
  <1>4. NumbersAgreed' /\ Ordered' /\ NoGhostActivity'
    BY <1>1, <1>2 DEF Core, Kept, tables, NumbersAgreed, Ordered, NoGhostActivity
  <1> QED
    BY <1>1, <1>3, <1>4 DEF Core

LEMMA CoreStep == Core /\ [Next]_vars => Core'
  <1>1. ASSUME Core, UNCHANGED vars PROVE Core'
    <2>1. TypeOK'
      BY <1>1 DEF vars, tables, Core, Inv, TypeOK, Live
    <2> QED
      BY <1>1, <2>1 DEF vars, tables, Core, Inv, Phase, Numbering, Ranked, Bounded, Fresh,
                   NumbersAgreed, Ordered, NoGhostActivity, Live
  <1> QED
    BY <1>1, CoreServe, CoreArrive DEF Next, Rest

LEMMA CoreCorrect == Spec => []Core
  BY CoreStart, CoreStep, PTL DEF Spec

\* Every variable has its type: the advisory lock is held from its taking to the
\* commit, and by one request (#lockAttempts).
THEOREM TypeCorrect == Spec => []TypeOK
  <1>1. Core => TypeOK
    BY DEF Core, Inv
  <1> QED
    BY <1>1, CoreCorrect, PTL

\* However requests interleave, no insert meets the unique index of the attempt
\* numbers (#insertAttempt, #nextAttempt).
THEOREM NumbersCorrect == Spec => []NumbersAgreed
  <1>1. Core => NumbersAgreed
    BY DEF Core
  <1> QED
    BY <1>1, CoreCorrect, PTL

\* No activity is left of a deleted read (delete, #afterWrite).
THEOREM GhostCorrect == Spec => []NoGhostActivity
  <1>1. Core => NoGhostActivity
    BY DEF Core
  <1> QED
    BY <1>1, CoreCorrect, PTL

-----------------------------------------------------------------------------
(* Progress.                                                               *)

Progress == OnePurpose /\ Sent /\ Stored

LEMMA ProgressArrive ==
  ASSUME Core, ~SharedEvents, Progress, NEW r \in Requests, Arrive(r)
  PROVE  Progress'
  <1>1. /\ Kept /\ UNCHANGED reply /\ Core' /\ pc[r] = "idle"
        /\ pc'[r] \in {"upsert", "finish", "dnf", "delete", "progress"}
        /\ \A s \in Requests \ {r} : pc'[s] = pc[s] /\ call'[s] = call[s]
    BY Arrives, CoreArrive DEF Core
  <1>2. Live' = Live /\ events' = events
    BY <1>1 DEF Kept, tables, Live
  <1>3. /\ reply[r] = NoReply /\ call[r].kind = "none"
        /\ \A s \in Requests : pc[s] \in {"check", "touch"} \/ reply[s].code = "ok" => s # r
    BY <1>1, Parts DEF Core, Phase, NoReply, Belongs
  <1>4. PICK c \in Calls(DOMAIN reads) :
           /\ c.kind = "progress" => ~SpentElsewhere(c)
           /\ call' = [call EXCEPT ![r] = c]
    BY DEF Arrive
  <1>5. call'[r] = c
    BY <1>4, Parts DEF Core, RequestsOK
  <1>6. OnePurpose'
    BY <1>1, <1>4, <1>5 DEF Progress, OnePurpose, SpentElsewhere
  <1>7. Sent'
    BY <1>1, <1>2, <1>3 DEF Progress, Sent
  <1>8. Stored'
    BY <1>1, <1>2, <1>3 DEF Progress, Stored
  <1> QED
    BY <1>6, <1>7, <1>8 DEF Progress

\* What is stored stays, until its read is deleted.
LEMMA EventsKept ==
  ASSUME Core, Progress, NEW r \in Requests, Serve(r), NEW e \in Events
  PROVE  /\ events[e] # 0 /\ events[e] \in Live' => events'[e] = events[e]
         /\ events'[e] # 0 => \/ events'[e] = events[e]
                              \/ pc[r] = "record" /\ call[r].event = e /\ events'[e] = call[r].read
         /\ Live' \ {Len(reads) + 1} \subseteq Live
  <1>0. TablesOK /\ RequestsOK /\ Local(r) /\ Effect(r)
    BY CoreServe, Parts DEF Core, Step
  <1>1. CASE ProgressRecord(r)
    BY <1>0, <1>1 DEF ProgressRecord, GoTo, Refuse, Answer, tables, TablesOK, RequestsOK, Live
  <1>2. CASE ~ProgressRecord(r) /\ ~Delete(r)
    <2>1. events' = events
      BY <1>2 DEF Serve, UpsertLook, UpsertInsert, UpsertUpdate, Finish, Dnf, NextAttempt, InsertNext,
                  ProgressLook, ProgressCheck, ProgressTouch, DeadlockAbort,
                  InsertAttempt, UpdateAttempt, NoOwnRead, Refuse, Answer, GoTo, tables
    <2>2. Live' \ {Len(reads) + 1} \subseteq Live
      BY <1>0, NothingReturns
    <2> QED
      BY <2>1, <2>2
  <1>3. CASE Delete(r)
    <2>1. CASE UNCHANGED tables
      BY <2>1 DEF tables, Live
    <2>2. CASE call[r].read \in Live /\ Removed(call[r].read)
      BY <1>0, <2>2, RemovedTables
    <2> QED
      BY <1>3, <2>1, <2>2 DEF Delete, NoOwnRead, Refuse, Removed
  <1> QED
    BY <1>1, <1>2, <1>3

LEMMA ProgressServe ==
  ASSUME Core, Progress, NEW r \in Requests, Serve(r)
  PROVE  Progress'
  <1>0. TablesOK /\ RequestsOK /\ Local(r) /\ Core' /\ call' = call /\ Len(reads) \in Nat
    BY CoreServe, Parts DEF Core, Step, Local
  <1>1. OnePurpose'
    BY <1>0 DEF Progress, OnePurpose
  <1>2. Sent'
    <2> SUFFICES ASSUME NEW e \in Events, events'[e] # 0
                 PROVE  \E s \in Requests : /\ call[s].kind = "progress" /\ call[s].event = e
                                            /\ call[s].read = events'[e]
      BY <1>0 DEF Sent
    <2>1. CASE events'[e] = events[e]
      BY <2>1 DEF Progress, Sent
    <2>2. CASE pc[r] = "record" /\ call[r].event = e /\ events'[e] = call[r].read
      BY <2>2, Parts DEF Core, Belongs
    <2> QED
      BY <2>1, <2>2, EventsKept
  <1>3. Stored'
    <2> SUFFICES ASSUME NEW s \in Requests, call[s].kind = "progress", call[s].read \in Live',
                        pc'[s] \in {"check", "touch"} \/ reply'[s].code = "ok"
                 PROVE  events'[call[s].event] = call[s].read
      BY <1>0 DEF Stored
    <2>1. call[s].event \in Events /\ call[s].read \in 1 .. Len(reads) /\ call[s].read \in Live
      <3>1. call[s].event \in Events /\ call[s].read \in 1 .. Len(reads)
        BY CallTypes DEF Core
      <3> QED
        BY <1>0, <3>1, EventsKept
    <2>2. CASE events[call[s].event] = call[s].read
      BY <2>1, <2>2, EventsKept
    <2>3. CASE events[call[s].event] # call[s].read
      <3>1. ~(pc[s] \in {"check", "touch"} \/ reply[s].code = "ok")
        BY <2>1, <2>3 DEF Progress, Stored
      <3>2. s = r
        BY <1>0, <3>1 DEF Local
      <3>3. pc[r] \in {"progress", "record", "done"}
        BY <3>1, <3>2, Parts DEF Core, Belongs
      <3>4. pc[r] = "record"
        BY <1>0, <3>1, <3>2, <3>3
        DEF Serve, UpsertLook, UpsertInsert, UpsertUpdate, Finish, Dnf, NextAttempt, InsertNext, Delete,
            LockOwnRead, ProgressLook, ProgressRecord, ProgressCheck, ProgressTouch, DeadlockAbort,
            WaitsForRowOf, Refuse, Answer, GoTo, RequestsOK
      <3>5. ProgressRecord(r)
        BY <3>4 DEF Serve, UpsertLook, UpsertInsert, UpsertUpdate, Finish, Dnf, NextAttempt, InsertNext,
                    Delete, LockOwnRead, ProgressLook, ProgressCheck, ProgressTouch, DeadlockAbort,
                    WaitsForRowOf
      <3>6. events[call[r].event] # 0 => events[call[r].event] = call[r].read
        BY <2>1, <3>2 DEF Progress, Sent, OnePurpose
      <3>7. events[call[r].event] = 0
        BY <2>3, <3>2, <3>6
      <3> QED
        BY <1>0, <2>1, <3>2, <3>5, <3>7 DEF ProgressRecord, TablesOK
    <2> QED
      BY <2>2, <2>3
  <1> QED
    BY <1>1, <1>2, <1>3 DEF Progress

\* Progress that was answered with success is stored for as long as its read is
\* there, if no event id is sent for two reads (addProgress).
THEOREM ProgressCorrect == ~SharedEvents => (Spec => []ProgressKept)
  <1> SUFFICES ASSUME ~SharedEvents PROVE Spec => []ProgressKept
    OBVIOUS
  <1>1. Init => Core /\ Progress
    <2> SUFFICES ASSUME Init PROVE Progress
      BY CoreStart
    <2>1. \A r \in Requests : call[r].kind = "none"
      BY Start DEF NoCall
    <2> QED
      BY <2>1, Start DEF Progress, OnePurpose, Sent, Stored
  <1>2. Core /\ Progress /\ [Next]_vars => Core' /\ Progress'
    <2> SUFFICES ASSUME Core, Progress, [Next]_vars PROVE Core' /\ Progress'
      OBVIOUS
    <2>1. CASE UNCHANGED vars
      BY <2>1, CoreStep DEF vars, tables, Progress, OnePurpose, Sent, Stored, Live
    <2> QED
      BY <2>1, CoreStep, ProgressArrive, ProgressServe DEF Next, Rest
  <1>3. Core /\ Progress => ProgressKept
    BY DEF Progress, Stored, ProgressKept
  <1> QED
    BY <1>1, <1>2, <1>3, PTL DEF Spec

-----------------------------------------------------------------------------
(* Dates.                                                                  *)

\* What the service writes by itself is in order.
LEMMA OwnDates ==
  /\ \A no, on \in Nat : DatesOrdered(NewRow("finished", no, 0, on))
  /\ \A no : DatesOrdered(NewRow("dnf", no, 0, 0))
  /\ \A row \in Rows, on \in Dates :
        DatesOrdered(row) /\ ~DatesOrdered(FinishedRow(row, on)) => Coalesce(on, Today) < row.started
  /\ \A row \in Rows : DatesOrdered(row) => DatesOrdered([row EXCEPT !.status = "dnf"])
  <1>1. \A no, on \in Nat : DatesOrdered(NewRow("finished", no, 0, on))
    BY TodayAssumption DEF DatesOrdered, NewRow, Coalesce
  <1>2. \A no : DatesOrdered(NewRow("dnf", no, 0, 0))
    BY DEF DatesOrdered, NewRow, Coalesce
  <1>3. \A row \in Rows, on \in Dates :
          DatesOrdered(row) /\ ~DatesOrdered(FinishedRow(row, on)) => Coalesce(on, Today) < row.started
    BY TodayAssumption DEF Rows, Dates, DatesOrdered, FinishedRow, Coalesce
  <1>4. \A row \in Rows : DatesOrdered(row) => DatesOrdered([row EXCEPT !.status = "dnf"])
    BY DEF Rows, DatesOrdered
  <1> QED
    BY <1>1, <1>2, <1>3, <1>4

LEMMA RefusalServe ==
  ASSUME Core, "upsert" \notin Kinds, NEW r \in Requests, Serve(r),
         reply'[r].code = "invalidDate", reply[r].code = "none"
  PROVE  /\ call[r].kind = "finish"
         /\ Coalesce(call[r].finishedAt, Today) < reads[call[r].read].started
  <1>0. /\ TablesOK /\ RequestsOK /\ Local(r) /\ call' = call /\ Len(reads) \in Nat
        /\ DOMAIN reads = 1 .. Len(reads) /\ reply'[r] # reply[r]
    BY CoreServe, Parts DEF Core, Step, Local
  <1>1. ASSUME NEW i, NEW row, NEW told, UpdateAttempt(r, i, row, told), DatesOrdered(row)
        PROVE  reply'[r].code = "ok"
    BY <1>0, <1>1 DEF UpdateAttempt, Answer, RequestsOK
  <1>2. ASSUME NEW row, InsertAttempt(r, row), DatesOrdered(row)
        PROVE  reply'[r].code # "invalidDate"
    BY <1>0, <1>2 DEF InsertAttempt, Refuse, Answer, RequestsOK
  <1>3. CASE Finish(r)
    <2> DEFINE i == call[r].read
               on == call[r].finishedAt
    <2>1. call[r].kind = "finish" /\ on \in Dates /\ i \in 1 .. Len(reads)
      BY <1>3, Parts, CallTypes, GivenDates DEF Core, Finish, LockOwnRead, Belongs, FinishCalls
    <2>2. CASE NoOwnRead(r) \/ GoTo(r, "number", NothingSeen)
      BY <1>0, <2>2 DEF NoOwnRead, Refuse, Answer, GoTo, RequestsOK
    <2>3. CASE on # 0 /\ on < reads[i].started
      BY <2>1, <2>3 DEF Coalesce
    <2>4. CASE i \in Live /\ UpdateAttempt(r, i, FinishedRow(reads[i], on), reads[i].status # "finished")
      <3>1. reads[i] \in Rows /\ DatesOrdered(reads[i])
        BY <1>0, <2>4, LiveRows DEF Core, Ordered
      <3> QED
        BY <1>1, <2>1, <2>4, <3>1, OwnDates
    <2> QED
      BY <1>3, <2>2, <2>3, <2>4 DEF Finish
  <1>4. CASE Dnf(r)
    <2> DEFINE i == call[r].read
    <2>1. CASE NoOwnRead(r) \/ GoTo(r, "number", NothingSeen)
      BY <1>0, <2>1 DEF NoOwnRead, Refuse, Answer, GoTo, RequestsOK
    <2>2. CASE i \in Live /\ UpdateAttempt(r, i, [reads[i] EXCEPT !.status = "dnf"],
                                           reads[i].status # "dnf")
      <3>1. DatesOrdered([reads[i] EXCEPT !.status = "dnf"])
        BY <1>0, <2>2, LiveRows, OwnDates DEF Core, Ordered
      <3> QED
        BY <1>1, <2>2, <3>1
    <2> QED
      BY <1>4, <2>1, <2>2 DEF Dnf
  <1>5. CASE InsertNext(r)
    <2>1. seen[r].no \in Nat /\ 0 \in Nat
      BY Parts DEF Core, Notices
    <2>2. call[r].kind = "finish" => call[r].finishedAt \in Nat
      <3>1. Given \subseteq Nat
        BY TodayAssumption, GivenDates DEF Dates
      <3> QED
        BY <3>1, CallTypes DEF Core, FinishCalls
    <2> QED
      BY <1>2, <1>5, <2>1, <2>2, OwnDates DEF InsertNext
  <1>6. CASE UpsertLook(r) \/ UpsertInsert(r) \/ UpsertUpdate(r)
    BY <1>6, Parts DEF Core, Phase, Belongs, UpsertLook, UpsertInsert, UpsertUpdate
  <1>7. CASE \/ NextAttempt(r) \/ Delete(r) \/ ProgressLook(r) \/ ProgressRecord(r)
             \/ ProgressCheck(r) \/ ProgressTouch(r) \/ DeadlockAbort(r)
    BY <1>0, <1>7
    DEF NextAttempt, Delete, ProgressLook, ProgressRecord, ProgressCheck, ProgressTouch,
        DeadlockAbort, NoOwnRead, Refuse, Answer, GoTo, RequestsOK
  <1> QED
    BY <1>3, <1>4, <1>5, <1>6, <1>7 DEF Serve

\* finish and dnf refuse a write for its dates only if its finish, or today if it
\* names none, is before a start given or stored: POST /reads fills in today as
\* the start of a past finish and refuses it.
THEOREM RefusedCorrect == "upsert" \notin Kinds => (Spec => RefusedOnlyBackwards)
  <1> DEFINE Only == \A r \in Requests :
               reply'[r].code = "invalidDate" /\ reply[r].code = "none" =>
                   /\ call[r].kind = "finish"
                   /\ Coalesce(call[r].finishedAt, Today) < reads[call[r].read].started
  <1> SUFFICES ASSUME "upsert" \notin Kinds PROVE Spec => RefusedOnlyBackwards
    OBVIOUS
  <1>1. Init => Core
    BY CoreStart
  <1>2. Core /\ [Next]_vars => Core'
    BY CoreStep
  <1>3. Core /\ [Next]_vars => Only
    <2> SUFFICES ASSUME Core, [Next]_vars, NEW r \in Requests,
                        reply'[r].code = "invalidDate", reply[r].code = "none"
                 PROVE  /\ call[r].kind = "finish"
                        /\ Coalesce(call[r].finishedAt, Today) < reads[call[r].read].started
      OBVIOUS
    <2>1. CASE UNCHANGED reply
      BY <2>1
    <2>2. ASSUME NEW s \in Requests, Arrive(s) PROVE UNCHANGED reply
      BY <2>2 DEF Arrive
    <2>3. ASSUME NEW s \in Requests, Serve(s)
          PROVE  /\ call[r].kind = "finish"
                 /\ Coalesce(call[r].finishedAt, Today) < reads[call[r].read].started
      <3>1. Local(s)
        BY <2>3, CoreServe DEF Step
      <3> QED
        BY <2>3, <3>1, RefusalServe DEF Local
    <2> QED
      BY <2>1, <2>2, <2>3 DEF Next, Rest, vars
  <1>4. Only => \A r \in Requests :
          reply'[r].code = "invalidDate" /\ reply[r].code = "none" =>
            LET stored  == IF call[r].kind = "finish" THEN reads[call[r].read].started
                           ELSE IF UpsertStarts(r) THEN 0 ELSE reads[seen[r].read].started
                started == IF call[r].kind = "finish" THEN stored
                           ELSE Coalesce(call[r].startedAt, stored)
            IN  Coalesce(call[r].finishedAt, Today) < started
    OBVIOUS
  <1> QED
    BY <1>1, <1>2, <1>3, <1>4, PTL DEF Spec, RefusedOnlyBackwards

-----------------------------------------------------------------------------
(* The requests implement AttemptHistory: those by read id, or POST /reads *)
(* beside delete and progress. With both, an upsert may overwrite a finish *)
(* it has not seen.                                                        *)

Tame == "upsert" \notin Kinds \/ {"finish", "dnf"} \cap Kinds = {}

\* A change of status is of an attempt that was not over, and is told.
Moved(i, row) ==
    /\ Changed(i, row, reads[i].status # row.status)
    /\ row.no = reads[i].no
    /\ row.status = reads[i].status \/ reads[i].status \notin Terminal

Told(r) ==
    \/ Kept
    \/ \E i \in Live, e \in Events : Noted(e, i)
    \/ \E i \in Live : Removed(i)
    \/ \E i \in Live, row \in Rows : Moved(i, row)
    \/ \E row \in Rows : /\ Added(row) /\ row.no \in 1 .. Len(reads) + 1
                         /\ \A i \in Live : reads[i].no < row.no

LEMMA ToldAdded ==
  ASSUME Core, NEW r \in Requests, UpsertInsert(r) \/ InsertNext(r)
  PROVE  Told(r)
  <1>1. CASE Kept
    BY <1>1 DEF Told
  <1>2. CASE ~Kept
    <2>1. Effect(r) /\ pc[r] \in {"write", "insert"}
      BY CoreServe DEF Serve, Step, UpsertInsert, InsertNext
    <2>2. PICK row \in Rows : /\ Added(row)
                              /\ row.no = IF pc[r] = "write" THEN seen[r].no + 1 ELSE seen[r].no
      <3>1. \E row : reads' = Append(reads, row)
        BY <1>2 DEF UpsertInsert, InsertNext, InsertAttempt, Refuse, Kept
      <3>2. reads' # reads /\ Len(reads') = Len(reads) + 1 /\ Len(reads) \in Nat
        BY <3>1, Parts DEF Core, TablesOK
      <3>3. /\ ~\E i \in Live, e \in Events : Noted(e, i)
            /\ ~\E i \in Live, row \in Rows, told \in BOOLEAN : Changed(i, row, told)
            /\ ~\E i \in Live : Removed(i)
        BY <3>2, ChangedTables, RemovedTables, Parts DEF Noted, Core
      <3> QED
        BY <1>2, <2>1, <3>3 DEF Effect
    <2>3. /\ Len(reads) \in Nat /\ seen[r].no \in Nat
          /\ \A i \in Live : reads[i].no \in Nat
      BY Parts, LiveRows DEF Core, Notices, Rows
    <2>4. row.no \in 1 .. Len(reads) + 1 /\ \A i \in Live : reads[i].no < row.no
      <3>1. CASE pc[r] = "write"
        BY <2>2, <2>3, <3>1 DEF Core, Numbering, Fresh
      <3>2. CASE pc[r] = "insert"
        BY <2>2, <2>3, <3>2 DEF Core, Numbering, Fresh
      <3> QED
        BY <2>1, <3>1, <3>2
    <2> QED
      BY <2>2, <2>4 DEF Told
  <1> QED
    BY <1>1, <1>2

LEMMA ToldServe ==
  ASSUME Core, "upsert" \in Kinds => Current, NEW r \in Requests, Serve(r)
  PROVE  Told(r)
  <1>0. /\ TablesOK /\ RequestsOK /\ Len(reads) \in Nat
        /\ \A i \in Live : reads[i] \in Rows /\ i \in 1 .. Len(reads)
        /\ call[r].kind = "upsert" => "upsert" \in Kinds
    BY Parts, LiveRows DEF Core, Phase
  <1>1. ASSUME NEW i \in Live, NEW row \in Rows, NEW told \in BOOLEAN,
               UpdateAttempt(r, i, row, told), row.no = reads[i].no,
               told = (reads[i].status # row.status),
               row.status = reads[i].status \/ reads[i].status \notin Terminal
        PROVE  Told(r)
    <2>1. CASE Kept
      BY <2>1 DEF Told
    <2>2. CASE Changed(i, row, told)
      BY <1>1, <2>2 DEF Told, Moved
    <2> QED
      BY <1>1, <2>1, <2>2 DEF UpdateAttempt, Refuse, Kept, Changed
  <1>2. CASE UpsertInsert(r) \/ InsertNext(r)
    BY <1>2, ToldAdded
  <1>3. CASE UpsertUpdate(r)
    <2> DEFINE i == seen[r].read
               row == UpsertedRow(reads[i], call[r])
    <2>1. /\ pc[r] = "write" /\ call[r].kind = "upsert" /\ call[r] \in UpsertCalls /\ Current
          /\ "upsert" \in Kinds
      BY <1>0, <1>3, Parts, CallTypes DEF Core, UpsertUpdate, Belongs
    <2>2. CASE Refuse(r, "vanished")
      BY <2>2 DEF Refuse, Told, Kept
    <2>3. CASE i \in Live /\ UpdateAttempt(r, i, row, seen[r].status # call[r].status)
      <3>1. seen[r].status # "gone" /\ (seen[r].status \in Terminal => call[r].status = seen[r].status)
        BY <1>3 DEF UpsertUpdate, UpsertStarts, StartsNewAttempt
      <3>2. reads[i].status = seen[r].status
        BY <2>1, <2>3, <3>1 DEF Current
      <3>3. row \in Rows /\ row.no = reads[i].no /\ row.status = call[r].status
        <4>1. reads[i] \in Rows
          BY <1>0, <2>3
        <4> QED
          BY <2>1, <4>1, RowTypes DEF UpsertedRow, Rows
      <3> QED
        BY <1>1, <2>3, <3>1, <3>2, <3>3
    <2> QED
      BY <1>3, <2>2, <2>3 DEF UpsertUpdate
  <1>4. CASE Finish(r)
    <2> DEFINE i == call[r].read
               on == call[r].finishedAt
               row == FinishedRow(reads[i], on)
    <2>1. CASE UNCHANGED tables
      BY <2>1 DEF Told, Kept
    <2>2. CASE i \in Live /\ ~IsReread(reads[i], on)
               /\ UpdateAttempt(r, i, row, reads[i].status # "finished")
      <3>1. on \in Dates
        BY <1>4, Parts, CallTypes, GivenDates DEF Core, Finish, LockOwnRead, Belongs, FinishCalls
      <3>2. row \in Rows /\ row.no = reads[i].no /\ row.status = "finished"
        <4>1. reads[i] \in Rows
          BY <1>0, <2>2
        <4> QED
          BY <3>1, <4>1, RowTypes DEF FinishedRow, Rows
      <3>3. reads[i].status = "finished" \/ reads[i].status \notin Terminal
        BY <2>2 DEF IsReread, Terminal
      <3> QED
        BY <1>1, <2>2, <3>2, <3>3
    <2> QED
      BY <1>4, <2>1, <2>2 DEF Finish, NoOwnRead, Refuse, GoTo
  <1>5. CASE Dnf(r)
    <2> DEFINE i == call[r].read
               row == [reads[i] EXCEPT !.status = "dnf"]
    <2>1. CASE UNCHANGED tables
      BY <2>1 DEF Told, Kept
    <2>2. CASE i \in Live /\ reads[i].status # "finished"
               /\ UpdateAttempt(r, i, row, reads[i].status # "dnf")
      <3>1. row \in Rows /\ row.no = reads[i].no /\ row.status = "dnf"
        BY <1>0, <2>2, RowTypes DEF Rows
      <3>2. reads[i].status = "dnf" \/ reads[i].status \notin Terminal
        BY <2>2 DEF Terminal
      <3> QED
        BY <1>1, <2>2, <3>1, <3>2
    <2> QED
      BY <1>5, <2>1, <2>2 DEF Dnf, NoOwnRead, Refuse, GoTo
  <1>6. CASE ProgressTouch(r)
    <2> DEFINE i == call[r].read
               row == [reads[i] EXCEPT !.started = IF seen[r].started = 0 THEN Today ELSE @]
    <2>1. CASE UNCHANGED tables
      BY <2>1 DEF Told, Kept
    <2>2. CASE i \in Live /\ reads' = [reads EXCEPT ![i] = row] /\ UNCHANGED <<feed, events>>
      <3>1. reads[i] \in Rows /\ (IF seen[r].started = 0 THEN Today ELSE reads[i].started) \in Dates
        BY <1>0, <2>2, TodayAssumption DEF Rows, Dates
      <3>2. row \in Rows /\ row.no = reads[i].no /\ row.status = reads[i].status
        BY <3>1, RowTypes DEF Rows
      <3>3. [feed EXCEPT ![i] = @] = feed
        BY <1>0 DEF TablesOK
      <3>4. Moved(i, row)
        BY <2>2, <3>2, <3>3 DEF Moved, Changed
      <3> QED
        BY <2>2, <3>2, <3>4 DEF Told
    <2> QED
      BY <1>6, <2>1, <2>2 DEF ProgressTouch, Refuse
  <1>7. CASE Delete(r)
    BY <1>7 DEF Delete, NoOwnRead, Refuse, Told, Kept, Removed
  <1>8. CASE ProgressRecord(r)
    <2>1. call[r].event \in Events
      BY <1>8, Parts, CallTypes DEF Core, ProgressRecord, Belongs
    <2> QED
      BY <1>8, <2>1 DEF ProgressRecord, Refuse, GoTo, Told, Kept, Noted
  <1>9. CASE \/ UpsertLook(r) \/ NextAttempt(r) \/ ProgressLook(r) \/ ProgressCheck(r)
             \/ DeadlockAbort(r)
    BY <1>9 DEF UpsertLook, NextAttempt, ProgressLook, ProgressCheck, DeadlockAbort,
                Refuse, GoTo, Told, Kept
  <1> QED
    BY <1>2, <1>3, <1>4, <1>5, <1>6, <1>7, <1>8, <1>9 DEF Serve

LEMMA CurrentServe ==
  ASSUME Core, {"finish", "dnf"} \cap Kinds = {}, Current, NEW r \in Requests, Serve(r)
  PROVE  Current'
  <1>0. /\ TablesOK /\ RequestsOK /\ RequestsOK' /\ Local(r) /\ Len(reads) \in Nat
        /\ DOMAIN reads = 1 .. Len(reads) /\ Effect(r)
    <2>1. TypeOK' => RequestsOK'
      BY TypeParts, PTL
    <2> QED
      BY <2>1, CoreServe, Parts DEF Core, Inv, Step
  <1>1. CASE UpsertLook(r) /\ pc'[r] = "write"
    <2>1. Kept /\ advisory' = r /\ seen' = [seen EXCEPT ![r] = Latest]
      BY <1>0, <1>1 DEF UpsertLook, GoTo, Acquire, Kept, Refuse, Answer, RequestsOK
    <2>2. \A s \in Requests : pc'[s] = "write" => s = r
      BY <1>0, <2>1 DEF RequestsOK
    <2>3. Latest.status # "gone" => /\ Latest.read \in Live /\ Latest.read \in 1 .. Len(reads)
                                    /\ Latest.status = reads[Latest.read].status
      BY <1>0, LatestIs, LiveRows DEF Core
    <2>4. seen'[r] = Latest /\ reads' = reads /\ Live' = Live
      BY <1>0, <2>1 DEF RequestsOK, Kept, tables, Live
    <2> QED
      BY <2>2, <2>3, <2>4 DEF Current
  <1>2. CASE ~(UpsertLook(r) /\ pc'[r] = "write")
    <2>1. pc'[r] # "write"
      BY <1>0, <1>2
      DEF Serve, UpsertLook, UpsertInsert, UpsertUpdate, Finish, Dnf, NextAttempt, InsertNext, Delete,
          ProgressLook, ProgressRecord, ProgressCheck, ProgressTouch, DeadlockAbort,
          InsertAttempt, UpdateAttempt, NoOwnRead, Refuse, Answer, GoTo, RequestsOK
    <2> SUFFICES ASSUME NEW s \in Requests, s # r, pc[s] = "write", seen[s].status # "gone"
                 PROVE  /\ seen[s].read \in 1 .. Len(reads')
                        /\ seen[s].read \in Live' => reads'[seen[s].read].status = seen[s].status
      BY <1>0, <2>1 DEF Local, Current
    <2> DEFINE i == seen[s].read
    <2>2. i \in 1 .. Len(reads) /\ (i \in Live => reads[i].status = seen[s].status)
      BY DEF Current
    <2>3. pc[r] \notin {"write", "insert"}
      BY <1>0 DEF RequestsOK
    <2>4. ~(Finish(r) \/ Dnf(r))
      BY Parts DEF Core, Phase, Finish, Dnf, LockOwnRead, Belongs
    <2>5. Len(reads') = Len(reads) /\ (i \in Live' => i \in Live)
      <3>1. CASE Kept \/ \E j \in Live, e \in Events : Noted(e, j)
        BY <3>1 DEF Kept, tables, Noted, Live
      <3>2. ASSUME NEW j \in Live, NEW row \in Rows, NEW told \in BOOLEAN, Changed(j, row, told)
            PROVE  Len(reads') = Len(reads) /\ (i \in Live' => i \in Live)
        BY <1>0, <3>2, ChangedTables
      <3>3. ASSUME NEW j \in Live, Removed(j)
            PROVE  Len(reads') = Len(reads) /\ (i \in Live' => i \in Live)
        BY <1>0, <3>3, RemovedTables
      <3> QED
        BY <1>0, <2>3, <3>1, <3>2, <3>3 DEF Effect
    <2>6. i \in Live' => reads'[i].status = reads[i].status
      <3>1. CASE UNCHANGED reads
        BY <3>1
      <3>2. CASE ProgressTouch(r)
        <4> DEFINE j == call[r].read
                   row == [reads[j] EXCEPT !.started = IF seen[r].started = 0 THEN Today ELSE @]
        <4>1. CASE j \in Live /\ reads' = [reads EXCEPT ![j] = row]
          <5>1. reads[j] \in Rows
            BY <1>0, <4>1, LiveRows
          <5>2. row.status = reads[j].status
            BY <5>1 DEF Rows
          <5> QED
            BY <1>0, <2>2, <4>1, <5>2
        <4> QED
          BY <3>1, <3>2, <4>1 DEF ProgressTouch, Refuse, tables
      <3>3. CASE Delete(r)
        <4>1. CASE call[r].read \in Live /\ Removed(call[r].read)
          BY <1>0, <2>2, <4>1, RemovedTables
        <4> QED
          BY <3>1, <3>3, <4>1 DEF Delete, NoOwnRead, Refuse, tables, Removed
      <3>4. CASE ~ProgressTouch(r) /\ ~Delete(r)
        <4>1. UNCHANGED reads
          BY <2>3, <2>4, <3>4
          DEF Serve, UpsertLook, UpsertInsert, UpsertUpdate, NextAttempt, InsertNext, ProgressLook,
              ProgressRecord, ProgressCheck, DeadlockAbort, Refuse, GoTo, tables
        <4> QED
          BY <3>1, <4>1
      <3> QED
        BY <3>2, <3>3, <3>4
    <2> QED
      BY <2>2, <2>5, <2>6
  <1> QED
    BY <1>1, <1>2

\* The attempts as AttemptHistory sees them.
Attempts == [i \in DOMAIN reads |-> [status |-> reads[i].status, no |-> reads[i].no]]

LEMMA Seen ==
  ASSUME TablesOK
  PROVE  /\ Attempts \in Seq([status : Statuses \cup {"gone"}, no : Nat])
         /\ Len(Attempts) = Len(reads) /\ DOMAIN Attempts = 1 .. Len(reads) /\ Len(reads) \in Nat
         /\ \A i \in 1 .. Len(reads) : Attempts[i] = [status |-> reads[i].status, no |-> reads[i].no]
         /\ History!Live = Live
         /\ \A s : History!Told(s) = VerbFor(s)
  <1>1. /\ Len(reads) \in Nat /\ DOMAIN reads = 1 .. Len(reads)
        /\ \A i \in 1 .. Len(reads) : reads[i] \in Rows \cup {Deleted}
    BY DEF TablesOK
  <1>2. \A i \in 1 .. Len(reads) : reads[i].status \in Statuses \cup {"gone"} /\ reads[i].no \in Nat
    BY <1>1 DEF Rows, Deleted
  <1>3. \A i \in 1 .. Len(reads) : [status |-> reads[i].status, no |-> reads[i].no]
                                     \in [status : Statuses \cup {"gone"}, no : Nat]
    BY <1>2
  <1>4. /\ Attempts \in Seq([status : Statuses \cup {"gone"}, no : Nat])
        /\ Len(Attempts) = Len(reads) /\ DOMAIN Attempts = 1 .. Len(reads)
        /\ \A i \in 1 .. Len(reads) : Attempts[i] = [status |-> reads[i].status, no |-> reads[i].no]
    BY <1>1, <1>3 DEF Attempts
  <1>5. \A i \in 1 .. Len(reads) : i \in Live <=> Attempts[i] # History!Gone
    <2>1. \A i \in 1 .. Len(reads) : i \in Live => Attempts[i].status # "gone"
      BY <1>4, LiveRows DEF Rows
    <2>2. \A i \in 1 .. Len(reads) : i \notin Live => Attempts[i] = [status |-> "gone", no |-> 0]
      BY <1>1, <1>4 DEF Live, Deleted
    <2> QED
      BY <2>1, <2>2 DEF History!Gone
  <1>6. History!Live = Live
    BY <1>1, <1>4, <1>5 DEF History!Live, Live, Attempts
  <1>7. \A s : History!Told(s) = VerbFor(s)
    BY DEF History!Told, History!Terminal, VerbFor, Terminal
  <1> QED
    BY <1>1, <1>4, <1>6, <1>7

LEMMA Recorded ==
  ASSUME Core, NEW row \in Rows, Added(row), row.no \in 1 .. Len(reads) + 1,
         \A i \in Live : reads[i].no < row.no
  PROVE  History!Record
  <1> DEFINE shown == [status |-> row.status, no |-> row.no]
             n == Len(reads) + 1
  <1>0. TablesOK /\ TablesOK'
    BY TypeParts, AddedTables DEF Core, Inv
  <1>1. /\ Len(reads') = n /\ reads'[n] = row /\ Len(reads) \in Nat
        /\ \A i \in 1 .. Len(reads) : reads'[i] = reads[i]
    BY <1>0, AddedTables, Seen
  <1>2. Attempts' = Append(Attempts, shown)
    <2>1. Attempts' = [i \in 1 .. n |-> [status |-> reads'[i].status, no |-> reads'[i].no]]
      BY <1>0, <1>1 DEF Attempts, TablesOK
    <2>2. \A i \in 1 .. n : Append(Attempts, shown)[i] = IF i = n THEN shown ELSE Attempts[i]
      BY <1>0, Seen
    <2>3. Append(Attempts, shown) \in Seq([status : Statuses \cup {"gone"}, no : Nat])
          /\ Len(Append(Attempts, shown)) = n
      BY <1>0, Seen DEF Rows
    <2>4. Append(Attempts, shown) = [i \in 1 .. n |-> Append(Attempts, shown)[i]]
      BY <2>3
    <2>5. \A i \in 1 .. n : Append(Attempts, shown)[i] = [status |-> reads'[i].status, no |-> reads'[i].no]
      BY <1>0, <1>1, <2>2, Seen
    <2> QED
      BY <2>1, <2>4, <2>5
  <1>3. feed' = Append(feed, History!Told(row.status))
    BY <1>0, Seen DEF Added
  <1>4. \A k \in History!Numbers : k < row.no
    <2>1. \A i \in Live : Attempts[i].no = reads[i].no
      BY <1>0, Seen, LiveRows
    <2> QED
      BY <1>0, <2>1, Seen DEF History!Numbers, Attempts
  <1>5. row.status \in History!Statuses /\ row.no \in 1 .. Len(Attempts) + 1
    BY <1>0, Seen DEF Rows, Statuses, History!Statuses
  <1> QED
    BY <1>2, <1>3, <1>4, <1>5 DEF History!Record, Attempts

LEMMA MovedOn ==
  ASSUME Core, NEW i \in Live, NEW row \in Rows, Moved(i, row)
  PROVE  History!Move \/ UNCHANGED <<Attempts, feed>>
  <1>0. TablesOK /\ TablesOK' /\ i \in 1 .. Len(reads) /\ reads[i] \in Rows
    BY TypeParts, ChangedTables, LiveRows DEF Core, Inv, Moved
  <1>1. /\ Len(reads') = Len(reads) /\ reads'[i] = row
        /\ \A j \in 1 .. Len(reads) \ {i} : reads'[j] = reads[j]
    BY <1>0, ChangedTables DEF Moved
  <1>2. Attempts' = [Attempts EXCEPT ![i].status = row.status]
    <2>1. Attempts' = [j \in 1 .. Len(reads) |-> [status |-> reads'[j].status, no |-> reads'[j].no]]
      BY <1>0, <1>1 DEF Attempts, TablesOK
    <2>2. \A j \in 1 .. Len(reads) : [Attempts EXCEPT ![i].status = row.status][j]
                                        = [status |-> reads'[j].status, no |-> reads'[j].no]
      BY <1>0, <1>1, Seen DEF Moved
    <2> QED
      BY <1>0, <2>1, <2>2, Seen
  <1>3. CASE row.status = reads[i].status
    <2>1. feed' = feed
      BY <1>0, <1>3 DEF Moved, Changed, TablesOK
    <2>2. Attempts' = Attempts
      BY <1>0, <1>2, <1>3, Seen
    <2> QED
      BY <2>1, <2>2
  <1>4. CASE row.status # reads[i].status
    <2>1. feed' = [feed EXCEPT ![i] = @ \o History!Told(row.status)]
      BY <1>0, <1>4, Seen DEF Moved, Changed
    <2>2. /\ Attempts[i].status \notin History!Terminal /\ Attempts[i].status # row.status
          /\ row.status \in History!Statuses /\ i \in History!Live
      BY <1>0, <1>4, Seen DEF Moved, Terminal, History!Terminal, Rows, Statuses, History!Statuses
    <2> QED
      BY <1>2, <2>1, <2>2 DEF History!Move, Attempts
  <1> QED
    BY <1>3, <1>4

LEMMA RemovedOne ==
  ASSUME Core, NEW i \in Live, Removed(i)
  PROVE  History!Remove
  <1>0. TablesOK /\ TablesOK' /\ i \in 1 .. Len(reads)
    BY TypeParts, RemovedTables, LiveRows DEF Core, Inv
  <1>1. /\ Len(reads') = Len(reads) /\ reads'[i] = Deleted
        /\ \A j \in 1 .. Len(reads) \ {i} : reads'[j] = reads[j]
    BY <1>0, RemovedTables
  <1>2. Attempts' = [Attempts EXCEPT ![i] = History!Gone]
    <2>1. Attempts' = [j \in 1 .. Len(reads) |-> [status |-> reads'[j].status, no |-> reads'[j].no]]
      BY <1>0, <1>1 DEF Attempts, TablesOK
    <2>2. \A j \in 1 .. Len(reads) : [Attempts EXCEPT ![i] = History!Gone][j]
                                        = [status |-> reads'[j].status, no |-> reads'[j].no]
      <3>1. Deleted.status = "gone" /\ Deleted.no = 0
        BY DEF Deleted
      <3>2. \A j \in 1 .. Len(reads) : [Attempts EXCEPT ![i] = History!Gone][j]
                                          = IF j = i THEN History!Gone ELSE Attempts[j]
        BY <1>0, Seen
      <3> QED
        BY <1>0, <1>1, <3>1, <3>2, Seen DEF History!Gone
    <2> QED
      BY <1>0, <2>1, <2>2, Seen
  <1>3. i \in History!Live /\ feed' = [feed EXCEPT ![i] = <<>>]
    BY <1>0, Seen DEF Removed
  <1> QED
    BY <1>2, <1>3 DEF History!Remove, Attempts

LEMMA HistoryStep ==
  ASSUME Core, NEW r \in Requests, Told(r)
  PROVE  [History!Next]_History!vars
  <1>1. CASE Kept \/ \E i \in Live, e \in Events : Noted(e, i)
    BY <1>1 DEF Kept, tables, Noted, History!vars
  <1> QED
    BY <1>1, Recorded, MovedOn, RemovedOne DEF Told, History!Next, History!vars, Attempts

LEMMA HistoryStart == Init => History!Init
  <1> SUFFICES ASSUME Init PROVE History!Init
    OBVIOUS
  <1>1. CASE reads = <<>>
    <2>1. Attempts = <<>> /\ feed = <<>>
      BY <1>1, Start DEF Attempts
    <2> QED
      BY <2>1 DEF History!Init, Attempts
  <1>2. CASE reads # <<>>
    <2>1. PICK row \in Rows : reads = <<row>> /\ row.no = 1
      BY <1>2, Start
    <2>2. Attempts = <<[status |-> row.status, no |-> 1]>>
      BY <2>1 DEF Attempts
    <2>3. feed = <<History!Told(row.status)>>
      BY <2>1, Start DEF History!Told, History!Terminal, VerbFor, Terminal
    <2>4. row.status \in History!Statuses
      BY DEF Rows, Statuses, History!Statuses
    <2> QED
      BY <2>2, <2>3, <2>4 DEF History!Init, Attempts
  <1> QED
    BY <1>1, <1>2

\* Concurrent requests do to attempts and activity what they would do one at a
\* time: finish, dnf, delete and progress beside each other, and POST /reads
\* beside delete and progress (startsNewAttempt, #insertAttempt, #afterWrite).
THEOREM HistoryImplemented == Tame => (Spec => HistoryKept)
  <1> SUFFICES ASSUME Tame PROVE Spec => HistoryKept
    OBVIOUS
  <1> DEFINE Sure == "upsert" \in Kinds => Current
  <1>1. Init => Core /\ Sure
    BY CoreStart, Start DEF Current
  <1>2. Core /\ Sure /\ [Next]_vars => Core' /\ Sure' /\ [History!Next]_History!vars
    <2> SUFFICES ASSUME Core, Sure, [Next]_vars
                 PROVE  Core' /\ Sure' /\ [History!Next]_History!vars
      OBVIOUS
    <2>1. CASE UNCHANGED vars
      BY <2>1, CoreStep DEF vars, tables, Current, Live, History!vars
    <2>2. ASSUME NEW r \in Requests, Arrive(r)
          PROVE  Core' /\ Sure' /\ [History!Next]_History!vars
      <3>1. /\ Kept /\ seen' = seen /\ pc'[r] # "write"
            /\ \A s \in Requests \ {r} : pc'[s] = pc[s]
        BY <2>2, Arrives DEF Core
      <3> QED
        BY <2>2, <3>1, CoreArrive DEF Kept, tables, Current, Live, History!vars
    <2>3. ASSUME NEW r \in Requests, Serve(r)
          PROVE  Core' /\ Sure' /\ [History!Next]_History!vars
      BY <2>3, CoreServe, CurrentServe, ToldServe, HistoryStep DEF Tame
    <2> QED
      BY <2>1, <2>2, <2>3 DEF Next, Rest
  <1> QED
    BY <1>1, <1>2, HistoryStart, PTL DEF Spec, HistoryKept, History!Spec
=============================================================================
