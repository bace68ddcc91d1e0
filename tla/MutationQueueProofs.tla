------------------------- MODULE MutationQueueProofs -------------------------
(***************************************************************************)
(* MutationQueue for every number of rows, reads and targets and every     *)
(* bound: types, the order of the writes of an entity, what is sent under  *)
(* an id the server does not know, and that wishes reach the server.       *)
(***************************************************************************)
EXTENDS MutationQueue, TLAPS

Used(r) == status[r] # "unused"
Running == {"select", "next", "reread", "send", "answer"}

\* Which rows are in the table, and under which kind of id.
Table ==
  /\ \A r \in Rows : Used(r) <=> r < next
  /\ \A r \in Rows : Used(r) =>
       /\ entity[r] \in Entities
       /\ action[r] \in Upserts => entity[r] \in Reads
       /\ action[r] \in {"set", "unset"} => entity[r] \in Targets
  /\ \A r \in sent \cup died : Used(r)
  /\ \A q \in Rows : \A e \in ahead[q] : Used(e) /\ e < q
  /\ \A r \in Rows : status[r] = "dead_letter" => r \in died

\* The control state of the flush, and of enqueueDesiredState.
Stage ==
  /\ \A r \in todo : Used(r)
  /\ cur # 0 <=> pc \in {"reread", "send", "answer"}
  /\ pc = "answer" <=> net # None
  /\ pc \in {"idle", "reset", "select"} => todo = {}
  /\ tap # NoTap => tap.target \in Targets
  /\ tap.found # 0 => Used(tap.found)
  /\ clock + spent["setBacks"] = MaxSetBacks

Control == Table /\ Stage

\* Only the row of the running flush is claimed. It stays claimed, unless it
\* has been a dead letter and Retry was tapped again.
Claimed ==
  pc \in Running =>
    /\ \A r \in Rows : status[r] = "processing" => r = cur
    /\ cur # 0 => /\ status[cur] = "processing" \/ cur \in died
                  /\ status[cur] # "dead_letter"
                  /\ cur \notin todo
                  /\ key[cur] = line
                  /\ Used(cur)

\* A row and the rows it was queued behind move to another id together.
Lines ==
  \A q \in Rows : \A e \in ahead[q] :
    InTable(e) /\ InTable(q) => entity[e] = entity[q]

\* A write of the same read that q has to wait for.
WaitsFor(q, e) == Follows(q, e) /\ Live(e) /\ e \notin died

\* The plan of the flush respects the order: what a row waits for is in the
\* same group of the plan, or in flight; what the row in flight waits for is
\* settled.
Plan ==
  /\ \A e \in Rows, q \in todo :
       WaitsFor(q, e) => e \in todo \cup {cur} /\ key[e] = key[q]
  /\ cur # 0 => \A e \in Rows : ~WaitsFor(cur, e)

IInv == TypeOK /\ Control /\ Claimed /\ Lines /\ Plan /\ Fifo

-----------------------------------------------------------------------------
(* Types *)

USE DEF identity, effort, lock, plan, flight, device, outside, outcome, resting

LEMMA TypeInit == Init => TypeOK
  <1> SUFFICES ASSUME Init PROVE TypeOK
    OBVIOUS
  <1> USE QueueAssumption DEF Init
  <1>1. RowsOK
    BY DEF RowsOK, Statuses, Actions, ReadActions, Live
  <1>2. FlushOK
    <2>1. key \in [Rows -> Entities \cup {None}] /\ todo \subseteq Rows
      BY DEF NoKey
    <2>2. seen \in 0 .. MaxAttempts
      OBVIOUS
    <2> QED
      BY <2>1, <2>2 DEF FlushOK
  <1>3. DeviceOK
    BY DEF DeviceOK, NoTap
  <1>4. HistoryOK
    BY DEF HistoryOK
  <1> QED
    BY <1>1, <1>2, <1>3, <1>4 DEF TypeOK

\* A call of flush leaves the plan and the request in flight alone.
LEMMA CallFlushType ==
  ASSUME FlushOK, NEW f \in BOOLEAN, CallFlush(f), UNCHANGED <<plan, flight>>
  PROVE  FlushOK'
  BY DEF CallFlush, FlushOK

LEMMA SpendType ==
  ASSUME DeviceOK, NEW b \in Budgets, Spend(b)
  PROVE  spent' \in [Budgets -> Nat]
  BY DEF Spend, DeviceOK

LEMMA InsertType ==
  ASSUME TypeOK, NEW act \in Actions, NEW ent \in Entities, Insert(act, ent)
  PROVE  RowsOK'
  BY QueueAssumption DEF Insert, TypeOK, RowsOK, DeviceOK, Rows, Statuses, Live

\* Steps that leave the rows, or change only the status and retry time of one.
LEMMA RowsKept ==
  ASSUME RowsOK, UNCHANGED <<status, entity, identity, effort>>
  PROVE  RowsOK'
  BY DEF RowsOK, Live

LEMMA RekeyedType ==
  ASSUME RowsOK, NEW from, NEW to \in Entities
  PROVE  Rekeyed(from, to) \in [Rows -> Entities \cup {None}]
  BY DEF Rekeyed, RowsOK

LEMMA TypeStep ==
  ASSUME IInv, [Next]_vars
  PROVE  TypeOK'
  <1> USE DEF IInv
  <1>1. ASSUME NEW act \in ReadActions, NEW ent \in Reads, Enqueue(act, ent)
        PROVE  TypeOK'
    <2>1. act \in Actions /\ ent \in Entities
      BY DEF Actions, Entities
    <2>2. RowsOK'
      BY <1>1, <2>1, InsertType DEF Enqueue
    <2>3. FlushOK'
      BY <1>1, CallFlushType DEF Enqueue, TypeOK
    <2>4. DeviceOK' /\ HistoryOK'
      BY <1>1 DEF Enqueue, TypeOK, DeviceOK, HistoryOK
    <2> QED
      BY <2>2, <2>3, <2>4 DEF TypeOK
  <1>2. ASSUME NEW t \in Targets, NEW want \in BOOLEAN, EnqueueDesiredState(t, want)
        PROVE  TypeOK'
    <2>1. RowsOK'
      BY <1>2, RowsKept DEF EnqueueDesiredState, TypeOK
    <2>2. FlushOK' /\ DeviceOK' /\ HistoryOK'
      BY <1>2 DEF EnqueueDesiredState, TypeOK, FlushOK, DeviceOK, HistoryOK
    <2> QED
      BY <2>1, <2>2 DEF TypeOK
  <1>3. ASSUME NEW r \in Rows, RetryDeadLetter(r) PROVE TypeOK'
    <2>1. RowsOK'
      BY <1>3, QueueAssumption DEF RetryDeadLetter, TypeOK, RowsOK, Live, Statuses
    <2>2. FlushOK'
      BY <1>3, CallFlushType DEF RetryDeadLetter, TypeOK
    <2>3. spent' \in [Budgets -> Nat]
      BY <1>3, SpendType DEF RetryDeadLetter, TypeOK, Budgets
    <2>4. DeviceOK' /\ HistoryOK'
      BY <1>3, <2>3 DEF RetryDeadLetter, TypeOK, DeviceOK, HistoryOK
    <2> QED
      BY <2>1, <2>2, <2>4 DEF TypeOK
  <1>4. ASSUME NEW r \in Rows, DismissDeadLetter(r) PROVE TypeOK'
    <2>1. RowsOK'
      BY <1>4 DEF DismissDeadLetter, TypeOK, RowsOK, Live, Statuses
    <2>2. FlushOK' /\ DeviceOK' /\ HistoryOK'
      BY <1>4 DEF DismissDeadLetter, TypeOK, FlushOK, DeviceOK, HistoryOK
    <2> QED
      BY <2>1, <2>2 DEF TypeOK
  <1>5. CASE Coalesce
    <2>1. tap.target \in Targets /\ FlushOK'
      BY <1>5, CallFlushType DEF Coalesce, Control, Table, Stage, TypeOK
    <2>2. RowsOK' /\ cancelled' \subseteq Rows
      <3>1. CASE UNCHANGED <<status, entity, cancelled, identity, effort>>
        BY <3>1, RowsKept DEF TypeOK, HistoryOK
      <3>2. CASE /\ tap.found # 0
                 /\ status' = [status EXCEPT ![tap.found] = "gone"]
                 /\ cancelled' = cancelled \cup {tap.found}
                 /\ UNCHANGED <<entity, identity, effort>>
        BY <3>2 DEF TypeOK, RowsOK, DeviceOK, HistoryOK, Live, Statuses
      <3>3. CASE Insert(ActionFor(tap.want), tap.target) /\ UNCHANGED cancelled
        <4>1. ActionFor(tap.want) \in Actions /\ tap.target \in Entities
          BY <2>1 DEF ActionFor, Actions, Entities
        <4> QED
          BY <3>3, <4>1, InsertType DEF TypeOK, HistoryOK
      <3> QED
        BY <1>5, <3>1, <3>2, <3>3 DEF Coalesce
    <2>3. DeviceOK' /\ HistoryOK'
      BY <1>5, <2>2 DEF Coalesce, TypeOK, DeviceOK, HistoryOK, NoTap
    <2> QED
      BY <2>1, <2>2, <2>3 DEF TypeOK
  <1>6. CASE Foreground \/ TimerTick \/ Reconnect
    <2>1. /\ CallFlush(FALSE) \/ CallFlush(TRUE)
          /\ UNCHANGED resting
          /\ UNCHANGED spent \/ Spend("forces")
      BY <1>6 DEF Foreground, TimerTick, Reconnect
    <2>2. RowsOK'
      BY <2>1, RowsKept DEF TypeOK
    <2>3. FlushOK'
      BY <2>1, CallFlushType DEF TypeOK
    <2>4. spent' \in [Budgets -> Nat]
      BY <2>1, SpendType DEF TypeOK, DeviceOK, Budgets
    <2>5. DeviceOK' /\ HistoryOK'
      BY <2>1, <2>4 DEF TypeOK, DeviceOK, HistoryOK
    <2> QED
      BY <2>2, <2>3, <2>5 DEF TypeOK
  <1>7. ASSUME NEW r \in Rows, BackoffElapses(r) PROVE TypeOK'
    <2>1. RowsOK'
      BY <1>7 DEF BackoffElapses, TypeOK, RowsOK, Live
    <2>2. FlushOK' /\ DeviceOK' /\ HistoryOK'
      BY <1>7 DEF BackoffElapses, TypeOK, FlushOK, DeviceOK, HistoryOK
    <2> QED
      BY <2>1, <2>2 DEF TypeOK
  <1>8. CASE ClockSetBack
    <2>1. spent["setBacks"] < MaxSetBacks /\ spent' \in [Budgets -> Nat]
      BY <1>8, SpendType DEF ClockSetBack, Spend, BoundOf, Budgets, TypeOK
    <2>2. spent["setBacks"] \in Nat /\ clock \in Nat
      BY DEF TypeOK, DeviceOK, Budgets
    <2>3. clock' \in 0 .. MaxSetBacks
      BY <1>8, <2>1, <2>2, QueueAssumption DEF ClockSetBack, Control, Table, Stage
    <2>4. RowsOK' /\ FlushOK'
      BY <1>8 DEF ClockSetBack, TypeOK, RowsOK, FlushOK, Live
    <2>5. DeviceOK' /\ HistoryOK'
      BY <1>8, <2>1, <2>3 DEF ClockSetBack, TypeOK, DeviceOK, HistoryOK
    <2> QED
      BY <2>4, <2>5 DEF TypeOK
  <1>9. CASE Crash
    <2>1. spent' \in [Budgets -> Nat]
      BY <1>9, SpendType DEF Crash, Budgets, TypeOK
    <2>2. doubted' \subseteq Entities
      <3>1. cur \in applied => cur \in Rows /\ cur # 0
        BY DEF TypeOK, HistoryOK, Rows
      <3>2. cur \in applied => entity[cur] \in Entities
        BY <3>1 DEF Control, Table, Stage, Claimed, Running
      <3> QED
        BY <1>9, <3>2 DEF Crash, TypeOK, HistoryOK
    <2>3. RowsOK'
      BY <1>9, RowsKept DEF Crash, TypeOK
    <2>4. FlushOK'
      <3>1. key' \in [Rows -> Entities \cup {None}] /\ todo' \subseteq Rows
        BY <1>9 DEF Crash, NoKey
      <3>2. seen' \in 0 .. MaxAttempts
        BY <1>9, QueueAssumption DEF Crash
      <3> QED
        BY <1>9, <3>1, <3>2 DEF Crash, FlushOK
    <2>5. DeviceOK' /\ HistoryOK'
      BY <1>9, <2>1, <2>2 DEF Crash, TypeOK, DeviceOK, HistoryOK, NoTap
    <2> QED
      BY <2>3, <2>4, <2>5 DEF TypeOK
  <1>10. CASE FlushSelect
    <2>1. RowsOK'
      BY <1>10, RowsKept DEF FlushSelect, TypeOK
    <2>2. key' \in [Rows -> Entities \cup {None}]
      BY <1>10 DEF FlushSelect, TypeOK, RowsOK
    <2>3. FlushOK' /\ DeviceOK' /\ HistoryOK'
      BY <1>10, <2>2 DEF FlushSelect, TypeOK, FlushOK, DeviceOK, HistoryOK
    <2> QED
      BY <2>1, <2>3 DEF TypeOK
  <1>11. CASE Claim
    <2>1. PICK r \in todo : Claim!(r)
      BY <1>11 DEF Claim
    <2>2. RowsOK'
      BY <2>1 DEF TypeOK, RowsOK, FlushOK, Live, Statuses
    <2>3. FlushOK' /\ DeviceOK' /\ HistoryOK'
      BY <2>1 DEF TypeOK, FlushOK, DeviceOK, HistoryOK
    <2> QED
      BY <2>2, <2>3 DEF TypeOK
  <1>12. CASE ReRead
    <2>1. cur \in Rows /\ Used(cur) /\ status[cur] # "dead_letter"
      BY <1>12 DEF ReRead, Control, Table, Stage, Claimed, Running, TypeOK, FlushOK
    <2>2. CASE status[cur] = "gone"
      BY <1>12, <2>2, RowsKept DEF ReRead, TypeOK, FlushOK, DeviceOK, HistoryOK
    <2>3. CASE status[cur] # "gone"
      <3>1. entity' \in [Rows -> Entities \cup {None}]
        <4>1. Remapped(entity[cur]) => alias[entity[cur]] \in Entities
          BY DEF Remapped, TypeOK, DeviceOK, Entities, Reads
        <4> QED
          BY <1>12, <2>3, <4>1, RekeyedType DEF ReRead, TypeOK, RowsOK
      <3>2. RowsOK'
        BY <1>12, <3>1 DEF ReRead, TypeOK, RowsOK, Live
      <3>3. seen' \in 0 .. MaxAttempts /\ seen' < MaxAttempts
        BY <1>12, <2>1, <2>3 DEF ReRead, TypeOK, RowsOK, Live, Statuses, Used
      <3>4. FlushOK' /\ DeviceOK' /\ HistoryOK'
        BY <1>12, <2>3, <3>3 DEF ReRead, TypeOK, FlushOK, DeviceOK, HistoryOK
      <3> QED
        BY <3>2, <3>4 DEF TypeOK
    <2> QED
      BY <2>2, <2>3
  <1>13. CASE Send
    <2>1. cur \in Rows /\ entity[cur] \in Entities
      BY <1>13 DEF Send, Control, Table, Stage, Claimed, Running, TypeOK, FlushOK
    <2>2. spent' \in [Budgets -> Nat]
      BY <1>13, SpendType DEF Send, Budgets, TypeOK, DeviceOK
    <2>3. server' \in [Targets -> BOOLEAN]
      BY <1>13 DEF Send, ApplyAtServer, TypeOK, DeviceOK
    <2>4. RowsOK'
      BY <1>13, RowsKept DEF Send, TypeOK
    <2>5. FlushOK'
      BY <1>13 DEF Send, TypeOK, FlushOK, Failures
    <2>6. DeviceOK' /\ HistoryOK'
      BY <1>13, <2>1, <2>2, <2>3 DEF Send, ApplyAtServer, TypeOK, DeviceOK, HistoryOK
    <2> QED
      BY <2>4, <2>5, <2>6 DEF TypeOK
  <1>14. CASE MarkSuccess \/ MarkFound \/ Wait \/ Throttle \/ Refuse \/ MarkFailure
    <2>1. /\ \E left \in SUBSET todo : Answered(left)
          /\ cur \in Rows /\ status[cur] # "dead_letter" /\ Used(cur)
          /\ found' \subseteq Rows
      BY <1>14 DEF MarkSuccess, MarkFound, Wait, Throttle, Refuse, MarkFailure, Answered,
         OtherLines, Control, Table, Stage, Claimed, Running, TypeOK, FlushOK, HistoryOK
    <2>2. FlushOK'
      BY <2>1, QueueAssumption DEF Answered, TypeOK, FlushOK
    <2>3. RowsOK' /\ alias' \in [Reads -> ServerIds \cup {None}] /\ died' \subseteq Rows
      <3>1. CASE MarkSuccess
        <4>1. entity' \in [Rows -> Entities \cup {None}]
          BY <3>1, RekeyedType DEF MarkSuccess, TypeOK, RowsOK, Entities, Reads
        <4>2. alias' \in [Reads -> ServerIds \cup {None}]
          BY <3>1 DEF MarkSuccess, TypeOK, DeviceOK
        <4>3. status' \in [Rows -> Statuses] /\ \A r \in Rows : Live(r)' => Live(r)
          BY <3>1 DEF MarkSuccess, TypeOK, RowsOK, Statuses, Live
        <4> QED
          BY <3>1, <4>1, <4>2, <4>3 DEF MarkSuccess, Answered, TypeOK, RowsOK, HistoryOK
      <3>2. CASE Wait \/ Throttle
        <4>1. /\ Keep("pending") /\ NotDue
              /\ UNCHANGED <<entity, attempts, alias, died, identity>>
          BY <3>2 DEF Wait, Throttle, Answered
        <4>2. \A r \in Rows : Live(r)' => Live(r)
          BY <2>1, <4>1 DEF Keep, TypeOK, RowsOK, Live, Used, Statuses
        <4> QED
          BY <4>1, <4>2 DEF Keep, NotDue, TypeOK, RowsOK, DeviceOK, HistoryOK, Statuses
      <3>3. CASE Refuse \/ (MarkFailure /\ LastAttempt)
        <4>1. /\ DeadLetter
              /\ UNCHANGED <<entity, alias, identity>>
              /\ seen < MaxAttempts /\ seen \in 0 .. MaxAttempts
          BY <3>3 DEF Refuse, MarkFailure, Answered, TypeOK, FlushOK
        <4>2. seen + 1 \in 0 .. MaxAttempts
          BY <4>1, QueueAssumption
        <4>3. \A r \in Rows : Live(r)' => Live(r) /\ r # cur
          BY <2>1, <4>1 DEF DeadLetter, Keep, TypeOK, RowsOK, Live, Statuses
        <4> QED
          BY <2>1, <4>1, <4>2, <4>3 DEF DeadLetter, Keep, TypeOK, RowsOK, DeviceOK, HistoryOK, Statuses
      <3>4. CASE MarkFailure /\ ~LastAttempt
        <4>1. /\ Keep("pending") /\ NotDue
              /\ attempts' = [attempts EXCEPT ![cur] = seen + 1]
              /\ UNCHANGED <<entity, alias, died, identity>>
              /\ seen \in 0 .. MaxAttempts /\ ~(seen + 1 >= MaxAttempts)
          BY <3>4 DEF MarkFailure, LastAttempt, Answered, TypeOK, FlushOK
        <4>2. seen + 1 \in 0 .. MaxAttempts /\ seen + 1 < MaxAttempts
          BY <4>1, QueueAssumption
        <4>3. \A r \in Rows : Live(r)' => Live(r) \/ r = cur
          BY <4>1 DEF Keep, TypeOK, RowsOK, Live, Statuses
        <4> QED
          BY <2>1, <4>1, <4>2, <4>3 DEF Keep, NotDue, TypeOK, RowsOK, DeviceOK, HistoryOK, Statuses
      <3>5. CASE MarkFound
        <4>1. status' \in [Rows -> Statuses] /\ \A r \in Rows : Live(r)' => Live(r)
          BY <3>5 DEF MarkFound, TypeOK, RowsOK, Statuses, Live
        <4> QED
          BY <3>5, <4>1 DEF MarkFound, Answered, TypeOK, RowsOK, DeviceOK, HistoryOK
      <3> QED
        BY <1>14, <3>1, <3>2, <3>3, <3>4, <3>5
    <2>4. DeviceOK' /\ HistoryOK'
      BY <2>1, <2>3 DEF Answered, TypeOK, DeviceOK, HistoryOK
    <2> QED
      BY <2>2, <2>3, <2>4 DEF TypeOK
  <1>15. CASE FlushEnd
    <2>1. RowsOK'
      BY <1>15, RowsKept DEF FlushEnd, TypeOK
    <2>2. FlushOK' /\ DeviceOK' /\ HistoryOK'
      BY <1>15 DEF FlushEnd, AfterFlush, NoKey, TypeOK, FlushOK, DeviceOK, HistoryOK
    <2> QED
      BY <2>1, <2>2 DEF TypeOK
  <1>16. CASE UNCHANGED vars
    <2>1. RowsOK'
      BY <1>16, RowsKept DEF vars, TypeOK
    <2> QED
      BY <1>16, <2>1 DEF vars, TypeOK, FlushOK, DeviceOK, HistoryOK
  <1>17. CASE FlushReset
    <2>1. RowsOK'
      BY <1>17 DEF FlushReset, Recovered, TypeOK, RowsOK, Live, Statuses
    <2>2. FlushOK' /\ DeviceOK' /\ HistoryOK'
      BY <1>17 DEF FlushReset, TypeOK, FlushOK, DeviceOK, HistoryOK
    <2> QED
      BY <2>1, <2>2 DEF TypeOK
  <1> QED
    BY <1>1, <1>2, <1>3, <1>4, <1>5, <1>6, <1>7, <1>8, <1>9, <1>10, <1>11,
       <1>12, <1>13, <1>14, <1>15, <1>16, <1>17 DEF Next, UserStep, Environment, FlushStep

-----------------------------------------------------------------------------
(* The table and the stage of the flush *)

LEMMA ControlInit == Init => Control
  BY QueueAssumption DEF Init, Control, Table, Stage, Used, NoTap, Budgets, Rows, None, Failures

\* A new row takes the next rowid.
LEMMA InsertTable ==
  ASSUME TypeOK, Table, NEW act \in Actions, NEW ent \in Entities, Insert(act, ent),
         act \in Upserts => ent \in Reads,
         act \in {"set", "unset"} => ent \in Targets,
         UNCHANGED <<sent, died>>
  PROVE  Table'
  <1> USE DEF TypeOK, RowsOK, HistoryOK, Table, Insert, Used
  <1>1. next \in Rows /\ next' = next + 1 /\ next \in Nat
    BY QueueAssumption DEF Rows
  <1>2. \A r \in Rows : Used(r)' <=> Used(r) \/ r = next
    BY <1>1
  <1>3. \A r \in Rows : Used(r)' <=> r < next'
    BY <1>1, <1>2 DEF Rows
  <1>4. \A r \in Rows : r # next => /\ entity'[r] = entity[r]
                                    /\ action'[r] = action[r]
                                    /\ ahead'[r] = ahead[r]
                                    /\ status'[r] = status[r]
    BY <1>1
  <1>5. /\ entity'[next] = ent /\ action'[next] = act /\ status'[next] = "pending"
        /\ ahead'[next] = {r \in Rows : InTable(r) /\ entity[r] = ent}
    BY <1>1
  <1>6. \A e \in ahead'[next] : Used(e)' /\ e < next
    BY <1>2, <1>5 DEF InTable
  <1>7. \A q \in Rows : \A e \in ahead'[q] : Used(e)' /\ e < q
    BY <1>2, <1>4, <1>6
  <1>8. \A r \in sent' \cup died' : Used(r)'
    BY <1>2
  <1> QED
    BY <1>2, <1>3, <1>4, <1>5, <1>7, <1>8

\* Rows that change their status, or their id to that of another read.
LEMMA TableKept ==
  ASSUME TypeOK, Table, UNCHANGED identity,
         \A r \in Rows : Used(r)' <=> Used(r),
         \A r \in Rows : entity'[r] = entity[r] \/ (entity[r] \in Reads /\ entity'[r] \in Reads),
         \A r \in sent' \cup died' : r \in Rows /\ Used(r),
         \A r \in Rows : status'[r] = "dead_letter" => r \in died'
  PROVE  Table'
  <1>1. \A r \in Rows : Used(r)' =>
          /\ entity'[r] \in Entities
          /\ action'[r] \in Upserts => entity'[r] \in Reads
          /\ action'[r] \in {"set", "unset"} => entity'[r] \in Targets
    BY QueueAssumption DEF Table, Entities, Reads
  <1> QED
    BY <1>1 DEF Table, TypeOK, RowsOK

\* Steps that leave the table and the requests made alone.
LEMMA TableSame ==
  ASSUME Table, UNCHANGED <<status, entity, identity, sent, died>>
  PROVE  Table'
  BY DEF Table, Used

\* A call of flush starts one only when none is running.
LEMMA CallFlushStage ==
  ASSUME Stage, TypeOK, NEW f \in BOOLEAN, CallFlush(f), UNCHANGED <<plan, flight>>,
         \A r \in Rows : Used(r) => Used(r)'
  PROVE  /\ \A r \in todo' : Used(r)'
         /\ cur' # 0 <=> pc' \in {"reread", "send", "answer"}
         /\ pc' = "answer" <=> net' # None
         /\ pc' \in {"idle", "reset", "select"} => todo' = {}
  BY DEF CallFlush, Stage, TypeOK, FlushOK

LEMMA RekeyedReads ==
  ASSUME TypeOK, NEW from \in Reads, NEW to \in ServerIds
  PROVE  \A r \in Rows : \/ Rekeyed(from, to)[r] = entity[r]
                         \/ entity[r] \in Reads /\ Rekeyed(from, to)[r] \in Reads
  BY DEF Rekeyed, Reads

LEMMA ControlStep ==
  ASSUME IInv, [Next]_vars
  PROVE  Control'
  <1> USE DEF IInv, Control
  <1>1. ASSUME NEW act \in ReadActions, NEW ent \in Reads, Enqueue(act, ent)
        PROVE  Control'
    <2>1. Table'
      BY <1>1, InsertTable DEF Enqueue, Actions, ReadActions, Upserts, Entities
    <2>2. \A r \in Rows : Used(r) => Used(r)'
      BY <1>1 DEF Enqueue, Insert, Used, TypeOK, RowsOK
    <2>3. Stage'
      BY <1>1, <2>2, CallFlushStage DEF Enqueue, Stage, TypeOK, DeviceOK, NoTap
    <2> QED
      BY <2>1, <2>3
  <1>2. ASSUME NEW t \in Targets, NEW want \in BOOLEAN, EnqueueDesiredState(t, want)
        PROVE  Control'
    <2>1. Table'
      BY <1>2, TableSame DEF EnqueueDesiredState
    <2>2. tap'.target \in Targets /\ (tap.found # 0 => Used(tap.found))'
      <3>1. PICK w \in Rows \cup {0} :
              /\ w = 0 \/ w \in Pending
              /\ tap' = [target |-> t, want |-> want, found |-> w]
        BY <1>2 DEF EnqueueDesiredState, IsLast, Rows
      <3>2. w \in Pending => Used(w) /\ Used(w)'
        BY <1>2 DEF EnqueueDesiredState, Pending, Used
      <3> QED
        BY <3>1, <3>2 DEF Rows
    <2>3. Stage'
      BY <1>2, <2>2 DEF EnqueueDesiredState, Stage, Used
    <2> QED
      BY <2>1, <2>3
  <1>3. ASSUME NEW r \in Rows, RetryDeadLetter(r) PROVE Control'
    <2>1. \A q \in Rows : Used(q)' <=> Used(q)
      BY <1>3 DEF RetryDeadLetter, Used, Live, TypeOK, RowsOK
    <2>2. Table'
      BY <1>3, <2>1, TableKept DEF RetryDeadLetter, TypeOK, RowsOK, HistoryOK, Table
    <2>3. spent'["setBacks"] = spent["setBacks"]
      BY <1>3 DEF RetryDeadLetter, Spend, TypeOK, DeviceOK, Budgets
    <2>4. Stage'
      BY <1>3, <2>1, <2>3, CallFlushStage DEF RetryDeadLetter, Stage, TypeOK, DeviceOK
    <2> QED
      BY <2>2, <2>4
  <1>4. ASSUME NEW r \in Rows, DismissDeadLetter(r) PROVE Control'
    <2>1. \A q \in Rows : Used(q)' <=> Used(q)
      BY <1>4 DEF DismissDeadLetter, Used, TypeOK, RowsOK
    <2>2. Table'
      BY <1>4, <2>1, TableKept DEF DismissDeadLetter, TypeOK, RowsOK, HistoryOK, Table
    <2>3. Stage'
      BY <1>4, <2>1 DEF DismissDeadLetter, Stage, TypeOK, FlushOK, DeviceOK
    <2> QED
      BY <2>2, <2>3
  <1>5. CASE Coalesce
    <2>1. /\ tap.target \in Targets /\ tap.found \in Rows \cup {0}
          /\ tap.found # 0 => Used(tap.found)
      BY <1>5 DEF Coalesce, Stage, TypeOK, DeviceOK
    <2>2. Table' /\ \A r \in Rows : Used(r) => Used(r)'
      <3>1. CASE UNCHANGED <<status, entity, identity>>
        BY <1>5, <3>1, TableSame DEF Coalesce, Used
      <3>2. CASE /\ tap.found # 0
                 /\ status' = [status EXCEPT ![tap.found] = "gone"]
                 /\ UNCHANGED <<entity, identity>>
        <4>1. \A q \in Rows : Used(q)' <=> Used(q)
          BY <2>1, <3>2 DEF Used, TypeOK, RowsOK
        <4> QED
          BY <1>5, <3>2, <4>1, TableKept DEF Coalesce, TypeOK, RowsOK, HistoryOK, Table
      <3>3. CASE Insert(ActionFor(tap.want), tap.target)
        <4>1. /\ ActionFor(tap.want) \in Actions /\ tap.target \in Entities
              /\ ActionFor(tap.want) \notin Upserts
          BY <2>1 DEF ActionFor, Actions, Upserts, Entities
        <4>2. Table'
          BY <1>5, <2>1, <3>3, <4>1, InsertTable DEF Coalesce
        <4> QED
          BY <3>3, <4>2 DEF Insert, Used, TypeOK, RowsOK
      <3> QED
        BY <1>5, <3>1, <3>2, <3>3 DEF Coalesce
    <2>3. Stage'
      BY <1>5, <2>2, CallFlushStage DEF Coalesce, Stage, NoTap
    <2> QED
      BY <2>2, <2>3
  <1>6. CASE Foreground \/ TimerTick \/ Reconnect
    <2>1. /\ CallFlush(FALSE) \/ CallFlush(TRUE)
          /\ UNCHANGED resting
          /\ UNCHANGED spent \/ Spend("forces")
      BY <1>6 DEF Foreground, TimerTick, Reconnect
    <2>2. spent'["setBacks"] = spent["setBacks"]
      BY <2>1 DEF Spend, TypeOK, DeviceOK, Budgets
    <2>3. Table' /\ \A r \in Rows : Used(r)' <=> Used(r)
      BY <2>1, TableSame DEF Used
    <2>4. Stage'
      BY <2>1, <2>2, <2>3, CallFlushStage DEF Stage, TypeOK, DeviceOK
    <2> QED
      BY <2>3, <2>4
  <1>7. ASSUME NEW r \in Rows, BackoffElapses(r) PROVE Control'
    BY <1>7, TableSame DEF BackoffElapses, Stage, Used
  <1>8. CASE ClockSetBack
    <2>1. clock \in Nat /\ spent["setBacks"] \in Nat
      BY QueueAssumption DEF TypeOK, DeviceOK, Budgets
    <2>2. spent'["setBacks"] = spent["setBacks"] + 1 /\ clock' = clock - 1
      BY <1>8 DEF ClockSetBack, Spend, TypeOK, DeviceOK, Budgets
    <2>3. clock' + spent'["setBacks"] = MaxSetBacks
      BY <2>1, <2>2, QueueAssumption DEF Stage
    <2> QED
      BY <1>8, <2>3, TableSame DEF ClockSetBack, Stage, Used
  <1>9. CASE Crash
    <2>1. spent'["setBacks"] = spent["setBacks"]
      BY <1>9 DEF Crash, Spend, TypeOK, DeviceOK, Budgets
    <2> QED
      BY <1>9, <2>1, TableSame DEF Crash, Stage, NoTap, Used
  <1>10. CASE FlushSelect
    <2>2. Table'
      BY <1>10, TableSame DEF FlushSelect
    <2>3. \A r \in todo' : Used(r)'
      BY <1>10 DEF FlushSelect, Eligible, Ready, Used
    <2>4. Stage'
      BY <1>10, <2>3 DEF FlushSelect, Stage, Used
    <2> QED
      BY <2>2, <2>4
  <1>11. CASE Claim
    <2>1. PICK r \in todo : Claim!(r)
      BY <1>11 DEF Claim
    <2>2. \A q \in Rows : Used(q)' <=> Used(q)
      BY <2>1 DEF Used, TypeOK, RowsOK, FlushOK
    <2>3. Table'
      BY <2>1, <2>2, TableKept DEF TypeOK, RowsOK, HistoryOK, FlushOK, Table
    <2>4. r \in Rows /\ r # 0
      BY DEF TypeOK, FlushOK, Rows
    <2>5. Stage'
      BY <2>1, <2>2, <2>4 DEF Stage, TypeOK, FlushOK, DeviceOK
    <2> QED
      BY <2>3, <2>5
  <1>12. CASE ReRead
    <2>1. \A r \in Rows : entity'[r] = entity[r] \/ (entity[r] \in Reads /\ entity'[r] \in Reads)
      BY <1>12, RekeyedReads DEF ReRead, Remapped, TypeOK, DeviceOK
    <2>2. Table'
      BY <1>12, <2>1, TableKept DEF ReRead, Table, TypeOK, HistoryOK, Used
    <2>3. Stage'
      BY <1>12 DEF ReRead, Stage, Used
    <2> QED
      BY <2>2, <2>3
  <1>13. CASE Send
    <2>1. cur \in Rows /\ Used(cur) /\ net' # None /\ pc' = "answer"
      BY <1>13 DEF Send, Claimed, Running, Stage, TypeOK, FlushOK, Failures, None
    <2>2. spent'["setBacks"] = spent["setBacks"]
      BY <1>13 DEF Send, Spend, TypeOK, DeviceOK, Budgets
    <2>3. Table'
      BY <1>13, <2>1, TableKept DEF Send, Table, TypeOK, HistoryOK, Used
    <2>4. Stage'
      BY <1>13, <2>1, <2>2 DEF Send, Stage, Used
    <2> QED
      BY <2>3, <2>4
  <1>14. CASE MarkSuccess \/ MarkFound \/ Wait \/ Throttle \/ Refuse \/ MarkFailure
    <2>1. /\ \E left \in SUBSET todo : Answered(left)
          /\ cur \in Rows /\ status[cur] # "dead_letter" /\ Used(cur)
      BY <1>14 DEF MarkSuccess, MarkFound, Wait, Throttle, Refuse, MarkFailure, Answered,
         OtherLines, Stage, Claimed, Running, TypeOK, FlushOK
    <2>2. \A r \in Rows : Used(r)' <=> Used(r)
      BY <1>14, <2>1 DEF MarkSuccess, MarkFound, Wait, Throttle, Refuse, MarkFailure, Keep,
         DeadLetter, Used, TypeOK, RowsOK
    <2>3. \A r \in Rows : entity'[r] = entity[r] \/ (entity[r] \in Reads /\ entity'[r] \in Reads)
      BY <1>14, <2>1, RekeyedReads DEF MarkSuccess, MarkFound, Wait, Throttle, Refuse, MarkFailure, Table
    <2>4. /\ \A r \in died' : r \in Rows /\ Used(r)
          /\ \A r \in Rows : status'[r] = "dead_letter" => r \in died'
      BY <1>14, <2>1 DEF MarkSuccess, MarkFound, Wait, Throttle, Refuse, MarkFailure, Keep,
         DeadLetter, Table, TypeOK, RowsOK, HistoryOK
    <2>5. Table'
      BY <2>1, <2>2, <2>3, <2>4, TableKept DEF Answered, Table, TypeOK, HistoryOK
    <2>6. Stage'
      BY <2>1, <2>2 DEF Answered, Stage, TypeOK, FlushOK, DeviceOK
    <2> QED
      BY <2>5, <2>6
  <1>15. CASE FlushEnd
    BY <1>15, TableSame DEF FlushEnd, AfterFlush, Stage, Used
  <1>16. CASE UNCHANGED vars
    BY <1>16, TableSame DEF vars, Stage, Used
  <1>17. CASE FlushReset
    <2>1. \A r \in Rows : Used(r)' <=> Used(r)
      BY <1>17 DEF FlushReset, Recovered, Live, Used, TypeOK, RowsOK
    <2>2. Table'
      BY <1>17, <2>1, TableKept DEF FlushReset, Recovered, Live, TypeOK, RowsOK, HistoryOK, Table
    <2>3. Stage'
      BY <1>17, <2>1 DEF FlushReset, Stage, TypeOK, FlushOK, DeviceOK
    <2> QED
      BY <2>2, <2>3
  <1> QED
    BY <1>1, <1>2, <1>3, <1>4, <1>5, <1>6, <1>7, <1>8, <1>9, <1>10, <1>11,
       <1>12, <1>13, <1>14, <1>15, <1>16, <1>17 DEF Next, UserStep, Environment, FlushStep

-----------------------------------------------------------------------------
(* The claim *)

LEMMA ClaimedStep ==
  ASSUME IInv, [Next]_vars
  PROVE  Claimed'
  <1> USE DEF IInv, Control
  <1>1. ASSUME NEW act \in ReadActions, NEW ent \in Reads, Enqueue(act, ent)
        PROVE  Claimed'
    <2>1. pc' \in Running => pc' = pc
      BY <1>1 DEF Enqueue, CallFlush, Running
    <2>2. next \in Rows /\ ~Used(next) /\ status' = [status EXCEPT ![next] = "pending"]
      BY <1>1, QueueAssumption DEF Enqueue, Insert, Table, Used, TypeOK, RowsOK, Rows
    <2> QED
      BY <1>1, <2>1, <2>2 DEF Enqueue, Claimed, Used, TypeOK, RowsOK, FlushOK
  <1>2. ASSUME NEW t \in Targets, NEW want \in BOOLEAN, EnqueueDesiredState(t, want)
        PROVE  Claimed'
    BY <1>2 DEF EnqueueDesiredState, Claimed, Used
  <1>3. ASSUME NEW r \in Rows, RetryDeadLetter(r) PROVE Claimed'
    <2>1. pc' \in Running => pc' = pc
      BY <1>3 DEF RetryDeadLetter, CallFlush, Running
    <2>2. r \in died
      BY <1>3 DEF RetryDeadLetter, Table
    <2> QED
      BY <1>3, <2>1, <2>2 DEF RetryDeadLetter, Claimed, Used, TypeOK, RowsOK, FlushOK
  <1>4. ASSUME NEW r \in Rows, DismissDeadLetter(r) PROVE Claimed'
    BY <1>4 DEF DismissDeadLetter, Claimed, Used, TypeOK, RowsOK, FlushOK
  <1>5. CASE Coalesce
    <2>1. pc' \in Running => pc' = pc
      BY <1>5 DEF Coalesce, CallFlush, Running
    <2>2. UNCHANGED <<cur, todo, key, line, died>>
      BY <1>5 DEF Coalesce
    <2>3. CASE UNCHANGED status
      BY <2>1, <2>2, <2>3 DEF Claimed, Used
    <2>4. CASE /\ Cancellable(tap.found)
               /\ status' = [status EXCEPT ![tap.found] = "gone"]
      BY <2>1, <2>2, <2>4 DEF Claimed, Cancellable, Used, TypeOK, RowsOK, FlushOK
    <2>5. CASE Insert(ActionFor(tap.want), tap.target)
      <3>1. next \in Rows /\ ~Used(next) /\ status' = [status EXCEPT ![next] = "pending"]
        BY <2>5, QueueAssumption DEF Insert, Table, Used, TypeOK, RowsOK, Rows
      <3> QED
        BY <2>1, <2>2, <3>1 DEF Claimed, Used, TypeOK, RowsOK, FlushOK
    <2> QED
      BY <1>5, <2>3, <2>4, <2>5 DEF Coalesce
  <1>6. CASE Foreground \/ TimerTick \/ Reconnect
    <2>1. pc' \in Running => pc' = pc
      BY <1>6 DEF Foreground, TimerTick, Reconnect, CallFlush, Running
    <2>2. UNCHANGED <<status, cur, died, todo, key, line>>
      BY <1>6 DEF Foreground, TimerTick, Reconnect
    <2> QED
      BY <2>1, <2>2 DEF Claimed, Used
  <1>7. CASE \/ \E r \in Rows : BackoffElapses(r)
             \/ ClockSetBack \/ UNCHANGED vars
    BY <1>7 DEF BackoffElapses, ClockSetBack, vars, Claimed, Used
  <1>8. CASE Crash \/ FlushEnd
    BY <1>8 DEF Crash, FlushEnd, AfterFlush, Claimed, Running
  <1>9. CASE FlushReset \/ FlushSelect
    <2>1. cur = 0 /\ cur' = 0
      BY <1>9 DEF FlushReset, FlushSelect, Stage
    <2>2. \A r \in Rows : status'[r] = "processing" => FlushSelect /\ status[r] = "processing"
      BY <1>9 DEF FlushReset, FlushSelect, Recovered, Live, TypeOK, RowsOK
    <2> QED
      BY <2>1, <2>2 DEF Claimed, FlushSelect, Running
  <1>10. CASE Claim
    <2>1. PICK r \in todo : Claim!(r)
      BY <1>10 DEF Claim
    <2>2. cur = 0 /\ r \in Rows /\ r # 0
      BY <2>1 DEF Stage, TypeOK, FlushOK, Rows
    <2>3. \A q \in Rows : status[q] # "processing"
      BY <2>1, <2>2 DEF Claimed, Running, Rows
    <2>4. CASE cur' = r
      <3>1. status' = [status EXCEPT ![r] = "processing"] /\ key' = key /\ line' = key[r] /\ todo' = todo \ {r}
        BY <2>1, <2>2, <2>4
      <3> QED
        BY <2>2, <2>3, <2>4, <3>1 DEF Claimed, Used, TypeOK, RowsOK
    <2>5. CASE cur' # r
      BY <2>1, <2>2, <2>3, <2>5 DEF Claimed
    <2> QED
      BY <2>4, <2>5
  <1>11. CASE ReRead \/ Send
    BY <1>11 DEF ReRead, Send, Claimed, Running, Used, TypeOK, FlushOK
  <1>12. CASE MarkSuccess \/ MarkFound \/ Wait \/ Throttle \/ Refuse \/ MarkFailure
    <2>1. cur' = 0 /\ pc = "answer"
      BY <1>12 DEF MarkSuccess, MarkFound, Wait, Throttle, Refuse, MarkFailure, Answered
    <2>2. cur \in Rows /\ \A r \in Rows \ {cur} : status[r] # "processing"
      BY <2>1 DEF Claimed, Running, Stage, TypeOK, FlushOK
    <2>3. /\ status'[cur] # "processing"
          /\ \A r \in Rows \ {cur} : status'[r] = status[r]
      BY <1>12, <2>2 DEF MarkSuccess, MarkFound, Wait, Throttle, Refuse, MarkFailure,
         DeadLetter, Keep, TypeOK, RowsOK
    <2> QED
      BY <2>1, <2>2, <2>3 DEF Claimed
  <1> QED
    BY <1>1, <1>2, <1>3, <1>4, <1>5, <1>6, <1>7, <1>8, <1>9, <1>10, <1>11,
       <1>12 DEF Next, UserStep, Environment, FlushStep

-----------------------------------------------------------------------------
(* The order *)

\* A row of the table stays as it was queued, and a new one takes a new rowid.
LEMMA NewRow ==
  ASSUME TypeOK, Table, NEW act, NEW ent, Insert(act, ent)
  PROVE  /\ next \in Rows /\ ~Used(next)
         /\ \A r \in Rows \ {next} : /\ status'[r] = status[r]
                                     /\ entity'[r] = entity[r]
                                     /\ ahead'[r] = ahead[r]
                                     /\ born'[r] = born[r]
         /\ entity'[next] = ent
         /\ ahead'[next] = {r \in Rows : InTable(r) /\ entity[r] = ent}
  <1>1. next \in Rows /\ ~Used(next)
    BY QueueAssumption DEF Insert, TypeOK, RowsOK, Table, Rows
  <1> QED
    BY <1>1 DEF Insert, TypeOK, RowsOK

\* Steps other than an INSERT: no row comes back, or gets out of its read.
LEMMA RowsStay ==
  ASSUME IInv, [Next]_vars, UNCHANGED next
  PROVE  /\ UNCHANGED identity
         /\ \A r \in Rows : InTable(r)' => InTable(r)
         /\ \A r \in Rows : Live(r)' /\ r \notin died' => Live(r) /\ r \notin died
         /\ \/ UNCHANGED entity
            \/ \E from \in Reads, to \in ServerIds : entity' = Rekeyed(from, to)
  <1> USE DEF IInv, Control
  <1>1. ASSUME NEW act, NEW ent, Insert(act, ent) PROVE FALSE
    BY <1>1 DEF Insert, TypeOK, RowsOK
  <1>2. CASE UserStep
    <2>1. CASE \E t \in Targets, want \in BOOLEAN : EnqueueDesiredState(t, want)
      BY <2>1 DEF EnqueueDesiredState, InTable, Live
    <2>2. ASSUME NEW r \in Rows, RetryDeadLetter(r)
          PROVE  /\ UNCHANGED <<identity, entity, died>> /\ r \in died
                 /\ \A q \in Rows : InTable(q)' => InTable(q)
                 /\ \A q \in Rows \ {r} : Live(q)' => Live(q)
      BY <2>2 DEF RetryDeadLetter, InTable, Live, Table, TypeOK, RowsOK
    <2>3. ASSUME NEW r \in Rows, DismissDeadLetter(r)
          PROVE  /\ UNCHANGED <<identity, entity, died>>
                 /\ \A q \in Rows : InTable(q)' => InTable(q)
                 /\ \A q \in Rows : Live(q)' => Live(q)
      BY <2>3 DEF DismissDeadLetter, InTable, Live, TypeOK, RowsOK
    <2> QED
      BY <1>1, <1>2, <2>1, <2>2, <2>3 DEF UserStep, Enqueue
  <1>3. CASE Coalesce
    BY <1>1, <1>3 DEF Coalesce, InTable, Live, TypeOK, RowsOK, DeviceOK
  <1>4. CASE Environment \/ UNCHANGED vars
    BY <1>4 DEF Environment, Foreground, TimerTick, Reconnect, ClockSetBack,
       BackoffElapses, Crash, InTable, Live, vars
  <1>5. CASE FlushReset \/ FlushSelect \/ Claim
    BY <1>5 DEF FlushReset, FlushSelect, Claim, Recovered, InTable, Live, TypeOK, RowsOK, FlushOK
  <1>6. CASE ReRead
    BY <1>6 DEF ReRead, Remapped, InTable, Live, TypeOK, DeviceOK
  <1>7. CASE Send \/ FlushEnd
    BY <1>7 DEF Send, FlushEnd, InTable, Live
  <1>8. CASE MarkSuccess \/ MarkFound \/ Wait \/ Throttle \/ Refuse \/ MarkFailure
    <2>1. /\ pc = "answer" /\ UNCHANGED identity /\ cur \in Rows
          /\ status[cur] = "processing" \/ cur \in died
          /\ status[cur] # "dead_letter" /\ Used(cur)
      BY <1>8 DEF MarkSuccess, MarkFound, Wait, Throttle, Refuse, MarkFailure, Answered,
         Claimed, Running, Stage, TypeOK, FlushOK
    <2>2. CASE MarkSuccess \/ MarkFound
      BY <2>1, <2>2 DEF MarkSuccess, MarkFound, InTable, Live, Table, TypeOK, RowsOK
    <2>3. CASE Wait \/ Throttle \/ Refuse \/ MarkFailure
      BY <2>1, <2>3 DEF Wait, Throttle, Refuse, MarkFailure, DeadLetter, Keep,
         InTable, Live, Used, TypeOK, RowsOK
    <2> QED
      BY <1>8, <2>2, <2>3
  <1> QED
    BY <1>2, <1>3, <1>4, <1>5, <1>6, <1>7, <1>8 DEF Next, FlushStep

LEMMA InsertOrStay ==
  ASSUME IInv, [Next]_vars
  PROVE  \/ UNCHANGED next
         \/ \E act \in Actions, ent \in Entities : Insert(act, ent) /\ UNCHANGED <<died, sent, todo, cur, key>>
  BY DEF Next, UserStep, Environment, FlushStep, Enqueue, EnqueueDesiredState,
     RetryDeadLetter, DismissDeadLetter, Coalesce, Foreground, TimerTick,
     Reconnect, BackoffElapses, ClockSetBack, Crash, FlushReset, FlushSelect, Claim, ReRead,
     Send, MarkSuccess, MarkFound, Wait, Throttle, Refuse, MarkFailure, FlushEnd, Answered,
     vars, IInv, Control, Stage, Actions, ActionFor, Entities

LEMMA LinesStep ==
  ASSUME IInv, [Next]_vars
  PROVE  Lines'
  <1> USE DEF IInv, Control
  <1>1. ASSUME NEW act \in Actions, NEW ent \in Entities, Insert(act, ent)
        PROVE  Lines'
    <2>1. \A q \in Rows : \A e \in ahead'[q] : e # next
      BY <1>1, NewRow DEF Table, InTable, Used
    <2>2. \A r \in Rows \ {next} : InTable(r)' <=> InTable(r)
      BY <1>1, NewRow DEF InTable
    <2>3. \A q \in Rows : ahead'[q] \subseteq Rows
      BY <1>1, NewRow DEF TypeOK, RowsOK
    <2> QED
      BY <1>1, <2>1, <2>2, <2>3, NewRow DEF Lines
  <1>2. CASE UNCHANGED next
    <2>1. CASE UNCHANGED entity
      BY <1>2, <2>1, RowsStay DEF Lines, TypeOK, RowsOK
    <2>2. ASSUME NEW from \in Reads, NEW to \in ServerIds, entity' = Rekeyed(from, to)
          PROVE  Lines'
      BY <1>2, <2>2, RowsStay DEF Lines, Rekeyed, TypeOK, RowsOK
    <2> QED
      BY <1>2, <2>1, <2>2, RowsStay
  <1> QED
    BY <1>1, <1>2, InsertOrStay

\* No row gets new writes to wait for once it is queued.
LEMMA WaitsShrink ==
  ASSUME IInv, [Next]_vars, NEW q \in Rows, Used(q), NEW e \in Rows, WaitsFor(q, e)'
  PROVE  WaitsFor(q, e)
  <1> USE DEF IInv, Control, WaitsFor, Follows
  <1>1. CASE UNCHANGED next
    BY <1>1, RowsStay
  <1>2. ASSUME NEW act \in Actions, NEW ent \in Entities, Insert(act, ent), UNCHANGED died
        PROVE  WaitsFor(q, e)
    <2>1. q # next /\ e # next
      BY <1>2, NewRow DEF Table
    <2> QED
      BY <1>2, <2>1, NewRow DEF Live
  <1> QED
    BY <1>1, <1>2, InsertOrStay

\* Only Send makes a request.
LEMMA SentStep ==
  ASSUME [Next]_vars
  PROVE  UNCHANGED sent \/ (Send /\ sent' = sent \cup {cur})
  <1>1. CASE UserStep \/ Coalesce
    BY <1>1 DEF UserStep, Enqueue, EnqueueDesiredState, RetryDeadLetter,
       DismissDeadLetter, Coalesce
  <1>2. CASE Environment \/ UNCHANGED vars
    BY <1>2 DEF Environment, Foreground, TimerTick, Reconnect, BackoffElapses,
       ClockSetBack, Crash, vars
  <1>3. CASE FlushStep
    BY <1>3 DEF FlushStep, FlushReset, FlushSelect, Claim, ReRead, Send, MarkSuccess, MarkFound, Wait,
       Throttle, Refuse, MarkFailure, FlushEnd, Answered
  <1> QED
    BY <1>1, <1>2, <1>3 DEF Next

LEMMA FifoStep ==
  ASSUME IInv, [Next]_vars
  PROVE  Fifo'
  <1> USE DEF IInv, Control
  <1>1. SUFFICES ASSUME NEW e \in Rows, NEW q \in Rows, WaitsFor(q, e)', q \in sent'
                 PROVE  FALSE
    BY DEF Fifo, WaitsFor, Live
  <1>2. CASE q \in sent
    <2>1. WaitsFor(q, e)
      BY <1>1, <1>2, WaitsShrink DEF Table
    <2> QED
      BY <1>2, <2>1 DEF Fifo, WaitsFor, Live
  <1>3. CASE q \notin sent
    <2>1. Send /\ q = cur
      BY <1>1, <1>3, SentStep
    <2>2. cur # 0 /\ Used(cur)
      BY <2>1 DEF Send, Stage, Claimed, Running
    <2>3. WaitsFor(cur, e)
      BY <1>1, <2>1, <2>2, WaitsShrink
    <2> QED
      BY <2>2, <2>3 DEF Plan
  <1> QED
    BY <1>2, <1>3

\* Steps that leave the plan alone.
LEMMA PlanKept ==
  ASSUME IInv, [Next]_vars, todo' \subseteq todo, UNCHANGED <<cur, key>>,
         todo' = todo \/ todo' = {}
  PROVE  Plan'
  <1>1. \A q \in todo' : q \in Rows /\ Used(q)
    BY DEF IInv, Control, Stage, TypeOK, FlushOK
  <1>2. cur # 0 => cur \in Rows /\ Used(cur)
    BY DEF IInv, Control, Stage, Claimed, Running, TypeOK, FlushOK
  <1>3. \A e \in Rows, q \in todo' : WaitsFor(q, e)' => e \in todo' \cup {cur'} /\ key'[e] = key'[q]
    BY <1>1, WaitsShrink DEF IInv, Plan
  <1>4. cur' # 0 => \A e \in Rows : ~WaitsFor(cur, e)'
    BY <1>2, WaitsShrink DEF IInv, Plan
  <1> QED
    BY <1>3, <1>4 DEF Plan

\* The SELECT takes a row together with everything it waits for.
LEMMA PlanSelect ==
  ASSUME IInv, FlushSelect
  PROVE  Plan'
  <1> USE DEF IInv, Control
  <1>1. cur' = 0
    BY DEF FlushSelect, Stage
  <1>2. SUFFICES ASSUME NEW e \in Rows, NEW q \in todo', WaitsFor(q, e)'
                 PROVE  e \in todo' /\ key'[e] = key'[q]
    BY <1>1 DEF Plan
  <1>3. q \in Rows /\ Eligible(q) /\ Live(q)
    BY <1>2 DEF FlushSelect, Eligible, Ready, Live
  <1>4. [Next]_vars
    BY DEF Next, FlushStep
  <1>5. WaitsFor(q, e) /\ Used(q)
    BY <1>2, <1>3, <1>4, WaitsShrink DEF Live, Used
  <1>6. e \in Pending /\ entity[e] = entity[q]
    <2>1. Live(e) /\ entity[e] = entity[q]
      BY <1>3, <1>5 DEF WaitsFor, Follows, Lines, InTable, Live
    <2>2. status[e] # "processing"
      BY DEF FlushSelect, Stage, Claimed, Running, Rows
    <2> QED
      BY <2>1, <2>2 DEF Live, Pending
  <1>7. Before(e, q)
    <2>1. e < q /\ born[e] <= born[q]
      BY <1>3, <1>5 DEF WaitsFor, Follows, Table
    <2>2. born[e] \in Nat /\ born[q] \in Nat
      BY <1>3 DEF TypeOK, RowsOK
    <2> QED
      BY <2>1, <2>2 DEF Before
  <1>8. Ready(e)
    BY <1>3, <1>6, <1>7 DEF Eligible
  <1>9. ASSUME NEW o \in Pending, entity[o] = entity[e], Before(o, e)
        PROVE  Ready(o)
    <2>1. /\ born[o] \in Nat /\ born[e] \in Nat /\ born[q] \in Nat
          /\ o \in Nat /\ e \in Nat /\ q \in Nat
      BY <1>3 DEF TypeOK, RowsOK, Rows, Pending
    <2>2. Before(o, q)
      BY <1>7, <1>9, <2>1 DEF Before
    <2> QED
      BY <1>3, <1>6, <1>9, <2>2 DEF Eligible
  <1>10. Eligible(e)
    BY <1>8, <1>9 DEF Eligible
  <1> QED
    BY <1>3, <1>6, <1>10 DEF FlushSelect

\* The next row of the plan has nothing left to wait for.
LEMMA PlanClaim ==
  ASSUME IInv, Claim
  PROVE  Plan'
  <1> USE DEF IInv, Control
  <1>1. PICK r \in todo : Claim!(r)
    BY DEF Claim
  <1>2. /\ cur = 0 /\ r \in Rows /\ Used(r) /\ key' = key
        /\ todo' = todo \ {r} /\ cur' \in {0, r}
    BY <1>1 DEF Stage, TypeOK, FlushOK
  <1>3. [Next]_vars
    BY DEF Next, FlushStep
  <1>4. \A e \in Rows, q \in todo :
          WaitsFor(q, e)' => /\ WaitsFor(q, e) /\ e # 0
                             /\ e \in todo /\ key[e] = key[q]
    <2>1. \A q \in todo : q \in Rows /\ Used(q)
      BY DEF Stage, TypeOK, FlushOK
    <2>2. 0 \notin Rows
      BY DEF Rows
    <2> QED
      BY <1>2, <1>3, <2>1, <2>2, WaitsShrink DEF Plan
  <1>5. ASSUME NEW e \in Rows, WaitsFor(r, e)' PROVE FALSE
    <2>1. e \in todo /\ key[e] = key[r] /\ WaitsFor(r, e)
      BY <1>4, <1>5
    <2>2. e < r /\ born[e] <= born[r]
      BY <1>2, <2>1 DEF WaitsFor, Follows, Table
    <2>3. /\ born[e] \in Nat /\ born[r] \in Nat /\ e \in Nat /\ r \in Nat
      BY <1>2 DEF TypeOK, RowsOK, Rows
    <2>4. e # r /\ ~Before(r, e)
      BY <2>2, <2>3 DEF Before
    <2>5. e \in InLine <=> r \in InLine
      BY <2>1 DEF InLine
    <2> QED
      BY <1>1, <2>1, <2>4, <2>5 DEF IsNext, IsFirst, InLine
  <1>6. CASE cur' = r
    BY <1>2, <1>4, <1>5, <1>6 DEF Plan
  <1>7. CASE cur' # r
    <2>1. cur' = 0 /\ status[r] # "pending" /\ UNCHANGED <<status, died>>
      BY <1>1, <1>2, <1>7
    <2>2. ~Live(r)
      BY <1>1, <1>2, <2>1 DEF Claimed, Running, Live, Rows
    <2>3. \A q \in todo : ~WaitsFor(q, r)'
      BY <1>2, <1>4, <2>2 DEF WaitsFor
    <2> QED
      BY <1>2, <1>4, <2>1, <2>3 DEF Plan
  <1> QED
    BY <1>6, <1>7

\* After an answer, what is left of the plan does not wait for its row.
LEMMA PlanAnswered ==
  ASSUME IInv, MarkSuccess \/ MarkFound \/ Wait \/ Throttle \/ Refuse \/ MarkFailure
  PROVE  Plan'
  <1> USE DEF IInv, Control
  <1>1. /\ cur' = 0 /\ cur \in Rows /\ UNCHANGED key /\ key[cur] = line
        /\ status[cur] = "processing" \/ cur \in died
    BY DEF MarkSuccess, MarkFound, Wait, Throttle, Refuse, MarkFailure, Answered,
       Claimed, Running, Stage, TypeOK, FlushOK
  <1>2. [Next]_vars
    BY DEF Next, FlushStep
  <1>3. \A e \in Rows, q \in todo :
          WaitsFor(q, e)' => WaitsFor(q, e) /\ e \in todo \cup {cur} /\ key[e] = key[q]
    <2>1. \A q \in todo : q \in Rows /\ Used(q)
      BY DEF Stage, TypeOK, FlushOK
    <2> QED
      BY <1>2, <2>1, WaitsShrink DEF Plan
  <1>4. CASE MarkSuccess \/ MarkFound \/ Refuse
    <2>1. todo' = todo
      BY <1>4 DEF MarkSuccess, MarkFound, Refuse, Answered
    <2>2. status'[cur] = "gone" \/ cur \in died'
      BY <1>1, <1>4 DEF MarkSuccess, MarkFound, Refuse, DeadLetter, Live, TypeOK, RowsOK
    <2>3. \A e \in Rows, q \in todo : WaitsFor(q, e)' => e # cur
      BY <2>2 DEF WaitsFor, Live
    <2> QED
      BY <1>1, <1>3, <2>1, <2>3 DEF Plan
  <1>5. CASE Throttle \/ MarkFailure
    <2>1. todo' = todo \ InLine
      BY <1>5 DEF Throttle, MarkFailure, Answered, OtherLines
    <2>2. \A e \in Rows, q \in todo' : WaitsFor(q, e)' => e \in todo'
      BY <1>1, <1>3, <2>1 DEF InLine
    <2> QED
      BY <1>1, <1>3, <2>1, <2>2 DEF Plan
  <1>6. CASE Wait
    BY <1>1, <1>6 DEF Wait, Answered, Plan
  <1> QED
    BY <1>4, <1>5, <1>6

LEMMA PlanStep ==
  ASSUME IInv, [Next]_vars
  PROVE  Plan'
  <1>1. CASE UserStep \/ Coalesce \/ UNCHANGED vars
    <2>1. UNCHANGED <<todo, cur, key>>
      BY <1>1 DEF UserStep, Enqueue, EnqueueDesiredState, RetryDeadLetter,
         DismissDeadLetter, Coalesce, vars
    <2> QED
      BY <2>1, PlanKept
  <1>2. CASE Environment
    <2>1. CASE Crash
      BY <2>1 DEF Crash, Plan
    <2>2. CASE ~Crash
      <3>1. UNCHANGED <<todo, cur, key>>
        BY <1>2, <2>2 DEF Environment, Foreground, TimerTick, Reconnect,
           BackoffElapses, ClockSetBack
      <3> QED
        BY <3>1, PlanKept
    <2> QED
      BY <2>1, <2>2
  <1>3. CASE ReRead
    <2>1. CASE status[cur] # "gone"
      <3>1. UNCHANGED <<todo, cur, key>>
        BY <1>3, <2>1 DEF ReRead
      <3> QED
        BY <3>1, PlanKept
    <2>2. CASE status[cur] = "gone"
      <3>1. cur' = 0 /\ UNCHANGED <<todo, key, status>>
        BY <1>3, <2>2 DEF ReRead
      <3>2. \A q \in todo : q \in Rows /\ Used(q) /\ ~WaitsFor(q, cur)
        BY <2>2 DEF IInv, Control, Stage, TypeOK, FlushOK, WaitsFor, Live
      <3>3. \A e \in Rows, q \in todo : WaitsFor(q, e)' => e \in todo /\ key[e] = key[q]
        BY <3>2, WaitsShrink DEF IInv, Plan
      <3> QED
        BY <3>1, <3>3 DEF Plan
    <2> QED
      BY <2>1, <2>2
  <1>4. CASE Send
    BY <1>4, PlanKept DEF Send
  <1>5. CASE FlushReset \/ FlushEnd
    BY <1>5 DEF FlushReset, FlushEnd, Plan, IInv, Control, Stage
  <1> QED
    BY <1>1, <1>2, <1>3, <1>4, <1>5, PlanSelect, PlanClaim, PlanAnswered
       DEF Next, FlushStep

-----------------------------------------------------------------------------
(* Theorems *)

LEMMA IInvInit == Init => IInv
  <1> SUFFICES ASSUME Init PROVE IInv
    OBVIOUS
  <1>1. Claimed /\ Lines /\ Plan /\ Fifo
    BY DEF Init, Claimed, Running, Lines, Plan, Fifo, InTable, Live, Follows
  <1> QED
    BY <1>1, TypeInit, ControlInit DEF IInv

LEMMA IInvStep == IInv /\ [Next]_vars => IInv'
  BY TypeStep, ControlStep, ClaimedStep, LinesStep, PlanStep, FifoStep DEF IInv

\* The types hold, and no row is tried again after MAX_ATTEMPTS failures
\* (markFailure), for every number of rows, reads and targets and every bound.
THEOREM TypeCorrect == Spec => []TypeOK
  <1>1. IInv => TypeOK
    BY DEF IInv
  <1> QED
    BY IInvInit, IInvStep, <1>1, PTL DEF Spec

\* Per-entity FIFO (the header of queue.ts): whatever the interleaving of
\* flushes, writes, remaps, backoffs, retries and crashes, no write is sent
\* while an earlier one of its entity, never refused, waits.
THEOREM FifoCorrect == Spec => []Fifo
  <1>1. IInv => Fifo
    BY DEF IInv
  <1> QED
    BY IInvInit, IInvStep, <1>1, PTL DEF Spec

\* While a row's request is in flight nothing else moves the row (queue.ts: "A
\* row a flush is already sending is claimed and is never cancelled"), except
\* Retry tapped again on a row that was a dead letter.
THEOREM ClaimCorrect == Spec => []ClaimHeld
  <1>1. IInv => ClaimHeld
    BY DEF IInv, Claimed, ClaimHeld, Running
  <1> QED
    BY IInvInit, IInvStep, <1>1, PTL DEF Spec

-----------------------------------------------------------------------------
(* A read created here: the writes under its local id wait for the upsert. *)

\* The rowid a decision is about is that of a write of its target.
TapRow == tap.found # 0 => entity[tap.found] = tap.target /\ tap.target \in Targets

\* The clock only goes back: no row is older than the clock's epoch.
Epoch == \A r \in Rows : Used(r) => clock <= born[r]

\* A row under a local id was queued under it.
Origins ==
  \A r \in Rows : /\ entity[r] \in Locals => origin[r] = entity[r]
                  /\ origin[r] \in Locals => Used(r)

\* The upsert that creates a read of this device was refused, or answered, or
\* a later write of the read is behind it.
UpsertOf(l, r, c) ==
  /\ origin[c] = l /\ action[c] \in Upserts
  /\ c \notin died \cup found /\ alias[l] = None =>
       Live(c) /\ entity[c] = l /\ (c = r \/ c \in ahead[r])

Creates ==
  \A r \in Rows : origin[r] \in Locals => \E c \in Rows : UpsertOf(origin[r], r, c)

\* A row is sent under a local id only when that has no alias.
Unmapped == pc = "send" /\ entity[cur] \in Locals => alias[entity[cur]] = None

Created == TapRow /\ Epoch /\ Origins /\ Creates /\ Unmapped

\* Steps other than an INSERT: a write that still counts goes on waiting, is
\* refused, is answered, or is taken back.
LEMMA RowsLeave ==
  ASSUME IInv, [Next]_vars, UNCHANGED next, NEW c \in Rows, Live(c)
  PROVE  \/ Live(c)' \/ c \in died'
         \/ (MarkSuccess \/ MarkFound) /\ c = cur
         \/ /\ Coalesce /\ c = tap.found /\ action[c] # ActionFor(tap.want)
            /\ Cancellable(c) /\ status' = [status EXCEPT ![c] = "gone"]
  <1> USE DEF IInv, Control
  <1>1. c # 0 /\ \A act, ent : ~Insert(act, ent)
    BY DEF Rows, Insert, TypeOK, RowsOK
  <1>2. CASE UserStep
    <2>1. CASE \E t \in Targets, want \in BOOLEAN : EnqueueDesiredState(t, want)
      BY <2>1 DEF EnqueueDesiredState, Live
    <2>2. ASSUME NEW r \in Rows, RetryDeadLetter(r) \/ DismissDeadLetter(r)
          PROVE  Live(c)'
      BY <2>2 DEF RetryDeadLetter, DismissDeadLetter, Live, TypeOK, RowsOK
    <2> QED
      BY <1>1, <1>2, <2>1, <2>2 DEF UserStep, Enqueue
  <1>3. CASE Coalesce
    <2>1. CASE UNCHANGED status
      BY <2>1 DEF Live
    <2>2. CASE /\ action[tap.found] # ActionFor(tap.want) /\ Cancellable(tap.found)
               /\ status' = [status EXCEPT ![tap.found] = "gone"]
      BY <1>3, <2>2 DEF Live, TypeOK, RowsOK
    <2> QED
      BY <1>1, <1>3, <2>1, <2>2 DEF Coalesce
  <1>4. CASE Environment \/ UNCHANGED vars
    BY <1>4 DEF Environment, Foreground, TimerTick, Reconnect, ClockSetBack,
       BackoffElapses, Crash, Live, vars
  <1>5. CASE FlushReset \/ FlushSelect \/ Claim
    BY <1>5 DEF FlushReset, FlushSelect, Claim, Recovered, Live, TypeOK, RowsOK, FlushOK
  <1>6. CASE ReRead \/ Send \/ FlushEnd
    BY <1>6 DEF ReRead, Send, FlushEnd, Live
  <1>7. CASE MarkSuccess \/ MarkFound
    BY <1>7 DEF MarkSuccess, MarkFound, Live, TypeOK, RowsOK
  <1>8. CASE Wait \/ Throttle \/ Refuse \/ MarkFailure
    BY <1>8 DEF Wait, Throttle, Refuse, MarkFailure, DeadLetter, Keep, Live, TypeOK, RowsOK
  <1> QED
    BY <1>2, <1>3, <1>4, <1>5, <1>6, <1>7, <1>8 DEF Next, FlushStep

\* Dead letters stay in memory; an alias stays; rows leave an id that has one.
LEMMA AliasStep ==
  ASSUME IInv, [Next]_vars
  PROVE  /\ died \subseteq died' /\ found \subseteq found' /\ doubted \subseteq doubted' /\ clock' <= clock
         /\ \A l \in Reads : alias[l] # None => alias'[l] # None
         /\ \/ UNCHANGED alias
            \/ MarkSuccess /\ action[cur] \in Upserts
         /\ UNCHANGED next =>
              \/ UNCHANGED entity
              \/ \E from \in Reads, to \in ServerIds :
                   alias'[from] # None /\ entity' = Rekeyed(from, to)
  <1> USE DEF IInv, Control
  <1>1. clock \in Nat /\ \A s \in ServerIds : s # None
    BY QueueAssumption DEF TypeOK, DeviceOK, None
  <1>2. CASE UserStep \/ Coalesce
    <2>1. UNCHANGED <<alias, clock, died, found, doubted>>
      BY <1>2 DEF UserStep, Enqueue, EnqueueDesiredState, RetryDeadLetter, DismissDeadLetter, Coalesce
    <2>2. ASSUME UNCHANGED next PROVE UNCHANGED entity
      <3>1. \A act, ent : ~Insert(act, ent)
        BY <2>2 DEF Insert, TypeOK, RowsOK
      <3> QED
        BY <1>2, <3>1 DEF UserStep, Enqueue, EnqueueDesiredState, RetryDeadLetter, DismissDeadLetter,
           Coalesce
    <2> QED
      BY <1>1, <2>1, <2>2
  <1>3. CASE Environment \/ UNCHANGED vars
    <2>1. UNCHANGED <<alias, entity, died, found>> /\ doubted \subseteq doubted'
      BY <1>3 DEF Environment, Foreground, TimerTick, Reconnect, ClockSetBack,
         BackoffElapses, Crash, vars
    <2>2. clock' = clock \/ clock' = clock - 1
      BY <1>3 DEF Environment, Foreground, TimerTick, Reconnect, ClockSetBack,
         BackoffElapses, Crash, vars
    <2> QED
      BY <1>1, <1>3, <2>1, <2>2 DEF Environment, Foreground, TimerTick, Reconnect, ClockSetBack,
         BackoffElapses, Crash, vars
  <1>4. CASE FlushReset \/ FlushSelect \/ Claim \/ Send \/ FlushEnd
    BY <1>1, <1>4 DEF FlushReset, FlushSelect, Claim, Send, FlushEnd
  <1>5. CASE ReRead
    <2>1. Remapped(entity[cur]) => entity[cur] \in Reads /\ alias[entity[cur]] \in ServerIds
      BY DEF Remapped, TypeOK, DeviceOK
    <2> QED
      BY <1>1, <1>5, <2>1 DEF ReRead, Remapped
  <1>6. CASE MarkSuccess
    <2>1. cur \in Rows /\ Used(cur)
      BY <1>6 DEF MarkSuccess, Answered, Stage, Claimed, Running, TypeOK, FlushOK
    <2>2. action[cur] \in Upserts => entity[cur] \in Reads
      BY <2>1 DEF Table
    <2>3. UNCHANGED <<clock, died, found, doubted>>
      BY <1>6 DEF MarkSuccess, Answered
    <2>4. CASE UNCHANGED <<alias, entity>>
      BY <1>1, <2>3, <2>4
    <2>5. ASSUME action[cur] \in Upserts, NEW s \in ServerIds,
                 alias' = [alias EXCEPT ![entity[cur]] = s], entity' = Rekeyed(entity[cur], s)
          PROVE  /\ \A l \in Reads : alias[l] # None => alias'[l] # None
                 /\ alias'[entity[cur]] # None
      BY <1>1, <2>2, <2>5 DEF TypeOK, DeviceOK
    <2> QED
      BY <1>1, <1>6, <2>2, <2>3, <2>4, <2>5 DEF MarkSuccess
  <1>7. CASE MarkFound \/ Wait \/ Throttle \/ Refuse \/ MarkFailure
    BY <1>1, <1>7 DEF MarkFound, Wait, Throttle, Refuse, MarkFailure, DeadLetter, Answered
  <1> QED
    BY <1>2, <1>3, <1>4, <1>5, <1>6, <1>7 DEF Next, FlushStep

LEMMA TapStep ==
  ASSUME IInv, TapRow, [Next]_vars
  PROVE  TapRow'
  <1> USE DEF IInv, Control
  <1>1. CASE UNCHANGED tap
    <2>1. CASE UNCHANGED next
      <3>1. \A r \in Rows : entity[r] \in Targets => entity'[r] = entity[r]
        BY <2>1, AliasStep, QueueAssumption DEF Rekeyed, TypeOK, RowsOK, Reads
      <3>2. tap.found \in Rows \cup {0}
        BY DEF TypeOK, DeviceOK
      <3> QED
        BY <1>1, <3>1, <3>2 DEF TapRow
    <2>2. ASSUME NEW act \in Actions, NEW ent \in Entities, Insert(act, ent) PROVE TapRow'
      <3>1. tap.found # 0 => tap.found \in Rows /\ tap.found # next
        BY <2>2, NewRow DEF Stage, TypeOK, DeviceOK
      <3> QED
        BY <1>1, <2>2, <3>1, NewRow DEF TapRow
    <2> QED
      BY <2>1, <2>2, InsertOrStay
  <1>2. ASSUME NEW t \in Targets, NEW want \in BOOLEAN, EnqueueDesiredState(t, want)
        PROVE  TapRow'
    BY <1>2 DEF EnqueueDesiredState, TapRow, IsLast
  <1>3. CASE tap' = NoTap
    BY <1>3 DEF TapRow, NoTap
  <1> QED
    BY <1>1, <1>2, <1>3 DEF Next, UserStep, Environment, FlushStep, Enqueue, RetryDeadLetter,
       DismissDeadLetter, Coalesce, Foreground, TimerTick, Reconnect, BackoffElapses,
       ClockSetBack, Crash, FlushReset, FlushSelect, Claim, ReRead, Send, MarkSuccess, MarkFound, Wait,
       Throttle, Refuse, MarkFailure, FlushEnd, Answered, vars

LEMMA EpochStep ==
  ASSUME IInv, Epoch, [Next]_vars
  PROVE  Epoch'
  <1> USE DEF IInv, Control
  <1>1. /\ clock' <= clock /\ clock \in Nat /\ clock' \in Nat
        /\ \A r \in Rows : born[r] \in Nat
    BY AliasStep, TypeStep DEF TypeOK, DeviceOK, RowsOK
  <1>2. CASE UNCHANGED next
    <2>1. UNCHANGED born /\ \A r \in Rows : Used(r)' => Used(r)
      BY <1>2, RowsStay, ControlStep DEF Table
    <2> QED
      BY <1>1, <2>1 DEF Epoch
  <1>3. ASSUME NEW act \in Actions, NEW ent \in Entities, Insert(act, ent) PROVE Epoch'
    <2>1. born'[next] = clock
      BY <1>3, NewRow DEF Insert, TypeOK, RowsOK
    <2>2. \A r \in Rows \ {next} : (Used(r)' => Used(r)) /\ born'[r] = born[r]
      BY <1>3, NewRow DEF Used
    <2> QED
      BY <1>1, <2>1, <2>2 DEF Epoch
  <1> QED
    BY <1>2, <1>3, InsertOrStay

LEMMA OriginsStep ==
  ASSUME IInv, Origins, [Next]_vars
  PROVE  Origins'
  <1> USE DEF IInv, Control
  <1>1. CASE UNCHANGED next
    <2>1. UNCHANGED origin /\ \A r \in Rows : Used(r) => Used(r)'
      BY <1>1, RowsStay, ControlStep DEF Table
    <2>2. \A r \in Rows : entity'[r] = entity[r] \/ entity'[r] \in ServerIds
      BY <1>1, RowsStay DEF Rekeyed, TypeOK, RowsOK
    <2> QED
      BY <2>1, <2>2, QueueAssumption DEF Origins
  <1>2. ASSUME NEW act \in Actions, NEW ent \in Entities, Insert(act, ent) PROVE Origins'
    <2>1. /\ origin'[next] = ent /\ status'[next] = "pending"
          /\ \A r \in Rows \ {next} : origin'[r] = origin[r]
      BY <1>2, NewRow DEF Insert, TypeOK, RowsOK
    <2> QED
      BY <1>2, <2>1, NewRow DEF Origins, Used
  <1> QED
    BY <1>1, <1>2, InsertOrStay

\* The write of a read.
LEMMA CreatesEnqueue ==
  ASSUME IInv, Created, NEW act \in ReadActions, NEW ent \in Reads, Enqueue(act, ent)
  PROVE  Creates'
  <1> USE DEF IInv, Control
  <1>1. Insert(act, ent) /\ UNCHANGED <<died, found, alias>>
    BY DEF Enqueue
  <1>2. /\ next \in Rows /\ ~Used(next)
        /\ \A r \in Rows \ {next} : /\ status'[r] = status[r] /\ entity'[r] = entity[r]
                                    /\ ahead'[r] = ahead[r] /\ origin'[r] = origin[r]
                                    /\ action'[r] = action[r]
        /\ entity'[next] = ent /\ origin'[next] = ent /\ action'[next] = act
        /\ status'[next] = "pending"
        /\ ahead'[next] = {r \in Rows : InTable(r) /\ entity[r] = ent}
    BY <1>1, NewRow DEF Insert, TypeOK, RowsOK
  <1>3. ASSUME NEW l \in Locals, NEW r \in Rows \ {next}, NEW c \in Rows, UpsertOf(l, r, c)
        PROVE  UpsertOf(l, r, c)'
    <2>1. c # next
      BY <1>2, <1>3 DEF Created, Origins, UpsertOf
    <2> QED
      BY <1>1, <1>2, <1>3, <2>1 DEF UpsertOf, Live
  <1>4. PICK n \in Rows : n = next
    BY <1>2
  <1>5. ASSUME ent \in Locals PROVE \E c \in Rows : UpsertOf(ent, n, c)'
    <2>1. CASE act \in Upserts
      <3>1. UpsertOf(ent, n, n)'
        BY <1>2, <1>4, <2>1 DEF UpsertOf, Live
      <3> QED
        BY <3>1
    <2>2. CASE act = "write"
      <3>1. PICK r \in Rows, c \in Rows : origin[r] = ent /\ UpsertOf(ent, r, c)
        BY <1>5, <2>2 DEF Enqueue, Created, Creates
      <3>2. c # next
        BY <1>2, <1>5, <3>1 DEF Created, Origins, UpsertOf
      <3>3. Live(c) /\ entity[c] = ent => c \in ahead'[n]
        BY <1>2, <1>4 DEF Live, InTable
      <3>4. UpsertOf(ent, n, c)'
        BY <1>1, <1>2, <3>1, <3>2, <3>3 DEF UpsertOf, Live
      <3> QED
        BY <3>4
    <2> QED
      BY <2>1, <2>2 DEF ReadActions
  <1>6. ASSUME NEW r \in Rows, NEW l \in Locals, origin'[r] = l
        PROVE  \E c \in Rows : UpsertOf(l, r, c)'
    <2>1. CASE r = n
      BY <1>2, <1>4, <1>5, <1>6, <2>1
    <2>2. CASE r # n
      <3>1. PICK c \in Rows : UpsertOf(l, r, c)
        BY <1>2, <1>4, <1>6, <2>2 DEF Created, Creates
      <3> QED
        BY <1>3, <1>4, <2>2, <3>1
    <2> QED
      BY <2>1, <2>2
  <1> QED
    BY <1>6 DEF Creates, UpsertOf

\* Every other step: the upsert that leaves the queue was refused, or its answer
\* named the read.
LEMMA CreatesKept ==
  ASSUME IInv, Created, [Next]_vars, UNCHANGED next
  PROVE  Creates'
  <1> USE DEF IInv, Control
  <1>1. UNCHANGED <<origin, action, ahead>>
    BY RowsStay
  <1>2. SUFFICES ASSUME NEW l \in Locals, NEW r \in Rows, NEW c \in Rows, UpsertOf(l, r, c),
                        c \notin died' \cup found', alias'[l] = None
                 PROVE  Live(c)' /\ entity'[c] = l
    <2>1. ASSUME NEW l \in Locals, NEW r \in Rows, origin'[r] = l
          PROVE  \E c \in Rows : UpsertOf(l, r, c)'
      <3>1. PICK c \in Rows : UpsertOf(l, r, c)
        BY <1>1, <2>1 DEF Created, Creates
      <3>2. c \notin died' \cup found' /\ alias'[l] = None => c \notin died \cup found /\ alias[l] = None
        BY AliasStep DEF Reads
      <3> QED
        BY <1>1, <1>2, <3>1, <3>2 DEF UpsertOf
    <2> QED
      BY <2>1 DEF Creates, UpsertOf
  <1>3. /\ c \notin died \cup found /\ alias[l] = None /\ Live(c) /\ entity[c] = l
        /\ action[c] \in Upserts /\ l \in Reads
    BY <1>2, AliasStep DEF UpsertOf, Reads
  <1>4. entity'[c] = l
    BY <1>2, <1>3, AliasStep DEF Rekeyed, TypeOK, RowsOK
  <1>5. CASE MarkSuccess /\ c = cur
    <2>1. PICK s \in ServerIds : alias' = [alias EXCEPT ![l] = s]
      BY <1>3, <1>5, QueueAssumption DEF MarkSuccess
    <2> QED
      BY <1>2, <1>3, <2>1, QueueAssumption DEF TypeOK, DeviceOK, None
  <1>6. CASE c = tap.found
    <2>1. entity[c] \in Targets
      BY <1>2, <1>6 DEF Created, TapRow, Rows
    <2> QED
      BY <1>3, <2>1, QueueAssumption DEF Reads
  <1>7. ~(MarkFound /\ c = cur)
    BY <1>2 DEF MarkFound
  <1> QED
    BY <1>2, <1>3, <1>4, <1>5, <1>6, <1>7, RowsLeave

LEMMA CreatesStep ==
  ASSUME IInv, Created, [Next]_vars
  PROVE  Creates'
  <1> USE DEF IInv, Control
  <1>1. ASSUME NEW act \in ReadActions, NEW ent \in Reads, Enqueue(act, ent)
        PROVE  Creates'
    BY <1>1, CreatesEnqueue
  <1>2. CASE Coalesce /\ ~UNCHANGED next
    <2>0. /\ Insert(ActionFor(tap.want), tap.target) /\ tap.target \in Targets
          /\ UNCHANGED <<died, found, alias>>
      BY <1>2 DEF Coalesce, Stage
    <2>1. PICK n \in Rows, t \in Targets :
            /\ n = next /\ origin'[n] = t /\ UNCHANGED <<died, found, alias>> /\ ~Used(n)
            /\ \A r \in Rows \ {n} : /\ status'[r] = status[r] /\ entity'[r] = entity[r]
                                     /\ ahead'[r] = ahead[r] /\ origin'[r] = origin[r]
                                     /\ action'[r] = action[r]
      <3>1. next \in Rows /\ ~Used(next)
        BY <2>0, NewRow
      <3>2. /\ origin'[next] = tap.target
            /\ \A r \in Rows \ {next} : /\ status'[r] = status[r] /\ entity'[r] = entity[r]
                                        /\ ahead'[r] = ahead[r] /\ origin'[r] = origin[r]
                                        /\ action'[r] = action[r]
        BY <2>0, <3>1 DEF Insert, TypeOK, RowsOK
      <3> QED
        BY <2>0, <3>1, <3>2
    <2>2. ASSUME NEW l \in Locals, NEW r \in Rows, origin'[r] = l
          PROVE  \E c \in Rows : UpsertOf(l, r, c)'
      <3>1. r # n
        BY <2>1, <2>2, QueueAssumption
      <3>2. PICK c \in Rows : UpsertOf(l, r, c)
        BY <2>1, <2>2, <3>1 DEF Created, Creates
      <3>3. c # n
        BY <2>1, <2>2, <3>2 DEF Created, Origins, UpsertOf
      <3>4. UpsertOf(l, r, c)'
        BY <2>1, <3>1, <3>2, <3>3 DEF UpsertOf, Live
      <3> QED
        BY <3>4
    <2> QED
      BY <2>2 DEF Creates, UpsertOf
  <1>3. CASE UNCHANGED next
    BY <1>3, CreatesKept
  <1> QED
    BY <1>1, <1>2, <1>3 DEF Next, UserStep, Environment, FlushStep, EnqueueDesiredState,
       RetryDeadLetter, DismissDeadLetter, Foreground, TimerTick, Reconnect, BackoffElapses,
       ClockSetBack, Crash, FlushReset, FlushSelect, Claim, ReRead, Send, MarkSuccess, MarkFound, Wait,
       Throttle, Refuse, MarkFailure, FlushEnd, Answered, vars

LEMMA UnmappedStep ==
  ASSUME IInv, Created, [Next]_vars
  PROVE  Unmapped'
  <1> USE DEF IInv, Control
  <1>1. CASE pc' = "send" /\ pc = "send"
    <2>1. ~MarkSuccess /\ ~MarkFound /\ ~ReRead /\ ~Claim
      BY <1>1 DEF MarkSuccess, MarkFound, Answered, ReRead, Claim
    <2>2. UNCHANGED cur /\ cur \in Rows /\ Used(cur)
      <3>1. cur \in Rows /\ Used(cur)
        BY <1>1 DEF Stage, Claimed, Running, TypeOK, FlushOK
      <3> QED
        BY <1>1, <2>1, <3>1 DEF Next, UserStep, Environment, FlushStep, Enqueue,
           EnqueueDesiredState, RetryDeadLetter, DismissDeadLetter, Coalesce, Foreground,
           TimerTick, Reconnect, BackoffElapses, ClockSetBack, Crash, FlushReset, FlushSelect,
           Send, Wait, Throttle, Refuse, MarkFailure, FlushEnd, Answered, vars
    <2>3. UNCHANGED alias
      BY <2>1, AliasStep
    <2>4. entity'[cur] \in Locals => entity'[cur] = entity[cur]
      <3>1. CASE UNCHANGED next
        BY <2>2, <3>1, RowsStay, QueueAssumption DEF Rekeyed, TypeOK, RowsOK
      <3>2. ASSUME NEW act \in Actions, NEW ent \in Entities, Insert(act, ent)
            PROVE  entity'[cur] = entity[cur]
        BY <2>2, <3>2, NewRow
      <3> QED
        BY <3>1, <3>2, InsertOrStay
    <2> QED
      BY <1>1, <2>2, <2>3, <2>4 DEF Created, Unmapped
  <1>2. CASE pc' = "send" /\ pc # "send"
    <2>1. ReRead /\ status[cur] # "gone" /\ cur \in Rows
      <3>1. ReRead /\ status[cur] # "gone"
        BY <1>2 DEF Next, UserStep, Environment, FlushStep, Enqueue, CallFlush, AfterFlush,
           EnqueueDesiredState, RetryDeadLetter, DismissDeadLetter, Coalesce, Foreground,
           TimerTick, Reconnect, BackoffElapses, ClockSetBack, Crash, FlushReset, FlushSelect,
           Claim, ReRead, Send, MarkSuccess, MarkFound, Wait, Throttle, Refuse, MarkFailure, FlushEnd,
           Answered, vars
      <3> QED
        BY <3>1 DEF ReRead, Stage, TypeOK, FlushOK
    <2>2. CASE Remapped(entity[cur])
      <3>1. status[cur] # "unused" /\ alias[entity[cur]] \in ServerIds
        BY <2>1, <2>2 DEF ReRead, Stage, Remapped, Claimed, Running, Used, TypeOK, DeviceOK
      <3>2. entity'[cur] = alias[entity[cur]]
        BY <2>1, <2>2, <3>1 DEF ReRead, Rekeyed, InTable
      <3> QED
        BY <2>1, <3>1, <3>2, QueueAssumption DEF ReRead, Unmapped
    <2>3. CASE ~Remapped(entity[cur])
      BY <2>1, <2>3 DEF ReRead, Remapped, Unmapped, Reads
    <2> QED
      BY <2>2, <2>3
  <1> QED
    BY <1>1, <1>2 DEF Unmapped

LEMMA CreatedStep == IInv /\ Created /\ [Next]_vars => Created'
  BY TapStep, EpochStep, OriginsStep, CreatesStep, UnmappedStep DEF Created

LEMMA CreatedInit == Init => Created
  BY QueueAssumption DEF Init, Created, TapRow, NoTap, Epoch, Used, Origins, Creates, Unmapped, None

\* The write that is sent under a local id waits for nothing, so the upsert it
\* was queued behind has left.
LEMMA CreatedMeans == IInv /\ Created => LocalIdHasNoRead
  <1> SUFFICES ASSUME IInv, Created, pc = "send", entity[cur] \in Locals,
                      action[cur] = "write", clock = MaxSetBacks
               PROVE  \E c \in died \cup found : action[c] \in Upserts /\ origin[c] = entity[cur]
    BY DEF LocalIdHasNoRead
  <1> USE DEF IInv, Control
  <1>1. cur \in Rows /\ cur # 0 /\ Used(cur) /\ status[cur] # "unused"
    BY DEF Stage, Claimed, Running, TypeOK, FlushOK, Used
  <1>2. origin[cur] = entity[cur] /\ alias[entity[cur]] = None
    BY <1>1 DEF Created, Origins, Unmapped
  <1>3. PICK c \in Rows : UpsertOf(origin[cur], cur, c)
    BY <1>1, <1>2 DEF Created, Creates
  <1>4. CASE c \in died \cup found
    BY <1>2, <1>3, <1>4 DEF UpsertOf
  <1>5. CASE c \notin died \cup found
    <2>1. Live(c) /\ c \in ahead[cur]
      BY <1>2, <1>3, <1>5 DEF UpsertOf, Upserts
    <2>2. born[c] <= born[cur]
      <3>1. Used(c)
        BY <2>1 DEF Live, Used
      <3>2. /\ clock <= born[c] /\ clock <= born[cur] /\ clock \in Nat
            /\ born[c] \in 0 .. MaxSetBacks /\ born[cur] \in 0 .. MaxSetBacks
        BY <1>1, <3>1 DEF Created, Epoch, TypeOK, RowsOK, DeviceOK
      <3> QED
        BY <3>2, QueueAssumption
    <2> QED
      BY <1>1, <1>5, <2>1, <2>2 DEF Plan, WaitsFor, Follows
  <1> QED
    BY <1>4, <1>5

\* A progress, finish, review or delete is sent under an id the server does not
\* know only when the upsert made no read, refused or answered by a 409 that
\* counts as success (queue.ts, the remap in markSuccess and processMutation),
\* whatever is queued, retried, dismissed or cut short.
THEOREM LocalIdCorrect == Spec => []LocalIdHasNoRead
  BY IInvInit, IInvStep, CreatedInit, CreatedStep, CreatedMeans, PTL DEF Spec

-----------------------------------------------------------------------------
(* Likes and follows: the waiting writes of a target take turns.           *)

WritesOf(t) == {r \in Rows : Live(r) /\ entity[r] = t}
FirstOf(t, r) == r \in WritesOf(t) /\ \A o \in WritesOf(t) : r <= o
LastOf(t, r) == r \in WritesOf(t) /\ \A o \in WritesOf(t) : o <= r
Answering(r) == net = "ok" /\ cur = r

\* What the claim of agreement excludes.
Clean(t) == t \notin doubted /\ clock = MaxSetBacks /\ \A r \in died : entity[r] # t

\* Two writes that follow one another want opposite states.
Alternate(t) ==
  \A e, q \in WritesOf(t) :
    e < q /\ (\A o \in WritesOf(t) : o <= e \/ q <= o) => action[e] # action[q]

\* The first is news to the server, until its answer is on the way; the last is
\* what the user wants.
Chain(t) ==
  /\ Alternate(t)
  /\ \A r \in Rows : FirstOf(t, r) => (action[r] = ActionFor(server[t]) <=> Answering(r))
  /\ \A r \in Rows : LastOf(t, r) => action[r] = ActionFor(wish[t])
  /\ WritesOf(t) = {} => server[t] = wish[t]

\* A tap asks for the other state, and what it found is the last write.
Tapped(t) ==
  tap.target = t => tap.want # wish[t] /\ (tap.found # 0 => LastOf(t, tap.found))

Agreed == \A t \in Targets : Clean(t) => Chain(t) /\ Tapped(t)

Kinds == \A r \in Rows : entity[r] \in Targets => Used(r) /\ action[r] \in {"set", "unset"}

\* A row was queued behind every waiting write of its target.
Behind ==
  \A e, q \in Rows :
    e < q /\ entity[e] = entity[q] /\ entity[e] \in Targets /\ Live(e) /\ e \notin died
      => e \in ahead[q]

\* A claimed row has nothing to wait for, also when its flush has died.
Front == \A q \in Rows : status[q] = "processing" => \A e \in Rows : ~WaitsFor(q, e)

\* A success was applied.
Truth == net = "ok" => cur \in applied

Toggles == Agreed /\ Kinds /\ Behind /\ Front /\ Truth

\* A write of a target stays one, and no other row becomes one.
LEMMA TargetsKept ==
  ASSUME IInv, [Next]_vars, UNCHANGED next, NEW t \in Targets, NEW r \in Rows
  PROVE  entity'[r] = t <=> entity[r] = t
  BY RowsStay, QueueAssumption DEF Rekeyed, Reads, IInv, TypeOK, RowsOK

\* An INSERT is that of a write of a read, or of a decision.
LEMMA Inserts ==
  ASSUME IInv, [Next]_vars
  PROVE  \/ UNCHANGED next
         \/ \E act \in ReadActions, ent \in Reads : Enqueue(act, ent) /\ Insert(act, ent)
         \/ Coalesce /\ Insert(ActionFor(tap.want), tap.target) /\ tap.target \in Targets
  BY DEF Next, UserStep, Environment, FlushStep, Enqueue, EnqueueDesiredState,
     RetryDeadLetter, DismissDeadLetter, Coalesce, Foreground, TimerTick,
     Reconnect, BackoffElapses, ClockSetBack, Crash, FlushReset, FlushSelect, Claim, ReRead,
     Send, MarkSuccess, MarkFound, Wait, Throttle, Refuse, MarkFailure, FlushEnd, Answered,
     vars, IInv, Control, Stage

LEMMA KindsStep ==
  ASSUME IInv, Kinds, [Next]_vars
  PROVE  Kinds'
  <1> USE DEF IInv, Control
  <1>1. CASE UNCHANGED next
    <2>1. UNCHANGED action /\ \A r \in Rows : Used(r) => Used(r)'
      BY <1>1, RowsStay, ControlStep DEF Table
    <2> QED
      BY <1>1, <2>1, TargetsKept DEF Kinds
  <1>2. ASSUME NEW act \in Actions, NEW ent \in Entities, Insert(act, ent),
               ent \in Targets => act \in {"set", "unset"}
        PROVE  Kinds'
    <2>1. /\ next \in Rows /\ entity'[next] = ent /\ action'[next] = act /\ status'[next] = "pending"
          /\ \A r \in Rows \ {next} : entity'[r] = entity[r] /\ action'[r] = action[r] /\ status'[r] = status[r]
      BY <1>2, NewRow DEF Insert, TypeOK, RowsOK
    <2> QED
      BY <1>2, <2>1 DEF Kinds, Used
  <1>3. ASSUME NEW act \in ReadActions, NEW ent \in Reads, Insert(act, ent)
        PROVE  Kinds'
    BY <1>2, <1>3, QueueAssumption DEF Actions, Entities, Reads
  <1>4. CASE Insert(ActionFor(tap.want), tap.target) /\ tap.target \in Targets
    BY <1>2, <1>4 DEF Actions, ActionFor, Entities
  <1> QED
    BY <1>1, <1>3, <1>4, Inserts

LEMMA BehindStep ==
  ASSUME IInv, Kinds, Behind, [Next]_vars
  PROVE  Behind'
  <1> USE DEF IInv, Control
  <1>1. CASE UNCHANGED next
    <2>1. UNCHANGED ahead
      BY <1>1, RowsStay
    <2>2. ASSUME NEW e \in Rows, NEW q \in Rows, e < q, entity'[e] = entity'[q],
                 entity'[e] \in Targets, Live(e)', e \notin died'
          PROVE  e \in ahead[q]
      <3>1. entity[e] = entity'[e] /\ entity[q] = entity'[e]
        BY <1>1, <2>2, TargetsKept
      <3>2. Live(e) /\ e \notin died
        BY <1>1, <2>2, RowsStay
      <3> QED
        BY <2>2, <3>1, <3>2 DEF Behind
    <2> QED
      BY <2>1, <2>2 DEF Behind
  <1>2. ASSUME NEW act \in Actions, NEW ent \in Entities, Insert(act, ent), UNCHANGED died
        PROVE  Behind'
    <2>1. PICK n \in Rows : n = next /\ ~Used(n)
      BY <1>2, NewRow
    <2>2. ASSUME NEW e \in Rows, NEW q \in Rows, e < q, entity'[e] = entity'[q],
                 entity'[e] \in Targets, Live(e)', e \notin died'
          PROVE  e \in ahead'[q]
      <3>1. CASE q = n
        <4>1. e # n /\ entity[e] = ent /\ InTable(e)
          BY <1>2, <2>1, <2>2, <3>1, NewRow DEF Live, InTable, Rows
        <4> QED
          BY <1>2, <2>1, <3>1, <4>1, NewRow
      <3>2. CASE q # n
        <4>1. entity'[q] = entity[q] /\ entity[q] \in Targets
          BY <1>2, <2>1, <2>2, <3>2, NewRow
        <4>2. q < next /\ e # n
          BY <2>1, <2>2, <3>2, <4>1 DEF Kinds, Table, TypeOK, RowsOK, Rows
        <4> QED
          BY <1>2, <2>1, <2>2, <3>2, <4>1, <4>2, NewRow DEF Behind, Live
      <3> QED
        BY <3>1, <3>2
    <2> QED
      BY <2>2 DEF Behind
  <1> QED
    BY <1>1, <1>2, InsertOrStay

\* Only the flush claims rows.
LEMMA ClaimedNow ==
  ASSUME IInv, [Next]_vars, NEW q \in Rows, status'[q] = "processing", status[q] # "processing"
  PROVE  cur' = q /\ cur' # 0
  <1> USE DEF IInv, Control
  <1>0. q # 0
    BY DEF Rows
  <1>1. ASSUME NEW act, NEW ent, Insert(act, ent) PROVE FALSE
    BY <1>1, NewRow DEF Insert, TypeOK, RowsOK
  <1>2. CASE UserStep
    BY <1>1, <1>2 DEF UserStep, Enqueue, EnqueueDesiredState, RetryDeadLetter, DismissDeadLetter,
       TypeOK, RowsOK
  <1>3. CASE Coalesce
    BY <1>1, <1>3 DEF Coalesce, TypeOK, RowsOK
  <1>4. CASE Environment \/ UNCHANGED vars
    BY <1>4 DEF Environment, Foreground, TimerTick, Reconnect, ClockSetBack,
       BackoffElapses, Crash, vars
  <1>5. CASE FlushReset \/ FlushSelect \/ Claim
    BY <1>0, <1>5 DEF FlushReset, FlushSelect, Claim, Recovered, TypeOK, RowsOK, FlushOK
  <1>6. CASE ReRead \/ Send \/ FlushEnd
    BY <1>6 DEF ReRead, Send, FlushEnd
  <1>7. CASE MarkSuccess \/ MarkFound \/ Wait \/ Throttle \/ Refuse \/ MarkFailure
    BY <1>7 DEF MarkSuccess, MarkFound, Wait, Throttle, Refuse, MarkFailure, DeadLetter, Keep, TypeOK, RowsOK
  <1> QED
    BY <1>2, <1>3, <1>4, <1>5, <1>6, <1>7 DEF Next, FlushStep

LEMMA FrontStep ==
  ASSUME IInv, Front, [Next]_vars
  PROVE  Front'
  <1>1. ASSUME NEW q \in Rows, status'[q] = "processing", NEW e \in Rows, WaitsFor(q, e)'
        PROVE  FALSE
    <2>1. CASE status[q] = "processing"
      BY <1>1, <2>1, WaitsShrink DEF Front, Used
    <2>2. CASE status[q] # "processing"
      <3>1. cur' = q /\ cur' # 0
        BY <1>1, <2>2, ClaimedNow
      <3>2. \A o \in Rows : ~WaitsFor(cur, o)'
        BY <3>1, PlanStep DEF Plan
      <3> QED
        BY <1>1, <3>1, <3>2 DEF WaitsFor, Follows, Live
    <2> QED
      BY <2>1, <2>2
  <1> QED
    BY <1>1 DEF Front

\* What becomes of the exchange.
LEMMA NetStep ==
  ASSUME IInv, [Next]_vars
  PROVE  \/ UNCHANGED <<net, cur>>
         \/ net # "ok" /\ net' # "ok"
         \/ Crash \/ Send \/ MarkSuccess
  <1> USE DEF IInv, Control
  <1>1. CASE UserStep \/ Coalesce \/ Environment \/ UNCHANGED vars
    BY <1>1 DEF UserStep, Enqueue, EnqueueDesiredState, RetryDeadLetter, DismissDeadLetter,
       Coalesce, Environment, Foreground, TimerTick, Reconnect, ClockSetBack, BackoffElapses, vars
  <1>2. CASE FlushReset \/ FlushSelect \/ FlushEnd
    BY <1>2 DEF FlushReset, FlushSelect, FlushEnd
  <1>3. CASE Claim \/ ReRead
    BY <1>3 DEF Claim, ReRead, Stage, None
  <1>4. CASE MarkFound \/ Wait \/ Throttle \/ Refuse \/ MarkFailure
    BY <1>4 DEF MarkFound, Wait, Throttle, Refuse, MarkFailure, Answered, None
  <1> QED
    BY <1>1, <1>2, <1>3, <1>4 DEF Next, FlushStep

\* A success is counted, and what was applied stays so.
LEMMA TruthStep ==
  ASSUME IInv, Truth, [Next]_vars
  PROVE  Truth'
  <1>1. CASE Send
    BY <1>1 DEF Send, ApplyAtServer, Truth, Failures
  <1>2. CASE Crash \/ MarkSuccess
    BY <1>2 DEF Crash, MarkSuccess, Answered, Truth, None
  <1>3. CASE UNCHANGED <<net, cur>> /\ ~Send
    <2>1. UNCHANGED applied
      BY <1>3 DEF Next, UserStep, Environment, FlushStep, Enqueue, EnqueueDesiredState,
         RetryDeadLetter, DismissDeadLetter, Coalesce, Foreground, TimerTick,
         Reconnect, BackoffElapses, ClockSetBack, Crash, FlushReset, FlushSelect, Claim, ReRead,
         MarkSuccess, MarkFound, Wait, Throttle, Refuse, MarkFailure, FlushEnd, Answered, vars
    <2> QED
      BY <1>3, <2>1 DEF Truth
  <1> QED
    BY <1>1, <1>2, <1>3, NetStep DEF Truth

\* A failure, a lost answer or a clock set back once is one for ever.
LEMMA CleanBefore ==
  ASSUME IInv, [Next]_vars, NEW t \in Targets, Clean(t)'
  PROVE  Clean(t)
  <1> USE DEF IInv, Control
  <1>1. clock = MaxSetBacks
    <2>1. clock \in 0 .. MaxSetBacks /\ clock' <= clock /\ clock' = MaxSetBacks
      BY AliasStep DEF TypeOK, DeviceOK, Clean
    <2> QED
      BY <2>1, QueueAssumption
  <1>2. \A r \in died : r \in Rows /\ Used(r)
    BY DEF Table, TypeOK, HistoryOK
  <1>3. \A r \in died : entity[r] = t => entity'[r] = t
    <2>1. CASE UNCHANGED next
      BY <1>2, <2>1, TargetsKept
    <2>2. ASSUME NEW act \in Actions, NEW ent \in Entities, Insert(act, ent)
          PROVE  \A r \in died : entity'[r] = entity[r]
      BY <1>2, <2>2, NewRow
    <2> QED
      BY <2>1, <2>2, InsertOrStay
  <1> QED
    BY <1>1, <1>3, AliasStep DEF Clean

\* The waiting writes of a target while nothing is inserted.
LEMMA WritesKept ==
  ASSUME IInv, TapRow, [Next]_vars, UNCHANGED next, NEW t \in Targets, Clean(t)',
         ~(MarkSuccess /\ entity[cur] = t), ~(Coalesce /\ tap.target = t)
  PROVE  WritesOf(t)' = WritesOf(t) /\ UNCHANGED action
  <1>1. ASSUME NEW r \in Rows, Live(r)', entity'[r] = t PROVE Live(r) /\ entity[r] = t
    BY <1>1, RowsStay, TargetsKept DEF Clean
  <1>2. ASSUME NEW r \in Rows, Live(r), entity[r] = t PROVE Live(r)' /\ entity'[r] = t
    <2>1. entity'[r] = t /\ r \notin died'
      BY <1>2, TargetsKept DEF Clean
    <2>2. r # 0
      BY DEF Rows
    <2>3. ~(MarkFound /\ r = cur)
      BY <1>2, QueueAssumption DEF MarkFound, IInv, Control, Table, Used, Live, Upserts, Reads
    <2> QED
      BY <1>2, <2>1, <2>2, <2>3, RowsLeave DEF TapRow
  <1> QED
    BY <1>1, <1>2, RowsStay DEF WritesOf

LEMMA WritesInsert ==
  ASSUME IInv, NEW act \in Actions, NEW ent \in Entities, Insert(act, ent), NEW t \in Targets
  PROVE  \E n \in Rows : /\ n = next /\ n \notin WritesOf(t) /\ action'[n] = act
                         /\ \A r \in WritesOf(t) : r < n /\ action'[r] = action[r]
                         /\ ent # t => WritesOf(t)' = WritesOf(t)
                         /\ ent = t => WritesOf(t)' = WritesOf(t) \cup {n}
  <1> USE DEF IInv, Control
  <1>1. PICK n \in Rows : n = next /\ ~Used(n)
    BY NewRow
  <1>2. /\ entity'[n] = ent /\ status'[n] = "pending" /\ action'[n] = act
        /\ \A r \in Rows \ {n} : entity'[r] = entity[r] /\ action'[r] = action[r] /\ status'[r] = status[r]
    BY <1>1, NewRow DEF Insert, TypeOK, RowsOK
  <1>3. n \notin WritesOf(t) /\ \A r \in WritesOf(t) : r < n
    BY <1>1 DEF WritesOf, Live, Used, Table
  <1> QED
    BY <1>1, <1>2, <1>3 DEF WritesOf, Live

\* A write that waits for nothing is the first of its target.
LEMMA Heads ==
  ASSUME IInv, Epoch, Behind, NEW t \in Targets, Clean(t), NEW q \in WritesOf(t),
         \A e \in Rows : ~WaitsFor(q, e)
  PROVE  FirstOf(t, q)
  <1> USE DEF IInv, Control
  <1>1. ASSUME NEW o \in WritesOf(t), o < q PROVE FALSE
    <2>1. /\ o \in Rows /\ q \in Rows /\ Live(o) /\ entity[o] = t /\ entity[q] = t
          /\ Used(o) /\ Used(q) /\ o \notin died
      BY <1>1 DEF WritesOf, Live, Used, Clean
    <2>2. o \in ahead[q]
      BY <1>1, <2>1 DEF Behind
    <2>3. born[o] <= born[q]
      <3>1. /\ clock = MaxSetBacks /\ clock <= born[q]
            /\ born[o] \in 0 .. MaxSetBacks /\ born[q] \in 0 .. MaxSetBacks
        BY <2>1 DEF Epoch, Clean, TypeOK, RowsOK
      <3> QED
        BY <3>1, QueueAssumption
    <2> QED
      BY <2>1, <2>2, <2>3 DEF WaitsFor, Follows
  <1> QED
    BY <1>1 DEF FirstOf, WritesOf, Rows

\* The write in flight is the first of its target.
LEMMA InFlight ==
  ASSUME IInv, Epoch, Behind, NEW t \in Targets, Clean(t), pc \in {"send", "answer"}, entity[cur] = t
  PROVE  FirstOf(t, cur) /\ cur \in WritesOf(t)
  <1> USE DEF IInv, Control
  <1>1. cur \in Rows /\ cur # 0
    BY DEF Stage, TypeOK, FlushOK, Rows
  <1>2. cur \notin died
    BY DEF Clean
  <1>3. cur \in WritesOf(t)
    BY <1>1, <1>2 DEF Claimed, Running, WritesOf, Live
  <1> QED
    BY <1>1, <1>3, Heads DEF Plan

\* Nothing about the target changes.
LEMMA Quiet ==
  ASSUME NEW t \in Targets, Chain(t), WritesOf(t)' = WritesOf(t),
         \A r \in WritesOf(t) : action'[r] = action[r] /\ (Answering(r)' <=> Answering(r)),
         server'[t] = server[t], wish'[t] = wish[t]
  PROVE  Chain(t)' /\ (\A r : LastOf(t, r) => LastOf(t, r)')
  <1>1. \A r : (FirstOf(t, r)' <=> FirstOf(t, r)) /\ (LastOf(t, r)' <=> LastOf(t, r))
    BY DEF FirstOf, LastOf
  <1>2. \A w \in BOOLEAN : ActionFor(w)' = ActionFor(w)
    BY DEF ActionFor
  <1>3. Alternate(t)'
    BY DEF Alternate, Chain
  <1>4. \A r \in Rows : FirstOf(t, r)' => (action'[r] = ActionFor(server'[t]) <=> Answering(r)')
    BY <1>1 DEF Chain, FirstOf
  <1>5. \A r \in Rows : LastOf(t, r)' => action'[r] = ActionFor(wish'[t])
    BY <1>1 DEF Chain, LastOf
  <1> QED
    BY <1>1, <1>3, <1>4, <1>5 DEF Chain, ActionFor

\* The exchange, seen by a write it is not about.
LEMMA AnsweringKept ==
  ASSUME IInv, Truth, [Next]_vars, NEW t \in Targets, Clean(t)', NEW r \in WritesOf(t),
         ~((MarkSuccess \/ Send) /\ entity[cur] = t)
  PROVE  Answering(r)' <=> Answering(r)
  <1>1. r \in Rows /\ entity[r] = t
    BY DEF WritesOf
  <1>2. CASE UNCHANGED <<net, cur>> \/ (net # "ok" /\ net' # "ok")
    BY <1>2 DEF Answering
  <1>3. CASE Crash
    <2>1. net' # "ok"
      BY <1>3 DEF Crash, None
    <2>2. net = "ok" /\ cur = r => FALSE
      BY <1>1, <1>3 DEF Crash, Truth, Clean
    <2> QED
      BY <2>1, <2>2 DEF Answering
  <1>4. CASE Send
    BY <1>1, <1>4 DEF Send, Answering
  <1>5. CASE MarkSuccess
    BY <1>1, <1>5 DEF MarkSuccess, Answered, Answering, None
  <1> QED
    BY <1>2, <1>3, <1>4, <1>5, NetStep

\* The server and the user.
LEMMA MindsKept ==
  ASSUME IInv, Kinds, [Next]_vars, NEW t \in Targets
  PROVE  /\ server'[t] = server[t] \/ (Send /\ entity[cur] = t)
         /\ wish'[t] = wish[t] \/ (Coalesce /\ tap.target = t)
  <1>1. CASE Send
    <2>1. UNCHANGED wish
      BY <1>1 DEF Send
    <2>2. server' = server \/ server' = [server EXCEPT ![entity[cur]] = (action[cur] = "set")]
      BY <1>1 DEF Send, ApplyAtServer
    <2>3. server'[t] = server[t] \/ entity[cur] = t
      BY <2>2 DEF IInv, TypeOK, DeviceOK
    <2> QED
      BY <1>1, <2>1, <2>3
  <1>2. CASE Coalesce
    <2>1. UNCHANGED server /\ wish' = [wish EXCEPT ![tap.target] = tap.want]
      BY <1>2 DEF Coalesce
    <2>2. wish'[t] = wish[t] \/ tap.target = t
      BY <2>1 DEF IInv, TypeOK, DeviceOK
    <2> QED
      BY <1>2, <2>1, <2>2
  <1>3. CASE ~Send /\ ~Coalesce
    <2>1. UNCHANGED <<server, wish>>
      BY <1>3 DEF Next, UserStep, Environment, FlushStep, Enqueue, EnqueueDesiredState,
         RetryDeadLetter, DismissDeadLetter, Foreground, TimerTick,
         Reconnect, BackoffElapses, ClockSetBack, Crash, FlushReset, FlushSelect, Claim, ReRead,
         MarkSuccess, MarkFound, Wait, Throttle, Refuse, MarkFailure, FlushEnd, Answered, vars
    <2> QED
      BY <2>1
  <1> QED
    BY <1>1, <1>2, <1>3

\* Tapped(t), by the steps that are no decision on t.
LEMMA TappedStep ==
  ASSUME IInv, Created, Toggles, [Next]_vars, NEW t \in Targets, Clean(t), Tapped(t),
         wish'[t] = wish[t], tap # NoTap => \A r : LastOf(t, r) => LastOf(t, r)'
  PROVE  Tapped(t)'
  <1> USE DEF IInv, Control
  <1>1. CASE UNCHANGED tap
    <2>1. tap = NoTap => tap.target # t
      BY QueueAssumption DEF NoTap, None
    <2> QED
      BY <1>1, <2>1 DEF Tapped
  <1>2. ASSUME NEW u \in Targets, NEW want \in BOOLEAN, EnqueueDesiredState(u, want)
        PROVE  Tapped(t)'
    <2>1. UNCHANGED <<status, entity, wish>>
      BY <1>2 DEF EnqueueDesiredState
    <2>2. PICK w \in Rows \cup {0} :
            /\ IF {r \in Pending : entity[r] = u} = {} THEN w = 0
               ELSE IsLast(w, {r \in Pending : entity[r] = u})
            /\ tap' = [target |-> u, want |-> want, found |-> w]
      BY <1>2 DEF EnqueueDesiredState
    <2>3. ASSUME u = t, w # 0, NEW o \in WritesOf(t) PROVE w \in WritesOf(t) /\ o <= w
      <3>1. w \in Rows /\ status[w] = "pending" /\ entity[w] = t /\ IsLast(w, {r \in Pending : entity[r] = t})
        BY <2>2, <2>3 DEF IsLast, Pending
      <3>2. w \in WritesOf(t) /\ o \in Rows /\ Live(o) /\ entity[o] = t
        BY <2>3, <3>1 DEF WritesOf, Live
      <3>3. CASE status[o] = "pending"
        <4>1. o = w \/ Before(o, w)
          BY <3>1, <3>2, <3>3 DEF IsLast, Pending
        <4>2. born[o] = born[w]
          <5>1. /\ clock = MaxSetBacks /\ clock <= born[o] /\ clock <= born[w]
                /\ born[o] \in 0 .. MaxSetBacks /\ born[w] \in 0 .. MaxSetBacks
            BY <3>1, <3>2 DEF Created, Epoch, Clean, Used, Live, TypeOK, RowsOK
          <5> QED
            BY <5>1, QueueAssumption
        <4> QED
          BY <3>1, <3>2, <4>1, <4>2 DEF Before, Rows, TypeOK, RowsOK
      <3>4. CASE status[o] = "processing"
        <4>1. \A e \in Rows : ~WaitsFor(o, e)
          BY <3>2, <3>4 DEF Toggles, Front
        <4>2. FirstOf(t, o)
          BY <2>3, <4>1, Heads DEF Created, Toggles
        <4> QED
          BY <3>2, <4>2 DEF FirstOf
      <3> QED
        BY <3>2, <3>3, <3>4 DEF Live
    <2>4. w # 0 /\ u = t => LastOf(t, w)
      <3>1. w # 0 /\ u = t => w \in WritesOf(t)
        BY <2>2 DEF IsLast, Pending, WritesOf, Live
      <3> QED
        BY <2>3, <3>1 DEF LastOf
    <2>5. WritesOf(t)' = WritesOf(t)
      BY <2>1 DEF WritesOf, Live
    <2>6. u = t => want # wish'[t]
      BY <1>2, <2>1 DEF EnqueueDesiredState
    <2>7. tap'.target = u /\ tap'.want = want /\ tap'.found = w
      BY <2>2
    <2> QED
      BY <2>4, <2>5, <2>6, <2>7 DEF Tapped, LastOf
  <1>3. CASE tap' = NoTap
    BY <1>3, QueueAssumption DEF Tapped, NoTap, None
  <1> QED
    BY <1>1, <1>2, <1>3 DEF Next, UserStep, Environment, FlushStep, Enqueue, RetryDeadLetter,
       DismissDeadLetter, Coalesce, Foreground, TimerTick, Reconnect, BackoffElapses,
       ClockSetBack, Crash, FlushReset, FlushSelect, Claim, ReRead, Send, MarkSuccess, MarkFound, Wait,
       Throttle, Refuse, MarkFailure, FlushEnd, Answered, vars

\* Booleans of the target and of its writes.
LEMMA TargetTypes ==
  ASSUME IInv, Kinds, NEW t \in Targets
  PROVE  /\ server[t] \in BOOLEAN /\ wish[t] \in BOOLEAN /\ tap.want \in BOOLEAN
         /\ \A r \in WritesOf(t) : r \in Rows /\ r \in Nat /\ action[r] \in {"set", "unset"}
         /\ \A v, w \in BOOLEAN : ActionFor(v) = ActionFor(w) <=> v = w
         /\ \A w \in BOOLEAN : ActionFor(w) \in {"set", "unset"}
  BY DEF IInv, TypeOK, DeviceOK, Kinds, WritesOf, Rows, ActionFor

\* The decision: a write more at the end, or one less.
LEMMA AppendChain ==
  ASSUME IInv, Kinds, NEW t \in Targets, Chain(t), NEW n \in Nat, NEW want \in BOOLEAN, want # wish[t],
         WritesOf(t)' = WritesOf(t) \cup {n}, action'[n] = ActionFor(want),
         \A r \in WritesOf(t) : r < n /\ action'[r] = action[r], ~Answering(n),
         server'[t] = server[t], wish'[t] = want, UNCHANGED <<net, cur>>
  PROVE  Chain(t)'
  <1>1. /\ \A r \in WritesOf(t) : r \in Nat /\ action[r] \in {"set", "unset"}
        /\ ActionFor(want) # ActionFor(wish[t]) /\ ActionFor(server[t]) \in {"set", "unset"}
    BY TargetTypes
  <1>2. \A w \in BOOLEAN : ActionFor(w)' = ActionFor(w)
    BY DEF ActionFor
  <1>3. Alternate(t)'
    <2>1. ASSUME NEW e \in WritesOf(t)', NEW q \in WritesOf(t)', e < q,
                 \A o \in WritesOf(t)' : o <= e \/ q <= o
          PROVE  action'[e] # action'[q]
      <3>1. e \in WritesOf(t)
        BY <1>1, <2>1
      <3>2. CASE q = n
        <4>1. LastOf(t, e)
          BY <1>1, <2>1, <3>1, <3>2 DEF LastOf
        <4>2. action[e] = ActionFor(wish[t])
          BY <1>1, <3>1, <4>1 DEF Chain, WritesOf
        <4> QED
          BY <1>1, <3>1, <3>2, <4>2
      <3>3. CASE q # n
        BY <2>1, <3>1, <3>3 DEF Chain, Alternate
      <3> QED
        BY <3>2, <3>3
    <2> QED
      BY <2>1 DEF Alternate
  <1>4. ASSUME NEW r \in Rows, FirstOf(t, r)'
        PROVE  action'[r] = ActionFor(server[t]) <=> Answering(r)'
    <2>1. r \in WritesOf(t)' /\ \A o \in WritesOf(t)' : r <= o
      BY <1>4 DEF FirstOf
    <2>2. Answering(r)' <=> Answering(r)
      BY DEF Answering
    <2>3. CASE r = n
      <3>1. WritesOf(t) = {}
        BY <1>1, <2>1, <2>3
      <3> QED
        BY <1>1, <2>2, <2>3, <3>1, TargetTypes DEF Chain
    <2>4. CASE r # n
      BY <2>1, <2>2, <2>4 DEF Chain, FirstOf
    <2> QED
      BY <2>3, <2>4
  <1>5. ASSUME NEW r \in Rows, LastOf(t, r)' PROVE action'[r] = ActionFor(want)
    <2>1. r \in WritesOf(t)' /\ n <= r
      BY <1>5 DEF LastOf
    <2>2. r = n
      BY <1>1, <2>1
    <2> QED
      BY <2>2
  <1> QED
    BY <1>3, <1>4, <1>5 DEF Chain, ActionFor

LEMMA CancelChain ==
  ASSUME IInv, Kinds, NEW t \in Targets, Chain(t), NEW n, NEW want \in BOOLEAN, want # wish[t],
         LastOf(t, n), WritesOf(t)' = WritesOf(t) \ {n}, UNCHANGED <<action, net, cur>>, ~Answering(n),
         server'[t] = server[t], wish'[t] = want
  PROVE  Chain(t)'
  <1>1. /\ \A r \in WritesOf(t) : r \in Rows /\ r \in Nat /\ action[r] \in {"set", "unset"}
        /\ \A w \in BOOLEAN : w = want \/ w = wish[t]
        /\ wish[t] \in BOOLEAN /\ server[t] \in BOOLEAN
        /\ n \in WritesOf(t) /\ \A o \in WritesOf(t) : o <= n
        /\ ActionFor(wish[t]) # ActionFor(want)
        /\ \A a \in {"set", "unset"} : a = ActionFor(want) \/ a = ActionFor(wish[t])
    BY TargetTypes DEF LastOf, ActionFor
  <1>2. action[n] = ActionFor(wish[t])
    BY <1>1 DEF Chain
  <1>3. Alternate(t)'
    <2>1. ASSUME NEW e \in WritesOf(t)', NEW q \in WritesOf(t)', e < q,
                 \A o \in WritesOf(t)' : o <= e \/ q <= o
          PROVE  action'[e] # action'[q]
      <3>1. \A o \in WritesOf(t) : o <= e \/ q <= o
        BY <1>1, <2>1
      <3> QED
        BY <2>1, <3>1 DEF Chain, Alternate
    <2> QED
      BY <2>1 DEF Alternate
  <1>4. ASSUME NEW r \in Rows, FirstOf(t, r)'
        PROVE  action'[r] = ActionFor(server[t]) <=> Answering(r)'
    <2>1. FirstOf(t, r)
      BY <1>1, <1>4 DEF FirstOf
    <2> QED
      BY <2>1 DEF Chain, Answering
  <1>5. ASSUME NEW r \in Rows, LastOf(t, r)' PROVE action'[r] = ActionFor(want)
    <2>1. r \in WritesOf(t) /\ r # n /\ r < n /\ \A o \in WritesOf(t) : o <= r \/ n <= o
      BY <1>1, <1>5 DEF LastOf
    <2>2. action[r] # action[n]
      BY <1>1, <2>1 DEF Chain, Alternate
    <2> QED
      BY <1>1, <1>2, <2>1, <2>2
  <1>6. ASSUME WritesOf(t)' = {} PROVE server[t] = want
    <2>1. FirstOf(t, n)
      BY <1>1, <1>6 DEF FirstOf
    <2>2. action[n] # ActionFor(server[t])
      BY <1>1, <2>1 DEF Chain
    <2> QED
      BY <1>1, <1>2, <2>2
  <1> QED
    BY <1>3, <1>4, <1>5, <1>6 DEF Chain, ActionFor

\* The answer to the first write, and the request itself.
LEMMA SuccessChain ==
  ASSUME IInv, Epoch, Kinds, Behind, NEW t \in Targets, Clean(t), Chain(t), MarkSuccess, entity[cur] = t
  PROVE  Chain(t)'
  <1> USE DEF IInv, Control
  <1>1. /\ \A r \in WritesOf(t) : r \in Rows /\ r \in Nat /\ action[r] \in {"set", "unset"}
        /\ wish[t] \in BOOLEAN /\ server[t] \in BOOLEAN
        /\ \A v, w \in BOOLEAN : ActionFor(v) = ActionFor(w) <=> v = w
    BY TargetTypes
  <1>2. FirstOf(t, cur) /\ cur \in WritesOf(t) /\ cur \in Rows
    <2>1. pc \in {"send", "answer"}
      BY DEF MarkSuccess, Answered
    <2> QED
      BY <1>1, <2>1, InFlight
  <1>3. action[cur] \notin Upserts
    BY <1>1, <1>2 DEF Upserts
  <1>4. WritesOf(t)' = WritesOf(t) \ {cur} /\ UNCHANGED <<action, server, wish>> /\ net' # "ok"
    <2>1. UNCHANGED <<entity, action, server, wish>> /\ status' = [status EXCEPT ![cur] = "gone"] /\ net' # "ok"
      BY <1>3 DEF MarkSuccess, Answered, None
    <2>2. \A r \in Rows : Live(r)' <=> Live(r) /\ r # cur
      BY <1>2, <2>1 DEF Live, TypeOK, RowsOK
    <2> QED
      BY <2>1, <2>2 DEF WritesOf
  <1>5. action[cur] = ActionFor(server[t])
    BY <1>2 DEF Chain, Answering, MarkSuccess
  <1>6. Alternate(t)'
    <2>1. ASSUME NEW e \in WritesOf(t)', NEW q \in WritesOf(t)', e < q,
                 \A o \in WritesOf(t)' : o <= e \/ q <= o
          PROVE  action'[e] # action'[q]
      <3>1. \A o \in WritesOf(t) : o <= e \/ q <= o
        BY <1>2, <1>4, <2>1 DEF FirstOf
      <3> QED
        BY <1>4, <2>1, <3>1 DEF Chain, Alternate
    <2> QED
      BY <2>1 DEF Alternate
  <1>7. ASSUME NEW r \in Rows, FirstOf(t, r)'
        PROVE  action'[r] = ActionFor(server'[t]) <=> Answering(r)'
    <2>1. r \in WritesOf(t) /\ cur < r /\ \A o \in WritesOf(t) : o <= cur \/ r <= o
      BY <1>1, <1>2, <1>4, <1>7 DEF FirstOf
    <2>2. action[cur] # action[r]
      BY <1>2, <2>1 DEF Chain, Alternate
    <2> QED
      BY <1>4, <1>5, <2>2 DEF Answering
  <1>8. ASSUME NEW r \in Rows, LastOf(t, r)' PROVE action'[r] = ActionFor(wish'[t])
    <2>1. LastOf(t, r)
      BY <1>1, <1>2, <1>4, <1>8 DEF LastOf, FirstOf
    <2> QED
      BY <1>4, <1>8, <2>1 DEF Chain
  <1>9. ASSUME WritesOf(t)' = {} PROVE server'[t] = wish'[t]
    <2>1. LastOf(t, cur)
      BY <1>1, <1>2, <1>4, <1>9 DEF LastOf
    <2> QED
      BY <1>1, <1>2, <1>4, <1>5, <2>1 DEF Chain
  <1> QED
    BY <1>6, <1>7, <1>8, <1>9 DEF Chain, ActionFor

LEMMA SendChain ==
  ASSUME IInv, Epoch, Kinds, Behind, NEW t \in Targets, Clean(t), Clean(t)', Chain(t), Send, entity[cur] = t
  PROVE  Chain(t)' /\ WritesOf(t)' = WritesOf(t)
  <1> USE DEF IInv, Control
  <1>1. /\ \A r \in WritesOf(t) : r \in Rows /\ r \in Nat /\ action[r] \in {"set", "unset"}
        /\ server[t] \in BOOLEAN
    BY TargetTypes
  <1>2. FirstOf(t, cur) /\ cur \in WritesOf(t) /\ cur \in Rows
    <2>1. pc \in {"send", "answer"}
      BY DEF Send
    <2> QED
      BY <1>1, <2>1, InFlight
  <1>3. /\ UNCHANGED <<status, entity, action, wish, cur>> /\ net # "ok"
        /\ WritesOf(t)' = WritesOf(t)
    BY DEF Send, Stage, None, WritesOf, Live
  <1>4. \A r \in Rows : (FirstOf(t, r)' <=> FirstOf(t, r)) /\ (LastOf(t, r)' <=> LastOf(t, r))
    BY <1>3 DEF FirstOf, LastOf
  <1>5. \A r \in Rows : FirstOf(t, r) <=> r = cur
    BY <1>1, <1>2 DEF FirstOf
  <1>6. Alternate(t)'
    BY <1>3 DEF Chain, Alternate
  <1>7. action[cur] = ActionFor(server'[t]) <=> net' = "ok"
    <2>1. CASE net' = "ok" /\ ApplyAtServer(cur)
      <3>1. server' = [server EXCEPT ![t] = (action[cur] = "set")]
        BY <1>1, <1>2, <2>1 DEF ApplyAtServer
      <3>2. server'[t] = (action[cur] = "set")
        BY <3>1 DEF TypeOK, DeviceOK
      <3> QED
        BY <1>1, <1>2, <2>1, <3>2 DEF ActionFor
    <2>2. CASE net' \in Failures /\ UNCHANGED server
      <3>1. action[cur] # ActionFor(server[t])
        BY <1>2, <1>3 DEF Chain, Answering
      <3> QED
        BY <2>2, <3>1 DEF Failures, ActionFor
    <2>3. CASE doubted' = doubted \cup {entity[cur]}
      BY <2>3 DEF Clean
    <2>4. action[cur] # "ifAbsent"
      BY <1>1, <1>2
    <2> QED
      BY <2>1, <2>2, <2>3, <2>4 DEF Send
  <1>8. ASSUME NEW r \in Rows, FirstOf(t, r)'
        PROVE  action'[r] = ActionFor(server'[t]) <=> Answering(r)'
    BY <1>3, <1>4, <1>5, <1>7, <1>8 DEF Answering
  <1>9. ASSUME NEW r \in Rows, LastOf(t, r)' PROVE action'[r] = ActionFor(wish'[t])
    BY <1>3, <1>4, <1>9 DEF Chain
  <1> QED
    BY <1>2, <1>3, <1>6, <1>8, <1>9 DEF Chain, ActionFor

\* The decision on the target.
LEMMA DecisionChain ==
  ASSUME IInv, Created, Toggles, [Next]_vars, NEW t \in Targets, Clean(t), Chain(t), Tapped(t),
         Coalesce, tap.target = t
  PROVE  Chain(t)'
  <1> USE DEF IInv, Control
  <1>1. PICK w \in Rows \cup {0}, want \in BOOLEAN :
          /\ w = tap.found /\ want = tap.want /\ want # wish[t]
          /\ w # 0 => LastOf(t, w) /\ w \in WritesOf(t)
          /\ wish' = [wish EXCEPT ![t] = want]
    BY TargetTypes DEF Coalesce, Tapped, LastOf, Toggles, TypeOK, DeviceOK
  <1>2. wish'[t] = want /\ UNCHANGED <<server, net, cur>> /\ [Next]_vars
    BY <1>1 DEF Coalesce, TypeOK, DeviceOK
  <1>3. w # 0 => action[w] # ActionFor(want)
    <2>1. w # 0 => action[w] = ActionFor(wish[t])
      BY <1>1 DEF Chain, WritesOf
    <2> QED
      BY <1>1, <2>1, TargetTypes DEF Toggles
  <1>4. CASE w # 0 /\ Cancellable(w) /\ status' = [status EXCEPT ![w] = "gone"] /\ UNCHANGED <<entity, identity>>
    <2>1. w \in Rows /\ ~Answering(w)
      <3>1. w \in Rows /\ w \notin died
        BY <1>1, <1>4 DEF WritesOf, Clean
      <3>2. net = "ok" => pc = "answer" /\ cur # 0
        BY DEF Stage, None
      <3> QED
        BY <1>4, <3>1, <3>2 DEF Cancellable, Answering, Claimed, Running
    <2>2. WritesOf(t)' = WritesOf(t) \ {w} /\ UNCHANGED action
      <3>1. \A r \in Rows : Live(r)' <=> Live(r) /\ r # w
        BY <1>4, <2>1 DEF Live, TypeOK, RowsOK
      <3> QED
        BY <1>4, <3>1 DEF WritesOf
    <2> QED
      BY <1>1, <1>2, <1>4, <2>1, <2>2, CancelChain DEF Toggles
  <1>5. CASE Insert(ActionFor(want), t)
    <2>1. ActionFor(want) \in Actions /\ t \in Entities
      BY DEF ActionFor, Actions, Entities
    <2>2. PICK n \in Rows : /\ n = next /\ n \notin WritesOf(t) /\ action'[n] = ActionFor(want)
                            /\ \A r \in WritesOf(t) : r < n /\ action'[r] = action[r]
                            /\ WritesOf(t)' = WritesOf(t) \cup {n}
      BY <1>5, <2>1, WritesInsert
    <2>3. ~Answering(n)
      <3>1. net = "ok" => pc = "answer" /\ cur # 0
        BY DEF Stage, None
      <3>2. ~Used(n)
        BY <1>5, <2>2, NewRow
      <3> QED
        BY <3>1, <3>2 DEF Answering, Claimed, Running
    <2>4. n \in Nat
      BY DEF Rows
    <2> QED
      BY <1>1, <1>2, <2>2, <2>3, <2>4, AppendChain DEF Toggles
  <1> QED
    BY <1>1, <1>3, <1>4, <1>5 DEF Coalesce

LEMMA AgreedStep ==
  ASSUME IInv, Created, Toggles, [Next]_vars
  PROVE  Agreed'
  <1> USE DEF IInv, Control
  <1>1. SUFFICES ASSUME NEW t \in Targets, Clean(t)' PROVE Chain(t)' /\ Tapped(t)'
    BY DEF Agreed
  <1>2. Clean(t) /\ Chain(t) /\ Tapped(t)
    BY <1>1, CleanBefore DEF Toggles, Agreed
  <1>3. Epoch /\ Kinds /\ Behind /\ Truth /\ TapRow
    BY DEF Created, Toggles
  <1>4. CASE Coalesce /\ tap.target = t
    <2>1. Tapped(t)'
      BY <1>4, QueueAssumption DEF Coalesce, Tapped, NoTap, None
    <2> QED
      BY <1>2, <1>4, <2>1, DecisionChain
  <1>5. CASE MarkSuccess /\ entity[cur] = t
    <2>1. Chain(t)' /\ wish'[t] = wish[t] /\ tap = NoTap
      BY <1>2, <1>3, <1>5, SuccessChain, MindsKept DEF MarkSuccess, Answered
    <2> QED
      BY <1>2, <2>1, TappedStep
  <1>6. CASE Send /\ entity[cur] = t
    <2>1. Chain(t)' /\ wish'[t] = wish[t] /\ WritesOf(t)' = WritesOf(t)
      BY <1>1, <1>2, <1>3, <1>6, SendChain, MindsKept DEF Send
    <2>2. \A r : LastOf(t, r) => LastOf(t, r)'
      BY <2>1 DEF LastOf
    <2> QED
      BY <1>2, <2>1, <2>2, TappedStep
  <1>7. CASE /\ ~(Coalesce /\ tap.target = t) /\ ~(MarkSuccess /\ entity[cur] = t)
             /\ ~(Send /\ entity[cur] = t)
    <2>1. WritesOf(t)' = WritesOf(t) /\ \A r \in WritesOf(t) : action'[r] = action[r]
      <3>1. CASE UNCHANGED next
        BY <1>1, <1>3, <1>7, <3>1, WritesKept
      <3>2. ASSUME NEW act \in ReadActions, NEW ent \in Reads, Insert(act, ent)
            PROVE  WritesOf(t)' = WritesOf(t) /\ \A r \in WritesOf(t) : action'[r] = action[r]
        <4>1. act \in Actions /\ ent \in Entities /\ ent # t
          BY QueueAssumption DEF Actions, Entities, Reads
        <4> QED
          BY <3>2, <4>1, WritesInsert
      <3>3. CASE Coalesce /\ Insert(ActionFor(tap.want), tap.target) /\ tap.target \in Targets
        <4>1. ActionFor(tap.want) \in Actions /\ tap.target \in Entities /\ tap.target # t
          BY <1>7, <3>3 DEF Actions, ActionFor, Entities
        <4> QED
          BY <3>3, <4>1, WritesInsert
      <3> QED
        BY <3>1, <3>2, <3>3, Inserts
    <2>2. \A r \in WritesOf(t) : Answering(r)' <=> Answering(r)
      BY <1>1, <1>3, <1>7, AnsweringKept
    <2>3. server'[t] = server[t] /\ wish'[t] = wish[t]
      BY <1>3, <1>7, MindsKept
    <2>4. Chain(t)' /\ \A r : LastOf(t, r) => LastOf(t, r)'
      BY <1>2, <2>1, <2>2, <2>3, Quiet
    <2> QED
      BY <1>2, <2>3, <2>4, TappedStep
  <1> QED
    BY <1>4, <1>5, <1>6, <1>7

LEMMA TogglesStep == IInv /\ Created /\ Toggles /\ [Next]_vars => Toggles'
  BY AgreedStep, KindsStep, BehindStep, FrontStep, TruthStep DEF Toggles

LEMMA TogglesInit == Init => Toggles
  <1> SUFFICES ASSUME Init PROVE Toggles
    OBVIOUS
  <1>1. \A t \in Targets : WritesOf(t) = {} /\ server[t] = wish[t]
    BY DEF Init, WritesOf, Live
  <1>2. Agreed
    BY <1>1, QueueAssumption DEF Init, Agreed, Chain, Alternate, FirstOf, LastOf, Tapped, NoTap, None
  <1>3. Kinds /\ Behind /\ Front /\ Truth
    BY QueueAssumption DEF Init, Kinds, Behind, Front, Truth, Live, WaitsFor, Follows, None
  <1> QED
    BY <1>2, <1>3 DEF Toggles

\* Once nothing of a target waits or was refused, and no failed exchange had been
\* applied, the server holds what the user last asked for (enqueueDesiredState),
\* also when the flush claims a write between the SELECT and the DELETE.
THEOREM WishesCorrect == Spec => []WishesReachServer
  <1>1. IInv /\ Toggles => WishesReachServer
    <2> SUFFICES ASSUME Toggles, NEW t \in Targets, t \notin doubted, clock = MaxSetBacks,
                        \A r \in Rows : entity[r] = t => status[r] = "gone" /\ r \notin died, IInv
                 PROVE  server[t] = wish[t]
      BY DEF WishesReachServer
    <2>1. Clean(t)
      BY DEF Clean, IInv, TypeOK, HistoryOK
    <2>2. WritesOf(t) = {}
      BY DEF WritesOf, Live
    <2> QED
      BY <2>1, <2>2 DEF Toggles, Agreed, Chain
  <1> QED
    BY IInvInit, IInvStep, CreatedInit, CreatedStep, TogglesInit, TogglesStep, <1>1, PTL DEF Spec

=============================================================================
