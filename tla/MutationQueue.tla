---------------------------- MODULE MutationQueue ----------------------------
(***************************************************************************)
(* The mobile app's persistent mutation queue (apps/mobile/src/offline):   *)
(* the rows of the SQLite table mutation_queue of one signed-in user, the  *)
(* single flush that replays them, the coalescing of likes and follows,    *)
(* the failure classes, the dead letters, and the remap of a read created  *)
(* offline onto the id the server gives it.                                *)
(*                                                                         *)
(* A step is a database statement, or a transaction, or an HTTP exchange:  *)
(* everything between two awaits of queue.ts runs without interruption.    *)
(* Transactions exclude one another, but the plain statements of a running *)
(* flush may fall between the statements of one, which is why             *)
(* enqueueDesiredState deletes conditionally; so its SELECT and its        *)
(* decision are two steps here.                                            *)
(*                                                                         *)
(* Time is abstract: `due' says whether next_retry_at has passed, and the  *)
(* created_at of a row is the epoch of the device clock, which may be set  *)
(* back, together with the insertion order.                                *)
(***************************************************************************)
EXTENDS Naturals, FiniteSets

CONSTANTS
  MaxRows,      \* bound: rows ever inserted; a row's id is its rowid
  Locals,       \* local ids of reads created on this device
  ServerIds,    \* read ids the server assigns
  Targets,      \* reads to like and users to follow
  MaxAttempts,  \* MAX_ATTEMPTS (5 in the source)
  MaxFaults,    \* bound: answers other than success
  MaxRetries,   \* bound: taps on Retry in the sync-issues screen
  MaxCrashes,   \* bound: deaths of the process
  MaxForces,    \* bound: reconnects and "Sync now" taps
  MaxSetBacks,  \* bound: times the device clock is set back
  MaxTroubles,  \* bound: all of these together
  LossyNetwork, \* whether a failed exchange may have been applied
  StaleWrites,  \* whether a write may be keyed by an already remapped id
  DoubleTaps    \* whether Retry may be tapped on a row no longer dead

ASSUME QueueAssumption ==
  /\ MaxRows \in Nat /\ MaxAttempts \in Nat \ {0}
  /\ MaxFaults \in Nat /\ MaxRetries \in Nat /\ MaxCrashes \in Nat
  /\ MaxForces \in Nat /\ MaxSetBacks \in Nat /\ MaxTroubles \in Nat
  /\ LossyNetwork \in BOOLEAN /\ StaleWrites \in BOOLEAN
  /\ DoubleTaps \in BOOLEAN
  /\ Locals \cap ServerIds = {}
  /\ Targets \cap (Locals \cup ServerIds) = {}
  /\ "none" \notin Locals \cup ServerIds \cup Targets

None == "none"
Rows == 1 .. MaxRows
Reads == Locals \cup ServerIds
Entities == Reads \cup Targets

\* upsert_read, with if_absent for the want-to-read swipe; any other write of
\* a read (progress, finish, dnf, review, delete); the two states of a like or
\* follow.
Upserts == {"upsert", "ifAbsent"}
ReadActions == Upserts \cup {"write"}
Actions == ReadActions \cup {"set", "unset"}

\* "unused" rows are not inserted yet, "gone" rows have been deleted.
Statuses == {"unused", "pending", "processing", "dead_letter", "gone"}

VARIABLES
  status,    \* mutation_queue.status
  action,    \* mutation_queue.action, with the payload's wanted state
  entity,    \* mutation_queue.entity_id
  attempts,  \* mutation_queue.attempts
  due,       \* next_retry_at <= now
  born,      \* created_at, up to insertion order
  next,      \* the next rowid
  alias,     \* read_aliases
  clock,     \* the epoch of the device clock
  pc,        \* where the flush is: the WeakSet `flushing' holds unless idle
  again,     \* the WeakSet `flushAgain'
  forced,    \* the running flush skips backoff
  todo,      \* rows of its SELECT not looked at yet
  key,       \* entity_id at its SELECT: the groups of byEntity
  line,      \* the group being sent
  cur,       \* the claimed row
  seen,      \* its attempts when it was re-read
  net,       \* the outcome of the exchange, not handled yet
  tap,       \* enqueueDesiredState between its SELECT and its decision
  server,    \* external: the like or follow state of each target
  wish,      \* the state the user last asked for
  spent      \* how much of each bound is used

(***************************************************************************)
(* History, read by properties only.                                       *)
(***************************************************************************)
VARIABLES
  origin,    \* the entity a row was enqueued under
  ahead,     \* the rows of its entity a row was queued behind
  died,      \* rows that have been dead letters
  sent,      \* rows a request has been made for
  applied,   \* rows the server has applied
  found,     \* if_absent upserts for which the server had a read already
  cancelled, \* rows enqueueDesiredState took back
  doubted,   \* targets of exchanges that failed although applied
  owed       \* a flush(true) was not started, and no forced SELECT since

identity == <<action, born, next, origin, ahead>>  \* set by the INSERT
effort   == <<attempts, due>>
lock     == <<pc, again, forced>>
plan     == <<todo, key, line>>
flight   == <<cur, seen, net>>
device   == <<alias, clock, tap>>
outside  == <<server, wish, spent>>
outcome  == <<died, sent, applied, found, cancelled, doubted, owed>>
vars == <<status, entity, identity, effort, lock, plan, flight, device,
          outside, outcome>>

NoKey == [r \in Rows |-> None]
NoTap == [target |-> None, want |-> FALSE, found |-> 0]
Budgets == {"faults", "retries", "crashes", "forces", "setBacks"}
BoundOf == [faults |-> MaxFaults, retries |-> MaxRetries,
            crashes |-> MaxCrashes, forces |-> MaxForces,
            setBacks |-> MaxSetBacks]
Troubles == spent.faults + spent.retries + spent.crashes + spent.forces + spent.setBacks
Spend(b) == /\ spent[b] < BoundOf[b] /\ Troubles < MaxTroubles
            /\ spent' = [spent EXCEPT ![b] = @ + 1]

-----------------------------------------------------------------------------
(* Rows *)

Pending == {r \in Rows : status[r] = "pending"}
Live(r) == status[r] \in {"pending", "processing"}
InTable(r) == status[r] \notin {"unused", "gone"}

\* ORDER BY created_at, rowid
Before(e, q) == born[e] < born[q] \/ (born[e] = born[q] /\ e < q)
IsFirst(r, S) == r \in S /\ \A o \in S \ {r} : Before(r, o)
IsLast(r, S)  == r \in S /\ \A o \in S \ {r} : Before(o, r)

\* read_aliases has a row for the id.
Remapped(ent) == ent \in Reads /\ alias[ent] # None

Insert(act, ent) ==
  /\ next <= MaxRows
  /\ next' = next + 1
  /\ status' = [status EXCEPT ![next] = "pending"]
  /\ action' = [action EXCEPT ![next] = act]
  /\ entity' = [entity EXCEPT ![next] = ent]
  /\ attempts' = [attempts EXCEPT ![next] = 0]
  /\ due' = [due EXCEPT ![next] = TRUE]
  /\ born' = [born EXCEPT ![next] = clock]
  /\ origin' = [origin EXCEPT ![next] = ent]
  /\ ahead' = [ahead EXCEPT ![next] = {r \in Rows : InTable(r) /\ entity[r] = ent}]

Init ==
  /\ status = [r \in Rows |-> "unused"]
  /\ action = [r \in Rows |-> "write"]
  /\ entity = [r \in Rows |-> None]
  /\ attempts = [r \in Rows |-> 0]
  /\ due = [r \in Rows |-> FALSE]
  /\ born = [r \in Rows |-> 0]
  /\ next = 1
  /\ alias = [id \in Reads |-> None]
  /\ clock = MaxSetBacks
  /\ pc = "idle" /\ again = FALSE /\ forced = FALSE
  /\ todo = {} /\ key = NoKey /\ line = None
  /\ cur = 0 /\ seen = 0 /\ net = None
  /\ tap = NoTap
  /\ server = [t \in Targets |-> FALSE]
  /\ wish = [t \in Targets |-> FALSE]
  /\ spent = [b \in Budgets |-> 0]
  /\ origin = [r \in Rows |-> None]
  /\ ahead = [r \in Rows |-> {}]
  /\ died = {} /\ sent = {} /\ applied = {} /\ found = {} /\ cancelled = {}
  /\ doubted = {} /\ owed = FALSE

-----------------------------------------------------------------------------
(* Asking for a flush *)

\* flush(force) up to its first await. While one is running it only asks for
\* another; that one, started by the finally block, is never forced.
CallFlush(force) ==
  IF pc = "idle"
  THEN /\ pc' = "reset" /\ forced' = force
       /\ UNCHANGED <<again, owed>>
  ELSE /\ again' = TRUE
       /\ owed' = (owed \/ force)
       /\ UNCHANGED <<pc, forced>>

\* A write of a read: the repository's transaction commits with the row, then
\* flushes. The first write of a local read is the upsert that creates it, and
\* the swipe's upsert is always the first. The repository resolves an aliased
\* id inside the transaction; only saveReview, which resolves it before its
\* INSERT, can be late.
Enqueue(act, ent) ==
  /\ tap = NoTap
  /\ Remapped(ent) => StaleWrites /\ act = "write"
  /\ act = "write" /\ ent \in Locals => \E r \in Rows : origin[r] = ent
  /\ act = "ifAbsent" => ent \in Locals /\ \A r \in Rows : origin[r] # ent
  /\ Insert(act, ent)
  /\ CallFlush(FALSE)
  /\ UNCHANGED <<died, sent, applied, found, cancelled, doubted, plan, flight,
                 device, outside>>

\* enqueueDesiredState, its SELECT: the newest waiting write of the target. The
\* screen toggles what it shows, which is what the user last asked for.
EnqueueDesiredState(t, want) ==
  LET waiting == {r \in Pending : entity[r] = t}
  IN /\ tap = NoTap /\ next <= MaxRows
     /\ want # wish[t]
     /\ \E w \in Rows \cup {0} :
          /\ IF waiting = {} THEN w = 0 ELSE IsLast(w, waiting)
          /\ tap' = [target |-> t, want |-> want, found |-> w]
     /\ UNCHANGED <<status, entity, alias, clock, identity, effort,
                    lock, plan, flight, outside, outcome>>

ActionFor(want) == IF want THEN "set" ELSE "unset"

\* Mutant: the DELETE names the row only.
CancellableWhenFound(w) == status[w] # "gone"

\* The condition of its DELETE: no flush has claimed the row meanwhile.
Cancellable(w) == status[w] = "pending"

\* ... and its decision, followed by the caller's flush.
Coalesce ==
  LET w == tap.found
      same == w # 0 /\ action[w] = ActionFor(tap.want)
      opposite == w # 0 /\ ~same /\ Cancellable(w)
  IN /\ tap # NoTap
     /\ \/ /\ same
           /\ UNCHANGED <<status, entity, cancelled, identity, effort>>
        \/ /\ opposite
           /\ status' = [status EXCEPT ![w] = "gone"]
           /\ cancelled' = cancelled \cup {w}
           /\ UNCHANGED <<entity, identity, effort>>
        \/ /\ ~same /\ ~opposite
           /\ Insert(ActionFor(tap.want), tap.target)
           /\ UNCHANGED cancelled
     /\ tap' = NoTap
     /\ wish' = [wish EXCEPT ![tap.target] = tap.want]
     /\ CallFlush(FALSE)
     /\ UNCHANGED <<alias, clock, server, spent, died, sent, applied, found,
                    doubted, plan, flight>>

\* What a mere call of flush leaves alone.
resting == <<status, entity, identity, effort, plan, flight, device, server,
             wish, died, sent, applied, found, cancelled, doubted>>

\* Sign-in or a restored session, and the return to the foreground.
Foreground == CallFlush(FALSE) /\ UNCHANGED <<resting, spent>>

\* The 30 s timer, only while writes wait.
TimerTick ==
  /\ \E r \in Rows : Live(r)
  /\ CallFlush(FALSE)
  /\ UNCHANGED <<resting, spent>>

\* The connection comes back, or "Sync now": skip the backoff wait.
Reconnect == Spend("forces") /\ CallFlush(TRUE) /\ UNCHANGED resting

BackoffElapses(r) ==
  /\ status[r] \in {"pending", "processing"} /\ ~due[r]
  /\ due' = [due EXCEPT ![r] = TRUE]
  /\ UNCHANGED <<status, entity, attempts, identity, lock, plan, flight,
                 device, outside, outcome>>

\* The clock goes back past every time the rows hold: each next_retry_at, also
\* that of a row not tried yet, is now ahead of it.
ClockSetBack ==
  /\ Spend("setBacks")
  /\ clock' = clock - 1
  /\ due' = [r \in Rows |-> FALSE]
  /\ UNCHANGED <<status, entity, attempts, alias, tap, server, wish, identity,
                 lock, plan, flight, outcome>>

-----------------------------------------------------------------------------
(* The flush *)

\* Mutant: the UPDATE that opens the flush is missing.
NotRecovered(r) == status[r]

Recovered(r) == IF Live(r) THEN "pending" ELSE status[r]

\* Rows left 'processing' by a dead process are pending again.
FlushReset ==
  /\ pc = "reset"
  /\ pc' = "select"
  /\ status' = [r \in Rows |-> Recovered(r)]
  /\ UNCHANGED <<entity, again, forced, identity, effort, plan, flight, device,
                 outside, outcome>>

Ready(r) == status[r] = "pending" /\ (forced \/ due[r])

\* Mutant: a SELECT without its NOT EXISTS.
EligibleWhenReady(q) == Ready(q)

\* A row waits while an earlier write of its entity is backing off.
Eligible(q) ==
  /\ Ready(q)
  /\ \A e \in Pending : entity[e] = entity[q] /\ Before(e, q) => Ready(e)

FlushSelect ==
  /\ pc = "select"
  /\ todo' = {q \in Rows : Eligible(q)}
  /\ key' = [r \in Rows |-> IF Eligible(r) THEN entity[r] ELSE None]
  /\ line' = None
  /\ pc' = "next"
  /\ owed' = (owed /\ ~forced)
  /\ UNCHANGED <<status, entity, again, forced, died, sent, applied, found,
                 cancelled, doubted, identity, effort, flight, device, outside>>

\* The groups are sent one after the other, in the order of their first rows.
InLine == {r \in todo : key[r] = line}
IsNext(r) == IsFirst(r, IF InLine # {} THEN InLine ELSE todo)

\* Claim the next row; one that has gone since the SELECT is skipped.
Claim ==
  \E r \in todo :
     /\ pc = "next" /\ IsNext(r)
     /\ todo' = todo \ {r}
     /\ line' = key[r]
     /\ \/ /\ status[r] = "pending"
           /\ status' = [status EXCEPT ![r] = "processing"]
           /\ cur' = r /\ pc' = "reread"
        \/ /\ status[r] # "pending"
           /\ UNCHANGED <<status, cur, pc>>
     /\ UNCHANGED <<entity, again, forced, key, seen, net, identity, effort,
                    device, outside, outcome>>

\* Every remaining row of a read, keyed by another id.
Rekeyed(from, to) ==
  [r \in Rows |-> IF entity[r] = from /\ InTable(r) THEN to ELSE entity[r]]

\* Re-read the claimed row, and key every row of its entity by the server id
\* when the read has been remapped (processMutation's alias lookup).
ReRead ==
  LET e == entity[cur]
  IN /\ pc = "reread"
     /\ \/ /\ status[cur] = "gone"
           /\ pc' = "next" /\ cur' = 0
           /\ UNCHANGED <<entity, seen>>
        \/ /\ status[cur] # "gone"
           /\ pc' = "send"
           /\ seen' = attempts[cur]
           /\ entity' = IF Remapped(e) THEN Rekeyed(e, alias[e]) ELSE entity
           /\ UNCHANGED cur
     /\ UNCHANGED <<status, again, forced, net, identity, effort, plan,
                    device, outside, outcome>>

\* classifyFailure's outcomes: no network or 401; 429; 408, 5xx and unknown
\* errors; any other 4xx.
Failures == {"wait", "throttled", "retry", "refused"}

ApplyAtServer(r) ==
  /\ applied' = applied \cup {r}
  /\ server' = IF action[r] \in {"set", "unset"}
               THEN [server EXCEPT ![entity[r]] = (action[r] = "set")]
               ELSE server

\* The exchange with the server. A 409 already_in_library is what an if_absent
\* upsert asks for, and no failure. A lost reply, or a 5xx from a gateway, may
\* hide a write that was applied.
Send ==
  /\ pc = "send"
  /\ sent' = sent \cup {cur}
  /\ \/ net' = "ok" /\ ApplyAtServer(cur) /\ UNCHANGED <<spent, doubted>>
     \/ /\ action[cur] = "ifAbsent"
        /\ net' = "exists"
        /\ UNCHANGED <<applied, server, spent, doubted>>
     \/ /\ Spend("faults")
        /\ net' \in Failures
        /\ UNCHANGED <<applied, server, doubted>>
     \/ /\ LossyNetwork
        /\ Spend("faults")
        /\ net' \in {"wait", "retry"}
        /\ ApplyAtServer(cur)
        /\ doubted' = doubted \cup {entity[cur]}
  /\ pc' = "answer"
  /\ UNCHANGED <<status, entity, again, forced, cur, seen, wish, died,
                 found, cancelled, owed, identity, effort, plan, device>>

\* What the answers have in common: the row is no longer in flight, and
\* `left' is what remains to be sent.
Answered(left) ==
  /\ pc = "answer"
  /\ pc' = "next" /\ cur' = 0 /\ seen' = 0 /\ net' = None
  /\ todo' = left
  /\ UNCHANGED <<clock, again, forced, key, line, tap, sent, applied,
                 cancelled, doubted, owed, identity, outside>>

\* markSuccess, one transaction. The answer to an upsert carries the id of the
\* read it wrote: when that is another one, remapRead keys the remaining rows
\* by it. A local id is never the server's.
MarkSuccess ==
  /\ net = "ok" /\ tap = NoTap
  /\ Answered(todo)
  /\ status' = [status EXCEPT ![cur] = "gone"]
  /\ \/ /\ action[cur] \in Upserts
        /\ \E s \in ServerIds \ {entity[cur]} :
             /\ alias' = [alias EXCEPT ![entity[cur]] = s]
             /\ entity' = Rekeyed(entity[cur], s)
     \/ /\ action[cur] \in Upserts => entity[cur] \in ServerIds
        /\ UNCHANGED <<alias, entity>>
  /\ UNCHANGED <<attempts, due, died, found>>

\* The same with no read in the answer: the local copy is dropped, and what is
\* queued for it keeps the local id.
MarkFound ==
  /\ net = "exists" /\ action[cur] = "ifAbsent" /\ tap = NoTap
  /\ Answered(todo)
  /\ status' = [status EXCEPT ![cur] = "gone"]
  /\ found' = found \cup {cur}
  /\ UNCHANGED <<attempts, due, entity, alias, died>>

\* Mutant: halt_entity treated as next.
AllLines == todo

\* halt_entity: what is left of the group is not looked at.
OtherLines == todo \ InLine

\* UPDATE ... WHERE id = ?: nothing when the row has gone meanwhile.
Keep(st) == status' = [status EXCEPT ![cur] = IF @ = "gone" THEN @ ELSE st]
NotDue == due' = [due EXCEPT ![cur] = FALSE]

\* Offline or signed out: the whole flush stops.
Wait ==
  /\ net = "wait" /\ Answered({})
  /\ Keep("pending") /\ NotDue
  /\ UNCHANGED <<attempts, entity, alias, died, found>>

\* 429: this entity's later writes wait behind it; no attempt is used.
Throttle ==
  /\ net = "throttled" /\ Answered(OtherLines)
  /\ Keep("pending") /\ NotDue
  /\ UNCHANGED <<attempts, entity, alias, died, found>>

DeadLetter ==
  /\ Keep("dead_letter")
  /\ attempts' = [attempts EXCEPT ![cur] = seen + 1]
  /\ died' = died \cup {cur}
  /\ UNCHANGED due

\* Refused: out of the way, the entity's later writes may still apply.
Refuse ==
  /\ net = "refused" /\ Answered(todo)
  /\ DeadLetter
  /\ UNCHANGED <<entity, alias, found>>

\* Mutant: one attempt too many.
LastAttemptPassed == seen + 1 > MaxAttempts

LastAttempt == seen + 1 >= MaxAttempts

\* Backoff, and after MAX_ATTEMPTS a dead letter; the entity waits.
MarkFailure ==
  /\ net = "retry" /\ Answered(OtherLines)
  /\ \/ /\ LastAttempt
        /\ DeadLetter
     \/ /\ ~LastAttempt
        /\ Keep("pending") /\ NotDue
        /\ attempts' = [attempts EXCEPT ![cur] = seen + 1]
        /\ UNCHANGED died
  /\ UNCHANGED <<entity, alias, found>>

\* Mutant: flushAgain is not looked at.
IdleAfterFlush == "idle"

AfterFlush == IF again THEN "reset" ELSE "idle"

\* The finally block: release the lock, and flush again if asked to.
FlushEnd ==
  /\ pc = "next" /\ todo = {}
  /\ key' = NoKey /\ line' = None
  /\ pc' = AfterFlush
  /\ again' = FALSE
  /\ forced' = FALSE
  /\ UNCHANGED <<status, entity, todo, identity, effort, flight, device,
                 outside, outcome>>

-----------------------------------------------------------------------------
(* The sync-issues screen, and the death of the process *)

\* The screen shows the dead letters until it loads them again, after the flush
\* "Retry" asks for. retryDeadLetter does not look at the status.
RetryDeadLetter(r) ==
  /\ status[r] = "dead_letter" \/ (DoubleTaps /\ r \in died /\ Live(r))
  /\ Spend("retries")
  /\ status' = [status EXCEPT ![r] = "pending"]
  /\ attempts' = [attempts EXCEPT ![r] = 0]
  /\ due' = [due EXCEPT ![r] = TRUE]
  /\ CallFlush(TRUE)
  /\ UNCHANGED <<entity, server, wish, died, sent, applied, found, cancelled,
                 doubted, identity, plan, flight, device>>

DismissDeadLetter(r) ==
  /\ status[r] = "dead_letter"
  /\ status' = [status EXCEPT ![r] = "gone"]
  /\ UNCHANGED <<entity, identity, effort, lock, plan, flight, device,
                 outside, outcome>>

\* The rows survive, the flush and the open transaction do not.
Crash ==
  /\ Spend("crashes")
  /\ pc' = "idle" /\ again' = FALSE /\ forced' = FALSE
  /\ todo' = {} /\ key' = NoKey /\ line' = None
  /\ cur' = 0 /\ seen' = 0 /\ net' = None
  /\ tap' = NoTap /\ owed' = FALSE
  /\ doubted' = IF cur \in applied THEN doubted \cup {entity[cur]} ELSE doubted
  /\ UNCHANGED <<status, entity, alias, clock, server, wish, died, sent,
                 applied, found, cancelled, identity, effort>>

-----------------------------------------------------------------------------

UserStep ==
  \/ \E act \in ReadActions, ent \in Reads : Enqueue(act, ent)
  \/ \E t \in Targets, want \in BOOLEAN : EnqueueDesiredState(t, want)
  \/ \E r \in Rows : RetryDeadLetter(r) \/ DismissDeadLetter(r)

Environment ==
  \/ Foreground \/ TimerTick \/ Reconnect \/ ClockSetBack \/ Crash
  \/ \E r \in Rows : BackoffElapses(r)

FlushStep ==
  \/ FlushReset \/ FlushSelect \/ Claim \/ ReRead \/ Send
  \/ MarkSuccess \/ MarkFound \/ Wait \/ Throttle \/ Refuse \/ MarkFailure
  \/ FlushEnd

Next == UserStep \/ Coalesce \/ Environment \/ FlushStep

Spec == Init /\ [][Next]_vars

-----------------------------------------------------------------------------
(* Properties *)

Settled(r) == status[r] \in {"gone", "dead_letter"}

RowsOK ==
  /\ status \in [Rows -> Statuses] /\ action \in [Rows -> Actions]
  /\ entity \in [Rows -> Entities \cup {None}]
  /\ origin \in [Rows -> Entities \cup {None}]
  /\ attempts \in [Rows -> 0 .. MaxAttempts] /\ due \in [Rows -> BOOLEAN]
  /\ born \in [Rows -> 0 .. MaxSetBacks] /\ next \in 1 .. MaxRows + 1
  /\ ahead \in [Rows -> SUBSET Rows]
  \* a row with MAX_ATTEMPTS failures is not tried again
  /\ \A r \in Rows : Live(r) => attempts[r] < MaxAttempts

FlushOK ==
  /\ pc \in {"idle", "reset", "select", "next", "reread", "send", "answer"}
  /\ again \in BOOLEAN /\ forced \in BOOLEAN /\ owed \in BOOLEAN
  /\ todo \subseteq Rows /\ key \in [Rows -> Entities \cup {None}]
  /\ line \in Entities \cup {None}
  /\ cur \in Rows \cup {0} /\ seen \in 0 .. MaxAttempts
  /\ net \in Failures \cup {"ok", "exists", None}
  /\ pc \in {"send", "answer"} => seen < MaxAttempts

DeviceOK ==
  /\ alias \in [Reads -> ServerIds \cup {None}]
  /\ clock \in 0 .. MaxSetBacks
  /\ tap \in [target : Targets \cup {None}, want : BOOLEAN, found : Rows \cup {0}]
  /\ server \in [Targets -> BOOLEAN] /\ wish \in [Targets -> BOOLEAN]
  /\ spent \in [Budgets -> Nat]

HistoryOK ==
  /\ died \subseteq Rows /\ sent \subseteq Rows /\ found \subseteq Rows
  /\ applied \subseteq Rows /\ cancelled \subseteq Rows
  /\ doubted \subseteq Entities

\* The types, and no row is tried again after MAX_ATTEMPTS failures.
TypeOK == RowsOK /\ FlushOK /\ DeviceOK /\ HistoryOK

\* The row of a request stays claimed until its answer: nothing but the
\* flush that claimed it moves it on, and no other row is claimed. Only Retry,
\* tapped again on the same dead letter, takes a row out of its hands.
ClaimHeld ==
  pc \in {"next", "reread", "send", "answer"} =>
    /\ \A r \in Rows : status[r] = "processing" => r = cur
    /\ cur # 0 => status[cur] = "processing" \/ cur \in died

\* The same without the exception, as queue.ts states it.
ClaimHeldAsStated == pc \in {"reread", "send", "answer"} => status[cur] = "processing"

\* q was queued behind e, a row with its entity_id, and the clock agrees.
Follows(q, e) == e \in ahead[q] /\ born[e] <= born[q]

\* Per-entity FIFO: no write is sent while an earlier write of its read, never
\* refused, waits. It survives backoff, throttling, crashes, coalescing, the
\* remap of the read in the middle of a flush and writes queued during it.
Fifo ==
  \A e, q \in Rows :
    Follows(q, e) /\ status[e] \in {"pending", "processing"} /\ e \notin died
      => q \notin sent

\* The same without the exceptions, as queue.ts states it.
FifoAsStated ==
  \A e, q \in Rows :
    e < q /\ origin[e] = origin[q] /\ Live(e) /\ e \notin died => q \notin sent

\* A progress, finish, review or delete goes out under a local id, which the
\* server does not know, only when the upsert that creates the read made none:
\* it was refused, or the book was in the library already and the local copy
\* was dropped; or the clock was set back.
LocalIdHasNoRead ==
  pc = "send" /\ entity[cur] \in Locals /\ action[cur] = "write" /\ clock = MaxSetBacks =>
    \E c \in died \cup found : action[c] \in Upserts /\ origin[c] = entity[cur]

\* What the dropped copy leaves behind: nothing is sent for it any more.
DroppedCopySilent ==
  pc = "send" /\ entity[cur] \in Locals => \A c \in found : origin[c] # entity[cur]

\* Once nothing of a target is waiting, in flight, refused or being decided,
\* the server holds the state the user last asked for, unless an exchange
\* that failed on this side had been applied or the clock was set back.
WishesReachServer ==
  \A t \in Targets :
    /\ tap.target # t /\ t \notin doubted /\ clock = MaxSetBacks
    /\ \A r \in Rows : entity[r] = t => status[r] = "gone" /\ r \notin died
    => server[t] = wish[t]

\* "An opposite write still waiting ... cancels it, so like then unlike
\* offline sends nothing": a write taken back was never applied.
CancelledNeverApplied == cancelled \cap applied = {}

\* A forced flush asked for while another runs is not lost: once the queue
\* rests, no write it was to send is still waiting for its backoff.
ForceHonoured == pc = "idle" /\ owed => \A r \in Pending : due[r]

\* While the app runs, a started flush and an open transaction go on.
FlushFairness == WF_vars(FlushStep) /\ WF_vars(Coalesce)
\* The timer ticks while writes wait, and a backoff ends.
TimerFairness == WF_vars(TimerTick) /\ \A r \in Rows : WF_vars(BackoffElapses(r))

LiveSpec == Spec /\ FlushFairness

\* Without failures, crashes or a clock set back no queued write is left to the
\* timer: the flush it asks for, or the one that follows the running flush,
\* sends it.
PromptlySettled ==
  \A r \in Rows : (status[r] = "pending") ~>
    (Settled(r) \/ \E b \in {"faults", "crashes", "setBacks"} : spent[b] > 0)

\* With the timer and the end of each backoff no queued write waits for ever.
EventuallySettled ==
  TimerFairness => \A r \in Rows : (status[r] = "pending") ~> Settled(r)

=============================================================================
