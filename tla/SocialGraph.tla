----------------------------- MODULE SocialGraph ----------------------------
(***************************************************************************)
(* Follow, unfollow, accept, reject, block and unblock                     *)
(* (apps/api/src/social/index.ts), and the privacy switch of updateProfile *)
(* (apps/api/src/identity/index.ts), as transactions over PostgreSQL at    *)
(* READ COMMITTED. A step is one statement: it reads what is committed     *)
(* when it starts, waits for the row locks it needs and holds them to the  *)
(* COMMIT, which is one step with the last statement before it.            *)
(*                                                                         *)
(* Left out: mutes, suspensions, rate limits and soft-deleted accounts     *)
(* (they only refuse a request before it writes) and the arithmetic of the *)
(* follow counters, of which the trigger's locks are kept.                 *)
(***************************************************************************)
EXTENDS FollowGraph, Sequences, FiniteSets

CONSTANTS
    Requests,       \* calls of the API, each made once
    Nobody          \* the holder of a free lock

ASSUME UsersAssumption == Users \subseteq Nat /\ Users # {}    \* ordered, as uuids are
ASSUME NobodyAssumption == Nobody \notin Requests

VARIABLES
    cards,          \* activity: the 'followed' cards
    notes,          \* notifications of a follow or of a request
    pairLock,       \* pg_advisory_xact_lock of a pair: who holds it
    rowLock,        \* who has written a row of follows and not committed
    draft,          \* what they wrote
    profileLock,    \* who holds a row of profiles
    pc,             \* the statement each request is at
    call,           \* what it asks
    tx              \* what its transaction has read and written so far

locks == <<pairLock, rowLock, draft, profileLock>>
store == <<private, follows, blocks, cards, notes>>
vars == <<store, locks, pc, call, tx>>

Couple(p) == {p[1], p[2]}
Couples == {Couple(p) : p \in Pairs}
OwnOps == {"private", "public"}
PairOps == {"follow", "unfollow", "accept", "reject", "block", "unblock"}
Calls == [op : PairOps \cup OwnOps, me : Users, you : Users]

\* The pair of a call: the actor and the target.
Pair(r) == <<call[r].me, call[r].you>>

\* The row of follows it is about: accept and reject answer the other's request.
Row(r) == IF call[r].op \in {"accept", "reject"} THEN Reverse2(Pair(r)) ELSE Pair(r)

Cards == [pair : Pairs, by : Requests \cup {Nobody}, public : BOOLEAN]
CardsOf(p) == {c \in cards : c.pair = p}

Notes == {"follow", "request"} \X Pairs

NoTx == [opening |-> FALSE, todo |-> {}, changed |-> <<>>, add |-> {}, gone |-> {}]

At(r, step) == pc[r] = step
Ended == {"done", "refused", "failed"}
Active(r) == pc[r] \notin Ended \cup {"idle"}

-----------------------------------------------------------------------------
(* Beginning and ending a transaction.                                     *)

\* updateProfile reads isPrivate before its transaction.
Arrive(r, c) ==
    /\ At(r, "idle")
    /\ c.op \in OwnOps <=> c.me = c.you
    /\ call' = [call EXCEPT ![r] = c]
    /\ tx' = [tx EXCEPT ![r].opening = c.op = "public" /\ private[c.me]]
    /\ pc' = [pc EXCEPT ![r] = CASE c.op \in {"follow", "accept", "block"} -> "lock"
                                 [] c.op = "unfollow"                      -> "check"
                                 [] c.op = "reject"                        -> "find"
                                 [] c.op = "unblock"                       -> "last"
                                 [] c.op \in OwnOps                        -> "profile"]
    /\ UNCHANGED <<store, locks>>

\* Mutant: pg_advisory_lock, the session's, which a COMMIT does not give up.
ReleaseRows(r) ==
    /\ rowLock' = [p \in Pairs |-> IF rowLock[p] = r THEN Nobody ELSE rowLock[p]]
    /\ draft' = [p \in Pairs |-> IF rowLock[p] = r THEN "none" ELSE draft[p]]
    /\ profileLock' = [u \in Users |-> IF profileLock[u] = r THEN Nobody ELSE profileLock[u]]
    /\ UNCHANGED pairLock

Release(r) ==
    /\ pairLock' = [k \in Couples |-> IF pairLock[k] = r THEN Nobody ELSE pairLock[k]]
    /\ rowLock' = [p \in Pairs |-> IF rowLock[p] = r THEN Nobody ELSE rowLock[p]]
    /\ draft' = [p \in Pairs |-> IF rowLock[p] = r THEN "none" ELSE draft[p]]
    /\ profileLock' = [u \in Users |-> IF profileLock[u] = r THEN Nobody ELSE profileLock[u]]

\* Nothing written, nothing published: a refusal (404), an early return, or the
\* connection lost.
End(r, how) ==
    /\ pc' = [pc EXCEPT ![r] = how]
    /\ tx' = [tx EXCEPT ![r] = NoTx]
    /\ Release(r)
    /\ UNCHANGED <<store, call>>

Written(r) == {p \in Pairs : rowLock[p] = r}

Goto(r, step) ==
    pc' = [pc EXCEPT ![r] = step] /\ UNCHANGED <<store, call>>

-----------------------------------------------------------------------------
(* The statements.                                                         *)

\* Mutant: the pair is not locked.
LockPairNever(r) ==
    /\ At(r, "lock")
    /\ Goto(r, IF call[r].op = "accept" THEN "find" ELSE "check")
    /\ UNCHANGED <<locks, tx>>

\* lockPair: the same lock for both directions.
LockPair(r) ==
    /\ At(r, "lock")
    /\ pairLock[Couple(Pair(r))] = Nobody
    /\ pairLock' = [pairLock EXCEPT ![Couple(Pair(r))] = r]
    /\ Goto(r, IF call[r].op = "accept" THEN "find" ELSE "check")
    /\ UNCHANGED <<rowLock, draft, profileLock, tx>>

\* loadRelationship. A block refuses, except that one's own block may be repeated.
Refuses(r) == IF call[r].op = "block" THEN Reverse2(Pair(r)) \in blocks ELSE Apart(Pair(r))

Check(r) ==
    /\ At(r, "check")
    /\ \/ Refuses(r) /\ End(r, "refused")
       \/ ~Refuses(r) /\ call[r].op = "follow" /\ follows[Row(r)] = "accepted" /\ End(r, "done")
       \/ /\ ~Refuses(r)
          /\ call[r].op = "follow" => follows[Row(r)] # "accepted"
          /\ tx' = [tx EXCEPT ![r].opening = private[call[r].you]]
          /\ Goto(r, IF call[r].op = "follow" THEN "write" ELSE "find")
          /\ UNCHANGED locks

\* Mutant: a state the table does not know.
WantedRequested(r) == IF tx[r].opening THEN "requested" ELSE "accepted"

\* INSERT INTO follows ... ON CONFLICT DO UPDATE ... WHERE state <> 'accepted'.
Wanted(r) == IF tx[r].opening THEN "pending" ELSE "accepted"

Write(r) ==
    /\ At(r, "write")
    /\ rowLock[Row(r)] = Nobody
    /\ \/ follows[Row(r)] = "accepted" /\ End(r, "done")
       \/ /\ follows[Row(r)] # "accepted"
          /\ rowLock' = [rowLock EXCEPT ![Row(r)] = r]
          /\ draft' = [draft EXCEPT ![Row(r)] = Wanted(r)]
          /\ tx' = [tx EXCEPT ![r].changed = IF Wanted(r) = "accepted" THEN <<Row(r)>> ELSE <<>>]
          /\ Goto(r, IF Wanted(r) = "accepted" THEN "count" ELSE "last")
          /\ UNCHANGED <<pairLock, profileLock>>

\* Mutant: going public accepts the requests one has made.
AboutOwn(r) == CASE call[r].op = "block"  -> {Pair(r), Reverse2(Pair(r))}
                 [] call[r].op = "public" -> {p \in Pairs : p[1] = call[r].me}
                 [] OTHER                 -> {Row(r)}

\* The WHERE of the DELETE or UPDATE of follows.
About(r) == CASE call[r].op = "block"  -> {Pair(r), Reverse2(Pair(r))}
              [] call[r].op = "public" -> {p \in Pairs : p[2] = call[r].me}
              [] OTHER                 -> {Row(r)}

Matches(r, state) ==
    IF call[r].op \in {"unfollow", "block"} THEN state # "none" ELSE state = "pending"

\* The statement starts: the rows committed now, and no later ones.
Find(r) ==
    /\ At(r, "find")
    /\ tx' = [tx EXCEPT ![r].todo = {p \in About(r) : Matches(r, follows[p])}]
    /\ Goto(r, "rows")
    /\ UNCHANGED locks

\* One of its rows, once nobody else is writing it, as it is then.
Becomes(r) == IF call[r].op \in {"accept", "public"} THEN "accepted" ELSE "none"

Touch(r, p) ==
    /\ At(r, "rows")
    /\ p \in tx[r].todo
    /\ rowLock[p] = Nobody
    /\ \/ /\ Matches(r, follows[p])
          /\ rowLock' = [rowLock EXCEPT ![p] = r]
          /\ draft' = [draft EXCEPT ![p] = Becomes(r)]
          /\ tx' = [tx EXCEPT ![r].todo = @ \ {p},
                              ![r].changed = IF "accepted" \in {follows[p], Becomes(r)}
                                             THEN Append(@, p) ELSE @]
       \/ /\ ~Matches(r, follows[p])
          /\ tx' = [tx EXCEPT ![r].todo = @ \ {p}]
          /\ UNCHANGED <<rowLock, draft>>
    /\ UNCHANGED <<store, pairLock, profileLock, pc, call>>

Rows(r) ==
    /\ At(r, "rows")
    /\ tx[r].todo = {}
    /\ \/ call[r].op = "accept" /\ Written(r) = {} /\ End(r, "refused")
       \/ /\ call[r].op = "accept" => Written(r) # {}
          /\ Goto(r, IF tx[r].changed # <<>> THEN "count"
                     ELSE IF call[r].op = "unfollow" THEN "card" ELSE "last")
          /\ UNCHANGED <<locks, tx>>

\* Mutant: the trigger locks neither profile.
UnlockedNone(r, p) == {}

\* follows_counter_trigger, after the statement, row by row: both profiles, the
\* lower id first.
Unlocked(r, p) == {u \in Couple(p) : profileLock[u] # r}

Lower(us) == CHOOSE u \in us : \A v \in us : u <= v

Count(r) ==
    /\ At(r, "count")
    /\ tx[r].changed # <<>>
    /\ LET p == Head(tx[r].changed)
           need == Unlocked(r, p)
       IN  \/ /\ need # {}
              /\ profileLock[Lower(need)] = Nobody
              /\ profileLock' = [profileLock EXCEPT ![Lower(need)] = r]
              /\ UNCHANGED tx
           \/ /\ need = {}
              /\ tx' = [tx EXCEPT ![r].changed = Tail(@)]
              /\ UNCHANGED profileLock
    /\ UNCHANGED <<store, pairLock, rowLock, draft, pc, call>>

Counted(r) ==
    /\ At(r, "count")
    /\ tx[r].changed = <<>>
    /\ Goto(r, IF call[r].op \in {"block", "public"} THEN "last" ELSE "card")
    /\ UNCHANGED <<locks, tx>>

\* recordActivity reads the follower's privacy; deleteFollowActivity takes the
\* cards there are.
Card(r) ==
    /\ At(r, "card")
    /\ IF call[r].op = "unfollow"
       THEN tx' = [tx EXCEPT ![r].gone = CardsOf(Row(r))]
       ELSE tx' = [tx EXCEPT ![r].add =
                      {[pair |-> Row(r), by |-> r, public |-> ~private[Row(r)[1]]]}]
    /\ Goto(r, "last")
    /\ UNCHANGED locks

\* UPDATE profiles, which locks the row before follows is looked at.
Profile(r) ==
    /\ At(r, "profile")
    /\ profileLock[call[r].me] = Nobody
    /\ profileLock' = [profileLock EXCEPT ![call[r].me] = r]
    /\ Goto(r, IF tx[r].opening THEN "find" ELSE "last")
    /\ UNCHANGED <<pairLock, rowLock, draft, tx>>

-----------------------------------------------------------------------------
(* The last statement and the COMMIT.                                      *)

Published(r) == [p \in Pairs |-> IF rowLock[p] = r THEN draft[p] ELSE follows[p]]

\* A card of one's own changes hands while the profile is locked, so none is
\* added between setAccountPrivacy and the COMMIT.
Recast(r, c) ==
    IF call[r].op = "private" /\ c.pair[1] = call[r].me THEN [c EXCEPT !.public = FALSE]
    ELSE IF tx[r].opening /\ call[r].op = "public" /\ c.pair[1] = call[r].me
    THEN [c EXCEPT !.public = TRUE]
    ELSE c

\* Mutant: a block deletes the follows and leaves their cards.
SeveredFollows(r) == tx[r].gone

Severed(r) == IF call[r].op = "block" THEN CardsOf(Pair(r)) \cup CardsOf(Reverse2(Pair(r)))
              ELSE tx[r].gone

\* Notifier: follow, unfollow and requestResolved.
Told(r) ==
    CASE call[r].op = "follow" -> notes \cup {<<IF draft[Row(r)] = "pending" THEN "request" ELSE "follow", Row(r)>>}
      [] call[r].op = "unfollow" -> notes \ {<<"follow", Row(r)>>, <<"request", Row(r)>>}
      [] call[r].op \in {"accept", "reject"} -> notes \ {<<"request", Row(r)>>}
      [] OTHER -> notes

\* A statement waiting for a row that is deleted does not see a row inserted
\* after it.
Overtaken(r, q) == {p \in tx[q].todo : rowLock[p] = r /\ draft[p] = "none"}

Commit(r) ==
    /\ At(r, "last")
    /\ follows' = Published(r)
    /\ blocks' = CASE call[r].op = "block"   -> blocks \cup {Pair(r)}
                   [] call[r].op = "unblock" -> blocks \ {Pair(r)}
                   [] OTHER                  -> blocks
    /\ private' = IF call[r].op \in OwnOps
                  THEN [private EXCEPT ![call[r].me] = call[r].op = "private"] ELSE private
    /\ cards' = {Recast(r, c) : c \in (cards \ Severed(r)) \cup tx[r].add}
    /\ notes' = Told(r)
    /\ tx' = [q \in Requests |-> IF q = r THEN NoTx
                                 ELSE [tx[q] EXCEPT !.todo = @ \ Overtaken(r, q)]]
    /\ pc' = [pc EXCEPT ![r] = "done"]
    /\ Release(r)
    /\ UNCHANGED call

-----------------------------------------------------------------------------
(* Waiting, and the cycles PostgreSQL breaks.                              *)

WaitsFor(r) ==
    {q \in Requests \ {r} :
        \/ At(r, "lock") /\ pairLock[Couple(Pair(r))] = q
        \/ At(r, "write") /\ rowLock[Row(r)] = q
        \/ At(r, "rows") /\ \E p \in tx[r].todo : rowLock[p] = q
        \/ At(r, "profile") /\ profileLock[call[r].me] = q
        \/ /\ At(r, "count") /\ tx[r].changed # <<>>
           /\ Unlocked(r, Head(tx[r].changed)) # {}
           /\ profileLock[Lower(Unlocked(r, Head(tx[r].changed)))] = q}

Deadlocked(r) ==
    \E ring \in SUBSET Requests :
        r \in ring /\ \A q \in ring : WaitsFor(q) \cap ring # {}

Victim(r) == Deadlocked(r) /\ End(r, "failed")

\* The connection or the process is lost: PostgreSQL rolls back.
Fail(r) == Active(r) /\ End(r, "failed")

Statement(r) ==
    \/ LockPair(r) \/ Check(r) \/ Write(r) \/ Find(r) \/ (\E p \in Pairs : Touch(r, p))
    \/ Rows(r) \/ Count(r) \/ Counted(r) \/ Card(r) \/ Profile(r) \/ Commit(r)

Quiet == (\A r \in Requests : ~Active(r)) /\ UNCHANGED vars

Next ==
    \/ \E r \in Requests : Statement(r) \/ Victim(r) \/ Fail(r)
    \/ \E r \in Requests, c \in Calls : Arrive(r, c)
    \/ Quiet

\* A graph at rest, as past requests leave it.
Init ==
    /\ private \in [Users -> BOOLEAN]
    /\ follows \in [Pairs -> States]
    /\ blocks \in SUBSET Pairs
    /\ \A p \in Pairs : /\ Apart(p) => follows[p] = "none"
                        /\ follows[p] = "pending" => private[p[2]]
    /\ cards = {[pair |-> p, by |-> Nobody, public |-> ~private[p[1]]] :
                   p \in {q \in Pairs : follows[q] = "accepted"}}
    /\ notes = {<<"request", p>> : p \in {q \in Pairs : follows[q] = "pending"}}
    /\ pairLock = [k \in Couples |-> Nobody]
    /\ rowLock = [p \in Pairs |-> Nobody]
    /\ draft = [p \in Pairs |-> "none"]
    /\ profileLock = [u \in Users |-> Nobody]
    /\ pc = [r \in Requests |-> "idle"]
    /\ call = [r \in Requests |-> CHOOSE c \in Calls : TRUE]
    /\ tx = [r \in Requests |-> NoTx]

Spec == Init /\ [][Next]_vars

\* A request runs on; a deadlock is found.
Fairness == \A r \in Requests : WF_vars(Statement(r)) /\ WF_vars(Victim(r))

FairSpec == Spec /\ Fairness

-----------------------------------------------------------------------------
(* Properties.                                                             *)

Transactions == [opening : BOOLEAN, todo : SUBSET Pairs, changed : Seq(Pairs),
                 add : SUBSET Cards, gone : SUBSET Cards]
Steps == {"idle", "lock", "check", "write", "find", "rows", "count", "card", "profile", "last"}

(* The types of the variables.                                             *)
TypeOK ==
    /\ private \in [Users -> BOOLEAN]
    /\ follows \in [Pairs -> States]
    /\ blocks \subseteq Pairs
    /\ cards \subseteq Cards
    /\ notes \subseteq Notes
    /\ pairLock \in [Couples -> Requests \cup {Nobody}]
    /\ rowLock \in [Pairs -> Requests \cup {Nobody}]
    /\ draft \in [Pairs -> States]
    /\ profileLock \in [Users -> Requests \cup {Nobody}]
    /\ pc \in [Requests -> Steps \cup Ended]
    /\ call \in [Requests -> Calls]
    /\ tx \in [Requests -> Transactions]

(* A 'followed' card stands for an accepted follow, and a follow has one at *)
(* most, however follows, unfollows, answers and blocks of the pair         *)
(* interleave.                                                              *)
CardsHaveFollows ==
    \A c \in cards : /\ follows[c.pair] = "accepted"
                     /\ CardsOf(c.pair) = {c}

(* No card of a private account is public (recordActivity reads the flag    *)
(* while the account may be closing).                                       *)
PrivateCards == \A c \in cards : private[c.pair[1]] => ~c.public

(* A request is answered, also when lock orders cross.                      *)
Answered == \A r \in Requests : Active(r) ~> ~Active(r)

-----------------------------------------------------------------------------
(* Properties the code does not have.                                      *)

(* "one lock order cannot cycle" (drizzle/0036_social_graph_audit.sql).     *)
NoLockCycle == \A r \in Requests : ~Deadlocked(r)

(* "The follow row and its activity go together": no card is taken from a   *)
(* follow that stays.                                                       *)
CardGoesWithFollow ==
    [][\A c \in cards : CardsOf(c.pair)' = {} => follows'[c.pair] # "accepted"]_vars

(* No request is left waiting at an account that is public, at rest.        *)
NoPendingOnPublic ==
    (\A r \in Requests : ~Active(r)) => \A p \in Pairs : follows[p] = "pending" => private[p[2]]

(* A request that waits has its notification.                               *)
RequestTold == \A p \in Pairs : follows[p] = "pending" => <<"request", p>> \in notes
=============================================================================
