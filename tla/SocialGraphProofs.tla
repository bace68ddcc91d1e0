-------------------------- MODULE SocialGraphProofs -------------------------
(***************************************************************************)
(* The social graph for any set of users and any number of requests: types *)
(* and that the transactions of SocialGraph implement the single steps of  *)
(* FollowGraph, so that nobody follows across a block; and that the cards  *)
(* of the feed are those of accepted follows, none of a private account    *)
(* public.                                                                 *)
(***************************************************************************)
EXTENDS SocialGraph, SequenceTheorems, TLAPS

-----------------------------------------------------------------------------
(* What a request that has not committed can rely on.                      *)

\* The operations that come to a statement.
Comers(step) ==
    CASE step = "lock"                  -> {"follow", "accept", "block"}
      [] step = "check"                 -> {"follow", "unfollow", "block"}
      [] step = "write"                 -> {"follow"}
      [] step \in {"find", "rows"}      -> {"unfollow", "accept", "reject", "block", "public"}
      [] step = "count"                 -> PairOps \cup {"public"}
      [] step = "card"                  -> PairOps \ {"block"}
      [] step = "profile"               -> OwnOps
      [] OTHER                          -> PairOps \cup OwnOps

Shape(r) ==
    /\ call[r].op \in Comers(pc[r])
    /\ pc[r] # "idle" => (call[r].op \in OwnOps <=> call[r].me = call[r].you)
    /\ pc[r] = "profile" /\ tx[r].opening => call[r].op = "public"
    /\ pc[r] = "rows" => tx[r].todo \subseteq About(r)

\* Who locks the pair, and from which statement on.
Holds(r) ==
    call[r].op \in {"follow", "accept", "block"} /\ pc[r] \in Steps \ {"idle", "lock"}
        => pairLock[Couple(Pair(r))] = r

\* Nobody blocks while a follow is being written.
Together(r) ==
    call[r].op = "follow" /\ pc[r] \in {"write", "count", "card", "last"} => ~Apart(Pair(r))

\* Nor does the other while a block is.
Unopposed(r) ==
    call[r].op = "block" /\ pc[r] \in {"find", "rows", "count", "last"} => Reverse2(Pair(r)) \notin blocks

\* A block has deleted the follows between the two, or is about to.
Severs(r) ==
    call[r].op = "block" /\ pc[r] \in {"rows", "count", "last"}
        => \A p \in About(r) : \/ follows[p] = "none"
                               \/ rowLock[p] = r
                               \/ pc[r] = "rows" /\ p \in tx[r].todo

\* What it has written, over what.
Drafts(r) ==
    \A p \in Pairs : rowLock[p] = r =>
        /\ p \in About(r)
        /\ pc[r] \in {"rows", "count", "card", "last"}
        /\ CASE call[r].op = "follow"               -> /\ draft[p] \in {"pending", "accepted"}
                                                       /\ follows[p] # "accepted"
             [] call[r].op \in {"accept", "public"} -> draft[p] = "accepted" /\ follows[p] = "pending"
             [] OTHER                               -> /\ draft[p] = "none"
                                                       /\ call[r].op \in {"unfollow", "reject", "block"}

Mine(r) == Shape(r) /\ Holds(r) /\ Together(r) /\ Unopposed(r) /\ Severs(r) /\ Drafts(r)

Inv == TypeOK /\ NoFollowAcrossBlock /\ \A r \in Requests : Mine(r)

-----------------------------------------------------------------------------
(* Pairs and the records of a request.                                     *)

LEMMA PairFacts ==
    ASSUME NEW p \in Pairs
    PROVE  /\ Reverse2(p) \in Pairs /\ Reverse2(Reverse2(p)) = p
           /\ Couple(p) \in Couples /\ Couple(Reverse2(p)) = Couple(p)
           /\ Apart(Reverse2(p)) <=> Apart(p)
           /\ \A o \in Pairs : Couple(o) = Couple(p) => o = p \/ o = Reverse2(p)
  BY DEF Pairs, Reverse2, Couple, Couples, Apart

LEMMA CallFacts ==
    ASSUME TypeOK, NEW r \in Requests, call[r].me # call[r].you
    PROVE  Pair(r) \in Pairs /\ Row(r) \in Pairs /\ Couple(Pair(r)) \in Couples
  <1>1. call[r].me \in Users /\ call[r].you \in Users
    BY DEF TypeOK, Calls
  <1>2. Pair(r) \in Pairs
    BY <1>1 DEF Pair, Pairs
  <1> QED
    BY <1>2, PairFacts DEF Row

LEMMA AboutFacts ==
    ASSUME TypeOK, NEW r \in Requests
    PROVE  /\ call[r].op \in PairOps \ {"block"} => About(r) = {Row(r)}
           /\ call[r].op = "block" => About(r) = {Pair(r), Reverse2(Pair(r))}
           /\ call[r].op = "public" => About(r) = {p \in Pairs : p[2] = call[r].me}
           /\ call[r].op \in {"follow", "unfollow", "block", "unblock"} => Row(r) = Pair(r)
           /\ call[r].op \in {"accept", "reject"} => Row(r) = Reverse2(Pair(r))
           /\ call[r].op \in PairOps \cup OwnOps
  BY DEF TypeOK, Calls, About, Row, PairOps, OwnOps

LEMMA TxFields ==
    ASSUME NEW x \in Transactions
    PROVE  /\ x.todo \subseteq Pairs /\ x.changed \in Seq(Pairs) /\ x.add \subseteq Cards
           /\ x.gone \subseteq Cards /\ x.opening \in BOOLEAN
           /\ \A o \in BOOLEAN :
                /\ [x EXCEPT !.opening = o] \in Transactions
                /\ [x EXCEPT !.opening = o].opening = o /\ [x EXCEPT !.opening = o].todo = x.todo
           /\ \A C \in Seq(Pairs) :
                /\ [x EXCEPT !.changed = C] \in Transactions
                /\ [x EXCEPT !.changed = C].todo = x.todo /\ [x EXCEPT !.changed = C].opening = x.opening
           /\ \A D \in SUBSET Cards :
                /\ [x EXCEPT !.add = D] \in Transactions /\ [x EXCEPT !.gone = D] \in Transactions
                /\ [x EXCEPT !.add = D].todo = x.todo /\ [x EXCEPT !.gone = D].todo = x.todo
                /\ [x EXCEPT !.add = D].opening = x.opening /\ [x EXCEPT !.gone = D].opening = x.opening
  BY DEF Transactions

LEMMA TodoFields ==
    ASSUME NEW x \in Transactions, NEW T, T \subseteq Pairs
    PROVE  /\ [x EXCEPT !.todo = T] \in Transactions
           /\ [x EXCEPT !.todo = T].todo = T /\ [x EXCEPT !.todo = T].opening = x.opening
           /\ [x EXCEPT !.todo = T].changed = x.changed
  BY DEF Transactions

LEMMA NoTxFields == NoTx \in Transactions /\ NoTx.todo = {} /\ NoTx.opening = FALSE
  BY EmptySeq DEF NoTx, Transactions

LEMMA NewCard ==
    ASSUME NEW p \in Pairs, NEW by \in Requests \cup {Nobody}, NEW b
    PROVE  [pair |-> p, by |-> by, public |-> ~b] \in Cards
  <1>1. (~b) \in BOOLEAN
    OBVIOUS
  <1> DEFINE c == ~b
  <1> HIDE DEF c
  <1>2. c \in BOOLEAN => [pair |-> p, by |-> by, public |-> c] \in Cards
    BY DEF Cards
  <1> QED
    BY <1>1, <1>2 DEF c

-----------------------------------------------------------------------------
(* The initial states.                                                     *)

LEMMA InitInv == Init => Inv
  <1> SUFFICES ASSUME Init PROVE Inv
    OBVIOUS
  <1>1. (CHOOSE c \in Calls : TRUE) \in Calls
    <2>1. PICK u \in Users : TRUE
      BY UsersAssumption
    <2>2. [op |-> "private", me |-> u, you |-> u] \in Calls
      BY <2>1 DEF Calls, OwnOps
    <2> QED
      BY <2>2
  <1>2. cards \subseteq Cards
    <2> SUFFICES ASSUME NEW c \in cards PROVE c \in Cards
      OBVIOUS
    <2>1. PICK p \in Pairs : c = [pair |-> p, by |-> Nobody, public |-> ~private[p[1]]]
      BY DEF Init
    <2> QED
      BY <2>1, NewCard
  <1>3. notes \subseteq Notes
    BY DEF Init, Notes
  <1>4. tx \in [Requests -> Transactions]
    BY NoTxFields DEF Init
  <1>5. TypeOK
    <2>1. draft \in [Pairs -> States]
      BY DEF Init, States
    <2>2. pc \in [Requests -> Steps \cup Ended]
      BY DEF Init, Steps
    <2>3. call \in [Requests -> Calls]
      BY <1>1 DEF Init
    <2> QED
      BY <1>2, <1>3, <1>4, <2>1, <2>2, <2>3 DEF Init, TypeOK
  <1>6. NoFollowAcrossBlock
    BY DEF Init, NoFollowAcrossBlock
  <1>7. ASSUME NEW r \in Requests PROVE Mine(r)
    <2>1. pc[r] = "idle" /\ \A p \in Pairs : rowLock[p] # r
      BY NobodyAssumption DEF Init
    <2>2. call[r].op \in PairOps \cup OwnOps
      BY <1>5, AboutFacts
    <2>3. Shape(r)
      BY <2>1, <2>2 DEF Shape, Comers
    <2> QED
      BY <2>1, <2>3 DEF Mine, Holds, Together, Unopposed, Severs, Drafts
  <1> QED
    BY <1>5, <1>6, <1>7 DEF Inv

-----------------------------------------------------------------------------
(* What a statement leaves to the other requests.                          *)

Kept(q) ==
    /\ pc'[q] = pc[q] /\ call'[q] = call[q]
    /\ tx'[q].opening = tx[q].opening /\ tx'[q].todo = tx[q].todo
    /\ \A p \in Pairs : rowLock'[p] = q <=> rowLock[p] = q
    /\ \A p \in Pairs : rowLock[p] = q => draft'[p] = draft[p]
    /\ \A k \in Couples : pairLock[k] = q => pairLock'[k] = q

\* What a request asks stays what it is.
LEMMA SameCall ==
    ASSUME NEW q, call'[q] = call[q]
    PROVE  /\ Pair(q)' = Pair(q) /\ Row(q)' = Row(q) /\ About(q)' = About(q)
  BY DEF Pair, Row, About

LEMMA PairOfHolder ==
    ASSUME TypeOK, NEW r \in Requests, Shape(r), call[r].op \in PairOps, pc[r] # "idle"
    PROVE  Pair(r) \in Pairs /\ Row(r) \in Pairs /\ Couple(Pair(r)) \in Couples
  <1>1. call[r].op \notin OwnOps
    BY DEF PairOps, OwnOps
  <1> QED
    BY <1>1, CallFacts DEF Shape

LEMMA KeptMine ==
    ASSUME TypeOK, NEW q \in Requests, Mine(q), Kept(q), UNCHANGED <<follows, blocks>>
    PROVE  Mine(q)'
  <1>1. Pair(q)' = Pair(q) /\ Row(q)' = Row(q) /\ About(q)' = About(q)
    BY SameCall DEF Kept
  <1>2. Shape(q)'
    BY <1>1 DEF Mine, Shape, Kept
  <1>3. Holds(q)'
    <2> SUFFICES ASSUME Holds(q)!1' PROVE Holds(q)!2'
      BY DEF Holds
    <2>1. Holds(q)!1
      BY DEF Kept
    <2>2. Couple(Pair(q)) \in Couples
      BY <2>1, PairOfHolder DEF Mine, PairOps
    <2> QED
      BY <1>1, <2>1, <2>2 DEF Mine, Holds, Kept, Couple
  <1>4. Together(q)' /\ Unopposed(q)'
    BY <1>1 DEF Mine, Together, Unopposed, Kept, Apart, Reverse2
  <1>5. Severs(q)'
    <2> SUFFICES ASSUME call[q].op = "block", pc[q] \in {"rows", "count", "last"}, NEW p \in About(q)
                 PROVE  follows[p] = "none" \/ rowLock'[p] = q \/ (pc[q] = "rows" /\ p \in tx[q].todo)
      BY <1>1 DEF Severs, Kept
    <2>1. Pair(q) \in Pairs
      BY PairOfHolder DEF Mine, PairOps
    <2>2. p \in Pairs
      BY <2>1, AboutFacts, PairFacts
    <2> QED
      BY <2>2 DEF Mine, Severs, Kept
  <1>6. Drafts(q)'
    BY <1>1 DEF Mine, Drafts, Kept
  <1> QED
    BY <1>2, <1>3, <1>4, <1>5, <1>6 DEF Mine

LEMMA Assemble ==
    ASSUME Inv, NEW r \in Requests, TypeOK', Mine(r)', UNCHANGED <<follows, blocks>>,
           \A q \in Requests \ {r} : Kept(q)
    PROVE  Inv'
  <1>1. \A q \in Requests : Mine(q)'
    BY KeptMine DEF Inv
  <1>2. NoFollowAcrossBlock'
    BY DEF Inv, NoFollowAcrossBlock, Apart
  <1> QED
    BY <1>1, <1>2 DEF Inv

\* Nothing of a request that has ended is left.
LEMMA RestMine ==
    ASSUME NEW r \in Requests, pc'[r] \in Ended, call'[r].op \in PairOps \cup OwnOps,
           call'[r].op \in OwnOps <=> call'[r].me = call'[r].you,
           \A p \in Pairs : rowLock'[p] # r
    PROVE  Mine(r)'
  <1>1. Shape(r)'
    BY DEF Shape, Comers, Ended
  <1> QED
    BY <1>1 DEF Mine, Holds, Together, Unopposed, Severs, Drafts, Ended, Steps

LEMMA Releasing ==
    ASSUME TypeOK, NEW r \in Requests, Release(r)
    PROVE  /\ pairLock' \in [Couples -> Requests \cup {Nobody}]
           /\ rowLock' \in [Pairs -> Requests \cup {Nobody}]
           /\ draft' \in [Pairs -> States]
           /\ profileLock' \in [Users -> Requests \cup {Nobody}]
           /\ \A p \in Pairs : rowLock'[p] # r
           /\ \A q \in Requests \ {r} :
                /\ \A p \in Pairs : /\ rowLock'[p] = q <=> rowLock[p] = q
                                    /\ rowLock[p] = q => draft'[p] = draft[p]
                /\ \A k \in Couples : pairLock[k] = q => pairLock'[k] = q
  <1> USE NobodyAssumption DEF TypeOK, Release
  <1>1. pairLock' \in [Couples -> Requests \cup {Nobody}]
    OBVIOUS
  <1>2. rowLock' \in [Pairs -> Requests \cup {Nobody}]
    OBVIOUS
  <1>3. draft' \in [Pairs -> States]
    BY DEF States
  <1>4. profileLock' \in [Users -> Requests \cup {Nobody}]
    OBVIOUS
  <1>5. \A p \in Pairs : rowLock'[p] # r
    OBVIOUS
  <1>6. ASSUME NEW q \in Requests \ {r}
        PROVE  /\ \A p \in Pairs : /\ rowLock'[p] = q <=> rowLock[p] = q
                                   /\ rowLock[p] = q => draft'[p] = draft[p]
               /\ \A k \in Couples : pairLock[k] = q => pairLock'[k] = q
    OBVIOUS
  <1> QED
    BY <1>1, <1>2, <1>3, <1>4, <1>5, <1>6

LEMMA EndInv ==
    ASSUME Inv, NEW r \in Requests, NEW how \in Ended, pc[r] # "idle", End(r, how) PROVE Inv'
  <1> USE DEF Inv
  <1>1. /\ pc' = [pc EXCEPT ![r] = how] /\ tx' = [tx EXCEPT ![r] = NoTx]
        /\ Release(r) /\ UNCHANGED <<store, call>>
    BY DEF End
  <1>2. pc' \in [Requests -> Steps \cup Ended] /\ tx' \in [Requests -> Transactions]
    BY <1>1, NoTxFields DEF TypeOK
  <1>3. TypeOK'
    BY <1>1, <1>2, Releasing DEF TypeOK, store
  <1>4. Mine(r)'
    <2>1. pc'[r] \in Ended /\ call' = call
      BY <1>1 DEF TypeOK
    <2>2. call[r].op \in PairOps \cup OwnOps /\ (call[r].op \in OwnOps <=> call[r].me = call[r].you)
      BY AboutFacts DEF Mine, Shape
    <2> QED
      BY <1>1, <2>1, <2>2, Releasing, RestMine
  <1>5. ASSUME NEW q \in Requests \ {r} PROVE Kept(q)
    BY <1>1, <1>5, Releasing DEF Kept, TypeOK
  <1>6. UNCHANGED <<follows, blocks>>
    BY <1>1 DEF store
  <1> QED
    BY <1>3, <1>4, <1>5, <1>6, Assemble

-----------------------------------------------------------------------------
(* The statements.                                                         *)

\* One that changes what r itself knows, and neither rows nor pairs.
LEMMA Alone ==
    ASSUME Inv, NEW r \in Requests, NEW step \in Steps \cup Ended, NEW x \in Transactions,
           pc' = [pc EXCEPT ![r] = step], tx' = [tx EXCEPT ![r] = x],
           UNCHANGED <<store, call, pairLock, rowLock, draft>>,
           profileLock' \in [Users -> Requests \cup {Nobody}],
           Mine(r)'
    PROVE  Inv'
  <1> USE DEF Inv
  <1>1. TypeOK'
    BY DEF TypeOK, store
  <1>2. \A q \in Requests \ {r} : Kept(q)
    BY DEF Kept, TypeOK
  <1>3. UNCHANGED <<follows, blocks>>
    BY DEF store
  <1> QED
    BY <1>1, <1>2, <1>3, Assemble

LEMMA ArriveInv == ASSUME Inv, NEW r \in Requests, NEW c \in Calls, Arrive(r, c) PROVE Inv'
  <1> USE DEF Inv
  <1> DEFINE o == c.op = "public" /\ private[c.me]
             step == CASE c.op \in {"follow", "accept", "block"} -> "lock"
                       [] c.op = "unfollow"                      -> "check"
                       [] c.op = "reject"                        -> "find"
                       [] c.op = "unblock"                       -> "last"
                       [] c.op \in OwnOps                        -> "profile"
             x == [tx[r] EXCEPT !.opening = o]
  <1>1. /\ pc[r] = "idle" /\ (c.op \in OwnOps <=> c.me = c.you)
        /\ call' = [call EXCEPT ![r] = c]
        /\ UNCHANGED <<store, locks>>
    BY DEF Arrive, At
  <1>2. c.op \in PairOps \cup OwnOps
    BY DEF Calls
  <1>3. step \in Comers(step) \cup Steps /\ c.op \in Comers(step) /\ step \in Steps \ {"idle", "rows"}
        /\ (step = "find" => c.op = "reject") /\ (step = "last" => c.op = "unblock")
        /\ (step \notin {"lock", "find", "last", "profile"} => c.op = "unfollow")
        /\ (c.op \in {"follow", "accept", "block"} => step = "lock")
    BY <1>2 DEF Comers, Steps, OwnOps, PairOps
  <1>4. o \in BOOLEAN /\ tx[r] \in Transactions
    BY DEF TypeOK
  <1>5. o => c.op = "public"
    OBVIOUS
  <1>6. pc' = [pc EXCEPT ![r] = step] /\ tx' = [tx EXCEPT ![r] = x]
    BY DEF Arrive
  <1> HIDE DEF o
  <1>7. x \in Transactions /\ x.opening = o /\ x.todo = tx[r].todo
    BY <1>4, TxFields
  <1> HIDE DEF step, x
  <1>8. TypeOK'
    BY <1>1, <1>3, <1>6, <1>7 DEF TypeOK, store, locks
  <1>9. pc'[r] = step /\ tx'[r].opening = o /\ call'[r] = c
    BY <1>1, <1>6, <1>7 DEF TypeOK
  <1>10. \A p \in Pairs : rowLock'[p] # r
    BY <1>1 DEF Mine, Drafts, locks
  <1>11. Mine(r)'
    <2>1. Shape(r)'
      BY <1>1, <1>3, <1>5, <1>9 DEF Shape
    <2>2. Holds(r)' /\ Together(r)' /\ Unopposed(r)' /\ Severs(r)'
      BY <1>3, <1>9 DEF Holds, Together, Unopposed, Severs
    <2>3. Drafts(r)'
      BY <1>10 DEF Drafts
    <2> QED
      BY <2>1, <2>2, <2>3 DEF Mine
  <1>12. \A q \in Requests \ {r} : Kept(q)
    BY <1>1, <1>6 DEF Kept, TypeOK, locks
  <1> QED
    BY <1>1, <1>8, <1>11, <1>12, Assemble DEF store

LEMMA LockPairInv == ASSUME Inv, NEW r \in Requests, LockPair(r) PROVE Inv'
  <1> USE DEF Inv
  <1> DEFINE k == Couple(Pair(r))
             step == IF call[r].op = "accept" THEN "find" ELSE "check"
  <1>1. /\ pc[r] = "lock" /\ pairLock[k] = Nobody /\ pairLock' = [pairLock EXCEPT ![k] = r]
        /\ pc' = [pc EXCEPT ![r] = step]
        /\ UNCHANGED <<store, call, rowLock, draft, profileLock, tx>>
    BY DEF LockPair, Goto, At
  <1>2. call[r].op \in {"follow", "accept", "block"}
    BY <1>1 DEF Mine, Shape, Comers
  <1>3. k \in Couples
    BY <1>1, <1>2, PairOfHolder DEF Mine, PairOps
  <1>4. step \in {"find", "check"} /\ (step = "find" => call[r].op = "accept")
        /\ (step = "check" => call[r].op \in {"follow", "block"})
    BY <1>2
  <1>5. k' = k
    BY <1>1, SameCall DEF Couple
  <1> HIDE DEF k, step
  <1>6. TypeOK'
    BY <1>1, <1>4 DEF TypeOK, store, Steps
  <1>7. pc'[r] = step /\ pairLock'[k] = r
    BY <1>1, <1>3 DEF TypeOK
  <1>8. \A p \in Pairs : rowLock[p] # r
    BY <1>1 DEF Mine, Drafts
  <1>9. Mine(r)'
    <2>1. Shape(r)'
      BY <1>1, <1>4, <1>7 DEF Mine, Shape, Comers
    <2>2. Holds(r)'
      BY <1>5, <1>7 DEF Holds, k
    <2>3. Together(r)' /\ Unopposed(r)' /\ Severs(r)'
      BY <1>1, <1>4, <1>7 DEF Together, Unopposed, Severs
    <2>4. Drafts(r)'
      BY <1>1, <1>8 DEF Drafts
    <2> QED
      BY <2>1, <2>2, <2>3, <2>4 DEF Mine
  <1>10. \A q \in Requests \ {r} : Kept(q)
    BY <1>1, NobodyAssumption DEF Kept, TypeOK
  <1> QED
    BY <1>1, <1>6, <1>9, <1>10, Assemble DEF store

LEMMA CheckInv == ASSUME Inv, NEW r \in Requests, Check(r) PROVE Inv'
  <1> USE DEF Inv
  <1>1. pc[r] = "check" /\ call[r].op \in {"follow", "unfollow", "block"}
    BY DEF Check, At, Mine, Shape, Comers
  <1>2. CASE End(r, "refused") \/ End(r, "done")
    BY <1>1, <1>2, EndInv DEF Ended
  <1>3. CASE ~Refuses(r) /\ tx' = [tx EXCEPT ![r].opening = private[call[r].you]]
             /\ Goto(r, IF call[r].op = "follow" THEN "write" ELSE "find") /\ UNCHANGED locks
    <2> DEFINE x == [tx[r] EXCEPT !.opening = private[call[r].you]]
               step == IF call[r].op = "follow" THEN "write" ELSE "find"
    <2>1. private[call[r].you] \in BOOLEAN
      BY DEF TypeOK, Calls
    <2>2. x \in Transactions /\ tx' = [tx EXCEPT ![r] = x]
      BY <1>3, <2>1, TxFields DEF TypeOK
    <2>3. /\ step \in {"write", "find"} /\ (step = "write" <=> call[r].op = "follow")
          /\ pc' = [pc EXCEPT ![r] = step] /\ UNCHANGED <<store, call, locks>>
      BY <1>3 DEF Goto
    <2> HIDE DEF x, step
    <2>4. pc'[r] = step /\ Pair(r)' = Pair(r) /\ \A p \in Pairs : rowLock[p] # r
      BY <1>1, <2>3, SameCall DEF TypeOK, Mine, Drafts
    <2>5. Shape(r)'
      BY <1>1, <2>3, <2>4 DEF Mine, Shape, Comers
    <2>6. Holds(r)'
      BY <1>1, <2>3, <2>4 DEF Mine, Holds, locks, Couple, Steps
    <2>7. Together(r)' /\ Unopposed(r)'
      BY <1>3, <2>3, <2>4 DEF Together, Unopposed, Refuses, Apart, Reverse2, store
    <2>8. Severs(r)' /\ Drafts(r)'
      BY <2>3, <2>4 DEF Severs, Drafts, locks
    <2>9. Mine(r)'
      BY <2>5, <2>6, <2>7, <2>8 DEF Mine
    <2>10. step \in Steps \cup Ended
      BY <2>3 DEF Steps
    <2> QED
      BY <2>2, <2>3, <2>9, <2>10, Alone DEF TypeOK, locks
  <1> QED
    BY <1>2, <1>3 DEF Check

LEMMA WriteInv == ASSUME Inv, NEW r \in Requests, Write(r) PROVE Inv'
  <1> USE DEF Inv
  <1>1. pc[r] = "write" /\ call[r].op = "follow" /\ rowLock[Row(r)] = Nobody
    BY DEF Write, At, Mine, Shape, Comers
  <1>2. CASE End(r, "done")
    BY <1>1, <1>2, EndInv DEF Ended
  <1>3. CASE ~End(r, "done")
    <2> DEFINE C == IF Wanted(r) = "accepted" THEN <<Row(r)>> ELSE <<>>
               x == [tx[r] EXCEPT !.changed = C]
               step == IF Wanted(r) = "accepted" THEN "count" ELSE "last"
    <2>1. Pair(r) \in Pairs /\ Row(r) = Pair(r) /\ About(r) = {Row(r)}
      BY <1>1, PairOfHolder, AboutFacts DEF Mine, PairOps
    <2>2. /\ follows[Row(r)] # "accepted"
          /\ rowLock' = [rowLock EXCEPT ![Row(r)] = r]
          /\ draft' = [draft EXCEPT ![Row(r)] = Wanted(r)]
          /\ tx' = [tx EXCEPT ![r].changed = C]
          /\ pc' = [pc EXCEPT ![r] = step]
          /\ UNCHANGED <<store, call, pairLock, profileLock>>
      BY <1>3 DEF Write, Goto
    <2>3. Wanted(r) \in {"pending", "accepted"} /\ step \in {"count", "last"}
      BY DEF Wanted
    <2>4. C \in Seq(Pairs)
      BY <2>1, EmptySeq, SeqDef
    <2>5. x \in Transactions /\ tx' = [tx EXCEPT ![r] = x]
      BY <2>2, <2>4, TxFields DEF TypeOK
    <2> HIDE DEF x, step, C
    <2>6. TypeOK'
      BY <2>2, <2>3, <2>5 DEF TypeOK, store, States, Steps
    <2>7. /\ pc'[r] = step /\ Pair(r)' = Pair(r) /\ About(r)' = About(r)
          /\ rowLock'[Row(r)] = r /\ draft'[Row(r)] = Wanted(r)
      BY <2>1, <2>2, SameCall DEF TypeOK
    <2>8. \A p \in Pairs : rowLock'[p] = r => p = Row(r)
      BY <1>1, <2>2 DEF TypeOK, Mine, Drafts
    <2>9. Shape(r)'
      BY <1>1, <2>2, <2>3, <2>7 DEF Mine, Shape, Comers, PairOps
    <2>10. Holds(r)'
      BY <1>1, <2>2, <2>3, <2>7 DEF Mine, Holds, Couple, Steps
    <2>11. Together(r)' /\ Unopposed(r)' /\ Severs(r)'
      BY <1>1, <2>2, <2>7 DEF Mine, Together, Unopposed, Severs, Apart, Reverse2, store
    <2>12. Drafts(r)'
      BY <1>1, <2>1, <2>2, <2>3, <2>7, <2>8 DEF Drafts, store
    <2>13. Mine(r)'
      BY <2>9, <2>10, <2>11, <2>12 DEF Mine
    <2>14. \A q \in Requests \ {r} : Kept(q)
      BY <1>1, <2>2, <2>5, NobodyAssumption DEF Kept, TypeOK
    <2> QED
      BY <2>2, <2>6, <2>13, <2>14, Assemble DEF store
  <1> QED
    BY <1>2, <1>3

LEMMA FindInv == ASSUME Inv, NEW r \in Requests, Find(r) PROVE Inv'
  <1> USE DEF Inv
  <1> DEFINE T == {p \in About(r) : Matches(r, follows[p])}
             x == [tx[r] EXCEPT !.todo = T]
  <1>1. pc[r] = "find" /\ call[r].op \in {"unfollow", "accept", "reject", "block", "public"}
    BY DEF Find, At, Mine, Shape, Comers
  <1>2. About(r) \subseteq Pairs
    <2>1. CASE call[r].op = "public"
      BY <2>1, AboutFacts
    <2>2. CASE call[r].op # "public"
      <3>1. Pair(r) \in Pairs /\ Row(r) \in Pairs
        BY <1>1, <2>2, PairOfHolder DEF Mine, PairOps
      <3> QED
        BY <1>1, <2>2, <3>1, AboutFacts, PairFacts DEF PairOps
    <2> QED
      BY <2>1, <2>2
  <1>3. T \subseteq About(r) /\ T \in SUBSET Pairs
    BY <1>2
  <1>4. x \in Transactions /\ x.todo = T /\ x.opening = tx[r].opening /\ tx' = [tx EXCEPT ![r] = x]
    <2>1. tx[r] \in Transactions
      BY DEF TypeOK
    <2>2. tx' = [tx EXCEPT ![r] = x]
      BY DEF Find
    <2> HIDE DEF T
    <2> QED
      BY <1>3, <2>1, <2>2, TodoFields
  <1>5. pc' = [pc EXCEPT ![r] = "rows"] /\ UNCHANGED <<store, call, locks>>
    BY DEF Find, Goto
  <1>6. call[r].op = "block" => T = {p \in About(r) : follows[p] # "none"}
    BY DEF Matches
  <1> HIDE DEF T, x
  <1>7. /\ pc'[r] = "rows" /\ tx'[r].todo = T /\ Pair(r)' = Pair(r) /\ About(r)' = About(r)
        /\ \A p \in Pairs : rowLock[p] # r
    BY <1>1, <1>4, <1>5, SameCall DEF TypeOK, Mine, Drafts
  <1>8. Shape(r)'
    BY <1>1, <1>3, <1>5, <1>7 DEF Mine, Shape, Comers
  <1>9. Holds(r)'
    BY <1>1, <1>5, <1>7 DEF Mine, Holds, Couple, Steps, locks
  <1>10. Together(r)' /\ Unopposed(r)'
    BY <1>1, <1>5, <1>7 DEF Mine, Together, Unopposed, Reverse2, store
  <1>11. Severs(r)'
    BY <1>5, <1>6, <1>7 DEF Severs, store
  <1>12. Drafts(r)'
    BY <1>5, <1>7 DEF Drafts, locks
  <1>13. Mine(r)'
    BY <1>8, <1>9, <1>10, <1>11, <1>12 DEF Mine
  <1>14. "rows" \in Steps \cup Ended
    BY DEF Steps
  <1> QED
    BY <1>4, <1>5, <1>13, <1>14, Alone DEF TypeOK, locks

LEMMA TouchInv == ASSUME Inv, NEW r \in Requests, NEW p \in Pairs, Touch(r, p) PROVE Inv'
  <1> USE DEF Inv
  <1>1. /\ pc[r] = "rows" /\ p \in tx[r].todo /\ rowLock[p] = Nobody /\ p \in About(r)
        /\ call[r].op \in {"unfollow", "accept", "reject", "block", "public"}
        /\ UNCHANGED <<store, pairLock, profileLock, pc, call>>
    BY DEF Touch, At, Mine, Shape, Comers
  <1>2. tx[r] \in Transactions
    BY DEF TypeOK
  <1>0. PICK T \in SUBSET Pairs : T = tx[r].todo \ {p}
    BY <1>2, TxFields
  <1>3. PICK C \in Seq(Pairs) :
            tx' = [tx EXCEPT ![r] = [[tx[r] EXCEPT !.todo = T] EXCEPT !.changed = C]]
    <2> DEFINE y == [tx[r] EXCEPT !.todo = T]
    <2>1. y \in Transactions /\ y.changed = tx[r].changed
      BY <1>2, TodoFields
    <2>2. tx[r].changed \in Seq(Pairs) /\ Append(tx[r].changed, p) \in Seq(Pairs)
      BY <1>2, TxFields, AppendProperties
    <2>3. CASE tx' = [tx EXCEPT ![r].todo = @ \ {p}]
      <3>1. y = [y EXCEPT !.changed = tx[r].changed]
        BY <2>1 DEF Transactions
      <3>2. tx' = [tx EXCEPT ![r] = y]
        BY <1>0, <2>3
      <3> QED
        BY <2>2, <3>1, <3>2
    <2>4. CASE tx' = [tx EXCEPT ![r].todo = @ \ {p},
                                ![r].changed = IF "accepted" \in {follows[p], Becomes(r)}
                                               THEN Append(@, p) ELSE @]
      <3> DEFINE D == IF "accepted" \in {follows[p], Becomes(r)} THEN Append(y.changed, p) ELSE y.changed
      <3>1. D \in Seq(Pairs)
        BY <2>1, <2>2
      <3>2. tx' = [tx EXCEPT ![r] = [y EXCEPT !.changed = D]]
        BY <1>0, <2>4 DEF TypeOK
      <3> HIDE DEF D
      <3> QED
        BY <3>1, <3>2
    <2> QED
      BY <2>3, <2>4 DEF Touch
  <1> DEFINE x == [[tx[r] EXCEPT !.todo = T] EXCEPT !.changed = C]
  <1>4. x \in Transactions /\ x.todo = tx[r].todo \ {p} /\ x.opening = tx[r].opening
    <2> DEFINE y == [tx[r] EXCEPT !.todo = T]
    <2>1. y \in Transactions /\ y.todo = T /\ y.opening = tx[r].opening
      BY <1>2, TodoFields
    <2> HIDE DEF y
    <2>2. [y EXCEPT !.changed = C] \in Transactions /\ [y EXCEPT !.changed = C].todo = T
          /\ [y EXCEPT !.changed = C].opening = tx[r].opening
      BY <2>1, TxFields
    <2> QED
      BY <1>0, <2>2 DEF y
  <1>5. tx' = [tx EXCEPT ![r] = x]
    BY <1>3
  <1> HIDE DEF x
  <1>6. \/ /\ Matches(r, follows[p])
           /\ rowLock' = [rowLock EXCEPT ![p] = r]
           /\ draft' = [draft EXCEPT ![p] = Becomes(r)]
        \/ /\ ~Matches(r, follows[p])
           /\ UNCHANGED <<rowLock, draft>>
    BY DEF Touch
  <1>7. Becomes(r) \in {"none", "accepted"}
    BY DEF Becomes
  <1>8. /\ rowLock' \in [Pairs -> Requests \cup {Nobody}] /\ draft' \in [Pairs -> States]
    BY <1>6, <1>7 DEF TypeOK, States
  <1>9. TypeOK'
    BY <1>1, <1>4, <1>5, <1>8 DEF TypeOK, store
  <1>10. /\ tx'[r] = x /\ pc'[r] = "rows" /\ Pair(r)' = Pair(r) /\ About(r)' = About(r)
         /\ call' = call /\ UNCHANGED <<follows, blocks>>
    BY <1>1, <1>5, SameCall DEF TypeOK, store
  <1>11. Shape(r)' /\ Holds(r)' /\ Together(r)' /\ Unopposed(r)'
    <2>1. Shape(r)'
      BY <1>1, <1>4, <1>10 DEF Mine, Shape
    <2>2. Holds(r)'
      BY <1>1, <1>10 DEF Mine, Holds, Couple
    <2>3. Together(r)' /\ Unopposed(r)'
      BY <1>1, <1>10 DEF Mine, Together, Unopposed, Reverse2
    <2> QED
      BY <2>1, <2>2, <2>3
  <1>12. Severs(r)'
    <2> SUFFICES ASSUME call[r].op = "block", NEW o \in About(r)
                 PROVE  follows[o] = "none" \/ rowLock'[o] = r \/ o \in tx[r].todo \ {p}
      BY <1>4, <1>10 DEF Severs
    <2>1. follows[o] = "none" \/ rowLock[o] = r \/ o \in tx[r].todo
      BY <1>1 DEF Mine, Severs
    <2>2. Matches(r, follows[p]) <=> follows[p] # "none"
      BY DEF Matches
    <2>3. o \in Pairs
      BY <1>1, PairOfHolder, AboutFacts, PairFacts DEF Mine, PairOps
    <2> QED
      BY <1>1, <1>6, <2>1, <2>2, <2>3 DEF TypeOK
  <1>13. Drafts(r)'
    <2> SUFFICES ASSUME NEW o \in Pairs, rowLock'[o] = r
                 PROVE  /\ o \in About(r)
                        /\ CASE call[r].op = "follow"               -> /\ draft'[o] \in {"pending", "accepted"}
                                                                       /\ follows[o] # "accepted"
                             [] call[r].op \in {"accept", "public"} -> draft'[o] = "accepted" /\ follows[o] = "pending"
                             [] OTHER                               -> /\ draft'[o] = "none"
                                                                       /\ call[r].op \in {"unfollow", "reject", "block"}
      BY <1>10 DEF Drafts
    <2>1. CASE rowLock[o] = r
      <3>1. o # p /\ draft'[o] = draft[o]
        BY <1>1, <1>6, <2>1, NobodyAssumption DEF TypeOK
      <3> QED
        BY <2>1, <3>1 DEF Mine, Drafts
    <2>2. CASE rowLock[o] # r
      <3>1. o = p /\ Matches(r, follows[p]) /\ draft'[p] = Becomes(r)
        BY <1>6, <2>2 DEF TypeOK
      <3> QED
        BY <1>1, <3>1 DEF Matches, Becomes
    <2> QED
      BY <2>1, <2>2
  <1>14. Mine(r)'
    BY <1>11, <1>12, <1>13 DEF Mine
  <1>15. \A q \in Requests \ {r} : Kept(q)
    BY <1>1, <1>5, <1>6, NobodyAssumption DEF Kept, TypeOK
  <1> QED
    BY <1>9, <1>10, <1>14, <1>15, Assemble

\* The steps on which a request that writes goes on.
LEMMA Onward ==
    ASSUME Inv, NEW r \in Requests, NEW step \in {"count", "card", "last"}, NEW x \in Transactions,
           pc[r] \in {"rows", "count", "card"}, call[r].op \in Comers(step),
           pc[r] = "rows" => tx[r].todo = {},
           pc' = [pc EXCEPT ![r] = step], tx' = [tx EXCEPT ![r] = x],
           UNCHANGED <<store, call, pairLock, rowLock, draft>>,
           profileLock' \in [Users -> Requests \cup {Nobody}]
    PROVE  Inv'
  <1> USE DEF Inv
  <1>1. /\ pc'[r] = step /\ Pair(r)' = Pair(r) /\ About(r)' = About(r) /\ call' = call
        /\ UNCHANGED <<follows, blocks>>
    BY SameCall DEF TypeOK, store
  <1>2. Shape(r)'
    BY <1>1 DEF Mine, Shape
  <1>3. Holds(r)'
    BY <1>1 DEF Mine, Holds, Couple, Steps
  <1>4. call[r].op # "follow" \/ pc[r] \in {"count", "card"}
    BY DEF Mine, Shape, Comers
  <1>5. Together(r)'
    BY <1>1, <1>4 DEF Mine, Together, Apart, Reverse2
  <1>6. call[r].op = "block" => pc[r] \in {"rows", "count"}
    BY DEF Mine, Shape, Comers
  <1>7. Unopposed(r)' /\ Severs(r)'
    BY <1>1, <1>6 DEF Mine, Unopposed, Severs, Reverse2
  <1>8. Drafts(r)'
    BY <1>1 DEF Mine, Drafts
  <1>9. Mine(r)'
    BY <1>2, <1>3, <1>5, <1>7, <1>8 DEF Mine
  <1>10. step \in Steps \cup Ended
    BY DEF Steps
  <1> QED
    BY <1>9, <1>10, Alone

LEMMA RowsInv == ASSUME Inv, NEW r \in Requests, Rows(r) PROVE Inv'
  <1> USE DEF Inv
  <1>1. /\ pc[r] = "rows" /\ tx[r].todo = {}
        /\ call[r].op \in {"unfollow", "accept", "reject", "block", "public"}
    BY DEF Rows, At, Mine, Shape, Comers
  <1>2. CASE End(r, "refused")
    BY <1>1, <1>2, EndInv DEF Ended
  <1>3. CASE ~End(r, "refused")
    <2> DEFINE step == IF tx[r].changed # <<>> THEN "count"
                       ELSE IF call[r].op = "unfollow" THEN "card" ELSE "last"
    <2>1. pc' = [pc EXCEPT ![r] = step] /\ UNCHANGED <<store, call, locks, tx>>
      BY <1>3 DEF Rows, Goto
    <2>2. step \in {"count", "card", "last"} /\ call[r].op \in Comers(step)
      BY <1>1 DEF Comers, PairOps, OwnOps
    <2>3. tx[r] \in Transactions /\ tx' = [tx EXCEPT ![r] = tx[r]]
      BY <2>1 DEF TypeOK
    <2> HIDE DEF step
    <2> QED
      BY <1>1, <2>1, <2>2, <2>3, Onward DEF locks, TypeOK
  <1> QED
    BY <1>2, <1>3

LEMMA CountInv == ASSUME Inv, NEW r \in Requests, Count(r) PROVE Inv'
  <1> USE DEF Inv
  <1>1. /\ pc[r] = "count" /\ tx[r].changed # <<>> /\ call[r].op \in Comers("count")
        /\ UNCHANGED <<store, pairLock, rowLock, draft, pc, call>>
    BY DEF Count, At, Mine, Shape
  <1>2. tx[r] \in Transactions /\ Tail(tx[r].changed) \in Seq(Pairs)
    BY <1>1, TxFields, HeadTailProperties DEF TypeOK
  <1>3. PICK x \in Transactions : tx' = [tx EXCEPT ![r] = x]
    <2>1. CASE UNCHANGED tx
      BY <1>2, <2>1 DEF TypeOK
    <2>2. CASE tx' = [tx EXCEPT ![r].changed = Tail(@)]
      BY <1>2, <2>2, TxFields
    <2> QED
      BY <2>1, <2>2 DEF Count
  <1>4. profileLock' \in [Users -> Requests \cup {Nobody}]
    BY DEF Count, TypeOK
  <1>5. pc' = [pc EXCEPT ![r] = "count"]
    BY <1>1 DEF TypeOK
  <1> QED
    BY <1>1, <1>3, <1>4, <1>5, Onward

LEMMA CountedInv == ASSUME Inv, NEW r \in Requests, Counted(r) PROVE Inv'
  <1> USE DEF Inv
  <1> DEFINE step == IF call[r].op \in {"block", "public"} THEN "last" ELSE "card"
  <1>1. /\ pc[r] = "count" /\ call[r].op \in Comers("count")
        /\ pc' = [pc EXCEPT ![r] = step] /\ UNCHANGED <<store, call, locks, tx>>
    BY DEF Counted, At, Goto, Mine, Shape
  <1>2. step \in {"count", "card", "last"} /\ call[r].op \in Comers(step)
    BY <1>1 DEF Comers, PairOps, OwnOps
  <1>3. tx[r] \in Transactions /\ tx' = [tx EXCEPT ![r] = tx[r]]
    BY <1>1 DEF TypeOK
  <1> HIDE DEF step
  <1> QED
    BY <1>1, <1>2, <1>3, Onward DEF locks, TypeOK

LEMMA CardInv == ASSUME Inv, NEW r \in Requests, Card(r) PROVE Inv'
  <1> USE DEF Inv
  <1>1. /\ pc[r] = "card" /\ call[r].op \in PairOps
        /\ pc' = [pc EXCEPT ![r] = "last"] /\ UNCHANGED <<store, call, locks>>
    BY DEF Card, At, Goto, Mine, Shape, Comers
  <1>2. call[r].op \in Comers("last")
    BY <1>1 DEF Comers
  <1>3. tx[r] \in Transactions /\ Row(r) \in Pairs
    BY <1>1, PairOfHolder DEF TypeOK, Mine
  <1>4. PICK x \in Transactions : tx' = [tx EXCEPT ![r] = x]
    <2>1. CASE call[r].op = "unfollow"
      <3>1. CardsOf(Row(r)) \in SUBSET Cards
        BY DEF CardsOf, TypeOK
      <3> QED
        BY <1>3, <2>1, <3>1, TxFields DEF Card
    <2>2. CASE call[r].op # "unfollow"
      <3> DEFINE D == {[pair |-> Row(r), by |-> r, public |-> ~private[Row(r)[1]]]}
      <3>1. D \in SUBSET Cards
        BY <1>3, NewCard
      <3>2. tx' = [tx EXCEPT ![r].add = D]
        BY <2>2 DEF Card
      <3> HIDE DEF D
      <3> QED
        BY <1>3, <3>1, <3>2, TxFields
    <2> QED
      BY <2>1, <2>2
  <1> QED
    BY <1>1, <1>2, <1>4, Onward DEF locks, TypeOK

LEMMA ProfileInv == ASSUME Inv, NEW r \in Requests, Profile(r) PROVE Inv'
  <1> USE DEF Inv
  <1> DEFINE step == IF tx[r].opening THEN "find" ELSE "last"
  <1>1. /\ pc[r] = "profile" /\ call[r].op \in OwnOps
        /\ pc' = [pc EXCEPT ![r] = step]
        /\ UNCHANGED <<store, call, pairLock, rowLock, draft, tx>>
    BY DEF Profile, At, Goto, Mine, Shape, Comers
  <1>2. step \in {"find", "last"} /\ (step = "find" => call[r].op = "public")
    BY <1>1 DEF Mine, Shape
  <1>3. tx[r] \in Transactions /\ tx' = [tx EXCEPT ![r] = tx[r]]
    BY <1>1 DEF TypeOK
  <1>4. profileLock' \in [Users -> Requests \cup {Nobody}]
    BY DEF Profile, TypeOK
  <1> HIDE DEF step
  <1>5. pc'[r] = step /\ call' = call /\ \A o \in Pairs : rowLock'[o] # r
    BY <1>1 DEF TypeOK, Mine, Drafts
  <1>6. Shape(r)'
    BY <1>1, <1>2, <1>5 DEF Mine, Shape, Comers
  <1>7. Holds(r)' /\ Together(r)' /\ Unopposed(r)' /\ Severs(r)' /\ Drafts(r)'
    BY <1>1, <1>5 DEF Holds, Together, Unopposed, Severs, Drafts, OwnOps
  <1>8. Mine(r)'
    BY <1>6, <1>7 DEF Mine
  <1>9. step \in Steps \cup Ended
    BY <1>2 DEF Steps
  <1> QED
    BY <1>1, <1>3, <1>4, <1>8, <1>9, Alone

-----------------------------------------------------------------------------
(* The COMMIT is a step of FollowGraph.                                    *)

LEMMA Publishing ==
    ASSUME Inv, NEW r \in Requests, Commit(r)
    PROVE  /\ pc[r] = "last" /\ Drafts(r) /\ UNCHANGED call
           /\ follows' \in [Pairs -> States]
           /\ \A p \in Pairs : follows'[p] = IF rowLock[p] = r THEN draft[p] ELSE follows[p]
           /\ call[r].op # "block" => blocks' = IF call[r].op = "unblock" THEN blocks \ {Pair(r)} ELSE blocks
           /\ call[r].op = "block" => blocks' = blocks \cup {Pair(r)}
           /\ call[r].op \notin OwnOps => private' = private
           /\ call[r].op = "private" => private' = [private EXCEPT ![call[r].me] = TRUE]
           /\ call[r].op = "public" => private' = [private EXCEPT ![call[r].me] = FALSE]
  BY DEF Inv, TypeOK, Commit, At, Published, Mine, OwnOps

\* Nothing written, no row changed.
LEMMA Unwritten ==
    ASSUME Inv, NEW r \in Requests, Commit(r), \A p \in Pairs : rowLock[p] # r
    PROVE  follows' = follows
  <1>1. follows \in [Pairs -> States]
    BY DEF Inv, TypeOK
  <1> QED
    BY <1>1, Publishing

\* One row written.
LEMMA RowWritten ==
    ASSUME Inv, NEW r \in Requests, Commit(r), NEW p \in Pairs, NEW state \in States,
           \A o \in Pairs : rowLock[o] = r => o = p,
           follows'[p] = state
    PROVE  follows' = [follows EXCEPT ![p] = state]
  <1>1. follows \in [Pairs -> States]
    BY DEF Inv, TypeOK
  <1>2. \A o \in Pairs \ {p} : follows'[o] = follows[o]
    BY Publishing
  <1> QED
    BY <1>1, <1>2, Publishing

LEMMA CommitFollow ==
    ASSUME Inv, NEW r \in Requests, Commit(r), call[r].op = "follow" PROVE [GraphNext]_graph
  <1> DEFINE p == Pair(r)
  <1>1. p \in Pairs /\ Row(r) = p /\ About(r) = {p} /\ ~Apart(p)
    BY Publishing, PairOfHolder, AboutFacts DEF Inv, Mine, Together, PairOps
  <1>2. private' = private /\ blocks' = blocks
    BY Publishing DEF OwnOps
  <1>3. CASE rowLock[p] # r
    BY <1>1, <1>2, <1>3, Publishing, Unwritten DEF Drafts, graph
  <1>4. CASE rowLock[p] = r
    <2>1. draft[p] \in {"pending", "accepted"} /\ follows[p] # "accepted" /\ follows'[p] = draft[p]
      BY <1>1, <1>4, Publishing DEF Drafts
    <2>2. follows' = [follows EXCEPT ![p] = draft[p]]
      BY <1>1, <2>1, Publishing, RowWritten DEF Drafts, States
    <2>3. Ask(p)
      BY <1>1, <1>2, <2>1, <2>2 DEF Ask
    <2> QED
      BY <1>1, <2>3 DEF GraphNext
  <1> QED
    BY <1>3, <1>4

LEMMA CommitAccept ==
    ASSUME Inv, NEW r \in Requests, Commit(r), call[r].op = "accept" PROVE [GraphNext]_graph
  <1> DEFINE p == Row(r)
  <1>1. p \in Pairs /\ About(r) = {p}
    BY Publishing, PairOfHolder, AboutFacts DEF Inv, Mine, PairOps
  <1>2. private' = private /\ blocks' = blocks
    BY Publishing DEF OwnOps
  <1> HIDE DEF p
  <1>3. CASE rowLock[p] # r
    BY <1>1, <1>2, <1>3, Publishing, Unwritten DEF Drafts, graph
  <1>4. CASE rowLock[p] = r
    <2>1. draft[p] = "accepted" /\ follows[p] = "pending" /\ follows'[p] = "accepted"
      BY <1>1, <1>4, Publishing DEF Drafts
    <2>2. follows' = [follows EXCEPT ![p] = "accepted"]
      BY <1>1, <2>1, Publishing, RowWritten DEF Drafts, States
    <2>3. ~Apart(p)
      BY <1>1, <2>1 DEF Inv, NoFollowAcrossBlock
    <2>4. Ask(p)
      BY <1>1, <1>2, <2>1, <2>2, <2>3 DEF Ask
    <2> QED
      BY <1>1, <2>4 DEF GraphNext
  <1> QED
    BY <1>3, <1>4

LEMMA CommitDrop ==
    ASSUME Inv, NEW r \in Requests, Commit(r), call[r].op \in {"unfollow", "reject"}
    PROVE  [GraphNext]_graph
  <1> DEFINE p == Row(r)
  <1>1. p \in Pairs /\ About(r) = {p}
    BY Publishing, PairOfHolder, AboutFacts DEF Inv, Mine, PairOps
  <1>2. private' = private /\ blocks' = blocks
    BY Publishing DEF OwnOps
  <1> HIDE DEF p
  <1>3. CASE rowLock[p] # r
    BY <1>1, <1>2, <1>3, Publishing, Unwritten DEF Drafts, graph
  <1>4. CASE rowLock[p] = r
    <2>1. follows'[p] = "none"
      BY <1>1, <1>4, Publishing DEF Drafts
    <2>2. follows' = [follows EXCEPT ![p] = "none"]
      BY <1>1, <2>1, Publishing, RowWritten DEF Drafts, States
    <2> QED
      BY <1>1, <1>2, <2>2 DEF GraphNext, Drop
  <1> QED
    BY <1>3, <1>4

LEMMA CommitBlock ==
    ASSUME Inv, NEW r \in Requests, Commit(r), call[r].op = "block" PROVE [GraphNext]_graph
  <1> DEFINE p == Pair(r)
             o == Reverse2(Pair(r))
  <1>1. p \in Pairs /\ About(r) = {p, o} /\ o \in Pairs /\ o \notin blocks
    BY Publishing, PairOfHolder, AboutFacts, PairFacts DEF Inv, Mine, Unopposed, PairOps
  <1>2. private' = private /\ blocks' = blocks \cup {p}
    BY Publishing DEF OwnOps
  <1>3. follows'[p] = "none" /\ follows'[o] = "none"
    <2>1. \A a \in {p, o} : follows[a] = "none" \/ rowLock[a] = r
      BY <1>1, Publishing DEF Inv, Mine, Severs
    <2>2. \A a \in {p, o} : rowLock[a] = r => draft[a] = "none"
      BY <1>1, Publishing DEF Drafts
    <2> QED
      BY <1>1, <2>1, <2>2, Publishing
  <1>4. \A a \in Pairs \ {p, o} : follows'[a] = follows[a]
    BY <1>1, Publishing DEF Drafts
  <1>5. o = Reverse2(p)
    OBVIOUS
  <1> HIDE DEF p, o
  <1>6. follows' = [follows EXCEPT ![p] = "none", ![o] = "none"]
    <2>1. follows \in [Pairs -> States]
      BY DEF Inv, TypeOK
    <2> QED
      BY <1>1, <1>3, <1>4, <2>1, Publishing
  <1>7. Block(p)
    BY <1>1, <1>2, <1>5, <1>6 DEF Block
  <1> QED
    BY <1>1, <1>7 DEF GraphNext

LEMMA CommitUnblock ==
    ASSUME Inv, NEW r \in Requests, Commit(r), call[r].op = "unblock" PROVE [GraphNext]_graph
  <1>1. Pair(r) \in Pairs
    BY Publishing, PairOfHolder DEF Inv, Mine, PairOps
  <1>2. \A p \in Pairs : rowLock[p] # r
    BY Publishing DEF Drafts
  <1>3. Unblock(Pair(r))
    BY <1>2, Publishing, Unwritten DEF Unblock, OwnOps
  <1> QED
    BY <1>1, <1>3 DEF GraphNext

LEMMA CommitOwn ==
    ASSUME Inv, NEW r \in Requests, Commit(r), call[r].op \in OwnOps PROVE [GraphNext]_graph
  <1> DEFINE u == call[r].me
  <1>1. u \in Users /\ blocks' = blocks
    BY Publishing DEF Inv, TypeOK, Calls, OwnOps
  <1>2. CASE call[r].op = "private"
    <2>1. \A p \in Pairs : rowLock[p] # r
      BY <1>2, Publishing DEF Drafts
    <2> QED
      BY <1>1, <1>2, <2>1, Publishing, Unwritten DEF GraphNext, Close
  <1>3. CASE call[r].op = "public"
    <2> DEFINE known == {p \in Pairs : rowLock[p] = r}
    <2>1. /\ \A p \in known : p[2] = u /\ follows[p] = "pending" /\ draft[p] = "accepted"
      BY <1>3, Publishing, AboutFacts DEF Drafts, Inv
    <2>2. follows' = [p \in Pairs |-> IF p \in known THEN "accepted" ELSE follows[p]]
      BY <2>1, Publishing
    <2>3. known \in SUBSET {p \in Pairs : p[2] = u /\ follows[p] = "pending"}
      BY <2>1
    <2> HIDE DEF known
    <2>4. private' = [private EXCEPT ![u] = FALSE]
      BY <1>3, Publishing
    <2>5. Open(u)
      BY <1>1, <2>2, <2>3, <2>4 DEF Open
    <2> QED
      BY <1>1, <2>5 DEF GraphNext
  <1> QED
    BY <1>2, <1>3 DEF OwnOps

LEMMA CommitGraph == ASSUME Inv, NEW r \in Requests, Commit(r) PROVE [GraphNext]_graph
  <1>1. call[r].op \in PairOps \cup OwnOps
    BY AboutFacts DEF Inv
  <1> QED
    BY <1>1, CommitFollow, CommitAccept, CommitDrop, CommitBlock, CommitUnblock, CommitOwn DEF PairOps

\* FollowGraph keeps people with a block between them apart.
LEMMA GraphApart ==
    ASSUME follows \in [Pairs -> States], NoFollowAcrossBlock, [GraphNext]_graph
    PROVE  NoFollowAcrossBlock'
  <1>1. CASE UNCHANGED graph
    BY <1>1 DEF graph, NoFollowAcrossBlock, Apart
  <1>2. ASSUME NEW p \in Pairs, Ask(p) PROVE NoFollowAcrossBlock'
    <2>1. PICK state : follows' = [follows EXCEPT ![p] = state]
      BY <1>2 DEF Ask
    <2>2. blocks' = blocks /\ ~Apart(p)
      BY <1>2 DEF Ask
    <2>3. \A o \in Pairs : Apart(o)' <=> Apart(o)
      BY <2>2 DEF Apart
    <2>4. \A o \in Pairs \ {p} : follows'[o] = follows[o]
      BY <2>1
    <2> QED
      BY <2>2, <2>3, <2>4 DEF NoFollowAcrossBlock
  <1>3. ASSUME NEW p \in Pairs, Drop(p) PROVE NoFollowAcrossBlock'
    BY <1>3 DEF Drop, NoFollowAcrossBlock, Apart
  <1>4. ASSUME NEW p \in Pairs, Block(p) PROVE NoFollowAcrossBlock'
    <2>1. follows'[p] = "none" /\ follows'[Reverse2(p)] = "none"
          /\ \A o \in Pairs \ {p, Reverse2(p)} : follows'[o] = follows[o]
      BY <1>4, PairFacts DEF Block
    <2>2. \A o \in Pairs \ {p, Reverse2(p)} : Apart(o)' => Apart(o)
      <3> SUFFICES ASSUME NEW o \in Pairs \ {p, Reverse2(p)}, Apart(o)' PROVE Apart(o)
        OBVIOUS
      <3>1. Reverse2(Reverse2(o)) = o
        BY PairFacts
      <3>2. o # p /\ Reverse2(o) # p
        BY <3>1
      <3> QED
        BY <1>4, <3>2 DEF Block, Apart
    <2> QED
      BY <2>1, <2>2 DEF NoFollowAcrossBlock
  <1>5. ASSUME NEW p \in Pairs, Unblock(p) PROVE NoFollowAcrossBlock'
    BY <1>5 DEF Unblock, NoFollowAcrossBlock, Apart
  <1>6. ASSUME NEW u \in Users, Close(u) PROVE NoFollowAcrossBlock'
    BY <1>6 DEF Close, NoFollowAcrossBlock, Apart
  <1>7. ASSUME NEW u \in Users, Open(u) PROVE NoFollowAcrossBlock'
    <2>1. PICK known \in SUBSET {p \in Pairs : p[2] = u /\ follows[p] = "pending"} :
              follows' = [p \in Pairs |-> IF p \in known THEN "accepted" ELSE follows[p]]
      BY <1>7 DEF Open
    <2>2. \A p \in Pairs : follows'[p] # "none" => follows[p] # "none"
      BY <2>1
    <2> QED
      BY <1>7, <2>2 DEF Open, NoFollowAcrossBlock, Apart
  <1> QED
    BY <1>1, <1>2, <1>3, <1>4, <1>5, <1>6, <1>7 DEF GraphNext

-----------------------------------------------------------------------------
(* What the COMMIT leaves to the others, and the types.                    *)

\* Two requests that hold the lock of their pair have different pairs.
LEMMA OwnPair ==
    ASSUME Inv, NEW r \in Requests, NEW q \in Requests \ {r},
           {call[r].op, call[q].op} \subseteq {"follow", "accept", "block"},
           {pc[r], pc[q]} \subseteq Steps \ {"idle", "lock"}
    PROVE  Couple(Pair(r)) # Couple(Pair(q))
  BY DEF Inv, Mine, Holds

LEMMA CommitTx ==
    ASSUME Inv, NEW r \in Requests, Commit(r)
    PROVE  /\ tx' \in [Requests -> Transactions]
           /\ \A q \in Requests \ {r} : /\ tx'[q].opening = tx[q].opening
                                        /\ tx'[q].todo = tx[q].todo \ Overtaken(r, q)
  <1> DEFINE rest(q) == tx[q].todo \ Overtaken(r, q)
  <1>1. tx' = [q \in Requests |-> IF q = r THEN NoTx ELSE [tx[q] EXCEPT !.todo = rest(q)]]
    BY DEF Commit
  <1>2. \A q \in Requests : tx[q] \in Transactions
    BY DEF Inv, TypeOK
  <1>3. ASSUME NEW q \in Requests
        PROVE  /\ [tx[q] EXCEPT !.todo = rest(q)] \in Transactions
               /\ [tx[q] EXCEPT !.todo = rest(q)].opening = tx[q].opening
               /\ [tx[q] EXCEPT !.todo = rest(q)].todo = rest(q)
    <2>1. rest(q) \subseteq Pairs
      BY <1>2, TxFields
    <2> HIDE DEF rest
    <2> QED
      BY <1>2, <2>1, TodoFields
  <1> HIDE DEF rest
  <1> QED
    BY <1>1, <1>3, NoTxFields DEF rest

LEMMA RecastType ==
    ASSUME NEW r, NEW c \in Cards PROVE Recast(r, c) \in Cards
  BY DEF Recast, Cards

LEMMA CommitType == ASSUME Inv, NEW r \in Requests, Commit(r) PROVE TypeOK'
  <1> USE DEF Inv
  <1>1. blocks' \subseteq Pairs
    <2>1. call[r].op = "block" => Pair(r) \in Pairs
      BY Publishing, PairOfHolder DEF Mine, PairOps
    <2> QED
      BY <2>1, Publishing DEF TypeOK
  <1>2. private' \in [Users -> BOOLEAN]
    BY Publishing DEF TypeOK, OwnOps
  <1>3. cards' \subseteq Cards
    <2>1. (cards \ Severed(r)) \cup tx[r].add \subseteq Cards
      BY TxFields DEF TypeOK
    <2>2. cards' = {Recast(r, c) : c \in (cards \ Severed(r)) \cup tx[r].add}
      BY DEF Commit
    <2> QED
      BY <2>1, <2>2, RecastType
  <1>4. notes' \subseteq Notes
    <2>1. call[r].op = "follow" => Row(r) \in Pairs
      BY Publishing, PairOfHolder DEF Mine, PairOps
    <2>2. Told(r) \subseteq Notes
      BY <2>1 DEF Told, TypeOK, Notes
    <2> QED
      BY <2>2 DEF Commit
  <1>5. pc' \in [Requests -> Steps \cup Ended] /\ call' = call
    BY DEF Commit, TypeOK, Ended
  <1>6. Release(r)
    BY DEF Commit
  <1> QED
    BY <1>1, <1>2, <1>3, <1>4, <1>5, <1>6, Publishing, CommitTx, Releasing DEF TypeOK

LEMMA CommitOthers ==
    ASSUME Inv, NEW r \in Requests, NEW q \in Requests \ {r}, Commit(r)
    PROVE  Mine(q)'
  <1> USE DEF Inv
  <1>1. /\ pc[r] = "last" /\ pc'[q] = pc[q] /\ call' = call /\ Release(r)
        /\ Pair(q)' = Pair(q) /\ Row(q)' = Row(q) /\ About(q)' = About(q)
    BY SameCall DEF Commit, At, TypeOK
  <1>2. /\ tx'[q].opening = tx[q].opening
        /\ tx'[q].todo = tx[q].todo \ Overtaken(r, q)
    BY CommitTx
  <1>3. /\ \A p \in Pairs : rowLock'[p] = q <=> rowLock[p] = q
        /\ \A p \in Pairs : rowLock[p] = q => draft'[p] = draft[p]
        /\ \A k \in Couples : pairLock[k] = q => pairLock'[k] = q
    BY <1>1, Releasing
  <1>4. \A p \in Pairs : follows'[p] = IF rowLock[p] = r THEN draft[p] ELSE follows[p]
    BY Publishing
  <1>5. Shape(q)'
    BY <1>1, <1>2 DEF Mine, Shape
  <1>6. Holds(q)'
    <2> SUFFICES ASSUME call[q].op \in {"follow", "accept", "block"}, pc[q] \in Steps \ {"idle", "lock"}
                 PROVE  pairLock'[Couple(Pair(q))] = q
      BY <1>1 DEF Holds, Couple
    <2>1. Couple(Pair(q)) \in Couples
      BY PairOfHolder DEF Mine, PairOps
    <2> QED
      BY <1>3, <2>1 DEF Mine, Holds
  <1>7. ASSUME call[q].op \in {"follow", "block"}, pc[q] \in Steps \ {"idle", "lock"}
        PROVE  /\ Pair(q) \in Pairs
               /\ Apart(Pair(q))' => Apart(Pair(q))
               /\ Reverse2(Pair(q)) \in blocks' => Reverse2(Pair(q)) \in blocks
    <2>1. Pair(q) \in Pairs
      BY <1>7, PairOfHolder DEF Mine, PairOps
    <2>2. CASE call[r].op # "block"
      BY <1>1, <2>1, <2>2, Publishing DEF Apart, Reverse2
    <2>3. CASE call[r].op = "block"
      <3>1. blocks' = blocks \cup {Pair(r)}
        BY <2>3, Publishing
      <3>2. Couple(Pair(r)) # Couple(Pair(q))
        BY <1>1, <1>7, <2>3, OwnPair DEF Steps
      <3>3. Pair(r) # Pair(q) /\ Pair(r) # Reverse2(Pair(q))
        BY <2>1, <3>2, PairFacts
      <3> QED
        BY <1>1, <2>1, <3>1, <3>3 DEF Apart, Reverse2
    <2> QED
      BY <2>1, <2>2, <2>3
  <1>8. Together(q)'
    <2> SUFFICES ASSUME call[q].op = "follow", pc[q] \in {"write", "count", "card", "last"}
                 PROVE  ~Apart(Pair(q))'
      BY <1>1 DEF Together
    <2> QED
      BY <1>7 DEF Mine, Together, Steps
  <1>9. Unopposed(q)'
    <2> SUFFICES ASSUME call[q].op = "block", pc[q] \in {"find", "rows", "count", "last"}
                 PROVE  Reverse2(Pair(q)) \notin blocks'
      BY <1>1 DEF Unopposed, Reverse2
    <2> QED
      BY <1>7 DEF Mine, Unopposed, Steps
  <1>10. Severs(q)'
    <2> SUFFICES ASSUME call[q].op = "block", pc[q] \in {"rows", "count", "last"}, NEW p \in About(q)
                 PROVE  \/ follows'[p] = "none"
                        \/ rowLock'[p] = q
                        \/ pc[q] = "rows" /\ p \in tx[q].todo \ Overtaken(r, q)
      BY <1>1, <1>2 DEF Severs
    <2>1. Pair(q) \in Pairs /\ p \in Pairs /\ (p = Pair(q) \/ p = Reverse2(Pair(q)))
      BY PairOfHolder, AboutFacts, PairFacts DEF Mine, PairOps
    <2>2. \/ follows[p] = "none"
          \/ rowLock[p] = q
          \/ pc[q] = "rows" /\ p \in tx[q].todo
      BY DEF Mine, Severs
    <2>3. CASE rowLock[p] = q
      BY <1>3, <2>1, <2>3
    <2>4. CASE rowLock[p] = r /\ draft[p] = "none"
      BY <1>4, <2>1, <2>4
    <2>5. CASE rowLock[p] = r /\ draft[p] # "none"
      <3>1. call[r].op \in {"follow", "accept", "public"}
        BY <2>1, <2>5, Publishing DEF Drafts
      <3>2. call[r].op # "follow"
        <4> SUFFICES ASSUME call[r].op = "follow" PROVE FALSE
          OBVIOUS
        <4>1. p = Pair(r)
          BY <2>1, <2>5, Publishing, AboutFacts DEF Drafts, PairOps
        <4>2. Couple(Pair(r)) = Couple(Pair(q))
          BY <2>1, <4>1, PairFacts
        <4> QED
          BY <1>1, <4>2, OwnPair DEF Steps
      <3>3. follows[p] = "pending"
        BY <2>1, <2>5, <3>1, <3>2, Publishing DEF Drafts
      <3>4. p \notin Overtaken(r, q)
        BY <2>5 DEF Overtaken
      <3> QED
        BY <2>2, <2>5, <3>3, <3>4
    <2>6. CASE rowLock[p] # r /\ rowLock[p] # q
      <3>1. follows'[p] = follows[p] /\ p \notin Overtaken(r, q)
        BY <1>4, <2>1, <2>6 DEF Overtaken
      <3> QED
        BY <2>2, <2>6, <3>1
    <2> QED
      BY <2>3, <2>4, <2>5, <2>6
  <1>11. Drafts(q)'
    <2>1. \A p \in Pairs : rowLock[p] = q => follows'[p] = follows[p]
      BY <1>4
    <2> QED
      BY <1>1, <1>3, <2>1 DEF Mine, Drafts
  <1> QED
    BY <1>5, <1>6, <1>8, <1>9, <1>10, <1>11 DEF Mine

LEMMA CommitInv == ASSUME Inv, NEW r \in Requests, Commit(r) PROVE Inv'
  <1>1. TypeOK'
    BY CommitType
  <1>2. NoFollowAcrossBlock'
    BY CommitGraph, GraphApart DEF Inv, TypeOK
  <1>3. Mine(r)'
    <2>1. pc'[r] \in Ended /\ call' = call /\ Release(r)
      BY DEF Commit, Inv, TypeOK, Ended
    <2>2. call[r].op \in PairOps \cup OwnOps /\ (call[r].op \in OwnOps <=> call[r].me = call[r].you)
      BY Publishing, AboutFacts DEF Inv, Mine, Shape
    <2> QED
      BY <2>1, <2>2, Releasing, RestMine DEF Inv
  <1>4. \A q \in Requests \ {r} : Mine(q)'
    BY CommitOthers
  <1> QED
    BY <1>1, <1>2, <1>3, <1>4 DEF Inv

-----------------------------------------------------------------------------
(* The theorems about follows and blocks.                                  *)

LEMMA InvStep == ASSUME Inv, [Next]_vars PROVE Inv' /\ [GraphNext]_graph
  <1>1. CASE UNCHANGED vars
    <2>1. UNCHANGED <<store, locks, pc, call, tx>>
      BY <1>1 DEF vars
    <2>2. TypeOK' /\ UNCHANGED <<follows, blocks>> /\ NoFollowAcrossBlock'
      BY <2>1 DEF Inv, TypeOK, store, locks, NoFollowAcrossBlock, Apart
    <2>3. \A r \in Requests : Kept(r)
      BY <2>1 DEF Kept, locks
    <2>4. \A r \in Requests : Mine(r)'
      BY <2>2, <2>3, KeptMine DEF Inv
    <2> QED
      BY <2>1, <2>2, <2>4 DEF Inv, store, graph
  <1>2. ASSUME NEW r \in Requests, Commit(r) PROVE Inv' /\ [GraphNext]_graph
    BY <1>2, CommitInv, CommitGraph
  <1>3. ASSUME NEW r \in Requests, Statement(r), ~Commit(r) PROVE Inv' /\ [GraphNext]_graph
    <2>1. Inv'
      BY <1>3, LockPairInv, CheckInv, WriteInv, FindInv, TouchInv, RowsInv, CountInv, CountedInv,
         CardInv, ProfileInv DEF Statement
    <2>2. UNCHANGED store
      BY <1>3 DEF Statement, LockPair, Check, Write, Find, Touch, Rows, Count, Counted, Card, Profile,
         Goto, End
    <2> QED
      BY <2>1, <2>2 DEF store, graph
  <1>4. ASSUME NEW r \in Requests, Victim(r) \/ Fail(r) PROVE Inv' /\ [GraphNext]_graph
    <2>1. End(r, "failed")
      BY <1>4 DEF Victim, Fail
    <2>2. pc[r] # "idle"
      <3>1. CASE Fail(r)
        BY <3>1 DEF Fail, Active
      <3>2. CASE Victim(r)
        <4>1. PICK q : q \in WaitsFor(r)
          BY <3>2 DEF Victim, Deadlocked
        <4> QED
          BY <4>1 DEF WaitsFor, At
      <3> QED
        BY <1>4, <3>1, <3>2
    <2> QED
      BY <2>1, <2>2, EndInv DEF End, Ended, store, graph
  <1>5. ASSUME NEW r \in Requests, NEW c \in Calls, Arrive(r, c) PROVE Inv' /\ [GraphNext]_graph
    BY <1>5, ArriveInv DEF Arrive, store, graph
  <1> QED
    BY <1>1, <1>2, <1>3, <1>4, <1>5 DEF Next, Quiet

LEMMA InvAlways == Spec => []Inv
  BY InitInv, InvStep, PTL DEF Spec

\* Every variable has its type, and so has what a transaction carries.
THEOREM TypeCorrect == Spec => []TypeOK
  BY InvAlways, PTL DEF Inv

\* The transactions implement the graph that changes in single steps: a COMMIT
\* is the one step, and what was true when its statements read is true then.
THEOREM GraphImplemented == Spec => GraphSpec
  <1>1. Init => GraphInit
    <2> SUFFICES ASSUME Init PROVE GraphInit
      OBVIOUS
    <2> QED
      BY DEF Init, GraphInit
  <1> QED
    BY <1>1, InvAlways, InvStep, PTL DEF Spec, GraphSpec

\* Two people with a block between them do not follow each other, nor ask to,
\* whatever requests of theirs and of others are under way.
THEOREM ApartCorrect == Spec => []NoFollowAcrossBlock
  BY InvAlways, PTL DEF Inv

-----------------------------------------------------------------------------
(* The cards: what a request that has not committed knows of them.         *)

Ours(r) == rowLock[Row(r)] = r

BothProfiles(r) == \A u \in Couple(Row(r)) : profileLock[u] = r

\* The privacy switch holds the profile it switches.
Owns(r) ==
    call[r].op \in OwnOps /\ pc[r] \in {"find", "rows", "count", "last"} => profileLock[call[r].me] = r

\* The trigger has nothing to count before a row is written, and never for a
\* request that is rejected.
Fresh(r) ==
    /\ pc[r] \in {"idle", "lock", "check", "profile", "find"} => tx[r].changed = <<>>
    /\ pc[r] = "rows" /\ call[r].op = "reject" => tx[r].changed = <<>>
    /\ pc[r] = "rows" /\ call[r].op \in {"unfollow", "accept"} /\ tx[r].todo # {} => tx[r].changed = <<>>

\* Who comes to the trigger and to the card has accepted a follow, or ends some.
Moves(r) ==
    pc[r] \in {"count", "card"} =>
        /\ call[r].op \notin {"reject", "unblock"}
        /\ call[r].op \in {"follow", "accept"} => Ours(r) /\ draft[Row(r)] = "accepted"

\* A follow that begins or ends has both profiles locked, or is about to.
Counts(r) ==
    (/\ call[r].op \in {"follow", "accept", "unfollow"}
     /\ pc[r] \in {"rows", "count", "card", "last"}
     /\ Ours(r)
     /\ "accepted" \in {follows[Row(r)], draft[Row(r)]})
    => \/ pc[r] \in {"rows", "count"} /\ tx[r].changed = <<Row(r)>>
       \/ pc[r] \in {"count", "card", "last"} /\ BothProfiles(r)

\* The card it adds is that of the follow it accepts, as private as the account is.
Adds(r) ==
    tx[r].add # {} =>
        /\ pc[r] = "last" /\ call[r].op \in {"follow", "accept"}
        /\ Ours(r) /\ draft[Row(r)] = "accepted"
        /\ tx[r].add = {[pair |-> Row(r), by |-> r, public |-> ~private[Row(r)[1]]]}

\* An unfollow that deletes the row takes every card there is of it.
Drops(r) ==
    pc[r] = "last" /\ call[r].op = "unfollow" /\ Ours(r) => CardsOf(Row(r)) \subseteq tx[r].gone

\* Only a request that waits is rejected.
Rejects(r) ==
    call[r].op = "reject" /\ pc[r] \in {"rows", "last"} /\ Ours(r) => follows[Row(r)] = "pending"

Books(r) == Owns(r) /\ Fresh(r) /\ Moves(r) /\ Counts(r) /\ Adds(r) /\ Drops(r) /\ Rejects(r)

CardsKept == PrivateCards /\ CardsHaveFollows /\ \A r \in Requests : Books(r)

\* A statement of another request.
Spared(q) ==
    /\ pc'[q] = pc[q] /\ call'[q] = call[q] /\ tx'[q] = tx[q]
    /\ \A p \in Pairs : rowLock'[p] = q <=> rowLock[p] = q
    /\ \A p \in Pairs : rowLock[p] = q => draft'[p] = draft[p]
    /\ \A u \in Users : profileLock[u] = q => profileLock'[u] = q

LEMMA RowFacts ==
    ASSUME TypeOK, NEW r \in Requests, Shape(r), call[r].op \in PairOps, pc[r] # "idle"
    PROVE  /\ Row(r) \in Pairs /\ Couple(Row(r)) \subseteq Users /\ Row(r)[1] \in Couple(Row(r))
           /\ Row(r)[1] \in Users
  <1>1. Row(r) \in Pairs
    BY PairOfHolder
  <1> QED
    BY <1>1 DEF Couple, Pairs

LEMMA SparedBooks ==
    ASSUME TypeOK, NEW q \in Requests, Mine(q), Books(q), Spared(q), private' = private,
           follows' = follows, cards' = cards
    PROVE  Books(q)'
  <1>1. Row(q)' = Row(q)
    BY SameCall DEF Spared
  <1>2. ASSUME call[q].op \in PairOps, pc[q] # "idle"
        PROVE  /\ Row(q) \in Pairs /\ (Ours(q)' <=> Ours(q))
               /\ Ours(q) => draft'[Row(q)] = draft[Row(q)]
               /\ BothProfiles(q) => BothProfiles(q)'
    <2>1. Row(q) \in Pairs /\ Couple(Row(q)) \subseteq Users
      BY <1>2, RowFacts DEF Mine
    <2> QED
      BY <1>1, <2>1 DEF Spared, Ours, BothProfiles, Couple
  <1>3. Owns(q)'
    <2>1. call[q].me \in Users
      BY DEF TypeOK, Calls
    <2> QED
      BY <2>1 DEF Books, Owns, Spared
  <1>4. Fresh(q)'
    BY DEF Books, Fresh, Spared
  <1>5. Moves(q)'
    BY <1>1, <1>2 DEF Books, Moves, Spared, PairOps
  <1>6. Counts(q)'
    BY <1>1, <1>2 DEF Books, Counts, Spared, PairOps
  <1>7. Adds(q)'
    BY <1>1, <1>2 DEF Books, Adds, Spared, PairOps
  <1>8. Drops(q)'
    BY <1>1, <1>2 DEF Books, Drops, Spared, PairOps, CardsOf
  <1>9. Rejects(q)'
    BY <1>1, <1>2 DEF Books, Rejects, Spared, PairOps
  <1> QED
    BY <1>3, <1>4, <1>5, <1>6, <1>7, <1>8, <1>9 DEF Books

LEMMA Gather ==
    ASSUME Inv, CardsKept, NEW r \in Requests, Books(r)', UNCHANGED store,
           \A q \in Requests \ {r} : Spared(q)
    PROVE  CardsKept'
  <1>1. private' = private /\ follows' = follows /\ cards' = cards
    BY DEF store
  <1>2. \A q \in Requests : Books(q)'
    BY <1>1, SparedBooks DEF Inv, CardsKept
  <1>3. PrivateCards' /\ CardsHaveFollows'
    BY <1>1 DEF CardsKept, PrivateCards, CardsHaveFollows, CardsOf
  <1> QED
    BY <1>2, <1>3 DEF CardsKept

\* Nothing of a request that has ended is left to write.
LEMMA RestBooks ==
    ASSUME NEW r \in Requests, pc'[r] \in Ended, tx'[r].add = {} PROVE Books(r)'
  BY DEF Books, Owns, Fresh, Moves, Counts, Adds, Drops, Rejects, Ended

LEMMA ReleaseSpares ==
    ASSUME TypeOK, NEW r \in Requests, NEW q \in Requests \ {r}, Release(r)
    PROVE  /\ \A p \in Pairs : rowLock'[p] = q <=> rowLock[p] = q
           /\ \A p \in Pairs : rowLock[p] = q => draft'[p] = draft[p]
           /\ \A u \in Users : profileLock[u] = q => profileLock'[u] = q
  <1>1. \A u \in Users : profileLock[u] = q => profileLock'[u] = q
    BY DEF Release
  <1> QED
    BY <1>1, Releasing

LEMMA EndCards ==
    ASSUME Inv, CardsKept, NEW r \in Requests, NEW how \in Ended, End(r, how) PROVE CardsKept'
  <1>1. /\ pc' = [pc EXCEPT ![r] = how] /\ tx' = [tx EXCEPT ![r] = NoTx]
        /\ Release(r) /\ UNCHANGED <<store, call>>
    BY DEF End
  <1>2. Books(r)'
    <2>1. pc'[r] = how /\ tx'[r] = NoTx
      BY <1>1 DEF Inv, TypeOK
    <2>2. NoTx.add = {}
      BY DEF NoTx
    <2> QED
      BY <2>1, <2>2, RestBooks
  <1>3. ASSUME NEW q \in Requests \ {r} PROVE Spared(q)
    BY <1>1, <1>3, ReleaseSpares DEF Spared, Inv, TypeOK
  <1> QED
    BY <1>1, <1>2, <1>3, Gather

\* A statement that writes no row.
LEMMA Reads ==
    ASSUME Inv, CardsKept, NEW r \in Requests, NEW step \in Steps, NEW x,
           pc' = [pc EXCEPT ![r] = step], tx' = [tx EXCEPT ![r] = x],
           UNCHANGED <<store, call, rowLock, draft>>,
           \A u \in Users, q \in Requests \ {r} : profileLock[u] = q => profileLock'[u] = q,
           Books(r)'
    PROVE  CardsKept'
  <1>1. \A q \in Requests \ {r} : Spared(q)
    BY DEF Spared, Inv, TypeOK
  <1> QED
    BY <1>1, Gather

LEMMA ArriveCards == ASSUME Inv, CardsKept, NEW r \in Requests, NEW c \in Calls, Arrive(r, c) PROVE CardsKept'
  <1> DEFINE step == CASE c.op \in {"follow", "accept", "block"} -> "lock"
                       [] c.op = "unfollow"                      -> "check"
                       [] c.op = "reject"                        -> "find"
                       [] c.op = "unblock"                       -> "last"
                       [] c.op \in OwnOps                        -> "profile"
  <1>1. /\ pc[r] = "idle" /\ UNCHANGED <<store, locks>>
        /\ call' = [call EXCEPT ![r] = c]
        /\ tx' = [tx EXCEPT ![r].opening = c.op = "public" /\ private[c.me]]
        /\ pc' = [pc EXCEPT ![r] = step]
    BY DEF Arrive, At
  <1>2. step \in {"lock", "check", "find", "profile"} \/ (step = "last" /\ c.op = "unblock")
    BY DEF Calls, PairOps
  <1> HIDE DEF step
  <1>3. pc'[r] = step /\ call'[r] = c
    BY <1>1 DEF Inv, TypeOK
  <1>4. tx[r] \in Transactions
    BY DEF Inv, TypeOK
  <1>5. tx'[r].changed = tx[r].changed /\ tx'[r].add = tx[r].add
    BY <1>1, <1>4 DEF Inv, TypeOK, Transactions
  <1>6. tx[r].changed = <<>> /\ tx[r].add = {}
    BY <1>1 DEF CardsKept, Books, Fresh, Adds
  <1>7. Books(r)'
    <2>1. Owns(r)'
      <3>1. c.op = "reject" \/ step # "find"
        BY DEF Calls, PairOps, step
      <3> QED
        BY <1>2, <1>3, <3>1 DEF Owns, OwnOps
    <2>2. Fresh(r)' /\ Moves(r)' /\ Counts(r)' /\ Adds(r)' /\ Drops(r)' /\ Rejects(r)'
      BY <1>2, <1>3, <1>5, <1>6 DEF Fresh, Moves, Counts, Adds, Drops, Rejects
    <2> QED
      BY <2>1, <2>2 DEF Books
  <1>8. \A q \in Requests \ {r} : Spared(q)
    BY <1>1 DEF Spared, Inv, TypeOK, locks
  <1> QED
    BY <1>1, <1>7, <1>8, Gather

LEMMA LockPairCards == ASSUME Inv, CardsKept, NEW r \in Requests, LockPair(r) PROVE CardsKept'
  <1> DEFINE step == IF call[r].op = "accept" THEN "find" ELSE "check"
  <1>1. /\ pc[r] = "lock" /\ UNCHANGED <<store, call, rowLock, draft, profileLock, tx>>
        /\ pc' = [pc EXCEPT ![r] = step]
    BY DEF LockPair, Goto, At
  <1>2. step \in {"find", "check"} /\ step \in Steps
    BY DEF Steps
  <1> HIDE DEF step
  <1>3. pc'[r] = step /\ tx' = [tx EXCEPT ![r] = tx[r]]
    BY <1>1 DEF Inv, TypeOK
  <1>4. call[r].op \in {"follow", "accept", "block"}
    BY <1>1 DEF Inv, Mine, Shape, Comers
  <1>5. Books(r)'
    BY <1>1, <1>2, <1>3, <1>4 DEF CardsKept, Books, Owns, Fresh, Moves, Counts, Adds, Drops, Rejects, OwnOps
  <1> QED
    BY <1>1, <1>2, <1>3, <1>5, Reads

LEMMA CheckCards == ASSUME Inv, CardsKept, NEW r \in Requests, Check(r) PROVE CardsKept'
  <1>1. CASE End(r, "refused") \/ End(r, "done")
    BY <1>1, EndCards DEF Ended
  <1>2. CASE tx' = [tx EXCEPT ![r].opening = private[call[r].you]]
             /\ Goto(r, IF call[r].op = "follow" THEN "write" ELSE "find") /\ UNCHANGED locks
    <2> DEFINE step == IF call[r].op = "follow" THEN "write" ELSE "find"
               x == [tx[r] EXCEPT !.opening = private[call[r].you]]
    <2>1. pc[r] = "check" /\ UNCHANGED <<store, call, rowLock, draft, profileLock>>
          /\ pc' = [pc EXCEPT ![r] = step] /\ tx' = [tx EXCEPT ![r] = x]
      BY <1>2 DEF Check, Goto, At, locks
    <2>2. step \in {"write", "find"} /\ step \in Steps
      BY DEF Steps
    <2>3. x.changed = tx[r].changed /\ x.add = tx[r].add
      BY DEF Inv, TypeOK, Transactions
    <2> HIDE DEF step, x
    <2>4. pc'[r] = step /\ tx'[r] = x
      BY <2>1 DEF Inv, TypeOK
    <2>5. call[r].op \in {"follow", "unfollow", "block"}
      BY <2>1 DEF Inv, Mine, Shape, Comers
    <2>6. Books(r)'
      BY <2>1, <2>2, <2>3, <2>4, <2>5
      DEF CardsKept, Books, Owns, Fresh, Moves, Counts, Adds, Drops, Rejects, OwnOps
    <2> QED
      BY <2>1, <2>2, <2>6, Reads
  <1> QED
    BY <1>1, <1>2 DEF Check

LEMMA WriteCards == ASSUME Inv, CardsKept, NEW r \in Requests, Write(r) PROVE CardsKept'
  <1>1. pc[r] = "write" /\ call[r].op = "follow" /\ rowLock[Row(r)] = Nobody
    BY DEF Write, At, Inv, Mine, Shape, Comers
  <1>2. CASE End(r, "done")
    BY <1>2, EndCards DEF Ended
  <1>3. CASE ~End(r, "done")
    <2> DEFINE C == IF Wanted(r) = "accepted" THEN <<Row(r)>> ELSE <<>>
               x == [tx[r] EXCEPT !.changed = C]
               step == IF Wanted(r) = "accepted" THEN "count" ELSE "last"
    <2>1. Row(r) \in Pairs
      BY <1>1, RowFacts DEF Inv, Mine, PairOps
    <2>2. /\ follows[Row(r)] # "accepted"
          /\ rowLock' = [rowLock EXCEPT ![Row(r)] = r]
          /\ draft' = [draft EXCEPT ![Row(r)] = Wanted(r)]
          /\ tx' = [tx EXCEPT ![r] = x]
          /\ pc' = [pc EXCEPT ![r] = step]
          /\ UNCHANGED <<store, call, profileLock>>
      BY <1>3 DEF Write, Goto
    <2>3. \/ Wanted(r) = "accepted" /\ step = "count" /\ C = <<Row(r)>>
          \/ Wanted(r) = "pending" /\ step = "last" /\ C = <<>>
      BY DEF Wanted
    <2>4. x.changed = C /\ x.add = tx[r].add
      BY DEF Inv, TypeOK, Transactions
    <2>5. tx[r].add = {}
      BY <1>1 DEF CardsKept, Books, Adds
    <2> HIDE DEF x, step, C
    <2>6. /\ pc'[r] = step /\ tx'[r] = x /\ Row(r)' = Row(r) /\ call' = call
          /\ rowLock'[Row(r)] = r /\ draft'[Row(r)] = Wanted(r) /\ follows' = follows
      BY <2>1, <2>2, SameCall DEF Inv, TypeOK, store
    <2>7. Books(r)'
      BY <1>1, <2>2, <2>3, <2>4, <2>5, <2>6
      DEF Books, Owns, Fresh, Moves, Counts, Adds, Drops, Rejects, OwnOps, Ours
    <2>8. \A q \in Requests \ {r} : Spared(q)
      BY <1>1, <2>2, NobodyAssumption DEF Spared, Inv, TypeOK
    <2> QED
      BY <2>2, <2>7, <2>8, Gather
  <1> QED
    BY <1>2, <1>3

LEMMA FindCards == ASSUME Inv, CardsKept, NEW r \in Requests, Find(r) PROVE CardsKept'
  <1> DEFINE T == {p \in About(r) : Matches(r, follows[p])}
             x == [tx[r] EXCEPT !.todo = T]
  <1>1. /\ pc[r] = "find" /\ pc' = [pc EXCEPT ![r] = "rows"] /\ tx' = [tx EXCEPT ![r] = x]
        /\ UNCHANGED <<store, call, rowLock, draft, profileLock>>
    BY DEF Find, Goto, At, locks
  <1>2. x.changed = tx[r].changed /\ x.add = tx[r].add
    BY DEF Inv, TypeOK, Transactions
  <1> HIDE DEF x
  <1>3. pc'[r] = "rows" /\ tx'[r] = x
    BY <1>1 DEF Inv, TypeOK
  <1>4. tx[r].changed = <<>> /\ tx[r].add = {}
    BY <1>1 DEF CardsKept, Books, Fresh, Adds
  <1>5. ~Ours(r)' \/ call[r].op \notin PairOps
    <2> SUFFICES ASSUME call[r].op \in PairOps PROVE ~Ours(r)'
      OBVIOUS
    <2>1. Row(r) \in Pairs /\ Row(r)' = Row(r)
      BY <1>1, RowFacts, SameCall DEF Inv, Mine
    <2>2. rowLock[Row(r)] # r
      BY <1>1, <2>1 DEF Inv, Mine, Drafts
    <2> QED
      BY <1>1, <2>1, <2>2 DEF Ours
  <1>6. Books(r)'
    BY <1>1, <1>2, <1>3, <1>4, <1>5
    DEF CardsKept, Books, Owns, Fresh, Moves, Counts, Adds, Drops, Rejects, OwnOps, PairOps
  <1>7. "rows" \in Steps
    BY DEF Steps
  <1> QED
    BY <1>1, <1>6, <1>7, Reads

LEMMA TouchCards ==
    ASSUME Inv, CardsKept, NEW r \in Requests, NEW p \in Pairs, Touch(r, p) PROVE CardsKept'
  <1>1. /\ pc[r] = "rows" /\ p \in tx[r].todo /\ rowLock[p] = Nobody /\ p \in About(r)
        /\ call[r].op \in {"unfollow", "accept", "reject", "block", "public"}
        /\ UNCHANGED <<store, profileLock, pc, call>>
    BY DEF Touch, At, Inv, Mine, Shape, Comers
  <1> DEFINE todo == tx[r].todo \ {p}
             C == IF "accepted" \in {follows[p], Becomes(r)} THEN Append(tx[r].changed, p)
                  ELSE tx[r].changed
             x == [tx[r] EXCEPT !.todo = todo]
             y == [tx[r] EXCEPT !.todo = todo, !.changed = C]
  <1>2. \/ /\ Matches(r, follows[p])
           /\ rowLock' = [rowLock EXCEPT ![p] = r]
           /\ draft' = [draft EXCEPT ![p] = Becomes(r)]
           /\ tx' = [tx EXCEPT ![r] = y]
        \/ /\ ~Matches(r, follows[p])
           /\ tx' = [tx EXCEPT ![r] = x]
           /\ UNCHANGED <<rowLock, draft>>
    BY DEF Touch, Inv, TypeOK
  <1>3. /\ x.changed = tx[r].changed /\ x.add = tx[r].add /\ x.todo = todo
        /\ y.changed = C /\ y.add = tx[r].add /\ y.todo = todo
    BY DEF Inv, TypeOK, Transactions
  <1> HIDE DEF x, y
  <1>4. /\ pc'[r] = "rows" /\ call' = call /\ follows' = follows /\ Row(r)' = Row(r)
        /\ tx'[r] \in {x, y} /\ (Matches(r, follows[p]) => tx'[r] = y)
        /\ (~Matches(r, follows[p]) => tx'[r] = x)
    BY <1>1, <1>2, SameCall DEF Inv, TypeOK, store
  <1>5. tx[r].add = {}
    BY <1>1 DEF CardsKept, Books, Adds
  <1>6. call[r].op \in {"unfollow", "accept", "reject"} =>
          /\ p = Row(r) /\ todo = {} /\ tx[r].changed = <<>> /\ Row(r) \in Pairs
    <2> SUFFICES ASSUME call[r].op \in {"unfollow", "accept", "reject"}
                 PROVE  p = Row(r) /\ todo = {} /\ tx[r].changed = <<>> /\ Row(r) \in Pairs
      OBVIOUS
    <2>1. About(r) = {Row(r)} /\ tx[r].todo \subseteq About(r)
      BY <1>1, AboutFacts DEF Inv, Mine, Shape, PairOps
    <2>2. tx[r].changed = <<>>
      BY <1>1 DEF CardsKept, Books, Fresh
    <2> QED
      BY <1>1, <2>1, <2>2
  <1>7. Owns(r)' /\ Moves(r)' /\ Adds(r)' /\ Drops(r)'
    BY <1>1, <1>3, <1>4, <1>5 DEF Owns, Moves, Adds, Drops, OwnOps, CardsKept, Books
  <1>8. Fresh(r)'
    <2>1. call[r].op = "reject" /\ Matches(r, follows[p]) => C = <<>>
      BY <1>6 DEF Matches, Becomes
    <2> QED
      BY <1>3, <1>4, <1>6, <2>1 DEF Fresh
  <1>9. Ours(r)' /\ call[r].op \in {"unfollow", "accept", "reject"} => Matches(r, follows[p])
    <2> SUFFICES ASSUME ~Matches(r, follows[p]), call[r].op \in {"unfollow", "accept", "reject"}
                 PROVE  ~Ours(r)'
      OBVIOUS
    <2> QED
      BY <1>1, <1>2, <1>4, <1>6, NobodyAssumption DEF Ours
  <1>10. Counts(r)'
    <2> SUFFICES ASSUME call[r].op \in {"unfollow", "accept"}, Ours(r)',
                        "accepted" \in {follows[Row(r)], draft'[Row(r)]}
                 PROVE  tx'[r].changed = <<Row(r)>>
      BY <1>1, <1>4 DEF Counts
    <2>1. draft'[p] = Becomes(r) /\ tx'[r] = y
      BY <1>2, <1>4, <1>9 DEF Inv, TypeOK
    <2>2. C = Append(<<>>, p)
      BY <1>6, <2>1
    <2>3. Append(<<>>, p) = <<p>>
      OBVIOUS
    <2> QED
      BY <1>3, <1>6, <2>1, <2>2, <2>3
  <1>11. Rejects(r)'
    BY <1>4, <1>6, <1>9 DEF Rejects, Matches
  <1>12. Books(r)'
    BY <1>7, <1>8, <1>10, <1>11 DEF Books
  <1>13. \A q \in Requests \ {r} : Spared(q)
    BY <1>1, <1>2, NobodyAssumption DEF Spared, Inv, TypeOK
  <1> QED
    BY <1>1, <1>12, <1>13, Gather

LEMMA RowsCards == ASSUME Inv, CardsKept, NEW r \in Requests, Rows(r) PROVE CardsKept'
  <1>1. pc[r] = "rows" /\ tx[r].todo = {} /\ call[r].op \in {"unfollow", "accept", "reject", "block", "public"}
    BY DEF Rows, At, Inv, Mine, Shape, Comers
  <1>2. CASE End(r, "refused")
    BY <1>2, EndCards DEF Ended
  <1>3. CASE ~End(r, "refused")
    <2> DEFINE step == IF tx[r].changed # <<>> THEN "count"
                       ELSE IF call[r].op = "unfollow" THEN "card" ELSE "last"
    <2>1. /\ pc' = [pc EXCEPT ![r] = step] /\ UNCHANGED <<store, call, locks, tx>>
          /\ call[r].op = "accept" => Written(r) # {}
      BY <1>3 DEF Rows, Goto
    <2>2. \/ step = "count" /\ tx[r].changed # <<>>
          \/ step = "card" /\ tx[r].changed = <<>> /\ call[r].op = "unfollow"
          \/ step = "last" /\ tx[r].changed = <<>> /\ call[r].op # "unfollow"
      OBVIOUS
    <2>3. step \in Steps
      BY DEF Steps
    <2> HIDE DEF step
    <2>4. /\ pc'[r] = step /\ tx' = [tx EXCEPT ![r] = tx[r]] /\ Row(r)' = Row(r) /\ Ours(r)' = Ours(r)
          /\ follows' = follows /\ draft' = draft /\ call' = call /\ profileLock' = profileLock
      BY <2>1, SameCall DEF Inv, TypeOK, store, locks, Ours
    <2>5. call[r].op = "accept" => Ours(r) /\ draft[Row(r)] = "accepted"
      <3> SUFFICES ASSUME call[r].op = "accept" PROVE Ours(r) /\ draft[Row(r)] = "accepted"
        OBVIOUS
      <3>1. PICK p \in Pairs : rowLock[p] = r
        BY <2>1 DEF Written
      <3>2. p = Row(r)
        BY <3>1, AboutFacts DEF Inv, Mine, Drafts, PairOps
      <3> QED
        BY <3>1, <3>2 DEF Inv, Mine, Drafts, Ours
    <2>6. Counts(r)
      BY DEF CardsKept, Books
    <2>7. Counts(r)'
      <3> SUFFICES ASSUME call[r].op \in {"unfollow", "accept"}, Ours(r),
                          "accepted" \in {follows[Row(r)], draft[Row(r)]}
                   PROVE  step = "count" /\ tx[r].changed = <<Row(r)>>
        BY <1>1, <2>1, <2>4 DEF Counts
      <3>1. tx[r].changed = <<Row(r)>>
        BY <1>1, <2>6 DEF Counts
      <3> QED
        BY <2>2, <3>1
    <2>8. Owns(r)' /\ Fresh(r)' /\ Drops(r)' /\ Rejects(r)'
      BY <1>1, <2>1, <2>2, <2>4 DEF CardsKept, Books, Owns, Fresh, Drops, Rejects
    <2>9. Moves(r)'
      BY <1>1, <2>1, <2>2, <2>4, <2>5 DEF CardsKept, Books, Moves, Fresh
    <2>10. Adds(r)'
      BY <1>1, <2>1, <2>4 DEF CardsKept, Books, Adds
    <2>11. Books(r)'
      BY <2>7, <2>8, <2>9, <2>10 DEF Books
    <2> QED
      BY <2>1, <2>3, <2>4, <2>11, Reads DEF locks
  <1> QED
    BY <1>2, <1>3

LEMMA CountCards == ASSUME Inv, CardsKept, NEW r \in Requests, Count(r) PROVE CardsKept'
  <1>1. pc[r] = "count" /\ tx[r].changed # <<>> /\ UNCHANGED <<store, rowLock, draft, pc, call>>
    BY DEF Count, At
  <1>2. "count" \in Steps /\ pc' = [pc EXCEPT ![r] = "count"]
    BY <1>1 DEF Steps, Inv, TypeOK
  <1>3. /\ Row(r)' = Row(r) /\ Ours(r)' = Ours(r) /\ tx[r].add = {}
        /\ follows' = follows /\ draft' = draft /\ call' = call
    BY <1>1, SameCall DEF store, Ours, CardsKept, Books, Adds
  <1> DEFINE p == Head(tx[r].changed)
             need == Unlocked(r, p)
  <1>4. CASE need # {}
    <2>1. /\ profileLock[Lower(need)] = Nobody
          /\ profileLock' = [profileLock EXCEPT ![Lower(need)] = r]
          /\ tx' = [tx EXCEPT ![r] = tx[r]]
      BY <1>4 DEF Count, Inv, TypeOK
    <2>2. tx'[r] = tx[r] /\ (\A u \in Users : profileLock[u] = r => profileLock'[u] = r)
      BY <2>1 DEF Inv, TypeOK
    <2>3. Owns(r)'
      <3>1. call[r].me \in Users
        BY DEF Inv, TypeOK, Calls
      <3> QED
        BY <1>1, <1>3, <2>2, <3>1 DEF CardsKept, Books, Owns
    <2>4. Counts(r)'
      <3> SUFFICES ASSUME call[r].op \in {"follow", "accept", "unfollow"}, Ours(r),
                          "accepted" \in {follows[Row(r)], draft[Row(r)]}
                   PROVE  tx[r].changed = <<Row(r)>> \/ BothProfiles(r)'
        BY <1>1, <1>3, <2>2 DEF Counts
      <3>1. Couple(Row(r)) \subseteq Users
        BY <1>1, RowFacts DEF Inv, Mine, PairOps
      <3> QED
        BY <1>1, <1>3, <2>2, <3>1 DEF CardsKept, Books, Counts, BothProfiles, Couple
    <2>5. Books(r)'
      BY <1>1, <1>3, <2>2, <2>3, <2>4 DEF CardsKept, Books, Fresh, Moves, Adds, Drops, Rejects
    <2>6. \A u \in Users, q \in Requests \ {r} : profileLock[u] = q => profileLock'[u] = q
      BY <2>1, NobodyAssumption DEF Inv, TypeOK
    <2> QED
      BY <1>1, <1>2, <2>1, <2>5, <2>6, Reads
  <1>5. CASE need = {}
    <2> DEFINE x == [tx[r] EXCEPT !.changed = Tail(tx[r].changed)]
    <2>1. tx' = [tx EXCEPT ![r] = x] /\ profileLock' = profileLock
      BY <1>5 DEF Count
    <2>2. x.add = tx[r].add
      BY DEF Inv, TypeOK, Transactions
    <2> HIDE DEF x
    <2>3. tx'[r].add = {}
      BY <1>3, <2>1, <2>2 DEF Inv, TypeOK
    <2>4. Counts(r)'
      <3> SUFFICES ASSUME call[r].op \in {"follow", "accept", "unfollow"}, Ours(r),
                          "accepted" \in {follows[Row(r)], draft[Row(r)]}
                   PROVE  BothProfiles(r)'
        BY <1>1, <1>3 DEF Counts
      <3>1. tx[r].changed = <<Row(r)>> \/ BothProfiles(r)
        BY <1>1 DEF CardsKept, Books, Counts
      <3>2. tx[r].changed = <<Row(r)>> => BothProfiles(r)
        BY <1>5 DEF Unlocked, BothProfiles
      <3> QED
        BY <1>3, <2>1, <3>1, <3>2 DEF BothProfiles
    <2>5. Books(r)'
      BY <1>1, <1>3, <2>1, <2>3, <2>4 DEF CardsKept, Books, Owns, Fresh, Moves, Adds, Drops, Rejects
    <2> QED
      BY <1>1, <1>2, <2>1, <2>5, Reads
  <1> QED
    BY <1>4, <1>5

LEMMA CountedCards == ASSUME Inv, CardsKept, NEW r \in Requests, Counted(r) PROVE CardsKept'
  <1> DEFINE step == IF call[r].op \in {"block", "public"} THEN "last" ELSE "card"
  <1>1. /\ pc[r] = "count" /\ tx[r].changed = <<>> /\ UNCHANGED <<store, call, locks, tx>>
        /\ pc' = [pc EXCEPT ![r] = step]
    BY DEF Counted, Goto, At
  <1>2. \/ step = "card" /\ call[r].op \notin {"block", "public"}
        \/ step = "last" /\ call[r].op \in {"block", "public"}
    OBVIOUS
  <1>3. step \in Steps
    BY DEF Steps
  <1> HIDE DEF step
  <1>4. /\ pc'[r] = step /\ tx' = [tx EXCEPT ![r] = tx[r]] /\ Row(r)' = Row(r) /\ Ours(r)' = Ours(r)
        /\ BothProfiles(r)' = BothProfiles(r)
        /\ follows' = follows /\ draft' = draft /\ call' = call /\ profileLock' = profileLock
    BY <1>1, SameCall DEF Inv, TypeOK, store, locks, Ours, BothProfiles
  <1>5. Counts(r)'
    <2>1. tx[r].changed # <<Row(r)>>
      BY <1>1
    <2> QED
      BY <1>1, <1>2, <1>4, <2>1 DEF CardsKept, Books, Counts
  <1>6. Books(r)'
    BY <1>1, <1>2, <1>4, <1>5 DEF CardsKept, Books, Owns, Fresh, Moves, Adds, Drops, Rejects
  <1> QED
    BY <1>1, <1>3, <1>4, <1>6, Reads DEF locks

LEMMA CardCards == ASSUME Inv, CardsKept, NEW r \in Requests, Card(r) PROVE CardsKept'
  <1>1. /\ pc[r] = "card" /\ pc' = [pc EXCEPT ![r] = "last"]
        /\ UNCHANGED <<store, call, locks>>
    BY DEF Card, Goto, At
  <1>2. call[r].op \in {"follow", "accept", "unfollow"}
    BY <1>1 DEF Inv, Mine, Shape, Comers, CardsKept, Books, Moves, PairOps
  <1> DEFINE D == {[pair |-> Row(r), by |-> r, public |-> ~private[Row(r)[1]]]}
             x == IF call[r].op = "unfollow" THEN [tx[r] EXCEPT !.gone = CardsOf(Row(r))]
                  ELSE [tx[r] EXCEPT !.add = D]
  <1>3. tx' = [tx EXCEPT ![r] = x]
    BY DEF Card
  <1>4. /\ call[r].op = "unfollow" => x.gone = CardsOf(Row(r)) /\ x.add = tx[r].add
        /\ call[r].op # "unfollow" => x.add = D
    <2> HIDE DEF D
    <2> QED
      BY DEF Inv, TypeOK, Transactions
  <1>5. /\ pc'[r] = "last" /\ Row(r)' = Row(r) /\ Ours(r)' = Ours(r) /\ tx[r].add = {}
        /\ BothProfiles(r)' = BothProfiles(r) /\ CardsOf(Row(r))' = CardsOf(Row(r))
        /\ follows' = follows /\ draft' = draft /\ call' = call /\ private' = private
    BY <1>1, SameCall DEF Inv, TypeOK, store, locks, Ours, BothProfiles, CardsOf, CardsKept, Books, Adds
  <1>6. Owns(r)' /\ Fresh(r)' /\ Moves(r)' /\ Rejects(r)' /\ Counts(r)'
    BY <1>1, <1>2, <1>5 DEF CardsKept, Books, Owns, Fresh, Moves, Rejects, Counts, OwnOps
  <1> HIDE DEF x
  <1>7. tx'[r] = x
    BY <1>3 DEF Inv, TypeOK
  <1>8. Drops(r)'
    BY <1>4, <1>5, <1>7 DEF Drops
  <1>9. Adds(r)'
    <2>1. CASE call[r].op = "unfollow"
      BY <1>4, <1>5, <1>7, <2>1 DEF Adds
    <2>2. CASE call[r].op # "unfollow"
      <3>1. Ours(r) /\ draft[Row(r)] = "accepted"
        BY <1>1, <1>2, <2>2 DEF CardsKept, Books, Moves
      <3> QED
        BY <1>2, <1>4, <1>5, <1>7, <2>2, <3>1 DEF Adds
    <2> QED
      BY <2>1, <2>2
  <1>10. Books(r)'
    BY <1>6, <1>8, <1>9 DEF Books
  <1>11. "last" \in Steps
    BY DEF Steps
  <1> QED
    BY <1>1, <1>3, <1>10, <1>11, Reads DEF locks

LEMMA ProfileCards == ASSUME Inv, CardsKept, NEW r \in Requests, Profile(r) PROVE CardsKept'
  <1> DEFINE step == IF tx[r].opening THEN "find" ELSE "last"
  <1>1. /\ pc[r] = "profile" /\ call[r].op \in OwnOps /\ pc' = [pc EXCEPT ![r] = step]
        /\ profileLock[call[r].me] = Nobody
        /\ profileLock' = [profileLock EXCEPT ![call[r].me] = r]
        /\ UNCHANGED <<store, call, rowLock, draft, tx>>
    BY DEF Profile, At, Goto, Inv, Mine, Shape, Comers
  <1>2. step \in {"find", "last"} /\ step \in Steps
    BY DEF Steps
  <1> HIDE DEF step
  <1>3. /\ pc'[r] = step /\ tx' = [tx EXCEPT ![r] = tx[r]] /\ call' = call
        /\ profileLock'[call[r].me] = r
    BY <1>1 DEF Inv, TypeOK, Calls
  <1>4. Books(r)'
    BY <1>1, <1>2, <1>3 DEF CardsKept, Books, Owns, Fresh, Moves, Counts, Adds, Drops, Rejects, OwnOps
  <1>5. \A u \in Users, q \in Requests \ {r} : profileLock[u] = q => profileLock'[u] = q
    BY <1>1, NobodyAssumption DEF Inv, TypeOK
  <1> QED
    BY <1>1, <1>2, <1>3, <1>4, <1>5, Reads

\* The COMMIT.
LEMMA RecastFacts ==
    ASSUME NEW r, NEW c \in Cards
    PROVE  /\ Recast(r, c).pair = c.pair
           /\ call[r].op = "private" /\ c.pair[1] = call[r].me => ~Recast(r, c).public
           /\ call[r].op \notin OwnOps \/ c.pair[1] # call[r].me => Recast(r, c) = c
  BY DEF Recast, Cards, OwnOps

\* What a request holds at its COMMIT.
LEMMA AtCommit ==
    ASSUME Inv, CardsKept, NEW r \in Requests, Commit(r)
    PROVE  /\ \A p \in Pairs : follows[p] = "accepted" /\ rowLock[p] = r => CardsOf(p) \subseteq Severed(r)
           /\ tx[r].add # {} => /\ call[r].op \in {"follow", "accept"} /\ Row(r) \in Pairs
                                /\ rowLock[Row(r)] = r /\ draft[Row(r)] = "accepted"
                                /\ follows[Row(r)] # "accepted"
                                /\ tx[r].add = {[pair |-> Row(r), by |-> r, public |-> ~private[Row(r)[1]]]}
  <1>1. pc[r] = "last" /\ Drafts(r)
    BY Publishing
  <1>2. ASSUME NEW p \in Pairs, follows[p] = "accepted", rowLock[p] = r
        PROVE  CardsOf(p) \subseteq Severed(r)
    <2>1. p \in About(r) /\ call[r].op \in {"unfollow", "reject", "block"}
      BY <1>1, <1>2 DEF Drafts
    <2>2. CASE call[r].op = "block"
      BY <2>1, <2>2, AboutFacts DEF Inv, Severed
    <2>3. CASE call[r].op \in {"unfollow", "reject"}
      <3>1. p = Row(r)
        BY <2>1, <2>3, AboutFacts DEF Inv, PairOps
      <3> QED
        BY <1>1, <1>2, <2>3, <3>1 DEF CardsKept, Books, Drops, Rejects, Ours, Severed
    <2> QED
      BY <2>1, <2>2, <2>3
  <1>3. ASSUME tx[r].add # {}
        PROVE  /\ call[r].op \in {"follow", "accept"} /\ Row(r) \in Pairs
               /\ rowLock[Row(r)] = r /\ draft[Row(r)] = "accepted"
               /\ follows[Row(r)] # "accepted"
               /\ tx[r].add = {[pair |-> Row(r), by |-> r, public |-> ~private[Row(r)[1]]]}
    <2>1. /\ call[r].op \in {"follow", "accept"} /\ rowLock[Row(r)] = r /\ draft[Row(r)] = "accepted"
          /\ tx[r].add = {[pair |-> Row(r), by |-> r, public |-> ~private[Row(r)[1]]]}
      BY <1>3 DEF CardsKept, Books, Adds, Ours
    <2>2. Row(r) \in Pairs
      BY <1>1, <2>1, RowFacts DEF Inv, Mine, PairOps
    <2> QED
      BY <1>1, <2>1, <2>2 DEF Drafts
  <1> QED
    BY <1>2, <1>3

\* Where a card comes from that is there after it.
LEMMA Origin ==
    ASSUME Inv, CardsKept, NEW r \in Requests, Commit(r), NEW c \in cards'
    PROVE  \E o \in (cards \ Severed(r)) \cup tx[r].add : o \in Cards /\ c = Recast(r, o)
  <1>1. cards' = {Recast(r, o) : o \in (cards \ Severed(r)) \cup tx[r].add}
    BY DEF Commit
  <1>2. cards \subseteq Cards /\ tx[r].add \subseteq Cards
    BY TxFields DEF Inv, TypeOK
  <1> QED
    BY <1>1, <1>2

LEMMA CommitPrivate ==
    ASSUME Inv, CardsKept, NEW r \in Requests, Commit(r) PROVE PrivateCards'
  <1> SUFFICES ASSUME NEW c \in cards', private'[c.pair[1]] PROVE ~c.public
    BY DEF PrivateCards
  <1>1. PICK o \in (cards \ Severed(r)) \cup tx[r].add : o \in Cards /\ c = Recast(r, o)
    BY Origin
  <1>2. c.pair = o.pair /\ o.pair \in Pairs /\ o.pair[1] \in Users
    BY <1>1, RecastFacts DEF Cards, Pairs
  <1>3. CASE o \in tx[r].add
    <2>1. call[r].op \notin OwnOps /\ o = [pair |-> Row(r), by |-> r, public |-> ~private[Row(r)[1]]]
      BY <1>3, AtCommit DEF OwnOps
    <2>2. c = o /\ private' = private
      BY <1>1, <2>1, RecastFacts, Publishing
    <2> QED
      BY <2>1, <2>2
  <1>4. CASE o \in cards
    <2>1. private[o.pair[1]] => ~o.public
      BY <1>4 DEF CardsKept, PrivateCards
    <2>2. CASE call[r].op \notin OwnOps
      BY <1>1, <1>2, <2>1, <2>2, RecastFacts, Publishing
    <2>3. CASE call[r].op \in OwnOps
      <3>1. CASE o.pair[1] # call[r].me
        <4>1. private'[o.pair[1]] = private[o.pair[1]]
          BY <1>2, <2>3, <3>1, Publishing DEF Inv, TypeOK, OwnOps
        <4> QED
          BY <1>1, <1>2, <2>1, <3>1, <4>1, RecastFacts
      <3>2. CASE o.pair[1] = call[r].me
        <4>1. call[r].op # "public"
          BY <1>2, <3>2, Publishing DEF Inv, TypeOK
        <4> QED
          BY <1>1, <2>3, <3>2, <4>1, RecastFacts DEF OwnOps
      <3> QED
        BY <3>1, <3>2
    <2> QED
      BY <2>2, <2>3
  <1> QED
    BY <1>1, <1>3, <1>4

LEMMA CommitHaveFollows ==
    ASSUME Inv, CardsKept, NEW r \in Requests, Commit(r) PROVE CardsHaveFollows'
  <1>1. ASSUME NEW o \in (cards \ Severed(r)) \cup tx[r].add, o \in Cards
        PROVE  follows'[o.pair] = "accepted"
    <2>1. o.pair \in Pairs
      BY <1>1 DEF Cards
    <2>2. CASE o \in tx[r].add
      <3>1. o.pair = Row(r) /\ rowLock[Row(r)] = r /\ draft[Row(r)] = "accepted"
        BY <2>2, AtCommit
      <3> QED
        BY <2>1, <3>1, Publishing
    <2>3. CASE o \in cards \ Severed(r)
      <3>1. follows[o.pair] = "accepted" /\ o \in CardsOf(o.pair)
        BY <2>3 DEF CardsKept, CardsHaveFollows, CardsOf
      <3>2. rowLock[o.pair] # r
        BY <2>1, <2>3, <3>1, AtCommit
      <3> QED
        BY <2>1, <3>1, <3>2, Publishing
    <2> QED
      BY <1>1, <2>2, <2>3
  <1>2. ASSUME NEW o \in (cards \ Severed(r)) \cup tx[r].add,
               NEW d \in (cards \ Severed(r)) \cup tx[r].add, o.pair = d.pair
        PROVE  o = d
    <2>1. ASSUME NEW a \in cards, NEW b \in tx[r].add PROVE a.pair # b.pair
      <3>1. follows[a.pair] = "accepted"
        BY DEF CardsKept, CardsHaveFollows
      <3>2. b.pair = Row(r) /\ follows[Row(r)] # "accepted"
        BY AtCommit
      <3> QED
        BY <3>1, <3>2
    <2>2. CASE o \in cards /\ d \in cards
      <3>1. d \in CardsOf(o.pair) /\ CardsOf(o.pair) = {o}
        BY <1>2, <2>2 DEF CardsKept, CardsHaveFollows, CardsOf
      <3> QED
        BY <3>1
    <2>3. CASE o \in tx[r].add /\ d \in tx[r].add
      <3>1. PICK x : tx[r].add = {x}
        BY <2>3, AtCommit
      <3> QED
        BY <2>3, <3>1
    <2> QED
      BY <1>2, <2>1, <2>2, <2>3
  <1>3. ASSUME NEW c \in cards', NEW d \in cards', c.pair = d.pair
        PROVE  c = d /\ follows'[c.pair] = "accepted"
    <2>1. PICK o \in (cards \ Severed(r)) \cup tx[r].add : o \in Cards /\ c = Recast(r, o)
      BY Origin
    <2>2. PICK e \in (cards \ Severed(r)) \cup tx[r].add : e \in Cards /\ d = Recast(r, e)
      BY Origin
    <2>3. c.pair = o.pair /\ d.pair = e.pair
      BY <2>1, <2>2, RecastFacts
    <2>4. o = e
      BY <1>2, <1>3, <2>3
    <2> QED
      BY <1>1, <2>1, <2>2, <2>3, <2>4
  <1> QED
    BY <1>3 DEF CardsHaveFollows, CardsOf

LEMMA CommitOtherTx ==
    ASSUME Inv, NEW r \in Requests, NEW q \in Requests \ {r}, Commit(r)
    PROVE  /\ tx'[q].changed = tx[q].changed /\ tx'[q].add = tx[q].add /\ tx'[q].gone = tx[q].gone
           /\ tx'[q].todo \subseteq tx[q].todo
  <1> DEFINE T == tx[q].todo \ Overtaken(r, q)
  <1>1. tx'[q] = [tx[q] EXCEPT !.todo = T] /\ T \subseteq tx[q].todo
    BY DEF Commit
  <1> HIDE DEF T
  <1> QED
    BY <1>1 DEF Inv, TypeOK, Transactions

LEMMA CommitBooks ==
    ASSUME Inv, CardsKept, NEW r \in Requests, NEW q \in Requests \ {r}, Commit(r)
    PROVE  Books(q)'
  <1>1. /\ pc[r] = "last" /\ pc'[q] = pc[q] /\ call' = call /\ Release(r) /\ Row(q)' = Row(q)
    BY SameCall DEF Commit, At, Inv, TypeOK
  <1>2. /\ tx'[q].changed = tx[q].changed /\ tx'[q].add = tx[q].add /\ tx'[q].gone = tx[q].gone
        /\ tx'[q].todo \subseteq tx[q].todo
    BY CommitOtherTx
  <1>3. /\ \A p \in Pairs : rowLock'[p] = q <=> rowLock[p] = q
        /\ \A p \in Pairs : rowLock[p] = q => draft'[p] = draft[p] /\ follows'[p] = follows[p]
        /\ \A u \in Users : profileLock[u] = q => profileLock'[u] = q
    BY <1>1, ReleaseSpares, Publishing DEF Inv
  <1>4. ASSUME call[q].op \in PairOps, pc[q] # "idle"
        PROVE  /\ Row(q) \in Pairs /\ Row(q)[1] \in Couple(Row(q)) /\ Row(q)[1] \in Users
               /\ (Ours(q)' <=> Ours(q))
               /\ Ours(q) => draft'[Row(q)] = draft[Row(q)] /\ follows'[Row(q)] = follows[Row(q)]
               /\ BothProfiles(q) => BothProfiles(q)'
    <2>1. /\ Row(q) \in Pairs /\ Couple(Row(q)) \subseteq Users
          /\ Row(q)[1] \in Couple(Row(q)) /\ Row(q)[1] \in Users
      BY <1>4, RowFacts DEF Inv, Mine
    <2> QED
      BY <1>1, <1>3, <2>1 DEF Ours, BothProfiles, Couple
  <1>5. Owns(q)'
    <2>1. call[q].me \in Users
      BY DEF Inv, TypeOK, Calls
    <2> QED
      BY <1>1, <1>3, <2>1 DEF CardsKept, Books, Owns
  <1>6. Fresh(q)'
    BY <1>1, <1>2 DEF CardsKept, Books, Fresh
  <1>7. Moves(q)' /\ Counts(q)' /\ Rejects(q)'
    <2>1. Moves(q)'
      BY <1>1, <1>4 DEF CardsKept, Books, Moves, PairOps
    <2>2. Counts(q)'
      BY <1>1, <1>2, <1>4 DEF CardsKept, Books, Counts, PairOps
    <2>3. Rejects(q)'
      BY <1>1, <1>4 DEF CardsKept, Books, Rejects, PairOps
    <2> QED
      BY <2>1, <2>2, <2>3
  \* A follow that begins or ends keeps the privacy switch of its follower out.
  <1>8. ASSUME call[q].op \in {"follow", "accept", "unfollow"}, pc[q] = "last", Ours(q),
               "accepted" \in {follows[Row(q)], draft[Row(q)]}
        PROVE  call[r].op \notin OwnOps \/ call[r].me # Row(q)[1]
    <2>1. profileLock[Row(q)[1]] = q
      BY <1>4, <1>8 DEF CardsKept, Books, Counts, BothProfiles, PairOps
    <2>2. call[r].op \in OwnOps => profileLock[call[r].me] = r
      BY <1>1 DEF CardsKept, Books, Owns
    <2> QED
      BY <2>1, <2>2
  <1>9. Adds(q)'
    <2> SUFFICES ASSUME tx[q].add # {}
                 PROVE  /\ pc[q] = "last" /\ call[q].op \in {"follow", "accept"}
                        /\ Ours(q)' /\ draft'[Row(q)] = "accepted"
                        /\ tx[q].add = {[pair |-> Row(q), by |-> q, public |-> ~private'[Row(q)[1]]]}
      BY <1>1, <1>2 DEF Adds
    <2>1. /\ pc[q] = "last" /\ call[q].op \in {"follow", "accept"}
          /\ Ours(q) /\ draft[Row(q)] = "accepted"
          /\ tx[q].add = {[pair |-> Row(q), by |-> q, public |-> ~private[Row(q)[1]]]}
      BY DEF CardsKept, Books, Adds
    <2>2. private'[Row(q)[1]] = private[Row(q)[1]]
      BY <1>4, <1>8, <2>1, Publishing DEF Inv, TypeOK, PairOps, OwnOps
    <2> QED
      BY <1>4, <2>1, <2>2 DEF PairOps
  <1>10. Drops(q)'
    <2> SUFFICES ASSUME pc[q] = "last", call[q].op = "unfollow", Ours(q), NEW c \in cards', c.pair = Row(q)
                 PROVE  c \in tx[q].gone
      BY <1>1, <1>2, <1>4 DEF Drops, CardsOf, PairOps
    <2>1. PICK o \in (cards \ Severed(r)) \cup tx[r].add : o \in Cards /\ c = Recast(r, o)
      BY Origin
    <2>2. o.pair = Row(q)
      BY <2>1, RecastFacts
    <2>3. o \notin tx[r].add
      <3>1. o \in tx[r].add => rowLock[o.pair] = r
        BY AtCommit
      <3> QED
        BY <2>2, <3>1 DEF Ours
    <2>4. o \in CardsOf(Row(q)) /\ follows[Row(q)] = "accepted"
      BY <2>1, <2>2, <2>3 DEF CardsKept, CardsHaveFollows, CardsOf
    <2>5. c = o
      BY <1>8, <2>1, <2>2, <2>4, RecastFacts
    <2> QED
      BY <2>4, <2>5 DEF CardsKept, Books, Drops
  <1> QED
    BY <1>5, <1>6, <1>7, <1>9, <1>10 DEF Books

LEMMA CommitCards == ASSUME Inv, CardsKept, NEW r \in Requests, Commit(r) PROVE CardsKept'
  <1>1. Books(r)'
    <2>1. pc'[r] \in Ended /\ tx'[r].add = {}
      BY DEF Commit, Inv, TypeOK, Ended, NoTx
    <2> QED
      BY <2>1, RestBooks
  <1>2. \A q \in Requests : Books(q)'
    BY <1>1, CommitBooks
  <1> QED
    BY <1>2, CommitPrivate, CommitHaveFollows DEF CardsKept

-----------------------------------------------------------------------------
(* The theorems about cards.                                               *)

LEMMA InitCards == Init => CardsKept
  <1> SUFFICES ASSUME Init PROVE CardsKept
    OBVIOUS
  <1>1. ASSUME NEW c \in cards
        PROVE  \E p \in Pairs : /\ c = [pair |-> p, by |-> Nobody, public |-> ~private[p[1]]]
                                /\ follows[p] = "accepted"
    BY DEF Init
  <1>2. PrivateCards
    <2> SUFFICES ASSUME NEW c \in cards PROVE private[c.pair[1]] => ~c.public
      BY DEF PrivateCards
    <2>1. PICK p \in Pairs : c = [pair |-> p, by |-> Nobody, public |-> ~private[p[1]]]
      BY <1>1
    <2>2. c.pair = p /\ (c.public <=> ~private[p[1]])
      BY <2>1
    <2> QED
      BY <2>2
  <1>3. CardsHaveFollows
    <2>1. \A c \in cards, d \in cards : c.pair = d.pair => c = d
      BY <1>1
    <2>2. \A c \in cards : follows[c.pair] = "accepted"
      BY <1>1
    <2> QED
      BY <2>1, <2>2 DEF CardsHaveFollows, CardsOf
  <1>4. ASSUME NEW r \in Requests PROVE Books(r)
    <2>1. pc[r] = "idle" /\ tx[r].changed = <<>> /\ tx[r].add = {}
      BY DEF Init, NoTx
    <2> QED
      BY <2>1 DEF Books, Owns, Fresh, Moves, Counts, Adds, Drops, Rejects
  <1> QED
    BY <1>2, <1>3, <1>4 DEF CardsKept

LEMMA CardsStep == ASSUME Inv, CardsKept, [Next]_vars PROVE CardsKept'
  <1>1. CASE UNCHANGED vars
    <2>1. UNCHANGED <<store, locks, pc, call, tx>>
      BY <1>1 DEF vars
    <2>2. \A q \in Requests : Spared(q)
      BY <2>1 DEF Spared, locks
    <2>3. private' = private /\ follows' = follows /\ cards' = cards
      BY <2>1 DEF store
    <2>4. \A q \in Requests : Books(q)'
      BY <2>2, <2>3, SparedBooks DEF Inv, CardsKept
    <2>5. PrivateCards' /\ CardsHaveFollows'
      BY <2>3 DEF CardsKept, PrivateCards, CardsHaveFollows, CardsOf
    <2> QED
      BY <2>4, <2>5 DEF CardsKept
  <1>2. ASSUME NEW r \in Requests, Statement(r) PROVE CardsKept'
    BY <1>2, LockPairCards, CheckCards, WriteCards, FindCards, TouchCards, RowsCards, CountCards,
       CountedCards, CardCards, ProfileCards, CommitCards DEF Statement
  <1>3. ASSUME NEW r \in Requests, Victim(r) \/ Fail(r) PROVE CardsKept'
    <2>1. End(r, "failed")
      BY <1>3 DEF Victim, Fail
    <2> QED
      BY <2>1, EndCards DEF Ended
  <1>4. ASSUME NEW r \in Requests, NEW c \in Calls, Arrive(r, c) PROVE CardsKept'
    BY <1>4, ArriveCards
  <1> QED
    BY <1>1, <1>2, <1>3, <1>4 DEF Next, Quiet

LEMMA CardsAlways == Spec => []CardsKept
  BY InitInv, InvStep, InitCards, CardsStep, PTL DEF Spec

\* A 'followed' card stands for an accepted follow and each follow has one card
\* at most: the row is written and locked before its card is, and who deletes the
\* row takes the card with it, whatever requests are under way.
THEOREM CardsCorrect == Spec => []CardsHaveFollows
  BY CardsAlways, PTL DEF CardsKept

\* No card of a private account is public: the follow trigger's lock of the
\* follower's profile, taken before recordActivity reads the flag and kept to the
\* COMMIT, shuts the privacy switch out.
THEOREM PrivateCorrect == Spec => []PrivateCards
  BY CardsAlways, PTL DEF CardsKept
=============================================================================
