---------------------------- MODULE FollowGraph -----------------------------
(***************************************************************************)
(* What the social graph promises: who follows whom, who has blocked whom  *)
(* and whose account is private change in single steps, and two people     *)
(* with a block between them stay apart. SocialGraph implements it with    *)
(* transactions of several statements.                                     *)
(***************************************************************************)
EXTENDS Naturals

CONSTANT Users

VARIABLES private, follows, blocks

graph == <<private, follows, blocks>>

Pairs == {p \in Users \X Users : p[1] # p[2]}
States == {"none", "pending", "accepted"}

Reverse2(p) == <<p[2], p[1]>>

\* A block either way.
Apart(p) == p \in blocks \/ Reverse2(p) \in blocks

Ask(p) ==
    /\ ~Apart(p)
    /\ follows[p] # "accepted"
    /\ \E state \in {"pending", "accepted"} : follows' = [follows EXCEPT ![p] = state]
    /\ UNCHANGED <<private, blocks>>

Drop(p) ==
    /\ follows' = [follows EXCEPT ![p] = "none"]
    /\ UNCHANGED <<private, blocks>>

Block(p) ==
    /\ ~ Reverse2(p) \in blocks
    /\ blocks' = blocks \cup {p}
    /\ follows' = [follows EXCEPT ![p] = "none", ![Reverse2(p)] = "none"]
    /\ UNCHANGED private

Unblock(p) ==
    /\ blocks' = blocks \ {p}
    /\ UNCHANGED <<private, follows>>

Close(u) ==
    /\ private' = [private EXCEPT ![u] = TRUE]
    /\ UNCHANGED <<follows, blocks>>

\* Opening the account answers the requests it knows of.
Open(u) ==
    /\ private' = [private EXCEPT ![u] = FALSE]
    /\ \E known \in SUBSET {p \in Pairs : p[2] = u /\ follows[p] = "pending"} :
           follows' = [p \in Pairs |-> IF p \in known THEN "accepted" ELSE follows[p]]
    /\ UNCHANGED blocks

GraphNext ==
    \/ \E p \in Pairs : Ask(p) \/ Drop(p) \/ Block(p) \/ Unblock(p)
    \/ \E u \in Users : Close(u) \/ Open(u)

GraphInit ==
    /\ private \in [Users -> BOOLEAN]
    /\ follows \in [Pairs -> States]
    /\ blocks \in SUBSET Pairs
    /\ \A p \in Pairs : follows[p] # "none" => ~Apart(p)

GraphSpec == GraphInit /\ [][GraphNext]_graph

(* Nobody follows, or asks to follow, across a block.                      *)
NoFollowAcrossBlock == \A p \in Pairs : follows[p] # "none" => ~Apart(p)
=============================================================================
