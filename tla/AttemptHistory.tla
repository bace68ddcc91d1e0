--------------------------- MODULE AttemptHistory ---------------------------
(***************************************************************************)
(* What the reading service promises about one reader's attempts at one    *)
(* work, and about the activity followers see of them, with every request  *)
(* taking effect in one step: an attempt is recorded above the others, a   *)
(* status that is not terminal may change, an attempt may be removed.      *)
(* ReadingAttempts, whose requests take locks and interleave, implements   *)
(* it (run ReadFinishes, run ReadUpserts).                                 *)
(***************************************************************************)
EXTENDS Naturals, Sequences

VARIABLES
    attempts,   \* the attempts in the order they were created, Gone once deleted
    feed        \* for each attempt, the activity written about it, oldest first

vars == <<attempts, feed>>

Statuses == {"want", "reading", "paused", "finished", "dnf"}

\* `finished` and `dnf` are terminal.
Terminal == {"finished", "dnf"}

Gone == [status |-> "gone", no |-> 0]

\* The activity a change to status s writes: `want` and `paused` are silent.
Told(s) == IF s = "reading" THEN <<"started">>
           ELSE IF s \in Terminal THEN <<s>> ELSE <<>>

Live == {i \in DOMAIN attempts : attempts[i] # Gone}

Numbers == {attempts[i].no : i \in Live}

-----------------------------------------------------------------------------
Init == \/ attempts = <<>> /\ feed = <<>>
        \/ \E s \in Statuses : /\ attempts = <<[status |-> s, no |-> 1]>>
                               /\ feed = <<Told(s)>>

\* A new attempt, numbered above every attempt still there.
Record == \E s \in Statuses, n \in 1 .. Len(attempts) + 1 :
    /\ \A k \in Numbers : k < n
    /\ attempts' = Append(attempts, [status |-> s, no |-> n])
    /\ feed' = Append(feed, Told(s))

\* A started, wanted or paused attempt takes another status, told once.
Move == \E i \in Live, s \in Statuses :
    /\ attempts[i].status \notin Terminal
    /\ attempts[i].status # s
    /\ attempts' = [attempts EXCEPT ![i].status = s]
    /\ feed' = [feed EXCEPT ![i] = @ \o Told(s)]

\* A deleted attempt takes its activity with it.
Remove == \E i \in Live :
    /\ attempts' = [attempts EXCEPT ![i] = Gone]
    /\ feed' = [feed EXCEPT ![i] = <<>>]

Next == Record \/ Move \/ Remove

Spec == Init /\ [][Next]_vars
=============================================================================
