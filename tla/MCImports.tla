----------------------------- MODULE MCImports ------------------------------
(***************************************************************************)
(* Instances of Imports for TLC: a file of two or four rows.       *)
(***************************************************************************)
EXTENDS Imports, TLC

CONSTANTS a, b, q1, q2

TwoWorks == {a, b}
TwoRequests == {q1, q2}
OneRequest == {q1}
NoRequests == {}

\* The first chunk finds nothing, the second both books.
Stable == [r \in RowNos |-> CASE r = 3 -> {a} [] r = 4 -> {b} [] OTHER -> {NoWork}]
\* One book twice, in different chunks, and another.
Doubles == [r \in RowNos |-> CASE r \in {2, 3} -> {a} [] r = 4 -> {b} [] OTHER -> {NoWork}]
\* The catalogue changes between the runs.
Changing == [r \in RowNos |-> {a, b}]

Alike == Permutations(Requests)
=============================================================================
