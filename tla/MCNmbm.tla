------------------------------- MODULE MCNmbm -------------------------------
(***************************************************************************)
(* Instances of Nmbm: two data blocks, one block for each info table, two  *)
(* spare blocks behind the main one, a pool and the signature.             *)
(***************************************************************************)
EXTENDS Nmbm

Chip(bad, prepared, create, wear, cuts, reqs, debug) ==
    [bad |-> bad, prepared |-> prepared, force |-> create,
     wear |-> wear, cuts |-> cuts, reqs |-> reqs, debug |-> debug]

\* Chips with a pool of two blocks and of one, blank chips, and chips too bad
\* to be used; operations that fail, power cuts and requests in turn.
CutScenarios ==
    {Chip({3, 4}, TRUE, FALSE, 2, 1, 1, 0),
     Chip({3, 4}, TRUE, FALSE, 1, 1, 2, 0),
     Chip({3, 4}, TRUE, FALSE, 1, 1, 0, 2),
     Chip({3, 4}, TRUE, FALSE, 2, 2, 0, 1),
     Chip({3, 4}, TRUE, FALSE, 1, 0, 3, 0),
     Chip({3, 8}, TRUE, FALSE, 4, 0, 0, 1),
     Chip({3, 4, 5, 6}, TRUE, TRUE, 2, 1, 1, 0),
     Chip({3, 4, 5, 6}, TRUE, TRUE, 1, 1, 1, 1),
     Chip({3, 4, 5, 6}, TRUE, TRUE, 0, 0, 3, 0),
     Chip({}, FALSE, TRUE, 1, 1, 0, 1),
     Chip({1}, FALSE, TRUE, 1, 0, 0, 2),
     Chip({3, 4, 6, 7, 8, 9}, FALSE, TRUE, 2, 1, 0, 0),
     Chip(2 .. 9, FALSE, TRUE, 0, 0, 0, 0),
     Chip(3 .. 10, FALSE, TRUE, 0, 0, 0, 0),
     Chip(3 .. 11, FALSE, TRUE, 0, 0, 0, 0),
     Chip({1}, FALSE, FALSE, 0, 0, 0, 0)}

\* A bad block in the pool, and blocks that have to be replaced.
SharedScenarios == {Chip({9}, TRUE, FALSE, 0, 0, 3, 0)}
=============================================================================
