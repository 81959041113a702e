--------------------------- MODULE MCScalarWrites ----------------------------
(***************************************************************************)
(* Small instances of ScalarWrites for TLC.                                *)
(***************************************************************************)
EXTENDS ScalarWrites

CONSTANTS a, b

Only(kinds) == [operation \in Operations |->
                   IF operation \in DOMAIN kinds THEN kinds[operation] ELSE 0]

MCBudgets == {
    \* two forms of one Topic
    Only([unlock |-> 2, topic |-> 2, type |-> 2, save |-> 3]),
    \* saves of a Task that overlap, whose answer is lost or that are repeated
    Only([unlock |-> 2, task |-> 2, type |-> 1, save |-> 2]),
    Only([unlock |-> 1, task |-> 1, type |-> 1, save |-> 2, complete |-> 1, repeat |-> 1]),
    Only([unlock |-> 1, task |-> 1, type |-> 1, save |-> 2, lose |-> 1, load |-> 1]),
    \* locking, unlocking and a new content key in between
    Only([unlock |-> 3, task |-> 1, lock |-> 1, save |-> 1, complete |-> 1]),
    Only([unlock |-> 3, topic |-> 1, rotate |-> 1, save |-> 1, create |-> 1]),
    Only([unlock |-> 1, create |-> 2, repeat |-> 1, lose |-> 1]),
    \* a value that is too large: the encryption fails, and the counter is deleted
    Only([unlock |-> 1, task |-> 1, type |-> 2, oversized |-> 1, save |-> 3]),
    Only([unlock |-> 2, topic |-> 1, lock |-> 1, type |-> 1, oversized |-> 1, save |-> 2]),
    Only([unlock |-> 1, create |-> 2, oversized |-> 1, lose |-> 1])}

\* A value that is too large is typed, refused and taken back.
MCRetypings == {Only([unlock |-> 1, task |-> 2, type |-> 2, oversized |-> 1, save |-> 3])}

Symmetric == Permutations(Slots) \cup Permutations(Browsers)
=============================================================================
