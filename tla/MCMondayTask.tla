---------------------------- MODULE MCMondayTask ----------------------------
(* Two titles of one task that differ in case, and a title of another task    *)
(* that resembles them, for an uncertain classification.                      *)
EXTENDS MondayTask, TLC

CONSTANTS r1, r2, r3, rent, tax, Rent, RENT, Tax

MCKeyOf == [title \in Titles |-> IF title = Tax THEN tax ELSE rent]
MCAlike == Titles \X Titles
Interchangeable == Permutations(Requests)
=============================================================================
