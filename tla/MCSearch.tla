------------------------------ MODULE MCSearch ------------------------------
(***************************************************************************)
(* Small instances of Search: keys of two values in each field, so that    *)
(* every carry happens, and a buffer for two or three items.               *)
(***************************************************************************)
EXTENDS Search, FiniteSets

KeyOf(o, t, f) == [objectid |-> o, type |-> t, offset |-> f]

MCTrees == {t \in SUBSET Key : Cardinality(t) \in {0, 3, 7, 8}}
MCRanges == { [min |-> First, max |-> Last],
              [min |-> KeyOf(0, 0, 1), max |-> KeyOf(1, 1, 0)],
              [min |-> KeyOf(0, 1, 0), max |-> KeyOf(1, 0, 0)],
              [min |-> KeyOf(1, 1, 1), max |-> KeyOf(1, 1, 1)] }
=============================================================================
