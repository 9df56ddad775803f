------------------------------- MODULE MCWalk -------------------------------
(***************************************************************************)
(* Small instances of Walk: four addresses, a buffer of two items, so that *)
(* it ends on, before and inside extents, and extents of up to three.      *)
(***************************************************************************)
EXTENDS Walk

MCExtent(g, data, n) == [gen |-> g, data |-> data, items |-> n, own |-> FALSE]
MCStart(t) == [tree |-> t, gen |-> 2, running |-> TRUE]

MCAny == {Free, MCExtent(1, TRUE, 1), MCExtent(2, TRUE, 3), MCExtent(1, FALSE, 2)}
MCStarts == {MCStart(t) : t \in {u \in [Address -> MCAny] : u[0].items > 1}}
=============================================================================
