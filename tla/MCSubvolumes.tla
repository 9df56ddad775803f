---------------------------- MODULE MCSubvolumes ----------------------------
(***************************************************************************)
(* A small instance of Subvolumes: two subvolumes besides the top level    *)
(* one, next to each other or one in the other, in directories and not.    *)
(***************************************************************************)
EXTENDS Subvolumes

MCPlace(p, d, n) == [parent |-> p, dir |-> d, name |-> n]

MCStarts == {[r \in {2, 3} |-> IF r = 2 THEN MCPlace(1, d, "a") ELSE third] :
               d \in Dirs, third \in {MCPlace(1, "dir", "b"), MCPlace(2, "dir", "a")}}
=============================================================================
