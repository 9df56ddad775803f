------------------------------- MODULE MCRun --------------------------------
(***************************************************************************)
(* Small instances of Run: four addresses, and one extent of each kind     *)
(* that run tells apart, two of them compressed.                           *)
(***************************************************************************)
EXTENDS Run

MCWalkExtents ==
    { [disk |-> 8, unc |-> 8, live |-> 8],      \* nothing to free
      [disk |-> 8, unc |-> 8, live |-> 7],      \* too little to free
      [disk |-> 9, unc |-> 18, live |-> 14],    \* too much to copy
      [disk |-> 6, unc |-> 12, live |-> 5] }    \* worth rewriting
MCDrift == {-4, 0, 4, 7}
=============================================================================
