--------------------------- MODULE MCMergeRanges ----------------------------
(***************************************************************************)
(* Every sorted sequence of up to three ranges of a five-byte extent.      *)
(***************************************************************************)
EXTENDS MergeRanges

MCInterval == {r \in [start : 0 .. 4, end : 0 .. 5] : r.start < r.end}
MCInputs == {s \in UNION {[1 .. n -> MCInterval] : n \in 1 .. 3} : Sorted(s)}
=============================================================================
