------------------------------- MODULE Extent -------------------------------
(***************************************************************************)
(* One physical extent and the references to it: src/src/extent.rs.        *)
(*                                                                         *)
(* A reference (ExtentRef) is what a file extent item says: where in the   *)
(* file it starts, where in the extent it starts, and how many             *)
(* uncompressed bytes of the extent it uses.  Subvolume and inode are      *)
(* folded into the identity of the file that holds it, which is kept by    *)
(* whoever keeps the references.                                           *)
(***************************************************************************)
EXTENDS Integers, FiniteSetsExt

CONSTANTS
    MinReclaimBytes,   \* MIN_RECLAIM_BYTES
    MaxCopyRatio       \* MAX_COPY_RATIO

ASSUME TunablesAssumption ==
    /\ MinReclaimBytes \in Nat
    /\ MaxCopyRatio \in Nat

ExtentRef == [file_offset : Nat, extent_offset : Nat, num_bytes : Nat \ {0}]

\* The positions of the extent one reference covers.
Span(r) == r.extent_offset .. r.extent_offset + r.num_bytes - 1

Covered(refs) == UNION {Span(r) : r \in refs}

(***************************************************************************)
(* live_ranges: every stretch of the extent some reference covers, merged. *)
(* Ranges that overlap or merely touch become one, so a merged range is a  *)
(* maximal run of covered positions.  Module MergeRanges has the loop.     *)
(***************************************************************************)
LiveRanges(refs) ==
    LET covered == Covered(refs)
        ends    == {r.extent_offset + r.num_bytes : r \in refs} \ covered
    IN  { [start |-> s, end |-> Min({e \in ends : e > s})] :
             s \in {r.extent_offset : r \in refs} \ {p + 1 : p \in covered} }

live_uncompressed_bytes(refs) ==
    MapThenSumSet(LAMBDA range : range.end - range.start, LiveRanges(refs))

\* Mutant: what is live is counted uncompressed.
disk_used_unscaled(live, disk, unc) == IF live < unc THEN live ELSE unc

\* On-disk bytes in use out of disk bytes that hold unc bytes, live of them
\* referenced.
disk_used_bytes(live, disk, unc) ==
    IF unc = 0
      THEN 0
      ELSE ((IF live < unc THEN live ELSE unc) * disk) \div unc

\* An unsigned subtraction: it must not go below zero.
disk_free_bytes(live, disk, unc) == disk - disk_used_bytes(live, disk, unc)

\* The first reason not to rewrite an extent with free bytes to reclaim and
\* live bytes to copy, or "none".
not_worth_rewriting(free, live) ==
    CASE free < MinReclaimBytes     -> "TooLittleToFree"
      [] free >= MinReclaimBytes /\ free * MaxCopyRatio < live -> "TooMuchToCopy"
      [] OTHER                      -> "none"

LeftAlone == {"TooLittleToFree", "TooMuchToCopy", "NoDataCow", "PastEnd",
              "Changed", "Unresolved", "Failed", "Deleted"}
=============================================================================
