---------------------------- MODULE MergeRanges -----------------------------
(***************************************************************************)
(* The loop of live_ranges (extent.rs): one pass over the references'      *)
(* ranges, sorted, that extends the last merged range or starts a new one. *)
(* Extent!LiveRanges says what it is to come up with.                      *)
(***************************************************************************)
EXTENDS Extent, Sequences

CONSTANTS
    Inputs    \* the sorted sequences of ranges to go over

Interval == {r \in [start : Nat, end : Nat] : r.start < r.end}

\* What sort_unstable_by_key leaves behind: by start, then by end.
Sorted(s) == \A j, k \in 1 .. Len(s) :
                j <= k => \/ s[j].start < s[k].start
                          \/ s[j].start = s[k].start /\ s[j].end <= s[k].end

ASSUME InputsAssumption == \A s \in Inputs : s \in Seq(Interval) /\ Sorted(s)

VARIABLES
    ranges,   \* the references' ranges
    i,        \* the range to be merged next
    merged    \* the ranges merged so far

vars == <<ranges, i, merged>>

Init ==
    /\ ranges \in Inputs
    /\ i = 1
    /\ merged = <<>>

last == merged[Len(merged)]

\* Mutant: the end of a range is the end of the last one merged into it.
ExtendToLast ==
    /\ i <= Len(ranges)
    /\ merged # <<>> /\ ranges[i].start <= last.end
    /\ merged' = [merged EXCEPT ![Len(merged)].end = ranges[i].end]
    /\ i' = i + 1
    /\ UNCHANGED ranges

Extend ==
    /\ i <= Len(ranges)
    /\ merged # <<>> /\ ranges[i].start <= last.end
    /\ merged' = [merged EXCEPT ![Len(merged)].end =
                    IF @ < ranges[i].end THEN ranges[i].end ELSE @]
    /\ i' = i + 1
    /\ UNCHANGED ranges

\* Mutant: ranges that only touch are kept apart.
PushTouching ==
    /\ i <= Len(ranges)
    /\ merged # <<>> => ranges[i].start >= last.end
    /\ merged' = Append(merged, ranges[i])
    /\ i' = i + 1
    /\ UNCHANGED ranges

Push ==
    /\ i <= Len(ranges)
    /\ merged # <<>> => ranges[i].start > last.end
    /\ merged' = Append(merged, ranges[i])
    /\ i' = i + 1
    /\ UNCHANGED ranges

Done == i > Len(ranges) /\ UNCHANGED vars

Next == Extend \/ Push \/ Done

Spec == Init /\ [][Next]_vars

-----------------------------------------------------------------------------
Cells(r) == r.start .. r.end - 1

\* The positions the first n of a sequence of ranges cover.
Spread(s, n) == UNION {Cells(s[k]) : k \in 1 .. n}

TypeOK ==
    /\ ranges \in Seq(Interval) /\ Sorted(ranges)
    /\ i \in 1 .. Len(ranges) + 1
    /\ merged \in Seq(Interval)

\* The merged ranges are in order with a gap between any two: none of them
\* could be merged any further.
Separated == \A j, k \in 1 .. Len(merged) :
                j < k => merged[j].end < merged[k].start

\* They cover just the positions that the ranges merged so far cover.
Covering == Spread(ranges, i - 1) = Spread(merged, Len(merged))

\* No range to come starts before the last merged one.
InOrder == \A j \in i .. Len(ranges) :
              merged # <<>> => last.start <= ranges[j].start

\* live_ranges keeps every position a reference covers, no other, and leaves
\* no two ranges that touch (extent.rs, "Every stretch of the extent some
\* reference still covers, merged, in order").
MergedRight == Separated /\ Covering

\* MergedRight with what makes it inductive.
IInv == TypeOK /\ InOrder /\ Separated /\ Covering

\* So what the loop returns is what Extent!LiveRanges defines.
Returned ==
    i > Len(ranges) =>
       {merged[k] : k \in 1 .. Len(merged)} =
          LiveRanges({[file_offset |-> 0, extent_offset |-> ranges[k].start,
                       num_bytes |-> ranges[k].end - ranges[k].start] :
                         k \in 1 .. Len(ranges)})
=============================================================================
