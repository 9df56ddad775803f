------------------------- MODULE MergeRangesProofs --------------------------
(***************************************************************************)
(* The loop of live_ranges is right for every number of references and     *)
(* every size of extent.                                                   *)
(***************************************************************************)
EXTENDS MergeRanges, TLAPS

\* Before the first range has been looked at, nothing is covered.
LEMMA InitIInv == Init => IInv
<1> SUFFICES ASSUME Init PROVE IInv
    OBVIOUS
<1>1. TypeOK
    BY InputsAssumption DEF Init, TypeOK
<1>2. InOrder /\ Separated
    BY DEF Init, InOrder, Separated
<1>3. Covering
  <2>1. i - 1 = 0 /\ Len(merged) = 0
      BY DEF Init
  <2> QED BY <2>1 DEF Covering, Spread
<1> QED BY <1>1, <1>2, <1>3 DEF IInv

\* Spread looks at no more than the first n ranges, and at each of them.
LEMMA SpreadSame ==
    ASSUME NEW s, NEW t, NEW n \in Nat, \A k \in 1 .. n : s[k] = t[k]
    PROVE  Spread(s, n) = Spread(t, n)
BY DEF Spread

LEMMA SpreadMore ==
    ASSUME NEW s, NEW n \in Nat
    PROVE  Spread(s, n + 1) = Spread(s, n) \union Cells(s[n + 1])
<1>1. 1 .. n + 1 = (1 .. n) \union {n + 1}
    OBVIOUS
<1> QED BY <1>1 DEF Spread

\* A range that overlaps or touches the last merged one extends it: the last
\* one starts no later (InOrder), so together they are one interval.
LEMMA ExtendIInv == IInv /\ Extend => IInv'
<1> SUFFICES ASSUME IInv, Extend PROVE IInv'
    OBVIOUS
<1> DEFINE n == Len(merged)
           r == ranges[i]
           new == IF last.end < r.end THEN r.end ELSE last.end
<1>1. /\ ranges \in Seq(Interval) /\ merged \in Seq(Interval)
      /\ i \in 1 .. Len(ranges) /\ n \in Nat /\ n > 0
      /\ r \in Interval /\ last \in Interval
    BY DEF IInv, TypeOK, Extend, last
<1>2. /\ r.start \in Nat /\ r.end \in Nat /\ r.start < r.end
      /\ last.start \in Nat /\ last.end \in Nat /\ last.start < last.end
      /\ new \in Nat /\ last.start < new
    BY <1>1 DEF Interval
<1> DEFINE longer == [start |-> last.start, end |-> new]
<1>3. merged' = [merged EXCEPT ![n] = longer]
  <2>1. [last EXCEPT !.end = new] = longer
      BY <1>1 DEF Interval
  <2> QED BY <2>1 DEF Extend, last
<1>4. longer \in Interval
    BY <1>2 DEF Interval
<1> HIDE DEF longer
<1>5. /\ merged' \in Seq(Interval) /\ Len(merged') = n
      /\ merged'[n] = longer
      /\ \A k \in 1 .. n - 1 : merged'[k] = merged[k]
    BY <1>1, <1>3, <1>4
<1>6. TypeOK'
    BY <1>1, <1>5 DEF IInv, TypeOK, Extend, Sorted
<1>7. last' = merged'[n]
    BY <1>5 DEF last
<1>8. InOrder'
    BY <1>1, <1>5, <1>7 DEF IInv, InOrder, Extend, longer
<1>9. Separated'
  <2> SUFFICES ASSUME NEW j \in 1 .. n, NEW k \in 1 .. n, j < k
               PROVE  merged'[j].end < merged'[k].start
      BY <1>5 DEF Separated
  <2>1. merged'[j] = merged[j] /\ merged[j].end < merged[k].start
      BY <1>1, <1>5 DEF IInv, Separated
  <2>2. merged'[k].start = merged[k].start
      BY <1>1, <1>5 DEF last, longer
  <2> QED BY <2>1, <2>2
<1>10. Covering'
  <2>1. Cells(longer) = Cells(last) \union Cells(r)
    <3>1. last.start <= r.start
        BY <1>1 DEF IInv, InOrder, Extend
    <3>2. r.start <= last.end
        BY DEF Extend
    <3> QED BY <1>2, <3>1, <3>2 DEF Cells, longer
  <2>2. PICK m \in Nat : n = m + 1
      BY <1>1
  <2>3. Spread(merged', n) = Spread(merged, m) \union Cells(longer)
    <3>1. Spread(merged', n) = Spread(merged', m) \union Cells(longer)
        BY <1>5, <2>2, SpreadMore
    <3>2. \A k \in 1 .. m : merged'[k] = merged[k]
        BY <1>5, <2>2
    <3>3. Spread(merged', m) = Spread(merged, m)
        BY <3>2, SpreadSame
    <3> QED BY <3>1, <3>3
  <2>4. Spread(merged, n) = Spread(merged, m) \union Cells(last)
      BY <1>1, <2>2, SpreadMore DEF last
  <2>5. PICK h \in Nat : i = h + 1
      BY <1>1
  <2>6. Spread(ranges, i) = Spread(ranges, h) \union Cells(r)
      BY <2>5, SpreadMore
  <2>7. Spread(ranges, h) = Spread(merged, n)
      BY <2>5 DEF IInv, Covering
  <2>8. i' - 1 = i /\ ranges' = ranges
      BY <1>1 DEF Extend
  <2> QED BY <1>5, <2>1, <2>3, <2>4, <2>6, <2>7, <2>8 DEF Covering
<1> QED BY <1>6, <1>8, <1>9, <1>10 DEF IInv

\* A range that starts past the last merged one starts a new one, and the
\* ranges before the last end earlier still.
LEMMA PushIInv == IInv /\ Push => IInv'
<1> SUFFICES ASSUME IInv, Push PROVE IInv'
    OBVIOUS
<1> DEFINE n == Len(merged)
           r == ranges[i]
<1>1. /\ ranges \in Seq(Interval) /\ merged \in Seq(Interval)
      /\ i \in 1 .. Len(ranges) /\ n \in Nat /\ r \in Interval
    BY DEF IInv, TypeOK, Push
<1>2. /\ Len(merged') = n + 1 /\ merged' \in Seq(Interval)
      /\ merged'[n + 1] = r
      /\ \A k \in 1 .. n : merged'[k] = merged[k]
    BY <1>1 DEF Push
<1>3. TypeOK'
    BY <1>1, <1>2 DEF IInv, TypeOK, Push, Sorted
<1>4. InOrder'
  <2>1. \A j \in i .. Len(ranges) : r.start <= ranges[j].start
    <3> SUFFICES ASSUME NEW j \in i .. Len(ranges) PROVE r.start <= ranges[j].start
        OBVIOUS
    <3>1. r.start \in Nat /\ ranges[j].start \in Nat
        BY <1>1 DEF Interval
    <3>2. r.start < ranges[j].start \/ r.start = ranges[j].start
        BY <1>1 DEF IInv, TypeOK, Sorted
    <3> QED BY <3>1, <3>2
  <2>2. last' = r /\ ranges' = ranges /\ i' = i + 1
      BY <1>2 DEF last, Push
  <2> QED BY <1>1, <2>1, <2>2 DEF InOrder
<1>5. Separated'
  <2> SUFFICES ASSUME NEW j \in 1 .. n + 1, NEW k \in 1 .. n + 1, j < k
               PROVE  merged'[j].end < merged'[k].start
      BY <1>2 DEF Separated
  <2>1. CASE k <= n
      BY <1>1, <1>2, <2>1 DEF IInv, Separated
  <2>2. CASE k = n + 1
    <3>1. j \in 1 .. n /\ merged[j] \in Interval /\ last \in Interval
        BY <1>1, <2>2 DEF last
    <3>2. last.end < r.start
      <4>1. merged # <<>>
          BY <1>1, <3>1
      <4>2. ranges[i].start > last.end
          BY <4>1 DEF Push
      <4> QED BY <1>1, <3>1, <4>2 DEF Interval
    <3>3. merged[j].end <= last.end
      <4>1. CASE j = n
          BY <3>1, <4>1 DEF last, Interval
      <4>2. CASE j < n
        <5>1. merged[j].end < last.start
            BY <1>1, <3>1, <4>2 DEF IInv, Separated, last
        <5> QED BY <3>1, <5>1 DEF Interval
      <4> QED BY <1>1, <3>1, <4>1, <4>2
    <3>4. merged'[j] = merged[j] /\ merged'[k] = r
        BY <1>2, <2>2, <3>1
    <3>5. merged[j].end \in Nat /\ last.end \in Nat /\ r.start \in Nat
        BY <1>1, <3>1 DEF Interval
    <3> QED BY <3>2, <3>3, <3>4, <3>5
  <2> QED BY <1>1, <2>1, <2>2
<1>6. Covering'
  <2>1. Spread(merged', n + 1) = Spread(merged, n) \union Cells(r)
    <3>1. Spread(merged', n + 1) = Spread(merged', n) \union Cells(r)
        BY <1>1, <1>2, SpreadMore
    <3>2. Spread(merged', n) = Spread(merged, n)
        BY <1>1, <1>2, SpreadSame
    <3> QED BY <3>1, <3>2
  <2>2. PICK h \in Nat : i = h + 1
      BY <1>1
  <2>3. Spread(ranges, i) = Spread(ranges, h) \union Cells(r)
      BY <2>2, SpreadMore
  <2>4. Spread(ranges, h) = Spread(merged, n)
      BY <2>2 DEF IInv, Covering
  <2>5. i' - 1 = i /\ ranges' = ranges
      BY <1>1 DEF Push
  <2> QED BY <1>2, <2>1, <2>3, <2>4, <2>5 DEF Covering
<1> QED BY <1>3, <1>4, <1>5, <1>6 DEF IInv

LEMMA NextIInv == IInv /\ [Next]_vars => IInv'
<1> SUFFICES ASSUME IInv, [Next]_vars PROVE IInv'
    OBVIOUS
<1>1. CASE Extend BY <1>1, ExtendIInv
<1>2. CASE Push BY <1>2, PushIInv
<1>3. CASE UNCHANGED vars
    BY <1>3 DEF IInv, TypeOK, InOrder, Separated, Covering, last, vars
<1> QED BY <1>1, <1>2, <1>3 DEF Next, Done

\* live_ranges (extent.rs): whatever the references, after every turn of the
\* loop the merged ranges cover just what the references looked at so far
\* cover, in order and with a gap between any two.
THEOREM MergeCorrect == Spec => []MergedRight
<1>1. IInv => MergedRight
    BY DEF IInv, MergedRight
<1> QED BY InitIInv, NextIInv, <1>1, PTL DEF Spec

-----------------------------------------------------------------------------
(* What the loop returns.                                                  *)

\* Merged ranges start and end where ranges do that have been gone over.
Bounds == \A m \in 1 .. Len(merged) : \E j, k \in 1 .. i - 1 :
             merged[m].start = ranges[j].start /\ merged[m].end = ranges[k].end

LEMMA NextBounds ==
    ASSUME IInv, Bounds, [Next]_vars
    PROVE  Bounds'
<1>1. /\ ranges \in Seq(Interval) /\ Len(ranges) \in Nat /\ merged \in Seq(Interval)
      /\ Len(merged) \in Nat /\ i \in 1 .. Len(ranges) + 1
    BY DEF IInv, TypeOK
<1>2. CASE UNCHANGED vars BY <1>2 DEF vars, Bounds
<1>3. CASE Extend
  <2> DEFINE n == Len(merged)
             new == IF last.end < ranges[i].end THEN ranges[i].end ELSE last.end
             longer == [start |-> last.start, end |-> new]
  <2>1. n \in 1 .. n /\ last = merged[n] /\ last \in Interval BY <1>1, <1>3 DEF Extend, last
  <2>2. merged' = [merged EXCEPT ![n] = longer]
    <3>1. [last EXCEPT !.end = new] = longer BY <2>1 DEF Interval
    <3> QED BY <3>1, <1>3 DEF Extend, last
  <2>3. longer.start = last.start /\ longer.end = new OBVIOUS
  <2> HIDE DEF longer
  <2>4. /\ Len(merged') = n /\ merged'[n] = longer
        /\ \A m \in 1 .. n : m # n => merged'[m] = merged[m]
      BY <2>1, <2>2, <1>1
  <2>5. i' = i + 1 /\ ranges' = ranges /\ i \in 1 .. i' - 1
        /\ \A j \in 1 .. i - 1 : j \in 1 .. i' - 1
      BY <1>1, <1>3 DEF Extend
  <2>6. PICK j \in 1 .. i - 1, k \in 1 .. i - 1 :
           last.start = ranges[j].start /\ last.end = ranges[k].end
      BY <2>1 DEF Bounds
  <2>7. \E a, b \in 1 .. i' - 1 :
           merged'[n].start = ranges'[a].start /\ merged'[n].end = ranges'[b].end
    <3>1. CASE last.end < ranges[i].end BY <3>1, <2>3, <2>4, <2>5, <2>6
    <3>2. CASE ~(last.end < ranges[i].end) BY <3>2, <2>3, <2>4, <2>5, <2>6
    <3> QED BY <3>1, <3>2
  <2>8. ASSUME NEW m \in 1 .. n, m # n
        PROVE  \E a, b \in 1 .. i' - 1 :
                 merged'[m].start = ranges'[a].start /\ merged'[m].end = ranges'[b].end
    <3>1. PICK a \in 1 .. i - 1, b \in 1 .. i - 1 :
             merged[m].start = ranges[a].start /\ merged[m].end = ranges[b].end
        BY DEF Bounds
    <3> QED BY <3>1, <2>4, <2>5, <2>8
  <2> QED BY <2>4, <2>7, <2>8 DEF Bounds
<1>4. CASE Push
  <2> DEFINE n == Len(merged)
  <2>1. i \in 1 .. Len(ranges) /\ ranges[i] \in Interval /\ merged' = Append(merged, ranges[i])
      BY <1>1, <1>4 DEF Push
  <2>2. /\ Len(merged') = n + 1 /\ merged'[n + 1] = ranges[i]
        /\ \A m \in 1 .. n : merged'[m] = merged[m]
      BY <2>1, <1>1
  <2>3. i' = i + 1 /\ ranges' = ranges /\ i \in 1 .. i' - 1
        /\ \A j \in 1 .. i - 1 : j \in 1 .. i' - 1
      BY <1>1, <1>4 DEF Push
  <2>4. \A m \in 1 .. Len(merged') : m \in 1 .. n \/ m = n + 1 BY <2>2, <1>1
  <2>5. ASSUME NEW m \in 1 .. n
        PROVE  \E a, b \in 1 .. i' - 1 :
                 merged'[m].start = ranges'[a].start /\ merged'[m].end = ranges'[b].end
    <3>1. PICK a \in 1 .. i - 1, b \in 1 .. i - 1 :
             merged[m].start = ranges[a].start /\ merged[m].end = ranges[b].end
        BY DEF Bounds
    <3> QED BY <3>1, <2>2, <2>3
  <2> QED BY <2>2, <2>3, <2>4, <2>5 DEF Bounds
<1> QED BY <1>2, <1>3, <1>4 DEF Next, Done

\* The references of Returned cover what the ranges do.
Refs == {[file_offset |-> 0, extent_offset |-> ranges[k].start,
          num_bytes |-> ranges[k].end - ranges[k].start] : k \in 1 .. Len(ranges)}

LEMMA RefsFacts ==
    ASSUME TypeOK
    PROVE  /\ Covered(Refs) = Spread(ranges, Len(ranges))
           /\ {r.extent_offset : r \in Refs} = {ranges[k].start : k \in 1 .. Len(ranges)}
           /\ {r.extent_offset + r.num_bytes : r \in Refs} =
                {ranges[k].end : k \in 1 .. Len(ranges)}
<1> DEFINE ref(k) == [file_offset |-> 0, extent_offset |-> ranges[k].start,
                      num_bytes |-> ranges[k].end - ranges[k].start]
<1>1. ASSUME NEW k \in 1 .. Len(ranges)
      PROVE  /\ ref(k).extent_offset = ranges[k].start
             /\ ref(k).extent_offset + ref(k).num_bytes = ranges[k].end
             /\ Span(ref(k)) = Cells(ranges[k])
  <2>1. ranges[k] \in Interval BY DEF TypeOK
  <2>2. ranges[k].start \in Nat /\ ranges[k].end \in Nat BY <2>1 DEF Interval
  <2> QED BY <2>2 DEF Span, Cells
<1>2. Refs = {ref(k) : k \in 1 .. Len(ranges)} BY DEF Refs
<1> HIDE DEF ref
<1>3. Covered(Refs) = Spread(ranges, Len(ranges)) BY <1>1, <1>2 DEF Covered, Spread
<1> QED BY <1>1, <1>2, <1>3

\* With all ranges gone over, what is merged is what LiveRanges defines: a
\* position where a range starts and none covers the one before is where a
\* merged one starts, and the first end after it that none covers is its end.
LEMMA IsReturned ==
    ASSUME IInv, Bounds
    PROVE  Returned
<1> SUFFICES ASSUME i > Len(ranges)
             PROVE  {merged[k] : k \in 1 .. Len(merged)} = LiveRanges(Refs)
    BY DEF Returned, Refs
<1> DEFINE N == Len(ranges)
           M == Len(merged)
           C == Spread(merged, M)
           E == {ranges[k].end : k \in 1 .. N} \ C
           S == {ranges[k].start : k \in 1 .. N} \ {p + 1 : p \in C}
           after(s) == {e \in E : e > s}
<1>1. /\ ranges \in Seq(Interval) /\ N \in Nat /\ merged \in Seq(Interval) /\ M \in Nat
      /\ i - 1 = N
    BY DEF IInv, TypeOK
<1>2. /\ \A k \in 1 .. N : ranges[k].start \in Nat /\ ranges[k].end \in Nat
                           /\ ranges[k].start < ranges[k].end
      /\ \A m \in 1 .. M : merged[m].start \in Nat /\ merged[m].end \in Nat
                           /\ merged[m].start < merged[m].end
    BY <1>1 DEF Interval
<1>3. C = Spread(ranges, N) BY <1>1 DEF IInv, Covering
<1>4. LiveRanges(Refs) = {[start |-> s, end |-> Min(after(s))] : s \in S}
  <2>1. TypeOK BY DEF IInv
  <2>2. Covered(Refs) = C BY <2>1, <1>3, RefsFacts
  <2> QED BY <2>1, <2>2, RefsFacts DEF LiveRanges
<1>5. \A p : p \in C <=> \E m \in 1 .. M : p \in merged[m].start .. merged[m].end - 1
    BY DEF Spread, Cells
<1>6. \A k \in 1 .. N : ranges[k].start \in C /\ ranges[k].end - 1 \in C
  <2> SUFFICES ASSUME NEW k \in 1 .. N
               PROVE  ranges[k].start \in C /\ ranges[k].end - 1 \in C
      OBVIOUS
  <2>1. ranges[k].start \in Cells(ranges[k]) /\ ranges[k].end - 1 \in Cells(ranges[k])
      BY <1>2 DEF Cells
  <2> QED BY <2>1, <1>3 DEF Spread
<1>7. \A j, k \in 1 .. M : j < k => merged[j].end < merged[k].start
    BY DEF IInv, Separated
<1> HIDE DEF C
\* Neither the position before a merged range nor the one behind it is covered.
<1>8. ASSUME NEW m \in 1 .. M
      PROVE  merged[m].start - 1 \notin C /\ merged[m].end \notin C
  <2> SUFFICES ASSUME NEW q \in 1 .. M
               PROVE  /\ merged[m].start - 1 \notin merged[q].start .. merged[q].end - 1
                      /\ merged[m].end \notin merged[q].start .. merged[q].end - 1
      BY <1>5
  <2>1. CASE q < m BY <2>1, <1>2, <1>7
  <2>2. CASE m < q BY <2>2, <1>2, <1>7
  <2>3. CASE q = m BY <2>3, <1>2
  <2> QED BY <2>1, <2>2, <2>3, <1>1
<1>9. ASSUME NEW m \in 1 .. M PROVE merged[m].start \in S /\ merged[m].end \in E
  <2>1. PICK j \in 1 .. N, k \in 1 .. N :
           merged[m].start = ranges[j].start /\ merged[m].end = ranges[k].end
      BY <1>1 DEF Bounds
  <2>2. C \subseteq Int BY <1>2, <1>5
  <2>3. merged[m].start \notin {p + 1 : p \in C} BY <2>2, <1>2, <1>8
  <2> QED BY <2>1, <2>3, <1>8
\* Every end that is not covered is that of a merged range.
<1>10. ASSUME NEW e \in E PROVE \E q \in 1 .. M : e = merged[q].end
  <2>1. PICK k \in 1 .. N : e = ranges[k].end OBVIOUS
  <2>2. e - 1 \in C /\ e \notin C /\ e \in Nat BY <2>1, <1>2, <1>6
  <2>3. PICK q \in 1 .. M : e - 1 \in merged[q].start .. merged[q].end - 1 BY <2>2, <1>5
  <2>4. e \notin merged[q].start .. merged[q].end - 1 BY <2>2, <1>5
  <2> QED BY <2>2, <2>3, <2>4, <1>2
\* So is every start.
<1>11. ASSUME NEW s \in S PROVE \E q \in 1 .. M : s = merged[q].start
  <2>1. PICK k \in 1 .. N : s = ranges[k].start OBVIOUS
  <2>2. s \in C /\ s \in Nat BY <2>1, <1>2, <1>6
  <2>3. s - 1 \notin C BY <2>2
  <2>4. PICK q \in 1 .. M : s \in merged[q].start .. merged[q].end - 1 BY <2>2, <1>5
  <2>5. s - 1 \notin merged[q].start .. merged[q].end - 1 BY <2>3, <1>5
  <2> QED BY <2>2, <2>4, <2>5, <1>2
<1>12. ASSUME NEW m \in 1 .. M PROVE Min(after(merged[m].start)) = merged[m].end
  <2> DEFINE A == after(merged[m].start)
  <2>1. merged[m].end \in A BY <1>2, <1>9
  <2>2. \A e \in A : e \in Nat /\ merged[m].end <= e
    <3> SUFFICES ASSUME NEW e \in A PROVE e \in Nat /\ merged[m].end <= e OBVIOUS
    <3>1. PICK q \in 1 .. M : e = merged[q].end BY <1>10
    <3>2. CASE q < m BY <3>1, <3>2, <1>2, <1>7
    <3>3. CASE m < q BY <3>1, <3>3, <1>2, <1>7
    <3>4. CASE q = m BY <3>1, <3>4, <1>2
    <3> QED BY <3>2, <3>3, <3>4, <1>1
  <2> HIDE DEF A
  <2>3. \A x \in A : (\A y \in A : x <= y) => x = merged[m].end BY <2>1, <2>2, <1>2
  <2>4. Min(A) = merged[m].end BY <2>1, <2>2, <2>3 DEF Min
  <2> QED BY <2>4 DEF A
<1> HIDE DEF S, after
<1>13. \A m \in 1 .. M :
          merged[m] = [start |-> merged[m].start, end |-> Min(after(merged[m].start))]
  <2>1. \A m \in 1 .. M : merged[m] \in Interval BY <1>1
  <2> QED BY <2>1, <1>12 DEF Interval
<1>14. \A m \in 1 .. M : merged[m] \in {[start |-> s, end |-> Min(after(s))] : s \in S}
    BY <1>9, <1>13
<1>15. \A s \in S : \E m \in 1 .. M : merged[m] = [start |-> s, end |-> Min(after(s))]
    BY <1>11, <1>13
<1> QED BY <1>4, <1>14, <1>15

\* live_ranges (extent.rs) returns every maximal stretch that the references
\* cover, whatever and however many they are.
THEOREM MergeReturnsLiveRanges == Spec => []Returned
<1>1. Init => IInv /\ Bounds BY InitIInv DEF Init, Bounds
<1>2. IInv /\ Bounds /\ [Next]_vars => (IInv /\ Bounds)' BY NextIInv, NextBounds
<1>3. IInv /\ Bounds => Returned BY IsReturned
<1> QED BY <1>1, <1>2, <1>3, PTL DEF Spec
=============================================================================
