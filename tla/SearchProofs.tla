---------------------------- MODULE SearchProofs ----------------------------
(***************************************************************************)
(* A search hands over what it is asked for, in order and complete, for    *)
(* keys, buffers and items of any size, any number of searches and any     *)
(* number of changes to the tree meanwhile.                                *)
(*                                                                         *)
(* The argument cuts the range at the least key of the arguments: what is  *)
(* below it has been handed over, and what the buffer has reached of the   *)
(* rest is in the buffer.                                                  *)
(***************************************************************************)
EXTENDS Search, TLAPS

-----------------------------------------------------------------------------
(* The order of keys.                                                      *)

\* What a key is made of.
LEMMA KeyFields ==
    ASSUME NEW a \in Key
    PROVE  /\ a = [objectid |-> a.objectid, type |-> a.type, offset |-> a.offset]
           /\ a.objectid \in 0 .. MaxObjectid /\ a.type \in 0 .. MaxType
           /\ a.offset \in 0 .. MaxOffset
BY DEF Key

\* The order is strict and total.
LEMMA LessOrder ==
    /\ \A a \in Key : ~Less(a, a)
    /\ \A a, b \in Key : a = b \/ Less(a, b) \/ Less(b, a)
    /\ \A a, b, c \in Key : Less(a, b) /\ Less(b, c) => Less(a, c)
<1>1. \A a \in Key : ~Less(a, a) BY SearchAssumption DEF Less, Key
<1>2. ASSUME NEW a \in Key, NEW b \in Key PROVE a = b \/ Less(a, b) \/ Less(b, a)
  <2>1. (a.objectid = b.objectid /\ a.type = b.type /\ a.offset = b.offset) => a = b
      BY KeyFields
  <2> QED BY <2>1, KeyFields, SearchAssumption DEF Less
<1>3. ASSUME NEW a \in Key, NEW b \in Key, NEW c \in Key, Less(a, b), Less(b, c)
      PROVE  Less(a, c)
    BY <1>3, KeyFields, SearchAssumption DEF Less
<1> QED BY <1>1, <1>2, <1>3

\* Nothing comes after the last key.
LEMMA LastIsLast ==
    /\ Last \in Key
    /\ \A a \in Key : ~Less(Last, a)
BY SearchAssumption DEF Last, Less, Key

\* Advance finds the key just past any other than the last.
LEMMA AdvanceNext ==
    ASSUME NEW a \in Key, a # Last
    PROVE  /\ Advance(a) \in Key
           /\ \A k \in Key : Less(k, Advance(a)) <=> ~Less(a, k)
<1>1. /\ a = [objectid |-> a.objectid, type |-> a.type, offset |-> a.offset]
      /\ a.objectid \in 0 .. MaxObjectid /\ a.type \in 0 .. MaxType
      /\ a.offset \in 0 .. MaxOffset
    BY KeyFields
<1>2. CASE a.offset < MaxOffset
  <2>1. Advance(a) = [objectid |-> a.objectid, type |-> a.type, offset |-> a.offset + 1]
      BY <1>1, <1>2 DEF Advance
  <2> QED BY <1>1, <1>2, <2>1, SearchAssumption DEF Less, Key
<1>3. CASE a.offset = MaxOffset /\ a.type < MaxType
  <2>1. Advance(a) = [a EXCEPT !.type = @ + 1, !.offset = 0]
      BY <1>1, <1>3, SearchAssumption DEF Advance
  <2>2. Advance(a) = [objectid |-> a.objectid, type |-> a.type + 1, offset |-> 0]
      BY <1>1, <2>1
  <2> QED BY <1>1, <1>3, <2>2, SearchAssumption DEF Less, Key
<1>4. CASE a.offset = MaxOffset /\ a.type = MaxType
  <2>1. Advance(a) = [objectid |-> a.objectid + 1, type |-> 0, offset |-> 0]
      BY <1>1, <1>4, SearchAssumption DEF Advance
  <2>2. a.objectid < MaxObjectid BY <1>1, <1>4, SearchAssumption DEF Last
  <2> QED BY <1>1, <1>4, <2>1, <2>2, SearchAssumption DEF Less, Key
<1> QED BY <1>1, <1>2, <1>3, <1>4, SearchAssumption

-----------------------------------------------------------------------------
(* The type invariant.                                                     *)

LEMMA InitType == Init => TypeOK
<1> SUFFICES ASSUME Init PROVE TypeOK OBVIOUS
<1>1. First \in Key /\ Last \in Key BY SearchAssumption DEF First, Last, Key
<1>2. key \in [min : Key, max : Key] BY <1>1 DEF Init
<1> QED BY <1>2, SearchAssumption DEF Init, TypeOK

LEMMA NextType == TypeOK /\ [Next]_vars => TypeOK'
<1> SUFFICES ASSUME TypeOK, [Next]_vars PROVE TypeOK' OBVIOUS
<1> USE DEF TypeOK, users, args, since
<1>1. CASE Begin BY <1>1, SearchAssumption DEF Begin, set_range
<1>2. CASE Copy
  <2>1. PICK k \in Ahead, size \in ItemSizes :
           /\ pos + HeaderSize + size <= BufSize
           /\ buf' = Append(buf, k) /\ pos' = pos + HeaderSize + size
      BY <1>2 DEF Copy
  <2>2. k \in Key BY DEF Ahead
  <2>3. pos' \in 0 .. BufSize BY <2>1, SearchAssumption
  <2>4. buf' \in Seq(Key) /\ each \in 0 .. Len(buf') BY <2>1, <2>2
  <2> QED BY <1>2, <2>3, <2>4 DEF Copy
<1>3. CASE Return BY <1>3 DEF Return
<1>4. CASE Fault BY <1>4 DEF Fault
<1>5. CASE Each
  <2>1. buf[each + 1] \in Key /\ each' \in 0 .. Len(buf) BY <1>5 DEF Each
  <2> QED BY <1>5, <2>1 DEF Each
<1>6. CASE Continue
  <2>1. buf[Len(buf)] \in Key /\ buf[Len(buf)] # Last BY <1>6 DEF Continue, More
  <2>2. Advance(buf[Len(buf)]) \in Key BY <2>1, AdvanceNext
  <2>3. key' \in [min : Key, max : Key] BY <1>6, <2>2 DEF Continue
  <2> QED BY <1>6, <2>3, SearchAssumption DEF Continue
<1>7. CASE Finish BY <1>7 DEF Finish
<1>8. CASE \E k \in Key : Insert(k) \/ Delete(k)
    BY <1>8, SearchAssumption DEF Insert, Delete
<1>9. CASE UNCHANGED vars BY <1>9 DEF vars
<1> QED BY <1>1, <1>2, <1>3, <1>4, <1>5, <1>6, <1>7, <1>8, <1>9 DEF Next, Tool, Done

\* Every variable of a search keeps its type; the key a search carries on from
\* in particular is one there is, for Advance is not asked for one past the
\* last of all (search_all).
THEOREM SearchTypeCorrect == Spec => []TypeOK
BY InitType, NextType, PTL DEF Spec

-----------------------------------------------------------------------------
(* What holds while a search goes on.                                      *)

Active == pc # "idle"

\* The arguments keep to the range asked for.
RangeKept == key.max = want.max /\ ~Less(key.min, want.min)

\* The buffer is in order, from the tree and within the arguments' range.
BufferOK ==
    /\ buf = <<>> => pos = 0
    /\ \A i, j \in 1 .. Len(buf) : i < j => Less(buf[i], buf[j])
    /\ \A i \in 1 .. Len(buf) : buf[i] \in seen /\ Within(buf[i], key)

\* What was handed over is below the arguments' range, or in the buffer.
HandedOK == \A k \in handed : Less(k, key.min) \/ \E i \in 1 .. each : buf[i] = k
EachOK   == \A i \in 1 .. each : buf[i] \in handed

\* And nothing is missing of what is below it, nor of what the buffer reaches.
BelowOK  == \A k \in steady : Within(k, want) /\ Less(k, key.min) => k \in handed
InBuffer(k) == \E i \in 1 .. Len(buf) : buf[i] = k
ReachOK  == \A k \in steady : (/\ Within(k, key) /\ buf # <<>>
                               /\ ~Less(buf[Len(buf)], k)) => InBuffer(k)

\* A buffer with room to spare has all there is.
RoomOK   == (pc = "items" /\ (buf = <<>> \/ Complete)) =>
               \A k \in steady : Within(k, key) => InBuffer(k)

\* The users have taken no item out of sight.
SeenOK   == tree \subseteq seen

Going == /\ result = "none" /\ SeenOK /\ RangeKept /\ BufferOK /\ HandedOK /\ EachOK
         /\ BelowOK /\ ReachOK /\ RoomOK

SteadyOK == steady \subseteq tree

SInv == SteadyOK /\ NothingMissed /\ (Active => Going)

LEMMA InitSInv == Init => SInv
BY DEF Init, SInv, SteadyOK, NothingMissed, Active

\* A search begins with an empty buffer and everything ahead of it.
LEMMA BeginSInv ==
    ASSUME TypeOK, SInv, Begin
    PROVE  SInv'
<1>1. PICK range \in Ranges : key' = range /\ want' = range BY DEF Begin, set_range
<1>2. range.min \in Key BY <1>1, SearchAssumption
<1>3. /\ steady' = tree /\ tree' = tree /\ handed' = {} /\ result' = "none"
      /\ buf' = <<>> /\ pos' = 0 /\ each' = 0 /\ pc' = "search"
    BY DEF Begin, users
<1>4. RangeKept' /\ SeenOK' BY <1>1, <1>2, LessOrder DEF RangeKept, SeenOK, Begin, users
<1>5. BufferOK' BY <1>3 DEF BufferOK
<1>6. HandedOK' /\ EachOK' BY <1>3 DEF HandedOK, EachOK
<1>7. BelowOK' BY <1>1 DEF BelowOK, Within
<1>8. ReachOK' /\ RoomOK' BY <1>3 DEF ReachOK, RoomOK
<1> QED BY <1>3, <1>4, <1>5, <1>6, <1>7, <1>8 DEF SInv, SteadyOK, NothingMissed, Going

\* The item copied is the next in the tree: whatever was there all along and
\* comes before it is in the buffer already.
LEMMA CopySInv ==
    ASSUME TypeOK, SInv, Copy
    PROVE  SInv'
<1>1. PICK k \in Ahead, size \in ItemSizes :
         /\ \A other \in Ahead : ~Less(other, k)
         /\ buf' = Append(buf, k) /\ pos' = pos + HeaderSize + size
    BY DEF Copy
<1>2. /\ pc = "search" /\ pc' = "search"
      /\ UNCHANGED <<tree, key, each, handed, result, want, steady, seen>>
    BY DEF Copy, users, since
<1>3. Going BY <1>2 DEF SInv, Active
<1> DEFINE n == Len(buf)
<1>4. /\ buf \in Seq(Key) /\ n \in Nat /\ each \in 0 .. n /\ k \in Key /\ k \in tree
      /\ Within(k, key) /\ (buf # <<>> => Less(buf[n], k))
    BY DEF TypeOK, Ahead
<1>5. /\ Len(buf') = n + 1 /\ buf'[n + 1] = k /\ buf' # <<>>
      /\ \A i \in 1 .. n : buf'[i] = buf[i]
    BY <1>1, <1>4
<1>6. \A i \in 1 .. n : buf[i] \in Key /\ Less(buf[i], k)
  <2> SUFFICES ASSUME NEW i \in 1 .. n PROVE buf[i] \in Key /\ Less(buf[i], k) OBVIOUS
  <2>1. buf[i] \in Key /\ buf[n] \in Key /\ Less(buf[n], k) BY <1>4
  <2>2. CASE i = n BY <2>1, <2>2
  <2>3. CASE i < n
    <3>1. Less(buf[i], buf[n]) BY <1>3, <1>4, <2>3 DEF Going, BufferOK
    <3> QED BY <2>1, <3>1, <1>4, LessOrder
  <2> QED BY <1>4, <2>2, <2>3
<1>7. RangeKept' BY <1>2, <1>3 DEF Going, RangeKept
<1>8. BufferOK'
  <2>1. \A i, j \in 1 .. n + 1 : i < j => Less(buf'[i], buf'[j])
    <3> SUFFICES ASSUME NEW i \in 1 .. n + 1, NEW j \in 1 .. n + 1, i < j
                 PROVE  Less(buf'[i], buf'[j])
        OBVIOUS
    <3>1. CASE j = n + 1 BY <3>1, <1>4, <1>5, <1>6
    <3>2. CASE j <= n BY <3>2, <1>3, <1>4, <1>5 DEF Going, BufferOK
    <3> QED BY <1>4, <3>1, <3>2
  <2>2. k \in seen BY <1>3, <1>4 DEF Going, SeenOK
  <2> QED BY <2>1, <2>2, <1>2, <1>3, <1>4, <1>5 DEF Going, BufferOK, Within
<1>9. HandedOK' /\ EachOK'
    BY <1>2, <1>3, <1>4, <1>5 DEF Going, HandedOK, EachOK
<1>10. BelowOK' BY <1>2, <1>3 DEF Going, BelowOK, Within
<1>11. ReachOK'
  <2> SUFFICES ASSUME NEW s \in steady, Within(s, key), ~Less(k, s)
               PROVE  \E i \in 1 .. n + 1 : buf'[i] = s
      BY <1>2, <1>5 DEF ReachOK, InBuffer, Within
  <2>1. s \in Key /\ s \in tree BY DEF SInv, SteadyOK, TypeOK
  <2>2. CASE buf # <<>> /\ ~Less(buf[n], s)
    <3>1. PICK i \in 1 .. n : buf[i] = s BY <1>3, <2>2 DEF Going, ReachOK, InBuffer
    <3> QED BY <1>4, <1>5, <3>1
  <2>3. CASE ~(buf # <<>> /\ ~Less(buf[n], s))
    <3>1. s \in Ahead BY <2>1, <2>3 DEF Ahead
    <3>2. s = k BY <1>1, <1>4, <2>1, <3>1, LessOrder
    <3> QED BY <1>4, <1>5, <3>2
  <2> QED BY <2>2, <2>3
<1>12. RoomOK' /\ SeenOK' BY <1>2, <1>3 DEF RoomOK, Going, SeenOK
<1>13. Going' BY <1>2, <1>3, <1>7, <1>8, <1>9, <1>10, <1>11, <1>12 DEF Going
<1>14. NothingMissed' BY <1>2, <1>3 DEF Going, NothingMissed
<1> QED BY <1>2, <1>13, <1>14 DEF SInv, SteadyOK

\* The search stops at the end of the range, or because some item does not fit,
\* and then neither is the buffer empty nor is there room for any item.
LEMMA ReturnSInv ==
    ASSUME TypeOK, SInv, Return
    PROVE  SInv'
<1>1. /\ pc = "search" /\ pc' = "items"
      /\ UNCHANGED <<tree, key, buf, pos, each, handed, result, want, steady, seen>>
    BY DEF Return, users, args, since
<1>2. Going BY <1>1 DEF SInv, Active
<1>3. RoomOK'
  <2> SUFFICES ASSUME buf = <<>> \/ Complete, NEW s \in steady, Within(s, key)
               PROVE  InBuffer(s)
      BY <1>1 DEF RoomOK, InBuffer, Within, Complete
  <2>1. Ahead = {}
    <3> SUFFICES ASSUME NEW size \in ItemSizes, pos + HeaderSize + size > BufSize
                 PROVE  FALSE
        BY DEF Return
    <3>1. size \in Nat /\ size <= MaxItemSize BY SearchAssumption
    <3>2. pos \in Nat BY DEF TypeOK
    <3>3. CASE buf = <<>>
      <4>1. pos = 0 BY <1>2, <3>3 DEF Going, BufferOK
      <4> QED BY <3>1, <4>1, SearchAssumption
    <3>4. CASE Complete BY <3>1, <3>2, <3>4, SearchAssumption DEF Complete
    <3> QED BY <3>3, <3>4
  <2>2. buf # <<>> /\ ~Less(buf[Len(buf)], s) BY <2>1 DEF SInv, SteadyOK, Ahead
  <2> QED BY <1>2, <2>2 DEF Going, ReachOK
<1>4. Going'
    BY <1>1, <1>2, <1>3 DEF Going, SeenOK, RangeKept, BufferOK, HandedOK, EachOK, BelowOK,
                            ReachOK, InBuffer, Within
<1> QED BY <1>1, <1>4 DEF SInv, SteadyOK, NothingMissed

LEMMA EachSInv ==
    ASSUME TypeOK, SInv, Each
    PROVE  SInv'
<1>1. /\ pc = "items" /\ pc' = "items" /\ each < Len(buf) /\ each' = each + 1
      /\ handed' = handed \union {buf[each + 1]}
      /\ UNCHANGED <<tree, key, buf, pos, result, want, steady, seen>>
    BY DEF Each, users, since
<1>2. Going BY <1>1 DEF SInv, Active
<1>3. each \in Nat /\ 1 .. each' = (1 .. each) \union {each + 1} BY <1>1 DEF TypeOK
<1>4. HandedOK' /\ EachOK' BY <1>1, <1>2, <1>3 DEF Going, HandedOK, EachOK
<1>5. BelowOK' BY <1>1, <1>2 DEF Going, BelowOK, Within
<1>6. Going'
    BY <1>1, <1>2, <1>4, <1>5 DEF Going, SeenOK, RangeKept, BufferOK, ReachOK, RoomOK,
                                  InBuffer, Within, Complete
<1>7. NothingMissed' BY <1>1, <1>2 DEF Going, NothingMissed
<1> QED BY <1>1, <1>6, <1>7 DEF SInv, SteadyOK

\* The search carries on just past the last key of the buffer, all of which has
\* been handed over.
LEMMA ContinueSInv ==
    ASSUME TypeOK, SInv, Continue
    PROVE  SInv'
<1> DEFINE n == Len(buf)
           last == buf[n]
<1>1. /\ pc = "items" /\ pc' = "search" /\ each = n /\ buf # <<>> /\ last # Last
      /\ key' = [key EXCEPT !.min = Advance(last)]
      /\ buf' = <<>> /\ pos' = 0 /\ each' = 0
      /\ UNCHANGED <<tree, handed, result, want, steady, seen>>
    BY DEF Continue, More, users, since
<1>2. Going BY <1>1 DEF SInv, Active
<1>3. buf \in Seq(Key) /\ n \in Nat /\ n > 0 /\ last \in Key BY <1>1 DEF TypeOK
<1>4. /\ Advance(last) \in Key
      /\ \A k \in Key : Less(k, Advance(last)) <=> ~Less(last, k)
    BY <1>1, <1>3, AdvanceNext
<1>5. /\ key.min \in Key /\ key.max \in Key /\ want.min \in Key /\ want.max \in Key
      /\ key'.min = Advance(last) /\ key'.max = key.max
    BY <1>1 DEF TypeOK
<1>6. ~Less(last, key.min) /\ ~Less(key.min, want.min)
    BY <1>2, <1>3 DEF Going, BufferOK, RangeKept, Within
<1> HIDE DEF last
<1>7. RangeKept'
  <2>1. Less(key.min, Advance(last)) BY <1>4, <1>5, <1>6
  <2>2. ~Less(Advance(last), want.min) BY <1>4, <1>5, <1>6, <2>1, LessOrder
  <2> QED BY <1>1, <1>2, <1>5, <2>2 DEF Going, RangeKept
<1>8. HandedOK'
  <2> SUFFICES ASSUME NEW k \in handed PROVE Less(k, Advance(last))
      BY <1>1, <1>5 DEF HandedOK
  <2>1. k \in Key BY DEF TypeOK
  <2>2. CASE Less(k, key.min)
    <3>1. ~Less(last, k) BY <1>3, <1>5, <1>6, <2>1, <2>2, LessOrder
    <3> QED BY <1>4, <2>1, <3>1
  <2>3. CASE \E i \in 1 .. n : buf[i] = k
    <3>1. k = last \/ Less(k, last) BY <1>2, <1>3, <2>3 DEF Going, BufferOK, last
    <3>2. ~Less(last, k) BY <1>3, <2>1, <3>1, LessOrder
    <3> QED BY <1>4, <2>1, <3>2
  <2> QED BY <1>1, <1>2, <2>2, <2>3 DEF Going, HandedOK
<1>9. BelowOK'
  <2> SUFFICES ASSUME NEW k \in steady, Within(k, want), Less(k, Advance(last))
               PROVE  k \in handed
      BY <1>1, <1>5 DEF BelowOK, Within
  <2>1. k \in Key /\ ~Less(last, k) BY <1>4 DEF TypeOK
  <2>2. CASE Less(k, key.min) BY <1>2, <2>2 DEF Going, BelowOK
  <2>3. CASE ~Less(k, key.min)
    <3>1. Within(k, key) BY <1>2, <2>3 DEF Within, Going, RangeKept
    <3>2. InBuffer(k) BY <1>1, <1>2, <2>1, <3>1 DEF Going, ReachOK, last
    <3> QED BY <1>1, <1>2, <3>2 DEF InBuffer, Going, EachOK
  <2> QED BY <2>2, <2>3
<1>10. BufferOK' /\ EachOK' /\ ReachOK' /\ RoomOK' /\ SeenOK'
    BY <1>1, <1>2 DEF BufferOK, EachOK, ReachOK, RoomOK, SeenOK, Going
<1>11. Going' BY <1>1, <1>2, <1>7, <1>8, <1>9, <1>10 DEF Going
<1>12. NothingMissed' BY <1>1, <1>2 DEF Going, NothingMissed
<1> QED BY <1>1, <1>11, <1>12 DEF SInv, SteadyOK

\* Where the search ends, everything of its range is in the last buffer or has
\* been handed over before.
LEMMA FinishSInv ==
    ASSUME TypeOK, SInv, Finish
    PROVE  SInv'
<1>1. /\ pc = "items" /\ pc' = "idle" /\ each = Len(buf) /\ ~More
      /\ UNCHANGED <<tree, handed, want, steady>>
    BY DEF Finish, users, since
<1>2. Going BY <1>1 DEF SInv, Active
<1>3. NothingMissed'
  <2> SUFFICES ASSUME NEW k \in steady, Within(k, want) PROVE k \in handed
      BY <1>1 DEF NothingMissed, Within
  <2>1. CASE Less(k, key.min) BY <1>2, <2>1 DEF Going, BelowOK
  <2>2. CASE ~Less(k, key.min)
    <3>1. Within(k, key) BY <1>2, <2>2 DEF Within, Going, RangeKept
    <3>2. InBuffer(k)
      <4>1. CASE buf = <<>> \/ Complete BY <1>1, <1>2, <3>1, <4>1 DEF Going, RoomOK
      <4>2. CASE buf # <<>> /\ buf[Len(buf)] = Last
        <5>1. k \in Key BY DEF TypeOK
        <5> QED BY <1>2, <3>1, <4>2, <5>1, LastIsLast DEF Going, ReachOK
      <4> QED BY <1>1, <4>1, <4>2 DEF More
    <3> QED BY <1>1, <1>2, <3>2 DEF InBuffer, Going, EachOK
  <2> QED BY <2>1, <2>2
<1> QED BY <1>1, <1>3 DEF SInv, SteadyOK, Active

LEMMA UserSInv ==
    ASSUME TypeOK, SInv, NEW k \in Key, Insert(k) \/ Delete(k)
    PROVE  SInv'
<1>1. /\ UNCHANGED <<pc, key, buf, pos, each, handed, result, want>>
      /\ steady' \subseteq steady /\ seen \subseteq seen'
      /\ steady' \subseteq tree' \/ ~SteadyOK
      /\ tree' \subseteq seen' \/ ~SeenOK
    BY DEF Insert, Delete, args, SteadyOK, SeenOK
<1>2. NothingMissed' BY <1>1 DEF SInv, NothingMissed, Within
<1>3. Active => Going'
    BY <1>1 DEF SInv, Active, Going, SeenOK, RangeKept, BufferOK, HandedOK, EachOK, BelowOK,
                ReachOK, RoomOK, InBuffer, Within, Complete
<1> QED BY <1>1, <1>2, <1>3 DEF SInv, Active, SteadyOK

LEMMA NextSInv == TypeOK /\ SInv /\ [Next]_vars => SInv'
<1> SUFFICES ASSUME TypeOK, SInv, [Next]_vars PROVE SInv' OBVIOUS
<1>1. CASE Fault
    BY <1>1 DEF Fault, SInv, SteadyOK, NothingMissed, Active, users, args, since
<1>2. CASE UNCHANGED vars
    BY <1>2 DEF vars, users, args, since, SInv, SteadyOK, NothingMissed, Active, Going, SeenOK,
                RangeKept, BufferOK, HandedOK, EachOK, BelowOK, ReachOK, RoomOK, InBuffer,
                Within, Complete
<1> QED BY <1>1, <1>2, BeginSInv, CopySInv, ReturnSInv, EachSInv, ContinueSInv, FinishSInv,
           UserSInv DEF Next, Tool, Done

LEMMA SpecSInv == Spec => [](TypeOK /\ SInv)
<1>1. Init => TypeOK /\ SInv BY InitType, InitSInv
<1>2. TypeOK /\ SInv /\ [Next]_vars => (TypeOK /\ SInv)' BY NextType, NextSInv
<1> QED BY <1>1, <1>2, PTL DEF Spec

-----------------------------------------------------------------------------
(* The theorems.                                                           *)

\* A search that says it worked has handed over every item of its range that
\* was in the tree all along, whichever way the items fall into buffers and
\* whatever comes and goes meanwhile (search_all, kernel.rs).
THEOREM SearchMissesNothing == Spec => []NothingMissed
<1>1. TypeOK /\ SInv => NothingMissed BY DEF SInv
<1> QED BY <1>1, SpecSInv, PTL

\* What a search hands over was in the tree and in its range, and comes after
\* everything it handed over before (search_all, items, kernel.rs).
THEOREM SearchInOrder == Spec => HandedInOrder
<1> DEFINE A == each' = each + 1 => /\ buf[each'] \in seen
                                    /\ Within(buf[each'], want)
                                    /\ \A k \in handed : Less(k, buf[each'])
<1>1. TypeOK /\ SInv /\ [Next]_vars => [A]_vars
  <2> SUFFICES ASSUME TypeOK, SInv, Next, each' = each + 1
               PROVE  /\ buf[each'] \in seen /\ Within(buf[each'], want)
                      /\ \A k \in handed : Less(k, buf[each'])
      OBVIOUS
  <2>1. each \in Nat BY DEF TypeOK
  <2>2. Each
      BY <2>1 DEF Next, Tool, Done, Begin, Copy, Return, Fault, Continue, Finish, Insert, Delete,
                  args, vars
  <2>3. pc = "items" /\ each' \in 1 .. Len(buf) /\ buf[each'] \in Key
      BY <2>1, <2>2 DEF Each, TypeOK
  <2>4. Going BY <2>3 DEF SInv, Active
  <2>5. /\ key.min \in Key /\ key.max \in Key /\ want.min \in Key BY DEF TypeOK
  <2>6. buf[each'] \in seen /\ Within(buf[each'], key) BY <2>3, <2>4 DEF Going, BufferOK
  <2>7. Within(buf[each'], want)
      BY <2>3, <2>4, <2>5, <2>6, LessOrder DEF Within, Going, RangeKept
  <2>8. ASSUME NEW k \in handed PROVE Less(k, buf[each'])
    <3>1. k \in Key BY DEF TypeOK
    <3>2. CASE Less(k, key.min) BY <2>3, <2>5, <2>6, <3>1, <3>2, LessOrder DEF Within
    <3>3. CASE \E i \in 1 .. each : buf[i] = k
        BY <2>1, <2>3, <2>4, <3>3 DEF Going, BufferOK
    <3> QED BY <2>4, <3>2, <3>3 DEF Going, HandedOK
  <2> QED BY <2>6, <2>7, <2>8
<1> QED BY <1>1, SpecSInv, PTL DEF Spec, HandedInOrder
=============================================================================
