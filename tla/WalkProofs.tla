----------------------------- MODULE WalkProofs -----------------------------
(***************************************************************************)
(* The walk, for any tree, any buffer and whatever users and rewrites do   *)
(* to the tree under it: it meets every extent that stays, once and in     *)
(* order, never its own copies, and with no lookup under way.              *)
(***************************************************************************)
EXTENDS Walk, SequenceTheorems, WellFoundedInduction, NaturalsInduction, TLAPS

\* A set of numbers that is not empty has a least one.
LEMMA LeastNumber ==
    ASSUME NEW T \in SUBSET Nat, T # {}
    PROVE  \E x \in T : \A y \in T : x <= y
<1> DEFINE R == {p \in Nat \X Nat : p[1] < p[2]}
<1>1. IsWellFoundedOn(R, Nat) BY NatLessThanWellFounded DEF OpToRel
<1> HIDE DEF R
<1>2. \E x \in T : \A y \in T : ~ (<<y, x>> \in R) BY <1>1, WFMin
<1>3. PICK x \in T : \A y \in T : ~ (<<y, x>> \in R) BY <1>2
<1>4. \A y \in T : ~(y < x) BY <1>3 DEF R
<1> QED BY <1>4

-----------------------------------------------------------------------------
(* What is kept of the extents read.                                       *)

\* The first n of them, filtered.
KeptOf(all, n, f) ==
    f = [i \in 0 .. n |->
           IF i = 0 THEN <<>>
           ELSE IF Keeps(all[i]) THEN Append(f[i - 1], all[i]) ELSE f[i - 1]]

LEMMA KeptExists ==
    ASSUME NEW all, NEW N \in Nat
    PROVE  \E f : KeptOf(all, N, f)
<1> DEFINE T == {n \in Nat : ~ \E f : KeptOf(all, n, f)}
<1> SUFFICES ASSUME T # {} PROVE FALSE OBVIOUS
<1>1. PICK n \in T : \A m \in T : n <= m BY LeastNumber
<1>2. n # 0
  <2>1. KeptOf(all, 0, [i \in 0 .. 0 |-> <<>>]) BY DEF KeptOf
  <2> QED BY <2>1, <1>1
<1>3. n - 1 \in Nat /\ n - 1 \notin T BY <1>1, <1>2
<1>4. PICK g : KeptOf(all, n - 1, g) BY <1>3
<1> DEFINE f == [i \in 0 .. n |->
                   IF i = n THEN IF Keeps(all[n]) THEN Append(g[n - 1], all[n]) ELSE g[n - 1]
                   ELSE g[i]]
<1>5. \A i \in 0 .. n - 1 : f[i] = g[i] BY <1>1
<1>6. \A i \in 0 .. n - 1 :
         g[i] = IF i = 0 THEN <<>>
                ELSE IF Keeps(all[i]) THEN Append(g[i - 1], all[i]) ELSE g[i - 1]
    BY <1>4 DEF KeptOf
<1>7. \A i \in 0 .. n :
         f[i] = IF i = 0 THEN <<>>
                ELSE IF Keeps(all[i]) THEN Append(f[i - 1], all[i]) ELSE f[i - 1]
  <2> SUFFICES ASSUME NEW i \in 0 .. n
               PROVE  f[i] = IF i = 0 THEN <<>>
                             ELSE IF Keeps(all[i]) THEN Append(f[i - 1], all[i]) ELSE f[i - 1]
      OBVIOUS
  <2>1. CASE i = n
    <3>1. n - 1 \in 0 .. n - 1 BY <1>1, <1>2
    <3>2. f[n - 1] = g[n - 1] BY <3>1, <1>5
    <3>3. f[i] = IF Keeps(all[n]) THEN Append(g[n - 1], all[n]) ELSE g[n - 1] BY <2>1
    <3> QED BY <3>2, <3>3, <2>1, <1>2
  <2>2. CASE i = 0 BY <2>2, <1>2, <1>1, <1>6
  <2>3. CASE i # n /\ i # 0
    <3>1. i \in 0 .. n - 1 /\ i - 1 \in 0 .. n - 1 BY <2>3, <1>1
    <3> HIDE DEF f
    <3> QED BY <3>1, <2>3, <1>5, <1>6
  <2> QED BY <2>1, <2>2, <2>3
<1>8. f = [i \in 0 .. n |-> f[i]] OBVIOUS
<1> HIDE DEF f
<1>9. KeptOf(all, n, f) BY <1>7, <1>8 DEF KeptOf
<1> QED BY <1>1, <1>9

LEMMA KeptIs ==
    ASSUME NEW all, Len(all) \in Nat
    PROVE  \E f : KeptOf(all, Len(all), f) /\ Kept(all) = f[Len(all)]
<1> DEFINE F == CHOOSE f : f = [i \in 0 .. Len(all) |->
           IF i = 0 THEN <<>>
           ELSE IF Keeps(all[i]) THEN Append(f[i - 1], all[i]) ELSE f[i - 1]]
<1>1. \E f : f = [i \in 0 .. Len(all) |->
           IF i = 0 THEN <<>>
           ELSE IF Keeps(all[i]) THEN Append(f[i - 1], all[i]) ELSE f[i - 1]]
    BY KeptExists DEF KeptOf
<1>2. F = [i \in 0 .. Len(all) |->
           IF i = 0 THEN <<>>
           ELSE IF Keeps(all[i]) THEN Append(F[i - 1], all[i]) ELSE F[i - 1]]
    BY <1>1
<1>3. Kept(all) = F[Len(all)] BY DEF Kept
<1> HIDE DEF F
<1> QED BY <1>2, <1>3 DEF KeptOf

Entry == [address : Address, gen : Int, own : BOOLEAN]

Rising(s) == \A i, j \in 1 .. Len(s) : i < j => s[i].address < s[j].address

\* That part is a filtering of the first n.
Filters(all, n, part) ==
    /\ part \in Seq(Entry)
    /\ \A k \in 1 .. Len(part) : Keeps(part[k]) /\ \E j \in 1 .. n : part[k] = all[j]
    /\ \A j \in 1 .. n : Keeps(all[j]) => \E k \in 1 .. Len(part) : part[k] = all[j]
    /\ Rising(all) => Rising(part)

LEMMA FiltersOne ==
    ASSUME NEW all \in Seq(Entry), NEW n \in 1 .. Len(all), NEW part, Filters(all, n - 1, part)
    PROVE  Filters(all, n, IF Keeps(all[n]) THEN Append(part, all[n]) ELSE part)
<1>1. all[n] \in Entry /\ Len(all) \in Nat /\ n \in Nat OBVIOUS
<1>2. part \in Seq(Entry) /\ Len(part) \in Nat BY DEF Filters
<1>3. CASE ~Keeps(all[n])
  <2>1. \A k \in 1 .. Len(part) : Keeps(part[k]) /\ \E j \in 1 .. n : part[k] = all[j]
      BY <1>1 DEF Filters
  <2>2. \A j \in 1 .. n : Keeps(all[j]) => j \in 1 .. n - 1 BY <1>1, <1>3
  <2> QED BY <2>1, <2>2, <1>2, <1>3 DEF Filters
<1>4. CASE Keeps(all[n])
  <2> DEFINE new == Append(part, all[n])
  <2>1. /\ new \in Seq(Entry) /\ Len(new) = Len(part) + 1
        /\ \A k \in 1 .. Len(part) : new[k] = part[k]
        /\ new[Len(part) + 1] = all[n]
      BY <1>1, <1>2
  <2> HIDE DEF new
  <2>2. \A k \in 1 .. Len(new) : k \in 1 .. Len(part) \/ k = Len(part) + 1 BY <2>1, <1>2
  <2>3. ASSUME NEW k \in 1 .. Len(new)
        PROVE  Keeps(new[k]) /\ \E j \in 1 .. n : new[k] = all[j]
    <3>1. CASE k \in 1 .. Len(part)
      <4>1. Keeps(part[k]) /\ \E j \in 1 .. n - 1 : part[k] = all[j] BY <3>1 DEF Filters
      <4> QED BY <4>1, <3>1, <2>1, <1>1
    <3>2. CASE k = Len(part) + 1 BY <3>2, <2>1, <1>1, <1>4
    <3> QED BY <3>1, <3>2, <2>2
  <2>4. ASSUME NEW j \in 1 .. n, Keeps(all[j])
        PROVE  \E k \in 1 .. Len(new) : new[k] = all[j]
    <3>1. CASE j = n
      <4>1. Len(part) + 1 \in 1 .. Len(new) BY <2>1, <1>2
      <4> QED BY <4>1, <3>1, <2>1
    <3>2. CASE j # n
      <4>1. j \in 1 .. n - 1 BY <3>2, <1>1
      <4>2. PICK k \in 1 .. Len(part) : part[k] = all[j] BY <4>1, <2>4 DEF Filters
      <4>3. k \in 1 .. Len(new) BY <2>1, <1>2
      <4> QED BY <4>2, <4>3, <2>1
    <3> QED BY <3>1, <3>2
  <2>5. ASSUME Rising(all) PROVE Rising(new)
    <3> SUFFICES ASSUME NEW i \in 1 .. Len(new), NEW j \in 1 .. Len(new), i < j
                 PROVE  new[i].address < new[j].address
        BY DEF Rising
    <3>1. i \in 1 .. Len(part) BY <2>1, <1>2
    <3>2. CASE j \in 1 .. Len(part)
      <4>1. Rising(part) BY <2>5 DEF Filters
      <4> QED BY <4>1, <3>1, <3>2, <2>1 DEF Rising
    <3>3. CASE j = Len(part) + 1
      <4>1. PICK m \in 1 .. n - 1 : part[i] = all[m] BY <3>1 DEF Filters
      <4>2. all[m].address < all[n].address BY <4>1, <1>1, <2>5 DEF Rising
      <4> QED BY <4>1, <4>2, <3>1, <3>3, <2>1
    <3> QED BY <3>2, <3>3, <2>2
  <2>6. Filters(all, n, new) BY <2>1, <2>3, <2>4, <2>5 DEF Filters
  <2> QED BY <2>6, <1>4 DEF new
<1> QED BY <1>3, <1>4

\* What is kept is just what is data and not newer than the walk, in order.
LEMMA KeptFilters ==
    ASSUME NEW all \in Seq(Entry)
    PROVE  Filters(all, Len(all), Kept(all))
<1>1. Len(all) \in Nat OBVIOUS
<1>2. PICK f : KeptOf(all, Len(all), f) /\ Kept(all) = f[Len(all)] BY <1>1, KeptIs
<1>3. \A i \in 0 .. Len(all) :
         f[i] = IF i = 0 THEN <<>>
                ELSE IF Keeps(all[i]) THEN Append(f[i - 1], all[i]) ELSE f[i - 1]
    BY <1>2 DEF KeptOf
<1> DEFINE T == {n \in 0 .. Len(all) : ~Filters(all, n, f[n])}
<1>4. SUFFICES ASSUME T # {} PROVE FALSE
  <2>1. Len(all) \in 0 .. Len(all) BY <1>1
  <2> QED BY <2>1, <1>2, <1>4
<1>5. PICK n \in T : \A m \in T : n <= m
  <2>1. T \in SUBSET Nat BY <1>1
  <2> HIDE DEF T
  <2> QED BY <2>1, <1>4, LeastNumber
<1>6. n \in 0 .. Len(all) OBVIOUS
<1>7. n # 0
  <2>1. f[0] = <<>> BY <1>1, <1>3
  <2>2. Filters(all, 0, <<>>) BY DEF Filters, Rising
  <2> QED BY <2>1, <2>2, <1>5
<1>8. n \in 1 .. Len(all) /\ n - 1 \in 0 .. Len(all) BY <1>1, <1>6, <1>7
<1>9. Filters(all, n - 1, f[n - 1]) BY <1>1, <1>5, <1>8
<1>10. f[n] = IF Keeps(all[n]) THEN Append(f[n - 1], all[n]) ELSE f[n - 1] BY <1>3, <1>6, <1>7
<1>11. Filters(all, n, f[n]) BY <1>8, <1>9, <1>10, FiltersOne
<1> QED BY <1>5, <1>11

-----------------------------------------------------------------------------
(* The kinds of values, and what holds by where the walk is.               *)

Types ==
    /\ tree \in [Address -> Extent \union {Free}]
    /\ gen \in Nat /\ running \in BOOLEAN /\ generation \in Nat
    /\ next \in Address \union {None}
    /\ last \in Address \X Int
    /\ used \in Nat /\ slipped \in BOOLEAN
    /\ tallies \in Seq(Entry) /\ batch \in Seq(Entry)
    /\ met \subseteq Address /\ steady \subseteq Address

\* Before the generation is known nothing has been read.  A batch is read once
\* the last is used up, and resolved before any of it is handed over.
Early   == {"walk", "generation"}
PhaseOK ==
    /\ pc \in Early => tallies = <<>> /\ batch = <<>> /\ met = {} /\ steady = {}
    /\ pc = "search" => batch = <<>> /\ next # None
    /\ pc # "resolve" => resolving = {}
    /\ result = "ok" => pc = "done" /\ batch = <<>> /\ next = None

Basic == Types /\ PhaseOK

LEMMA TreeFacts ==
    ASSUME Types, NEW a \in Address
    PROVE  /\ tree[a].gen \in Nat /\ tree[a].own \in BOOLEAN /\ tree[a].data \in BOOLEAN
           /\ tree[a].items \in 0 .. MaxItems
           /\ tree[a].data => tree[a].items >= 1 /\ tree[a] # Free
<1>1. tree[a] \in Extent \union {Free} BY DEF Types
<1>2. MaxItems \in Nat BY WalkAssumption
<1>3. CASE tree[a] \in Extent BY <1>2, <1>3 DEF Extent, Free
<1>4. CASE tree[a] = Free BY <1>2, <1>4 DEF Free
<1> QED BY <1>1, <1>3, <1>4

\* A tally keeps its address, and has from the extent item what that says.
LEMMA TalliedFacts ==
    ASSUME Types, NEW a \in Address, NEW t \in Entry, NEW i
    PROVE  /\ Tallied(a, t, i) \in Entry
           /\ Tallied(a, t, i).address = t.address
           /\ i = 0 /\ tree[a].data => /\ Tallied(a, t, i).gen = tree[a].gen
                                       /\ Tallied(a, t, i).own = tree[a].own
           /\ ~(i = 0 /\ tree[a].data) => Tallied(a, t, i) = t
<1>1. tree[a].gen \in Int /\ tree[a].own \in BOOLEAN BY TreeFacts
<1>2. CASE i = 0 /\ tree[a].data
  <2>1. Tallied(a, t, i) = [t EXCEPT !.gen = tree[a].gen, !.own = tree[a].own]
      BY <1>2 DEF Tallied
  <2> QED BY <2>1, <1>1, <1>2 DEF Entry
<1>3. CASE ~(i = 0 /\ tree[a].data) BY <1>3 DEF Tallied
<1> QED BY <1>2, <1>3

LEMMA BlankEntry == \A a \in Address : Blank(a) \in Entry /\ Blank(a).address = a
BY DEF Blank, Entry, None

\* One more item of the search goes to the extent at hand or begins another.
LEMMA ReadTallies ==
    ASSUME Types, ReadItem
    PROVE  \E k \in After(last) :
             /\ IsFirst(k, After(last)) /\ last' = k
             /\ tallies' \in Seq(Entry)
             /\ \/ k[2] = MaxItems /\ tallies' = tallies
                \/ /\ k[2] # MaxItems /\ Len(tallies) # 0 /\ tallies[Len(tallies)].address = k[1]
                   /\ Len(tallies') = Len(tallies)
                   /\ tallies'[Len(tallies)] = Tallied(k[1], tallies[Len(tallies)], k[2])
                   /\ \A n \in 1 .. Len(tallies) : n # Len(tallies) => tallies'[n] = tallies[n]
                \/ /\ k[2] # MaxItems
                   /\ Len(tallies) # 0 => tallies[Len(tallies)].address # k[1]
                   /\ Len(tallies') = Len(tallies) + 1
                   /\ tallies'[Len(tallies) + 1] = Tallied(k[1], Blank(k[1]), k[2])
                   /\ \A n \in 1 .. Len(tallies) : tallies'[n] = tallies[n]
<1>1. PICK k \in After(last) :
         /\ IsFirst(k, After(last)) /\ last' = k
         /\ tallies' =
              IF k[2] = MaxItems THEN tallies
              ELSE IF tallies # <<>> /\ tallies[Len(tallies)].address = k[1]
                THEN [tallies EXCEPT ![Len(tallies)] = Tallied(k[1], tallies[Len(tallies)], k[2])]
                ELSE Append(tallies, Tallied(k[1], Blank(k[1]), k[2]))
    BY DEF ReadItem
<1>2. k[1] \in Address BY DEF After
<1>3. tallies \in Seq(Entry) /\ Len(tallies) \in Nat BY DEF Types
<1>4. CASE k[2] = MaxItems BY <1>1, <1>3, <1>4
<1>5. CASE k[2] # MaxItems /\ tallies # <<>> /\ tallies[Len(tallies)].address = k[1]
  <2> DEFINE t == Tallied(k[1], tallies[Len(tallies)], k[2])
  <2>1. Len(tallies) # 0 /\ Len(tallies) \in 1 .. Len(tallies) BY <1>3, <1>5
  <2>2. tallies[Len(tallies)] \in Entry BY <2>1, <1>3
  <2>3. t \in Entry BY <2>2, <1>2, TalliedFacts
  <2>4. tallies' = [tallies EXCEPT ![Len(tallies)] = t] BY <1>1, <1>5
  <2> HIDE DEF t
  <2>5. /\ tallies' \in Seq(Entry) /\ Len(tallies') = Len(tallies) /\ tallies'[Len(tallies)] = t
        /\ \A n \in 1 .. Len(tallies) : n # Len(tallies) => tallies'[n] = tallies[n]
      BY <2>1, <2>3, <2>4, <1>3
  <2> QED BY <2>1, <2>5, <1>1, <1>5 DEF t
<1>6. CASE k[2] # MaxItems /\ ~(tallies # <<>> /\ tallies[Len(tallies)].address = k[1])
  <2> DEFINE t == Tallied(k[1], Blank(k[1]), k[2])
  <2>1. t \in Entry BY <1>2, BlankEntry, TalliedFacts
  <2>2. tallies' = Append(tallies, t) BY <1>1, <1>6
  <2> HIDE DEF t
  <2>3. /\ tallies' \in Seq(Entry) /\ Len(tallies') = Len(tallies) + 1
        /\ tallies'[Len(tallies) + 1] = t
        /\ \A n \in 1 .. Len(tallies) : tallies'[n] = tallies[n]
      BY <2>1, <2>2, <1>3
  <2> QED BY <2>3, <1>1, <1>6 DEF t
<1> QED BY <1>4, <1>5, <1>6

\* The extent reached last is read again, on its own.
LEMMA RereadFacts ==
    ASSUME Types
    PROVE  /\ Reread \in Seq(Entry)
           /\ Popped \in Seq(Entry)
           /\ Len(Popped) <= Len(tallies)
           /\ \A n \in 1 .. Len(Popped) : Popped[n] = tallies[n]
           /\ Len(Popped) < Len(tallies) =>
                /\ Len(tallies) = Len(Popped) + 1
                /\ tallies[Len(tallies)].address = last[1]
           /\ Len(Popped) = Len(tallies) /\ Len(tallies) # 0 =>
                tallies[Len(tallies)].address # last[1]
           /\ Len(Reread) = Len(Popped) + 1
           /\ \A n \in 1 .. Len(Popped) : Reread[n] = Popped[n]
           /\ Reread[Len(Popped) + 1] = Tallied(last[1], Blank(last[1]), 0)
<1>1. tallies \in Seq(Entry) /\ Len(tallies) \in Nat /\ last[1] \in Address BY DEF Types
<1>2. /\ Popped \in Seq(Entry) /\ Len(Popped) <= Len(tallies)
      /\ \A n \in 1 .. Len(Popped) : Popped[n] = tallies[n]
      /\ Len(Popped) < Len(tallies) =>
           /\ Len(tallies) = Len(Popped) + 1
           /\ tallies[Len(tallies)].address = last[1]
      /\ Len(Popped) = Len(tallies) /\ Len(tallies) # 0 =>
           tallies[Len(tallies)].address # last[1]
  <2>1. CASE tallies # <<>> /\ tallies[Len(tallies)].address = last[1]
    <3>1. Popped = SubSeq(tallies, 1, Len(tallies) - 1) BY <2>1 DEF Popped
    <3>2. Len(tallies) # 0 BY <2>1, <1>1
    <3> DEFINE m == Len(tallies) - 1
    <3>3. m \in Nat /\ \A i \in 1 .. m : tallies[i] \in Entry BY <3>2, <1>1
    <3>4. /\ Popped \in Seq(Entry) /\ Len(Popped) = m
          /\ \A i \in 1 .. m : Popped[i] = tallies[i]
      <4>0. Popped = SubSeq(tallies, 1, m) BY <3>1
      <4> HIDE DEF m
      <4>1. /\ SubSeq(tallies, 1, m) \in Seq(Entry)
            /\ Len(SubSeq(tallies, 1, m)) = IF 1 <= m THEN m - 1 + 1 ELSE 0
            /\ \A i \in 1 .. m - 1 + 1 : SubSeq(tallies, 1, m)[i] = tallies[1 + i - 1]
          BY <3>3, SubSeqProperties
      <4>2. m - 1 + 1 = m /\ \A i \in 1 .. m : 1 + i - 1 = i BY <3>3
      <4> QED BY <4>0, <4>1, <4>2, <3>3
    <3>5. \A n \in 1 .. Len(Popped) : Popped[n] = tallies[n] BY <3>4
    <3> QED BY <3>2, <3>3, <3>4, <3>5, <2>1, <1>1
  <2>2. CASE ~(tallies # <<>> /\ tallies[Len(tallies)].address = last[1])
    <3>1. Popped = tallies BY <2>2 DEF Popped
    <3> QED BY <3>1, <2>2, <1>1
  <2> QED BY <2>1, <2>2
<1>3. Tallied(last[1], Blank(last[1]), 0) \in Entry BY <1>1, BlankEntry, TalliedFacts
<1> DEFINE t == Tallied(last[1], Blank(last[1]), 0)
<1>4. Reread = Append(Popped, t) BY DEF Reread
<1> HIDE DEF t
<1>5. t \in Entry BY <1>3 DEF t
<1>6. /\ Reread \in Seq(Entry) /\ Len(Reread) = Len(Popped) + 1
      /\ \A n \in 1 .. Len(Popped) : Reread[n] = Popped[n]
      /\ Reread[Len(Popped) + 1] = t
    BY <1>2, <1>4, <1>5
<1> QED BY <1>2, <1>6 DEF t

-----------------------------------------------------------------------------
LEMMA InitBasic == Init => Basic
<1> SUFFICES ASSUME Init PROVE Basic OBVIOUS
<1>1. PICK s \in Starts : tree = s.tree /\ gen = s.gen /\ running = s.running BY DEF Init
<1>2. 0 \in Address BY WalkAssumption DEF Address
<1>3. tree \in [Address -> Extent \union {Free}] /\ gen \in Nat /\ running \in BOOLEAN
    BY <1>1, WalkAssumption
<1>4. Types
  <2>1. tallies \in Seq(Entry) /\ batch \in Seq(Entry) BY DEF Init
  <2>2. last \in Address \X Int BY <1>2 DEF Init
  <2>3. next \in Address \union {None} /\ generation \in Nat BY DEF Init
  <2> QED BY <2>1, <2>2, <2>3, <1>3 DEF Init, Types
<1>5. PhaseOK BY DEF Init, PhaseOK, Early
<1> QED BY <1>4, <1>5 DEF Basic

\* A batch is resolved, unless there is nothing in it.
LEMMA ResolveFacts ==
    ASSUME NEW all \in Seq(Entry), Resolve(all)
    PROVE  /\ batch' = all /\ pc' \in {"next", "resolve"}
           /\ pc' # "resolve" => resolving' = {} /\ all = <<>>
<1>1. all = <<>> => {t.address : t \in Range(all)} = {} BY DEF Range
<1> QED BY <1>1 DEF Resolve

\* A step that leaves the tree alone, or changes it as a transaction does.
TreeKept == UNCHANGED fs
TreeSet  == /\ gen' = Current /\ running' = TRUE
            /\ tree' \in [Address -> Extent \union {Free}]

LEMMA TreeTypes ==
    ASSUME Types, TreeKept \/ TreeSet
    PROVE  /\ tree' \in [Address -> Extent \union {Free}]
           /\ gen' \in Nat /\ running' \in BOOLEAN
<1>1. CASE TreeKept BY <1>1 DEF Types, TreeKept, fs
<1>2. CASE TreeSet
  <2>1. Current \in Nat BY DEF Types, Current
  <2> QED BY <1>2, <2>1 DEF TreeSet
<1> QED BY <1>1, <1>2

\* An extent as it is allocated.
LEMMA NewExtent ==
    ASSUME Types, NEW n \in 1 .. MaxItems, NEW own \in BOOLEAN
    PROVE  [gen |-> Current, data |-> TRUE, items |-> n, own |-> own] \in Extent
BY DEF Types, Current, Extent

LEMMA RewriteFacts ==
    ASSUME Types, NEW a \in Address, Rewrite(a)
    PROVE  /\ TreeSet /\ tree[a] = Free
           /\ steady' = steady \ {Max(met)}
           /\ \A b \in Address :
                \/ tree'[b] = tree[b] /\ b # Max(met)
                \/ tree'[b] = Free /\ b = Max(met)
                \/ b = a /\ tree'[b] = [gen |-> Current, data |-> TRUE, items |-> 1, own |-> TRUE]
<1> DEFINE e == [gen |-> Current, data |-> TRUE, items |-> 1, own |-> TRUE]
           x == Max(met)
<1>1. 1 \in 1 .. MaxItems BY WalkAssumption
<1>2. e \in Extent BY <1>1, NewExtent
<1>3. /\ tree' = [tree EXCEPT ![a] = e, ![x] = Free]
      /\ gen' = Current /\ running' = TRUE /\ tree[a] = Free /\ steady' = steady \ {x}
    BY DEF Rewrite, Change
<1>4. tree \in [Address -> Extent \union {Free}] BY DEF Types
<1> HIDE DEF e, x
<1>5. tree' \in [Address -> Extent \union {Free}] BY <1>2, <1>3, <1>4
<1>6. ASSUME NEW b \in Address
      PROVE  \/ tree'[b] = tree[b] /\ b # x
             \/ tree'[b] = Free /\ b = x
             \/ b = a /\ tree'[b] = e
  <2>1. CASE b = x BY <2>1, <1>3, <1>4
  <2>2. CASE b # x /\ b = a BY <2>2, <1>3, <1>4
  <2>3. CASE b # x /\ b # a BY <2>3, <1>3, <1>4
  <2> QED BY <2>1, <2>2, <2>3
<1> QED BY <1>3, <1>5, <1>6 DEF TreeSet, e, x

\* What users do to the tree.
LEMMA UserFacts ==
    ASSUME Types, Users
    PROVE  /\ UNCHANGED <<rewrites, pc, generation, next, last, used, tallies, batch, resolving,
                          met, result>>
           /\ tree' \in [Address -> Extent \union {Free}]
           /\ gen' \in Nat /\ running' \in BOOLEAN
           /\ steady' \subseteq steady
           /\ \/ tree' = tree /\ gen' = gen /\ running /\ ~running' /\ steady' = steady
                 /\ slipped' = slipped
              \/ /\ gen' = Current /\ running'
                 /\ slipped' = (slipped \/ pc = "generation")
                 /\ \A b \in Address :
                      \/ /\ tree'[b].gen = tree[b].gen /\ tree'[b].own = tree[b].own
                         /\ tree'[b].data = tree[b].data
                      \/ tree'[b] = Free /\ b \notin steady'
                      \/ /\ tree[b] = Free
                         /\ tree'[b].gen = Current /\ ~tree'[b].own
<1> USE DEF User
<1>1. tree \in [Address -> Extent \union {Free}] /\ gen \in Nat /\ Current \in Nat
    BY DEF Types, Current
<1>2. CASE UserBegin
  <2>1. /\ ~running /\ running' = TRUE /\ gen' = gen + 1 /\ tree' = tree /\ steady' = steady
      BY <1>2 DEF UserBegin
  <2>2. slipped' = (slipped \/ pc = "generation") BY <1>2 DEF UserBegin
  <2>3. gen' = Current BY <2>1 DEF Current
  <2> QED BY <2>1, <2>2, <2>3, <1>1, <1>2 DEF UserBegin
<1>3. CASE UserCommit
  <2>1. slipped' = slipped BY <1>3 DEF UserCommit, Types
  <2> QED BY <2>1, <1>1, <1>3 DEF UserCommit
<1>4. ASSUME NEW a \in Address, UserFree(a)
      PROVE  /\ tree' = [tree EXCEPT ![a] = Free] /\ gen' = Current /\ running' = TRUE
             /\ steady' = steady \ {a} /\ slipped' = (slipped \/ pc = "generation")
    BY <1>4 DEF UserFree, Change
<1>5. ASSUME NEW a \in Address, UserFree(a)
      PROVE  /\ tree' \in [Address -> Extent \union {Free}]
             /\ \A b \in Address : tree'[b] = tree[b] \/ (tree'[b] = Free /\ b \notin steady')
    BY <1>1, <1>4, <1>5
<1>6. ASSUME NEW a \in Address, NEW n \in 1 .. MaxItems, UserAllocate(a, n)
      PROVE  /\ tree' \in [Address -> Extent \union {Free}] /\ gen' = Current /\ running' = TRUE
             /\ steady' = steady /\ slipped' = (slipped \/ pc = "generation")
             /\ \A b \in Address :
                  \/ tree'[b] = tree[b]
                  \/ tree[b] = Free /\ tree'[b].gen = Current /\ ~tree'[b].own
  <2> DEFINE e == [gen |-> Current, data |-> TRUE, items |-> n, own |-> FALSE]
  <2>1. e \in Extent /\ e.gen = Current /\ ~e.own BY NewExtent
  <2>2. /\ tree' = [tree EXCEPT ![a] = e] /\ gen' = Current /\ running' = TRUE /\ tree[a] = Free
        /\ steady' = steady /\ slipped' = (slipped \/ pc = "generation")
      BY <1>6 DEF UserAllocate, Change
  <2> HIDE DEF e
  <2> QED BY <2>1, <2>2, <1>1
<1>7. ASSUME NEW a \in Address, NEW n \in 1 .. MaxItems, UserRefs(a, n)
      PROVE  /\ tree' \in [Address -> Extent \union {Free}] /\ gen' = Current /\ running' = TRUE
             /\ steady' = steady /\ slipped' = (slipped \/ pc = "generation")
             /\ \A b \in Address : /\ tree'[b].gen = tree[b].gen /\ tree'[b].own = tree[b].own
                                    /\ tree'[b].data = tree[b].data
  <2>1. /\ tree' = [tree EXCEPT ![a].items = n] /\ gen' = Current /\ running' = TRUE
        /\ tree[a] # Free
        /\ steady' = steady /\ slipped' = (slipped \/ pc = "generation")
      BY <1>7 DEF UserRefs, Change
  <2>2. tree[a] \in Extent BY <2>1, <1>1
  <2> DEFINE e == [tree[a] EXCEPT !.items = n]
  <2>3. e \in Extent /\ e.gen = tree[a].gen /\ e.own = tree[a].own /\ e.data = tree[a].data
      BY <2>2 DEF Extent
  <2>4. tree' = [tree EXCEPT ![a] = e] BY <2>1, <1>1
  <2> HIDE DEF e
  <2> QED BY <2>1, <2>3, <2>4, <1>1
<1>8. CASE \E a \in Address : UserFree(a)
  <2>1. PICK a \in Address : UserFree(a) BY <1>8
  <2> QED BY <2>1, <1>1, <1>4, <1>5 DEF UserFree
<1>9. CASE \E a \in Address, n \in 1 .. MaxItems : UserAllocate(a, n)
  <2>1. PICK a \in Address, n \in 1 .. MaxItems : UserAllocate(a, n) BY <1>9
  <2> QED BY <2>1, <1>1, <1>6 DEF UserAllocate
<1>10. CASE \E a \in Address, n \in 1 .. MaxItems : UserRefs(a, n)
  <2>1. PICK a \in Address, n \in 1 .. MaxItems : UserRefs(a, n) BY <1>10
  <2> QED BY <2>1, <1>1, <1>7 DEF UserRefs
<1> QED BY <1>2, <1>3, <1>8, <1>9, <1>10 DEF Users

LEMMA NextBasic == Basic /\ [Next]_vars => Basic'
<1> SUFFICES ASSUME Types, PhaseOK, [Next]_vars PROVE Types' /\ PhaseOK' BY DEF Basic
<1> USE DEF PhaseOK, Early
<1>1. CASE UNCHANGED vars BY <1>1 DEF vars, fs, users, Types
<1>2. CASE Sync BY <1>2 DEF Sync, users, Types
<1>3. CASE ReadGeneration
  <2>1. 0 \in Address BY WalkAssumption DEF Address
  <2> QED BY <1>3, <2>1 DEF ReadGeneration, fs, users, Types
<1>4. CASE BeginBatch BY <1>4 DEF BeginBatch, fs, users, Types, None
<1>5. CASE ReadItem
  <2>1. PICK k \in After(last) : last' = k /\ tallies' \in Seq(Entry) BY <1>5, ReadTallies
  <2>2. last' \in Address \X Int BY <2>1, WalkAssumption DEF After
  <2>3. /\ pc = "search" /\ used' = used + 1
        /\ UNCHANGED <<fs, users, rewrites, pc, generation, next, batch, resolving, met, result,
                       steady>>
      BY <1>5 DEF ReadItem
  <2> QED BY <2>1, <2>2, <2>3 DEF fs, users, Types
<1>6. CASE EndOfTree
  <2>1. Kept(tallies) \in Seq(Entry) BY KeptFilters DEF Types, Filters
  <2>2. /\ batch' \in Seq(Entry) /\ pc' \in {"next", "resolve"}
        /\ pc' # "resolve" => resolving' = {}
      BY <1>6, <2>1, ResolveFacts DEF EndOfTree
  <2>3. /\ next' = None /\ pc = "search"
        /\ UNCHANGED <<fs, users, rewrites, generation, last, used, tallies, met, result, steady>>
      BY <1>6 DEF EndOfTree
  <2> QED BY <2>2, <2>3 DEF fs, users, Types
<1>7. CASE OutOfRoom
  <2>1. Kept(Reread) \in Seq(Entry) BY RereadFacts, KeptFilters DEF Filters
  <2>2. /\ batch' \in Seq(Entry) /\ pc' \in {"next", "resolve"}
        /\ pc' # "resolve" => resolving' = {}
      BY <1>7, <2>1, ResolveFacts DEF OutOfRoom
  <2>3. /\ next' = NextAddress /\ pc = "search"
        /\ UNCHANGED <<fs, users, rewrites, generation, last, used, tallies, met, result, steady>>
      BY <1>7 DEF OutOfRoom
  <2>4. NextAddress \in Address \union {None} BY WalkAssumption DEF Types, NextAddress, Address
  <2> QED BY <2>2, <2>3, <2>4 DEF fs, users, Types
<1>8. CASE Fault BY <1>8 DEF Fault, fs, users, Types
<1>9. CASE \E a \in Address : Resolved(a) BY <1>9 DEF Resolved, fs, users, Types
<1>10. CASE HandOver
  <2>1. Head(batch) \in Entry /\ Tail(batch) \in Seq(Entry)
      BY <1>10, HeadTailProperties DEF HandOver, Types
  <2>2. Head(batch).address \in Address BY <2>1 DEF Entry
  <2> QED BY <1>10, <2>1, <2>2 DEF HandOver, fs, users, Types
<1>11. CASE PassOver BY <1>11 DEF PassOver, fs, users, Types
<1>12. CASE \E a \in Address : Rewrite(a)
  <2>1. PICK a \in Address : Rewrite(a) BY <1>12
  <2>2. /\ tree' \in [Address -> Extent \union {Free}] /\ gen' \in Nat /\ running' \in BOOLEAN
        /\ steady' \subseteq steady
      BY <2>1, RewriteFacts, TreeTypes
  <2> QED BY <2>1, <2>2 DEF Rewrite, users, Types
<1>13. CASE End BY <1>13 DEF End, fs, users, Types
<1>14. CASE Users
  <2>1. slipped' \in BOOLEAN BY <1>14, UserFacts DEF Types
  <2> QED BY <1>14, <2>1, UserFacts DEF Types
<1> QED BY <1>1, <1>2, <1>3, <1>4, <1>5, <1>6, <1>7, <1>8, <1>9, <1>10, <1>11, <1>12, <1>13,
           <1>14 DEF Next, Tool, Done

-----------------------------------------------------------------------------
(* The order of the walk.                                                  *)

\* What has been read lies in order between where the search began and where it
\* has come to; what has been met lies before what is to be met, and that before
\* where the next search begins.
ReadOK  == pc = "search" =>
             /\ Rising(tallies)
             /\ next <= last[1]
             /\ \A n \in 1 .. Len(tallies) :
                  next <= tallies[n].address /\ tallies[n].address <= last[1]
OrderOK == /\ Rising(batch)
           /\ \A a \in met, n \in 1 .. Len(batch) : a < batch[n].address
           /\ next # None => /\ \A a \in met : a < next
                             /\ \A n \in 1 .. Len(batch) : batch[n].address < next
Ordered == ReadOK /\ OrderOK

\* What is kept of a reading in order is in order.
LEMMA KeptOrdered ==
    ASSUME NEW all \in Seq(Entry), Rising(all), NEW low \in Int, NEW high \in Int,
           \A n \in 1 .. Len(all) : low <= all[n].address /\ all[n].address <= high
    PROVE  /\ Rising(Kept(all))
           /\ \A n \in 1 .. Len(Kept(all)) :
                low <= Kept(all)[n].address /\ Kept(all)[n].address <= high
BY KeptFilters DEF Filters

LEMMA AddressInt == Address \subseteq Int /\ MaxAddress \in Int
BY WalkAssumption DEF Address

LEMMA EntryFacts ==
    ASSUME NEW s \in Seq(Entry), NEW n \in 1 .. Len(s)
    PROVE  s[n] \in Entry /\ s[n].address \in Address /\ s[n].address \in Int /\ s[n].gen \in Int
<1>1. s[n] \in Entry OBVIOUS
<1>2. s[n].address \in Address /\ s[n].gen \in Int BY <1>1 DEF Entry
<1> QED BY <1>1, <1>2, AddressInt

\* The items after a key.
LEMMA AfterFacts ==
    ASSUME NEW from, NEW k \in After(from)
    PROVE  /\ k[1] \in Address /\ k[1] \in Int /\ k[2] \in Int /\ k[2] \in ItemsAt(k[1])
           /\ k[1] > from[1] \/ (k[1] = from[1] /\ k[2] > from[2])
<1>1. k \in Address \X (0 .. MaxItems) BY DEF After
<1>2. k[2] \in ItemsAt(k[1]) /\ (k[1] > from[1] \/ (k[1] = from[1] /\ k[2] > from[2]))
    BY DEF After
<1>3. k[1] \in Address /\ k[2] \in Int BY <1>1, WalkAssumption
<1> QED BY <1>2, <1>3, AddressInt

\* The reread of the extent reached last leaves the reading in order.
LEMMA RereadOrdered ==
    ASSUME Types, ReadOK, pc = "search", next # None
    PROVE  /\ Rising(Reread)
           /\ \A n \in 1 .. Len(Reread) :
                next <= Reread[n].address /\ Reread[n].address <= last[1]
<1>1. last[1] \in Int /\ next \in Int BY AddressInt DEF Types, None
<1>2. tallies \in Seq(Entry) /\ Len(tallies) \in Nat BY DEF Types
<1>3. \A n \in 1 .. Len(tallies) : tallies[n].address \in Int BY <1>2, EntryFacts
<1>4. Popped \in Seq(Entry) /\ Len(Popped) \in Nat /\ Len(Popped) <= Len(tallies)
    BY RereadFacts
<1>5. Reread[Len(Popped) + 1].address = last[1]
  <2>1. last[1] \in Address BY DEF Types
  <2> QED BY <2>1, RereadFacts, BlankEntry, TalliedFacts
<1>6. ASSUME NEW n \in 1 .. Len(Popped)
      PROVE  Reread[n] = tallies[n] /\ n \in 1 .. Len(tallies) /\ tallies[n].address < last[1]
  <2>1. Reread[n] = tallies[n] /\ n \in 1 .. Len(tallies) BY <1>2, <1>4, RereadFacts
  <2>2. tallies[n].address <= last[1] BY <2>1 DEF ReadOK
  <2>3. tallies[n].address # last[1]
    <3>1. CASE Len(Popped) < Len(tallies)
      <4>1. Len(tallies) = Len(Popped) + 1 /\ tallies[Len(tallies)].address = last[1]
          BY <3>1, RereadFacts
      <4>2. n < Len(tallies) /\ Len(tallies) \in 1 .. Len(tallies) BY <4>1, <1>2, <1>4
      <4>3. tallies[n].address < tallies[Len(tallies)].address
          BY <4>2, <2>1 DEF ReadOK, Rising
      <4> QED BY <4>1, <4>3, <1>1, <1>3, <2>1
    <3>2. CASE Len(Popped) = Len(tallies)
      <4>1. Len(tallies) # 0 /\ tallies[Len(tallies)].address # last[1]
          BY <3>2, <1>2, RereadFacts
      <4>2. Len(tallies) \in 1 .. Len(tallies) BY <4>1, <1>2
      <4>3. tallies[Len(tallies)].address < last[1] BY <4>1, <4>2, <1>1, <1>3 DEF ReadOK
      <4>4. n = Len(tallies) \/ tallies[n].address < tallies[Len(tallies)].address
          BY <4>2, <2>1, <1>2 DEF ReadOK, Rising
      <4> QED BY <4>3, <4>4, <1>1, <1>3, <2>1, <4>2
    <3> QED BY <3>1, <3>2, <1>2, <1>4
  <2> QED BY <2>1, <2>2, <2>3, <1>1, <1>3
<1>7. Len(Reread) = Len(Popped) + 1 BY RereadFacts
<1>8. ASSUME NEW i \in 1 .. Len(Reread), NEW j \in 1 .. Len(Reread), i < j
      PROVE  Reread[i].address < Reread[j].address
  <2>1. i \in 1 .. Len(Popped) BY <1>4, <1>7, <1>8
  <2>2. CASE j = Len(Popped) + 1 BY <2>1, <2>2, <1>5, <1>6
  <2>3. CASE j # Len(Popped) + 1
    <3>1. j \in 1 .. Len(Popped) BY <2>3, <1>4, <1>7
    <3> QED BY <3>1, <2>1, <1>6, <1>8 DEF ReadOK, Rising
  <2> QED BY <2>2, <2>3
<1>9. ASSUME NEW n \in 1 .. Len(Reread)
      PROVE  next <= Reread[n].address /\ Reread[n].address <= last[1]
  <2>1. CASE n = Len(Popped) + 1 BY <2>1, <1>1, <1>5 DEF ReadOK
  <2>2. CASE n # Len(Popped) + 1
    <3>1. n \in 1 .. Len(Popped) BY <2>2, <1>4, <1>7
    <3> QED BY <3>1, <1>6 DEF ReadOK
  <2> QED BY <2>1, <2>2
<1> QED BY <1>8, <1>9 DEF Rising

LEMMA InitOrdered == Init => Ordered
BY DEF Init, Ordered, ReadOK, OrderOK, Rising

\* One more item leaves the reading in order.
LEMMA ReadOrdered ==
    ASSUME Basic, Ordered, ReadItem
    PROVE  ReadOK'
<1>0. Types /\ pc = "search" /\ next # None /\ UNCHANGED <<pc, next>>
    BY DEF Basic, PhaseOK, ReadItem
<1>1. last[1] \in Int /\ last[2] \in Int /\ next \in Int BY <1>0, AddressInt DEF Types, None
<1>2. tallies \in Seq(Entry) /\ Len(tallies) \in Nat BY <1>0 DEF Types
<1>3. \A n \in 1 .. Len(tallies) : tallies[n].address \in Int BY <1>2, EntryFacts
<1>4. /\ Rising(tallies) /\ next <= last[1]
      /\ \A n \in 1 .. Len(tallies) :
           next <= tallies[n].address /\ tallies[n].address <= last[1]
    BY <1>0 DEF Ordered, ReadOK
<1>5. PICK k \in After(last) :
         /\ last' = k
         /\ tallies' \in Seq(Entry)
         /\ \/ k[2] = MaxItems /\ tallies' = tallies
            \/ /\ k[2] # MaxItems /\ Len(tallies) # 0 /\ tallies[Len(tallies)].address = k[1]
               /\ Len(tallies') = Len(tallies)
               /\ tallies'[Len(tallies)] = Tallied(k[1], tallies[Len(tallies)], k[2])
               /\ \A n \in 1 .. Len(tallies) : n # Len(tallies) => tallies'[n] = tallies[n]
            \/ /\ k[2] # MaxItems
               /\ Len(tallies) # 0 => tallies[Len(tallies)].address # k[1]
               /\ Len(tallies') = Len(tallies) + 1
               /\ tallies'[Len(tallies) + 1] = Tallied(k[1], Blank(k[1]), k[2])
               /\ \A n \in 1 .. Len(tallies) : tallies'[n] = tallies[n]
    BY <1>0, ReadTallies
<1>6. k[1] \in Address /\ k[1] \in Int /\ k[1] >= last[1] BY <1>1, <1>5, AfterFacts
<1>7. last'[1] = k[1] BY <1>5
<1>8. \A n \in 1 .. Len(tallies) : next <= tallies[n].address /\ tallies[n].address <= k[1]
    BY <1>1, <1>3, <1>4, <1>6
<1>9. CASE tallies' = tallies BY <1>0, <1>1, <1>4, <1>6, <1>7, <1>8, <1>9 DEF ReadOK, Rising
<1>10. CASE /\ Len(tallies) # 0 /\ tallies[Len(tallies)].address = k[1]
            /\ Len(tallies') = Len(tallies)
            /\ tallies'[Len(tallies)] = Tallied(k[1], tallies[Len(tallies)], k[2])
            /\ \A n \in 1 .. Len(tallies) : n # Len(tallies) => tallies'[n] = tallies[n]
  <2>1. tallies[Len(tallies)] \in Entry BY <1>2, <1>10
  <2>2. tallies'[Len(tallies)].address = tallies[Len(tallies)].address
      BY <2>1, <1>0, <1>6, <1>10, TalliedFacts
  <2>3. \A n \in 1 .. Len(tallies) : tallies'[n].address = tallies[n].address BY <2>2, <1>10
  <2> QED BY <2>3, <1>0, <1>1, <1>4, <1>6, <1>7, <1>8, <1>10 DEF ReadOK, Rising
<1>11. CASE /\ Len(tallies) # 0 => tallies[Len(tallies)].address # k[1]
            /\ Len(tallies') = Len(tallies) + 1
            /\ tallies'[Len(tallies) + 1] = Tallied(k[1], Blank(k[1]), k[2])
            /\ \A n \in 1 .. Len(tallies) : tallies'[n] = tallies[n]
  <2>1. tallies'[Len(tallies) + 1].address = k[1]
      BY <1>0, <1>6, <1>11, BlankEntry, TalliedFacts
  <2>2. ASSUME NEW n \in 1 .. Len(tallies) PROVE tallies[n].address < k[1]
    <3>1. Len(tallies) # 0 /\ Len(tallies) \in 1 .. Len(tallies) BY <1>2
    <3>2. tallies[Len(tallies)].address < k[1] BY <3>1, <1>3, <1>6, <1>8, <1>11
    <3>3. n = Len(tallies) \/ tallies[n].address < tallies[Len(tallies)].address
        BY <3>1, <1>2, <1>4 DEF Rising
    <3> QED BY <3>1, <3>2, <3>3, <1>3, <1>6
  <2>3. \A n \in 1 .. Len(tallies') : n \in 1 .. Len(tallies) \/ n = Len(tallies) + 1
      BY <1>2, <1>11
  <2>4. ASSUME NEW i \in 1 .. Len(tallies'), NEW j \in 1 .. Len(tallies'), i < j
        PROVE  tallies'[i].address < tallies'[j].address
    <3>1. i \in 1 .. Len(tallies) BY <2>3, <2>4, <1>2, <1>11
    <3>2. CASE j = Len(tallies) + 1 BY <3>1, <3>2, <2>1, <2>2, <1>11
    <3>3. CASE j \in 1 .. Len(tallies) BY <3>1, <3>3, <2>4, <1>4, <1>11 DEF Rising
    <3> QED BY <3>2, <3>3, <2>3
  <2>5. \A n \in 1 .. Len(tallies') :
           next <= tallies'[n].address /\ tallies'[n].address <= k[1]
      BY <2>1, <2>3, <1>1, <1>4, <1>6, <1>8, <1>11
  <2>6. Rising(tallies)' BY <2>4 DEF Rising
  <2> QED BY <2>5, <2>6, <1>0, <1>1, <1>4, <1>6, <1>7 DEF ReadOK
<1> QED BY <1>5, <1>9, <1>10, <1>11

\* A batch that comes of a reading in order.
LEMMA BatchOrdered ==
    ASSUME Basic, Ordered, pc = "search", pc' # "search", UNCHANGED met,
           NEW all \in Seq(Entry), batch' = Kept(all), Rising(all),
           \A n \in 1 .. Len(all) : next <= all[n].address /\ all[n].address <= last[1],
           next' = None \/ (next' \in Int /\ next' > last[1])
    PROVE  Ordered'
<1>1. next # None /\ next \in Int /\ last[1] \in Int /\ met \subseteq Int
    BY AddressInt DEF Basic, Types, PhaseOK
<1>2. /\ Rising(batch)'
      /\ \A n \in 1 .. Len(batch') : next <= batch'[n].address /\ batch'[n].address <= last[1]
    BY <1>1, KeptOrdered DEF Rising
<1>3. batch' \in Seq(Entry) BY KeptFilters DEF Filters
<1>4. \A n \in 1 .. Len(batch') : batch'[n].address \in Int BY <1>3, EntryFacts
<1>5. \A a \in met : a < next BY <1>1 DEF Ordered, OrderOK
<1>6. \A a \in met, n \in 1 .. Len(batch') : a < batch'[n].address
    BY <1>1, <1>2, <1>4, <1>5
<1>7. next <= last[1] BY DEF Ordered, ReadOK
<1>8. next' # None => /\ \A a \in met : a < next'
                      /\ \A n \in 1 .. Len(batch') : batch'[n].address < next'
    BY <1>1, <1>2, <1>4, <1>5, <1>7
<1> QED BY <1>2, <1>6, <1>8 DEF Ordered, ReadOK, OrderOK

\* The next extent is taken from the front of the batch.
LEMMA HandOverOrdered ==
    ASSUME Basic, Ordered, HandOver
    PROVE  Ordered' /\ \A a \in met : a < Head(batch).address
<1>1. batch \in Seq(Entry) /\ batch # <<>> /\ Len(batch) \in Nat BY DEF Basic, Types, HandOver
<1>2. /\ Tail(batch) \in Seq(Entry) /\ Len(Tail(batch)) = Len(batch) - 1
      /\ \A n \in 1 .. Len(Tail(batch)) : Tail(batch)[n] = batch[n + 1]
    BY <1>1, HeadTailProperties
<1>3. Head(batch) = batch[1] /\ 1 \in 1 .. Len(batch) BY <1>1
<1>4. batch' = Tail(batch) /\ met' = met \union {batch[1].address} /\ next' = next
      /\ pc' # "search"
    BY <1>3 DEF HandOver
<1>5. \A n \in 1 .. Len(batch') : n + 1 \in 1 .. Len(batch) /\ batch'[n] = batch[n + 1] /\ 1 < n + 1
    BY <1>1, <1>2, <1>4
<1>6. Rising(batch)' BY <1>1, <1>2, <1>4, <1>5 DEF Ordered, OrderOK, Rising
<1>7. \A a \in met', n \in 1 .. Len(batch') : a < batch'[n].address
    BY <1>3, <1>4, <1>5 DEF Ordered, OrderOK, Rising
<1>8. next' # None => /\ \A a \in met' : a < next'
                      /\ \A n \in 1 .. Len(batch') : batch'[n].address < next'
    BY <1>3, <1>4, <1>5 DEF Ordered, OrderOK
<1>9. \A a \in met : a < batch[1].address BY <1>3 DEF Ordered, OrderOK
<1> QED BY <1>3, <1>4, <1>6, <1>7, <1>8, <1>9 DEF Ordered, ReadOK, OrderOK

LEMMA NextOrdered ==
    ASSUME Basic, Ordered, [Next]_vars
    PROVE  Ordered'
<1> USE DEF Ordered
<1>0. UNCHANGED <<pc, tallies, last, next, batch, met>> => Ordered'
    BY DEF ReadOK, OrderOK, Rising
<1>1. CASE UNCHANGED vars BY <1>0, <1>1 DEF vars
<1>2. CASE Sync BY <1>2 DEF Sync, ReadOK, OrderOK, Rising
<1>3. CASE ReadGeneration
  <2>1. batch = <<>> /\ met = {} BY <1>3 DEF ReadGeneration, Basic, PhaseOK, Early
  <2> QED BY <1>3, <2>1 DEF ReadGeneration, ReadOK, OrderOK, Rising
<1>4. CASE BeginBatch
  <2>1. next \in Int /\ last'[1] = next BY <1>4, AddressInt DEF BeginBatch, Basic, Types
  <2>2. ReadOK' BY <1>4, <2>1 DEF BeginBatch, ReadOK, Rising
  <2>3. OrderOK' BY <1>4 DEF BeginBatch, OrderOK, Rising
  <2> QED BY <2>2, <2>3
<1>5. CASE ReadItem
  <2>1. OrderOK' BY <1>5 DEF ReadItem, OrderOK, Rising
  <2> QED BY <2>1, <1>5, ReadOrdered
<1>6. CASE EndOfTree
  <2>1. pc = "search" /\ next' = None /\ met' = met /\ Resolve(Kept(tallies))
      BY <1>6 DEF EndOfTree
  <2>2. batch' = Kept(tallies) /\ pc' # "search" BY <2>1 DEF Resolve
  <2>3. tallies \in Seq(Entry) BY DEF Basic, Types
  <2>4. Rising(tallies) /\ \A n \in 1 .. Len(tallies) :
           next <= tallies[n].address /\ tallies[n].address <= last[1]
      BY <2>1 DEF ReadOK
  <2> QED BY <2>1, <2>2, <2>3, <2>4, BatchOrdered
<1>7. CASE OutOfRoom
  <2>1. pc = "search" /\ next' = NextAddress /\ met' = met /\ Resolve(Kept(Reread))
      BY <1>7 DEF OutOfRoom
  <2>2. batch' = Kept(Reread) /\ pc' # "search" BY <2>1 DEF Resolve
  <2>3. Types /\ next # None BY <2>1 DEF Basic, PhaseOK
  <2>4. Reread \in Seq(Entry) BY <2>3, RereadFacts
  <2>5. Rising(Reread) /\ \A n \in 1 .. Len(Reread) :
           next <= Reread[n].address /\ Reread[n].address <= last[1]
      BY <2>1, <2>3, RereadOrdered
  <2>6. last[1] \in Int BY <2>3, AddressInt DEF Types
  <2>7. next' = None \/ (next' \in Int /\ next' > last[1]) BY <2>1, <2>6 DEF NextAddress
  <2> QED BY <2>1, <2>2, <2>4, <2>5, <2>7, BatchOrdered
<1>8. CASE Fault BY <1>8 DEF Fault, ReadOK, OrderOK, Rising
<1>9. CASE \E a \in Address : Resolved(a)
    BY <1>9 DEF Resolved, ReadOK, OrderOK, Rising
<1>10. CASE HandOver BY <1>10, HandOverOrdered
<1>11. CASE PassOver BY <1>11 DEF PassOver, ReadOK, OrderOK, Rising
<1>12. CASE \E a \in Address : Rewrite(a)
    BY <1>12 DEF Rewrite, ReadOK, OrderOK, Rising
<1>13. CASE End BY <1>13 DEF End, ReadOK, OrderOK, Rising
<1>14. CASE Users BY <1>0, <1>14, UserFacts DEF Basic
<1> QED BY <1>1, <1>2, <1>3, <1>4, <1>5, <1>6, <1>7, <1>8, <1>9, <1>10, <1>11, <1>12, <1>13,
           <1>14 DEF Next, Tool, Done

\* A batch grows shorter only as its first extent is handed over.
LEMMA ShorterIsHandedOver ==
    ASSUME Basic, [Next]_vars, Len(batch') < Len(batch)
    PROVE  HandOver
<1>1. Len(batch) \in Nat BY DEF Basic, Types
<1>2. batch' # batch BY <1>1
<1>3. ASSUME pc = "search" PROVE FALSE
  <2>1. Len(batch) = 0 BY <1>3 DEF Basic, PhaseOK
  <2>2. Basic' BY NextBasic
  <2>3. Len(batch') \in Nat BY <2>2 DEF Basic, Types
  <2> QED BY <2>1, <2>3
<1>4. ~EndOfTree /\ ~OutOfRoom BY <1>3 DEF EndOfTree, OutOfRoom
<1>5. ~Users BY <1>2, UserFacts DEF Basic
<1> QED BY <1>2, <1>4, <1>5 DEF Next, Tool, Done, vars, Sync, ReadGeneration, BeginBatch, ReadItem,
           Fault, Resolved, PassOver, Rewrite, End

\* The extents of a walk are met one by one in the order of their addresses, so
\* none twice (ExtentWalk::next), whatever the tree, the buffer and the users.
THEOREM WalkMeetsInOrder == Spec => MetInOrder
<1>1. Init => Basic /\ Ordered BY InitBasic, InitOrdered
<1>2. Basic /\ Ordered /\ [Next]_vars => (Basic /\ Ordered)' BY NextBasic, NextOrdered
<1>3. Basic /\ Ordered /\ [Next]_vars =>
        [\A a \in met : batch' # batch /\ Len(batch') < Len(batch) => a < Head(batch).address]_vars
    BY ShorterIsHandedOver, HandOverOrdered
<1> QED BY <1>1, <1>2, <1>3, PTL DEF Spec, MetInOrder

\* While an extent is dealt with no thread of the pool is looking one up
\* (ExtentWalk::next resolves a batch whole before it hands any of it over).
THEOREM WalkLooksUpNothing == Spec => []NoLookupDuringRewrite
<1>1. Init => Basic BY InitBasic
<1>2. Basic /\ [Next]_vars => Basic' BY NextBasic
<1>3. Basic => NoLookupDuringRewrite BY DEF Basic, PhaseOK, NoLookupDuringRewrite
<1> QED BY <1>1, <1>2, <1>3, PTL DEF Spec

-----------------------------------------------------------------------------
(* The copies the run makes.                                               *)

\* Unless a transaction slipped in before the generation was read, none was
\* running when it was, and every copy is of a later one; so are those read.
OwnTree    == /\ pc \in Early => \A a \in Address : ~tree[a].own
              /\ pc = "generation" => ~running
              /\ pc \notin Early =>
                   /\ generation <= gen /\ (running => generation < gen)
                   /\ \A a \in Address : tree[a].own => generation < tree[a].gen
OwnTallies == \A n \in 1 .. Len(tallies) : tallies[n].own => generation < tallies[n].gen
OwnBatch   == \A n \in 1 .. Len(batch) : ~batch[n].own
OwnOK      == ~slipped => OwnTree /\ OwnTallies /\ OwnBatch

LEMMA InitOwn == Init => OwnOK
<1> SUFFICES ASSUME Init PROVE OwnOK OBVIOUS
<1>1. PICK s \in Starts : tree = s.tree BY DEF Init
<1>2. \A a \in Address : ~tree[a].own BY <1>1, WalkAssumption
<1> QED BY <1>2 DEF Init, OwnOK, OwnTree, OwnTallies, OwnBatch, Early

\* A tally of the extent item says a copy is one only as the tree does.
LEMMA TalliedOwn ==
    ASSUME Types, OwnTree, pc \notin Early, NEW a \in Address, NEW t \in Entry, NEW i,
           t.own => generation < t.gen
    PROVE  Tallied(a, t, i).own => generation < Tallied(a, t, i).gen
BY TalliedFacts DEF OwnTree

\* What is kept of a reading in which copies are newer holds no copy.
LEMMA KeptOwn ==
    ASSUME Types, NEW all \in Seq(Entry),
           \A n \in 1 .. Len(all) : all[n].own => generation < all[n].gen
    PROVE  \A n \in 1 .. Len(Kept(all)) : ~Kept(all)[n].own
<1> SUFFICES ASSUME NEW n \in 1 .. Len(Kept(all)) PROVE ~Kept(all)[n].own OBVIOUS
<1>1. Filters(all, Len(all), Kept(all)) BY KeptFilters
<1>2. PICK j \in 1 .. Len(all) : Kept(all)[n] = all[j] BY <1>1 DEF Filters
<1>3. all[j].gen <= generation BY <1>1, <1>2 DEF Filters, Keeps
<1>4. all[j].gen \in Int /\ generation \in Int BY EntryFacts DEF Types
<1> QED BY <1>2, <1>3, <1>4

\* The extent read again is in this no different from the others.
LEMMA RereadOwn ==
    ASSUME Types, OwnTree, OwnTallies, pc \notin Early
    PROVE  \A n \in 1 .. Len(Reread) : Reread[n].own => generation < Reread[n].gen
<1> SUFFICES ASSUME NEW n \in 1 .. Len(Reread)
             PROVE  Reread[n].own => generation < Reread[n].gen
    OBVIOUS
<1>1. Len(Popped) \in Nat /\ Len(tallies) \in Nat BY RereadFacts DEF Types
<1>2. CASE n = Len(Popped) + 1
  <2>1. last[1] \in Address BY DEF Types
  <2>2. Blank(last[1]) \in Entry /\ ~Blank(last[1]).own BY <2>1, BlankEntry DEF Blank
  <2> DEFINE t == Tallied(last[1], Blank(last[1]), 0)
  <2>3. t.own => generation < t.gen BY <2>1, <2>2, TalliedOwn
  <2> HIDE DEF t
  <2>4. Reread[n] = t BY <1>2, RereadFacts DEF t
  <2> QED BY <2>3, <2>4
<1>3. CASE n # Len(Popped) + 1
  <2>1. n \in 1 .. Len(Popped) BY <1>1, <1>3, RereadFacts
  <2>2. n \in 1 .. Len(tallies) /\ Reread[n] = tallies[n] BY <2>1, <1>1, RereadFacts
  <2> QED BY <2>2 DEF OwnTallies
<1> QED BY <1>2, <1>3

\* The search reads a copy only as one newer than the walk.
LEMMA ReadOwn ==
    ASSUME Types, OwnTree, OwnTallies, ReadItem
    PROVE  OwnTallies'
<1>0. pc \notin Early /\ generation' = generation BY DEF ReadItem, Early
<1>1. tallies \in Seq(Entry) /\ Len(tallies) \in Nat BY DEF Types
<1>2. PICK k \in After(last) :
         \/ tallies' = tallies
         \/ /\ Len(tallies) # 0
            /\ Len(tallies') = Len(tallies)
            /\ tallies'[Len(tallies)] = Tallied(k[1], tallies[Len(tallies)], k[2])
            /\ \A n \in 1 .. Len(tallies) : n # Len(tallies) => tallies'[n] = tallies[n]
         \/ /\ Len(tallies') = Len(tallies) + 1
            /\ tallies'[Len(tallies) + 1] = Tallied(k[1], Blank(k[1]), k[2])
            /\ \A n \in 1 .. Len(tallies) : tallies'[n] = tallies[n]
    BY ReadTallies
<1>3. k[1] \in Address BY AfterFacts
<1>4. CASE tallies' = tallies BY <1>0, <1>4 DEF OwnTallies
<1>5. CASE /\ Len(tallies) # 0
           /\ Len(tallies') = Len(tallies)
           /\ tallies'[Len(tallies)] = Tallied(k[1], tallies[Len(tallies)], k[2])
           /\ \A n \in 1 .. Len(tallies) : n # Len(tallies) => tallies'[n] = tallies[n]
  <2>1. Len(tallies) \in 1 .. Len(tallies) /\ tallies[Len(tallies)] \in Entry BY <1>1, <1>5
  <2>2. tallies[Len(tallies)].own => generation < tallies[Len(tallies)].gen
      BY <2>1 DEF OwnTallies
  <2> DEFINE t == Tallied(k[1], tallies[Len(tallies)], k[2])
  <2>3. t.own => generation < t.gen BY <2>1, <2>2, <1>0, <1>3, TalliedOwn
  <2>4. tallies'[Len(tallies)] = t BY <1>5
  <2> HIDE DEF t
  <2> QED BY <2>3, <2>4, <1>0, <1>5 DEF OwnTallies
<1>6. CASE /\ Len(tallies') = Len(tallies) + 1
           /\ tallies'[Len(tallies) + 1] = Tallied(k[1], Blank(k[1]), k[2])
           /\ \A n \in 1 .. Len(tallies) : tallies'[n] = tallies[n]
  <2>1. Blank(k[1]) \in Entry /\ ~Blank(k[1]).own BY <1>3, BlankEntry DEF Blank
  <2> DEFINE t == Tallied(k[1], Blank(k[1]), k[2])
  <2>2. t.own => generation < t.gen BY <2>1, <1>0, <1>3, TalliedOwn
  <2>3. tallies'[Len(tallies) + 1] = t BY <1>6
  <2> HIDE DEF t
  <2>4. \A n \in 1 .. Len(tallies') : n \in 1 .. Len(tallies) \/ n = Len(tallies) + 1
      BY <1>1, <1>6
  <2> QED BY <2>2, <2>3, <2>4, <1>0, <1>6 DEF OwnTallies
<1> QED BY <1>2, <1>4, <1>5, <1>6

\* A change to the tree is of a transaction later than the walk.
LEMMA CurrentIsLater ==
    ASSUME Types, OwnTree, pc \notin Early
    PROVE  Current \in Nat /\ generation < Current
BY DEF Types, OwnTree, Current

LEMMA NextOwn ==
    ASSUME Basic, OwnOK, [Next]_vars
    PROVE  OwnOK'
<1> USE DEF Early
<1>0. Types /\ PhaseOK BY DEF Basic
<1>1. SUFFICES ASSUME ~slipped' PROVE (OwnTree /\ OwnTallies /\ OwnBatch)' BY DEF OwnOK
<1>2. ~slipped
  <2>1. CASE Users BY <2>1, <1>0, <1>1, UserFacts
  <2>2. CASE ~Users
      BY <2>2, <1>1 DEF Next, Tool, Done, vars, users, Sync, ReadGeneration, BeginBatch, ReadItem,
         EndOfTree, OutOfRoom, Fault, Resolved, HandOver, PassOver, Rewrite, End
  <2> QED BY <2>1, <2>2
<1>3. OwnTree /\ OwnTallies /\ OwnBatch BY <1>2 DEF OwnOK
<1>4. ASSUME UNCHANGED <<fs, generation>>, pc' \in Early <=> pc \in Early,
             pc' = "generation" => pc = "generation"
      PROVE  OwnTree'
    BY <1>3, <1>4 DEF fs, OwnTree
<1>5. UNCHANGED <<generation, tallies>> => OwnTallies' BY <1>3 DEF OwnTallies
<1>6. UNCHANGED batch => OwnBatch' BY <1>3 DEF OwnBatch
<1>7. CASE UNCHANGED vars BY <1>4, <1>5, <1>6, <1>7 DEF vars
<1>8. CASE Sync
  <2>1. OwnTree' BY <1>3, <1>8 DEF Sync, OwnTree
  <2> QED BY <2>1, <1>5, <1>6, <1>8 DEF Sync
<1>9. CASE ReadGeneration
  <2>1. tallies' = <<>> BY <1>0, <1>9 DEF ReadGeneration, PhaseOK
  <2>2. OwnTree' BY <1>0, <1>3, <1>9 DEF ReadGeneration, fs, OwnTree, Types
  <2>3. OwnTallies' BY <2>1 DEF OwnTallies
  <2> QED BY <2>2, <2>3, <1>6, <1>9 DEF ReadGeneration
<1>10. CASE BeginBatch
  <2>1. OwnTallies' BY <1>10 DEF BeginBatch, OwnTallies
  <2> QED BY <2>1, <1>4, <1>6, <1>10 DEF BeginBatch
<1>11. CASE ReadItem BY <1>0, <1>3, <1>4, <1>6, <1>11, ReadOwn DEF ReadItem
<1>12. CASE EndOfTree
  <2>1. tallies \in Seq(Entry) BY <1>0 DEF Types
  <2>2. batch' = Kept(tallies) BY <1>12 DEF EndOfTree, Resolve
  <2>3. \A n \in 1 .. Len(Kept(tallies)) : ~Kept(tallies)[n].own
      BY <2>1, <1>0, <1>3, KeptOwn DEF OwnTallies
  <2>4. OwnBatch' BY <2>2, <2>3 DEF OwnBatch
  <2>5. pc' \notin Early BY <1>12 DEF EndOfTree, Resolve
  <2> QED BY <2>4, <2>5, <1>4, <1>5, <1>12 DEF EndOfTree
<1>13. CASE OutOfRoom
  <2>1. pc \notin Early /\ pc' \notin Early BY <1>13 DEF OutOfRoom, Resolve
  <2>2. Reread \in Seq(Entry) BY <1>0, RereadFacts
  <2>3. batch' = Kept(Reread) BY <1>13 DEF OutOfRoom, Resolve
  <2>4. \A n \in 1 .. Len(Kept(Reread)) : ~Kept(Reread)[n].own
    <3>1. \A n \in 1 .. Len(Reread) : Reread[n].own => generation < Reread[n].gen
        BY <2>1, <1>0, <1>3, RereadOwn
    <3> QED BY <3>1, <2>2, <1>0, KeptOwn
  <2>5. OwnBatch' BY <2>3, <2>4 DEF OwnBatch
  <2> QED BY <2>1, <2>5, <1>4, <1>5, <1>13 DEF OutOfRoom
<1>14. CASE Fault BY <1>4, <1>5, <1>6, <1>14 DEF Fault
<1>15. CASE \E a \in Address : Resolved(a)
  <2>1. pc' = pc \/ (pc = "resolve" /\ pc' = "next") BY <1>15 DEF Resolved
  <2> QED BY <2>1, <1>4, <1>5, <1>6, <1>15 DEF Resolved
<1>16. CASE HandOver
  <2>1. batch \in Seq(Entry) /\ batch # <<>> /\ Len(batch) \in Nat BY <1>0, <1>16 DEF HandOver, Types
  <2>2. /\ Len(Tail(batch)) = Len(batch) - 1
        /\ \A n \in 1 .. Len(Tail(batch)) : Tail(batch)[n] = batch[n + 1]
      BY <2>1, HeadTailProperties
  <2>3. \A n \in 1 .. Len(Tail(batch)) : n + 1 \in 1 .. Len(batch) BY <2>1, <2>2
  <2>4. batch' = Tail(batch) BY <1>16 DEF HandOver
  <2>5. OwnBatch' BY <2>2, <2>3, <2>4, <1>3 DEF OwnBatch
  <2> QED BY <2>5, <1>4, <1>5, <1>16 DEF HandOver
<1>17. CASE PassOver BY <1>4, <1>5, <1>6, <1>17 DEF PassOver
<1>18. CASE \E a \in Address : Rewrite(a)
  <2>1. PICK a \in Address : Rewrite(a) BY <1>18
  <2>2. pc \notin Early /\ pc' \notin Early /\ UNCHANGED <<generation, tallies, batch>>
      BY <2>1 DEF Rewrite
  <2>3. Current \in Nat /\ generation < Current /\ generation \in Nat
      BY <2>2, <1>0, <1>3, CurrentIsLater DEF Types
  <2>4. gen' = Current /\ \A b \in Address :
           \/ tree'[b] = tree[b]
           \/ tree'[b] = Free
           \/ tree'[b] = [gen |-> Current, data |-> TRUE, items |-> 1, own |-> TRUE]
      BY <2>1, <1>0, RewriteFacts DEF TreeSet
  <2>5. ASSUME NEW b \in Address, tree'[b].own PROVE generation < tree'[b].gen
      BY <2>2, <2>3, <2>4, <2>5, <1>3 DEF OwnTree, Free
  <2>6. OwnTree' BY <2>2, <2>3, <2>4, <2>5 DEF OwnTree
  <2> QED BY <2>2, <2>6, <1>5, <1>6
<1>19. CASE End BY <1>4, <1>5, <1>6, <1>19 DEF End
<1>20. CASE Users
  <2>1. UNCHANGED <<pc, generation, tallies, batch>> BY <1>0, <1>20, UserFacts
  <2>2. \/ tree' = tree /\ gen' = gen /\ ~running'
        \/ /\ gen' = Current /\ running' /\ pc # "generation"
           /\ \A b \in Address :
                \/ tree'[b].gen = tree[b].gen /\ tree'[b].own = tree[b].own
                \/ ~tree'[b].own
    <3>1. ~Free.own BY DEF Free
    <3> QED BY <3>1, <1>0, <1>1, <1>20, UserFacts
  <2>3. CASE tree' = tree /\ gen' = gen /\ ~running'
    <3>1. OwnTree' BY <2>1, <2>3, <1>3 DEF OwnTree
    <3> QED BY <3>1, <2>1, <1>5, <1>6
  <2>4. CASE /\ gen' = Current /\ running' /\ pc # "generation"
             /\ \A b \in Address :
                  \/ tree'[b].gen = tree[b].gen /\ tree'[b].own = tree[b].own
                  \/ ~tree'[b].own
    <3>1. pc \notin Early => generation < Current /\ Current \in Nat /\ generation \in Nat
        BY <1>0, <1>3, CurrentIsLater DEF Types
    <3>2. pc' \in Early => \A b \in Address : ~tree'[b].own BY <2>1, <2>4, <1>3 DEF OwnTree
    <3>3. pc' \notin Early => \A b \in Address : tree'[b].own => generation' < tree'[b].gen
        BY <2>1, <2>4, <1>3 DEF OwnTree
    <3>4. OwnTree' BY <3>1, <3>2, <3>3, <2>1, <2>4 DEF OwnTree
    <3> QED BY <3>4, <2>1, <1>5, <1>6
  <2> QED BY <2>2, <2>3, <2>4
<1> QED BY <1>7, <1>8, <1>9, <1>10, <1>11, <1>12, <1>13, <1>14, <1>15, <1>16, <1>17, <1>18,
           <1>19, <1>20 DEF Next, Tool, Done

\* The walk never comes upon a copy the run itself made (the generation that
\* Filesystem::walk reads after its sync), unless someone else's transaction
\* was begun in between.
THEOREM WalkPassesOverCopies == Spec => []OwnCopiesPassedOver
<1>1. Init => Basic /\ OwnOK BY InitBasic, InitOwn
<1>2. Basic /\ OwnOK /\ [Next]_vars => (Basic /\ OwnOK)' BY NextBasic, NextOwn
<1>3. OwnOK => OwnCopiesPassedOver BY DEF OwnOK, OwnBatch, OwnCopiesPassedOver
<1> QED BY <1>1, <1>2, <1>3, PTL DEF Spec

-----------------------------------------------------------------------------
(* Nothing is passed over.                                                 *)

\* An extent the search has yet to reach, one it has read, one of the batch.
Ahead(a)   == last[1] < a \/ (last[1] = a /\ last[2] < 0)
Read(a)    == \E n \in 1 .. Len(tallies) : tallies[n].address = a /\ Keeps(tallies[n])
InBatch(a) == \E n \in 1 .. Len(batch) : batch[n].address = a

\* What stays is data and not newer than the walk, and is met, about to be met,
\* or ahead.
TreeOK == /\ \A a \in Address : tree[a].gen <= gen
          /\ \A a \in steady : tree[a].data /\ tree[a].gen <= generation
Found(a) ==
    \/ a \in met
    \/ pc = "search" /\ (Ahead(a) \/ Read(a))
    \/ pc # "search" /\ (InBatch(a) \/ (next # None /\ next <= a))
FoundOK == pc \notin Early /\ result # "err" => \A a \in steady : Found(a)
StayOK == TreeOK /\ FoundOK /\ (result = "err" => pc = "done")

LEMMA InitStay == Init => StayOK
<1> SUFFICES ASSUME Init PROVE StayOK OBVIOUS
<1>1. PICK s \in Starts : tree = s.tree /\ gen = s.gen BY DEF Init
<1>2. \A a \in Address : tree[a].gen <= gen BY <1>1, WalkAssumption
<1> QED BY <1>2 DEF Init, StayOK, TreeOK, FoundOK, Early

\* The transactions: nothing is of a later one than the current, and what
\* stays keeps its own.
LEMMA NextTree ==
    ASSUME Basic, StayOK, [Next]_vars
    PROVE  TreeOK'
<1>0. Types /\ TreeOK BY DEF Basic, StayOK
<1>1. gen \in Nat /\ Current \in Nat /\ gen <= Current BY <1>0 DEF Types, Current
<1>2. \A b \in Address : tree[b].gen \in Nat /\ tree[b].gen <= gen /\ tree[b].gen <= Current
    BY <1>0, <1>1, TreeFacts DEF TreeOK
<1>3. \A b \in steady : b \in Address /\ tree[b] # Free BY <1>0, TreeFacts DEF Types, TreeOK
<1>4. UNCHANGED <<tree, gen, generation, steady>> => TreeOK' BY <1>0 DEF TreeOK
<1>5. CASE UNCHANGED vars BY <1>4, <1>5 DEF vars, fs
<1>6. CASE ReadGeneration
  <2>1. UNCHANGED <<tree, gen>> /\ generation' = gen /\ steady' = {a \in Address : tree[a].data}
      BY <1>6 DEF ReadGeneration, fs
  <2> QED BY <2>1, <1>2 DEF TreeOK
<1>7. CASE \E a \in Address : Rewrite(a)
  <2>1. PICK a \in Address : Rewrite(a) BY <1>7
  <2>2. /\ gen' = Current /\ tree[a] = Free /\ steady' = steady \ {Max(met)}
        /\ \A b \in Address :
             \/ tree'[b] = tree[b] /\ b # Max(met)
             \/ tree'[b] = Free /\ b = Max(met)
             \/ b = a /\ tree'[b] = [gen |-> Current, data |-> TRUE, items |-> 1, own |-> TRUE]
      BY <2>1, <1>0, RewriteFacts DEF TreeSet
  <2>3. generation' = generation BY <2>1 DEF Rewrite
  <2>4. \A b \in Address : tree'[b].gen <= gen' BY <2>2, <1>1, <1>2 DEF Free
  <2>5. \A b \in steady' : tree'[b] = tree[b] BY <2>2, <1>3
  <2>6. \A b \in steady' : tree'[b].data /\ tree'[b].gen <= generation'
      BY <2>2, <2>3, <2>5, <1>0 DEF TreeOK
  <2> QED BY <2>4, <2>6 DEF TreeOK
<1>8. CASE Users
  <2>1. generation' = generation /\ steady' \subseteq steady BY <1>0, <1>8, UserFacts
  <2>2. \/ tree' = tree /\ gen' = gen
        \/ /\ gen' = Current
           /\ \A b \in Address :
                \/ tree'[b].gen = tree[b].gen /\ tree'[b].data = tree[b].data
                \/ tree'[b] = Free /\ b \notin steady'
                \/ tree[b] = Free /\ tree'[b].gen = Current
      BY <1>0, <1>8, UserFacts
  <2>3. CASE tree' = tree /\ gen' = gen BY <2>1, <2>3, <1>0 DEF TreeOK
  <2>4. CASE /\ gen' = Current
             /\ \A b \in Address :
                  \/ tree'[b].gen = tree[b].gen /\ tree'[b].data = tree[b].data
                  \/ tree'[b] = Free /\ b \notin steady'
                  \/ tree[b] = Free /\ tree'[b].gen = Current
    <3>1. \A b \in Address : tree'[b].gen <= gen' BY <2>4, <1>1, <1>2 DEF Free
    <3>2. \A b \in steady' : tree'[b].gen = tree[b].gen /\ tree'[b].data = tree[b].data
        BY <2>1, <2>4, <1>3
    <3>3. \A b \in steady' : tree'[b].data /\ tree'[b].gen <= generation'
        BY <3>2, <2>1, <1>0 DEF TreeOK
    <3> QED BY <3>1, <3>3 DEF TreeOK
  <2> QED BY <2>2, <2>3, <2>4
<1> QED BY <1>4, <1>5, <1>6, <1>7, <1>8 DEF Next, Tool, Done, fs, Sync, BeginBatch, ReadItem,
           EndOfTree, OutOfRoom, Fault, Resolved, HandOver, PassOver, End

\* The extent item of what stays, once read, has it kept.
LEMMA TalliedIsKept ==
    ASSUME Types, TreeOK, NEW a \in steady, NEW t \in Entry
    PROVE  Keeps(Tallied(a, t, 0))
<1>1. a \in Address BY DEF Types
<1>2. Tallied(a, t, 0).gen = tree[a].gen BY <1>1, TalliedFacts DEF TreeOK
<1>3. tree[a].gen \in Nat /\ tree[a].gen <= generation BY <1>1, TreeFacts DEF TreeOK
<1> QED BY <1>2, <1>3 DEF Keeps, None

\* What is ahead has an item the search has yet to return.
LEMMA AheadIsAfter ==
    ASSUME Types, TreeOK, NEW a \in steady, Ahead(a)
    PROVE  <<a, 0>> \in After(last)
<1>1. a \in Address /\ last[1] \in Int /\ last[2] \in Int BY AddressInt DEF Types
<1>2. a \in Int BY <1>1, AddressInt
<1>3. tree[a].items >= 1 /\ tree[a].items \in Int BY <1>1, TreeFacts, WalkAssumption DEF TreeOK
<1>4. 0 \in ItemsAt(a) BY <1>3 DEF ItemsAt
<1>5. <<a, 0>> \in Address \X (0 .. MaxItems) BY <1>1, WalkAssumption
<1>6. a > last[1] \/ (a = last[1] /\ 0 > last[2]) BY <1>1, <1>2 DEF Ahead
<1> QED BY <1>4, <1>5, <1>6 DEF After

\* The search comes to every extent ahead, and has it when it has read past it.
LEMMA ReadFinds ==
    ASSUME Types, TreeOK, ReadItem, NEW a \in steady, Ahead(a) \/ Read(a)
    PROVE  (Ahead(a) \/ Read(a))'
<1>0. generation' = generation BY DEF ReadItem
<1>1. tallies \in Seq(Entry) /\ Len(tallies) \in Nat BY DEF Types
<1>2. a \in Address /\ a \in Int BY AddressInt DEF Types
<1>3. PICK k \in After(last) :
         /\ IsFirst(k, After(last)) /\ last' = k
         /\ tallies' \in Seq(Entry)
         /\ \/ k[2] = MaxItems /\ tallies' = tallies
            \/ /\ k[2] # MaxItems /\ Len(tallies) # 0 /\ tallies[Len(tallies)].address = k[1]
               /\ Len(tallies') = Len(tallies)
               /\ tallies'[Len(tallies)] = Tallied(k[1], tallies[Len(tallies)], k[2])
               /\ \A n \in 1 .. Len(tallies) : n # Len(tallies) => tallies'[n] = tallies[n]
            \/ /\ k[2] # MaxItems
               /\ Len(tallies) # 0 => tallies[Len(tallies)].address # k[1]
               /\ Len(tallies') = Len(tallies) + 1
               /\ tallies'[Len(tallies) + 1] = Tallied(k[1], Blank(k[1]), k[2])
               /\ \A n \in 1 .. Len(tallies) : tallies'[n] = tallies[n]
    BY ReadTallies
<1>4. k[1] \in Address /\ k[1] \in Int /\ k[2] \in Int /\ k[2] >= 0
  <2>1. k \in Address \X (0 .. MaxItems) BY DEF After
  <2>2. k[2] \in 0 .. MaxItems BY <2>1
  <2> QED BY <2>2, AfterFacts, WalkAssumption
<1>6. \A t : Keeps(t) => (t.gen # None /\ t.gen <= generation') BY <1>0 DEF Keeps
<1>7. CASE Read(a)
  <2>1. PICK n \in 1 .. Len(tallies) : tallies[n].address = a /\ Keeps(tallies[n])
      BY <1>7 DEF Read
  <2>2. /\ n \in 1 .. Len(tallies')
        /\ tallies'[n] = tallies[n]
           \/ (tallies[n].address = k[1] /\ tallies'[n] = Tallied(k[1], tallies[n], k[2]))
      BY <2>1, <1>1, <1>3
  <2>3. tallies[n] \in Entry BY <1>1
  <2>4. tallies'[n].address = a /\ Keeps(tallies'[n])
    <3>1. CASE tallies'[n] = tallies[n] BY <2>1, <3>1
    <3>2. CASE tallies[n].address = k[1] /\ tallies'[n] = Tallied(k[1], tallies[n], k[2])
      <4>1. tallies'[n].address = a BY <3>2, <2>1, <2>3, <1>4, TalliedFacts
      <4>2. CASE k[2] = 0 BY <4>1, <4>2, <3>2, <2>1, <2>3, TalliedIsKept
      <4>3. CASE k[2] # 0
        <5>1. tallies'[n] = tallies[n] BY <4>3, <3>2, <2>3, <1>4, TalliedFacts
        <5> QED BY <5>1, <2>1
      <4> QED BY <4>1, <4>2, <4>3
    <3> QED BY <3>1, <3>2, <2>2
  <2> QED BY <2>2, <2>4, <1>6 DEF Read, Keeps
<1>8. CASE Ahead(a)
  <2>1. k[1] < a \/ (k[1] = a /\ k[2] <= 0)
    <3>1. <<a, 0>> \in After(last) BY <1>8, AheadIsAfter
    <3> QED BY <3>1, <1>3 DEF IsFirst
  <2>2. CASE k[1] < a BY <2>2, <1>3 DEF Ahead
  <2>3. CASE k[1] = a /\ k[2] = 0
    <3>1. k[2] # MaxItems BY <2>3, WalkAssumption
    <3>2. CASE /\ Len(tallies) # 0 /\ tallies[Len(tallies)].address = k[1]
               /\ Len(tallies') = Len(tallies)
               /\ tallies'[Len(tallies)] = Tallied(k[1], tallies[Len(tallies)], k[2])
      <4> DEFINE n == Len(tallies)
      <4>1. n \in 1 .. Len(tallies') /\ tallies[n] \in Entry BY <3>2, <1>1
      <4>2. tallies'[n].address = a /\ Keeps(tallies'[n])
          BY <4>1, <3>2, <2>3, <1>2, TalliedFacts, TalliedIsKept
      <4> QED BY <4>1, <4>2, <1>6 DEF Read, Keeps
    <3>3. CASE /\ Len(tallies') = Len(tallies) + 1
               /\ tallies'[Len(tallies) + 1] = Tallied(k[1], Blank(k[1]), k[2])
      <4> DEFINE n == Len(tallies) + 1
      <4>1. n \in 1 .. Len(tallies') /\ Blank(a) \in Entry /\ Blank(a).address = a
          BY <3>3, <1>1, <1>2, BlankEntry
      <4>2. tallies'[n] = Tallied(a, Blank(a), 0) BY <3>3, <2>3
      <4>3. Tallied(a, Blank(a), 0).address = a /\ Keeps(Tallied(a, Blank(a), 0))
          BY <4>1, <1>2, TalliedFacts, TalliedIsKept
      <4> QED BY <4>1, <4>2, <4>3, <1>6 DEF Read, Keeps
    <3> QED BY <3>1, <3>2, <3>3, <1>3
  <2> QED BY <2>1, <2>2, <2>3, <1>4
<1> QED BY <1>7, <1>8

\* What the reading has is in the batch that comes of it.
LEMMA KeptFinds ==
    ASSUME NEW all \in Seq(Entry), NEW j \in 1 .. Len(all), Keeps(all[j]), batch' = Kept(all)
    PROVE  InBatch(all[j].address)'
<1>1. PICK n \in 1 .. Len(Kept(all)) : Kept(all)[n] = all[j] BY KeptFilters DEF Filters
<1> QED BY <1>1 DEF InBatch

\* Whether the search came to the end of the tree or to that of its buffer.
LEMMA BatchFinds ==
    ASSUME Types, TreeOK, EndOfTree \/ OutOfRoom, NEW a \in steady, Ahead(a) \/ Read(a)
    PROVE  InBatch(a)' \/ (next' # None /\ next' <= a)
<1>1. tallies \in Seq(Entry) /\ Len(tallies) \in Nat BY DEF Types
<1>2. a \in Address /\ a \in Int /\ a <= MaxAddress BY AddressInt DEF Types, Address
<1>3. last[1] \in Address /\ last[1] \in Int /\ last[1] >= 0 /\ last[2] \in Int
    BY WalkAssumption DEF Types, Address
<1>4. CASE EndOfTree
  <2>1. After(last) = {} /\ batch' = Kept(tallies) BY <1>4 DEF EndOfTree, Resolve
  <2>2. Read(a) BY <2>1, AheadIsAfter
  <2>3. PICK j \in 1 .. Len(tallies) : tallies[j].address = a /\ Keeps(tallies[j])
      BY <2>2 DEF Read
  <2> QED BY <2>1, <2>3, <1>1, KeptFinds
<1>5. CASE OutOfRoom
  <2>1. next' = NextAddress /\ batch' = Kept(Reread) BY <1>5 DEF OutOfRoom, Resolve
  <2>2. Reread \in Seq(Entry) /\ Len(Popped) \in Nat /\ Len(Reread) = Len(Popped) + 1
      BY RereadFacts
  <2>3. CASE last[1] = a
    <3> DEFINE j == Len(Popped) + 1
    <3>1. Blank(a) \in Entry /\ Blank(a).address = a BY <1>2, BlankEntry
    <3>2. Reread[j] = Tallied(a, Blank(a), 0) BY <2>3, RereadFacts
    <3>3. Reread[j].address = a /\ Keeps(Reread[j])
        BY <3>1, <3>2, <1>2, TalliedFacts, TalliedIsKept
    <3>4. j \in 1 .. Len(Reread) BY <2>2
    <3> HIDE DEF j
    <3> QED BY <3>3, <3>4, <2>1, <2>2, KeptFinds
  <2>4. CASE last[1] # a /\ Read(a)
    <3>1. PICK j \in 1 .. Len(tallies) : tallies[j].address = a /\ Keeps(tallies[j])
        BY <2>4 DEF Read
    <3>2. j \in 1 .. Len(Popped) BY <3>1, <2>2, <2>4, <1>1, RereadFacts
    <3>3. Reread[j] = tallies[j] /\ j \in 1 .. Len(Reread) BY <3>2, <2>2, RereadFacts
    <3> QED BY <3>1, <3>3, <2>1, <2>2, KeptFinds
  <2>5. CASE last[1] # a /\ Ahead(a)
    <3>1. last[1] < a BY <2>5 DEF Ahead
    <3>2. next' = last[1] + 1 BY <3>1, <2>1, <1>2, <1>3, WalkAssumption DEF NextAddress
    <3> QED BY <3>1, <3>2, <1>2, <1>3 DEF None
  <2> QED BY <2>3, <2>4, <2>5
<1> QED BY <1>4, <1>5

LEMMA NextFound ==
    ASSUME Basic, StayOK, [Next]_vars
    PROVE  FoundOK' /\ (result' = "err" => pc' = "done")
<1> USE DEF Early
<1>0. Types /\ PhaseOK /\ TreeOK /\ FoundOK /\ (result = "err" => pc = "done")
    BY DEF Basic, StayOK
<1>1. steady \subseteq Int /\ next \in Int BY <1>0, AddressInt DEF Types, None
<1> USE DEF FoundOK
<1>2. ASSUME UNCHANGED <<result, met, batch, next>>, steady' \subseteq steady,
             pc # "search", pc' # "search", pc \notin Early, pc = "done" => pc' = "done"
      PROVE  FoundOK' /\ (result' = "err" => pc' = "done")
    BY <1>0, <1>2 DEF Found, InBatch
<1>3. ASSUME UNCHANGED <<pc, result, met, batch, next, last, tallies, generation>>,
             steady' \subseteq steady
      PROVE  FoundOK' /\ (result' = "err" => pc' = "done")
    BY <1>0, <1>3 DEF Found, InBatch, Ahead, Read, Keeps
<1>4. CASE UNCHANGED vars BY <1>3, <1>4 DEF vars
<1>5. CASE Sync BY <1>0, <1>5 DEF Sync
<1>6. CASE ReadGeneration
  <2>1. next' = 0 /\ pc' = "next" /\ steady' \subseteq Address BY <1>6 DEF ReadGeneration
  <2>2. \A a \in steady' : 0 <= a BY <2>1, WalkAssumption DEF Address
  <2>3. \A a \in steady' : Found(a)' BY <2>1, <2>2 DEF Found, None
  <2> QED BY <2>1, <2>3, <1>0, <1>6 DEF ReadGeneration
<1>7. CASE BeginBatch
  <2>1. /\ pc = "next" /\ batch = <<>> /\ pc' = "search" /\ last' = <<next, -1>>
        /\ UNCHANGED <<met, result, steady>>
      BY <1>7 DEF BeginBatch
  <2>2. ASSUME NEW a \in steady, result # "err" PROVE Found(a)'
    <3>1. a \in met \/ next <= a BY <2>1, <2>2, <1>0 DEF Found, InBatch
    <3> QED BY <3>1, <2>1, <1>1 DEF Found, Ahead
  <2> QED BY <2>1, <2>2, <1>0
<1>8. CASE ReadItem
  <2>1. pc = "search" /\ UNCHANGED <<pc, met, result, steady>> BY <1>8 DEF ReadItem
  <2>2. ASSUME NEW a \in steady, result # "err" PROVE Found(a)'
    <3>1. a \in met \/ Ahead(a) \/ Read(a) BY <2>1, <2>2, <1>0 DEF Found
    <3>2. a \in met \/ (Ahead(a) \/ Read(a))' BY <3>1, <1>0, <1>8, ReadFinds
    <3> QED BY <3>2, <2>1 DEF Found
  <2> QED BY <2>1, <2>2, <1>0
<1>9. CASE EndOfTree \/ OutOfRoom
  <2>1. pc = "search" /\ pc' \in {"next", "resolve"} /\ UNCHANGED <<met, result, steady>>
      BY <1>9 DEF EndOfTree, OutOfRoom, Resolve
  <2>2. ASSUME NEW a \in steady, result # "err" PROVE Found(a)'
    <3>1. a \in met \/ Ahead(a) \/ Read(a) BY <2>1, <2>2, <1>0 DEF Found
    <3>2. a \in met \/ InBatch(a)' \/ (next' # None /\ next' <= a)
        BY <3>1, <1>0, <1>9, BatchFinds
    <3> QED BY <3>2, <2>1 DEF Found, None
  <2> QED BY <2>1, <2>2, <1>0
<1>10. CASE Fault BY <1>10 DEF Fault
<1>11. CASE \E a \in Address : Resolved(a)
  <2>1. pc' = pc \/ (pc = "resolve" /\ pc' = "next") BY <1>11 DEF Resolved
  <2>2. pc = "resolve" BY <1>0, <1>11 DEF Resolved, PhaseOK
  <2> QED BY <2>1, <2>2, <1>2, <1>11 DEF Resolved
<1>12. CASE HandOver
  <2>1. batch \in Seq(Entry) /\ batch # <<>> /\ Len(batch) \in Nat
      BY <1>0, <1>12 DEF HandOver, Types
  <2>2. /\ Len(Tail(batch)) = Len(batch) - 1
        /\ \A n \in 1 .. Len(Tail(batch)) : Tail(batch)[n] = batch[n + 1]
      BY <2>1, HeadTailProperties
  <2>3. Head(batch) = batch[1] BY <2>1
  <2>4. /\ pc = "next" /\ pc' = "process" /\ batch' = Tail(batch)
        /\ met' = met \union {batch[1].address} /\ UNCHANGED <<next, result, steady>>
      BY <2>3, <1>12 DEF HandOver
  <2>5. ASSUME NEW a \in steady, result # "err" PROVE Found(a)'
    <3>1. a \in met \/ InBatch(a) \/ (next # None /\ next <= a) BY <2>4, <2>5, <1>0 DEF Found
    <3>2. CASE InBatch(a)
      <4>1. PICK n \in 1 .. Len(batch) : batch[n].address = a BY <3>2 DEF InBatch
      <4>2. CASE n = 1 BY <4>1, <4>2, <2>4 DEF Found
      <4>3. CASE n # 1
        <5>1. n - 1 \in 1 .. Len(Tail(batch)) /\ Tail(batch)[n - 1] = batch[n]
            BY <4>3, <2>1, <2>2
        <5> QED BY <5>1, <4>1, <2>4 DEF Found, InBatch
      <4> QED BY <4>2, <4>3
    <3>3. CASE a \in met \/ (next # None /\ next <= a) BY <3>3, <2>4 DEF Found, None
    <3> QED BY <3>1, <3>2, <3>3
  <2> QED BY <2>4, <2>5, <1>0
<1>13. CASE PassOver BY <1>2, <1>13 DEF PassOver
<1>14. CASE \E a \in Address : Rewrite(a) BY <1>2, <1>14 DEF Rewrite
<1>15. CASE End
  <2>1. pc = "next" /\ pc' = "done" /\ result' = "ok" /\ UNCHANGED <<met, batch, next, steady>>
      BY <1>15 DEF End
  <2> QED BY <2>1, <1>0 DEF Found, InBatch
<1>16. CASE Users BY <1>0, <1>3, <1>16, UserFacts
<1> QED BY <1>4, <1>5, <1>6, <1>7, <1>8, <1>9, <1>10, <1>11, <1>12, <1>13, <1>14, <1>15,
           <1>16 DEF Next, Tool, Done

\* A walk that comes to its end has met every data extent that was there when
\* it began and is there still (extent_batch and ExtentWalk::next), whatever
\* was freed, allocated, rewritten or grew items under it, and wherever its
\* buffers ended.
THEOREM WalkPassesOverNothing == Spec => []NothingPassedOver
<1>1. Init => Basic /\ StayOK BY InitBasic, InitStay
<1>2. Basic /\ StayOK /\ [Next]_vars => (Basic /\ StayOK)'
    BY NextBasic, NextTree, NextFound DEF StayOK
<1>3. Basic /\ StayOK => NothingPassedOver
    BY DEF Basic, PhaseOK, StayOK, FoundOK, Found, InBatch, Early, NothingPassedOver
<1> QED BY <1>1, <1>2, <1>3, PTL DEF Spec
=============================================================================
