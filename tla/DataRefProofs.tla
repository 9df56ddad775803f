--------------------------- MODULE DataRefProofs ----------------------------
(***************************************************************************)
(* What the extent tree's account of an extent is taken for, and what is   *)
(* collected from it, for any number of files, items and references, any   *)
(* size of a word, and wherever the reading is cut short.                  *)
(***************************************************************************)
EXTENDS DataRef, FiniteSetTheorems, SequenceTheorems, WellFoundedInduction,
        NaturalsInduction, TLAPS

\* A set of numbers that is not empty has a least one.
LEMMA LeastNumber ==
    ASSUME NEW T \in SUBSET Nat, T # {}
    PROVE  \E x \in T : \A y \in T : x <= y
<1> DEFINE R == {p \in Nat \X Nat : p[1] < p[2]}
<1>1. IsWellFoundedOn(R, Nat) BY NatLessThanWellFounded DEF OpToRel
<1> HIDE DEF R
<1>2. \E x \in T : \A y \in T : ~ (<<y, x>> \in R) BY <1>1, WFMin
<1>3. PICK x \in T : \A y \in T : ~ (<<y, x>> \in R) BY <1>2
<1>4. \A y \in T : ~(y < x) BY <1>3 DEF R
<1> QED BY <1>4

-----------------------------------------------------------------------------
(* Adding up the first few entries.                                        *)

\* Some function has a at 0, and at each number up to N what g makes of the
\* value before.
Steps(V, a, N, g) ==
    \E f \in [0 .. N -> V] : f[0] = a /\ \A i \in 1 .. N : f[i] = g[<<i, f[i - 1]>>]

LEMMA StepByStep ==
    ASSUME NEW V, NEW a \in V, NEW N \in Nat, NEW g \in [(1 .. N) \X V -> V]
    PROVE  Steps(V, a, N, g)
<1> DEFINE Is(n, f) == /\ f \in [0 .. n -> V] /\ f[0] = a
                       /\ \A i \in 1 .. n : f[i] = g[<<i, f[i - 1]>>]
           T == {n \in 0 .. N : ~ \E f : Is(n, f)}
<1>1. T = {}
  <2> SUFFICES ASSUME T # {} PROVE FALSE OBVIOUS
  <2>1. T \in SUBSET Nat OBVIOUS
  <2> HIDE DEF T
  <2>2. PICK n \in T : \A m \in T : n <= m BY <2>1, LeastNumber
  <2>3. n \in 0 .. N /\ ~ \E f : Is(n, f) BY <2>2 DEF T
  <2>4. n # 0
    <3> SUFFICES ASSUME n = 0 PROVE FALSE OBVIOUS
    <3> DEFINE f0 == [i \in 0 .. 0 |-> a]
    <3>1. Is(0, f0) OBVIOUS
    <3> QED BY <3>1, <2>3
  <2>5. n - 1 \in 0 .. N /\ n \in 1 .. N BY <2>3, <2>4
  <2>6. n - 1 \notin T BY <2>2, <2>5
  <2>7. \E f : Is(n - 1, f) BY <2>5, <2>6 DEF T
  <2>8. PICK h : Is(n - 1, h) BY <2>7
  <2> DEFINE f == [i \in 0 .. n |-> IF i = n THEN g[<<n, h[n - 1]>>] ELSE h[i]]
  <2>9. h[n - 1] \in V /\ g[<<n, h[n - 1]>>] \in V
    <3>1. h[n - 1] \in V BY <2>5, <2>8
    <3> QED BY <3>1, <2>5
  <2>10. f \in [0 .. n -> V] /\ f[n] = g[<<n, h[n - 1]>>] /\ \A i \in 0 .. n - 1 : f[i] = h[i]
      BY <2>5, <2>8, <2>9
  <2> HIDE DEF f
  <2>11. f[0] = a BY <2>5, <2>8, <2>10
  <2>12. ASSUME NEW i \in 1 .. n PROVE f[i] = g[<<i, f[i - 1]>>]
    <3>1. f[i - 1] = h[i - 1] BY <2>5, <2>10
    <3>2. CASE i = n BY <3>1, <3>2, <2>10
    <3>3. CASE i # n
      <4>1. i \in 1 .. n - 1 /\ i \in 0 .. n - 1 BY <3>3, <2>5
      <4> QED BY <3>1, <4>1, <2>8, <2>10
    <3> QED BY <3>2, <3>3
  <2>13. Is(n, f) BY <2>10, <2>11, <2>12
  <2> QED BY <2>13, <2>3
<1>2. N \in 0 .. N OBVIOUS
<1>3. \E f : Is(N, f)
  <2> HIDE DEF Is
  <2> QED BY <1>1, <1>2
<1>4. PICK f : Is(N, f) BY <1>3
<1> QED BY <1>4 DEF Steps

IsEntries(entries) ==
    /\ Len(entries) \in Nat
    /\ \A n \in 1 .. Len(entries) :
          /\ entries[n].count \in Nat
          /\ entries[n].kind # "owner" => entries[n].count > 0

LEMMA CountIs ==
    ASSUME NEW entries, IsEntries(entries)
    PROVE  /\ Count(entries, 0) = 0
           /\ \A n \in 1 .. Len(entries) : Count(entries, n) = Count(entries, n - 1) + entries[n].count
<1> DEFINE N == Len(entries)
           Is(f) == f = [i \in 0 .. N |-> IF i = 0 THEN 0 ELSE f[i - 1] + entries[i].count]
           g == [p \in (1 .. N) \X Nat |-> p[2] + entries[p[1]].count]
<1>1. N \in Nat /\ \A n \in 1 .. N : entries[n].count \in Nat BY DEF IsEntries
<1> HIDE DEF N
<1>2. g \in [(1 .. N) \X Nat -> Nat] BY <1>1
<1>3. \A i \in 1 .. N : \A x \in Nat : g[<<i, x>>] = x + entries[i].count OBVIOUS
<1> HIDE DEF g
<1>4. PICK f \in [0 .. N -> Nat] : f[0] = 0 /\ \A i \in 1 .. N : f[i] = g[<<i, f[i - 1]>>]
  <2> HIDE DEF Is
  <2>1. 0 \in Nat OBVIOUS
  <2>2. Steps(Nat, 0, N, g) BY <1>1, <1>2, <2>1, StepByStep
  <2> QED BY <2>2 DEF Steps
<1>5. \A i \in 1 .. N : f[i] = f[i - 1] + entries[i].count
  <2> SUFFICES ASSUME NEW i \in 1 .. N PROVE f[i] = f[i - 1] + entries[i].count OBVIOUS
  <2>1. i - 1 \in 0 .. N BY <1>1
  <2>2. f[i - 1] \in Nat BY <2>1
  <2> QED BY <2>2, <1>3, <1>4
<1>6. Is(f)
  <2>1. \A i \in 0 .. N : f[i] = IF i = 0 THEN 0 ELSE f[i - 1] + entries[i].count
      BY <1>1, <1>4, <1>5
  <2> QED BY <2>1
<1> DEFINE sum == CHOOSE s : Is(s)
<1>7. Is(sum)
  <2> HIDE DEF Is
  <2> QED BY <1>6
<1>8. \A n : Count(entries, n) = sum[n] BY DEF Count, N
<1> HIDE DEF sum
<1>9. sum[0] = 0 /\ \A n \in 1 .. N : sum[n] = sum[n - 1] + entries[n].count
  <2>1. 0 \in 0 .. N /\ \A n \in 1 .. N : n \in 0 .. N /\ n # 0 BY <1>1
  <2> QED BY <2>1, <1>7
<1> QED BY <1>8, <1>9 DEF N

LEMMA ReferencesAre ==
    ASSUME NEW S, NEW entries \in Seq(S)
    PROVE  /\ References(entries, 0) = <<>>
           /\ \A n \in 1 .. Len(entries) :
                References(entries, n) =
                  IF entries[n].kind = "owner" THEN References(entries, n - 1)
                  ELSE Append(References(entries, n - 1), entries[n])
<1> DEFINE N == Len(entries)
           Is(f) == f = [i \in 0 .. N |->
                           IF i = 0 THEN <<>>
                           ELSE IF entries[i].kind = "owner" THEN f[i - 1]
                           ELSE Append(f[i - 1], entries[i])]
           g == [p \in (1 .. N) \X Seq(S) |->
                   IF entries[p[1]].kind = "owner" THEN p[2] ELSE Append(p[2], entries[p[1]])]
<1>1. N \in Nat /\ <<>> \in Seq(S) /\ \A n \in 1 .. N : entries[n] \in S OBVIOUS
<1> HIDE DEF N
<1>2. g \in [(1 .. N) \X Seq(S) -> Seq(S)]
  <2>1. \A p \in (1 .. N) \X Seq(S) : Append(p[2], entries[p[1]]) \in Seq(S) /\ p[2] \in Seq(S)
      BY <1>1
  <2> QED BY <2>1
<1>3. \A i \in 1 .. N : \A x \in Seq(S) :
         g[<<i, x>>] = IF entries[i].kind = "owner" THEN x ELSE Append(x, entries[i])
    OBVIOUS
<1> HIDE DEF g
<1>4. PICK f \in [0 .. N -> Seq(S)] : f[0] = <<>> /\ \A i \in 1 .. N : f[i] = g[<<i, f[i - 1]>>]
  <2> HIDE DEF Is
  <2>1. Steps(Seq(S), <<>>, N, g) BY <1>1, <1>2, StepByStep
  <2> QED BY <2>1 DEF Steps
<1>5. \A i \in 1 .. N : f[i] = IF entries[i].kind = "owner" THEN f[i - 1]
                                ELSE Append(f[i - 1], entries[i])
  <2> SUFFICES ASSUME NEW i \in 1 .. N
               PROVE  f[i] = IF entries[i].kind = "owner" THEN f[i - 1]
                             ELSE Append(f[i - 1], entries[i])
      OBVIOUS
  <2>1. i - 1 \in 0 .. N BY <1>1
  <2>2. f[i - 1] \in Seq(S) BY <2>1
  <2> QED BY <2>2, <1>3, <1>4
<1>6. Is(f)
  <2>1. \A i \in 0 .. N : f[i] = IF i = 0 THEN <<>>
                                 ELSE IF entries[i].kind = "owner" THEN f[i - 1]
                                 ELSE Append(f[i - 1], entries[i])
    <3>1. \A i \in 0 .. N : i # 0 => i \in 1 .. N BY <1>1
    <3> QED BY <3>1, <1>4, <1>5, Zenon
  <2> QED BY <2>1
<1> DEFINE some == CHOOSE s : Is(s)
<1>7. Is(some)
  <2> HIDE DEF Is
  <2> QED BY <1>6
<1>8. \A n : References(entries, n) = some[n] BY DEF References, N
<1> HIDE DEF some
<1>9. /\ some[0] = <<>>
      /\ \A n \in 1 .. N : some[n] = IF entries[n].kind = "owner" THEN some[n - 1]
                                     ELSE Append(some[n - 1], entries[n])
  <2>1. 0 \in 0 .. N /\ \A n \in 1 .. N : n \in 0 .. N /\ n # 0 BY <1>1
  <2> QED BY <2>1, <1>7
<1> QED BY <1>8, <1>9 DEF N

\* The more entries, the more references.
LEMMA CountGrows ==
    ASSUME NEW entries, IsEntries(entries), NEW p \in 0 .. Len(entries)
    PROVE  \A n \in p .. Len(entries) :
              /\ Count(entries, p) \in Nat /\ Count(entries, n) \in Nat
              /\ Count(entries, p) <= Count(entries, n)
<1> DEFINE N == Len(entries)
           C(n) == Count(entries, n)
<1>1. N \in Nat /\ \A n \in 1 .. N : entries[n].count \in Nat BY DEF IsEntries
<1>2. C(0) = 0 /\ \A n \in 1 .. N : C(n) = C(n - 1) + entries[n].count BY CountIs
<1> HIDE DEF N, C
<1>3. \A n \in 0 .. N : C(n) \in Nat
  <2> DEFINE T == {n \in 0 .. N : C(n) \notin Nat}
  <2> SUFFICES ASSUME T # {} PROVE FALSE OBVIOUS
  <2>1. T \in SUBSET Nat BY <1>1
  <2> HIDE DEF T
  <2>2. PICK n \in T : \A m \in T : n <= m BY <2>1, LeastNumber
  <2>3. n \in 0 .. N /\ C(n) \notin Nat /\ n # 0 BY <2>2, <1>2 DEF T
  <2>4. n \in 1 .. N /\ n - 1 \in 0 .. N BY <2>3, <1>1
  <2>5. n - 1 \notin T BY <2>2, <2>4
  <2>6. C(n - 1) \in Nat BY <2>4, <2>5 DEF T
  <2>7. C(n) = C(n - 1) + entries[n].count /\ entries[n].count \in Nat BY <2>4, <1>1, <1>2
  <2>8. C(n) \in Nat BY <2>6, <2>7
  <2> QED BY <2>3, <2>8
<1>4. p \in Nat /\ p \in 0 .. N /\ C(p) \in Nat BY <1>1, <1>3 DEF N
<1>5. \A n \in p .. N : C(p) <= C(n)
  <2> DEFINE T == {n \in p .. N : ~(C(p) <= C(n))}
  <2> SUFFICES ASSUME T # {} PROVE FALSE OBVIOUS
  <2>1. T \in SUBSET Nat BY <1>1, <1>4
  <2> HIDE DEF T
  <2>2. PICK n \in T : \A m \in T : n <= m BY <2>1, LeastNumber
  <2>3. n \in p .. N /\ ~(C(p) <= C(n)) /\ n # p BY <2>2, <1>4 DEF T
  <2>4. n \in 1 .. N /\ n - 1 \in p .. N /\ n - 1 \in 0 .. N BY <2>3, <1>1, <1>4
  <2>5. n - 1 \notin T BY <2>2, <2>4
  <2>6. C(p) <= C(n - 1) BY <2>4, <2>5 DEF T
  <2>7. C(n) = C(n - 1) + entries[n].count /\ entries[n].count \in Nat BY <2>4, <1>1, <1>2
  <2>8. C(n - 1) \in Nat BY <2>4, <1>3
  <2>9. C(p) <= C(n) BY <2>6, <2>7, <2>8, <1>4
  <2> QED BY <2>3, <2>9
<1>6. \A n \in p .. N : n \in 0 .. N BY <1>1, <1>4
<1> QED BY <1>3, <1>4, <1>5, <1>6 DEF C, N

\* What is read are the references among the entries, and nothing else.
LEMMA ReferencesRange ==
    ASSUME NEW S, NEW entries \in Seq(S)
    PROVE  \A n \in 0 .. Len(entries) :
              /\ References(entries, n) \in Seq(S)
              /\ \A x : (\E j \in 1 .. Len(References(entries, n)) : References(entries, n)[j] = x)
                          <=> (\E m \in 1 .. n : entries[m] = x /\ entries[m].kind # "owner")
<1> DEFINE N == Len(entries)
           R(n) == References(entries, n)
           Good(n) == /\ R(n) \in Seq(S)
                      /\ \A x : (\E j \in 1 .. Len(R(n)) : R(n)[j] = x)
                                  <=> (\E m \in 1 .. n : entries[m] = x /\ entries[m].kind # "owner")
           T == {n \in 0 .. N : ~Good(n)}
<1>1. N \in Nat /\ \A n \in 1 .. N : entries[n] \in S OBVIOUS
<1>2. R(0) = <<>> BY ReferencesAre
<1>3. \A n \in 1 .. N : R(n) = IF entries[n].kind = "owner" THEN R(n - 1)
                               ELSE Append(R(n - 1), entries[n])
    BY ReferencesAre
<1>4. SUFFICES \A n \in 0 .. N : Good(n) OBVIOUS
<1> HIDE DEF N, R
<1>5. Good(0)
  <2>1. <<>> \in Seq(S) /\ Len(<<>>) = 0 OBVIOUS
  <2>2. R(0) \in Seq(S) /\ Len(R(0)) = 0 BY <2>1, <1>2, Zenon
  <2> QED BY <2>2
<1>6. ASSUME NEW n \in 1 .. N, Good(n - 1) PROVE Good(n)
  <2>1. R(n - 1) \in Seq(S) /\ Len(R(n - 1)) \in Nat BY <1>6
  <2>2. CASE entries[n].kind = "owner"
    <3>1. R(n) = R(n - 1) BY <1>3, <2>2
    <3>2. \A x : (\E m \in 1 .. n : entries[m] = x /\ entries[m].kind # "owner")
                   <=> (\E m \in 1 .. n - 1 : entries[m] = x /\ entries[m].kind # "owner")
      <4>1. \A m \in 1 .. n : m = n \/ m \in 1 .. n - 1 BY <1>1
      <4>2. \A m \in 1 .. n - 1 : m \in 1 .. n BY <1>1
      <4> QED BY <4>1, <4>2, <2>2, Zenon
    <3>3. \A x : (\E j \in 1 .. Len(R(n)) : R(n)[j] = x)
                   <=> (\E m \in 1 .. n - 1 : entries[m] = x /\ entries[m].kind # "owner")
        BY <3>1, <1>6
    <3>4. \A x : (\E j \in 1 .. Len(R(n)) : R(n)[j] = x)
                   <=> (\E m \in 1 .. n : entries[m] = x /\ entries[m].kind # "owner")
        BY <3>2, <3>3
    <3> QED BY <3>1, <3>4, <2>1
  <2>3. CASE entries[n].kind # "owner"
    <3> DEFINE r == R(n - 1)
    <3>1. R(n) = Append(r, entries[n]) BY <1>3, <2>3
    <3>2. R(n) \in Seq(S) /\ Len(R(n)) = Len(r) + 1 /\ R(n)[Len(r) + 1] = entries[n]
          /\ \A j \in 1 .. Len(r) : R(n)[j] = r[j]
        BY <1>1, <2>1, <3>1
    <3> HIDE DEF r
    <3>3. Len(r) \in Nat BY <2>1 DEF r
    <3>4. \A x : (\E j \in 1 .. Len(R(n)) : R(n)[j] = x)
                   <=> (\E j \in 1 .. Len(r) : r[j] = x) \/ x = entries[n]
      <4>1. \A j \in 1 .. Len(R(n)) : j \in 1 .. Len(r) \/ j = Len(r) + 1 BY <3>2, <3>3
      <4>2. \A j \in 1 .. Len(r) : j \in 1 .. Len(R(n)) BY <3>2, <3>3
      <4>3. Len(r) + 1 \in 1 .. Len(R(n)) BY <3>2, <3>3
      <4> QED BY <4>1, <4>2, <4>3, <3>2
    <3>5. \A x : (\E m \in 1 .. n : entries[m] = x /\ entries[m].kind # "owner")
                   <=> \/ \E m \in 1 .. n - 1 : entries[m] = x /\ entries[m].kind # "owner"
                       \/ x = entries[n]
      <4>1. \A m \in 1 .. n : m = n \/ m \in 1 .. n - 1 BY <1>1
      <4>2. n \in 1 .. n /\ \A m \in 1 .. n - 1 : m \in 1 .. n BY <1>1
      <4> QED BY <4>1, <4>2, <2>3
    <3>6. \A x : (\E j \in 1 .. Len(r) : r[j] = x)
                   <=> (\E m \in 1 .. n - 1 : entries[m] = x /\ entries[m].kind # "owner")
        BY <1>6 DEF r
    <3>7. \A x : (\E j \in 1 .. Len(R(n)) : R(n)[j] = x)
                   <=> (\E m \in 1 .. n : entries[m] = x /\ entries[m].kind # "owner")
        BY <3>4, <3>5, <3>6
    <3> QED BY <3>2, <3>7
  <2> QED BY <2>2, <2>3
<1> HIDE DEF Good
<1> SUFFICES ASSUME T # {} PROVE FALSE OBVIOUS
<1>7. T \in SUBSET Nat BY <1>1
<1> HIDE DEF T
<1>8. PICK n \in T : \A m \in T : n <= m BY <1>7, LeastNumber
<1>9. n \in 0 .. N /\ ~Good(n) /\ n # 0 BY <1>5, <1>8 DEF T
<1>10. n \in 1 .. N /\ n - 1 \in 0 .. N BY <1>9, <1>1
<1>11. n - 1 \notin T BY <1>8, <1>10
<1>12. Good(n - 1) BY <1>10, <1>11 DEF T
<1> QED BY <1>6, <1>9, <1>10, <1>12

-----------------------------------------------------------------------------
(* Reading the account.                                                    *)

BaseRef == [file : Files, at : {"base"}, base : Nat, count : Nat \ {0}]

KeyedEntry == [kind : {"data", "shared"}, count : Nat \ {0}, ref : BaseRef]
                \union {[kind |-> "shared", count |-> 1]}

InlineEntry == KeyedEntry \union {[kind |-> "owner", count |-> 0]}

IsAccount(a) ==
    /\ a.data \in BOOLEAN
    /\ a.inline \in Seq(InlineEntry)
    /\ a.keyed \in Seq(KeyedEntry)

\* s is the end of t.
IsRest(s, t) ==
    /\ Len(s) <= Len(t)
    /\ \A i \in 1 .. Len(s) : s[i] = t[Len(t) - Len(s) + i]

\* The entries that were read, as long as none was passed over.
Position == Len(Entries) - Len(inline) - Len(keyed)

\* What was added up so far.
IsRead(n) ==
    /\ counted = Count(Entries, n)
    /\ data_refs = References(Entries, n)
    /\ \A m \in 1 .. n : Entries[m].kind # "shared"

Unread == /\ inline = <<>> /\ keyed = account.keyed
          /\ item = -1 /\ counted = 0 /\ data_refs = <<>>
          /\ opaque = FALSE

SomeShared == \E n \in 1 .. Len(Entries) : Entries[n].kind = "shared"

ReadInv ==
    /\ IsAccount(account)
    /\ inline \in Seq(InlineEntry) /\ IsRest(inline, account.inline)
    /\ keyed \in Seq(KeyedEntry) /\ IsRest(keyed, account.keyed)
    /\ inline # <<>> => keyed = account.keyed

AddedInv ==
    /\ part \in {"item", "inline"}
    /\ part = "item" => Unread
    /\ part = "inline" => item = IF account.data THEN Count(Entries, Len(Entries)) ELSE -1
    /\ part = "inline" /\ account.data /\ ~opaque => IsRead(Position)
    /\ opaque \in BOOLEAN /\ (opaque => SomeShared)

FinishInv ==
    /\ tally \in {"none", "nothing", "files", "opaque"}
    /\ tally # "none" => inline = <<>> /\ (left = 0 \/ (part = "inline" /\ keyed = <<>>))
    /\ tally \in {"files", "opaque"} => part = "inline" /\ account.data
    /\ tally = "files" => ~opaque /\ counted = item
    /\ tally = "opaque" => opaque \/ counted # item

TallyInv == ReadInv /\ AddedInv /\ FinishInv

LEMMA EntryKinds ==
    /\ KeyedEntry \subseteq InlineEntry
    /\ \A e \in InlineEntry : /\ e.kind \in {"data", "shared", "owner"} /\ e.count \in Nat
                              /\ e.kind # "owner" => e.count > 0
                              /\ e.kind = "owner" => e.count = 0
    /\ \A e \in KeyedEntry : e.kind \in {"data", "shared"}
    /\ \A e \in InlineEntry : e.kind = "data" => e.ref \in BaseRef
<1>1. \A e \in [kind : {"data", "shared"}, count : Nat \ {0}, ref : BaseRef] :
         /\ e.kind \in {"data", "shared"} /\ e.count \in Nat /\ e.count > 0
         /\ e.ref \in BaseRef
    OBVIOUS
<1>2. [kind |-> "shared", count |-> 1].kind = "shared" /\ [kind |-> "shared", count |-> 1].count = 1
    OBVIOUS
<1>3. [kind |-> "owner", count |-> 0].kind = "owner" /\ [kind |-> "owner", count |-> 0].count = 0
    OBVIOUS
<1> DEFINE A == [kind : {"data", "shared"}, count : Nat \ {0}, ref : BaseRef]
           b == [kind |-> "shared", count |-> 1]
           c == [kind |-> "owner", count |-> 0]
<1>4. \A e \in KeyedEntry : e \in A \/ e = b BY DEF KeyedEntry
<1>5. \A e \in InlineEntry : e \in KeyedEntry \/ e = c BY DEF InlineEntry
<1>6. KeyedEntry \subseteq InlineEntry BY DEF InlineEntry
<1>7. /\ \A e \in A : e.kind \in {"data", "shared"} /\ e.count \in Nat /\ e.count > 0
                      /\ e.ref \in BaseRef
      /\ b.kind = "shared" /\ b.count = 1 /\ c.kind = "owner" /\ c.count = 0
    BY <1>1, <1>2, <1>3
<1> HIDE DEF A, b, c
<1>8. \A e \in KeyedEntry : /\ e.kind \in {"data", "shared"} /\ e.count \in Nat /\ e.count > 0
                            /\ e.kind = "data" => e.ref \in BaseRef
    BY <1>4, <1>7
<1>9. \A e \in InlineEntry : /\ e.kind \in {"data", "shared", "owner"} /\ e.count \in Nat
                             /\ e.kind # "owner" => e.count > 0
                             /\ e.kind = "owner" => e.count = 0
                             /\ e.kind = "data" => e.ref \in BaseRef
    BY <1>5, <1>7, <1>8
<1> QED BY <1>6, <1>8, <1>9

LEMMA EntriesAre ==
    ASSUME IsAccount(account)
    PROVE  /\ Entries \in Seq(InlineEntry) /\ IsEntries(Entries)
           /\ Len(Entries) = Len(account.inline) + Len(account.keyed)
           /\ Len(account.inline) \in Nat /\ Len(account.keyed) \in Nat
           /\ \A i \in 1 .. Len(account.inline) : Entries[i] = account.inline[i]
           /\ \A i \in 1 .. Len(account.keyed) :
                /\ Entries[Len(account.inline) + i] = account.keyed[i]
                /\ account.keyed[i] \in KeyedEntry
<1> DEFINE a == account.inline
           b == account.keyed
<1>1. a \in Seq(InlineEntry) /\ b \in Seq(KeyedEntry) BY DEF IsAccount
<1>2. Entries = a \o b BY DEF Entries
<1> HIDE DEF a, b
<1>3. b \in Seq(InlineEntry) BY <1>1, EntryKinds
<1>4. /\ Len(a) \in Nat /\ Len(b) \in Nat
      /\ a \o b \in Seq(InlineEntry) /\ Len(a \o b) = Len(a) + Len(b)
      /\ \A i \in 1 .. Len(a) : (a \o b)[i] = a[i]
      /\ \A i \in 1 .. Len(b) : (a \o b)[Len(a) + i] = b[i]
    BY <1>1, <1>3
<1>5. \A i \in 1 .. Len(b) : b[i] \in KeyedEntry BY <1>1
<1>6. \A n \in 1 .. Len(Entries) : Entries[n] \in InlineEntry BY <1>2, <1>4
<1>7. IsEntries(Entries) BY <1>2, <1>4, <1>6, EntryKinds DEF IsEntries
<1> QED BY <1>2, <1>4, <1>5, <1>7 DEF a, b

\* The next entry is the one after those that were read.
LEMMA NextEntry ==
    ASSUME ReadInv
    PROVE  /\ Len(Entries) \in Nat /\ Position \in 0 .. Len(Entries)
           /\ inline = <<>> /\ keyed = <<>> => Position = Len(Entries)
           /\ inline # <<>> => /\ Len(inline) > 0
                               /\ Position + 1 \in 1 .. Len(Entries)
                               /\ Head(inline) = Entries[Position + 1]
                               /\ Head(inline) \in InlineEntry
           /\ inline = <<>> /\ keyed # <<>> => /\ Position + 1 \in 1 .. Len(Entries)
                                               /\ Head(keyed) = Entries[Position + 1]
                                               /\ Head(keyed) \in KeyedEntry
<1> DEFINE a == Len(account.inline)
           b == Len(account.keyed)
           N == Len(Entries)
<1>1. /\ a \in Nat /\ b \in Nat /\ N = a + b
      /\ \A i \in 1 .. a : Entries[i] = account.inline[i]
      /\ \A i \in 1 .. b : Entries[a + i] = account.keyed[i]
    BY EntriesAre DEF ReadInv
<1>2. /\ inline \in Seq(InlineEntry) /\ keyed \in Seq(KeyedEntry)
      /\ Len(inline) \in Nat /\ Len(keyed) \in Nat
      /\ Len(inline) <= a /\ Len(keyed) <= b
      /\ \A i \in 1 .. Len(inline) : inline[i] = account.inline[a - Len(inline) + i]
      /\ \A i \in 1 .. Len(keyed) : keyed[i] = account.keyed[b - Len(keyed) + i]
      /\ inline # <<>> => Len(keyed) = b
  <2>1. /\ inline \in Seq(InlineEntry) /\ keyed \in Seq(KeyedEntry)
        /\ IsRest(inline, account.inline) /\ IsRest(keyed, account.keyed)
        /\ inline # <<>> => keyed = account.keyed
      BY DEF ReadInv
  <2>2. Len(inline) \in Nat /\ Len(keyed) \in Nat BY <2>1
  <2>3. /\ Len(inline) <= a
        /\ \A i \in 1 .. Len(inline) : inline[i] = account.inline[a - Len(inline) + i]
      BY <2>1, Zenon DEF IsRest
  <2>4. /\ Len(keyed) <= b
        /\ \A i \in 1 .. Len(keyed) : keyed[i] = account.keyed[b - Len(keyed) + i]
      BY <2>1, Zenon DEF IsRest
  <2> QED BY <2>1, <2>2, <2>3, <2>4, Zenon
<1>3. Position = N - Len(inline) - Len(keyed) BY DEF Position
<1> HIDE DEF a, b, N
<1>4. Position \in 0 .. N /\ N \in Nat BY <1>1, <1>2, <1>3
<1>5. inline = <<>> /\ keyed = <<>> => Position = N
  <2>1. inline = <<>> => Len(inline) = 0 OBVIOUS
  <2>2. keyed = <<>> => Len(keyed) = 0 OBVIOUS
  <2>3. Len(inline) = 0 /\ Len(keyed) = 0 => Position = N BY <1>1, <1>3
  <2> QED BY <2>1, <2>2, <2>3
<1>6. ASSUME inline # <<>>
      PROVE  /\ Len(inline) > 0 /\ Position + 1 \in 1 .. N
             /\ Head(inline) = Entries[Position + 1] /\ Head(inline) \in InlineEntry
  <2>1. Len(inline) > 0 /\ Head(inline) = inline[1] /\ inline[1] \in InlineEntry BY <1>2, <1>6
  <2>2. Position + 1 = a - Len(inline) + 1
    <3>1. Len(keyed) = b BY <1>2, <1>6, Zenon
    <3>2. Position = (a + b) - Len(inline) - b BY <1>1, <1>3, <3>1
    <3>3. Len(inline) \in Nat BY <1>2
    <3> QED BY <3>2, <3>3, <1>1
  <2>3. a - Len(inline) + 1 \in 1 .. a /\ 1 \in 1 .. Len(inline) BY <1>1, <1>2, <2>1
  <2>4. inline[1] = Entries[a - Len(inline) + 1] BY <1>1, <1>2, <2>3
  <2>5. Position + 1 \in 1 .. N BY <1>1, <2>2, <2>3
  <2> QED BY <2>1, <2>2, <2>4, <2>5
<1>7. ASSUME inline = <<>>, keyed # <<>>
      PROVE  /\ Position + 1 \in 1 .. N
             /\ Head(keyed) = Entries[Position + 1] /\ Head(keyed) \in KeyedEntry
  <2>1. Len(keyed) > 0 /\ Head(keyed) = keyed[1] /\ keyed[1] \in KeyedEntry BY <1>2, <1>7
  <2>2. Len(inline) = 0 BY <1>7
  <2>3. Position + 1 = a + (b - Len(keyed) + 1) BY <1>1, <1>2, <1>3, <2>2
  <2>4. b - Len(keyed) + 1 \in 1 .. b /\ 1 \in 1 .. Len(keyed) BY <1>1, <1>2, <2>1
  <2>5. keyed[1] = Entries[a + (b - Len(keyed) + 1)] BY <1>1, <1>2, <2>4
  <2>6. Position + 1 \in 1 .. N BY <1>1, <2>3, <2>4
  <2> QED BY <2>1, <2>3, <2>5, <2>6
<1> QED BY <1>4, <1>5, <1>6, <1>7 DEF N

LEMMA RestOfRest ==
    ASSUME NEW S, NEW s \in Seq(S), NEW t, Len(t) \in Nat, s # <<>>, IsRest(s, t)
    PROVE  Tail(s) \in Seq(S) /\ Len(Tail(s)) = Len(s) - 1 /\ IsRest(Tail(s), t)
<1>1. /\ Len(s) \in Nat /\ Len(s) > 0 /\ Tail(s) \in Seq(S) /\ Len(Tail(s)) = Len(s) - 1
      /\ \A i \in 1 .. Len(s) - 1 : Tail(s)[i] = s[i + 1]
    OBVIOUS
<1>2. Len(Tail(s)) <= Len(t) BY <1>1 DEF IsRest
<1>3. ASSUME NEW i \in 1 .. Len(Tail(s))
      PROVE  Tail(s)[i] = t[Len(t) - Len(Tail(s)) + i]
  <2>1. i \in 1 .. Len(s) - 1 /\ i + 1 \in 1 .. Len(s) BY <1>1
  <2>2. Tail(s)[i] = s[i + 1] BY <1>1, <2>1
  <2>3. s[i + 1] = t[Len(t) - Len(s) + (i + 1)] BY <2>1 DEF IsRest
  <2>4. Len(t) - Len(s) + (i + 1) = Len(t) - Len(Tail(s)) + i BY <1>1, <2>1
  <2> QED BY <2>2, <2>3, <2>4
<1> QED BY <1>1, <1>2, <1>3 DEF IsRest

\* What one more entry makes of the references and their number.
LEMMA OneMore ==
    ASSUME IsAccount(account), NEW n \in 0 .. Len(Entries), n + 1 \in 1 .. Len(Entries)
    PROVE  LET e == Entries[n + 1]
           IN  /\ Count(Entries, n + 1) = Count(Entries, n) + e.count
               /\ e.kind = "owner" => /\ Count(Entries, n + 1) = Count(Entries, n)
                                      /\ References(Entries, n + 1) = References(Entries, n)
               /\ e.kind # "owner" => References(Entries, n + 1) = Append(References(Entries, n), e)
<1> DEFINE e == Entries[n + 1]
<1>1. Entries \in Seq(InlineEntry) /\ IsEntries(Entries) /\ Len(Entries) \in Nat
    BY EntriesAre DEF IsEntries
<1>2. e \in InlineEntry BY <1>1
<1>3. (n + 1) - 1 = n BY <1>1
<1>4. Count(Entries, n + 1) = Count(Entries, (n + 1) - 1) + e.count BY <1>1, CountIs
<1>5. References(Entries, n + 1) =
        IF e.kind = "owner" THEN References(Entries, (n + 1) - 1)
        ELSE Append(References(Entries, (n + 1) - 1), e)
    BY <1>1, ReferencesAre
<1>6. e.kind = "owner" => e.count = 0 BY <1>2, EntryKinds
<1>7. Count(Entries, n) \in Nat
  <2>1. n \in n .. Len(Entries) BY <1>1
  <2> QED BY <1>1, <2>1, CountGrows
<1> HIDE DEF e
<1>8. e.kind = "owner" => Count(Entries, n + 1) = Count(Entries, n) BY <1>3, <1>4, <1>6, <1>7
<1>9. Count(Entries, n + 1) = Count(Entries, n) + e.count BY <1>3, <1>4
<1>10. References(Entries, n + 1) =
         IF e.kind = "owner" THEN References(Entries, n) ELSE Append(References(Entries, n), e)
    BY <1>3, <1>5
<1> QED BY <1>8, <1>9, <1>10 DEF e

\* The end of a sequence is its end, and so is nothing.
LEMMA RestTrivial ==
    ASSUME NEW S, NEW t \in Seq(S)
    PROVE  IsRest(t, t) /\ <<>> \in Seq(S) /\ IsRest(<<>>, t)
<1>1. Len(t) \in Nat /\ Len(<<>>) = 0 /\ <<>> \in Seq(S) OBVIOUS
<1>2. \A i \in 1 .. Len(t) : Len(t) - Len(t) + i = i BY <1>1
<1>3. IsRest(t, t) BY <1>1, <1>2 DEF IsRest
<1>4. IsRest(<<>>, t) BY <1>1 DEF IsRest
<1> QED BY <1>1, <1>3, <1>4

LEMMA TallyFirst ==
    ASSUME NEW accounts, \A a \in accounts : IsAccount(a), TallyInit(accounts)
    PROVE  TallyInv
<1>1. IsAccount(account) BY DEF TallyInit
<1>2. account.inline \in Seq(InlineEntry) /\ account.keyed \in Seq(KeyedEntry) BY <1>1 DEF IsAccount
<1>3. ReadInv BY <1>1, <1>2, RestTrivial DEF ReadInv, TallyInit
<1>4. AddedInv BY DEF AddedInv, Unread, TallyInit
<1>5. FinishInv BY DEF FinishInv, TallyInit
<1> QED BY <1>3, <1>4, <1>5 DEF TallyInv

LEMMA TallyStays ==
    ASSUME TallyInv, UNCHANGED tallyvars
    PROVE  TallyInv'
<1> USE DEF tallyvars
<1>1. Entries' = Entries BY DEF Entries
<1>2. Position' = Position BY <1>1 DEF Position
<1>3. ReadInv' BY DEF TallyInv, ReadInv
<1>4. AddedInv'
  <2>1. SomeShared' = SomeShared BY <1>1 DEF SomeShared
  <2>2. Unread' = Unread BY DEF Unread
  <2>3. IsRead(Position)' = IsRead(Position) BY <1>1, <1>2 DEF IsRead
  <2> QED BY <1>1, <2>1, <2>2, <2>3 DEF TallyInv, AddedInv
<1>5. FinishInv' BY DEF TallyInv, FinishInv
<1> QED BY <1>3, <1>4, <1>5 DEF TallyInv

LEMMA AddExtentItemStep ==
    ASSUME TallyInv, AddExtentItem
    PROVE  TallyInv'
<1> USE DEF AddExtentItem
<1>1. Unread /\ IsAccount(account) /\ account' = account /\ keyed' = keyed
    BY DEF TallyInv, AddedInv, ReadInv
<1>2. Entries' = Entries BY DEF Entries
<1>3. account.inline \in Seq(InlineEntry) /\ account.keyed \in Seq(KeyedEntry) BY <1>1 DEF IsAccount
<1>4. keyed = account.keyed /\ inline = <<>> BY <1>1 DEF Unread
<1>5. inline' = IF account.data THEN account.inline ELSE <<>> BY <1>4
<1>6. ReadInv' BY <1>1, <1>3, <1>4, <1>5, RestTrivial DEF ReadInv
<1>7. part' = "inline" /\ item' = IF account.data THEN Count(Entries, Len(Entries)) ELSE -1
    BY <1>1 DEF Unread
<1>8. ~opaque' /\ opaque' \in BOOLEAN /\ counted' = 0 /\ data_refs' = <<>> BY <1>1 DEF Unread
<1>9. account.data => IsRead(Position)'
  <2> SUFFICES ASSUME account.data PROVE IsRead(Position)' OBVIOUS
  <2>1. Entries \in Seq(InlineEntry) /\ IsEntries(Entries)
        /\ Len(Entries) = Len(account.inline) + Len(account.keyed)
        /\ Len(account.inline) \in Nat /\ Len(account.keyed) \in Nat
      BY <1>1, EntriesAre
  <2>2. Position' = Len(Entries) - Len(account.inline) - Len(account.keyed)
      BY <1>2, <1>4, <1>5 DEF Position
  <2>3. Position' = 0 BY <2>1, <2>2
  <2>4. Count(Entries, 0) = 0 /\ References(Entries, 0) = <<>> BY <2>1, CountIs, ReferencesAre
  <2> QED BY <1>2, <1>8, <2>3, <2>4 DEF IsRead
<1>10. AddedInv' BY <1>1, <1>2, <1>7, <1>8, <1>9 DEF AddedInv
<1>11. tally = "none" /\ tally' = tally BY DEF TallyInv, FinishInv
<1>12. FinishInv' BY <1>11 DEF FinishInv
<1> QED BY <1>6, <1>10, <1>12 DEF TallyInv

\* An entry was read.
LEMMA ReadOn ==
    ASSUME IsAccount(account), UNCHANGED account,
           Len(Entries) \in Nat, Position \in 0 .. Len(Entries),
           Position + 1 \in 1 .. Len(Entries), Position' = Position + 1,
           NEW e, e = Entries[Position + 1], IsRead(Position),
           \/ e.kind = "data" /\ add_data_ref(e)
           \/ e.kind = "owner" /\ UNCHANGED <<counted, data_refs>>
    PROVE  IsRead(Position)'
<1>1. Entries' = Entries BY DEF Entries
<1>2. /\ Count(Entries, Position + 1) = Count(Entries, Position) + e.count
      /\ e.kind = "owner" => /\ Count(Entries, Position + 1) = Count(Entries, Position)
                             /\ References(Entries, Position + 1) = References(Entries, Position)
      /\ e.kind # "owner" =>
           References(Entries, Position + 1) = Append(References(Entries, Position), e)
    BY OneMore
<1>3. counted = Count(Entries, Position) /\ data_refs = References(Entries, Position) BY DEF IsRead
<1>4. \A m \in 1 .. Position + 1 : Entries[m].kind # "shared"
  <2>1. \A m \in 1 .. Position + 1 : m \in 1 .. Position \/ m = Position + 1 OBVIOUS
  <2>2. e.kind # "shared" OBVIOUS
  <2> QED BY <2>1, <2>2 DEF IsRead
<1>5. CASE e.kind = "data" /\ add_data_ref(e)
  <2>1. counted' = Count(Entries, Position + 1) /\ data_refs' = References(Entries, Position + 1)
      BY <1>2, <1>3, <1>5 DEF add_data_ref
  <2> QED BY <1>1, <1>4, <2>1 DEF IsRead
<1>6. CASE e.kind = "owner" /\ UNCHANGED <<counted, data_refs>>
  <2>1. counted' = Count(Entries, Position + 1) /\ data_refs' = References(Entries, Position + 1)
      BY <1>2, <1>3, <1>6
  <2> QED BY <1>1, <1>4, <2>1 DEF IsRead
<1> QED BY <1>5, <1>6

LEMMA AddInlineStep ==
    ASSUME TallyInv, AddInline
    PROVE  TallyInv'
<1>1. /\ part = "inline" /\ inline # <<>>
      /\ account' = account /\ left' = left /\ part' = part /\ keyed' = keyed
      /\ item' = item /\ tally' = tally
    BY DEF AddInline
<1>2. Entries' = Entries /\ SomeShared' = SomeShared BY <1>1 DEF Entries, SomeShared
<1>3. ReadInv BY DEF TallyInv
<1>4. /\ Len(Entries) \in Nat /\ Position \in 0 .. Len(Entries)
      /\ Position + 1 \in 1 .. Len(Entries) /\ Head(inline) = Entries[Position + 1]
    BY <1>1, <1>3, NextEntry
<1>5. /\ IsAccount(account) /\ inline \in Seq(InlineEntry) /\ IsRest(inline, account.inline)
      /\ account.inline \in Seq(InlineEntry) /\ Len(account.inline) \in Nat
      /\ keyed \in Seq(KeyedEntry) /\ keyed = account.keyed
    BY <1>1, <1>3, EntriesAre DEF ReadInv, IsAccount
<1>6. /\ Tail(inline) \in Seq(InlineEntry) /\ Len(Tail(inline)) = Len(inline) - 1
      /\ IsRest(Tail(inline), account.inline)
    BY <1>1, <1>5, RestOfRest
<1>7. inline' = Tail(inline) \/ inline' = <<>> BY DEF AddInline
<1>8. ReadInv'
  <2>1. inline' \in Seq(InlineEntry) /\ IsRest(inline', account.inline)
      BY <1>5, <1>6, <1>7, RestTrivial
  <2> QED BY <1>1, <1>3, <1>5, <2>1 DEF ReadInv
<1>9. FinishInv'
  <2>1. tally = "none" BY <1>1 DEF TallyInv, FinishInv
  <2> QED BY <1>1, <2>1 DEF FinishInv
<1>10. /\ item = IF account.data THEN Count(Entries, Len(Entries)) ELSE -1
       /\ account.data /\ ~opaque => IsRead(Position)
       /\ opaque \in BOOLEAN /\ (opaque => SomeShared)
    BY <1>1 DEF TallyInv, AddedInv
<1>11. CASE Head(inline).kind = "shared" /\ opaque' = TRUE
  <2>1. SomeShared BY <1>4, <1>11 DEF SomeShared
  <2> QED BY <1>1, <1>2, <1>8, <1>9, <1>10, <1>11, <2>1 DEF TallyInv, AddedInv
<1>12. CASE /\ inline' = Tail(inline) /\ opaque' = opaque
            /\ \/ Head(inline).kind = "data" /\ add_data_ref(Head(inline))
               \/ Head(inline).kind = "owner" /\ UNCHANGED <<counted, data_refs>>
  <2>1. Position' = Position + 1
    <3>1. Position' = Len(Entries) - (Len(inline) - 1) - Len(keyed)
        BY <1>1, <1>2, <1>6, <1>12 DEF Position
    <3>2. Len(inline) \in Nat /\ Len(keyed) \in Nat BY <1>5
    <3> QED BY <3>1, <3>2, <1>4 DEF Position
  <2>2. account.data /\ ~opaque => IsRead(Position)'
      BY <1>1, <1>4, <1>5, <1>10, <1>12, <2>1, ReadOn
  <2>3. AddedInv' BY <1>1, <1>2, <1>10, <1>12, <2>2 DEF AddedInv
  <2> QED BY <1>8, <1>9, <2>3 DEF TallyInv
<1> QED BY <1>11, <1>12 DEF AddInline

LEMMA AddKeyedStep ==
    ASSUME TallyInv, AddKeyed
    PROVE  TallyInv'
<1>1. /\ part = "inline" /\ inline = <<>> /\ keyed # <<>> /\ left > 0
      /\ account' = account /\ part' = part /\ keyed' = Tail(keyed) /\ inline' = inline
      /\ item' = item /\ tally' = tally
    BY DEF AddKeyed
<1>2. Entries' = Entries /\ SomeShared' = SomeShared BY <1>1 DEF Entries, SomeShared
<1>3. ReadInv BY DEF TallyInv
<1>4. /\ Len(Entries) \in Nat /\ Position \in 0 .. Len(Entries)
      /\ Position + 1 \in 1 .. Len(Entries) /\ Head(keyed) = Entries[Position + 1]
      /\ Head(keyed) \in KeyedEntry
    BY <1>1, <1>3, NextEntry
<1>5. /\ IsAccount(account) /\ keyed \in Seq(KeyedEntry) /\ IsRest(keyed, account.keyed)
      /\ Len(account.keyed) \in Nat /\ inline \in Seq(InlineEntry)
      /\ IsRest(inline, account.inline)
    BY <1>1, <1>3, EntriesAre DEF ReadInv
<1>6. /\ Tail(keyed) \in Seq(KeyedEntry) /\ Len(Tail(keyed)) = Len(keyed) - 1
      /\ IsRest(Tail(keyed), account.keyed)
    BY <1>1, <1>5, RestOfRest
<1>7. ReadInv' BY <1>1, <1>5, <1>6 DEF ReadInv
<1>8. FinishInv'
  <2>1. tally = "none" BY <1>1 DEF TallyInv, FinishInv
  <2> QED BY <1>1, <2>1 DEF FinishInv
<1>9. /\ item = IF account.data THEN Count(Entries, Len(Entries)) ELSE -1
      /\ account.data /\ ~opaque => IsRead(Position)
      /\ opaque \in BOOLEAN /\ (opaque => SomeShared)
    BY <1>1 DEF TallyInv, AddedInv
<1>10. CASE Head(keyed).kind # "data"
  <2>1. Head(keyed).kind = "shared" BY <1>4, <1>10, EntryKinds
  <2>2. SomeShared BY <1>4, <2>1 DEF SomeShared
  <2>3. opaque' = TRUE BY <1>10 DEF AddKeyed
  <2> QED BY <1>1, <1>2, <1>7, <1>8, <1>9, <2>2, <2>3 DEF TallyInv, AddedInv
<1>11. CASE Head(keyed).kind = "data"
  <2>1. add_data_ref(Head(keyed)) /\ opaque' = opaque BY <1>11 DEF AddKeyed
  <2>2. Position' = Position + 1
    <3>1. Position' = Len(Entries) - Len(inline) - (Len(keyed) - 1)
        BY <1>1, <1>2, <1>6 DEF Position
    <3>2. Len(inline) \in Nat /\ Len(keyed) \in Nat BY <1>5
    <3> QED BY <3>1, <3>2, <1>4 DEF Position
  <2>3. account.data /\ ~opaque => IsRead(Position)'
      BY <1>1, <1>4, <1>5, <1>9, <1>11, <2>1, <2>2, ReadOn
  <2>4. AddedInv' BY <1>1, <1>2, <1>9, <2>1, <2>3 DEF AddedInv
  <2> QED BY <1>7, <1>8, <2>4 DEF TallyInv
<1> QED BY <1>10, <1>11

\* There is no telling a data extent's number of references from none.
LEMMA CountIsNumber ==
    ASSUME IsAccount(account)
    PROVE  Count(Entries, Len(Entries)) \in Nat
<1>1. IsEntries(Entries) /\ Len(Entries) \in Nat BY EntriesAre DEF IsEntries
<1>2. 0 \in 0 .. Len(Entries) /\ Len(Entries) \in 0 .. Len(Entries) BY <1>1
<1> QED BY <1>1, <1>2, CountGrows

LEMMA FinishStep ==
    ASSUME TallyInv, Finish
    PROVE  TallyInv'
<1>1. /\ tally = "none" /\ inline = <<>> /\ (left = 0 \/ (part = "inline" /\ keyed = <<>>))
      /\ tally' = IF item = -1 THEN "nothing"
                  ELSE IF opaque \/ counted # item THEN "opaque" ELSE "files"
      /\ account' = account /\ left' = left /\ part' = part /\ inline' = inline
      /\ keyed' = keyed /\ item' = item /\ counted' = counted /\ data_refs' = data_refs
      /\ opaque' = opaque
    BY DEF Finish
<1>2. Entries' = Entries /\ SomeShared' = SomeShared BY <1>1 DEF Entries, SomeShared
<1>3. ReadInv' BY <1>1 DEF TallyInv, ReadInv
<1>4. AddedInv'
  <2>1. Position' = Position BY <1>1, <1>2 DEF Position
  <2>2. IsRead(Position)' = IsRead(Position) BY <1>1, <1>2, <2>1 DEF IsRead
  <2>3. Unread' = Unread BY <1>1 DEF Unread
  <2> QED BY <1>1, <1>2, <2>2, <2>3 DEF TallyInv, AddedInv
<1>5. item # -1 => part = "inline" /\ account.data
    BY DEF TallyInv, AddedInv, ReadInv, IsAccount, Unread
<1>6. opaque \in BOOLEAN BY DEF TallyInv, AddedInv
<1>7. FinishInv'
  <2>1. CASE item = -1 BY <1>1, <2>1 DEF FinishInv
  <2>2. CASE item # -1 BY <1>1, <1>5, <1>6, <2>2 DEF FinishInv
  <2> QED BY <2>1, <2>2
<1> QED BY <1>3, <1>4, <1>7 DEF TallyInv

LEMMA TallyStep ==
    ASSUME TallyInv, TallyNext
    PROVE  TallyInv'
BY AddExtentItemStep, AddInlineStep, AddKeyedStep, FinishStep DEF TallyNext

LEMMA TallyIsRight ==
    ASSUME TallyInv
    PROVE  FilesIsEverything /\ OpaqueForAReason
<1> DEFINE N == Len(Entries)
<1>1. ReadInv /\ IsAccount(account) BY DEF TallyInv, ReadInv
<1>2. /\ N \in Nat /\ Position \in 0 .. N
      /\ inline = <<>> /\ keyed = <<>> => Position = N
      /\ inline = <<>> /\ keyed # <<>> => /\ Position + 1 \in 1 .. N
                                          /\ Head(keyed) = Entries[Position + 1]
                                          /\ Head(keyed) \in KeyedEntry
    BY <1>1, NextEntry
<1>3. tally \in {"files", "opaque"} =>
        /\ part = "inline" /\ account.data /\ inline = <<>>
        /\ item = Count(Entries, N)
        /\ ~opaque => IsRead(Position)
    BY DEF TallyInv, FinishInv, AddedInv
<1>4. ASSUME tally = "files" PROVE FilesIsEverything
  <2>1. /\ account.data /\ inline = <<>> /\ item = Count(Entries, N) /\ IsRead(Position)
        /\ counted = item
      BY <1>3, <1>4 DEF TallyInv, FinishInv
  <2>2. Count(Entries, Position) = Count(Entries, N) BY <2>1 DEF IsRead
  <2>3. keyed = <<>>
    <3> SUFFICES ASSUME keyed # <<>> PROVE FALSE OBVIOUS
    <3> DEFINE e == Entries[Position + 1]
    <3>1. Position + 1 \in 1 .. N /\ e \in KeyedEntry BY <1>2, <2>1
    <3>2. e.count \in Nat /\ e.count > 0 BY <3>1, EntryKinds
    <3>3. Count(Entries, Position + 1) = Count(Entries, Position) + e.count
        BY <1>1, <1>2, <3>1, OneMore
    <3>4. IsEntries(Entries) BY <1>1, EntriesAre
    <3>5. Position + 1 \in 0 .. N /\ N \in Position + 1 .. N /\ Position \in Position .. N
        BY <1>2, <3>1
    <3>6. Count(Entries, Position + 1) <= Count(Entries, N)
          /\ Count(Entries, N) \in Nat /\ Count(Entries, Position + 1) \in Nat
        BY <3>4, <3>5, CountGrows
    <3>7. Count(Entries, Position) \in Nat BY <1>2, <3>4, <3>5, CountGrows
    <3> HIDE DEF e, N
    <3> QED BY <2>2, <3>2, <3>3, <3>6, <3>7
  <2>4. IsRead(N) BY <1>2, <2>1, <2>3
  <2> QED BY <2>1, <2>4 DEF IsRead, FilesIsEverything
<1>5. ASSUME tally = "opaque" PROVE OpaqueForAReason
  <2> SUFFICES ASSUME keyed = <<>> PROVE SomeShared BY DEF OpaqueForAReason, SomeShared
  <2>1. inline = <<>> /\ item = Count(Entries, N) /\ (~opaque => IsRead(Position)) BY <1>3, <1>5
  <2>2. Position = N BY <1>2, <2>1
  <2>3. ~opaque => counted = item BY <2>1, <2>2 DEF IsRead
  <2>4. opaque BY <1>5, <2>3 DEF TallyInv, FinishInv, AddedInv
  <2> QED BY <2>4 DEF TallyInv, AddedInv
<1> QED BY <1>4, <1>5 DEF FilesIsEverything, OpaqueForAReason

-----------------------------------------------------------------------------
(* Where the items of a DataRef are.                                       *)

\* ref is said to stand for it.
Covers(ref, it) ==
    /\ it.file = ref.file
    /\ it.file_offset >= Stretch(ref).start
    /\ it.file_offset <= Stretch(ref).last
    /\ Belongs(it, ref)

LEMMA FoundIs == \A ref : Found(ref) = {it \in Own(items) : Covers(ref, it)}
BY DEF Found, Covers

LEMMA ItemFacts ==
    \A it \in Items : /\ it.file \in Files /\ it.own \in BOOLEAN
                      /\ it.file_offset \in Nat /\ it.extent_offset \in Nat
                      /\ 2 * it.file_offset < Word
<1>1. Items \subseteq Item /\ \A it \in Items : 2 * it.file_offset < Word BY DataRefAssumption
<1>2. \A it \in Item : /\ it.file \in Files /\ it.own \in BOOLEAN
                       /\ it.file_offset \in Nat /\ it.extent_offset \in Nat
    BY DEF Item
<1> QED BY <1>1, <1>2

\* The most bytes an extent can have uncompressed.
Uncompressed == IF extent.disk_bytes > MaxCompressed THEN extent.disk_bytes ELSE MaxCompressed

LEMMA ExtentFacts ==
    ASSUME extent \in Extents
    PROVE  /\ Word \in Nat /\ Uncompressed \in Nat /\ Uncompressed >= 1
           /\ 2 * Uncompressed <= Word
           /\ extent.ram_bytes \in Nat /\ extent.ram_bytes <= Uncompressed
<1>1. /\ Word \in Nat /\ MaxCompressed \in Nat /\ MaxCompressed >= 1
      /\ 2 * MaxCompressed <= Word
    BY DataRefAssumption
<1>2. extent \in [disk_bytes : Nat, ram_bytes : Nat] /\ 2 * extent.disk_bytes <= Word
      /\ (extent.ram_bytes = extent.disk_bytes \/ extent.ram_bytes <= MaxCompressed)
    BY DataRefAssumption
<1>3. extent.disk_bytes \in Nat /\ extent.ram_bytes \in Nat BY <1>2
<1>4. CASE extent.disk_bytes > MaxCompressed BY <1>1, <1>2, <1>3, <1>4 DEF Uncompressed
<1>5. CASE ~(extent.disk_bytes > MaxCompressed) BY <1>1, <1>2, <1>3, <1>5 DEF Uncompressed
<1> QED BY <1>4, <1>5

\* The stretch of a base has every item with that base, also if it wraps.
LEMMA BaseCovers ==
    ASSUME extent \in Extents, NEW it \in Items, it.extent_offset < extent.ram_bytes,
           NEW ref, ref.at = "base", ref.base = Base(it), ref.file = it.file
    PROVE  Base(it) \in Nat /\ Covers(ref, it)
<1> DEFINE fo == it.file_offset
           eo == it.extent_offset
           U == Uncompressed
           b == ref.base
           last == wrapping_add(b, U - 1)
<1>1. Stretch(ref) = [start |-> IF last >= b THEN b ELSE 0, last |-> last]
    BY DEF Stretch, Uncompressed
<1>2. b = (IF fo >= eo THEN fo - eo ELSE fo - eo + Word) BY DEF Base, wrapping_sub
<1>3. last = (IF b + (U - 1) < Word THEN b + (U - 1) ELSE b + (U - 1) - Word) BY DEF wrapping_add
<1>4. fo \in Nat /\ eo \in Nat /\ 2 * fo < Word BY ItemFacts
<1>5. U \in Nat /\ U >= 1 /\ 2 * U <= Word /\ Word \in Nat /\ eo <= U - 1
  <2>1. /\ U \in Nat /\ U >= 1 /\ 2 * U <= Word /\ Word \in Nat
        /\ extent.ram_bytes \in Nat /\ extent.ram_bytes <= U
      BY ExtentFacts
  <2>2. eo < extent.ram_bytes OBVIOUS
  <2> HIDE DEF eo, U
  <2> QED BY <1>4, <2>1, <2>2
<1> HIDE DEF last, U, fo, eo, b
<1>6. b \in Nat /\ (IF last >= b THEN b ELSE 0) <= fo /\ fo <= last
  <2>1. CASE fo >= eo
    <3>1. b = fo - eo BY <1>2, <2>1
    <3>2. last = b + (U - 1) BY <1>3, <1>4, <1>5, <2>1, <3>1
    <3> QED BY <1>4, <1>5, <2>1, <3>1, <3>2
  <2>2. CASE ~(fo >= eo)
    <3>1. b = fo - eo + Word BY <1>2, <2>2
    <3>2. ~(b + (U - 1) < Word) BY <1>4, <1>5, <2>2, <3>1
    <3>3. last = b + (U - 1) - Word BY <1>3, <3>2
    <3>4. last = fo - eo + (U - 1) BY <1>4, <1>5, <3>1, <3>3
    <3>5. ~(last >= b) /\ b \in Nat BY <1>4, <1>5, <3>1, <3>4
    <3> QED BY <1>4, <1>5, <3>4, <3>5
  <2> QED BY <2>1, <2>2
<1>7. Stretch(ref).start = (IF last >= b THEN b ELSE 0) /\ Stretch(ref).last = last BY <1>1
<1>8. last \in Int BY <1>3, <1>5, <1>6
<1>9. fo >= Stretch(ref).start /\ fo <= Stretch(ref).last BY <1>4, <1>6, <1>7, <1>8
<1> QED BY <1>6, <1>9 DEF Covers, Belongs, b, fo

-----------------------------------------------------------------------------
(* What the extent tree says.                                              *)

LEMMA SetToSeqIs ==
    ASSUME NEW S, IsFiniteSet(S)
    PROVE  /\ Cardinality(S) \in Nat
           /\ SetToSeq(S) \in [1 .. Cardinality(S) -> S]
           /\ \A x \in S : \E n \in 1 .. Cardinality(S) : SetToSeq(S)[n] = x
<1> DEFINE C == Cardinality(S)
           F == [1 .. C -> S]
<1>1. C \in Nat /\ ExistsBijection(1 .. C, S) BY FS_CardinalityType
<1> HIDE DEF C
<1>2. \E f \in F : IsInjective(f) BY <1>1 DEF ExistsBijection, Bijection, Injection
<1> DEFINE s == CHOOSE f \in F : IsInjective(f)
<1>3. s \in F /\ IsInjective(s)
  <2> HIDE DEF F
  <2> QED BY <1>2
<1>4. SetToSeq(S) = s BY DEF SetToSeq, C
<1> HIDE DEF s
<1>5. s \in Injection(1 .. C, S) BY <1>3 DEF Injection
<1>6. IsFiniteSet(1 .. C) /\ Cardinality(1 .. C) = C BY <1>1, FS_Interval
<1>7. s \in Surjection(1 .. C, S) BY <1>5, <1>6, FS_Injection DEF C
<1>8. \A x \in S : \E n \in 1 .. C : s[n] = x BY <1>7 DEF Surjection
<1> QED BY <1>1, <1>3, <1>4, <1>8 DEF C

\* The items are within the extent, and a file has one at an offset.
ItemsInv ==
    /\ extent \in Extents
    /\ items \subseteq Items
    /\ \A it \in Own(items) : it.extent_offset < extent.ram_bytes
    /\ \A a, b \in items : Same(a, b) => a = b

LEMMA OwnFacts ==
    ASSUME ItemsInv
    PROVE  /\ IsFiniteSet(Own(items)) /\ Own(items) \subseteq items /\ Own(items) \subseteq Items
           /\ \A it \in Own(items) : Base(it) \in Nat
<1>1. Own(items) \subseteq items /\ Own(items) \subseteq Items BY DEF Own, ItemsInv
<1>2. IsFiniteSet(Items) BY DataRefAssumption
<1>3. IsFiniteSet(Own(items)) BY <1>1, <1>2, FS_Subset
<1>4. ASSUME NEW it \in Own(items) PROVE Base(it) \in Nat
  <2> DEFINE ref == [file |-> it.file, at |-> "base", base |-> Base(it)]
  <2>1. ref.at = "base" /\ ref.base = Base(it) /\ ref.file = it.file OBVIOUS
  <2> HIDE DEF ref
  <2>2. it \in Items /\ it.extent_offset < extent.ram_bytes /\ extent \in Extents
      BY <1>1, <1>4 DEF ItemsInv
  <2> QED BY <2>1, <2>2, BaseCovers
<1> QED BY <1>1, <1>3, <1>4

\* The items of it's file with it's base.
Likes(it) == {x \in Own(items) : x.file = it.file /\ Base(x) = Base(it)}

TreeRef(it) == [file |-> it.file, at |-> "base", base |-> Base(it), count |-> Cardinality(Likes(it))]

LEMMA TreeIs ==
    ASSUME ItemsInv
    PROVE  /\ ExtentTree(items) = {TreeRef(it) : it \in Own(items)}
           /\ ExtentTree(items) \subseteq BaseRef
           /\ IsFiniteSet(ExtentTree(items))
<1> DEFINE T == {TreeRef(it) : it \in Own(items)}
<1>1. ExtentTree(items) = T BY DEF ExtentTree, TreeRef, Likes
<1>2. ASSUME NEW it \in Own(items) PROVE TreeRef(it) \in BaseRef
  <2>1. Likes(it) \in SUBSET Own(items) /\ it \in Likes(it) BY DEF Likes
  <2>2. IsFiniteSet(Likes(it)) BY <2>1, OwnFacts, FS_Subset
  <2>3. Cardinality(Likes(it)) \in Nat BY <2>2, FS_CardinalityType
  <2>4. Cardinality(Likes(it)) # 0 BY <2>1, <2>2, FS_EmptySet
  <2>5. Base(it) \in Nat /\ it.file \in Files BY OwnFacts, ItemFacts
  <2> QED BY <2>3, <2>4, <2>5 DEF TreeRef, BaseRef
<1>3. IsFiniteSet(T)
  <2> DEFINE f == [it \in Own(items) |-> TreeRef(it)]
  <2>1. f \in Surjection(Own(items), T) BY DEF Surjection
  <2> HIDE DEF f, T
  <2> QED BY <2>1, OwnFacts, FS_Surjection
<1> QED BY <1>1, <1>2, <1>3

\* The DataRefs of a sequence of entries.
Refs(entries) == {entries[n].ref : n \in {m \in 1 .. Len(entries) : entries[m].kind # "owner"}}

\* What a sequence is made of that begins with a and goes on with b.
JoinIs(a, b) ==
    /\ Len(a \o b) = Len(a) + Len(b)
    /\ \A i \in 1 .. Len(a) : (a \o b)[i] = a[i]
    /\ \A i \in 1 .. Len(b) : (a \o b)[Len(a) + i] = b[i]

LEMMA Joined ==
    ASSUME NEW S, NEW a \in Seq(S), NEW b \in Seq(S)
    PROVE  JoinIs(a, b)
BY DEF JoinIs

\* The entries of e are in two parts.
PartsOf(e, inl, key) ==
    /\ inl \in Seq(InlineEntry) /\ key \in Seq(KeyedEntry)
    /\ Refs(inl \o key) = {e[n].ref : n \in 1 .. Len(e)}

\* The first part may be behind an owner.
LEMMA Parts ==
    ASSUME NEW e \in Seq(KeyedEntry), NEW k \in 0 .. Len(e),
           NEW owner \in {<<>>, <<[kind |-> "owner", count |-> 0]>>}
    PROVE  PartsOf(e, owner \o SubSeq(e, 1, k), SubSeq(e, k + 1, Len(e)))
<1> DEFINE o == [kind |-> "owner", count |-> 0]
           s == SubSeq(e, 1, k)
           inl == owner \o s
           key == SubSeq(e, k + 1, Len(e))
           c == Len(owner)
           both == inl \o key
<1>1. KeyedEntry \subseteq InlineEntry /\ o \in InlineEntry BY DEF InlineEntry
<1>2. Len(e) \in Nat /\ k \in Nat /\ k <= Len(e) OBVIOUS
<1>3. s \in Seq(KeyedEntry) /\ Len(s) = k /\ \A i \in 1 .. k : s[i] = e[i] BY <1>2
<1>4. key \in Seq(KeyedEntry) /\ Len(key) = Len(e) - k /\ \A i \in 1 .. Len(e) - k : key[i] = e[k + i]
  <2>1. k + 1 \in 1 .. Len(e) + 1 BY <1>2
  <2>2. key \in Seq(KeyedEntry) /\ Len(key) = Len(e) - k
      BY <1>2, <2>1
  <2>3. \A i \in 1 .. Len(e) - k : key[i] = e[k + i] BY <1>2, <2>1
  <2> QED BY <2>2, <2>3
<1>5. o.kind = "owner" OBVIOUS
<1>6. owner \in Seq(InlineEntry) /\ c \in 0 .. 1 /\ \A i \in 1 .. c : owner[i].kind = "owner"
  <2>1. CASE owner = <<>> BY <2>1
  <2>2. CASE owner = <<o>>
    <3> HIDE DEF o
    <3> QED BY <1>1, <1>5, <2>2
  <2> QED BY <2>1, <2>2
<1> HIDE DEF o, s, key
<1>7. s \in Seq(InlineEntry) /\ key \in Seq(InlineEntry) BY <1>1, <1>3, <1>4
<1>8. inl = owner \o s OBVIOUS
<1>9. /\ inl \in Seq(InlineEntry) /\ Len(inl) = c + k
      /\ \A i \in 1 .. c : inl[i] = owner[i]
      /\ \A i \in 1 .. k : inl[c + i] = s[i]
  <2>1. JoinIs(owner, s) BY <1>6, <1>7, Joined
  <2>2. owner \o s \in Seq(InlineEntry) BY <1>6, <1>7
  <2> QED BY <1>3, <2>1, <2>2 DEF JoinIs
<1> HIDE DEF c, inl
<1>10. /\ Len(both) = c + Len(e)
       /\ \A i \in 1 .. c + k : both[i] = inl[i]
       /\ \A i \in 1 .. Len(e) - k : both[c + k + i] = key[i]
  <2>1. JoinIs(inl, key) BY <1>7, <1>9, Joined
  <2>2. /\ Len(both) = Len(inl) + Len(key)
        /\ \A i \in 1 .. Len(inl) : both[i] = inl[i]
        /\ \A i \in 1 .. Len(key) : both[Len(inl) + i] = key[i]
      BY <2>1 DEF JoinIs
  <2> HIDE DEF both
  <2>4. Len(inl) = c + k /\ Len(key) = Len(e) - k BY <1>4, <1>9
  <2>5. (c + k) + (Len(e) - k) = c + Len(e) BY <1>2, <1>6
  <2> QED BY <2>2, <2>4, <2>5
<1> HIDE DEF both
<1>11. \A i \in 1 .. c : both[i].kind = "owner"
  <2>1. \A i \in 1 .. c : i \in 1 .. c + k BY <1>2, <1>6
  <2> QED BY <2>1, <1>6, <1>9, <1>10
<1>12. ASSUME NEW n \in 1 .. Len(e) PROVE both[c + n] = e[n]
  <2>1. CASE n <= k
    <3>1. n \in 1 .. k /\ c + n \in 1 .. c + k BY <1>2, <1>6, <2>1
    <3> QED BY <3>1, <1>3, <1>9, <1>10
  <2>2. CASE ~(n <= k)
    <3>1. n - k \in 1 .. Len(e) - k /\ c + k + (n - k) = c + n /\ k + (n - k) = n
        BY <1>2, <1>6, <2>2
    <3> QED BY <3>1, <1>4, <1>10
  <2> QED BY <2>1, <2>2
<1>13. \A n \in 1 .. Len(e) : e[n].kind # "owner" BY EntryKinds
<1>14. \A n \in 1 .. Len(e) : c + n \in 1 .. Len(both) BY <1>2, <1>6, <1>10
<1>15. \A m \in 1 .. Len(both) : m \in 1 .. c \/ (m - c \in 1 .. Len(e) /\ m = c + (m - c))
    BY <1>2, <1>6, <1>10
<1>16. Refs(both) = {e[n].ref : n \in 1 .. Len(e)}
  <2>1. ASSUME NEW n \in 1 .. Len(e) PROVE e[n].ref \in Refs(both)
      BY <1>12, <1>13, <1>14 DEF Refs
  <2>2. ASSUME NEW m \in 1 .. Len(both), both[m].kind # "owner"
        PROVE  both[m].ref \in {e[n].ref : n \in 1 .. Len(e)}
    <3>1. m - c \in 1 .. Len(e) /\ m = c + (m - c) BY <1>11, <1>15, <2>2
    <3>2. both[m] = e[m - c] BY <1>12, <3>1
    <3> QED BY <3>1, <3>2
  <2> QED BY <2>1, <2>2 DEF Refs
<1> QED BY <1>4, <1>9, <1>16 DEF PartsOf, both, inl, key, s

LEMMA AccountIs ==
    ASSUME ItemsInv, NEW a \in Account(items)
    PROVE  IsAccount(a) /\ a.data = TRUE /\ Refs(a.inline \o a.keyed) = ExtentTree(items)
<1> DEFINE G == ExtentTree(items)
           groups == SetToSeq(G)
           C == Cardinality(G)
           E(kinds) == [n \in DOMAIN groups |->
                          [kind |-> kinds[n], count |-> groups[n].count, ref |-> groups[n]]]
           Owners == {<<>>, <<[kind |-> "owner", count |-> 0]>>}
           Made(owner, kinds, k) ==
             [data |-> TRUE, inline |-> owner \o SubSeq(E(kinds), 1, k),
              keyed |-> SubSeq(E(kinds), k + 1, Len(groups))]
<1>1. G \subseteq BaseRef /\ IsFiniteSet(G) BY TreeIs
<1>2. \E owner \in Owners, kinds \in [DOMAIN groups -> {"data", "shared"}], k \in 0 .. Len(groups) :
         a = Made(owner, kinds, k)
  <2>1. Account(items) = {Made(owner, kinds, k) :
                            owner \in Owners, kinds \in [DOMAIN groups -> {"data", "shared"}],
                            k \in 0 .. Len(groups)}
      BY SMT DEF Account
  <2> HIDE DEF groups, Made, Owners
  <2> QED BY <2>1
<1> HIDE DEF G, Owners
<1>3. C \in Nat /\ groups \in [1 .. C -> G] /\ \A x \in G : \E n \in 1 .. C : groups[n] = x
    BY <1>1, SetToSeqIs
<1> HIDE DEF groups, C
<1>4. DOMAIN groups = 1 .. C /\ Len(groups) = C
  <2>1. groups \in Seq(G) BY <1>3
  <2> QED BY <1>3, <2>1
<1> HIDE DEF Made
<1>5. PICK owner \in Owners, kinds \in [1 .. C -> {"data", "shared"}], k \in 0 .. C :
         a = Made(owner, kinds, k)
    BY <1>2, <1>4
<1> DEFINE e == E(kinds)
<1>6. /\ e \in [1 .. C -> KeyedEntry]
      /\ \A n \in 1 .. C : e[n].ref = groups[n]
  <2>1. ASSUME NEW n \in 1 .. C
        PROVE  [kind |-> kinds[n], count |-> groups[n].count, ref |-> groups[n]] \in KeyedEntry
    <3>1. groups[n] \in BaseRef BY <1>1, <1>3
    <3>2. groups[n].count \in Nat \ {0} BY <3>1 DEF BaseRef
    <3> QED BY <3>1, <3>2 DEF KeyedEntry
  <2> QED BY <1>4, <2>1
<1>7. a.data = TRUE /\ a.inline = owner \o SubSeq(e, 1, k) /\ a.keyed = SubSeq(e, k + 1, C)
    BY <1>4, <1>5 DEF Made
<1> HIDE DEF e, E
<1>8. e \in Seq(KeyedEntry) /\ Len(e) = C
  <2>1. e \in Seq(KeyedEntry) BY <1>3, <1>6
  <2> QED BY <1>3, <1>6, <2>1
<1>9. /\ a.inline \in Seq(InlineEntry) /\ a.keyed \in Seq(KeyedEntry)
      /\ Refs(a.inline \o a.keyed) = {e[n].ref : n \in 1 .. C}
  <2>1. a.keyed = SubSeq(e, k + 1, Len(e)) /\ k \in 0 .. Len(e) BY <1>5, <1>7, <1>8
  <2>2. owner \in {<<>>, <<[kind |-> "owner", count |-> 0]>>} BY DEF Owners
  <2>3. PartsOf(e, owner \o SubSeq(e, 1, k), SubSeq(e, k + 1, Len(e)))
      BY <1>8, <2>1, <2>2, Parts
  <2>4. PartsOf(e, a.inline, a.keyed) BY <1>7, <2>1, <2>3
  <2> QED BY <1>8, <2>4 DEF PartsOf
<1>10. {e[n].ref : n \in 1 .. C} = G BY <1>3, <1>6
<1> QED BY <1>7, <1>9, <1>10 DEF IsAccount, G

LEMMA TreeBlockIs == IsAccount(TreeBlock) /\ TreeBlock.data = FALSE
<1> DEFINE s == [kind |-> "shared", count |-> 1]
<1>1. TreeBlock.data = FALSE /\ TreeBlock.inline = <<>> /\ TreeBlock.keyed = <<s>> BY DEF TreeBlock
<1>2. s \in KeyedEntry BY DEF KeyedEntry
<1> HIDE DEF s
<1>3. <<s>> \in Seq(KeyedEntry) BY <1>2
<1>4. <<>> \in Seq(InlineEntry) OBVIOUS
<1> QED BY <1>1, <1>3, <1>4 DEF IsAccount

-----------------------------------------------------------------------------
(* Collecting what the DataRefs stand for.                                 *)

\* The DataRefs of the account.
Named == Refs(Entries)

\* Of the account's DataRefs, one stands for an item that is still there.
NamedInv ==
    account.data => /\ Named \subseteq BaseRef
                    /\ \A r, s \in Named : r.file = s.file /\ r.base = s.base => r = s
                    /\ \A it \in steady : \E r \in Named : r.file = it.file /\ r.base = Base(it)

\* No item is collected twice: no two DataRefs stand for the same, nor does one
\* that is left for what was collected.
OnceInv ==
    /\ refs \in [Items -> {0, 1}]
    /\ \A it \in Items : \A r, s \in todo : Covers(r, it) /\ Covers(s, it) => r = s
    /\ \A it \in Items : refs[it] = 1 => \A r \in todo : ~Covers(r, it)

\* And none is left out.
AllInv ==
    /\ result = "none" => todo = {} /\ \A it \in Items : refs[it] = 0
    /\ result = "begun" => /\ account.data
                           /\ \A it \in steady : refs[it] = 1 \/ \E r \in todo : Covers(r, it)
    /\ result = "ok" => \A it \in steady : refs[it] = 1

\* As long as nothing changes, what is there adds up to what was said.
UnchangedInv ==
    ops = MaxOps => /\ steady = Own(items)
                    /\ account.data => steady # {} /\ Named = ExtentTree(items)
                    /\ \A r \in todo : Cardinality(Found(r)) = r.count
                    /\ result \notin {"changed", "unreferenced"}

CollectInv ==
    /\ TallyInv /\ ItemsInv
    /\ ops \in 0 .. MaxOps /\ steady \subseteq Own(items)
    /\ NamedInv /\ OnceInv /\ AllInv /\ UnchangedInv

LEMMA InitCollect == Init => CollectInv
<1> SUFFICES ASSUME Init PROVE CollectInv OBVIOUS
<1>1. ItemsInv BY DataRefAssumption DEF Init, ItemsInv
<1> DEFINE A == IF Own(items) = {} THEN {TreeBlock} ELSE Account(items)
<1>2. \A a \in A : IsAccount(a) BY <1>1, AccountIs, TreeBlockIs
<1>3. TallyInit(A) BY DEF Init
<1>4. account \in A BY <1>3 DEF TallyInit
<1>5. TallyInv
  <2> HIDE DEF A
  <2> QED BY <1>2, <1>3, TallyFirst
<1>6. account.data => Own(items) # {} /\ Named = ExtentTree(items)
    BY <1>1, <1>4, AccountIs, TreeBlockIs DEF Named, Entries
<1>7. ops \in 0 .. MaxOps /\ steady = Own(items) /\ result = "none" /\ todo = {}
      /\ refs = [it \in Items |-> 0]
    BY DataRefAssumption DEF Init
<1>8. NamedInv
  <2> SUFFICES ASSUME account.data
               PROVE  /\ Named \subseteq BaseRef
                      /\ \A r, s \in Named : r.file = s.file /\ r.base = s.base => r = s
                      /\ \A it \in steady : \E r \in Named : r.file = it.file /\ r.base = Base(it)
      BY DEF NamedInv
  <2>1. Named = {TreeRef(it) : it \in Own(items)} /\ Named \subseteq BaseRef
      BY <1>1, <1>6, TreeIs
  <2>2. \A it : TreeRef(it).file = it.file /\ TreeRef(it).base = Base(it) BY DEF TreeRef
  <2>3. ASSUME NEW x \in Own(items), NEW y \in Own(items), x.file = y.file, Base(x) = Base(y)
        PROVE  TreeRef(x) = TreeRef(y)
    <3>1. Likes(x) = Likes(y) BY <2>3 DEF Likes
    <3> QED BY <3>1, <2>3 DEF TreeRef
  <2>4. ASSUME NEW r \in Named, NEW s \in Named, r.file = s.file, r.base = s.base
        PROVE  r = s
    <3>1. PICK x \in Own(items) : r = TreeRef(x) BY <2>1
    <3>2. PICK y \in Own(items) : s = TreeRef(y) BY <2>1
    <3> QED BY <2>2, <2>3, <2>4, <3>1, <3>2
  <2>5. ASSUME NEW it \in steady PROVE \E r \in Named : r.file = it.file /\ r.base = Base(it)
    <3>1. TreeRef(it) \in Named BY <1>7, <2>1
    <3> QED BY <2>2, <3>1
  <2> QED BY <2>1, <2>4, <2>5
<1>9. OnceInv BY <1>7 DEF OnceInv
<1>10. AllInv BY <1>7 DEF AllInv
<1>11. UnchangedInv BY <1>6, <1>7 DEF UnchangedInv
<1> QED BY <1>1, <1>5, <1>7, <1>8, <1>9, <1>10, <1>11 DEF CollectInv

-----------------------------------------------------------------------------
(* What the backreference walk says.                                       *)

LEMMA Extremes ==
    ASSUME NEW bound \in Nat, NEW T \in SUBSET (0 .. bound), T # {}
    PROVE  Min(T) \in T /\ Max(T) \in T /\ \A y \in T : Min(T) <= y /\ y <= Max(T)
<1>1. T \in SUBSET Nat OBVIOUS
<1>2. \E x \in T : \A y \in T : x <= y BY <1>1, LeastNumber
<1>3. Min(T) \in T /\ \A y \in T : Min(T) <= y BY <1>2 DEF Min
<1> DEFINE D == {bound - x : x \in T}
<1>4. D \in SUBSET Nat /\ D # {}
  <2>1. \A x \in T : bound - x \in Nat OBVIOUS
  <2> QED BY <2>1
<1> HIDE DEF D
<1>5. PICK d \in D : \A e \in D : d <= e BY <1>4, LeastNumber
<1>6. PICK x \in T : d = bound - x BY <1>5 DEF D
<1>7. \A y \in T : bound - y \in D BY DEF D
<1>8. \A y \in T : y <= x BY <1>5, <1>6, <1>7
<1>9. \E z \in T : \A y \in T : z >= y BY <1>8
<1>10. Max(T) \in T /\ \A y \in T : Max(T) >= y BY <1>9 DEF Max
<1> QED BY <1>1, <1>3, <1>10

ItemsOf(f) == {y \in Own(items) : y.file = f}
OffsetsOf(f) == {x.file_offset : x \in ItemsOf(f)}
InoRef(f) == [file |-> f, at |-> "between", first |-> Min(OffsetsOf(f)), last |-> Max(OffsetsOf(f)),
              count |-> Cardinality(OffsetsOf(f))]

LEMMA LogicalInoIs ==
    ASSUME ItemsInv
    PROVE  /\ LogicalIno(items) = {InoRef(it.file) : it \in Own(items)}
           /\ \A it \in Own(items) :
                /\ Found(InoRef(it.file)) = ItemsOf(it.file)
                /\ Cardinality(ItemsOf(it.file)) = InoRef(it.file).count
<1>1. LogicalIno(items) = {InoRef(it.file) : it \in Own(items)}
    BY DEF LogicalIno, InoRef, OffsetsOf, ItemsOf
<1>2. ASSUME NEW it \in Own(items)
      PROVE  /\ Found(InoRef(it.file)) = ItemsOf(it.file)
             /\ Cardinality(ItemsOf(it.file)) = InoRef(it.file).count
  <2> DEFINE I == ItemsOf(it.file)
             O == OffsetsOf(it.file)
             ref == InoRef(it.file)
  <2>1. it \in I /\ I \subseteq Own(items) /\ \A x \in I : x.file = it.file BY <1>2 DEF ItemsOf
  <2>2. \A x \in Own(items) : x.file = it.file => x \in I BY DEF ItemsOf
  <2>3. O = {x.file_offset : x \in I} BY DEF OffsetsOf
  <2>4. /\ ref.file = it.file /\ ref.at = "between"
        /\ ref.first = Min(O) /\ ref.last = Max(O) /\ ref.count = Cardinality(O)
      BY DEF InoRef
  <2> HIDE DEF I, O, ref
  <2>5. Own(items) \subseteq Items /\ Own(items) \subseteq items /\ IsFiniteSet(Own(items)) BY OwnFacts
  <2>6. \A x \in I : x.file_offset \in 0 .. Word
    <3>1. Word \in Nat BY DataRefAssumption
    <3> QED BY <3>1, <2>1, <2>5, ItemFacts
  <2>7. O \in SUBSET (0 .. Word) /\ O # {} BY <2>1, <2>3, <2>6
  <2>8. Min(O) \in O /\ Max(O) \in O /\ \A y \in O : Min(O) <= y /\ y <= Max(O)
    <3>1. Word \in Nat BY DataRefAssumption
    <3> QED BY <3>1, <2>7, Extremes
  <2>9. Stretch(ref).start = Min(O) /\ Stretch(ref).last = Max(O) BY <2>4 DEF Stretch
  <2>10. ASSUME NEW x \in I PROVE Covers(ref, x)
    <3>1. x.file_offset \in O BY <2>3
    <3>2. Min(O) <= x.file_offset /\ x.file_offset <= Max(O) BY <2>8, <3>1
    <3>3. x.file_offset \in Nat /\ Min(O) \in Nat
      <4>1. x.file_offset \in 0 .. Word /\ Min(O) \in 0 .. Word BY <2>6, <2>7, <2>8, Zenon
      <4> QED BY <4>1
    <3>4. x.file_offset >= Min(O) BY <3>2, <3>3
    <3> QED BY <2>1, <2>4, <2>9, <3>2, <3>4 DEF Covers, Belongs
  <2>11. Found(ref) = I
    <3>1. \A x \in Own(items) : Covers(ref, x) => x \in I BY <2>2, <2>4 DEF Covers
    <3> QED BY <3>1, <2>1, <2>10, FoundIs
  <2>12. Cardinality(I) = Cardinality(O)
    <3> DEFINE g == [x \in I |-> x.file_offset]
    <3>1. g \in Surjection(I, O) BY <2>3 DEF Surjection
    <3>2. g \in Injection(I, O)
      <4>1. ASSUME NEW x \in I, NEW y \in I, x.file_offset = y.file_offset PROVE x = y
          BY <4>1, <2>1, <2>5 DEF ItemsInv, Same
      <4>2. g \in [I -> O] BY <2>3
      <4>3. DOMAIN g = I /\ \A x \in I : g[x] = x.file_offset OBVIOUS
      <4> HIDE DEF g
      <4> QED BY <4>1, <4>2, <4>3 DEF Injection, IsInjective
    <3>3. IsFiniteSet(I) BY <2>1, <2>5, FS_Subset
    <3> HIDE DEF g
    <3> QED BY <3>1, <3>2, <3>3, FS_Surjection
  <2> QED BY <2>4, <2>11, <2>12 DEF I, ref
<1> QED BY <1>1, <1>2

-----------------------------------------------------------------------------
(* Every step keeps the invariant.                                         *)

LEMMA CoversStay ==
    ASSUME UNCHANGED extent
    PROVE  \A ref, it : Covers(ref, it)' <=> Covers(ref, it)
BY DEF Covers, Stretch, Belongs, Base, wrapping_sub, wrapping_add

LEMMA FoundStays ==
    ASSUME UNCHANGED <<extent, items>>
    PROVE  \A ref : Found(ref)' = Found(ref)
<1>1. \A ref : Stretch(ref)' = Stretch(ref) BY DEF Stretch, wrapping_add
<1> QED BY <1>1 DEF Found, Own, Belongs, Base, wrapping_sub

LEMMA NamedStays ==
    ASSUME UNCHANGED account
    PROVE  Named' = Named
<1>1. Entries' = Entries BY DEF Entries
<1> QED BY <1>1 DEF Named, Refs

\* What adding up leaves alone.
LEMMA AddUpCollect ==
    ASSUME CollectInv, TallyInv', UNCHANGED account,
           UNCHANGED <<extent, items, ops, todo, refs, result, steady>>
    PROVE  CollectInv'
<1>1. Named' = Named /\ account' = account BY NamedStays
<1>2. \A ref, it : Covers(ref, it)' <=> Covers(ref, it) BY CoversStay
<1>3. \A ref : Found(ref)' = Found(ref) BY FoundStays
<1>4. Own(items)' = Own(items) /\ ExtentTree(items)' = ExtentTree(items)
    BY DEF Own, ExtentTree, Base, wrapping_sub
<1>5. ItemsInv' BY <1>4 DEF CollectInv, ItemsInv, Same
<1>6. NamedInv' BY <1>1 DEF CollectInv, NamedInv, Base, wrapping_sub
<1>7. OnceInv' BY <1>2 DEF CollectInv, OnceInv
<1>8. AllInv' BY <1>1, <1>2 DEF CollectInv, AllInv
<1>9. UnchangedInv' BY <1>1, <1>3, <1>4 DEF CollectInv, UnchangedInv
<1> QED BY <1>4, <1>5, <1>6, <1>7, <1>8, <1>9 DEF CollectInv

LEMMA AddUpStep == ASSUME CollectInv, AddUp PROVE CollectInv'
<1>1. TallyInv' BY TallyStep DEF CollectInv, AddUp
<1>2. UNCHANGED account
    BY DEF AddUp, TallyNext, AddExtentItem, AddInline, AddKeyed, Finish
<1> QED BY <1>1, <1>2, AddUpCollect DEF AddUp

LEMMA StutterStep == ASSUME CollectInv, UNCHANGED vars PROVE CollectInv'
<1>1. UNCHANGED tallyvars /\ UNCHANGED account BY DEF vars, tallyvars
<1>2. TallyInv' BY <1>1, TallyStays DEF CollectInv
<1> QED BY <1>1, <1>2, AddUpCollect DEF vars

\* What is read of a complete account are the DataRefs it names.
LEMMA ReadIsNamed ==
    ASSUME CollectInv, tally = "files"
    PROVE  {data_refs[n].ref : n \in DOMAIN data_refs} = Named
<1> DEFINE N == Len(Entries)
           R == References(Entries, N)
<1>1. data_refs = R BY TallyIsRight DEF CollectInv, FilesIsEverything
<1>2. Entries \in Seq(InlineEntry) /\ N \in Nat
    BY EntriesAre DEF CollectInv, TallyInv, ReadInv, IsEntries
<1>3. N \in 0 .. N BY <1>2
<1>4. /\ R \in Seq(InlineEntry)
      /\ \A x : (\E j \in 1 .. Len(R) : R[j] = x)
                  <=> (\E m \in 1 .. N : Entries[m] = x /\ Entries[m].kind # "owner")
    BY <1>2, <1>3, ReferencesRange
<1>5. DOMAIN R = 1 .. Len(R) BY <1>4
<1>6. Named = {Entries[n].ref : n \in {m \in 1 .. N : Entries[m].kind # "owner"}} BY DEF Named, Refs
<1> HIDE DEF R, N
<1>7. ASSUME NEW j \in 1 .. Len(R) PROVE R[j].ref \in Named
  <2>1. PICK m \in 1 .. N : Entries[m] = R[j] /\ Entries[m].kind # "owner" BY <1>4
  <2> QED BY <1>6, <2>1
<1>8. ASSUME NEW m \in 1 .. N, Entries[m].kind # "owner"
      PROVE  Entries[m].ref \in {R[n].ref : n \in DOMAIN R}
  <2>1. PICK j \in 1 .. Len(R) : R[j] = Entries[m] BY <1>4, <1>8
  <2> QED BY <1>5, <2>1
<1> QED BY <1>1, <1>5, <1>6, <1>7, <1>8

\* The DataRefs of the account, and those of the walk, are fit to be collected.
Fit(some) ==
    /\ \A it \in Items : \A r, s \in some : Covers(r, it) /\ Covers(s, it) => r = s
    /\ \A it \in steady : \E r \in some : Covers(r, it)
    /\ ops = MaxOps => \A r \in some : Cardinality(Found(r)) = r.count

LEMMA NamedFit == ASSUME CollectInv, account.data PROVE Fit(Named)
<1>1. /\ Named \subseteq BaseRef
      /\ \A r, s \in Named : r.file = s.file /\ r.base = s.base => r = s
      /\ \A it \in steady : \E r \in Named : r.file = it.file /\ r.base = Base(it)
    BY DEF CollectInv, NamedInv
<1>2. \A r \in Named : r.at = "base" BY <1>1 DEF BaseRef
<1>3. \A r \in Named : \A it : Covers(r, it) => it.file = r.file /\ Base(it) = r.base
    BY <1>2 DEF Covers, Belongs
<1>4. ItemsInv /\ extent \in Extents /\ steady \subseteq Own(items) BY DEF CollectInv, ItemsInv
<1>5. Own(items) \subseteq Items /\ \A it \in Own(items) : it.extent_offset < extent.ram_bytes
    BY <1>4, OwnFacts DEF ItemsInv
<1>6. \A it \in Own(items) : \A r \in Named : r.file = it.file /\ r.base = Base(it) => Covers(r, it)
    BY <1>2, <1>4, <1>5, BaseCovers
<1>7. \A it \in Items : \A r, s \in Named : Covers(r, it) /\ Covers(s, it) => r = s
    BY <1>1, <1>3
<1>8. \A it \in steady : \E r \in Named : Covers(r, it) BY <1>1, <1>4, <1>6
<1>9. ASSUME ops = MaxOps, NEW r \in Named PROVE Cardinality(Found(r)) = r.count
  <2>1. Named = {TreeRef(it) : it \in Own(items)}
      BY <1>4, <1>9, TreeIs DEF CollectInv, UnchangedInv
  <2>2. PICK x \in Own(items) : r = TreeRef(x) BY <2>1
  <2>3. r.file = x.file /\ r.base = Base(x) /\ r.count = Cardinality(Likes(x)) BY <2>2 DEF TreeRef
  <2>4. Found(r) = Likes(x)
    <3>1. \A it \in Own(items) : Covers(r, it) <=> (it.file = x.file /\ Base(it) = Base(x))
        BY <1>3, <1>6, <2>3
    <3>2. Found(r) = {it \in Own(items) : Covers(r, it)} BY FoundIs
    <3> QED BY <3>1, <3>2 DEF Likes
  <2> QED BY <2>3, <2>4
<1> QED BY <1>7, <1>8, <1>9 DEF Fit

LEMMA WalkFit == ASSUME CollectInv PROVE Fit(LogicalIno(items))
<1>1. ItemsInv /\ steady \subseteq Own(items) BY DEF CollectInv
<1>2. /\ LogicalIno(items) = {InoRef(it.file) : it \in Own(items)}
      /\ \A it \in Own(items) :
           /\ Found(InoRef(it.file)) = ItemsOf(it.file)
           /\ Cardinality(ItemsOf(it.file)) = InoRef(it.file).count
    BY <1>1, LogicalInoIs
<1>3. \A f : InoRef(f).file = f BY DEF InoRef
<1>4. \A it \in Items : \A r, s \in LogicalIno(items) : Covers(r, it) /\ Covers(s, it) => r = s
  <2>1. \A r \in LogicalIno(items) : r = InoRef(r.file) BY <1>2, <1>3
  <2> QED BY <2>1 DEF Covers
<1>5. ASSUME NEW it \in steady PROVE \E r \in LogicalIno(items) : Covers(r, it)
  <2>1. it \in Own(items) /\ it \in ItemsOf(it.file) BY <1>1 DEF ItemsOf
  <2>2. it \in Found(InoRef(it.file)) BY <1>2, <2>1
  <2>3. Covers(InoRef(it.file), it) BY <2>2, FoundIs
  <2> QED BY <1>2, <2>1, <2>3
<1>6. \A r \in LogicalIno(items) : Cardinality(Found(r)) = r.count BY <1>2
<1> QED BY <1>4, <1>5, <1>6 DEF Fit

\* What is no business of collect's.
LEMMA SettledStays ==
    ASSUME CollectInv, UNCHANGED <<tallyvars, extent, items, ops, steady>>
    PROVE  /\ TallyInv' /\ ItemsInv' /\ NamedInv' /\ account' = account
           /\ ops' \in 0 .. MaxOps /\ (steady \subseteq Own(items))'
           /\ Named' = Named /\ Own(items)' = Own(items)
           /\ ExtentTree(items)' = ExtentTree(items)
           /\ \A ref, it : Covers(ref, it)' <=> Covers(ref, it)
           /\ \A ref : Found(ref)' = Found(ref)
<1>1. TallyInv' BY TallyStays DEF CollectInv
<1>2. account' = account BY DEF tallyvars
<1>3. Named' = Named BY <1>2, NamedStays
<1>4. \A ref, it : Covers(ref, it)' <=> Covers(ref, it) BY CoversStay
<1>5. \A ref : Found(ref)' = Found(ref) BY FoundStays
<1>6. Own(items)' = Own(items) /\ ExtentTree(items)' = ExtentTree(items)
    BY DEF Own, ExtentTree, Base, wrapping_sub
<1>7. ItemsInv' BY <1>6 DEF CollectInv, ItemsInv, Same
<1>8. NamedInv' BY <1>2, <1>3 DEF CollectInv, NamedInv, Base, wrapping_sub
<1>9. ops' \in 0 .. MaxOps /\ (steady \subseteq Own(items))' BY <1>6 DEF CollectInv
<1> QED BY <1>1, <1>2, <1>3, <1>4, <1>5, <1>6, <1>7, <1>8, <1>9

LEMMA BeginStep == ASSUME CollectInv, Begin PROVE CollectInv'
<1>1. /\ result = "none" /\ refs' = refs
      /\ UNCHANGED <<tallyvars, extent, items, ops, steady>>
      /\ steady' = steady /\ ops' = ops
    BY DEF Begin
<1>2. /\ TallyInv' /\ ItemsInv' /\ NamedInv' /\ account' = account
      /\ ops' \in 0 .. MaxOps /\ (steady \subseteq Own(items))'
      /\ Named' = Named /\ Own(items)' = Own(items)
      /\ ExtentTree(items)' = ExtentTree(items)
      /\ \A ref, it : Covers(ref, it)' <=> Covers(ref, it)
      /\ \A ref : Found(ref)' = Found(ref)
    BY <1>1, SettledStays
<1>3. todo = {} /\ refs \in [Items -> {0, 1}] /\ \A it \in Items : refs[it] = 0
    BY <1>1 DEF CollectInv, AllInv, OnceInv
<1>4. ops = MaxOps => steady = Own(items) /\ (account.data => steady # {} /\ Named = ExtentTree(items))
    BY DEF CollectInv, UnchangedInv
<1>5. CASE tally = "nothing" /\ result' = "nothing" /\ todo' = todo
  <2>1. OnceInv' BY <1>1, <1>3, <1>5 DEF OnceInv
  <2>2. AllInv' BY <1>5 DEF AllInv
  <2>3. UnchangedInv' BY <1>1, <1>2, <1>3, <1>4, <1>5 DEF UnchangedInv
  <2> QED BY <1>2, <2>1, <2>2, <2>3 DEF CollectInv
<1>6. CASE result' = "begun" /\ account.data /\ Fit(todo')
  <2>1. /\ \A it \in Items : \A r, s \in todo' : Covers(r, it) /\ Covers(s, it) => r = s
        /\ \A it \in steady : \E r \in todo' : Covers(r, it)
        /\ ops = MaxOps => \A r \in todo' : Cardinality(Found(r)) = r.count
      BY <1>6 DEF Fit
  <2>2. OnceInv' BY <1>1, <1>2, <1>3, <2>1 DEF OnceInv
  <2>3. AllInv' BY <1>1, <1>2, <1>6, <2>1 DEF AllInv
  <2>4. UnchangedInv' BY <1>1, <1>2, <1>4, <1>6, <2>1 DEF UnchangedInv
  <2> QED BY <1>2, <2>2, <2>3, <2>4 DEF CollectInv
<1>7. tally \in {"files", "opaque"} => account.data BY DEF CollectInv, TallyInv, FinishInv
<1>8. CASE tally = "files" /\ result' = "begun" /\ todo' = {data_refs[n].ref : n \in DOMAIN data_refs}
  <2>1. account.data /\ todo' = Named BY <1>7, <1>8, ReadIsNamed
  <2>2. Fit(Named) BY <2>1, NamedFit
  <2> QED BY <1>6, <1>8, <2>1, <2>2
<1>9. CASE tally = "opaque" /\ result' = "begun" /\ todo' = LogicalIno(items)
  <2>1. account.data /\ Fit(LogicalIno(items)) BY <1>7, <1>9, WalkFit
  <2> QED BY <1>6, <1>9, <2>1
<1> QED BY <1>5, <1>8, <1>9 DEF Begin

LEMMA CollectStep == ASSUME CollectInv, NEW ref \in todo, Collect(ref) PROVE CollectInv'
<1>1. /\ result = "begun" /\ UNCHANGED <<tallyvars, extent, items, ops, steady>>
      /\ steady' = steady /\ ops' = ops
    BY DEF Collect
<1>2. /\ TallyInv' /\ ItemsInv' /\ NamedInv' /\ account' = account
      /\ ops' \in 0 .. MaxOps /\ (steady \subseteq Own(items))'
      /\ Named' = Named /\ Own(items)' = Own(items)
      /\ ExtentTree(items)' = ExtentTree(items)
      /\ \A r, it : Covers(r, it)' <=> Covers(r, it)
      /\ \A r : Found(r)' = Found(r)
    BY <1>1, SettledStays
<1>3. /\ refs \in [Items -> {0, 1}]
      /\ \A it \in Items : \A r, s \in todo : Covers(r, it) /\ Covers(s, it) => r = s
      /\ \A it \in Items : refs[it] = 1 => \A r \in todo : ~Covers(r, it)
    BY DEF CollectInv, OnceInv
<1>4. account.data /\ \A it \in steady : refs[it] = 1 \/ \E r \in todo : Covers(r, it)
    BY <1>1 DEF CollectInv, AllInv
<1>5. ops = MaxOps => /\ steady = Own(items)
                      /\ account.data => steady # {} /\ Named = ExtentTree(items)
                      /\ \A r \in todo : Cardinality(Found(r)) = r.count
    BY DEF CollectInv, UnchangedInv
<1>6. CASE Cardinality(Found(ref)) # ref.count /\ result' = "changed" /\ UNCHANGED <<todo, refs>>
  <2>1. OnceInv' BY <1>2, <1>3, <1>6 DEF OnceInv
  <2>2. AllInv' BY <1>6 DEF AllInv
  <2>3. ops # MaxOps BY <1>5, <1>6
  <2>4. UnchangedInv' BY <1>1, <2>3 DEF UnchangedInv
  <2> QED BY <1>2, <2>1, <2>2, <2>4 DEF CollectInv
<1>7. CASE /\ refs' = [it \in Items |-> refs[it] + (IF it \in Found(ref) THEN 1 ELSE 0)]
           /\ todo' = todo \ {ref} /\ result' = result
  <2>1. Found(ref) = {it \in Own(items) : Covers(ref, it)} BY FoundIs
  <2>2. \A it \in Items : it \in Found(ref) => Covers(ref, it) /\ refs[it] = 0 BY <1>3, <2>1
  <2>3. \A it \in Items : refs'[it] = IF it \in Found(ref) THEN 1 ELSE refs[it]
      BY <1>3, <1>7, <2>2
  <2>4. refs' \in [Items -> {0, 1}]
    <3>1. \A it \in Items : refs[it] + (IF it \in Found(ref) THEN 1 ELSE 0) \in {0, 1}
        BY <1>3, <2>2
    <3> QED BY <1>7, <3>1
  <2>5. ASSUME NEW it \in Items, refs'[it] = 1, NEW r \in todo' PROVE ~Covers(r, it)
    <3>1. r \in todo /\ r # ref BY <1>7, <2>5
    <3>2. CASE it \in Found(ref) BY <1>3, <2>2, <3>1, <3>2
    <3>3. CASE it \notin Found(ref) BY <1>3, <2>3, <2>5, <3>1, <3>3
    <3> QED BY <3>2, <3>3
  <2>6. OnceInv'
    <3>1. \A it \in Items : \A r, s \in todo' : Covers(r, it)' /\ Covers(s, it)' => r = s
        BY <1>2, <1>3, <1>7
    <3>2. \A it \in Items : refs'[it] = 1 => \A r \in todo' : ~Covers(r, it)' BY <1>2, <2>5
    <3> QED BY <2>4, <3>1, <3>2 DEF OnceInv
  <2>7. ASSUME NEW it \in steady PROVE refs'[it] = 1 \/ \E r \in todo' : Covers(r, it)
    <3>1. it \in Own(items) /\ it \in Items
      <4>1. it \in Own(items) BY DEF CollectInv
      <4> QED BY <4>1, OwnFacts DEF CollectInv
    <3>2. CASE it \in Found(ref) BY <2>3, <3>1, <3>2
    <3>3. CASE it \notin Found(ref)
      <4>1. ~Covers(ref, it) BY <2>1, <3>1, <3>3
      <4> QED BY <1>4, <1>7, <2>3, <3>1, <3>3, <4>1
    <3> QED BY <3>2, <3>3
  <2>8. AllInv' BY <1>1, <1>2, <1>4, <1>7, <2>7 DEF AllInv
  <2>9. UnchangedInv' BY <1>1, <1>2, <1>5, <1>7 DEF UnchangedInv
  <2> QED BY <1>2, <2>6, <2>8, <2>9 DEF CollectInv
<1> QED BY <1>6, <1>7 DEF Collect

LEMMA CollectedStep == ASSUME CollectInv, Collected PROVE CollectInv'
<1>1. /\ result = "begun" /\ todo = {} /\ todo' = todo /\ refs' = refs
      /\ result' = IF \A it \in Items : refs[it] = 0 THEN "unreferenced" ELSE "ok"
      /\ UNCHANGED <<tallyvars, extent, items, ops, steady>> /\ steady' = steady /\ ops' = ops
    BY DEF Collected
<1>2. /\ TallyInv' /\ ItemsInv' /\ NamedInv' /\ account' = account
      /\ ops' \in 0 .. MaxOps /\ (steady \subseteq Own(items))'
      /\ Named' = Named /\ Own(items)' = Own(items)
      /\ ExtentTree(items)' = ExtentTree(items)
      /\ \A r, it : Covers(r, it)' <=> Covers(r, it)
      /\ \A r : Found(r)' = Found(r)
    BY <1>1, SettledStays
<1>3. account.data /\ \A it \in steady : refs[it] = 1 BY <1>1 DEF CollectInv, AllInv
<1>4. OnceInv' BY <1>1, <1>2 DEF CollectInv, OnceInv
<1>5. AllInv' BY <1>1, <1>3 DEF AllInv
<1>6. steady \subseteq Items BY OwnFacts DEF CollectInv
<1>7. ops = MaxOps => steady = Own(items) /\ steady # {} /\ Named = ExtentTree(items)
    BY <1>3 DEF CollectInv, UnchangedInv
<1>8. ops = MaxOps => result' = "ok" BY <1>1, <1>3, <1>6, <1>7
<1>9. UnchangedInv' BY <1>1, <1>2, <1>7, <1>8 DEF UnchangedInv
<1> QED BY <1>2, <1>4, <1>5, <1>9 DEF CollectInv

\* What the users do only takes from the items that were there all along.
LEMMA UsersCollect ==
    ASSUME CollectInv, UNCHANGED <<tallyvars, extent, todo, refs, result>>,
           ops > 0, ops' = ops - 1, ItemsInv',
           steady' \subseteq steady, steady' \subseteq Own(items)'
    PROVE  CollectInv'
<1>1. TallyInv' BY TallyStays DEF CollectInv
<1>2. account' = account BY DEF tallyvars
<1>3. Named' = Named BY <1>2, NamedStays
<1>4. \A r, it : Covers(r, it)' <=> Covers(r, it) BY CoversStay
<1>5. ops' \in 0 .. MaxOps /\ ops' # MaxOps BY DataRefAssumption DEF CollectInv
<1>6. NamedInv' BY <1>2, <1>3 DEF CollectInv, NamedInv, Base, wrapping_sub
<1>7. OnceInv' BY <1>4 DEF CollectInv, OnceInv
<1>8. AllInv'
  <2>1. \A it \in steady' : it \in steady OBVIOUS
  <2> QED BY <1>2, <1>4, <2>1 DEF CollectInv, AllInv
<1>9. UnchangedInv' BY <1>5 DEF UnchangedInv
<1> QED BY <1>1, <1>5, <1>6, <1>7, <1>8, <1>9 DEF CollectInv

LEMMA PutStep == ASSUME CollectInv, NEW it \in Items, Put(it) PROVE CollectInv'
<1>1. /\ UNCHANGED <<tallyvars, extent, todo, refs, result>>
      /\ ops > 0 /\ ops' = ops - 1
      /\ it.own => it.extent_offset < extent.ram_bytes
      /\ items' = {x \in items : ~Same(x, it)} \union {it}
      /\ steady' = {x \in steady : ~Same(x, it)}
    BY DEF Put
<1>2. ItemsInv /\ steady \subseteq Own(items) BY DEF CollectInv
<1>3. ItemsInv'
  <2>1. extent' \in Extents /\ items' \subseteq Items BY <1>1, <1>2 DEF ItemsInv
  <2>2. \A x \in Own(items)' : x.extent_offset < extent'.ram_bytes BY <1>1, <1>2 DEF ItemsInv, Own
  <2>3. \A x \in items' : x = it \/ (x \in items /\ ~Same(x, it)) BY <1>1
  <2>4. \A a, b \in items' : Same(a, b) => a = b BY <1>2, <2>3 DEF ItemsInv, Same
  <2> QED BY <2>1, <2>2, <2>4 DEF ItemsInv, Same
<1>4. steady' \subseteq steady /\ steady' \subseteq Own(items)' BY <1>1, <1>2 DEF Own
<1> QED BY <1>1, <1>3, <1>4, UsersCollect

LEMMA PunchStep == ASSUME CollectInv, NEW it \in Items, Punch(it) PROVE CollectInv'
<1>1. /\ UNCHANGED <<tallyvars, extent, todo, refs, result>>
      /\ ops > 0 /\ ops' = ops - 1
      /\ items' = items \ {it} /\ steady' = steady \ {it}
    BY DEF Punch
<1>2. ItemsInv /\ steady \subseteq Own(items) BY DEF CollectInv
<1>3. ItemsInv' BY <1>1, <1>2 DEF ItemsInv, Own, Same
<1>4. steady' \subseteq steady /\ steady' \subseteq Own(items)' BY <1>1, <1>2 DEF Own
<1> QED BY <1>1, <1>3, <1>4, UsersCollect

LEMMA NextCollect == ASSUME CollectInv, [Next]_vars PROVE CollectInv'
<1>1. CASE AddUp BY <1>1, AddUpStep
<1>2. CASE Begin BY <1>2, BeginStep
<1>3. CASE \E ref \in todo : Collect(ref) BY <1>3, CollectStep
<1>4. CASE Collected BY <1>4, CollectedStep
<1>5. CASE \E it \in Items : Put(it) \/ Punch(it) BY <1>5, PutStep, PunchStep
<1>6. CASE UNCHANGED vars BY <1>6, StutterStep
<1> QED BY <1>1, <1>2, <1>3, <1>4, <1>5, <1>6 DEF Next, Done

LEMMA AlwaysCollect == Spec => []CollectInv
BY InitCollect, NextCollect, PTL DEF Spec

\* An account is taken to name every holder only if it has all the references
\* there are and each names its file, however many there are of each kind, in
\* the extent item or behind it, and wherever the reading is cut short
\* (Tally::finish).
THEOREM FilesAreEverything == Spec => []FilesIsEverything
<1>1. CollectInv => FilesIsEverything BY TallyIsRight DEF CollectInv
<1> QED BY <1>1, AlwaysCollect, PTL

\* An account is given up on only if some reference does not name its file or
\* the reading was cut short (Tally::add_inline, Tally::finish).
THEOREM OpaqueOnlyForAReason == Spec => []OpaqueForAReason
<1>1. CollectInv => OpaqueForAReason BY TallyIsRight DEF CollectInv
<1> QED BY <1>1, AlwaysCollect, PTL

\* No item is collected twice, and what collect returns has every item of the
\* extent that was there all along, whatever else came and went meanwhile
\* (collect, data_ref_extents).
THEOREM EachIsCollectedOnce == Spec => []CollectedOnce
<1>1. ASSUME CollectInv PROVE CollectedOnce
  <2>1. \A it \in Items : refs[it] \in {0, 1} BY <1>1 DEF CollectInv, OnceInv
  <2>2. \A it \in Items : refs[it] <= 1 BY <2>1
  <2>3. result = "ok" => \A it \in steady : refs[it] = 1 BY <1>1 DEF CollectInv, AllInv
  <2> QED BY <2>2, <2>3 DEF CollectedOnce
<1> QED BY <1>1, AlwaysCollect, PTL

\* A collection fails only if some file changed since its DataRefs were read:
\* for any word, the stretch of a base has all of its items, also where the
\* base wraps and where the extent is compressed (data_ref_extents, collect).
THEOREM CollectFailsOnlyIfChanged == Spec => []FailsOnlyIfChanged
<1>1. ASSUME CollectInv PROVE FailsOnlyIfChanged
  <2>1. ops \in 0 .. MaxOps /\ MaxOps \in Nat BY <1>1, DataRefAssumption DEF CollectInv
  <2>2. result \in {"changed", "unreferenced"} => ops # MaxOps BY <1>1 DEF CollectInv, UnchangedInv
  <2>3. ops # MaxOps => ops < MaxOps BY <2>1
  <2> QED BY <2>2, <2>3 DEF FailsOnlyIfChanged
<1> QED BY <1>1, AlwaysCollect, PTL
=============================================================================
