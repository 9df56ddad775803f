--------------------------- MODULE ResolveProofs ----------------------------
(***************************************************************************)
(* Every reference to an extent is found, for any number of subvolumes,    *)
(* snapshots and references, whatever users do while it is looked up.      *)
(***************************************************************************)
EXTENDS Resolve, FiniteSetTheorems, NaturalsInduction, TLAPS

\* A set of numbers that is not empty has a least one ...
LEMMA LeastNumber ==
    ASSUME NEW T \in SUBSET Nat, T # {}
    PROVE  \E x \in T : \A y \in T : x <= y
<1> DEFINE R == {p \in Nat \X Nat : p[1] < p[2]}
<1>1. IsWellFoundedOn(R, Nat) BY NatLessThanWellFounded DEF OpToRel
<1> HIDE DEF R
<1>2. \E x \in T : \A y \in T : ~ (<<y, x>> \in R) BY <1>1, WFMin
<1>3. PICK x \in T : \A y \in T : ~ (<<y, x>> \in R) BY <1>2
<1>4. \A y \in T : ~(y < x) BY <1>3 DEF R
<1> QED BY <1>4

\* ... and, if bounded, a greatest.
LEMMA MaxIsGreatest ==
    ASSUME NEW bound \in Nat, NEW T \in SUBSET (0 .. bound), T # {}
    PROVE  Max(T) \in T /\ \A y \in T : y <= Max(T)
<1> DEFINE D == {bound - x : x \in T}
<1>1. D \in SUBSET Nat /\ D # {}
  <2>1. \A x \in T : bound - x \in Nat OBVIOUS
  <2> QED BY <2>1
<1> HIDE DEF D
<1>2. PICK d \in D : \A e \in D : d <= e BY <1>1, LeastNumber
<1>3. PICK x \in T : d = bound - x BY <1>2 DEF D
<1>4. \A y \in T : bound - y \in D BY DEF D
<1>5. \A y \in T : y <= x BY <1>2, <1>3, <1>4
<1>6. \E z \in T : \A y \in T : z >= y BY <1>5
<1> QED BY <1>6 DEF Max

\* A finite set of numbers is bounded, and so has a greatest too.
LEMMA FiniteBound ==
    ASSUME NEW T \in SUBSET Nat, IsFiniteSet(T)
    PROVE  \E bound \in Nat : T \subseteq 0 .. bound
<1>1. PICK len \in Nat : ExistsBijection(1 .. len, T) BY FS_NatBijection
<1>2. PICK seq \in [1 .. len -> T] : \A x \in T : \E n \in 1 .. len : seq[n] = x
    BY <1>1 DEF ExistsBijection, Bijection, Surjection
<1>3. \A n \in 1 .. len : seq[n] \in Nat BY <1>2
<1> DEFINE Bounded(n) == \E b \in Nat : \A j \in 1 .. n : seq[j] <= b
           Bad == {n \in 0 .. len : ~Bounded(n)}
<1>4. Bad = {}
  <2> SUFFICES ASSUME Bad # {} PROVE FALSE OBVIOUS
  <2>1. Bad \in SUBSET Nat BY <1>1
  <2>2. PICK n \in Bad : \A m \in Bad : n <= m
    <3> HIDE DEF Bad
    <3> QED BY <2>1, LeastNumber
  <2>3. Bounded(0)
    <3>1. \A j \in 1 .. 0 : seq[j] <= 0 OBVIOUS
    <3> QED BY <3>1
  <2> HIDE DEF Bounded
  <2>4. n \in 1 .. len /\ n - 1 \in 0 .. len /\ ~Bounded(n)
    <3>1. n \in 0 .. len /\ ~Bounded(n) BY <2>2
    <3> QED BY <3>1, <2>3, <1>1
  <2>5. Bounded(n - 1)
    <3>1. n - 1 \in Bad => n <= n - 1 BY <2>2
    <3>2. n - 1 \notin Bad BY <3>1, <2>4
    <3> QED BY <3>2, <2>4
  <2>6. PICK b \in Nat : \A j \in 1 .. n - 1 : seq[j] <= b BY <2>5 DEF Bounded
  <2> DEFINE c == IF b < seq[n] THEN seq[n] ELSE b
  <2>7. c \in Nat /\ b <= c /\ seq[n] <= c BY <2>4, <1>3
  <2> HIDE DEF c
  <2>8. \A j \in 1 .. n : seq[j] <= c
    <3> SUFFICES ASSUME NEW j \in 1 .. n PROVE seq[j] <= c OBVIOUS
    <3>1. seq[j] \in Nat BY <2>4, <1>1, <1>3
    <3>2. j = n \/ j \in 1 .. n - 1 BY <2>4
    <3> QED BY <3>1, <3>2, <2>6, <2>7
  <2> QED BY <2>4, <2>7, <2>8 DEF Bounded
<1>5. len \in 0 .. len BY <1>1
<1>6. Bounded(len) BY <1>4, <1>5
<1>7. PICK b \in Nat : \A j \in 1 .. len : seq[j] <= b BY <1>6
<1>8. \A x \in T : x \in 0 .. b BY <1>2, <1>7
<1> QED BY <1>8

LEMMA FiniteMax ==
    ASSUME NEW T \in SUBSET Nat, IsFiniteSet(T), T # {}
    PROVE  Max(T) \in Nat /\ \A y \in T : y <= Max(T)
<1>1. PICK bound \in Nat : T \subseteq 0 .. bound BY FiniteBound
<1> QED BY <1>1, MaxIsGreatest

-----------------------------------------------------------------------------
(* The filesystem.                                                         *)

Leaf   == [owner : Roots, gen : Nat, full : BOOLEAN, n : 0 .. MaxRefs]
Status == {"unborn", "live", "dying", "gone"}

FsTypes ==
    /\ status \in [Roots -> Status]
    /\ tree \in [Roots -> Leaf]
    /\ snap \in [Roots -> Nat]
    /\ transid \in Nat

\* A leaf is of no later transaction than the current, and one of the current
\* is its subvolume's own.  Snapshots were taken in earlier ones.
TimesOK == \A r \in Roots :
             /\ snap[r] < transid
             /\ tree[r].gen <= transid
             /\ r \in Present /\ tree[r].gen = transid => tree[r].owner = r

\* A leaf that another subvolume owns, and that is without full backreferences,
\* is that subvolume's leaf still, and from before its last snapshot.
OwnersOK == \A r \in Present : tree[r].owner # r /\ ~tree[r].full =>
              LET o == tree[r].owner
              IN  /\ o \in Present /\ tree[o].owner = o
                  /\ tree[o].gen = tree[r].gen
                  /\ tree[r].gen <= snap[o]

FsInv == FsTypes /\ TimesOK /\ OwnersOK

LEMMA InitFs == Init => FsInv
<1> SUFFICES ASSUME Init PROVE FsInv OBVIOUS
<1>1. First \in Roots /\ 1 \in 0 .. MaxRefs BY ResolveAssumption
<1>2. FsTypes BY <1>1 DEF Init, FsTypes, Leaf, Status
<1>3. \A r \in Present : r = First BY DEF Init, Present
<1>4. \A r \in Roots : tree[r].owner = First /\ tree[r].gen = 1 /\ snap[r] = 0 BY DEF Init
<1>5. transid = 2 BY DEF Init
<1>6. TimesOK BY <1>4, <1>5 DEF TimesOK
<1>7. OwnersOK BY <1>3, <1>4 DEF OwnersOK, Present
<1> QED BY <1>2, <1>6, <1>7 DEF FsInv

LEMMA LeafFacts ==
    ASSUME FsTypes, NEW r \in Roots
    PROVE  /\ tree[r] \in Leaf /\ tree[r].owner \in Roots /\ tree[r].gen \in Nat
           /\ tree[r].full \in BOOLEAN /\ tree[r].n \in 0 .. MaxRefs /\ tree[r].n \in Nat
           /\ snap[r] \in Nat
<1>1. tree[r] \in Leaf BY DEF FsTypes
<1>2. MaxRefs \in Nat BY ResolveAssumption
<1> QED BY <1>1, <1>2 DEF FsTypes, Leaf

\* Only the flag of a leaf changes as its owner lets go of it, and it does for
\* whoever still shares it.
LEMMA WithoutOwnerFacts ==
    ASSUME FsTypes, NEW r \in Roots
    PROVE  /\ WithoutOwner(r) \in [Roots -> Leaf]
           /\ \A s \in Roots :
                /\ WithoutOwner(r)[s].owner = tree[s].owner
                /\ WithoutOwner(r)[s].gen = tree[s].gen
                /\ WithoutOwner(r)[s].n = tree[s].n
                /\ tree[s].full => WithoutOwner(r)[s].full
                /\ tree[r].owner = r /\ s \in Sharing(r) => WithoutOwner(r)[s].full
<1> SUFFICES ASSUME NEW s \in Roots
             PROVE  /\ WithoutOwner(r)[s] \in Leaf
                    /\ WithoutOwner(r)[s].owner = tree[s].owner
                    /\ WithoutOwner(r)[s].gen = tree[s].gen
                    /\ WithoutOwner(r)[s].n = tree[s].n
                    /\ tree[s].full => WithoutOwner(r)[s].full
                    /\ tree[r].owner = r /\ s \in Sharing(r) => WithoutOwner(r)[s].full
    BY DEF WithoutOwner
<1>1. tree[s] \in Leaf BY LeafFacts
<1>2. CASE s \in Sharing(r) /\ tree[r].owner = r
  <2>1. WithoutOwner(r)[s] = [tree[s] EXCEPT !.full = TRUE] BY <1>2 DEF WithoutOwner
  <2> QED BY <2>1, <1>1 DEF Leaf
<1>3. CASE ~(s \in Sharing(r) /\ tree[r].owner = r)
  <2>1. WithoutOwner(r)[s] = tree[s] BY <1>3 DEF WithoutOwner
  <2> QED BY <2>1, <1>1, <1>3
<1> QED BY <1>2, <1>3

\* Leaves other than r's own stay as they are, but for the flag, and whoever has
\* the leaf that r owned and leaves behind has it flagged.
Leaves(r) ==
    \A s \in Roots \ {r} :
       /\ tree'[s].owner = tree[s].owner /\ tree'[s].gen = tree[s].gen
       /\ tree'[s].n = tree[s].n
       /\ tree[s].full => tree'[s].full

LEMMA WriteFs ==
    ASSUME FsInv, NEW r \in Roots, NEW n \in 0 .. MaxRefs, Write(r, n)
    PROVE  FsInv' /\ Leaves(r) /\ tree'[r].owner = r /\ UNCHANGED <<status, snap, transid>>
<1> DEFINE t == IF tree[r].gen = transid THEN tree ELSE WithoutOwner(r)
           new == [owner |-> r, gen |-> transid, full |-> FALSE, n |-> n]
<1>0. FsTypes /\ TimesOK /\ OwnersOK BY DEF FsInv
<1>1. /\ tree' = [t EXCEPT ![r] = new] /\ UNCHANGED <<status, snap, transid>>
      /\ status[r] = "live"
    BY DEF Write
<1>2. t \in [Roots -> Leaf] /\ \A s \in Roots :
         /\ t[s].owner = tree[s].owner /\ t[s].gen = tree[s].gen /\ t[s].n = tree[s].n
         /\ tree[s].full => t[s].full
         /\ tree[r].gen # transid /\ tree[r].owner = r /\ s \in Sharing(r) => t[s].full
    BY <1>0, WithoutOwnerFacts DEF FsTypes
<1>3. new \in Leaf /\ new.owner = r /\ new.gen = transid BY <1>0 DEF Leaf, FsTypes
<1> HIDE DEF t, new
<1>4. tree' \in [Roots -> Leaf] /\ tree'[r] = new /\ \A s \in Roots : s # r => tree'[s] = t[s]
    BY <1>1, <1>2, <1>3
<1>5. Present' = Present /\ r \in Present BY <1>1 DEF Present
<1>6. FsTypes' BY <1>0, <1>1, <1>4 DEF FsTypes
<1>7. transid \in Nat /\ \A s \in Roots : tree[s].gen \in Nat /\ snap[s] \in Nat
    BY <1>0, LeafFacts DEF FsTypes
<1>8. TimesOK' BY <1>0, <1>1, <1>2, <1>3, <1>4, <1>5, <1>7 DEF TimesOK
<1>9. ASSUME NEW s \in Present, tree'[s].owner # s, ~tree'[s].full
      PROVE  LET o == tree'[s].owner
             IN  /\ o \in Present /\ tree'[o].owner = o
                 /\ tree'[o].gen = tree'[s].gen
                 /\ tree'[s].gen <= snap[o]
  <2> DEFINE o == tree[s].owner
  <2>1. s # r /\ s \in Roots BY <1>3, <1>4, <1>9 DEF Present
  <2>2. tree'[s].owner = o /\ tree'[s].gen = tree[s].gen /\ ~tree[s].full /\ o # s
    <3>1. tree'[s] = t[s] BY <2>1, <1>4
    <3>2. t[s].full \in BOOLEAN /\ tree[s].full \in BOOLEAN BY <2>1, <1>2, <1>0, LeafFacts DEF Leaf
    <3> QED BY <3>1, <3>2, <2>1, <1>2, <1>9
  <2>3. /\ o \in Present /\ tree[o].owner = o
        /\ tree[o].gen = tree[s].gen /\ tree[s].gen <= snap[o]
      BY <2>2, <1>0 DEF OwnersOK
  <2>4. o # r
    <3> SUFFICES ASSUME o = r PROVE FALSE OBVIOUS
    <3>1. tree[r].gen # transid BY <2>3, <1>0, <1>7 DEF TimesOK, Present
    <3>2. s \in Sharing(r) BY <2>3 DEF Sharing
    <3>3. t[s].full BY <3>1, <3>2, <2>1, <2>3, <1>2
    <3> QED BY <3>3, <2>1, <1>4, <1>9
  <2>5. o \in Roots BY <2>3 DEF Present
  <2>6. tree'[o].owner = o /\ tree'[o].gen = tree[o].gen BY <2>3, <2>4, <2>5, <1>2, <1>4
  <2> QED BY <2>2, <2>3, <2>6
<1>10. OwnersOK' BY <1>1, <1>5, <1>9 DEF OwnersOK
<1>11. Leaves(r) BY <1>2, <1>4 DEF Leaves
<1> QED BY <1>1, <1>3, <1>4, <1>6, <1>8, <1>10, <1>11 DEF FsInv

LEMMA CleanFs ==
    ASSUME FsInv, NEW r \in Roots, Clean(r)
    PROVE  /\ FsInv' /\ Leaves(r) /\ status' = [status EXCEPT ![r] = "gone"]
           /\ status[r] = "dying" /\ UNCHANGED <<snap, transid>>
<1>0. FsTypes /\ TimesOK /\ OwnersOK BY DEF FsInv
<1>1. /\ tree' = WithoutOwner(r) /\ UNCHANGED <<snap, transid>>
      /\ status[r] = "dying" /\ status' = [status EXCEPT ![r] = "gone"]
    BY DEF Clean
<1>2. tree' \in [Roots -> Leaf] /\ \A s \in Roots :
         /\ tree'[s].owner = tree[s].owner /\ tree'[s].gen = tree[s].gen /\ tree'[s].n = tree[s].n
         /\ tree[s].full => tree'[s].full
         /\ tree[r].owner = r /\ s \in Sharing(r) => tree'[s].full
    BY <1>0, <1>1, WithoutOwnerFacts
<1>3. Present' = Present \ {r} /\ r \in Present BY <1>0, <1>1 DEF Present, FsTypes
<1>4. FsTypes' BY <1>0, <1>1, <1>2 DEF FsTypes, Status
<1>5. TimesOK' BY <1>0, <1>1, <1>2, <1>3 DEF TimesOK
<1>6. ASSUME NEW s \in Present', tree'[s].owner # s, ~tree'[s].full
      PROVE  LET o == tree'[s].owner
             IN  /\ o \in Present' /\ tree'[o].owner = o
                 /\ tree'[o].gen = tree'[s].gen
                 /\ tree'[s].gen <= snap[o]
  <2> DEFINE o == tree[s].owner
  <2>1. s \in Present /\ s # r /\ s \in Roots BY <1>3 DEF Present
  <2>2. tree'[s].owner = o /\ tree'[s].gen = tree[s].gen /\ ~tree[s].full /\ o # s
    <3>1. tree'[s].full \in BOOLEAN /\ tree[s].full \in BOOLEAN
        BY <2>1, <1>2, <1>0, LeafFacts DEF Leaf
    <3> QED BY <3>1, <2>1, <1>2, <1>6
  <2>3. /\ o \in Present /\ tree[o].owner = o
        /\ tree[o].gen = tree[s].gen /\ tree[s].gen <= snap[o]
      BY <2>1, <2>2, <1>0 DEF OwnersOK
  <2>4. o # r
    <3> SUFFICES ASSUME o = r PROVE FALSE OBVIOUS
    <3>1. s \in Sharing(r) BY <2>1, <2>3 DEF Sharing
    <3> QED BY <3>1, <2>1, <2>3, <1>2, <1>6
  <2>5. o \in Roots BY <2>3 DEF Present
  <2> QED BY <2>2, <2>3, <2>4, <2>5, <1>2, <1>3
<1>7. OwnersOK' BY <1>1, <1>6 DEF OwnersOK
<1>8. Leaves(r) BY <1>2 DEF Leaves
<1> QED BY <1>1, <1>4, <1>5, <1>7, <1>8 DEF FsInv

LEMMA SnapshotFs ==
    ASSUME FsInv, NEW r \in Roots, NEW s \in Roots, Snapshot(r, s)
    PROVE  FsInv' /\ Leaves(s) /\ status[s] = "unborn"
<1>0. FsTypes /\ TimesOK /\ OwnersOK BY DEF FsInv
<1>1. /\ status[r] = "live"
      /\ status' = [status EXCEPT ![s] = "live"]
      /\ tree' = [tree EXCEPT ![s] = tree[r]]
      /\ snap' = [snap EXCEPT ![r] = transid, ![s] = transid]
      /\ transid' = transid + 1
    BY DEF Snapshot, Commits
<1>2. status[s] = "unborn"
  <2> DEFINE T == {t \in Roots : status[t] = "unborn"} \union {Max(Roots) + 1}
  <2>1. s = Min(T) /\ Roots \in SUBSET Nat /\ IsFiniteSet(Roots) /\ s \in Roots
      BY ResolveAssumption DEF Snapshot
  <2>2. Max(Roots) + 1 \in Nat /\ \A x \in Roots : x < Max(Roots) + 1
      BY <2>1, FiniteMax
  <2>3. T \in SUBSET Nat /\ T # {} BY <2>1, <2>2
  <2> HIDE DEF T
  <2>4. \E x \in T : \A y \in T : x <= y BY <2>3, LeastNumber
  <2>5. Min(T) \in T BY <2>4 DEF Min
  <2> QED BY <2>1, <2>2, <2>5 DEF T
<1>3. r # s /\ r \in Present /\ s \notin Present BY <1>1, <1>2 DEF Present
<1>4. Present' = Present \union {s} BY <1>0, <1>1, <1>3 DEF Present, FsTypes
<1>5. /\ tree'[s] = tree[r] /\ \A x \in Roots \ {s} : tree'[x] = tree[x]
      /\ snap'[r] = transid /\ snap'[s] = transid
      /\ \A x \in Roots \ {r, s} : snap'[x] = snap[x]
    BY <1>0, <1>1, <1>3 DEF FsTypes
<1>6. /\ transid \in Nat
      /\ \A x \in Roots : /\ tree[x].gen \in Nat /\ snap[x] \in Nat /\ snap[x] <= snap'[x]
                          /\ tree[x].gen <= transid /\ tree'[x].gen <= transid
  <2>1. transid \in Nat /\ \A x \in Roots : tree[x].gen \in Nat /\ snap[x] \in Nat
      BY <1>0, LeafFacts DEF FsTypes
  <2>2. \A x \in Roots : tree[x].gen <= transid /\ snap[x] < transid BY <1>0 DEF TimesOK
  <2> QED BY <2>1, <2>2, <1>5
<1>7. FsTypes' BY <1>0, <1>1, <1>5 DEF FsTypes, Status
<1>8. TimesOK'
  <2> SUFFICES ASSUME NEW x \in Roots
               PROVE  snap'[x] < transid' /\ tree'[x].gen <= transid' /\ tree'[x].gen # transid'
      BY DEF TimesOK
  <2>1. snap'[x] <= transid /\ snap'[x] \in Nat BY <1>0, <1>5, <1>6 DEF TimesOK
  <2>2. tree'[x].gen \in Nat BY <1>5, <1>6
  <2> QED BY <2>1, <2>2, <1>1, <1>6
<1>9. ASSUME NEW x \in Present', tree'[x].owner # x, ~tree'[x].full
      PROVE  LET o == tree'[x].owner
             IN  /\ o \in Present' /\ tree'[o].owner = o
                 /\ tree'[o].gen = tree'[x].gen
                 /\ tree'[x].gen <= snap'[o]
  <2> DEFINE y == IF x = s THEN r ELSE x
             o == tree[y].owner
  <2>1. y \in Present /\ y \in Roots /\ y # s /\ tree'[x] = tree[y] BY <1>3, <1>4, <1>5 DEF Present
  <2> HIDE DEF y
  <2>2. CASE o = y
    <3>1. x = s /\ y = r BY <2>1, <2>2, <1>9 DEF y
    <3>2. tree[r].gen <= transid BY <1>6
    <3> QED BY <3>1, <3>2, <2>1, <2>2, <1>3, <1>4, <1>5
  <2>3. CASE o # y
    <3>1. /\ o \in Present /\ tree[o].owner = o
          /\ tree[o].gen = tree[y].gen /\ tree[y].gen <= snap[o]
        BY <2>1, <2>3, <1>0, <1>9 DEF OwnersOK
    <3>2. o \in Roots /\ o # s BY <3>1, <1>3 DEF Present
    <3>3. tree[y].gen <= snap'[o] BY <3>1, <3>2, <2>1, <1>6, <1>5
    <3> QED BY <3>1, <3>2, <3>3, <2>1, <1>4, <1>5
  <2> QED BY <2>2, <2>3
<1>10. OwnersOK' BY <1>9 DEF OwnersOK
<1>11. Leaves(s) BY <1>5 DEF Leaves
<1> QED BY <1>2, <1>7, <1>8, <1>10, <1>11 DEF FsInv

LEMMA CommitFs == ASSUME FsInv, Commit PROVE FsInv' /\ UNCHANGED <<status, tree>>
<1>0. FsTypes /\ TimesOK /\ OwnersOK BY DEF FsInv
<1>1. UNCHANGED <<status, tree, snap>> /\ transid' = transid + 1 BY DEF Commit, Commits
<1>2. transid \in Nat /\ \A x \in Roots : tree[x].gen \in Nat /\ snap[x] \in Nat
    BY <1>0, LeafFacts DEF FsTypes
<1>3. FsTypes' BY <1>0, <1>1 DEF FsTypes
<1>4. TimesOK' BY <1>0, <1>1, <1>2 DEF TimesOK
<1>5. OwnersOK' BY <1>0, <1>1 DEF OwnersOK, Present
<1> QED BY <1>1, <1>3, <1>4, <1>5 DEF FsInv

LEMMA DeleteFs ==
    ASSUME FsInv, NEW r \in Roots, DeleteSubvolume(r)
    PROVE  FsInv' /\ UNCHANGED tree
<1>0. FsTypes /\ TimesOK /\ OwnersOK BY DEF FsInv
<1>1. /\ UNCHANGED <<tree, snap, transid>> /\ status[r] = "live"
      /\ status' = [status EXCEPT ![r] = "dying"]
    BY DEF DeleteSubvolume
<1>2. Present' = Present BY <1>0, <1>1 DEF Present, FsTypes
<1>3. FsTypes' BY <1>0, <1>1 DEF FsTypes, Status
<1>4. TimesOK' BY <1>0, <1>1, <1>2 DEF TimesOK
<1>5. OwnersOK' BY <1>0, <1>1, <1>2 DEF OwnersOK
<1> QED BY <1>1, <1>3, <1>4, <1>5 DEF FsInv

-----------------------------------------------------------------------------
(* What the extent tree would say now, and the references.                 *)

Now == Account(status, tree)

LEMMA HeldFacts ==
    ASSUME FsTypes, NEW p \in Held
    PROVE  /\ p[1] \in Roots /\ status[p[1]] = "live" /\ p[1] \in Present
           /\ p[2] \in Nat \ {0} /\ p[2] <= tree[p[1]].n
<1>1. PICK r \in Roots : status[r] = "live" /\ p \in {r} \X (1 .. tree[r].n) BY DEF Held
<1>2. p[1] = r /\ p[2] \in 1 .. tree[r].n BY <1>1
<1>3. tree[r].n \in Nat BY LeafFacts
<1> QED BY <1>1, <1>2, <1>3 DEF Present

\* While nothing carries full backreferences, every leaf is accounted for, under
\* its owner.
LEMMA NowFacts ==
    ASSUME FsTypes, ~Now.opaque, NEW r \in Present, tree[r].n > 0
    PROVE  /\ ~tree[r].full
           /\ Now.files[tree[r].owner] \in Nat
           /\ tree[r].n <= Now.files[tree[r].owner]
<1> DEFINE o == tree[r].owner
           T == {0} \union {tree[x].n : x \in {s \in Present : tree[s].owner = o /\ ~tree[s].full}}
<1>1. r \in Roots /\ o \in Roots /\ tree[r].n \in 0 .. MaxRefs BY LeafFacts DEF Present
<1>2. ~tree[r].full
  <2>1. ~\E x \in Present : tree[x].full /\ tree[x].n > 0 BY DEF Now, Account, Present
  <2> QED BY <2>1
<1>3. Now.files[o] = Max(T) BY <1>1 DEF Now, Account, Present
<1>4. \A x \in Present : tree[x].n \in 0 .. MaxRefs BY LeafFacts DEF Present
<1>5. MaxRefs \in Nat /\ 0 \in 0 .. MaxRefs BY ResolveAssumption
<1>6. T \in SUBSET (0 .. MaxRefs) /\ T # {} /\ tree[r].n \in T BY <1>2, <1>4, <1>5
<1> HIDE DEF T
<1>7. Max(T) \in T /\ tree[r].n <= Max(T) BY <1>5, <1>6, MaxIsGreatest
<1>8. Max(T) \in 0 .. MaxRefs BY <1>6, <1>7
<1>9. Max(T) \in Nat BY <1>5, <1>8
<1> QED BY <1>2, <1>3, <1>7, <1>9

\* A leaf with a snapshot's references is where it was, unless it was written.
UsersDid ==
    /\ FsInv'
    /\ UNCHANGED <<cache, tool>>
    /\ steady' \subseteq steady /\ steady' \subseteq Held'
    /\ lagged' \in BOOLEAN
    /\ ~lagged' => ~lagged /\ Now' = Now
    /\ \A p \in steady' : tree'[p[1]].owner # p[1] =>
          tree'[p[1]].owner = tree[p[1]].owner /\ tree'[p[1]].gen = tree[p[1]].gen

LEMMA UsersDo == ASSUME FsInv, steady \subseteq Held, lagged \in BOOLEAN, Users PROVE UsersDid
<1>0. FsTypes BY DEF FsInv
<1>1. \A p \in steady : p[1] \in Roots /\ status[p[1]] = "live" BY <1>0, HeldFacts
<1>2. ASSUME Observe
      PROVE  /\ steady' \subseteq steady /\ steady' \subseteq Held' /\ lagged' \in BOOLEAN
             /\ ~lagged' => ~lagged /\ Now' = Now
  <2>1. steady' = steady \intersect Held' /\ lagged' = (lagged \/ Now' # Now)
      BY <1>2 DEF Observe, Now
  <2> QED BY <2>1
<1>3. CASE \E r \in Roots : \E n \in 0 .. MaxRefs : Write(r, n)
  <2>1. PICK r \in Roots, n \in 0 .. MaxRefs : Write(r, n) BY <1>3
  <2>2. FsInv' /\ Leaves(r) /\ tree'[r].owner = r BY <2>1, WriteFs
  <2>3. Observe /\ UNCHANGED <<cache, tool>> BY <2>1 DEF Write, User
  <2> QED BY <2>2, <2>3, <1>1, <1>2 DEF UsersDid, Leaves
<1>4. CASE \E r \in Roots : \E s \in Roots : Snapshot(r, s)
  <2>1. PICK r \in Roots, s \in Roots : Snapshot(r, s) BY <1>4
  <2>2. FsInv' /\ Leaves(s) /\ status[s] = "unborn" BY <2>1, SnapshotFs
  <2>3. Observe /\ UNCHANGED <<cache, tool>> BY <2>1 DEF Snapshot, User
  <2>4. \A p \in steady : p[1] \in Roots \ {s} BY <2>2, <1>1
  <2> QED BY <2>2, <2>3, <2>4, <1>2 DEF UsersDid, Leaves
<1>5. CASE \E r \in Roots : DeleteSubvolume(r)
  <2>1. PICK r \in Roots : DeleteSubvolume(r) BY <1>5
  <2>2. FsInv' /\ UNCHANGED tree BY <2>1, DeleteFs
  <2>3. Observe /\ UNCHANGED <<cache, tool>> BY <2>1 DEF DeleteSubvolume, User
  <2> QED BY <2>2, <2>3, <1>2 DEF UsersDid
<1>6. CASE \E r \in Roots : Clean(r)
  <2>1. PICK r \in Roots : Clean(r) BY <1>6
  <2>2. FsInv' /\ Leaves(r) /\ status[r] = "dying" BY <2>1, CleanFs
  <2>3. Observe /\ UNCHANGED <<cache, tool>> BY <2>1 DEF Clean
  <2>4. \A p \in steady : p[1] \in Roots \ {r} BY <2>2, <1>1
  <2> QED BY <2>2, <2>3, <2>4, <1>2 DEF UsersDid, Leaves
<1>7. CASE Commit
  <2>1. FsInv' /\ UNCHANGED tree BY <1>7, CommitFs
  <2>2. Observe /\ UNCHANGED <<cache, tool>> BY <1>7 DEF Commit, User
  <2> QED BY <2>1, <2>2, <1>2 DEF UsersDid
<1>8. CASE Flush
  <2>1. UNCHANGED <<fs, cache, tool, since>> BY <1>8 DEF Flush
  <2>2. UNCHANGED <<status, tree, snap, transid, cache, tool, lagged, steady>>
      BY <2>1 DEF fs, since
  <2>3. FsInv' BY <2>2 DEF FsInv, FsTypes, TimesOK, OwnersOK, Present
  <2>4. Held' = Held /\ Now' = Now BY <2>2 DEF Held, Now, Account
  <2> QED BY <2>2, <2>3, <2>4 DEF UsersDid
<1> QED BY <1>3, <1>4, <1>5, <1>6, <1>7, <1>8 DEF Users

-----------------------------------------------------------------------------
(* The tool.                                                               *)

Control ==
    /\ cache \in [Roots -> Int]
    /\ lagged \in BOOLEAN
    /\ steady \subseteq Held
    /\ \A r \in DOMAIN found : found[r].n \in Nat
    /\ result = "ok" => pc = "done" /\ path \in {"tree", "walk"}
    /\ pc = "idle" => found = Nothing
    /\ pc = "shared" => path = "tree"

\* Whether the extent tree is being trusted, or has been, and can be.
Trusted == path = "tree" /\ ~lagged /\ (pc \in {"collect", "shared"} \/ result = "ok")

\* What the extent tree says is collected, or still to be.
Accounted ==
    /\ ~Now.opaque
    /\ pc = "collect" => \A o \in DOMAIN data : data[o] = Now.files[o]
    /\ \A o \in Roots : Now.files[o] > 0 =>
          \/ pc = "collect" /\ o \in DOMAIN data
          \/ o \in DOMAIN found /\ found[o].n = Now.files[o]

\* A leaf that r has from another subvolume, o, is one may_be_shared has to find:
\* o's last snapshot is no older, wherever it is read from, o's references are
\* of that leaf, even if o has another by now, and they are yet to be checked.
Exposed(r) ==
    LET o == tree[r].owner
    IN  /\ cache[o] = None \/ tree[r].gen <= cache[o]
        /\ o \in DOMAIN found => found[o].gen = tree[r].gen
        /\ pc = "shared" => o \in DOMAIN data
        /\ result # "ok"

TreeInv == Trusted =>
    Accounted /\ \A p \in steady : tree[p[1]].owner # p[1] => Exposed(p[1])

Walked == path = "walk" /\ (pc = "collect" \/ result = "ok")

WalkInv == Walked => \A p \in steady :
    \/ pc = "collect" /\ p[1] \in DOMAIN data /\ p[2] <= data[p[1]]
    \/ p[1] \in DOMAIN found /\ p[2] <= found[p[1]].n

RefsInv == FsInv /\ Control /\ TreeInv /\ WalkInv

LEMMA NothingIsEmpty == DOMAIN Nothing = {}
BY DEF Nothing

LEMMA InitRefs == Init => RefsInv
<1> SUFFICES ASSUME Init PROVE RefsInv OBVIOUS
<1>1. First \in Roots BY ResolveAssumption
<1>2. Control
  <2>1. cache \in [Roots -> Int] BY DEF Init, None
  <2> QED BY <2>1, NothingIsEmpty DEF Init, Control
<1>3. TreeInv /\ WalkInv BY DEF Init, TreeInv, Trusted, WalkInv, Walked
<1> QED BY <1>2, <1>3, InitFs DEF RefsInv

\* A reference in a leaf that another subvolume owns.
LEMMA Lent ==
    ASSUME FsInv, ~Now.opaque, NEW p \in Held, tree[p[1]].owner # p[1]
    PROVE  LET o == tree[p[1]].owner
           IN  /\ p[1] \in Roots /\ o \in Roots
               /\ tree[o].gen = tree[p[1]].gen /\ tree[o].gen \in Nat
               /\ tree[p[1]].gen <= snap[o] /\ snap[o] \in Nat
               /\ Now.files[o] > 0
<1> DEFINE r == p[1]
           o == tree[r].owner
<1>0. FsTypes /\ OwnersOK BY DEF FsInv
<1>1. r \in Present /\ r \in Roots /\ p[2] \in Nat \ {0} /\ p[2] <= tree[r].n BY <1>0, HeldFacts
<1>2. tree[r].n \in Nat /\ tree[r].n > 0
  <2>1. tree[r].n \in Nat BY <1>0, <1>1, LeafFacts
  <2> QED BY <2>1, <1>1
<1>3. ~tree[r].full /\ Now.files[o] \in Nat /\ tree[r].n <= Now.files[o]
    BY <1>0, <1>1, <1>2, NowFacts
<1>4. o \in Present /\ tree[o].gen = tree[r].gen /\ tree[r].gen <= snap[o]
    BY <1>0, <1>1, <1>3 DEF OwnersOK
<1>5. o \in Roots BY <1>4 DEF Present
<1>6. tree[o].gen \in Nat /\ snap[o] \in Nat BY <1>0, <1>5, LeafFacts
<1>7. Now.files[o] > 0 BY <1>2, <1>3
<1> QED BY <1>1, <1>4, <1>5, <1>6, <1>7

\* The tool changes nothing in the filesystem.
LEMMA FsKept ==
    ASSUME FsInv, UNCHANGED fs
    PROVE  /\ FsInv' /\ Held' = Held /\ Now' = Now /\ Present' = Present
           /\ UNCHANGED <<status, tree, snap, transid>>
<1>1. UNCHANGED <<status, tree, snap, transid>> BY DEF fs
<1>2. FsInv' BY <1>1 DEF FsInv, FsTypes, TimesOK, OwnersOK, Present
<1> QED BY <1>1, <1>2 DEF Held, Now, Account, Present

LEMMA UsersRefs == ASSUME RefsInv, Users PROVE RefsInv'
<1>0. FsInv /\ Control /\ TreeInv /\ WalkInv BY DEF RefsInv
<1>1. UsersDid BY <1>0, UsersDo DEF Control
<1>2. UNCHANGED <<cache, pc, path, data, found, result>> BY <1>1 DEF UsersDid, tool
<1>3. FsInv' BY <1>1 DEF UsersDid
<1>4. Control' BY <1>0, <1>1, <1>2 DEF Control, UsersDid
<1>5. WalkInv' BY <1>0, <1>1, <1>2 DEF WalkInv, Walked, UsersDid
<1>6. ASSUME Trusted'
      PROVE  Accounted' /\ \A p \in steady' : tree'[p[1]].owner # p[1] => Exposed(p[1])'
  <2>1. Trusted /\ Now' = Now BY <1>1, <1>2, <1>6 DEF Trusted, UsersDid
  <2>2. Accounted /\ \A p \in steady : tree[p[1]].owner # p[1] => Exposed(p[1])
      BY <2>1, <1>0 DEF TreeInv
  <2>3. Accounted' BY <2>1, <2>2, <1>2 DEF Accounted
  <2>4. ASSUME NEW p \in steady', tree'[p[1]].owner # p[1] PROVE Exposed(p[1])'
    <3>1. /\ p \in steady /\ tree'[p[1]].owner = tree[p[1]].owner
          /\ tree'[p[1]].gen = tree[p[1]].gen
        BY <2>4, <1>1 DEF UsersDid
    <3>2. Exposed(p[1]) BY <3>1, <2>2, <2>4
    <3> QED BY <3>1, <3>2, <1>2 DEF Exposed
  <2> QED BY <2>3, <2>4
<1>7. TreeInv' BY <1>6 DEF TreeInv
<1> QED BY <1>3, <1>4, <1>5, <1>7 DEF RefsInv

LEMMA ReadBatchRefs == ASSUME RefsInv, ReadBatch PROVE RefsInv'
<1>0. FsInv /\ Control BY DEF RefsInv
<1>1. /\ pc = "idle" /\ UNCHANGED <<fs, found, result>>
      /\ cache' = [r \in Roots |-> None]
      /\ data' = Restrict(account.files, {r \in Roots : account.files[r] > 0})
      /\ pc' = IF account.opaque THEN "lookup" ELSE "collect"
      /\ path' = "tree"
      /\ lagged' = (account # Now)
      /\ steady' = Held
    BY DEF ReadBatch, Now
<1>2. FsInv' /\ Held' = Held /\ Now' = Now BY <1>0, <1>1, FsKept
<1>3. found' = Nothing /\ result' # "ok" BY <1>0, <1>1 DEF Control
<1>4. Control'
  <2>1. cache' \in [Roots -> Int] BY <1>1 DEF None
  <2> QED BY <2>1, <1>1, <1>2, <1>3, NothingIsEmpty DEF Control
<1>5. WalkInv' BY <1>1 DEF WalkInv, Walked
<1>6. ASSUME Trusted'
      PROVE  Accounted' /\ \A p \in steady' : tree'[p[1]].owner # p[1] => Exposed(p[1])'
  <2>1. pc' = "collect" /\ account = Now /\ ~account.opaque BY <1>1, <1>3, <1>6 DEF Trusted
  <2>2. /\ \A o \in Roots : account.files[o] > 0 => o \in DOMAIN data'
        /\ \A o \in DOMAIN data' : data'[o] = account.files[o]
      BY <1>1 DEF Restrict
  <2>3. Accounted' BY <2>1, <2>2, <1>2 DEF Accounted
  <2>4. ASSUME NEW p \in steady', tree'[p[1]].owner # p[1] PROVE Exposed(p[1])'
    <3>1. tree' = tree BY <1>1 DEF fs
    <3>2. tree[p[1]].owner \in Roots BY <3>1, <2>1, <2>4, <1>0, <1>1, Lent
    <3>3. cache'[tree'[p[1]].owner] = None BY <3>1, <3>2, <1>1
    <3> QED BY <3>3, <2>1, <1>3, NothingIsEmpty DEF Exposed
  <2> QED BY <2>3, <2>4
<1>7. TreeInv' BY <1>6 DEF TreeInv
<1> QED BY <1>2, <1>4, <1>5, <1>7 DEF RefsInv

\* Whatever is read into the cache is no older than the leaves that were lent.
LEMMA CacheRefs ==
    ASSUME RefsInv, NEW q \in Roots, UNCHANGED <<fs, tool, since>>,
           cache' = [cache EXCEPT ![q] = LastSnapshot(q)]
    PROVE  RefsInv'
<1>0. FsInv /\ Control /\ TreeInv /\ WalkInv BY DEF RefsInv
<1>1. UNCHANGED <<pc, path, data, found, result, lagged, steady>> BY DEF tool, since
<1>2. FsInv' /\ Held' = Held /\ Now' = Now /\ tree' = tree BY <1>0, FsKept
<1>3. Control'
  <2>1. cache \in [Roots -> Int] /\ snap[q] \in Nat BY <1>0, LeafFacts DEF Control, FsInv
  <2>2. cache' \in [Roots -> Int] BY <2>1 DEF LastSnapshot
  <2> QED BY <2>2, <1>0, <1>1, <1>2 DEF Control
<1>4. WalkInv' BY <1>0, <1>1 DEF WalkInv, Walked
<1>5. ASSUME Trusted'
      PROVE  Accounted' /\ \A p \in steady' : tree'[p[1]].owner # p[1] => Exposed(p[1])'
  <2>1. Accounted /\ \A p \in steady : tree[p[1]].owner # p[1] => Exposed(p[1])
      BY <1>0, <1>1, <1>5 DEF TreeInv, Trusted
  <2>2. Accounted' BY <2>1, <1>1, <1>2 DEF Accounted
  <2>3. ASSUME NEW p \in steady', tree'[p[1]].owner # p[1] PROVE Exposed(p[1])'
    <3> DEFINE o == tree[p[1]].owner
    <3>1. p \in steady /\ p \in Held /\ Exposed(p[1]) BY <2>1, <2>3, <1>0, <1>1, <1>2 DEF Control
    <3>2. o \in Roots /\ tree[p[1]].gen <= snap[o]
        BY <3>1, <2>1, <2>3, <1>0, <1>2, Lent DEF Accounted
    <3>3. cache'[o] = None \/ tree[p[1]].gen <= cache'[o]
        BY <3>1, <3>2, <1>0 DEF Exposed, Control, LastSnapshot
    <3> QED BY <3>1, <3>3, <1>1, <1>2 DEF Exposed
  <2> QED BY <2>2, <2>3
<1>6. TreeInv' BY <1>5 DEF TreeInv
<1> QED BY <1>2, <1>3, <1>4, <1>6 DEF RefsInv

LEMMA CollectRefs == ASSUME RefsInv, NEW q \in Roots, Collect(q) PROVE RefsInv'
<1>0. FsInv /\ Control /\ TreeInv /\ WalkInv BY DEF RefsInv
<1>1. /\ pc = "collect" /\ q \in DOMAIN data /\ tree[q].n = data[q]
      /\ DOMAIN found' = DOMAIN found \union {q}
      /\ found'[q].n = tree[q].n /\ found'[q].gen = tree[q].gen
      /\ \A s \in DOMAIN found \ {q} : found'[s] = found[s]
      /\ DOMAIN data' = DOMAIN data \ {q}
      /\ \A s \in DOMAIN data \ {q} : data'[s] = data[s]
      /\ UNCHANGED fs /\ UNCHANGED <<cache, pc, path, result, lagged, steady>>
    BY DEF Collect, AddsUp, Restrict, since
<1>2. FsInv' /\ Held' = Held /\ Now' = Now /\ tree' = tree BY <1>0, <1>1, FsKept
<1>3. Control'
  <2>1. tree[q].n \in Nat BY <1>0, LeafFacts DEF FsInv
  <2>2. \A s \in DOMAIN found' : found'[s].n \in Nat BY <2>1, <1>0, <1>1 DEF Control
  <2> QED BY <2>2, <1>0, <1>1, <1>2 DEF Control
<1>4. WalkInv'
  <2> SUFFICES ASSUME Walked', NEW p \in steady'
               PROVE  \/ p[1] \in DOMAIN data' /\ p[2] <= data'[p[1]]
                      \/ p[1] \in DOMAIN found' /\ p[2] <= found'[p[1]].n
      BY <1>1 DEF WalkInv
  <2>1. \/ p[1] \in DOMAIN data /\ p[2] <= data[p[1]]
        \/ p[1] \in DOMAIN found /\ p[2] <= found[p[1]].n
      BY <1>0, <1>1 DEF WalkInv, Walked
  <2>2. p[1] = q => p[1] \in DOMAIN found' /\ p[2] <= found'[p[1]].n
    <3>1. p \in Held /\ FsTypes BY <1>0, <1>1 DEF Control, FsInv
    <3> QED BY <3>1, <1>1, HeldFacts
  <2> QED BY <2>1, <2>2, <1>1
<1>5. ASSUME Trusted'
      PROVE  Accounted' /\ \A p \in steady' : tree'[p[1]].owner # p[1] => Exposed(p[1])'
  <2>1. Accounted /\ \A p \in steady : tree[p[1]].owner # p[1] => Exposed(p[1])
      BY <1>0, <1>1, <1>5 DEF TreeInv, Trusted
  <2>2. Accounted'
    <3> SUFFICES ASSUME NEW o \in Roots, Now.files[o] > 0
                 PROVE  \/ o \in DOMAIN data'
                        \/ o \in DOMAIN found' /\ found'[o].n = Now.files[o]
        BY <2>1, <1>1, <1>2 DEF Accounted
    <3>1. \/ o \in DOMAIN data
          \/ o \in DOMAIN found /\ found[o].n = Now.files[o]
        BY <2>1 DEF Accounted
    <3>2. data[q] = Now.files[q] BY <2>1, <1>1 DEF Accounted
    <3> QED BY <3>1, <3>2, <1>1
  <2>3. ASSUME NEW p \in steady', tree'[p[1]].owner # p[1] PROVE Exposed(p[1])'
    <3> DEFINE o == tree[p[1]].owner
    <3>1. p \in Held /\ Exposed(p[1]) BY <2>1, <2>3, <1>0, <1>1, <1>2 DEF Control
    <3>2. tree[o].gen = tree[p[1]].gen
        BY <3>1, <2>1, <2>3, <1>0, <1>2, Lent DEF Accounted
    <3>3. o \in DOMAIN found' => found'[o].gen = tree[p[1]].gen
        BY <3>1, <3>2, <1>1 DEF Exposed
    <3> QED BY <3>1, <3>3, <1>1, <1>2 DEF Exposed
  <2> QED BY <2>2, <2>3
<1>6. TreeInv' BY <1>5 DEF TreeInv
<1> QED BY <1>2, <1>3, <1>4, <1>6 DEF RefsInv

\* Nothing is claimed of a lookup, nor of one that fails.
LEMMA IdleRefs ==
    ASSUME RefsInv, UNCHANGED fs, cache' \in [Roots -> Int], lagged' \in BOOLEAN,
           steady' \subseteq Held, pc' \in {"lookup", "done"}, result' # "ok",
           found' \in {found, Nothing}
    PROVE  RefsInv'
<1>1. FsInv' /\ Held' = Held BY FsKept DEF RefsInv
<1>2. Control' BY <1>1, NothingIsEmpty DEF Control, RefsInv
<1>3. TreeInv' /\ WalkInv' BY DEF TreeInv, Trusted, WalkInv, Walked
<1> QED BY <1>1, <1>2, <1>3 DEF RefsInv

LEMMA ResolveAgainRefs == ASSUME RefsInv, ResolveAgain PROVE RefsInv'
<1>1. Control BY DEF RefsInv
<1>2. /\ UNCHANGED <<fs, cache, found, result, lagged, steady>>
      /\ pc = "idle" /\ pc' = "lookup"
    BY DEF ResolveAgain
<1> QED BY <1>1, <1>2, IdleRefs DEF Control

LEMMA CollectFailsRefs == ASSUME RefsInv, NEW q \in Roots, CollectFails(q) PROVE RefsInv'
<1>1. Control BY DEF RefsInv
<1>2. UNCHANGED <<fs, cache, lagged, steady>> /\ pc = "collect" BY DEF CollectFails, since
<1>3. pc' \in {"lookup", "done"} /\ result' # "ok" /\ found' \in {found, Nothing}
    BY <1>1, <1>2 DEF CollectFails, FallBack, Finish, Control
<1> QED BY <1>1, <1>2, <1>3, IdleRefs DEF Control

LEMMA CollectedRefs == ASSUME RefsInv, Collected PROVE RefsInv'
<1>0. FsInv /\ Control /\ TreeInv /\ WalkInv BY DEF RefsInv
<1>1. /\ pc = "collect" /\ DOMAIN data = {} /\ result # "ok"
      /\ UNCHANGED <<fs, cache, path, lagged, steady>>
    BY <1>0 DEF Collected, since, Control
<1>2. FsInv' /\ Held' = Held /\ Now' = Now /\ tree' = tree BY <1>0, <1>1, FsKept
<1>3. CASE pc' \in {"lookup", "done"} /\ result' # "ok" /\ found' \in {found, Nothing}
    BY <1>0, <1>1, <1>3, IdleRefs DEF Control
<1>4. CASE /\ path = "tree" /\ pc' = "shared" /\ data' = [r \in DOMAIN found |-> found[r].n]
           /\ UNCHANGED <<found, result>>
  <2>1. Control' BY <1>0, <1>1, <1>2, <1>4 DEF Control
  <2>2. WalkInv' BY <1>1, <1>4 DEF WalkInv, Walked
  <2>3. ASSUME Trusted'
        PROVE  Accounted' /\ \A p \in steady' : tree'[p[1]].owner # p[1] => Exposed(p[1])'
    <3>1. Accounted /\ \A p \in steady : tree[p[1]].owner # p[1] => Exposed(p[1])
        BY <2>3, <1>0, <1>1, <1>4 DEF TreeInv, Trusted
    <3>2. \A o \in Roots : Now.files[o] > 0 => o \in DOMAIN found /\ found[o].n = Now.files[o]
        BY <3>1, <1>1 DEF Accounted
    <3>3. Accounted' BY <3>1, <3>2, <1>2, <1>4 DEF Accounted
    <3>4. ASSUME NEW p \in steady', tree'[p[1]].owner # p[1] PROVE Exposed(p[1])'
      <4> DEFINE o == tree[p[1]].owner
      <4>1. p \in Held /\ Exposed(p[1]) BY <3>1, <3>4, <1>0, <1>1, <1>2 DEF Control
      <4>2. o \in Roots /\ Now.files[o] > 0
          BY <4>1, <3>1, <3>4, <1>0, <1>2, Lent DEF Accounted
      <4>3. o \in DOMAIN data' BY <4>2, <3>2, <1>4
      <4> QED BY <4>1, <4>3, <1>1, <1>2, <1>4 DEF Exposed
    <3> QED BY <3>3, <3>4
  <2>4. TreeInv' BY <2>3 DEF TreeInv
  <2> QED BY <2>1, <2>2, <2>4, <1>2 DEF RefsInv
<1>5. CASE path = "walk" /\ pc' = "done" /\ result' = "ok" /\ UNCHANGED <<data, found>>
  <2>1. Control' BY <1>0, <1>1, <1>2, <1>5 DEF Control
  <2>2. WalkInv' BY <1>0, <1>1, <1>5 DEF WalkInv, Walked
  <2>3. TreeInv' BY <1>1, <1>5 DEF TreeInv, Trusted
  <2> QED BY <2>1, <2>2, <2>3, <1>2 DEF RefsInv
<1> QED BY <1>1, <1>3, <1>4, <1>5 DEF Collected, FallBack, Finish

\* A leaf that is lent is not passed over.
LEMMA CheckSharedRefs == ASSUME RefsInv, NEW q \in Roots, CheckShared(q) PROVE RefsInv'
<1>0. FsInv /\ Control /\ TreeInv /\ WalkInv BY DEF RefsInv
<1>1. /\ pc = "shared" /\ q \in DOMAIN data /\ result # "ok" /\ path = "tree"
      /\ cache' = [cache EXCEPT ![q] = LastSnapshot(q)]
      /\ UNCHANGED <<fs, path, lagged, steady>>
    BY <1>0 DEF CheckShared, since, Control
<1>2. FsInv' /\ Held' = Held /\ Now' = Now /\ tree' = tree BY <1>0, <1>1, FsKept
<1>3. cache \in [Roots -> Int] /\ cache' \in [Roots -> Int]
  <2>1. cache \in [Roots -> Int] /\ snap[q] \in Nat BY <1>0, LeafFacts DEF Control, FsInv
  <2> QED BY <2>1, <1>1 DEF LastSnapshot
<1>4. CASE MayBeShared(found[q].gen, LastSnapshot(q))
  <2>1. pc' = "lookup" /\ found' = Nothing /\ UNCHANGED result BY <1>4 DEF CheckShared, FallBack
  <2> QED BY <2>1, <1>0, <1>1, <1>3, IdleRefs DEF Control
<1>5. CASE ~MayBeShared(found[q].gen, LastSnapshot(q))
  <2>1. DOMAIN data' = DOMAIN data \ {q} /\ UNCHANGED <<pc, found, result>>
      BY <1>5 DEF CheckShared, Restrict
  <2>2. Control' BY <2>1, <1>0, <1>1, <1>2, <1>3 DEF Control
  <2>3. WalkInv' BY <2>1, <1>1 DEF WalkInv, Walked
  <2>4. ASSUME Trusted'
        PROVE  Accounted' /\ \A p \in steady' : tree'[p[1]].owner # p[1] => Exposed(p[1])'
    <3>1. Accounted /\ \A p \in steady : tree[p[1]].owner # p[1] => Exposed(p[1])
        BY <2>1, <2>4, <1>0, <1>1 DEF TreeInv, Trusted
    <3>2. Accounted' BY <3>1, <2>1, <1>1, <1>2 DEF Accounted
    <3>3. ASSUME NEW p \in steady', tree'[p[1]].owner # p[1] PROVE Exposed(p[1])'
      <4> DEFINE o == tree[p[1]].owner
      <4>1. p \in Held /\ Exposed(p[1]) BY <3>1, <3>3, <1>0, <1>1, <1>2 DEF Control
      <4>2. o \in Roots /\ tree[p[1]].gen <= snap[o] /\ Now.files[o] > 0
          BY <4>1, <3>1, <3>3, <1>0, <1>2, Lent DEF Accounted
      <4>3. found[o].gen = tree[p[1]].gen
        <5>1. o \in DOMAIN found BY <4>2, <3>1, <1>1 DEF Accounted
        <5> QED BY <5>1, <4>1 DEF Exposed
      <4>4. tree[p[1]].gen <= LastSnapshot(o) BY <4>1, <4>2 DEF Exposed, LastSnapshot
      <4>5. o # q BY <4>3, <4>4, <1>5 DEF MayBeShared
      <4>6. cache'[o] = cache[o] /\ o \in DOMAIN data'
          BY <4>1, <4>2, <4>5, <2>1, <1>1, <1>3 DEF Exposed
      <4> QED BY <4>1, <4>6, <2>1, <1>2 DEF Exposed
    <3> QED BY <3>2, <3>3
  <2>5. TreeInv' BY <2>4 DEF TreeInv
  <2> QED BY <2>2, <2>3, <2>5, <1>2 DEF RefsInv
<1> QED BY <1>4, <1>5

LEMMA NotSharedRefs == ASSUME RefsInv, NotShared PROVE RefsInv'
<1>0. FsInv /\ Control /\ TreeInv /\ WalkInv BY DEF RefsInv
<1>1. /\ pc = "shared" /\ DOMAIN data = {} /\ path = "tree" /\ pc' = "done"
      /\ UNCHANGED <<fs, cache, path, data, found, lagged, steady>>
    BY <1>0 DEF NotShared, Finish, since, Control
<1>2. FsInv' /\ Held' = Held /\ Now' = Now /\ tree' = tree BY <1>0, <1>1, FsKept
<1>3. Control' BY <1>0, <1>1, <1>2 DEF Control
<1>4. WalkInv' BY <1>1 DEF WalkInv, Walked
<1>5. ASSUME Trusted'
      PROVE  Accounted' /\ \A p \in steady' : tree'[p[1]].owner # p[1] => Exposed(p[1])'
  <2>1. Accounted /\ \A p \in steady : tree[p[1]].owner # p[1] => Exposed(p[1])
      BY <1>0, <1>1, <1>5 DEF TreeInv, Trusted
  <2>2. Accounted' BY <2>1, <1>1, <1>2 DEF Accounted
  <2>3. \A p \in steady' : tree'[p[1]].owner = p[1] BY <2>1, <1>1, <1>2 DEF Exposed
  <2> QED BY <2>2, <2>3
<1>6. TreeInv' BY <1>5 DEF TreeInv
<1> QED BY <1>2, <1>3, <1>4, <1>6 DEF RefsInv

LEMMA LookupRefs == ASSUME RefsInv, NEW some, Lookup(some) PROVE RefsInv'
<1>0. FsInv /\ Control BY DEF RefsInv
<1>1. /\ pc = "lookup" /\ pc' = "collect" /\ path' = "walk" /\ steady' = Held
      /\ data' = [r \in Reached(some) |-> tree[r].n]
      /\ UNCHANGED <<fs, cache, found, result, lagged>>
    BY DEF Lookup
<1>2. FsInv' /\ Held' = Held BY <1>0, <1>1, FsKept
<1>3. Control' BY <1>0, <1>1, <1>2 DEF Control
<1>4. TreeInv' BY <1>1 DEF TreeInv, Trusted
<1>5. ASSUME NEW p \in Held PROVE p[1] \in DOMAIN data' /\ p[2] <= data'[p[1]]
  <2>1. FsTypes BY <1>0 DEF FsInv
  <2>2. /\ p[1] \in Roots /\ status[p[1]] = "live" /\ p[1] \in Present
        /\ p[2] \in Nat \ {0} /\ p[2] <= tree[p[1]].n
      BY <2>1, HeldFacts
  <2>3. tree[p[1]].n \in Nat BY <2>1, <2>2, LeafFacts
  <2>4. p[1] \in Reached(some) BY <2>2, <2>3 DEF Reached
  <2> QED BY <2>2, <2>4, <1>1
<1>6. WalkInv' BY <1>1, <1>5 DEF WalkInv
<1> QED BY <1>2, <1>3, <1>4, <1>6 DEF RefsInv

LEMMA StutterRefs == ASSUME RefsInv, UNCHANGED vars PROVE RefsInv'
<1>1. UNCHANGED fs /\ UNCHANGED <<cache, pc, path, data, found, result, lagged, steady>>
    BY DEF vars, tool, since
<1>2. FsInv' /\ Held' = Held /\ Now' = Now /\ tree' = tree BY <1>1, FsKept DEF RefsInv
<1>3. Control' BY <1>1, <1>2 DEF RefsInv, Control
<1>4. WalkInv' BY <1>1 DEF RefsInv, WalkInv, Walked
<1>5. TreeInv' BY <1>1, <1>2 DEF RefsInv, TreeInv, Trusted, Accounted, Exposed
<1> QED BY <1>2, <1>3, <1>4, <1>5 DEF RefsInv

LEMMA NextRefs == ASSUME RefsInv, [Next]_vars PROVE RefsInv'
<1>0. Control BY DEF RefsInv
<1>1. CASE ReadBatch BY <1>1, ReadBatchRefs
<1>2. CASE ResolveAgain BY <1>2, ResolveAgainRefs
<1>3. CASE \E r \in Roots : OtherThread(r)
  <2>1. PICK r \in Roots : OtherThread(r) BY <1>3
  <2>2. UNCHANGED <<fs, tool, since>> /\ cache' = [cache EXCEPT ![r] = LastSnapshot(r)]
      BY <2>1 DEF OtherThread, LastSnapshot
  <2> QED BY <2>2, CacheRefs
<1>4. CASE Goes
  <2>1. CASE \E r \in Roots : Collect(r) BY <2>1, CollectRefs
  <2>2. CASE \E r \in Roots : CollectFails(r) BY <2>2, CollectFailsRefs
  <2>3. CASE \E r \in Roots : CheckShared(r) BY <2>3, CheckSharedRefs
  <2>4. CASE \E r \in Roots : CheckFails(r)
    <3>1. /\ UNCHANGED <<fs, cache, found, lagged, steady>>
          /\ pc' = "done" /\ result' = "err"
        BY <2>4 DEF CheckFails, Finish, since
    <3> QED BY <3>1, <1>0, IdleRefs DEF Control
  <2>5. CASE Collected BY <2>5, CollectedRefs
  <2>6. CASE NotShared BY <2>6, NotSharedRefs
  <2>7. CASE LookupNone
    <3>1. /\ UNCHANGED <<fs, cache, found, lagged, steady>>
          /\ pc' = "done" /\ result' = "err"
        BY <2>7 DEF LookupNone, Finish, since
    <3> QED BY <3>1, <1>0, IdleRefs DEF Control
  <2>8. CASE \E some \in SUBSET (Present \ {r \in Roots : status[r] = "live"}) :
               LookupTooSmall(some)
    <3>1. UNCHANGED <<fs, cache, found, lagged, steady>> /\ pc = "lookup"
        BY <2>8 DEF LookupTooSmall, since
    <3>2. (pc' = "done" /\ result' = "err") \/ UNCHANGED <<pc, result>>
        BY <2>8 DEF LookupTooSmall, Finish
    <3> QED BY <3>1, <3>2, <1>0, IdleRefs DEF Control
  <2>9. CASE \E some \in SUBSET (Present \ {r \in Roots : status[r] = "live"}) : Lookup(some)
      BY <2>9, LookupRefs
  <2> QED BY <1>4, <2>1, <2>2, <2>3, <2>4, <2>5, <2>6, <2>7, <2>8, <2>9 DEF Goes
<1>5. CASE Users BY <1>5, UsersRefs
<1>6. CASE Done BY <1>6, StutterRefs DEF Done
<1>7. CASE UNCHANGED vars BY <1>7, StutterRefs
<1> QED BY <1>1, <1>2, <1>3, <1>4, <1>5, <1>6, <1>7 DEF Next

LEMMA RefsFound == RefsInv => EveryReferenceFound
<1> SUFFICES ASSUME RefsInv, result = "ok", path = "walk" \/ ~lagged, NEW p \in steady
             PROVE  p \in FoundRefs
    BY DEF EveryReferenceFound
<1>0. FsTypes /\ Control /\ TreeInv /\ WalkInv /\ p \in Held
    BY DEF RefsInv, FsInv, Control
<1>1. pc = "done" BY <1>0 DEF Control
<1>2. p[1] \in DOMAIN found /\ p[2] <= found[p[1]].n
  <2>1. CASE path = "walk" BY <2>1, <1>0, <1>1 DEF WalkInv, Walked
  <2>2. CASE path = "tree" /\ ~lagged
    <3>1. Accounted /\ tree[p[1]].owner = p[1] BY <2>2, <1>0 DEF TreeInv, Trusted, Exposed
    <3>2. /\ p[1] \in Roots /\ p[1] \in Present
          /\ p[2] \in Nat \ {0} /\ p[2] <= tree[p[1]].n
        BY <1>0, HeldFacts
    <3>3. tree[p[1]].n \in Nat BY <3>2, <1>0, LeafFacts
    <3>4. Now.files[p[1]] \in Nat /\ tree[p[1]].n <= Now.files[p[1]]
        BY <3>1, <3>2, <3>3, <1>0, NowFacts DEF Accounted
    <3>5. p[1] \in DOMAIN found /\ found[p[1]].n = Now.files[p[1]]
        BY <3>1, <3>2, <3>3, <3>4, <1>1 DEF Accounted
    <3> QED BY <3>2, <3>3, <3>4, <3>5
  <2> QED BY <2>1, <2>2, <1>0 DEF Control
<1>3. p = <<p[1], p[2]>> /\ p[2] \in Nat \ {0}
  <2>1. p[2] \in Nat \ {0} BY <1>0, HeldFacts
  <2> QED BY <2>1, <1>0 DEF Held
<1>4. p[2] \in 1 .. found[p[1]].n BY <1>0, <1>2, <1>3 DEF Control
<1>5. p \in {p[1]} \X (1 .. found[p[1]].n) BY <1>3, <1>4
<1> QED BY <1>2, <1>5 DEF FoundRefs

\* Every reference to the extent is found (Filesystem::resolve, resolve_again,
\* may_be_shared, last_snapshot): whatever users write, snapshot and delete and
\* whatever other threads put into the cache of last snapshots meanwhile.  A
\* snapshot whose references are recorded only against the subvolume its leaf
\* is from is never passed over while the extent tree is right.
THEOREM ResolveFindsEveryReference == Spec => []EveryReferenceFound
<1>1. Init => RefsInv BY InitRefs
<1>2. RefsInv /\ [Next]_vars => RefsInv' BY NextRefs
<1>3. RefsInv => EveryReferenceFound BY RefsFound
<1> QED BY <1>1, <1>2, <1>3, PTL DEF Spec

-----------------------------------------------------------------------------
(* What is left alone is resolved.                                         *)

Dying == \E r \in Roots : status[r] = "dying" /\ tree[r].n > 0

\* Nothing is left over from the extent tree when a lookup begins.  While nobody
\* does anything, what has been collected can still be opened, what the walk
\* named is still there to be collected, and it named something.
QuietInv ==
    /\ size \in Nat
    /\ pc = "lookup" => DOMAIN found = {}
    /\ pc = "collect" => path \in {"tree", "walk"}
    /\ quiet /\ pc \in {"collect", "shared"} => \A r \in DOMAIN found : status[r] = "live"
    /\ pc = "shared" => DOMAIN data \subseteq DOMAIN found
    /\ quiet /\ pc = "collect" /\ path = "walk" =>
         /\ \A r \in DOMAIN data : r \in Present /\ data[r] = tree[r].n /\ tree[r].n > 0
         /\ DOMAIN data \union DOMAIN found # {} \/ Dying
    /\ result = "err" => pc = "done"
    /\ QuietResolves

LookupInv == FsInv /\ Control /\ QuietInv

\* What a lookup is to make room for.
LEMMA NeededFacts ==
    ASSUME FsTypes, NEW roots \in SUBSET Roots
    PROVE  Needed(roots) \in Nat
<1> DEFINE H == UNION {{r} \X (1 .. tree[r].n) : r \in roots}
           All == Roots \X (1 .. MaxRefs)
<1>1. IsFiniteSet(Roots) /\ MaxRefs \in Nat BY ResolveAssumption
<1>2. IsFiniteSet(1 .. MaxRefs) BY <1>1, FS_Interval
<1>3. IsFiniteSet(All) BY <1>1, <1>2, FS_Product
<1>4. H \subseteq All
  <2> SUFFICES ASSUME NEW r \in roots, NEW p \in {r} \X (1 .. tree[r].n) PROVE p \in All
      OBVIOUS
  <2>1. tree[r].n \in 0 .. MaxRefs BY LeafFacts
  <2> QED BY <2>1, <1>1
<1> HIDE DEF H, All
<1>5. IsFiniteSet(H) BY <1>3, <1>4, FS_Subset
<1>6. Cardinality(H) \in Nat BY <1>5, FS_CardinalityType
<1> QED BY <1>6 DEF Needed, H

\* With nothing on its way out, the walk comes to what can be opened.
LEMMA ReachedIsHeld ==
    ASSUME FsTypes, ~Dying, NEW some
    PROVE  Needed(Reached(some)) = Cardinality(Held)
<1> DEFINE H == UNION {{r} \X (1 .. tree[r].n) : r \in Reached(some)}
           live == {s \in Roots : status[s] = "live"}
<1>1. ASSUME NEW r \in Reached(some) PROVE r \in live
    BY <1>1 DEF Reached, Present, Dying
<1>2. ASSUME NEW r \in live, NEW p \in {r} \X (1 .. tree[r].n) PROVE r \in Reached(some)
  <2>1. tree[r].n \in Nat BY LeafFacts
  <2>2. p[2] \in 1 .. tree[r].n BY <1>2
  <2>3. tree[r].n > 0 BY <2>1, <2>2
  <2> QED BY <2>3 DEF Reached, Present
<1>3. H = Held
  <2>1. ASSUME NEW p \in H PROVE p \in Held BY <2>1, <1>1 DEF Held
  <2>2. ASSUME NEW p \in Held PROVE p \in H
    <3>1. PICK r \in live : p \in {r} \X (1 .. tree[r].n) BY <2>2 DEF Held
    <3>2. r \in Reached(some) BY <3>1, <1>2
    <3> QED BY <3>1, <3>2
  <2> QED BY <2>1, <2>2
<1> QED BY <1>3 DEF Needed

LEMMA InitQuiet == Init => QuietInv
<1> SUFFICES ASSUME Init PROVE QuietInv OBVIOUS
<1>1. StartSize \in Nat BY ResolveAssumption
<1>2. /\ pc = "idle" /\ result = "none" /\ size = StartSize BY DEF Init
<1> QED BY <1>1, <1>2 DEF QuietInv, QuietResolves

LEMMA UsersQuiet == ASSUME LookupInv, Users PROVE QuietInv'
<1>0. QuietInv BY DEF LookupInv
<1>1. CASE Flush
  <2>1. UNCHANGED <<status, tree, pc, path, data, found, size, result, quiet>>
      BY <1>1 DEF Flush, fs, tool, since
  <2>2. Held' = Held /\ Present' = Present BY <2>1 DEF Held, Present
  <2> QED BY <2>1, <2>2, <1>0 DEF QuietInv, QuietResolves, Dying
<1>2. CASE ~Flush
  <2>1. UNCHANGED tool /\ ~quiet' BY <1>2 DEF Users, Write, Snapshot, DeleteSubvolume, Clean, Commit, User
  <2>2. UNCHANGED <<pc, path, data, found, size, result>> BY <2>1 DEF tool
  <2> QED BY <2>1, <2>2, <1>0 DEF QuietInv, QuietResolves
<1> QED BY <1>1, <1>2

\* Resolution by itself, the filesystem being as it was.
LEMMA GoesQuiet ==
    ASSUME LookupInv, UNCHANGED fs, ReadBatch \/ ResolveAgain \/ Goes
    PROVE  QuietInv'
<1>0. FsInv /\ FsTypes /\ Control /\ QuietInv /\ size \in Nat
    BY DEF LookupInv, FsInv, QuietInv
<1>1. Held' = Held /\ Present' = Present /\ UNCHANGED <<status, tree>> /\ (Dying' <=> Dying)
    BY <1>0, FsKept DEF Dying
<1>2. CASE ReadBatch
  <2>1. /\ pc = "idle" /\ pc' \in {"lookup", "collect"} /\ path' = "tree"
        /\ UNCHANGED <<found, size, result>>
      BY <1>2 DEF ReadBatch
  <2>2. DOMAIN found' = {} /\ result' # "err"
      BY <2>1, <1>0, NothingIsEmpty DEF Control, QuietInv
  <2> QED BY <2>1, <2>2, <1>0 DEF QuietInv, QuietResolves
<1>3. CASE ResolveAgain
  <2>1. pc = "idle" /\ pc' = "lookup" /\ UNCHANGED <<found, size, result>>
      BY <1>3 DEF ResolveAgain
  <2>2. DOMAIN found' = {} /\ result' # "err"
      BY <2>1, <1>0, NothingIsEmpty DEF Control, QuietInv
  <2> QED BY <2>1, <2>2, <1>0 DEF QuietInv, QuietResolves
<1>4. ASSUME FallBack, UNCHANGED size, pc # "done" PROVE QuietInv'
  <2>1. pc' = "lookup" /\ DOMAIN found' = {} /\ result' # "err"
      BY <1>0, <1>4, NothingIsEmpty DEF FallBack, QuietInv
  <2> QED BY <2>1, <1>0, <1>4 DEF QuietInv, QuietResolves
<1>5. ASSUME pc' = "done", UNCHANGED <<size, quiet>>,
             result' = "err" /\ quiet => Held = {} \/ Dying \/ Cardinality(Held) > MaxSize
      PROVE  QuietInv'
  <2>1. QuietResolves' BY <1>1, <1>5 DEF QuietResolves, Dying
  <2> QED BY <2>1, <1>0, <1>5 DEF QuietInv
<1>6. ASSUME NEW q \in Roots, Collect(q) PROVE QuietInv'
  <2>1. /\ pc = "collect" /\ q \in DOMAIN data /\ status[q] = "live"
        /\ DOMAIN found' = DOMAIN found \union {q}
        /\ DOMAIN data' = DOMAIN data \ {q}
        /\ \A s \in DOMAIN data' : data'[s] = data[s]
        /\ UNCHANGED <<pc, path, size, result, quiet>>
      BY <1>6 DEF Collect, AddsUp, Restrict, since
  <2>2. QuietResolves' BY <2>1, <1>0 DEF QuietInv, QuietResolves
  <2> QED BY <2>1, <2>2, <1>0, <1>1 DEF QuietInv
<1>7. ASSUME NEW q \in Roots, CollectFails(q) PROVE QuietInv'
  <2>1. /\ pc = "collect" /\ q \in DOMAIN data /\ ~AddsUp(q)
        /\ UNCHANGED <<path, size, quiet>>
      BY <1>7 DEF CollectFails, since
  <2>2. CASE path = "tree" BY <2>1, <2>2, <1>4, <1>7 DEF CollectFails
  <2>3. CASE path # "tree"
    <3>1. pc' = "done" BY <2>3, <1>7 DEF CollectFails, Finish
    <3>2. path = "walk" /\ quiet => Dying
        BY <2>1, <1>0 DEF QuietInv, AddsUp, Dying, Present
    <3>3. path = "walk" BY <2>1, <2>3, <1>0 DEF QuietInv
    <3> QED BY <3>1, <3>2, <3>3, <2>1, <1>5
  <2> QED BY <2>2, <2>3
<1>8. ASSUME NEW q \in Roots, CheckShared(q) PROVE QuietInv'
  <2>1. pc = "shared" /\ UNCHANGED <<path, size, quiet>> BY <1>8 DEF CheckShared, since
  <2>2. CASE MayBeShared(found[q].gen, LastSnapshot(q)) BY <2>1, <2>2, <1>4, <1>8 DEF CheckShared
  <2>3. CASE ~MayBeShared(found[q].gen, LastSnapshot(q))
    <3>1. DOMAIN data' = DOMAIN data \ {q} /\ UNCHANGED <<pc, found, result>>
        BY <2>3, <1>8 DEF CheckShared, Restrict
    <3>2. QuietResolves' BY <2>1, <3>1, <1>0 DEF QuietInv, QuietResolves
    <3> QED BY <3>1, <3>2, <2>1, <1>0, <1>1 DEF QuietInv
  <2> QED BY <2>2, <2>3
<1>9. ASSUME NEW q \in Roots, CheckFails(q) PROVE QuietInv'
  <2>1. /\ pc = "shared" /\ q \in DOMAIN data /\ ~HasRootItem(q) /\ pc' = "done"
        /\ UNCHANGED <<size, quiet>>
      BY <1>9 DEF CheckFails, Finish, since
  <2>2. ~quiet BY <2>1, <1>0 DEF QuietInv, HasRootItem
  <2> QED BY <2>1, <2>2, <1>5
<1>10. ASSUME Collected PROVE QuietInv'
  <2>1. pc = "collect" /\ DOMAIN data = {} /\ UNCHANGED <<path, size, quiet>>
      BY <1>10 DEF Collected, since
  <2>2. CASE FallBack BY <2>1, <2>2, <1>4
  <2>3. CASE found = Nothing /\ path = "walk" /\ Finish("err")
    <3>1. quiet => Dying BY <2>1, <2>3, <1>0, NothingIsEmpty DEF QuietInv
    <3> QED BY <3>1, <2>1, <2>3, <1>5 DEF Finish
  <2>4. CASE /\ pc' = "shared" /\ data' = [r \in DOMAIN found |-> found[r].n]
             /\ UNCHANGED <<found, result>>
    <3>1. QuietResolves' BY <2>1, <2>4, <1>0 DEF QuietInv, QuietResolves
    <3> QED BY <3>1, <2>1, <2>4, <1>0, <1>1 DEF QuietInv
  <2>5. CASE Finish("ok") BY <2>1, <2>5, <1>5 DEF Finish
  <2> QED BY <2>2, <2>3, <2>4, <2>5, <1>10 DEF Collected
<1>11. ASSUME NotShared PROVE QuietInv' BY <1>5, <1>11 DEF NotShared, Finish, since
<1>12. ASSUME LookupNone PROVE QuietInv'
  <2>1. Held = {}
    <3> SUFFICES ASSUME NEW p \in Held PROVE FALSE OBVIOUS
    <3>1. /\ p[1] \in Roots /\ p[1] \in Present
          /\ p[2] \in Nat \ {0} /\ p[2] <= tree[p[1]].n
        BY <1>0, HeldFacts
    <3>2. tree[p[1]].n \in Nat BY <3>1, <1>0, LeafFacts
    <3>3. p[1] \in Reached(Roots) BY <3>1, <3>2 DEF Reached
    <3> QED BY <3>3, <1>12 DEF LookupNone
  <2> QED BY <2>1, <1>5, <1>12 DEF LookupNone, Finish, since
<1>13. ASSUME NEW some, LookupTooSmall(some) PROVE QuietInv'
  <2> DEFINE n == Needed(Reached(some))
  <2>1. n \in Nat BY <1>0, NeededFacts DEF Reached, Present
  <2>2. ~Dying => n = Cardinality(Held) BY <1>0, ReachedIsHeld
  <2> HIDE DEF n
  <2>3. /\ pc = "lookup" /\ UNCHANGED <<found, quiet>>
        /\ IF size + (n - size) > MaxSize THEN Finish("err") /\ UNCHANGED size
              ELSE size' = size + (n - size) /\ UNCHANGED <<pc, result>>
      BY <1>13 DEF LookupTooSmall, Grown, since, n
  <2>4. size + (n - size) = n BY <2>1, <1>0
  <2>5. CASE n > MaxSize
    <3>1. pc' = "done" /\ UNCHANGED size BY <2>3, <2>4, <2>5 DEF Finish
    <3> QED BY <3>1, <2>2, <2>3, <2>5, <1>5
  <2>6. CASE ~(n > MaxSize)
    <3>1. size' = n /\ UNCHANGED <<pc, result>> BY <2>3, <2>4, <2>6
    <3>2. QuietResolves' BY <3>1, <2>3, <1>0 DEF QuietInv, QuietResolves
    <3> QED BY <3>1, <3>2, <2>1, <2>3, <1>0 DEF QuietInv
  <2> QED BY <2>5, <2>6
<1>14. ASSUME NEW some, Lookup(some) PROVE QuietInv'
  <2>1. /\ pc = "lookup" /\ pc' = "collect" /\ path' = "walk"
        /\ data' = [r \in Reached(some) |-> tree[r].n] /\ Reached(Roots) # {}
        /\ UNCHANGED <<found, size, result, quiet>>
      BY <1>14 DEF Lookup
  <2>2. DOMAIN found' = {} /\ result' # "err" BY <2>1, <1>0 DEF QuietInv
  <2>3. \A r \in DOMAIN data' : r \in Present /\ data'[r] = tree[r].n /\ tree[r].n > 0
      BY <2>1 DEF Reached
  <2>4. Reached(some) # {} \/ Dying
    <3>1. PICK r \in Reached(Roots) : TRUE BY <2>1
    <3> QED BY <3>1 DEF Reached, Dying, Present
  <2>5. DOMAIN data' \union DOMAIN found' # {} \/ Dying' BY <2>1, <2>4, <1>1
  <2> QED BY <2>1, <2>2, <2>3, <2>5, <1>0, <1>1 DEF QuietInv, QuietResolves
<1>15. CASE Goes
    BY <1>6, <1>7, <1>8, <1>9, <1>10, <1>11, <1>12, <1>13, <1>14, <1>15 DEF Goes
<1> QED BY <1>2, <1>3, <1>15

LEMMA NextQuiet == ASSUME LookupInv, [Next]_vars PROVE QuietInv'
<1>1. CASE ReadBatch \/ ResolveAgain \/ Goes
  <2>1. UNCHANGED fs
      BY <1>1 DEF ReadBatch, ResolveAgain, Goes, Collect, CollectFails, CheckShared, CheckFails,
                  Collected, NotShared, LookupNone, LookupTooSmall, Lookup
  <2> QED BY <2>1, <1>1, GoesQuiet
<1>2. CASE Users BY <1>2, UsersQuiet
<1>3. CASE (\E r \in Roots : OtherThread(r)) \/ Done \/ UNCHANGED vars
  <2>1. UNCHANGED <<status, tree, pc, path, data, found, size, result, quiet>>
      BY <1>3 DEF OtherThread, Done, vars, fs, tool, since
  <2>2. Held' = Held /\ Present' = Present BY <2>1 DEF Held, Present
  <2> QED BY <2>1, <2>2 DEF LookupInv, QuietInv, QuietResolves, Dying
<1> QED BY <1>1, <1>2, <1>3 DEF Next

\* An extent nobody touches while it is looked up is resolved (resolve,
\* resolve_again, logical_ino), for any number of subvolumes and references and
\* however far the extent tree lags behind: resolution only fails if nobody
\* holds the extent, a subvolume on its way out does, or the references are
\* more than the largest buffer has room for.
THEOREM QuietExtentsResolve == Spec => []QuietResolves
<1>1. Init => RefsInv /\ QuietInv BY InitRefs, InitQuiet
<1>2. RefsInv /\ QuietInv /\ [Next]_vars => RefsInv' /\ QuietInv'
    BY NextRefs, NextQuiet DEF RefsInv, LookupInv
<1>3. QuietInv => QuietResolves BY DEF QuietInv
<1> QED BY <1>1, <1>2, <1>3, PTL DEF Spec
=============================================================================
