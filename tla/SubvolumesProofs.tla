-------------------------- MODULE SubvolumesProofs --------------------------
(***************************************************************************)
(* What is opened, and what is taken for deleted, for any tree of          *)
(* subvolumes and however many lookups and changes to it.                  *)
(***************************************************************************)
EXTENDS Subvolumes, SequenceTheorems, WellFoundedInduction, NaturalsInduction, TLAPS

\* A frame of the search: one above which another subvolume is looked for has
\* its backreference.
Sought == [root : Roots, ref : Place \union {Nowhere}]

PlaceOK == place \in [Roots -> Place \union {Nowhere}]

StackOK ==
    /\ root \in Roots
    /\ stack \in Seq(Sought)
    /\ pc \in {"subvolume", "parent", "open"} => Len(stack) > 0
    /\ \A i \in 1 .. Len(stack) :
          i < Len(stack) \/ pc \in {"parent", "open"} => stack[i].ref \in Place

\* A subvolume sits in a directory that is there: none is removed with anything
\* in it.
SitsOK ==
    /\ place[Top] = Nowhere
    /\ \A r \in Roots : place[r] # Nowhere => HasDir(place[r].parent, place[r].dir)

\* What is gone of the file, or of the way to it as far as it was looked up.
Lost ==
    \/ Gone
    \/ \E i \in DOMAIN stack :
         /\ stack[i].ref # Nowhere /\ place[stack[i].root] # stack[i].ref
         /\ ~HasDir(stack[i].ref.parent, stack[i].ref.dir)

ResultOK ==
    /\ result # "none" => pc = "done"
    /\ pc = "done" /\ result = "deleted" => Lost
    /\ result = "opened" => opened[1] = [root |-> root, inode |-> Inode]

FindInv == PlaceOK /\ SitsOK /\ StackOK /\ ResultOK

LEMMA PlaceFacts ==
    ASSUME PlaceOK, NEW r \in Roots, place[r] # Nowhere
    PROVE  place[r] \in Place /\ place[r].parent \in Roots /\ place[r].parent # 0
           /\ place[r].name \in Names
<1>1. place[r] \in Place
  <2> HIDE DEF Place
  <2> QED BY DEF PlaceOK
<1> QED BY <1>1, SubvolumesAssumption DEF Place

LEMMA NowhereFacts == Nowhere \notin Place /\ Nowhere.parent = 0
BY SubvolumesAssumption DEF Nowhere, Place

LEMMA InitFind == Init => FindInv
<1> SUFFICES ASSUME Init PROVE FindInv OBVIOUS
<1>1. PlaceOK
  <2>1. PICK start \in Starts : place = [r \in Roots |-> IF r = Top THEN Nowhere ELSE start[r]]
      BY DEF Init
  <2>2. start \in [Roots \ {Top} -> Place] BY SubvolumesAssumption
  <2> HIDE DEF Place
  <2> QED BY <2>1, <2>2 DEF PlaceOK
<1>2. StackOK
  <2>1. root = Top /\ stack = <<>> /\ pc = "idle" BY DEF Init
  <2>2. Top \in Roots BY SubvolumesAssumption
  <2> QED BY <2>1, <2>2 DEF StackOK
<1>3. ResultOK BY DEF Init, ResultOK
<1>4. SitsOK
  <2>1. PICK start \in Starts : place = [r \in Roots |-> IF r = Top THEN Nowhere ELSE start[r]]
      BY DEF Init
  <2>2. start \in [Roots \ {Top} -> Place] /\ Top \in Roots BY SubvolumesAssumption
  <2>3. \A r \in Roots \ {Top} : place[r] \in Place
    <3> HIDE DEF Place
    <3> QED BY <2>1, <2>2
  <2>4. \A r \in Roots \ {Top} : place[r] # Nowhere BY <2>3, NowhereFacts
  <2>5. \A r \in Roots : dirname[r] # "removed"
    <3>1. \E n \in DirNames : TRUE BY SubvolumesAssumption
    <3>2. (CHOOSE n \in DirNames : TRUE) \in DirNames BY <3>1
    <3> QED BY <3>2, SubvolumesAssumption DEF Init
  <2>6. ASSUME NEW r \in Roots, place[r] # Nowhere
        PROVE  HasDir(place[r].parent, place[r].dir)
    <3>1. r \in Roots \ {Top} BY <2>1, <2>6
    <3>2. place[r].parent \in Roots BY <3>1, <2>3 DEF Place
    <3>3. place[r].parent = Top \/ place[place[r].parent] # Nowhere BY <3>2, <2>4
    <3>4. DirPath(place[r].parent, place[r].dir) # "removed" BY <3>2, <2>5 DEF DirPath
    <3> QED BY <3>3, <3>4 DEF HasDir
  <2> QED BY <2>1, <2>2, <2>6 DEF SitsOK
<1> QED BY <1>1, <1>2, <1>3, <1>4 DEF FindInv

\* Nobody takes a directory away from under a subvolume.
LEMMA UsersSit == ASSUME PlaceOK, PlaceOK', SitsOK, Users PROVE SitsOK'
<1> USE DEF SitsOK
<1>0. Top \in Roots BY SubvolumesAssumption
<1> DEFINE Sits(r) == HasDir(place[r].parent, place[r].dir)
\* Where a subvolume may be put, as long as no other is taken away.
<1>1. ASSUME NEW p \in Place, p.parent = Top \/ place'[p.parent] # Nowhere,
             p.dir = "dir" => dirname'[p.parent] # "removed"
      PROVE  HasDir(p.parent, p.dir)'
    BY <1>1 DEF HasDir, DirPath, Place, Dirs
<1>2. ASSUME NEW r \in Roots, place[r] # Nowhere
      PROVE  /\ place[r] \in Place
             /\ place[r].parent = Top \/ place[place[r].parent] # Nowhere
             /\ place[r].dir = "dir" => dirname[place[r].parent] # "removed"
    BY <1>2, PlaceFacts DEF HasDir, DirPath
<1>3. ASSUME NEW r \in Roots \ {Top}, NEW p \in Place, MoveSubvolume(r, p) PROVE SitsOK'
  <2>1. /\ UNCHANGED dirname /\ place[r] # Nowhere
        /\ p.parent = Top \/ place[p.parent] # Nowhere
        /\ p.dir = "dir" => dirname[p.parent] # "removed"
        /\ place' = [place EXCEPT ![r] = p]
      BY <1>3 DEF MoveSubvolume
  <2>2. place'[r] = p /\ p # Nowhere /\ \A x \in Roots \ {r} : place'[x] = place[x]
      BY <2>1, NowhereFacts DEF PlaceOK
  <2>3. \A x \in Roots : place[x] # Nowhere => place'[x] # Nowhere BY <2>2
  <2>4. ASSUME NEW x \in Roots, place'[x] # Nowhere PROVE Sits(x)'
    <3>1. PICK y \in Place : /\ place'[x] = y
                             /\ y.parent = Top \/ place[y.parent] # Nowhere
                             /\ y.dir = "dir" => dirname[y.parent] # "removed"
        BY <2>1, <2>2, <2>4, <1>2
    <3>2. y.parent \in Roots BY <3>1 DEF Place
    <3> QED BY <3>1, <3>2, <2>1, <2>3, <1>1
  <2> QED BY <2>2, <2>4, <1>0
<1>4. ASSUME NEW r \in Roots \ {Top}, NEW s \in Roots \ {Top}, ExchangeSubvolumes(r, s)
      PROVE  SitsOK'
  <2>1. /\ UNCHANGED dirname /\ place[r] # Nowhere /\ place[s] # Nowhere
        /\ place' = [place EXCEPT ![r] = place[s], ![s] = place[r]]
      BY <1>4 DEF ExchangeSubvolumes
  <2>2. /\ place'[r] = place[s] /\ place'[s] = place[r]
        /\ \A x \in Roots \ {r, s} : place'[x] = place[x]
      BY <2>1 DEF PlaceOK
  <2>3. \A x \in Roots : place[x] # Nowhere => place'[x] # Nowhere BY <2>1, <2>2
  <2>4. ASSUME NEW x \in Roots, place'[x] # Nowhere PROVE Sits(x)'
    <3>1. PICK q \in Roots : place'[x] = place[q] BY <2>2
    <3>2. /\ place[q] \in Place
          /\ place[q].parent = Top \/ place[place[q].parent] # Nowhere
          /\ place[q].dir = "dir" => dirname[place[q].parent] # "removed"
        BY <3>1, <2>4, <1>2
    <3>3. place[q].parent \in Roots BY <3>2 DEF Place
    <3> QED BY <3>1, <3>2, <3>3, <2>1, <2>3, <1>1
  <2> QED BY <2>2, <2>4, <1>0
<1>5. ASSUME NEW r \in Roots \ {Top}, DeleteSubvolume(r) PROVE SitsOK'
  <2>1. /\ UNCHANGED dirname /\ \A dir \in Dirs : Within(r, dir) = {}
        /\ place' = [place EXCEPT ![r] = Nowhere]
      BY <1>5 DEF DeleteSubvolume
  <2>2. place'[r] = Nowhere /\ \A x \in Roots \ {r} : place'[x] = place[x] BY <2>1 DEF PlaceOK
  <2>3. ASSUME NEW x \in Roots, place'[x] # Nowhere PROVE Sits(x)'
    <3>1. x # r /\ x # Top /\ place'[x] = place[x] BY <2>2, <2>3
    <3>2. /\ place[x] \in Place
          /\ place[x].parent = Top \/ place[place[x].parent] # Nowhere
          /\ place[x].dir = "dir" => dirname[place[x].parent] # "removed"
        BY <3>1, <2>3, <1>2
    <3>3. place[x].parent \in Roots /\ place[x].dir \in Dirs BY <3>2 DEF Place
    <3>4. place[x].parent # r BY <3>1, <3>3, <2>1 DEF Within
    <3> QED BY <3>1, <3>2, <3>3, <3>4, <2>1, <2>2, <1>1
  <2> QED BY <2>2, <2>3, <1>0
<1>6. ASSUME NEW r \in Roots, UNCHANGED place, \A x \in Roots \ {r} : dirname'[x] = dirname[x],
             dirname'[r] # "removed" \/ Within(r, "dir") = {}
      PROVE  SitsOK'
  <2>1. ASSUME NEW x \in Roots, place'[x] # Nowhere PROVE Sits(x)'
    <3>1. /\ place[x] \in Place
          /\ place[x].parent = Top \/ place[place[x].parent] # Nowhere
          /\ place[x].dir = "dir" => dirname[place[x].parent] # "removed"
        BY <2>1, <1>2, <1>6
    <3>2. place[x].parent \in Roots /\ x # Top BY <3>1, <2>1, <1>6 DEF Place
    <3>3. place[x].dir = "dir" => dirname'[place[x].parent] # "removed"
        BY <3>1, <3>2, <1>6 DEF Within
    <3> QED BY <3>1, <3>3, <1>1, <1>6
  <2> QED BY <2>1, <1>6
<1>7. ASSUME NEW r \in Roots, NEW n \in DirNames, RenameDir(r, n) PROVE SitsOK'
  <2>1. n # "removed" BY SubvolumesAssumption
  <2>2. \A x \in Roots \ {r} : dirname'[x] = dirname[x] BY <1>7 DEF RenameDir
  <2>3. dirname'[r] # "removed" \/ dirname' = dirname BY <2>1, <1>7 DEF RenameDir
  <2> QED BY <2>1, <2>2, <1>6, <1>7 DEF RenameDir
<1>8. ASSUME NEW r \in Roots, RemoveDir(r) PROVE SitsOK'
  <2>1. \A x \in Roots \ {r} : dirname'[x] = dirname[x] BY <1>8 DEF RemoveDir
  <2> QED BY <2>1, <1>6, <1>8 DEF RemoveDir
<1>9. ASSUME UNCHANGED <<place, dirname>> PROVE SitsOK'
    BY <1>9 DEF HasDir, DirPath
<1> HIDE DEF SitsOK
<1> QED BY <1>3, <1>4, <1>5, <1>7, <1>8, <1>9 DEF Users, RenameFile, Unlink

\* Users change nothing of what is known, and nothing once a lookup is done.
LEMMA UsersFind == ASSUME FindInv, Users PROVE FindInv'
<1>0. PlaceOK /\ SitsOK /\ StackOK /\ ResultOK BY DEF FindInv
<1>1. UNCHANGED tool /\ pc # "done"
    BY DEF Users, MoveSubvolume, ExchangeSubvolumes, DeleteSubvolume, RenameDir, RemoveDir,
           RenameFile, Unlink, Disturb
<1>2. PlaceOK'
  <2> USE <1>0 DEF PlaceOK
  <2> HIDE DEF Place
  <2>1. ASSUME NEW r \in Roots, NEW p \in Place, MoveSubvolume(r, p) PROVE PlaceOK'
      BY <2>1 DEF MoveSubvolume
  <2>2. ASSUME NEW r \in Roots, NEW s \in Roots, ExchangeSubvolumes(r, s) PROVE PlaceOK'
      BY <2>2 DEF ExchangeSubvolumes
  <2>3. ASSUME NEW r \in Roots, DeleteSubvolume(r) PROVE PlaceOK'
      BY <2>3 DEF DeleteSubvolume
  <2>4. ASSUME UNCHANGED place PROVE PlaceOK' BY <2>4
  <2> HIDE DEF PlaceOK
  <2> QED BY <2>1, <2>2, <2>3, <2>4 DEF Users, RenameDir, RemoveDir, RenameFile, Unlink
<1>3. UNCHANGED <<pc, root, stack, opened, result>> BY <1>1 DEF tool
<1>4. StackOK' BY <1>0, <1>3 DEF StackOK
<1>5. ResultOK' BY <1>0, <1>1, <1>3 DEF ResultOK
<1>6. SitsOK' BY <1>0, <1>2, UsersSit
<1> QED BY <1>2, <1>4, <1>5, <1>6 DEF FindInv

\* Once what was sought is found, those that asked for it have their references.
LEMMA ReturnFind ==
    ASSUME FindInv, NEW v, Return(v), UNCHANGED fs, pc \in {"subvolume", "parent", "open"}
    PROVE  FindInv'
<1>0. PlaceOK /\ SitsOK /\ StackOK /\ ResultOK BY DEF FindInv
<1>1. /\ stack' = SubSeq(stack, 1, Len(stack) - 1)
      /\ UNCHANGED <<root, opened>>
      /\ \/ pc' = "done" /\ result' = "none"
         \/ pc' = "reopen" /\ UNCHANGED result
         \/ Len(stack) > 1 /\ pc' = "parent" /\ UNCHANGED result
    BY DEF Return, Front, Finish
<1>2. UNCHANGED <<place, dirname, file>> BY DEF fs
<1>3. PlaceOK' /\ SitsOK' BY <1>0, <1>2 DEF PlaceOK, SitsOK, HasDir, DirPath
<1>4. StackOK'
  <2>1. stack \in Seq(Sought) /\ Len(stack) \in Nat /\ Len(stack) > 0 BY <1>0 DEF StackOK
  <2> HIDE DEF Sought
  <2>2. /\ stack' \in Seq(Sought) /\ Len(stack') = Len(stack) - 1
        /\ \A i \in 1 .. Len(stack) - 1 : stack'[i] = stack[i]
    <3> DEFINE m == Len(stack) - 1
    <3>1. m \in Nat /\ 1 \in Int /\ \A i \in 1 .. m : stack[i] \in Sought BY <2>1
    <3> HIDE DEF m
    <3>2. /\ SubSeq(stack, 1, m) \in Seq(Sought)
          /\ Len(SubSeq(stack, 1, m)) = IF 1 <= m THEN m - 1 + 1 ELSE 0
          /\ \A i \in 1 .. m - 1 + 1 : SubSeq(stack, 1, m)[i] = stack[1 + i - 1]
        BY <3>1, SubSeqProperties
    <3>3. stack' = SubSeq(stack, 1, m) BY <1>1 DEF m
    <3>4. /\ stack' \in Seq(Sought) /\ Len(stack') = m
          /\ \A i \in 1 .. m : stack'[i] = stack[i]
        BY <3>1, <3>2, <3>3
    <3> QED BY <3>4 DEF m
  <2>3. \A i \in 1 .. Len(stack') : stack'[i].ref \in Place
      BY <2>1, <2>2, <1>0 DEF StackOK
  <2> QED BY <2>1, <2>2, <2>3, <1>0, <1>1 DEF StackOK
<1>5. ResultOK' BY <1>0, <1>1 DEF ResultOK
<1> QED BY <1>3, <1>4, <1>5 DEF FindInv

LEMMA BackrefFind == ASSUME FindInv, RootBackref PROVE FindInv'
<1>0. PlaceOK /\ SitsOK /\ StackOK /\ ResultOK BY DEF FindInv
<1>1. pc = "subvolume" /\ UNCHANGED fs BY DEF RootBackref
<1>2. CASE place[Frame.root] = Nowhere
    BY <1>1, <1>2, ReturnFind DEF RootBackref
<1>3. CASE place[Frame.root] # Nowhere
  <2> DEFINE top == Len(stack)
             was == [stack EXCEPT ![top].ref = place[Frame.root]]
             new == [root |-> place[Frame.root].parent, ref |-> Nowhere]
  <2>1. /\ stack' = Append(was, new)
        /\ UNCHANGED <<pc, root, opened, result>>
      BY <1>3 DEF RootBackref
  <2>2. stack \in Seq(Sought) /\ top \in Nat /\ top > 0 BY <1>0, <1>1 DEF StackOK
  <2>3. stack[top] \in Sought /\ Frame = stack[top] BY <2>2 DEF Frame, Last
  <2>4. place[Frame.root] \in Place BY <2>3, <1>0, <1>3 DEF PlaceOK, Sought
  <2>5. new \in Sought BY <2>4 DEF Sought, Place
  <2>6. [stack[top] EXCEPT !.ref = place[Frame.root]] \in Sought BY <2>3, <2>4 DEF Sought
  <2>7. /\ was \in Seq(Sought) /\ Len(was) = top
        /\ \A i \in 1 .. top - 1 : was[i] = stack[i]
        /\ was[top] = [stack[top] EXCEPT !.ref = place[Frame.root]]
    <3> HIDE DEF Sought, Place
    <3> QED BY <2>2, <2>6
  <2>8. was[top].ref \in Place BY <2>3, <2>4, <2>7 DEF Sought
  <2> HIDE DEF was, new
  <2>9. /\ stack' \in Seq(Sought) /\ Len(stack') = top + 1
        /\ \A i \in 1 .. top : stack'[i] = was[i]
    <3> HIDE DEF Sought
    <3> QED BY <2>1, <2>2, <2>5, <2>7
  <2>10. \A i \in 1 .. top : stack'[i].ref \in Place
    <3> SUFFICES ASSUME NEW i \in 1 .. top PROVE was[i].ref \in Place BY <2>9
    <3>1. CASE i = top BY <3>1, <2>8
    <3>2. CASE i # top
      <4>1. i < top /\ i \in 1 .. top - 1 BY <3>2, <2>2
      <4>2. stack[i].ref \in Place BY <4>1, <1>0 DEF StackOK
      <4> QED BY <4>1, <4>2, <2>7
    <3> QED BY <3>1, <3>2
  <2>11. StackOK' BY <2>1, <2>2, <2>9, <2>10, <1>0, <1>1 DEF StackOK
  <2>12. PlaceOK' /\ SitsOK' BY <1>0, <1>1 DEF PlaceOK, SitsOK, HasDir, DirPath, fs
  <2>13. ResultOK' BY <2>1, <1>0, <1>1 DEF ResultOK
  <2> QED BY <2>11, <2>12, <2>13 DEF FindInv
<1> QED BY <1>2, <1>3

\* A directory that cannot be looked up is gone, and where a subvolume sits there
\* is a directory: so this one sits there no longer.
LEMMA InoLookupFailsFind == ASSUME FindInv, InoLookupFails PROVE FindInv'
<1>0. PlaceOK /\ SitsOK /\ StackOK /\ ResultOK BY DEF FindInv
<1>1. /\ pc = "parent" /\ ~HasDir(Frame.ref.parent, Frame.ref.dir)
      /\ pc' = "done" /\ result' = "deleted"
      /\ UNCHANGED <<place, dirname, file, root, stack, opened>>
    BY DEF InoLookupFails, Finish, fs
<1>2. PICK i \in 1 .. Len(stack) :
        stack[i] \in Sought /\ stack[i].ref \in Place /\ Frame = stack[i]
  <2>1. stack \in Seq(Sought) /\ Len(stack) \in Nat /\ Len(stack) > 0 BY <1>0, <1>1 DEF StackOK
  <2>2. Len(stack) \in 1 .. Len(stack) BY <2>1
  <2>3. stack[Len(stack)] \in Sought
    <3> HIDE DEF Sought
    <3> QED BY <2>1, <2>2
  <2> QED BY <2>2, <2>3, <1>0, <1>1 DEF StackOK, Frame, Last
<1>3. i \in DOMAIN stack
  <2> HIDE DEF Sought
  <2> QED BY <1>2, <1>0 DEF StackOK
<1>4. stack[i].ref # Nowhere /\ stack[i].root \in Roots BY <1>2, NowhereFacts DEF Sought
<1>5. ~HasDir(stack[i].ref.parent, stack[i].ref.dir) BY <1>1, <1>2
<1>6. place[stack[i].root] # stack[i].ref BY <1>0, <1>4, <1>5 DEF SitsOK
<1>7. Lost BY <1>3, <1>4, <1>5, <1>6 DEF Lost
<1>8. Lost' BY <1>1, <1>7 DEF Lost, Gone, HasDir, DirPath
<1>9. PlaceOK' /\ SitsOK' BY <1>0, <1>1 DEF PlaceOK, SitsOK, HasDir, DirPath
<1>10. StackOK' BY <1>0, <1>1 DEF StackOK
<1>11. ResultOK' BY <1>1, <1>8 DEF ResultOK
<1> QED BY <1>9, <1>10, <1>11 DEF FindInv

\* Steps that leave the stack alone, and the filesystem.
LEMMA OtherFind ==
    ASSUME FindInv, UNCHANGED fs, UNCHANGED <<root, stack>>,
           pc' \notin {"subvolume", "parent"}, pc' = "open" => pc = "parent",
           ResultOK'
    PROVE  FindInv'
<1>0. PlaceOK /\ SitsOK /\ StackOK BY DEF FindInv
<1>1. PlaceOK' /\ SitsOK' BY <1>0 DEF PlaceOK, SitsOK, HasDir, DirPath, fs
<1>2. StackOK' BY <1>0 DEF StackOK
<1> QED BY <1>1, <1>2 DEF FindInv

LEMMA ToolFind == ASSUME FindInv, Tool PROVE FindInv'
<1>0. PlaceOK /\ SitsOK /\ StackOK /\ ResultOK BY DEF FindInv
<1>1. CASE \E r \in Roots : Begin(r)
  <2>1. PICK r \in Roots : Begin(r) BY <1>1
  <2> DEFINE new == [root |-> r, ref |-> Nowhere]
  <2>2. /\ root' = r /\ stack' = <<new>> /\ pc = "idle" /\ pc' = "subvolume"
        /\ UNCHANGED <<place, dirname, file, opened, result>>
      BY <2>1 DEF Begin, fs
  <2>3. new \in Sought BY DEF Sought
  <2> HIDE DEF new
  <2>4. stack' \in Seq(Sought) /\ Len(stack') = 1
    <3> HIDE DEF Sought
    <3> QED BY <2>2, <2>3
  <2>5. StackOK' BY <2>2, <2>4 DEF StackOK
  <2>6. PlaceOK' /\ ResultOK' BY <2>2, <1>0 DEF PlaceOK, ResultOK
  <2>7. SitsOK' BY <2>2, <1>0 DEF SitsOK, HasDir, DirPath
  <2> QED BY <2>5, <2>6, <2>7 DEF FindInv
<1>2. CASE Known BY <1>2, ReturnFind DEF Known
<1>3. CASE RootBackref BY <1>3, BackrefFind
<1>4. CASE FindTop BY <1>4, ReturnFind DEF FindTop, OpenFound
<1>5. CASE ParentLost BY <1>5, ReturnFind DEF ParentLost
<1>6. CASE InoLookup
  <2>1. /\ pc = "parent" /\ pc' = "open" /\ UNCHANGED fs
        /\ UNCHANGED <<root, stack, opened, result>>
      BY <1>6 DEF InoLookup
  <2>2. ResultOK' BY <2>1, <1>0 DEF ResultOK
  <2> QED BY <2>1, <2>2, OtherFind
<1>7. CASE InoLookupFails BY <1>7, InoLookupFailsFind
<1>8. CASE Open BY <1>8, ReturnFind DEF Open, OpenFound
<1>9. CASE Reopen
  <2>1. /\ pc = "reopen" /\ UNCHANGED fs /\ UNCHANGED <<root, stack, opened>>
        /\ \/ pc' = "paths" /\ UNCHANGED result
           \/ pc' = "done" /\ result' = "none"
      BY <1>9 DEF Reopen, Finish
  <2>2. ResultOK' BY <2>1, <1>0 DEF ResultOK
  <2> QED BY <2>1, <2>2, OtherFind
<1>10. CASE InoPaths
  <2>1. pc = "paths" /\ UNCHANGED fs /\ UNCHANGED <<root, stack, opened>>
      BY <1>10 DEF InoPaths
  <2>2. CASE file[root] = "unlinked" \/ (root # Top /\ place[root] = Nowhere)
    <3>1. pc' = "done" /\ result' = "deleted" BY <2>2, <1>10 DEF InoPaths, Finish
    <3>2. Lost' BY <2>1, <2>2 DEF Lost, Gone, fs
    <3>3. ResultOK' BY <3>1, <3>2 DEF ResultOK
    <3> QED BY <3>1, <3>3, <2>1, OtherFind
  <2>3. CASE ~(file[root] = "unlinked" \/ (root # Top /\ place[root] = Nowhere))
    <3>1. pc' = "file" /\ UNCHANGED result BY <2>3, <1>10 DEF InoPaths
    <3>2. ResultOK' BY <3>1, <2>1, <1>0 DEF ResultOK
    <3> QED BY <3>1, <3>2, <2>1, OtherFind
  <2> QED BY <2>2, <2>3
<1>11. CASE OpenInode
  <2>1. pc = "file" /\ pc' = "done" /\ UNCHANGED fs /\ UNCHANGED <<root, stack>>
      BY <1>11 DEF OpenInode, Finish
  <2>2. CASE result' = "failed" /\ UNCHANGED opened
    <3>1. ResultOK' BY <2>1, <2>2 DEF ResultOK
    <3> QED BY <3>1, <2>1, OtherFind
  <2>3. CASE IsStill(AtPath) /\ result' = "opened" /\ opened' = <<AtPath>>
    <3>1. AtPath = [root |-> root, inode |-> Inode] BY <2>3 DEF IsStill, AtPath
    <3>2. ResultOK' BY <3>1, <2>1, <2>3 DEF ResultOK
    <3> QED BY <3>2, <2>1, OtherFind
  <2> QED BY <2>2, <2>3, <1>11 DEF OpenInode, Finish
<1>12. CASE NextFile
  <2>1. /\ pc' = "idle" /\ stack' = <<>> /\ result' = "none"
        /\ UNCHANGED <<place, dirname, file, root>>
      BY <1>12 DEF NextFile, fs
  <2>2. SitsOK' BY <2>1, <1>0 DEF SitsOK, HasDir, DirPath
  <2> QED BY <2>1, <2>2, <1>0 DEF FindInv, PlaceOK, StackOK, ResultOK
<1> QED BY <1>1, <1>2, <1>3, <1>4, <1>5, <1>6, <1>7, <1>8, <1>9, <1>10, <1>11, <1>12 DEF Tool

LEMMA NextFind == ASSUME FindInv, [Next]_vars PROVE FindInv'
<1>1. CASE Tool BY <1>1, ToolFind
<1>2. CASE Users BY <1>2, UsersFind
<1>3. CASE UNCHANGED vars
    BY <1>3 DEF vars, fs, tool, FindInv, PlaceOK, SitsOK, StackOK, ResultOK, Lost, Gone, HasDir, DirPath
<1> QED BY <1>1, <1>2, <1>3 DEF Next, Stop

\* A file is worked on only as the inode of the subvolume that holds the extent
\* (open_inode), whatever has come to be at its path and however long the path
\* of its subvolume has been kept.
THEOREM SubvolumesOpenTheHolder == Spec => []OpenedIsTheHolder
<1>1. Init => FindInv BY InitFind
<1>2. FindInv /\ [Next]_vars => FindInv' BY NextFind
<1>3. FindInv => OpenedIsTheHolder BY DEF FindInv, ResultOK, OpenedIsTheHolder
<1> QED BY <1>1, <1>2, <1>3, PTL DEF Spec

\* A file is taken for deleted only if it has been, or if a subvolume on the way
\* looked up has left a directory that is gone as well (locate_holders, for what
\* subvolume and inode_path fail with): the search asks only for directories that
\* a backreference has named, and one with a subvolume in it is never gone.
THEOREM SubvolumesLoseTheDeleted == Spec => []LostOnTheWay
<1>1. Init => FindInv BY InitFind
<1>2. FindInv /\ [Next]_vars => FindInv' BY NextFind
<1>3. FindInv => LostOnTheWay BY DEF FindInv, ResultOK, Lost, LostOnTheWay
<1> QED BY <1>1, <1>2, <1>3, PTL DEF Spec

-----------------------------------------------------------------------------
(* Where a subvolume sits, and the way there.                              *)

\* A set of numbers that is not empty has a least one.
LEMMA LeastNumber ==
    ASSUME NEW T \in SUBSET Nat, T # {}
    PROVE  \E x \in T : \A y \in T : x <= y
<1> DEFINE R == {p \in Nat \X Nat : p[1] < p[2]}
<1>1. IsWellFoundedOn(R, Nat) BY NatLessThanWellFounded DEF OpToRel
<1> HIDE DEF R
<1>2. \E x \in T : \A y \in T : ~ (<<y, x>> \in R) BY <1>1, WFMin
<1>3. PICK x \in T : \A y \in T : ~ (<<y, x>> \in R) BY <1>2
<1>4. \A y \in T : ~(y < x) BY <1>3 DEF R
<1> QED BY <1>4

Untouched(r)   == <<"subvolume", r>> \notin moved
Undisturbed(r) == \A x \in Chain(r) : Untouched(x)

\* Two subvolumes never have one place, nobody empties a directory by removing
\* it, and nothing is deleted or renamed but by users.
TreeInv ==
    /\ PlaceOK
    /\ dirname \in [Roots -> DirNames \union {"removed"}]
    /\ \A r, s \in Roots \ {Top} : place[r] # Nowhere /\ place[r] = place[s] => r = s
    /\ \A r \in Roots \ {Top} : place[r] # Nowhere /\ place[r].dir = "dir" =>
                                  dirname[place[r].parent] # "removed"
    /\ \A r \in Roots \ {Top} : place[r] = Nowhere => ~Untouched(r)
    /\ DOMAIN file = Roots
    /\ \A r \in Roots : <<"file", r>> \notin moved => file[r] = "f"

LEMMA InitTree == Init => TreeInv
<1> SUFFICES ASSUME Init PROVE TreeInv OBVIOUS
<1>1. PlaceOK BY InitFind DEF FindInv
<1>2. PICK start \in Starts : place = [r \in Roots |-> IF r = Top THEN Nowhere ELSE start[r]]
    BY DEF Init
<1>3. \A r \in Roots \ {Top} : place[r] = start[r] BY <1>2
<1>4. \A r \in Roots \ {Top} : place[r] \in Place
  <2>1. start \in [Roots \ {Top} -> Place] BY SubvolumesAssumption
  <2> HIDE DEF Place
  <2> QED BY <2>1, <1>3
<1>5. \A r, s \in Roots \ {Top} : place[r] = place[s] => r = s BY <1>3, SubvolumesAssumption
<1>6. \A r \in Roots \ {Top} : place[r] # Nowhere BY <1>4, NowhereFacts
<1>7. dirname \in [Roots -> DirNames] /\ "removed" \notin DirNames
    BY SubvolumesAssumption DEF Init
<1>8. \A r \in Roots \ {Top} : place[r].parent \in Roots BY <1>4 DEF Place
<1>9. file = [r \in Roots |-> "f"] BY DEF Init
<1> QED BY <1>1, <1>5, <1>6, <1>7, <1>8, <1>9 DEF TreeInv

\* Whatever is not counted as disturbed is where it was, and by the same names.
Kept ==
    /\ moved \subseteq moved'
    /\ \A x \in Roots : Untouched(x)' =>
         /\ place'[x] = place[x]
         /\ x # Top /\ place[x].dir = "dir" => dirname'[place[x].parent] = dirname[place[x].parent]

LEMMA UsersTree == ASSUME TreeInv, Users PROVE TreeInv' /\ Kept
<1> USE DEF TreeInv
<1>0. PlaceOK' /\ PlaceOK
  <2> USE DEF PlaceOK
  <2> HIDE DEF Place
  <2>1. ASSUME NEW r \in Roots, NEW p \in Place, MoveSubvolume(r, p) PROVE PlaceOK'
      BY <2>1 DEF MoveSubvolume
  <2>2. ASSUME NEW r \in Roots, NEW s \in Roots, ExchangeSubvolumes(r, s) PROVE PlaceOK'
      BY <2>2 DEF ExchangeSubvolumes
  <2>3. ASSUME NEW r \in Roots, DeleteSubvolume(r) PROVE PlaceOK'
      BY <2>3 DEF DeleteSubvolume
  <2>4. ASSUME UNCHANGED place PROVE PlaceOK' BY <2>4
  <2> QED BY <2>1, <2>2, <2>3, <2>4 DEF Users, RenameDir, RemoveDir, RenameFile, Unlink
<1>1. ASSUME NEW r \in Roots \ {Top}, NEW p \in Place, MoveSubvolume(r, p) PROVE TreeInv' /\ Kept
  <2>1. /\ moved' = moved \union ({"subvolume"} \X {r}) /\ UNCHANGED <<dirname, file>>
        /\ \A s \in Roots \ {Top} : place[s] # p
        /\ p.dir = "dir" => dirname[p.parent] # "removed"
        /\ place' = [place EXCEPT ![r] = p]
      BY <1>1 DEF MoveSubvolume, Disturb, Free
  <2>2. place'[r] = p /\ \A x \in Roots \ {r} : place'[x] = place[x] BY <2>1 DEF PlaceOK
  <2>3. <<"subvolume", r>> \in moved' /\ \A x \in Roots : <<"file", x>> \in moved' <=> <<"file", x>> \in moved
      BY <2>1
  <2>4. p # Nowhere BY NowhereFacts
  <2>5. Kept BY <2>1, <2>2, <2>3 DEF Kept, Untouched
  <2>6. \A x \in Roots \ {Top} : place'[x] = Nowhere => ~Untouched(x)'
      BY <2>1, <2>2, <2>3, <2>4 DEF Untouched
  <2>7. \A x, s \in Roots \ {Top} : place'[x] # Nowhere /\ place'[x] = place'[s] => x = s
      BY <2>1, <2>2
  <2>8. \A x \in Roots \ {Top} : place'[x] # Nowhere /\ place'[x].dir = "dir" =>
                                  dirname'[place'[x].parent] # "removed"
      BY <2>1, <2>2
  <2> QED BY <2>1, <2>3, <2>5, <2>6, <2>7, <2>8, <1>0
<1>2. ASSUME NEW r \in Roots \ {Top}, NEW s \in Roots \ {Top}, ExchangeSubvolumes(r, s)
      PROVE  TreeInv' /\ Kept
  <2>1. /\ moved' = moved \union ({"subvolume"} \X {r, s}) /\ UNCHANGED <<dirname, file>>
        /\ r # s /\ place[r] # Nowhere /\ place[s] # Nowhere
        /\ place' = [place EXCEPT ![r] = place[s], ![s] = place[r]]
      BY <1>2 DEF ExchangeSubvolumes, Disturb
  <2>2. /\ place'[r] = place[s] /\ place'[s] = place[r]
        /\ \A x \in Roots \ {r, s} : place'[x] = place[x]
      BY <2>1 DEF PlaceOK
  <2>3. /\ <<"subvolume", r>> \in moved' /\ <<"subvolume", s>> \in moved'
        /\ \A x \in Roots : <<"file", x>> \in moved' <=> <<"file", x>> \in moved
      BY <2>1
  <2>4. Kept BY <2>1, <2>2, <2>3 DEF Kept, Untouched
  <2>5. \A x \in Roots \ {Top} : place'[x] = Nowhere => ~Untouched(x)'
      BY <2>1, <2>2, <2>3 DEF Untouched
  <2> DEFINE Was(x) == IF x = r THEN s ELSE IF x = s THEN r ELSE x
  <2>6. \A x \in Roots \ {Top} : Was(x) \in Roots \ {Top} /\ place'[x] = place[Was(x)]
      BY <2>2
  <2>7. \A x, y \in Roots \ {Top} : Was(x) = Was(y) => x = y BY <2>1
  <2> HIDE DEF Was
  <2>8. \A x, y \in Roots \ {Top} : place'[x] # Nowhere /\ place'[x] = place'[y] => x = y
      BY <2>6, <2>7
  <2>9. \A x \in Roots \ {Top} : place'[x] # Nowhere /\ place'[x].dir = "dir" =>
                                  dirname'[place'[x].parent] # "removed"
    <3> SUFFICES ASSUME NEW x \in Roots \ {Top}, place'[x] # Nowhere, place'[x].dir = "dir"
                 PROVE  dirname'[place'[x].parent] # "removed"
        OBVIOUS
    <3>1. PICK y \in Roots \ {Top} : place'[x] = place[y] BY <2>6
    <3>2. dirname[place[y].parent] # "removed" BY <3>1
    <3> QED BY <3>1, <3>2, <2>1
  <2> QED BY <2>1, <2>3, <2>4, <2>5, <2>8, <2>9, <1>0
<1>3. ASSUME NEW r \in Roots \ {Top}, DeleteSubvolume(r) PROVE TreeInv' /\ Kept
  <2>1. /\ moved' = moved \union ({"subvolume"} \X {r}) /\ UNCHANGED <<dirname, file>>
        /\ place' = [place EXCEPT ![r] = Nowhere]
      BY <1>3 DEF DeleteSubvolume, Disturb
  <2>2. place'[r] = Nowhere /\ \A x \in Roots \ {r} : place'[x] = place[x] BY <2>1 DEF PlaceOK
  <2>3. /\ <<"subvolume", r>> \in moved'
        /\ \A x \in Roots : <<"file", x>> \in moved' <=> <<"file", x>> \in moved
      BY <2>1
  <2>4. Kept BY <2>1, <2>2, <2>3 DEF Kept, Untouched
  <2>5. \A x \in Roots \ {Top} : place'[x] = Nowhere => ~Untouched(x)'
      BY <2>1, <2>2, <2>3 DEF Untouched
  <2>6. \A x, y \in Roots \ {Top} : place'[x] # Nowhere /\ place'[x] = place'[y] => x = y
      BY <2>2
  <2>7. \A x \in Roots \ {Top} : place'[x] # Nowhere /\ place'[x].dir = "dir" =>
                                  dirname'[place'[x].parent] # "removed"
      BY <2>1, <2>2
  <2> QED BY <2>1, <2>3, <2>4, <2>5, <2>6, <2>7, <1>0
<1>4. ASSUME NEW r \in Roots, NEW n \in DirNames \union {"removed"},
             UNCHANGED <<place, file>>, dirname' = [dirname EXCEPT ![r] = n],
             moved' = moved \union ({"subvolume"} \X Within(r, "dir")),
             n = "removed" => Within(r, "dir") = {}
      PROVE  TreeInv' /\ Kept
  <2>1. dirname'[r] = n /\ \A x \in Roots \ {r} : dirname'[x] = dirname[x] BY <1>4
  <2>2. /\ \A x \in Within(r, "dir") : <<"subvolume", x>> \in moved'
        /\ \A x \in Roots : <<"file", x>> \in moved' <=> <<"file", x>> \in moved
        /\ moved \subseteq moved'
      BY <1>4
  <2>3. \A x \in Roots \ {Top} : place[x] = Nowhere \/ place[x].parent \in Roots
      BY <1>0, PlaceFacts
  <2>4. \A x \in Roots \ {Top} : place[x] # Nowhere /\ place[x].dir = "dir" =>
                                   dirname'[place[x].parent] # "removed"
      BY <2>1, <2>3, <1>4 DEF Within
  <2>5. ASSUME NEW x \in Roots, Untouched(x)', x # Top, place[x].dir = "dir"
        PROVE  dirname'[place[x].parent] = dirname[place[x].parent]
    <3>1. place[x] # Nowhere BY <2>2, <2>5 DEF Untouched
    <3>2. place[x].parent \in Roots BY <3>1, <1>0, PlaceFacts
    <3>3. x \notin Within(r, "dir") BY <2>2, <2>5 DEF Untouched
    <3> QED BY <3>2, <3>3, <2>1, <2>5 DEF Within
  <2>6. Kept BY <2>2, <2>5, <1>4 DEF Kept
  <2>7. \A x \in Roots \ {Top} : place'[x] = Nowhere => ~Untouched(x)'
      BY <2>2, <1>4 DEF Untouched
  <2> QED BY <2>2, <2>4, <2>6, <2>7, <1>0, <1>4
<1>5. ASSUME NEW r \in Roots, UNCHANGED <<place, dirname>>,
             moved' = moved \union ({"file"} \X {r}),
             DOMAIN file' = Roots, \A x \in Roots \ {r} : file'[x] = file[x]
      PROVE  TreeInv' /\ Kept
  <2>1. /\ <<"file", r>> \in moved' /\ moved \subseteq moved'
        /\ \A x \in Roots : <<"subvolume", x>> \in moved' <=> <<"subvolume", x>> \in moved
      BY <1>5
  <2>2. Kept BY <2>1, <1>5 DEF Kept
  <2>3. \A x \in Roots : <<"file", x>> \notin moved' => file'[x] = "f" BY <2>1, <1>5
  <2>4. \A x \in Roots \ {Top} : place'[x] = Nowhere => ~Untouched(x)'
      BY <2>1, <1>5 DEF Untouched
  <2> QED BY <2>2, <2>3, <2>4, <1>0, <1>5
<1>6. ASSUME NEW r \in Roots, NEW n \in DirNames, RenameDir(r, n) PROVE TreeInv' /\ Kept
  <2>1. n # "removed" BY SubvolumesAssumption
  <2> QED BY <2>1, <1>4, <1>6 DEF RenameDir, Disturb
<1>7. ASSUME NEW r \in Roots, RemoveDir(r) PROVE TreeInv' /\ Kept
  <2>1. Within(r, "dir") = {} BY <1>7 DEF RemoveDir
  <2>2. moved' = moved \union ({"subvolume"} \X Within(r, "dir")) BY <2>1, <1>7 DEF RemoveDir, Disturb
  <2> QED BY <2>1, <2>2, <1>4, <1>7 DEF RemoveDir
<1>8. ASSUME NEW r \in Roots, RenameFile(r) \/ Unlink(r) PROVE TreeInv' /\ Kept
  <2>1. DOMAIN file' = Roots /\ \A x \in Roots \ {r} : file'[x] = file[x]
      BY <1>8 DEF RenameFile, Unlink
  <2> QED BY <2>1, <1>5, <1>8 DEF RenameFile, Unlink, Disturb
<1> QED BY <1>1, <1>2, <1>3, <1>6, <1>7, <1>8 DEF Users

\* What a subvolume sits in: itself, and what its parent sits in.
LEMMA ChainFacts ==
    ASSUME PlaceOK, NEW r \in Roots
    PROVE  /\ Chain(r) \subseteq Roots /\ r \in Chain(r)
           /\ \A y \in Chain(r) : Above(y) \subseteq Chain(r)
           /\ \A x \in Chain(r) : Chain(x) \subseteq Chain(r)
<1> DEFINE Closed(C) == \A y \in C : Above(y) \subseteq C
<1>1. Chain(r) \subseteq Roots /\ r \in Chain(r) BY DEF Chain
<1>2. ASSUME NEW y \in Chain(r), NEW z \in Above(y) PROVE z \in Chain(r)
  <2>1. z \in Roots
    <3>1. y \in Roots /\ y # Top /\ z = place[y].parent /\ z # 0 BY <1>1, <1>2 DEF Above
    <3> QED BY <3>1, PlaceFacts, NowhereFacts
  <2>2. ASSUME NEW C \in SUBSET Roots, r \in C, Closed(C) PROVE z \in C
    <3>1. y \in C BY <2>2, <1>2 DEF Chain
    <3> QED BY <3>1, <2>2, <1>2
  <2> QED BY <2>1, <2>2 DEF Chain
<1>3. Closed(Chain(r)) BY <1>2
<1>4. ASSUME NEW x \in Chain(r) PROVE Chain(x) \subseteq Chain(r)
    BY <1>1, <1>3 DEF Chain
<1> QED BY <1>1, <1>3, <1>4

\* One that is undisturbed sits where it did.
LEMMA ChainKept ==
    ASSUME PlaceOK, PlaceOK', Kept, NEW r \in Roots, Undisturbed(r)'
    PROVE  /\ Undisturbed(r) /\ Chain(r)' = Chain(r)
           /\ \A x \in Chain(r) :
                /\ place'[x] = place[x]
                /\ x # Top /\ place[x].dir = "dir" =>
                     dirname'[place[x].parent] = dirname[place[x].parent]
<1> DEFINE C == Chain(r)
           D == Chain(r)'
<1>1. C \subseteq Roots /\ r \in C /\ \A y \in C : Above(y) \subseteq C BY ChainFacts
<1>2. D \subseteq Roots /\ r \in D /\ \A y \in D : Above(y)' \subseteq D
  <2>1. /\ Chain(r)' \subseteq Roots /\ r \in Chain(r)'
        /\ \A y \in Chain(r)' : (Above(y))' \subseteq Chain(r)'
    <3>1. D \subseteq Roots /\ r \in D BY DEF Chain
    <3>2. ASSUME NEW y \in D, NEW z \in Above(y)' PROVE z \in D
      <4>1. z \in Roots
        <5>1. y \in Roots /\ y # Top /\ z = place'[y].parent /\ z # 0 BY <3>1, <3>2 DEF Above
        <5>2. place'[y] # Nowhere BY <5>1, NowhereFacts
        <5>3. place'[y] \in Place
          <6> HIDE DEF Place
          <6> QED BY <5>1, <5>2 DEF PlaceOK
        <5> QED BY <5>1, <5>3 DEF Place
      <4>2. ASSUME NEW E \in SUBSET Roots, r \in E, \A x \in E : Above(x)' \subseteq E PROVE z \in E
        <5>1. y \in E BY <4>2, <3>2 DEF Chain
        <5> QED BY <5>1, <4>2, <3>2
      <4> QED BY <4>1, <4>2 DEF Chain
    <3> QED BY <3>1, <3>2
  <2> QED BY <2>1
<1>3. \A x \in D : /\ Untouched(x)' /\ place'[x] = place[x]
                   /\ x # Top /\ place[x].dir = "dir" =>
                        dirname'[place[x].parent] = dirname[place[x].parent]
    BY <1>2 DEF Undisturbed, Kept
<1>4. \A x \in D : Above(x)' = Above(x) BY <1>3 DEF Above
<1>5. C \subseteq D
  <2>1. D \in SUBSET Roots /\ r \in D /\ \A y \in D : Above(y) \subseteq D BY <1>2, <1>4
  <2> HIDE DEF D
  <2> QED BY <2>1 DEF Chain
<1>6. \A y \in C : Above(y)' \subseteq C BY <1>1, <1>4, <1>5
<1>7. D \subseteq C BY <1>1, <1>6 DEF Chain
<1>8. C = D BY <1>5, <1>7
<1>9. \A x \in C : Untouched(x) BY <1>3, <1>5 DEF Kept, Untouched
<1> QED BY <1>3, <1>8, <1>9 DEF Undisturbed

\* A path by which a subvolume is come to, from the top level one down.
Steps == [dir : DirNames \union {"", "removed"}, name : Names]

Down(path, way) ==
    /\ way[0] = Top
    /\ \A n \in 1 .. Len(path) :
         /\ way[n] # Top /\ place[way[n]] # Nowhere /\ place[way[n]].parent = way[n - 1]
         /\ path[n] = [dir  |-> DirPath(way[n - 1], place[way[n]].dir),
                       name |-> place[way[n]].name]

Way(path, r) ==
    /\ path \in Seq(Steps)
    /\ \E way \in [0 .. Len(path) -> Chain(r)] : Down(path, way) /\ way[Len(path)] = r

LEMMA WayKept ==
    ASSUME PlaceOK, PlaceOK', Kept, NEW r \in Roots, Undisturbed(r)', NEW path, Way(path, r)
    PROVE  Way(path, r)'
<1>1. PICK way \in [0 .. Len(path) -> Chain(r)] : Down(path, way) /\ way[Len(path)] = r
    BY DEF Way
<1>2. path \in Seq(Steps) /\ Len(path) \in Nat
  <2> HIDE DEF Steps
  <2> QED BY DEF Way
<1>3. /\ Chain(r)' = Chain(r)
      /\ \A x \in Chain(r) :
           /\ place'[x] = place[x]
           /\ x # Top /\ place[x].dir = "dir" =>
                dirname'[place[x].parent] = dirname[place[x].parent]
    BY ChainKept
<1>4. ASSUME NEW n \in 1 .. Len(path)
      PROVE  /\ way[n] # Top /\ place'[way[n]] # Nowhere /\ place'[way[n]].parent = way[n - 1]
             /\ path[n] = [dir  |-> DirPath(way[n - 1], place[way[n]].dir)',
                           name |-> place'[way[n]].name]
  <2>1. way[n] \in Chain(r) BY <1>1, <1>2
  <2>2. /\ way[n] # Top /\ place[way[n]] # Nowhere /\ place[way[n]].parent = way[n - 1]
        /\ path[n] = [dir  |-> DirPath(way[n - 1], place[way[n]].dir),
                      name |-> place[way[n]].name]
      BY <1>1 DEF Down
  <2>3. place[way[n]].dir \in Dirs
    <3>1. way[n] \in Roots BY <2>1, ChainFacts
    <3> QED BY <3>1, <2>2, PlaceFacts DEF Place
  <2>4. place'[way[n]] = place[way[n]] BY <2>1, <1>3
  <2>5. DirPath(way[n - 1], place[way[n]].dir)' = DirPath(way[n - 1], place[way[n]].dir)
      BY <2>1, <2>2, <2>3, <2>4, <1>3 DEF DirPath, Dirs
  <2> QED BY <2>2, <2>4, <2>5
<1>5. Down(path, way)' BY <1>1, <1>4 DEF Down
<1> QED BY <1>1, <1>2, <1>3, <1>5 DEF Way

\* The way to a subvolume's parent, and one step more.
LEMMA WayOn ==
    ASSUME TreeInv, NEW r \in Roots \ {Top}, place[r] # Nowhere,
           NEW path, Way(path, place[r].parent)
    PROVE  Way(Joined(path, DirPath(place[r].parent, place[r].dir), place[r].name), r)
<1> DEFINE p == place[r].parent
           step == [dir |-> DirPath(p, place[r].dir), name |-> place[r].name]
           longer == Append(path, step)
           L == Len(path)
<1>0. PlaceOK BY DEF TreeInv
<1>1. p \in Roots /\ p # 0 /\ place[r].name \in Names BY <1>0, PlaceFacts
<1>2. PICK way \in [0 .. L -> Chain(p)] : Down(path, way) /\ way[L] = p BY DEF Way
<1>3. Chain(p) \subseteq Chain(r) /\ r \in Chain(r)
  <2>1. p \in Above(r) BY <1>1 DEF Above
  <2> QED BY <2>1, <1>0, ChainFacts
<1>4. step \in Steps BY <1>1 DEF Steps, DirPath, TreeInv
<1> HIDE DEF step, Steps, p
<1>5. path \in Seq(Steps) /\ L \in Nat BY DEF Way, p
<1>6. /\ longer \in Seq(Steps) /\ Len(longer) = L + 1 /\ longer[L + 1] = step
      /\ \A n \in 1 .. L : longer[n] = path[n]
    BY <1>4, <1>5
<1> HIDE DEF longer
<1> DEFINE on == [n \in 0 .. L + 1 |-> IF n = L + 1 THEN r ELSE way[n]]
<1>7. /\ on \in [0 .. L + 1 -> Chain(r)] /\ on[L + 1] = r
      /\ \A n \in 0 .. L : on[n] = way[n]
    BY <1>2, <1>3, <1>5
<1> HIDE DEF on
<1>8. on[0] = Top BY <1>2, <1>5, <1>7 DEF Down
<1>9. ASSUME NEW n \in 1 .. L + 1
      PROVE  /\ on[n] # Top /\ place[on[n]] # Nowhere /\ place[on[n]].parent = on[n - 1]
             /\ longer[n] = [dir  |-> DirPath(on[n - 1], place[on[n]].dir),
                             name |-> place[on[n]].name]
  <2>1. CASE n = L + 1
    <3>1. on[n] = r /\ on[n - 1] = p BY <2>1, <1>2, <1>5, <1>7
    <3>2. longer[n] = step BY <2>1, <1>6
    <3> QED BY <3>1, <3>2 DEF p, step
  <2>2. CASE n \in 1 .. L
    <3>1. on[n] = way[n] /\ on[n - 1] = way[n - 1] /\ longer[n] = path[n]
        BY <2>2, <1>5, <1>6, <1>7
    <3>2. /\ way[n] # Top /\ place[way[n]] # Nowhere /\ place[way[n]].parent = way[n - 1]
          /\ path[n] = [dir  |-> DirPath(way[n - 1], place[way[n]].dir),
                        name |-> place[way[n]].name]
        BY <2>2, <1>2 DEF Down
    <3> QED BY <3>1, <3>2
  <2> QED BY <2>1, <2>2, <1>5
<1>10. Down(longer, on) BY <1>6, <1>8, <1>9 DEF Down
<1>11. Way(longer, r) BY <1>6, <1>7, <1>10 DEF Way
<1> QED BY <1>11 DEF Joined, longer, step, p

\* The way to a subvolume leads there: at each step there is only one to be had.
LEMMA WayLeads ==
    ASSUME TreeInv, NEW r \in Roots, NEW path, Way(path, r)
    PROVE  Leads(path) = r
<1> DEFINE L == Len(path)
           Lead(f) == f = [n \in 0 .. L |->
              IF n = 0 THEN Top
              ELSE IF f[n - 1] = 0 \/ Below(f[n - 1], path[n]) = {} THEN 0
              ELSE CHOOSE s \in Below(f[n - 1], path[n]) : TRUE]
<1>0. PlaceOK BY DEF TreeInv
<1>1. PICK way \in [0 .. L -> Chain(r)] : Down(path, way) /\ way[L] = r BY DEF Way
<1>2. L \in Nat
  <2> HIDE DEF Steps
  <2> QED BY DEF Way
<1>3. \A n \in 0 .. L : way[n] \in Roots /\ way[n] # 0
  <2>1. Chain(r) \subseteq Roots BY <1>0, ChainFacts
  <2> QED BY <2>1, <1>1, SubvolumesAssumption
<1>4. ASSUME NEW n \in 1 .. L PROVE Below(way[n - 1], path[n]) = {way[n]}
  <2> DEFINE q == way[n - 1]
             x == way[n]
  <2>1. /\ x \in Roots \ {Top} /\ place[x] # Nowhere /\ place[x].parent = q
        /\ path[n].dir = DirPath(q, place[x].dir) /\ path[n].name = place[x].name
    <3>1. x \in Roots BY <1>2, <1>3
    <3>2. /\ way[n] # Top /\ place[way[n]] # Nowhere /\ place[way[n]].parent = way[n - 1]
          /\ path[n] = [dir  |-> DirPath(way[n - 1], place[way[n]].dir),
                        name |-> place[way[n]].name]
        BY <1>1 DEF Down
    <3> QED BY <3>1, <3>2
  <2>2. q \in Roots /\ q # 0 BY <1>2, <1>3
  <2> HIDE DEF q, x
  <2>3. x \in Below(q, path[n]) BY <2>1 DEF Below
  <2>4. ASSUME NEW s \in Below(q, path[n]) PROVE s = x
    <3>1. /\ s \in Roots \ {Top} /\ place[s].parent = q /\ place[s].name = place[x].name
          /\ DirPath(q, place[s].dir) = DirPath(q, place[x].dir)
        BY <2>1, <2>4 DEF Below
    <3>2. place[s] # Nowhere BY <3>1, <2>2, NowhereFacts
    <3>3. place[s] \in Place /\ place[x] \in Place BY <3>1, <3>2, <2>1, <1>0, PlaceFacts
    <3>4. dirname[q] # "" BY <2>2, SubvolumesAssumption DEF TreeInv
    <3>5. place[s].dir = place[x].dir BY <3>1, <3>3, <3>4 DEF DirPath, Place, Dirs
    <3>6. place[s] = place[x] BY <3>1, <3>3, <3>5, <2>1 DEF Place
    <3> QED BY <3>1, <3>2, <3>6, <2>1 DEF TreeInv
  <2> QED BY <2>3, <2>4 DEF q, x
<1>5. Lead(way)
  <2> DEFINE body == [n \in 0 .. L |->
              IF n = 0 THEN Top
              ELSE IF way[n - 1] = 0 \/ Below(way[n - 1], path[n]) = {} THEN 0
              ELSE CHOOSE s \in Below(way[n - 1], path[n]) : TRUE]
  <2>1. ASSUME NEW n \in 0 .. L PROVE way[n] = body[n]
    <3>1. CASE n = 0 BY <3>1, <1>1, <1>2 DEF Down
    <3>2. CASE n # 0
      <4>1. n \in 1 .. L /\ n - 1 \in 0 .. L BY <3>2, <1>2
      <4>2. Below(way[n - 1], path[n]) = {way[n]} /\ way[n - 1] # 0 BY <4>1, <1>3, <1>4
      <4> QED BY <4>2, <3>2
    <3> QED BY <3>1, <3>2
  <2>2. way = body
    <3> HIDE DEF Down
    <3> QED BY <2>1, <1>1
  <2> QED BY <2>2
<1> DEFINE lead == CHOOSE f : Lead(f)
<1>6. Lead(lead)
  <2> HIDE DEF Lead
  <2> QED BY <1>5
<1>7. Leads(path) = lead[L] BY DEF Leads
<1>8. /\ lead[0] = Top
      /\ \A n \in 1 .. L : lead[n - 1] = way[n - 1] => lead[n] = way[n]
  <2> HIDE DEF lead
  <2>1. lead[0] = Top
    <3>1. 0 \in 0 .. L BY <1>2
    <3> QED BY <3>1, <1>6
  <2>2. ASSUME NEW n \in 1 .. L, lead[n - 1] = way[n - 1] PROVE lead[n] = way[n]
    <3>1. n \in 0 .. L /\ n # 0 /\ n - 1 \in 0 .. L BY <1>2
    <3>2. lead[n] = IF lead[n - 1] = 0 \/ Below(lead[n - 1], path[n]) = {} THEN 0
                    ELSE CHOOSE s \in Below(lead[n - 1], path[n]) : TRUE
        BY <3>1, <1>6
    <3>3. Below(way[n - 1], path[n]) = {way[n]} /\ way[n - 1] # 0 BY <3>1, <1>3, <1>4
    <3> QED BY <3>2, <3>3, <2>2
  <2> QED BY <2>1, <2>2
<1> HIDE DEF lead
<1> DEFINE Bad == {n \in 0 .. L : lead[n] # way[n]}
<1>9. Bad = {}
  <2> SUFFICES ASSUME Bad # {} PROVE FALSE OBVIOUS
  <2>1. Bad \in SUBSET Nat BY <1>2
  <2> HIDE DEF Bad
  <2>2. PICK n \in Bad : \A m \in Bad : n <= m BY <2>1, LeastNumber
  <2>3. n \in 0 .. L /\ lead[n] # way[n] BY <2>2 DEF Bad
  <2>4. n \in 1 .. L /\ n - 1 \in 0 .. L BY <2>3, <1>1, <1>2, <1>8 DEF Down
  <2>5. n - 1 \notin Bad BY <2>2, <2>4
  <2> QED BY <2>3, <2>4, <2>5, <1>8 DEF Bad
<1> QED BY <1>1, <1>2, <1>7, <1>9

-----------------------------------------------------------------------------
(* The search for a subvolume nobody has disturbed.                        *)

Valid(r, v) == Undisturbed(r) => \E path : v = Some(path) /\ Way(path, r)

\* The frames of the search are a subvolume, its parent and so on, by the
\* backreferences as they still are.
FramesOK ==
    pc \in {"subvolume", "parent", "open"} =>
      /\ stack[1].root = root
      /\ \A i \in 1 .. Len(stack) :
           /\ \A r \in Roots : r = root /\ Undisturbed(r) => stack[i].root \in Chain(r)
           /\ i < Len(stack) \/ pc # "subvolume" =>
                /\ stack[i].root # Top
                /\ \A r \in Roots : r = stack[i].root /\ Undisturbed(r) => stack[i].ref = place[r]
           /\ i < Len(stack) => stack[i + 1].root = stack[i].ref.parent

\* What the value last come to is about.
About(r) ==
    \/ pc = "parent" /\ r = stack[Len(stack)].ref.parent
    \/ pc = "open" /\ r = stack[Len(stack)].root
    \/ pc \in {"reopen", "paths", "file"} /\ r = root

\* What has been found, and what is remembered of earlier searches, is the way
\* to each subvolume nobody has disturbed.
FoundOK ==
    /\ \A r \in Roots : r \in DOMAIN cache => Valid(r, cache[r])
    /\ \A r \in Roots : About(r) => Valid(r, value)
    /\ pc = "file" /\ <<"file", root>> \notin moved => name = "f"

ReachedOK ==
    \A r \in Roots : pc = "done" /\ r = root /\ Undisturbed(r) /\ <<"file", r>> \notin moved =>
       result = "opened"

ReachInv == FindInv /\ TreeInv /\ FramesOK /\ FoundOK /\ ReachedOK

LEMMA InitReach == Init => ReachInv
<1> SUFFICES ASSUME Init PROVE ReachInv OBVIOUS
<1>1. pc = "idle" /\ cache = <<>> BY DEF Init
<1>2. DOMAIN cache = {} BY <1>1
<1> QED BY <1>1, <1>2, InitFind, InitTree DEF ReachInv, FramesOK, FoundOK, About, ReachedOK

LEMMA TopFrame ==
    ASSUME StackOK, pc \in {"subvolume", "parent", "open"}
    PROVE  /\ stack \in Seq(Sought) /\ Len(stack) \in Nat /\ Len(stack) > 0
           /\ Len(stack) \in 1 .. Len(stack) /\ Frame = stack[Len(stack)]
           /\ Frame.root \in Roots
           /\ \A i \in 1 .. Len(stack) : stack[i].root \in Roots
           /\ pc # "subvolume" => Frame.ref.parent \in Roots
<1>1. stack \in Seq(Sought) /\ Len(stack) \in Nat /\ Len(stack) > 0
  <2> HIDE DEF Sought
  <2> QED BY DEF StackOK
<1>2. Len(stack) \in 1 .. Len(stack) /\ Frame = stack[Len(stack)] BY <1>1 DEF Frame, Last
<1>3. \A i \in 1 .. Len(stack) : stack[i] \in Sought
  <2> HIDE DEF Sought
  <2> QED BY <1>1
<1>4. \A i \in 1 .. Len(stack) : stack[i].root \in Roots BY <1>3 DEF Sought
<1>5. pc # "subvolume" => Frame.ref.parent \in Roots BY <1>2 DEF StackOK, Place
<1> QED BY <1>1, <1>2, <1>4, <1>5

LEMMA UsersReach == ASSUME ReachInv, Users PROVE ReachInv'
<1>0. FindInv /\ PlaceOK /\ StackOK /\ TreeInv /\ FramesOK /\ FoundOK BY DEF ReachInv, FindInv
<1>1. FindInv' /\ PlaceOK' /\ TreeInv' /\ Kept BY <1>0, UsersFind, UsersTree DEF FindInv
<1>2. UNCHANGED tool /\ pc # "done"
    BY DEF Users, MoveSubvolume, ExchangeSubvolumes, DeleteSubvolume, RenameDir, RemoveDir,
           RenameFile, Unlink, Disturb
<1>3. UNCHANGED <<pc, root, stack, value, cache, name>> BY <1>2 DEF tool
<1>4. \A r \in Roots : Undisturbed(r)' =>
        Undisturbed(r) /\ Chain(r)' = Chain(r) /\ place'[r] = place[r]
    BY <1>0, <1>1, ChainKept, ChainFacts
<1>5. FramesOK' BY <1>0, <1>3, <1>4 DEF FramesOK
<1>6. \A r \in Roots : \A path : Undisturbed(r)' /\ Way(path, r) => Way(path, r)'
    BY <1>0, <1>1, WayKept
<1>7. \A r \in Roots : About(r)' <=> About(r) BY <1>3 DEF About
<1>8. FoundOK'
  <2>1. \A r \in Roots : r \in DOMAIN cache' => Valid(r, cache[r])'
      BY <1>0, <1>3, <1>4, <1>6 DEF FoundOK, Valid
  <2>2. \A r \in Roots : About(r)' => Valid(r, value)'
      BY <1>0, <1>3, <1>4, <1>6, <1>7 DEF FoundOK, Valid
  <2>3. moved \subseteq moved' BY <1>1 DEF Kept
  <2> QED BY <2>1, <2>2, <2>3, <1>0, <1>3 DEF FoundOK
<1>9. ReachedOK' BY <1>2, <1>3 DEF ReachedOK
<1> QED BY <1>1, <1>5, <1>8, <1>9 DEF ReachInv

\* The tool moves nothing.
LEMMA NothingMoves ==
    ASSUME TreeInv, UNCHANGED <<fs, moved>>
    PROVE  /\ TreeInv' /\ UNCHANGED <<place, dirname, file, moved>>
           /\ \A r \in Roots : /\ Undisturbed(r)' <=> Undisturbed(r)
                               /\ Chain(r)' = Chain(r)
                               /\ \A path : Way(path, r)' <=> Way(path, r)
                               /\ \A v : Valid(r, v)' <=> Valid(r, v)
<1>1. UNCHANGED <<place, dirname, file, moved>> BY DEF fs
<1>2. TreeInv' BY <1>1 DEF TreeInv, PlaceOK, Untouched
<1>3. \A r \in Roots : Chain(r)' = Chain(r) BY <1>1 DEF Chain, Above
<1>4. \A r \in Roots : Undisturbed(r)' <=> Undisturbed(r) BY <1>1, <1>3 DEF Undisturbed, Untouched
<1>5. \A path, way : Down(path, way)' <=> Down(path, way) BY <1>1 DEF Down, DirPath
<1>6. \A r \in Roots : \A path : Way(path, r)' <=> Way(path, r)
  <2> HIDE DEF Steps
  <2> QED BY <1>3, <1>5 DEF Way
<1>7. \A r \in Roots : \A v : Valid(r, v)' <=> Valid(r, v) BY <1>4, <1>6 DEF Valid
<1> QED BY <1>1, <1>2, <1>3, <1>4, <1>6, <1>7

\* While the subvolume of the file is undisturbed, so are all on the stack.
LEMMA FramesUndisturbed ==
    ASSUME FindInv, FramesOK, pc \in {"subvolume", "parent", "open"}, Undisturbed(root)
    PROVE  \A i \in 1 .. Len(stack) : Undisturbed(stack[i].root)
<1>1. root \in Roots /\ PlaceOK BY DEF FindInv, StackOK
<1>2. \A i \in 1 .. Len(stack) : stack[i].root \in Chain(root) BY <1>1 DEF FramesOK
<1>3. \A x \in Chain(root) : Chain(x) \subseteq Chain(root) BY <1>1, ChainFacts
<1> QED BY <1>2, <1>3 DEF Undisturbed

\* What is found is remembered and handed on.
LEMMA ReturnReach ==
    ASSUME ReachInv, NEW v, Return(v), UNCHANGED <<fs, moved>>,
           pc \in {"subvolume", "parent", "open"}, Valid(Frame.root, v)
    PROVE  ReachInv'
<1>0. FindInv /\ PlaceOK /\ StackOK /\ TreeInv /\ FramesOK /\ FoundOK /\ ResultOK
    BY DEF ReachInv, FindInv
<1>1. FindInv' BY <1>0, ReturnFind
<1> DEFINE L == Len(stack)
<1>2. /\ stack \in Seq(Sought) /\ L \in Nat /\ L > 0 /\ Frame = stack[L] /\ Frame.root \in Roots
      /\ \A i \in 1 .. L : stack[i].root \in Roots
    BY <1>0, TopFrame
<1>3. /\ stack' = SubSeq(stack, 1, L - 1) /\ value' = v
      /\ cache' = [r \in DOMAIN cache \union {Frame.root} |->
                     IF r = Frame.root THEN v ELSE cache[r]]
      /\ \/ L = 1 /\ v = None /\ pc' = "done"
         \/ L = 1 /\ v # None /\ pc' = "reopen"
         \/ L > 1 /\ pc' = "parent"
      /\ UNCHANGED <<root, name, opened>>
    BY DEF Return, Front, Finish
<1>4. /\ TreeInv' /\ UNCHANGED <<place, dirname, file, moved>>
      /\ \A r \in Roots : /\ Undisturbed(r)' <=> Undisturbed(r)
                          /\ Chain(r)' = Chain(r)
                          /\ \A path : Way(path, r)' <=> Way(path, r)
                          /\ \A w : Valid(r, w)' <=> Valid(r, w)
    BY <1>0, NothingMoves
<1>5. Len(stack') = L - 1 /\ \A i \in 1 .. L - 1 : stack'[i] = stack[i]
  <2> DEFINE m == L - 1
  <2> HIDE DEF Sought
  <2>1. m \in Nat /\ 1 \in Int /\ \A i \in 1 .. m : stack[i] \in Sought BY <1>2
  <2> HIDE DEF m, L
  <2>2. /\ SubSeq(stack, 1, m) \in Seq(Sought)
        /\ Len(SubSeq(stack, 1, m)) = IF 1 <= m THEN m - 1 + 1 ELSE 0
        /\ \A i \in 1 .. m - 1 + 1 : SubSeq(stack, 1, m)[i] = stack[1 + i - 1]
      BY <2>1, SubSeqProperties
  <2>3. stack' = SubSeq(stack, 1, m) BY <1>3 DEF m
  <2>4. Len(stack') = m /\ \A i \in 1 .. m : stack'[i] = stack[i] BY <2>1, <2>2, <2>3
  <2> QED BY <2>4 DEF m
<1>6. FramesOK'
  <2> SUFFICES ASSUME L > 1, pc' = "parent" PROVE FramesOK' BY <1>3 DEF FramesOK
  <2>1. \A i \in 1 .. L - 1 : i \in 1 .. L /\ i < L BY <1>2
  <2>2. stack'[1].root = root'
    <3>1. 1 \in 1 .. L - 1 BY <1>2
    <3> QED BY <3>1, <1>0, <1>3, <1>5 DEF FramesOK
  <2>3. ASSUME NEW i \in 1 .. L - 1
        PROVE  /\ \A r \in Roots : r = root' /\ Undisturbed(r)' => stack'[i].root \in Chain(r)'
               /\ stack'[i].root # Top
               /\ \A r \in Roots : r = stack'[i].root /\ Undisturbed(r)' => stack'[i].ref = place'[r]
               /\ i < L - 1 => stack'[i + 1].root = stack'[i].ref.parent
    <3>1. i \in 1 .. L /\ i < L /\ stack'[i] = stack[i] BY <2>1, <1>5
    <3>2. i < L - 1 => stack'[i + 1] = stack[i + 1] BY <1>2, <1>5
    <3>3. /\ \A r \in Roots : r = root /\ Undisturbed(r) => stack[i].root \in Chain(r)
          /\ stack[i].root # Top
          /\ \A r \in Roots : r = stack[i].root /\ Undisturbed(r) => stack[i].ref = place[r]
          /\ stack[i + 1].root = stack[i].ref.parent
        BY <3>1, <1>0 DEF FramesOK
    <3> QED BY <3>1, <3>2, <3>3, <1>3, <1>4
  <2> QED BY <2>2, <2>3, <1>5 DEF FramesOK
<1>7. ASSUME NEW r \in Roots, r \in DOMAIN cache' PROVE Valid(r, cache[r])'
  <2>1. CASE r = Frame.root
    <3>1. cache'[r] = v /\ Valid(r, v) BY <2>1, <1>3
    <3> QED BY <3>1, <1>4 DEF Valid
  <2>2. CASE r # Frame.root
    <3>1. cache'[r] = cache[r] /\ Valid(r, cache[r]) BY <2>2, <1>0, <1>3, <1>7 DEF FoundOK
    <3> QED BY <3>1, <1>4 DEF Valid
  <2> QED BY <2>1, <2>2
<1>8. ASSUME NEW r \in Roots, About(r)' PROVE r = Frame.root
  <2>1. CASE L = 1
    <3>1. r = root /\ stack[1].root = root BY <2>1, <1>0, <1>3, <1>8 DEF About, FramesOK
    <3> QED BY <3>1, <2>1, <1>2
  <2>2. CASE L > 1
    <3>0. pc' = "parent"
      <4>1. L # 1 BY <2>2, <1>2
      <4> QED BY <4>1, <1>3
    <3>1. r = stack'[L - 1].ref.parent BY <3>0, <1>5, <1>8 DEF About
    <3>2. L - 1 \in 1 .. L /\ L - 1 \in 1 .. L - 1 /\ L - 1 < L /\ (L - 1) + 1 = L BY <2>2, <1>2
    <3>3. stack[L].root = stack[L - 1].ref.parent BY <3>2, <1>0 DEF FramesOK
    <3> QED BY <3>1, <3>2, <3>3, <1>2, <1>5
  <2>3. L = 1 \/ L > 1 BY <1>3
  <2> QED BY <2>1, <2>2, <2>3
<1>9. \A r \in Roots : About(r)' => Valid(r, value)'
  <2> SUFFICES ASSUME NEW r \in Roots, About(r)' PROVE Valid(r, value)' OBVIOUS
  <2>1. Valid(r, v) BY <1>8
  <2> QED BY <2>1, <1>3, <1>4 DEF Valid
<1>10. FoundOK' BY <1>3, <1>7, <1>9 DEF FoundOK
<1>11. ReachedOK'
  <2> SUFFICES ASSUME pc' = "done", NEW r \in Roots, r = root', Undisturbed(r)' PROVE FALSE
      BY DEF ReachedOK
  <2>1. L = 1 /\ v = None BY <1>3
  <2>2. Valid(r, v)
    <3>1. stack[1].root = root BY <1>0 DEF FramesOK
    <3>2. Frame.root = r BY <3>1, <2>1, <1>2, <1>3
    <3> QED BY <3>2
  <2>3. Undisturbed(r) BY <1>4
  <2>4. PICK path : v = Some(path) BY <2>2, <2>3 DEF Valid
  <2>5. None # Some(path) BY DEF None, Some
  <2> QED BY <2>1, <2>4, <2>5
<1> QED BY <1>1, <1>4, <1>6, <1>10, <1>11 DEF ReachInv

\* What an undisturbed subvolume sits in is undisturbed, and where it was read to be.
LEMMA FrameParent ==
    ASSUME ReachInv, pc \in {"parent", "open"}, Undisturbed(Frame.root)
    PROVE  /\ Frame.root \in Roots \ {Top} /\ Frame.ref = place[Frame.root]
           /\ place[Frame.root] # Nowhere
           /\ Frame.ref.parent \in Roots /\ Undisturbed(Frame.ref.parent)
<1>0. PlaceOK /\ StackOK /\ TreeInv /\ FramesOK BY DEF ReachInv, FindInv
<1>1. /\ Len(stack) \in 1 .. Len(stack) /\ Frame = stack[Len(stack)] /\ Frame.root \in Roots
      /\ Frame.ref.parent \in Roots
    BY <1>0, TopFrame
<1>2. Frame.root # Top /\ Frame.ref = place[Frame.root] BY <1>0, <1>1 DEF FramesOK
<1>3. Frame.root \in Chain(Frame.root) BY <1>0, <1>1, ChainFacts
<1>4. place[Frame.root] # Nowhere BY <1>0, <1>1, <1>2, <1>3 DEF TreeInv, Undisturbed
<1>5. Frame.ref.parent # 0 BY <1>1, SubvolumesAssumption
<1>6. Frame.ref.parent \in Above(Frame.root) BY <1>2, <1>5 DEF Above
<1>7. Chain(Frame.ref.parent) \subseteq Chain(Frame.root)
  <2>1. Frame.ref.parent \in Chain(Frame.root) BY <1>0, <1>1, <1>3, <1>6, ChainFacts
  <2> QED BY <2>1, <1>0, <1>1, ChainFacts
<1> QED BY <1>1, <1>2, <1>4, <1>7 DEF Undisturbed

LEMMA OpenReach ==
    ASSUME ReachInv, NEW path, OpenFound(path), UNCHANGED <<fs, moved>>,
           pc \in {"subvolume", "parent", "open"},
           Undisturbed(Frame.root) => Way(path, Frame.root)
    PROVE  ReachInv'
<1> DEFINE v == IF Leads(path) = Frame.root THEN Some(path) ELSE None
<1>1. Return(v) BY DEF OpenFound
<1>2. Valid(Frame.root, v)
  <2> SUFFICES ASSUME Undisturbed(Frame.root) PROVE v = Some(path) /\ Way(path, Frame.root)
      BY DEF Valid
  <2>1. Frame.root \in Roots BY TopFrame DEF ReachInv, FindInv
  <2>2. Leads(path) = Frame.root BY <2>1, WayLeads DEF ReachInv
  <2> QED BY <2>2
<1> HIDE DEF v
<1> QED BY <1>1, <1>2, ReturnReach

LEMMA BackrefReach == ASSUME ReachInv, RootBackref PROVE ReachInv'
<1>0. FindInv /\ PlaceOK /\ StackOK /\ TreeInv /\ FramesOK /\ FoundOK /\ ReachedOK
    BY DEF ReachInv, FindInv
<1>1. pc = "subvolume" /\ Frame.root # Top /\ UNCHANGED <<fs, moved>> BY DEF RootBackref
<1> DEFINE L == Len(stack)
<1>2. /\ stack \in Seq(Sought) /\ L \in Nat /\ L > 0 /\ Frame = stack[L] /\ Frame.root \in Roots
      /\ L \in 1 .. L /\ \A i \in 1 .. L : stack[i].root \in Roots
    BY <1>0, <1>1, TopFrame
<1>3. CASE place[Frame.root] = Nowhere
  <2>1. Return(None) BY <1>3 DEF RootBackref
  <2>2. Frame.root \in Chain(Frame.root) BY <1>0, <1>2, ChainFacts
  <2>3. Valid(Frame.root, None) BY <2>2, <1>0, <1>1, <1>2, <1>3 DEF Valid, Undisturbed, TreeInv
  <2> QED BY <2>1, <2>3, <1>1, ReturnReach
<1>4. CASE place[Frame.root] # Nowhere
  <2> DEFINE was == [stack EXCEPT ![L].ref = place[Frame.root]]
             p == place[Frame.root].parent
             new == [root |-> p, ref |-> Nowhere]
  <2>1. stack' = Append(was, new) /\ UNCHANGED <<pc, root, value, cache, name, result>>
      BY <1>4 DEF RootBackref
  <2>2. place[Frame.root] \in Place /\ p \in Roots /\ p # 0 BY <1>0, <1>2, <1>4, PlaceFacts
  <2>3. stack[L] \in Sought
    <3> HIDE DEF Sought
    <3> QED BY <1>2
  <2>4. [stack[L] EXCEPT !.ref = place[Frame.root]] \in Sought /\ new \in Sought
      BY <2>2, <2>3 DEF Sought
  <2>5. /\ was \in Seq(Sought) /\ Len(was) = L
        /\ \A i \in 1 .. L - 1 : was[i] = stack[i]
        /\ was[L] = [stack[L] EXCEPT !.ref = place[Frame.root]]
    <3> HIDE DEF Sought, Place
    <3> QED BY <2>4, <1>2
  <2>6. was[L].root = Frame.root /\ was[L].ref = place[Frame.root]
      BY <2>3, <2>5, <1>2 DEF Sought
  <2>7. new.root = p OBVIOUS
  <2> HIDE DEF was, new, p
  <2>8. /\ Len(stack') = L + 1 /\ stack'[L + 1] = new
        /\ stack'[L].root = Frame.root /\ stack'[L].ref = place[Frame.root]
        /\ \A i \in 1 .. L - 1 : stack'[i] = stack[i]
    <3> HIDE DEF Sought
    <3>1. /\ Len(stack') = L + 1 /\ stack'[L + 1] = new
          /\ \A i \in 1 .. L : stack'[i] = was[i]
        BY <2>1, <2>4, <2>5, <1>2
    <3>2. \A i \in 1 .. L - 1 : i \in 1 .. L BY <1>2
    <3> QED BY <3>1, <3>2, <2>5, <2>6, <1>2
  <2>9. /\ TreeInv' /\ UNCHANGED <<place, dirname, file, moved>>
        /\ \A r \in Roots : /\ Undisturbed(r)' <=> Undisturbed(r)
                            /\ Chain(r)' = Chain(r)
                            /\ \A path : Way(path, r)' <=> Way(path, r)
                            /\ \A w : Valid(r, w)' <=> Valid(r, w)
      BY <1>0, <1>1, NothingMoves
  <2>10. p \in Above(Frame.root) BY <2>2, <1>1 DEF Above, p
  <2>11. /\ stack[1].root = root
         /\ \A i \in 1 .. L :
              /\ \A r \in Roots : r = root /\ Undisturbed(r) => stack[i].root \in Chain(r)
              /\ i < L => /\ stack[i].root # Top
                          /\ \A r \in Roots : r = stack[i].root /\ Undisturbed(r) =>
                                                stack[i].ref = place[r]
                          /\ stack[i + 1].root = stack[i].ref.parent
      BY <1>0, <1>1 DEF FramesOK
  <2>12. stack'[1].root = root'
    <3>1. CASE L = 1 BY <3>1, <2>1, <2>8, <2>11, <1>2
    <3>2. CASE L # 1
      <4>1. 1 \in 1 .. L - 1
        <5>1. L \in Nat /\ L > 0 BY <1>2
        <5> HIDE DEF L
        <5> QED BY <5>1, <3>2
      <4> QED BY <4>1, <2>1, <2>8, <2>11
    <3> QED BY <3>1, <3>2
  <2>13. \A r \in Roots : r = root /\ Undisturbed(r) => p \in Chain(r)
    <3> SUFFICES ASSUME NEW r \in Roots, r = root, Undisturbed(r) PROVE p \in Chain(r) OBVIOUS
    <3>1. Frame.root \in Chain(r) BY <2>11, <1>2
    <3> QED BY <3>1, <2>10, <1>0, ChainFacts
  <2>14. ASSUME NEW i \in 1 .. L + 1
         PROVE  /\ \A r \in Roots : r = root' /\ Undisturbed(r)' => stack'[i].root \in Chain(r)'
                /\ i < L + 1 => /\ stack'[i].root # Top
                                /\ \A r \in Roots : r = stack'[i].root /\ Undisturbed(r)' =>
                                                      stack'[i].ref = place'[r]
                                /\ stack'[i + 1].root = stack'[i].ref.parent
    <3>1. CASE i = L + 1
      <4>1. stack'[i].root = p /\ ~(i < L + 1) BY <3>1, <2>7, <2>8, <1>2
      <4>2. \A r \in Roots : r = root' /\ Undisturbed(r)' => p \in Chain(r)'
          BY <2>1, <2>9, <2>13
      <4> QED BY <4>1, <4>2
    <3>2. CASE i = L
      <4>1. \A r \in Roots : r = root /\ Undisturbed(r) => Frame.root \in Chain(r)
          BY <2>11, <1>2
      <4>2. /\ stack'[i].root = Frame.root /\ stack'[i].ref = place[Frame.root]
            /\ stack'[i + 1].root = p
          BY <3>2, <2>7, <2>8
      <4> QED BY <4>1, <4>2, <2>1, <2>9, <1>1 DEF p
    <3>3. CASE i \in 1 .. L - 1
      <4>1. i \in 1 .. L /\ i < L /\ stack'[i] = stack[i] BY <3>3, <2>8, <1>2
      <4>2. stack'[i + 1].root = stack[i + 1].root
        <5>1. CASE i + 1 = L BY <5>1, <2>8, <1>2
        <5>2. CASE i + 1 # L
          <6>1. i + 1 \in 1 .. L - 1 BY <3>3, <5>2, <1>2
          <6> QED BY <6>1, <2>8
        <5> QED BY <5>1, <5>2
      <4> QED BY <4>1, <4>2, <2>1, <2>9, <2>11
    <3> QED BY <3>1, <3>2, <3>3, <1>2
  <2>15. FramesOK'
    <3>1. pc' = "subvolume" BY <2>1, <1>1
    <3> QED BY <3>1, <2>8, <2>12, <2>14 DEF FramesOK
  <2>16. FoundOK' BY <2>1, <2>9, <1>0, <1>1 DEF FoundOK, About, Valid
  <2>17. ReachedOK' BY <2>1, <1>1 DEF ReachedOK
  <2> QED BY <2>9, <2>15, <2>16, <2>17, <1>0, BackrefFind DEF ReachInv
<1> QED BY <1>3, <1>4

\* Steps that leave the stack and the cache alone.
LEMMA OtherReach ==
    ASSUME ReachInv, FindInv', UNCHANGED <<fs, moved>>, UNCHANGED <<root, cache>>,
           pc' \in {"idle", "reopen", "paths", "file", "done"},
           \A r \in Roots : About(r)' => Valid(r, value'),
           pc' = "file" /\ <<"file", root>> \notin moved => name' = "f",
           \A r \in Roots : pc' = "done" /\ r = root /\ Undisturbed(r) /\ <<"file", r>> \notin moved =>
                              result' = "opened"
    PROVE  ReachInv'
<1>0. TreeInv /\ FoundOK BY DEF ReachInv
<1>1. /\ TreeInv' /\ UNCHANGED <<place, dirname, file, moved>>
      /\ \A r \in Roots : /\ Undisturbed(r)' <=> Undisturbed(r)
                          /\ Chain(r)' = Chain(r)
                          /\ \A path : Way(path, r)' <=> Way(path, r)
                          /\ \A w : Valid(r, w)' <=> Valid(r, w)
    BY <1>0, NothingMoves
<1>2. FramesOK' BY DEF FramesOK
<1>3. \A r \in Roots : r \in DOMAIN cache' => Valid(r, cache[r])'
    BY <1>0, <1>1 DEF FoundOK, Valid
<1>4. \A r \in Roots : About(r)' => Valid(r, value)' BY <1>1 DEF Valid
<1>5. FoundOK' BY <1>1, <1>3, <1>4 DEF FoundOK
<1>6. ReachedOK' BY <1>1 DEF ReachedOK
<1> QED BY <1>1, <1>2, <1>5, <1>6 DEF ReachInv

LEMMA InoLookupReach == ASSUME ReachInv, InoLookup PROVE ReachInv'
<1>0. FindInv /\ PlaceOK /\ StackOK /\ TreeInv /\ FramesOK /\ FoundOK /\ ReachedOK
    BY DEF ReachInv, FindInv
<1>1. /\ pc = "parent" /\ pc' = "open" /\ UNCHANGED <<fs, moved>>
      /\ UNCHANGED <<root, stack, cache>>
      /\ value' = Some(Joined(value[1], DirPath(Frame.ref.parent, Frame.ref.dir), Frame.ref.name))
    BY DEF InoLookup
<1>2. FindInv' BY <1>0, ToolFind DEF Tool
<1>3. /\ TreeInv' /\ UNCHANGED <<place, dirname, file, moved>>
      /\ \A r \in Roots : /\ Undisturbed(r)' <=> Undisturbed(r)
                          /\ Chain(r)' = Chain(r)
                          /\ \A path : Way(path, r)' <=> Way(path, r)
                          /\ \A w : Valid(r, w)' <=> Valid(r, w)
    BY <1>0, <1>1, NothingMoves
<1>4. FramesOK' BY <1>0, <1>1, <1>3 DEF FramesOK
<1>5. ASSUME NEW r \in Roots, About(r)', Undisturbed(r)
      PROVE  \E path : value' = Some(path) /\ Way(path, r)
  <2>1. r = Frame.root /\ Frame = stack[Len(stack)]
    <3>1. Frame = stack[Len(stack)] BY <1>0, <1>1, TopFrame
    <3> QED BY <3>1, <1>1, <1>5 DEF About
  <2>2. /\ r # Top /\ Frame.ref = place[r] /\ place[r] # Nowhere
        /\ Frame.ref.parent \in Roots /\ Undisturbed(Frame.ref.parent)
      BY <2>1, <1>1, <1>5, FrameParent
  <2>3. About(Frame.ref.parent) BY <2>1, <1>1 DEF About
  <2>4. PICK path : value = Some(path) /\ Way(path, Frame.ref.parent)
      BY <2>2, <2>3, <1>0 DEF FoundOK, Valid
  <2>5. value[1] = path BY <2>4 DEF Some
  <2>6. Way(Joined(path, DirPath(place[r].parent, place[r].dir), place[r].name), r)
      BY <2>2, <2>4, <1>0, WayOn
  <2> QED BY <2>2, <2>5, <2>6, <1>1
<1>6. \A r \in Roots : About(r)' => Valid(r, value)' BY <1>3, <1>5 DEF Valid
<1>7. \A r \in Roots : r \in DOMAIN cache' => Valid(r, cache[r])'
    BY <1>0, <1>1, <1>3 DEF FoundOK, Valid
<1>8. FoundOK' BY <1>1, <1>6, <1>7 DEF FoundOK
<1>9. ReachedOK' BY <1>1 DEF ReachedOK
<1> QED BY <1>2, <1>3, <1>4, <1>8, <1>9 DEF ReachInv

LEMMA ToolReach == ASSUME ReachInv, Tool PROVE ReachInv'
<1>0. /\ FindInv /\ PlaceOK /\ StackOK /\ ResultOK /\ TreeInv /\ FramesOK /\ FoundOK /\ ReachedOK
      /\ root \in Roots
    BY DEF ReachInv, FindInv, StackOK
<1>1. FindInv' BY <1>0, ToolFind
<1>2. CASE \E r \in Roots : Begin(r)
  <2>1. PICK r \in Roots : Begin(r) BY <1>2
  <2>2. /\ root' = r /\ stack' = <<[root |-> r, ref |-> Nowhere]>> /\ pc' = "subvolume"
        /\ UNCHANGED <<fs, moved>> /\ UNCHANGED <<value, cache>>
      BY <2>1 DEF Begin
  <2>3. Len(stack') = 1 /\ stack'[1].root = r BY <2>2
  <2>4. /\ TreeInv' /\ UNCHANGED <<place, dirname, file, moved>>
        /\ \A q \in Roots : /\ Undisturbed(q)' <=> Undisturbed(q)
                            /\ Chain(q)' = Chain(q)
                            /\ \A path : Way(path, q)' <=> Way(path, q)
                            /\ \A w : Valid(q, w)' <=> Valid(q, w)
      BY <2>2, <1>0, NothingMoves
  <2>5. r \in Chain(r) BY <1>0, ChainFacts
  <2>6. FramesOK'
    <3>1. \A i \in 1 .. Len(stack') : i = 1 BY <2>3
    <3> QED BY <3>1, <2>2, <2>3, <2>4, <2>5 DEF FramesOK
  <2>7. FoundOK' BY <2>2, <2>4, <1>0 DEF FoundOK, About, Valid
  <2>8. ReachedOK' BY <2>2 DEF ReachedOK
  <2> QED BY <2>4, <2>6, <2>7, <2>8, <1>1 DEF ReachInv
<1>3. CASE Known
  <2>1. Frame.root \in Roots BY <1>0, <1>3, TopFrame DEF Known
  <2>2. Valid(Frame.root, cache[Frame.root]) BY <2>1, <1>0, <1>3 DEF Known, FoundOK
  <2> QED BY <2>2, <1>3, ReturnReach DEF Known
<1>4. CASE RootBackref BY <1>4, BackrefReach
<1>5. CASE FindTop
  <2>1. Frame.root = Top /\ Top \in Roots BY <1>5, SubvolumesAssumption DEF FindTop
  <2>2. Way(<<>>, Top)
    <3> DEFINE way == [n \in 0 .. 0 |-> Top]
    <3>1. Top \in Chain(Top) BY <2>1, <1>0, ChainFacts
    <3>2. <<>> \in Seq(Steps) /\ Len(<<>>) = 0
      <4> HIDE DEF Steps
      <4> QED OBVIOUS
    <3>3. way \in [0 .. 0 -> Chain(Top)] /\ way[0] = Top BY <3>1
    <3> HIDE DEF way
    <3>4. Down(<<>>, way) BY <3>2, <3>3 DEF Down
    <3> QED BY <3>2, <3>3, <3>4 DEF Way
  <2> QED BY <2>1, <2>2, <1>5, OpenReach DEF FindTop
<1>6. CASE ParentLost
  <2>1. Valid(Frame.root, None)
    <3> SUFFICES ASSUME Undisturbed(Frame.root) PROVE FALSE BY DEF Valid
    <3>1. pc = "parent" /\ value = None BY <1>6 DEF ParentLost
    <3>2. Frame.ref.parent \in Roots /\ Undisturbed(Frame.ref.parent) BY <3>1, FrameParent
    <3>3. About(Frame.ref.parent) BY <3>1, <1>0, TopFrame DEF About
    <3>4. PICK path : value = Some(path) BY <3>2, <3>3, <1>0 DEF FoundOK, Valid
    <3>5. Some(path) # None BY DEF Some, None
    <3> QED BY <3>1, <3>4, <3>5
  <2> QED BY <2>1, <1>6, ReturnReach DEF ParentLost
<1>7. CASE InoLookup BY <1>7, InoLookupReach
<1>8. CASE InoLookupFails
  <2>1. /\ pc = "parent" /\ ~HasDir(Frame.ref.parent, Frame.ref.dir) /\ pc' = "done"
        /\ UNCHANGED <<fs, moved>> /\ UNCHANGED <<root, cache>>
      BY <1>8 DEF InoLookupFails, Finish
  <2>2. ~Undisturbed(root)
    <3> SUFFICES ASSUME Undisturbed(root) PROVE FALSE OBVIOUS
    <3>1. Len(stack) \in 1 .. Len(stack) /\ Frame = stack[Len(stack)] BY <2>1, <1>0, TopFrame
    <3>2. Undisturbed(Frame.root) BY <3>1, <2>1, <1>0, FramesUndisturbed
    <3> DEFINE q == Frame.ref.parent
    <3>3. /\ Frame.root \in Roots \ {Top} /\ Frame.ref = place[Frame.root]
          /\ place[Frame.root] # Nowhere
          /\ q \in Roots /\ Undisturbed(q)
        BY <3>2, <2>1, FrameParent
    <3>4. q = Top \/ place[q] # Nowhere
      <4>1. q \in Chain(q) BY <3>3, <1>0, ChainFacts
      <4> QED BY <4>1, <3>3, <1>0 DEF TreeInv, Undisturbed
    <3>5. Frame.ref.dir \in Dirs BY <3>3, <1>0, PlaceFacts DEF Place
    <3>6. DirPath(q, Frame.ref.dir) # "removed"
      <4>1. CASE Frame.ref.dir = "dir" BY <4>1, <3>3, <1>0 DEF TreeInv, DirPath
      <4>2. CASE Frame.ref.dir = "root" BY <4>2 DEF DirPath
      <4> QED BY <4>1, <4>2, <3>5 DEF Dirs
    <3> QED BY <3>4, <3>6, <2>1 DEF HasDir
  <2>3. \A r \in Roots : ~About(r)' BY <2>1 DEF About
  <2> QED BY <2>1, <2>2, <2>3, <1>1, OtherReach
<1>9. CASE Open
  <2>1. pc = "open" /\ OpenFound(value[1]) /\ UNCHANGED <<fs, moved>> BY <1>9 DEF Open
  <2>2. Undisturbed(Frame.root) => Way(value[1], Frame.root)
    <3> SUFFICES ASSUME Undisturbed(Frame.root) PROVE Way(value[1], Frame.root) OBVIOUS
    <3>1. Frame.root \in Roots /\ About(Frame.root) BY <2>1, <1>0, TopFrame DEF About
    <3>2. PICK path : value = Some(path) /\ Way(path, Frame.root)
        BY <3>1, <1>0 DEF FoundOK, Valid
    <3>3. value[1] = path BY <3>2 DEF Some
    <3> QED BY <3>2, <3>3
  <2>3. PICK path : path = value[1] OBVIOUS
  <2> QED BY <2>1, <2>2, <2>3, OpenReach
<1>10. ASSUME pc \in {"reopen", "paths", "file"}, Undisturbed(root)
       PROVE  Leads(value[1]) = root /\ (root = Top \/ place[root] # Nowhere)
  <2>1. About(root) BY <1>10 DEF About
  <2>2. PICK path : value = Some(path) /\ Way(path, root) BY <2>1, <1>0, <1>10 DEF FoundOK, Valid
  <2>3. value[1] = path BY <2>2 DEF Some
  <2>4. Leads(path) = root BY <2>2, <1>0, WayLeads
  <2>5. root \in Chain(root) BY <1>0, ChainFacts
  <2> QED BY <2>3, <2>4, <2>5, <1>0, <1>10 DEF TreeInv, Undisturbed
<1>11. ASSUME pc \in {"reopen", "paths", "file"}, pc' \in {"paths", "file"}, UNCHANGED <<root, value>>
       PROVE  \A r \in Roots : About(r)' => Valid(r, value')
    BY <1>0, <1>11 DEF FoundOK, About
<1>12. CASE Reopen
  <2>1. /\ pc = "reopen" /\ UNCHANGED <<fs, moved>> /\ UNCHANGED <<root, cache, value>>
        /\ IF Leads(value[1]) = root THEN pc' = "paths" ELSE pc' = "done"
      BY <1>12 DEF Reopen, Finish
  <2>2. CASE pc' = "paths"
    <3>1. \A r \in Roots : About(r)' => Valid(r, value') BY <2>1, <2>2, <1>11
    <3> QED BY <3>1, <2>1, <2>2, <1>1, OtherReach
  <2>3. CASE pc' = "done"
    <3>1. ~Undisturbed(root) BY <2>1, <2>3, <1>10
    <3>2. \A r \in Roots : ~About(r)' BY <2>3 DEF About
    <3> QED BY <3>1, <3>2, <2>1, <2>3, <1>1, OtherReach
  <2> QED BY <2>1, <2>2, <2>3
<1>13. CASE InoPaths
  <2> DEFINE gone == file[root] = "unlinked" \/ (root # Top /\ place[root] = Nowhere)
  <2>1. /\ pc = "paths" /\ UNCHANGED <<fs, moved>> /\ UNCHANGED <<root, cache, value>>
        /\ IF gone THEN pc' = "done" ELSE pc' = "file" /\ name' = file[root]
      BY <1>13 DEF InoPaths, Finish
  <2>2. CASE gone
    <3>1. ~Undisturbed(root) \/ <<"file", root>> \in moved
        BY <2>1, <2>2, <1>0, <1>10 DEF TreeInv
    <3>2. pc' = "done" /\ \A r \in Roots : ~About(r)' BY <2>1, <2>2 DEF About
    <3> QED BY <3>1, <3>2, <2>1, <1>1, OtherReach
  <2>3. CASE ~gone
    <3>1. pc' = "file" /\ name' = file[root] BY <2>1, <2>3
    <3>2. \A r \in Roots : About(r)' => Valid(r, value') BY <3>1, <2>1, <1>11
    <3>3. <<"file", root>> \notin moved => name' = "f" BY <3>1, <1>0 DEF TreeInv
    <3> QED BY <3>1, <3>2, <3>3, <2>1, <1>1, OtherReach
  <2> QED BY <2>2, <2>3
<1>14. CASE OpenInode
  <2>1. /\ pc = "file" /\ pc' = "done" /\ UNCHANGED <<fs, moved>> /\ UNCHANGED <<root, cache>>
        /\ AtPath.root # 0 /\ IsStill(AtPath) => result' = "opened"
      BY <1>14 DEF OpenInode, Finish
  <2>2. ASSUME Undisturbed(root), <<"file", root>> \notin moved PROVE result' = "opened"
    <3>1. Leads(value[1]) = root BY <2>1, <2>2, <1>10
    <3>2. file[root] = "f" /\ name = "f" /\ root # 0
        BY <2>1, <2>2, <1>0, SubvolumesAssumption DEF TreeInv, FoundOK
    <3>3. AtPath = [root |-> root, inode |-> Inode] BY <3>1, <3>2 DEF AtPath
    <3>4. AtPath.root # 0 /\ IsStill(AtPath) BY <3>2, <3>3 DEF IsStill
    <3> QED BY <3>4, <2>1
  <2>3. \A r \in Roots : ~About(r)' BY <2>1 DEF About
  <2> QED BY <2>1, <2>2, <2>3, <1>1, OtherReach
<1>15. CASE NextFile
  <2>1. pc' = "idle" /\ UNCHANGED <<fs, moved>> /\ UNCHANGED <<root, cache>>
      BY <1>15 DEF NextFile
  <2>2. \A r \in Roots : ~About(r)' BY <2>1 DEF About
  <2> QED BY <2>1, <2>2, <1>1, OtherReach
<1> QED BY <1>2, <1>3, <1>4, <1>5, <1>6, <1>7, <1>8, <1>9, <1>12, <1>13, <1>14, <1>15 DEF Tool

LEMMA NextReach == ASSUME ReachInv, [Next]_vars PROVE ReachInv'
<1>1. CASE Tool BY <1>1, ToolReach
<1>2. CASE Users BY <1>2, UsersReach
<1>3. CASE UNCHANGED vars
  <2>0. FindInv /\ TreeInv /\ FramesOK /\ FoundOK /\ ReachedOK BY DEF ReachInv
  <2>1. UNCHANGED <<fs, moved>> /\ UNCHANGED <<pc, root, stack, value, cache, name, result>>
      BY <1>3 DEF vars, tool
  <2>2. /\ TreeInv' /\ UNCHANGED <<place, dirname, file, moved>>
        /\ \A r \in Roots : /\ Undisturbed(r)' <=> Undisturbed(r)
                            /\ Chain(r)' = Chain(r)
                            /\ \A path : Way(path, r)' <=> Way(path, r)
                            /\ \A w : Valid(r, w)' <=> Valid(r, w)
      BY <2>0, <2>1, NothingMoves
  <2>3. FindInv' BY <2>0, <1>3, NextFind
  <2>4. FramesOK' BY <2>0, <2>1, <2>2 DEF FramesOK
  <2>5. \A r \in Roots : About(r)' <=> About(r) BY <2>1 DEF About
  <2>6. FoundOK' BY <2>0, <2>1, <2>2, <2>5 DEF FoundOK, Valid
  <2>7. ReachedOK' BY <2>0, <2>1, <2>2 DEF ReachedOK
  <2> QED BY <2>2, <2>3, <2>4, <2>6, <2>7 DEF ReachInv
<1> QED BY <1>1, <1>2, <1>3 DEF Next, Stop

LEMMA ReachIsReached == ReachInv => UndisturbedIsReached
<1> DEFINE touched == ({"subvolume"} \X Chain(root)) \union {<<"file", root>>}
<1> SUFFICES ASSUME ReachInv, pc = "done", moved \intersect touched = {}
             PROVE  result = "opened"
    BY DEF UndisturbedIsReached
<1>1. root \in Roots BY DEF ReachInv, FindInv, StackOK
<1>2. ASSUME NEW x \in Chain(root) PROVE <<"subvolume", x>> \notin moved
  <2>1. <<"subvolume", x>> \in touched OBVIOUS
  <2> QED BY <2>1
<1>3. <<"file", root>> \in touched OBVIOUS
<1>4. <<"file", root>> \notin moved BY <1>3
<1> QED BY <1>1, <1>2, <1>4 DEF ReachInv, ReachedOK, Undisturbed, Untouched

\* A file is reached as long as nobody has touched it, its subvolume, or those
\* that one sits in (subvolume, find_subvolume, inode_path, open_inode), for any
\* tree of subvolumes: whatever is moved, exchanged, renamed or deleted around
\* them, and whatever earlier lookups found or lost and left in the cache.
THEOREM SubvolumesReachTheUndisturbed == Spec => []UndisturbedIsReached
<1>1. Init => ReachInv BY InitReach
<1>2. ReachInv /\ [Next]_vars => ReachInv' BY NextReach
<1>3. ReachInv => UndisturbedIsReached BY ReachIsReached
<1> QED BY <1>1, <1>2, <1>3, PTL DEF Spec
=============================================================================
