--------------------------- MODULE ReallocProofs ----------------------------
(***************************************************************************)
(* A rewrite is invisible to the users of the filesystem, for any number   *)
(* of files, any layout, any sector size and any interleaving with users   *)
(* and failures: Realloc implements UserView.                              *)
(*                                                                         *)
(* The argument needs little of the tool's own state.  Every step of the   *)
(* tool is of one of three kinds: it leaves the filesystem alone, or it    *)
(* stages a new extent that no file refers to yet, or it makes one dedupe  *)
(* call from the temporary staged last.  What makes the second kind        *)
(* invisible is that no file maps to an extent that does not exist yet,    *)
(* and what makes the third invisible is the kernel's comparison.          *)
(*                                                                         *)
(* Then: a dry run changes nothing; an extent reported as rewritten has    *)
(* been let go; and every variable keeps its type, which is where the      *)
(* arithmetic of offsets, references, stretches and calls comes in.        *)
(*                                                                         *)
(* Last, a rewrite that nothing disturbs: it succeeds, keeps whole sectors *)
(* shared that were, and leaves no sector of its copies unreferenced.      *)
(***************************************************************************)
EXTENDS Realloc, FiniteSetTheorems, WellFoundedInduction, NaturalsInduction, TLAPS

-----------------------------------------------------------------------------
(* The shape of the filesystem's state.                                    *)

IsSeq(s) == \E S : s \in Seq(S)

IsMapping(m) == m = [addr |-> m.addr, sec |-> m.sec, head |-> m.head]

IsFile(x) ==
    /\ x = [link |-> x.link, size |-> x.size, mtime |-> x.mtime,
            nocow |-> x.nocow, map |-> x.map]
    /\ x.link \in Nat /\ x.size \in Sizes /\ x.mtime \in Nat
    /\ x.map = [i \in Sectors |-> x.map[i]]

\* Where the temporary staged last is about to be deduped from.
Deduping == {"redirect", "dedupe", "tail"}

\* Every mapping leads to an extent there is, and so does the temporary.
FilesOK == /\ files = [f \in Files |-> files[f]]
           /\ \A f \in Files : IsFile(files[f])
MapsOK  == \A f \in Files, i \in Sectors :
              /\ IsMapping(files[f].map[i])
              /\ files[f].map[i].addr \in 0 .. Len(disk)
TempOK  == /\ temp.addr \in 0 .. Len(disk)
           /\ pc \in Deduping => temp.addr # 0
Inv == FilesOK /\ MapsOK /\ IsSeq(disk) /\ TempOK

-----------------------------------------------------------------------------
(* The three kinds of steps.                                               *)

Quiet   == /\ UNCHANGED <<files, disk, temp>>
           /\ pc' \in Deduping => pc \in Deduping
Staged  == /\ files' = files
           /\ \E e : disk' = Append(disk, e)
           /\ temp'.addr = Len(disk) + 1
Deduped == /\ UNCHANGED <<disk, temp>>
           /\ pc \in Deduping
           /\ \E f, c, n : Dedupe(f, c, n, temp)

USE DEF Deduping

\* A step that ends the rewrite leaves the filesystem alone.
LEMMA StopQuiet == \A out : Stop(out) => Quiet
BY DEF Stop, Quiet, fsvars

\* Every step of the tool is of one of the three kinds.
LEMMA ToolKinds == ToolNext \/ Fault => Quiet \/ Staged \/ Deduped
<1> SUFFICES ASSUME ToolNext \/ Fault PROVE Quiet \/ Staged \/ Deduped
    OBVIOUS
<1>1. CASE LogicalIno BY <1>1, StopQuiet DEF LogicalIno, Quiet, fsvars
<1>2. CASE Collect BY <1>2, StopQuiet DEF Collect, NextHolder, Quiet, fsvars
<1>3. CASE Judge BY <1>3, StopQuiet DEF Judge, Quiet, fsvars
<1>4. CASE InodePath BY <1>4, StopQuiet DEF InodePath, Quiet, fsvars
<1>5. CASE Inspect BY <1>5, StopQuiet DEF Inspect, Quiet, fsvars
<1>6. CASE FillOpen BY <1>6, StopQuiet DEF FillOpen, Quiet, fsvars
<1>7. CASE FillRead BY <1>7, StopQuiet DEF FillRead, Quiet, fsvars
<1>8. CASE EndStretch BY <1>8, StopQuiet DEF EndStretch, Quiet, fsvars
<1>9. CASE Before BY <1>9, StopQuiet DEF Before, NextHolder, Quiet, fsvars
<1>10. CASE Stage BY <1>10 DEF Stage, Staged
<1>11. CASE RedirectOpen
    BY <1>11, StopQuiet DEF RedirectOpen, Redirected, NextHolder, Quiet, fsvars
<1>12. CASE DedupeChunk BY <1>12, StopQuiet DEF DedupeChunk, Deduped
<1>13. CASE DedupeShort BY <1>13, StopQuiet DEF DedupeShort, Deduped
<1>14. CASE FinishHolder BY <1>14, StopQuiet DEF FinishHolder, Staged, Quiet, fsvars
<1>15. CASE RedirectTail BY <1>15, StopQuiet DEF RedirectTail, Deduped
<1>16. CASE Verify BY <1>16, StopQuiet DEF Verify, NextHolder, Quiet, fsvars
<1>17. CASE CheckReleased BY <1>17, StopQuiet DEF CheckReleased, Quiet, fsvars
<1>18. CASE Fault BY <1>18, StopQuiet DEF Fault
<1> QED BY <1>1, <1>2, <1>3, <1>4, <1>5, <1>6, <1>7, <1>8, <1>9, <1>10, <1>11,
           <1>12, <1>13, <1>14, <1>15, <1>16, <1>17, <1>18 DEF ToolNext

-----------------------------------------------------------------------------
(* Facts about the parts the argument is made of.                          *)

\* A new extent leaves the ones before it as they were.
LEMMA AppendFacts ==
    ASSUME NEW s, NEW e, IsSeq(s)
    PROVE  /\ IsSeq(Append(s, e))
           /\ Len(s) \in Nat
           /\ Len(Append(s, e)) = Len(s) + 1
           /\ \A a \in 1 .. Len(s) : Append(s, e)[a] = s[a]
           /\ Append(s, e)[Len(s) + 1] = e
<1>1. PICK S : s \in Seq(S) BY DEF IsSeq
<1> DEFINE T == S \union {e}
<1>2. s \in Seq(T) /\ e \in T
  <2>1. s \in [1 .. Len(s) -> S] /\ Len(s) \in Nat BY <1>1
  <2>2. s \in [1 .. Len(s) -> T] BY <2>1
  <2> QED BY <2>1, <2>2
<1> HIDE DEF T
<1>3. Append(s, e) \in Seq(T) BY <1>2
<1> QED BY <1>2, <1>3 DEF IsSeq

\* What a read of offset o of sector i of f shows, bytes past the end included.
Shown(f, i, o) == IF Pos(i, o) < files[f].size THEN Byte(f, i, o) ELSE 0

LEMMA ViewIsShown ==
    /\ View = [f \in Files |-> [i \in Sectors |-> [o \in Offsets |-> Shown(f, i, o)]]]
    /\ \A f \in Files, i \in Sectors, o \in Offsets : View[f][i][o] = Shown(f, i, o)
BY DEF View, Shown

\* Reads that show what they showed before make a view that is the same.
LEMMA SameView ==
    ASSUME \A f \in Files, i \in Sectors, o \in Offsets : Shown(f, i, o)' = Shown(f, i, o)
    PROVE  View' = View
<1>1. View' = [f \in Files |-> [i \in Sectors |-> [o \in Offsets |-> Shown(f, i, o)']]]
    BY ViewIsShown DEF View, Shown
<1>2. View = [f \in Files |-> [i \in Sectors |-> [o \in Offsets |-> Shown(f, i, o)]]]
    BY DEF View, Shown
<1> QED BY <1>1, <1>2

\* An extent staged is one that no file reads.
LEMMA OldExtentsKept ==
    ASSUME Inv, NEW e, disk' = Append(disk, e)
    PROVE  /\ IsSeq(disk') /\ Len(disk) \in Nat /\ Len(disk') = Len(disk) + 1
           /\ \A f \in Files, i \in Sectors :
                 files[f].map[i].addr # 0 =>
                    disk'[files[f].map[i].addr] = disk[files[f].map[i].addr]
<1>1. IsSeq(disk) BY DEF Inv
<1>2. Len(disk) \in Nat /\ \A a \in 1 .. Len(disk) : disk'[a] = disk[a]
    BY <1>1, AppendFacts
<1>3. \A f \in Files, i \in Sectors : files[f].map[i].addr \in 0 .. Len(disk)
    BY DEF Inv, MapsOK
<1> QED BY <1>1, <1>2, <1>3, AppendFacts

-----------------------------------------------------------------------------
(* The tool's steps keep the invariant and show nothing.                   *)

LEMMA QuietStep == Inv /\ Quiet => Inv' /\ View' = View /\ Meta' = Meta
BY DEF Inv, Quiet, FilesOK, MapsOK, TempOK, IsFile, IsMapping, View, Byte, Meta

LEMMA StagedStep == Inv /\ Staged => Inv' /\ View' = View /\ Meta' = Meta
<1> SUFFICES ASSUME Inv, Staged PROVE Inv' /\ View' = View /\ Meta' = Meta
    OBVIOUS
<1>1. PICK e : disk' = Append(disk, e) BY DEF Staged
<1>2. /\ IsSeq(disk') /\ Len(disk) \in Nat /\ Len(disk') = Len(disk) + 1
      /\ \A f \in Files, i \in Sectors :
            files[f].map[i].addr # 0 =>
               disk'[files[f].map[i].addr] = disk[files[f].map[i].addr]
    BY <1>1, OldExtentsKept
<1>3. files' = files /\ temp'.addr = Len(disk) + 1 BY DEF Staged
<1>4. FilesOK' BY <1>3 DEF Inv, FilesOK, IsFile
<1>5. MapsOK' BY <1>2, <1>3 DEF Inv, MapsOK, IsMapping
<1>6. TempOK' BY <1>2, <1>3 DEF TempOK
<1>7. View' = View
  <2> SUFFICES ASSUME NEW f \in Files, NEW i \in Sectors, NEW o \in Offsets
               PROVE  Shown(f, i, o)' = Shown(f, i, o)
      BY SameView
  <2> QED BY <1>2, <1>3 DEF Shown, Byte
<1>8. Meta' = Meta BY <1>3 DEF Meta
<1> QED BY <1>2, <1>4, <1>5, <1>6, <1>7, <1>8 DEF Inv

\* What pasting an item into a file does to the sectors of its map.
LEMMA PasteSectors ==
    ASSUME NEW map, NEW at, NEW n, NEW addr, NEW sec, NEW i \in Sectors
    PROVE  LET m == Paste(map, at, n, addr, sec)[i]
           IN  /\ IsMapping(m)
               /\ i \in at .. at + n - 1 => m.addr = addr /\ m.sec = sec + (i - at)
               /\ i \notin at .. at + n - 1 => m.addr = map[i].addr /\ m.sec = map[i].sec
<1>1. CASE i \in at .. at + n - 1 BY <1>1 DEF Paste, IsMapping
<1>2. CASE i \notin at .. at + n - 1 BY <1>2 DEF Paste, IsMapping
<1> QED BY <1>1, <1>2

LEMMA PasteIsMap ==
    ASSUME NEW map, NEW at, NEW n, NEW addr, NEW sec
    PROVE  Paste(map, at, n, addr, sec) =
              [i \in Sectors |-> Paste(map, at, n, addr, sec)[i]]
BY DEF Paste

LEMMA DedupedStep == Inv /\ Deduped => Inv' /\ View' = View /\ Meta' = Meta
<1> SUFFICES ASSUME Inv, Deduped PROVE Inv' /\ View' = View /\ Meta' = Meta
    OBVIOUS
<1>1. PICK f, c, n : Dedupe(f, c, n, temp) BY DEF Deduped
<1>2. UNCHANGED <<disk, temp>> /\ pc \in Deduping BY DEF Deduped
<1>3. temp.addr \in 1 .. Len(disk) BY <1>2 DEF Inv, TempOK
<1> DEFINE P == Paste(files[f].map, c.at, n, temp.addr, c.sec)
<1>4. files = [g \in Files |-> files[g]] /\ \A g \in Files : IsFile(files[g])
    BY DEF Inv, FilesOK
<1>5. files' = [files EXCEPT ![f].map = P] BY <1>1 DEF Dedupe
<1>6. CASE f \notin Files
  <2>1. files' = files BY <1>4, <1>5, <1>6
  <2> QED BY <1>2, <2>1 DEF Inv, FilesOK, MapsOK, TempOK, IsFile, IsMapping, View,
                             Byte, Meta
<1>7. CASE f \in Files
  <2>1. /\ files' = [g \in Files |-> files'[g]]
        /\ \A g \in Files : g # f => files'[g] = files[g]
        /\ files'[f] = [files[f] EXCEPT !.map = P]
      BY <1>4, <1>5, <1>7
  <2>2. \A i \in Sectors : IsMapping(files[f].map[i]) /\ files[f].map[i].addr \in 0 .. Len(disk)
      BY <1>7 DEF Inv, MapsOK
  <2>3. \A i \in Sectors :
           /\ IsMapping(P[i])
           /\ i \in c.at .. c.at + n - 1 => P[i].addr = temp.addr /\ P[i].sec = c.sec + (i - c.at)
           /\ i \notin c.at .. c.at + n - 1 =>
                 P[i].addr = files[f].map[i].addr /\ P[i].sec = files[f].map[i].sec
      BY PasteSectors
  <2>4. P = [i \in Sectors |-> P[i]] BY PasteIsMap
  <2> HIDE DEF P
  <2>5. /\ files'[f].link = files[f].link /\ files'[f].size = files[f].size
        /\ files'[f].mtime = files[f].mtime /\ files'[f].nocow = files[f].nocow
        /\ files'[f].map = P
      BY <2>1, <1>4, <1>7 DEF IsFile
  <2>6. IsFile(files[f])' BY <2>1, <2>4, <2>5, <1>4, <1>7 DEF IsFile
  <2>7. FilesOK' BY <2>1, <2>6, <1>4 DEF FilesOK, IsFile
  <2>8. MapsOK'
    <3> SUFFICES ASSUME NEW g \in Files, NEW i \in Sectors
                 PROVE  IsMapping(files'[g].map[i]) /\ files'[g].map[i].addr \in 0 .. Len(disk)
        BY <1>2 DEF MapsOK, IsMapping
    <3>1. CASE g = f BY <3>1, <2>2, <2>3, <2>5, <1>3
    <3>2. CASE g # f BY <3>2, <2>1 DEF Inv, MapsOK
    <3> QED BY <3>1, <3>2
  <2>9. TempOK' BY <1>2, <1>3 DEF TempOK
  <2>10. View' = View
    <3> SUFFICES ASSUME NEW g \in Files, NEW i \in Sectors, NEW o \in Offsets
                 PROVE  Shown(g, i, o)' = Shown(g, i, o)
        BY SameView
    <3>1. CASE g # f BY <3>1, <2>1, <1>2 DEF Shown, Byte
    <3>2. CASE g = f /\ i \notin c.at .. c.at + n - 1
        BY <3>2, <2>3, <2>5, <1>2 DEF Shown, Byte
    <3>3. CASE g = f /\ i \in c.at .. c.at + n - 1
      <4>1. Pos(i, o) < files[f].size =>
               Byte(f, i, o) = disk[temp.addr][c.sec + (i - c.at)][o]
          BY <1>1, <3>3 DEF Dedupe
      <4>2. Byte(f, i, o)' = disk[temp.addr][c.sec + (i - c.at)][o]
          BY <3>3, <2>3, <2>5, <1>2, <1>3 DEF Byte
      <4> QED BY <4>1, <4>2, <3>3, <2>5 DEF Shown
    <3> QED BY <3>1, <3>2, <3>3
  <2>11. Meta' = Meta BY <2>1, <2>5 DEF Meta
  <2> QED BY <2>7, <2>8, <2>9, <2>10, <2>11, <1>2 DEF Inv
<1> QED BY <1>6, <1>7

\* So the tool does nothing that a user could see.
LEMMA ToolInvisible == Inv /\ (ToolNext \/ Fault) => Inv' /\ View' = View /\ Meta' = Meta
BY ToolKinds, QuietStep, StagedStep, DedupedStep

-----------------------------------------------------------------------------
(* The users' steps keep the invariant, and each is one that UserView has. *)

\* A user changes one file, and at most adds an extent.
Changes(f) ==
    /\ files' = [g \in Files |-> files'[g]]
    /\ \A g \in Files : g # f => files'[g] = files[g]
    /\ IsFile(files[f])'
    /\ disk' = disk \/ \E e : disk' = Append(disk, e)
    /\ \A i \in Sectors : IsMapping(files[f].map[i])' /\ files'[f].map[i].addr \in 0 .. Len(disk')
    /\ UNCHANGED <<temp, pc>>

\* What such a change keeps.
LEMMA ChangesOne ==
    ASSUME Inv, NEW f \in Files, Changes(f)
    PROVE  /\ Inv'
           /\ View' = [View EXCEPT ![f] = View'[f]]
           /\ Meta' = [Meta EXCEPT ![f] = Meta'[f]]
<1>1. /\ IsSeq(disk') /\ Len(disk) \in Nat /\ Len(disk) <= Len(disk')
      /\ \A g \in Files, i \in Sectors :
            files[g].map[i].addr # 0 =>
               disk'[files[g].map[i].addr] = disk[files[g].map[i].addr]
  <2>1. IsSeq(disk) BY DEF Inv
  <2>2. CASE disk' = disk
    <3>1. Len(disk) \in Nat BY <2>1, AppendFacts
    <3> QED BY <2>1, <2>2, <3>1 DEF IsSeq
  <2>3. CASE \E e : disk' = Append(disk, e)
    <3>1. PICK e : disk' = Append(disk, e) BY <2>3
    <3>2. /\ IsSeq(disk') /\ Len(disk) \in Nat /\ Len(disk') = Len(disk) + 1
          /\ \A g \in Files, i \in Sectors :
                files[g].map[i].addr # 0 =>
                   disk'[files[g].map[i].addr] = disk[files[g].map[i].addr]
        BY <3>1, OldExtentsKept
    <3> QED BY <3>2
  <2> QED BY <2>2, <2>3 DEF Changes
<1>2. /\ files' = [g \in Files |-> files'[g]]
      /\ \A g \in Files : g # f => files'[g] = files[g]
      /\ IsFile(files'[f])
      /\ \A i \in Sectors : IsMapping(files'[f].map[i]) /\ files'[f].map[i].addr \in 0 .. Len(disk')
    BY DEF Changes, IsFile, IsMapping
<1>3. FilesOK'
  <2>1. \A g \in Files : IsFile(files'[g]) BY <1>2 DEF Inv, FilesOK
  <2> QED BY <1>2, <2>1 DEF FilesOK, IsFile
<1>4. MapsOK'
  <2>1. \A g \in Files, i \in Sectors :
           IsMapping(files'[g].map[i]) /\ files'[g].map[i].addr \in 0 .. Len(disk')
    <3> SUFFICES ASSUME NEW g \in Files, NEW i \in Sectors
                 PROVE  IsMapping(files'[g].map[i]) /\ files'[g].map[i].addr \in 0 .. Len(disk')
        OBVIOUS
    <3>1. CASE g = f BY <3>1, <1>2
    <3>2. CASE g # f
      <4>1. IsMapping(files[g].map[i]) /\ files[g].map[i].addr \in 0 .. Len(disk)
          BY DEF Inv, MapsOK
      <4>2. Len(disk') \in Nat BY <1>1, AppendFacts
      <4> QED BY <4>1, <4>2, <3>2, <1>1, <1>2
    <3> QED BY <3>1, <3>2
  <2> QED BY <2>1 DEF MapsOK, IsMapping
<1>5. TempOK'
  <2>1. Len(disk') \in Nat BY <1>1, AppendFacts
  <2> QED BY <2>1, <1>1 DEF Changes, Inv, TempOK
<1>6. \A g \in Files, i \in Sectors, o \in Offsets :
         g # f => Shown(g, i, o)' = Shown(g, i, o)
  <2> SUFFICES ASSUME NEW g \in Files, NEW i \in Sectors, NEW o \in Offsets, g # f
               PROVE  Shown(g, i, o)' = Shown(g, i, o)
      OBVIOUS
  <2>1. files'[g] = files[g] BY <1>2
  <2>2. Byte(g, i, o)' = Byte(g, i, o)
    <3>1. CASE files[g].map[i].addr = 0 BY <2>1, <3>1 DEF Byte
    <3>2. CASE files[g].map[i].addr # 0
      <4>1. disk'[files[g].map[i].addr] = disk[files[g].map[i].addr] BY <1>1, <3>2
      <4> QED BY <2>1, <4>1 DEF Byte
    <3> QED BY <3>1, <3>2
  <2> QED BY <2>1, <2>2 DEF Shown
<1>7. View' = [View EXCEPT ![f] = View'[f]]
  <2>1. View' = [g \in Files |-> View'[g]] BY DEF View
  <2>2. \A g \in Files : g # f => View'[g] = View[g]
    <3> SUFFICES ASSUME NEW g \in Files, g # f PROVE View'[g] = View[g] OBVIOUS
    <3>1. View'[g] = [i \in Sectors |-> [o \in Offsets |-> Shown(g, i, o)']]
        BY DEF View, Shown
    <3>2. View[g] = [i \in Sectors |-> [o \in Offsets |-> Shown(g, i, o)]]
        BY DEF View, Shown
    <3> QED BY <3>1, <3>2, <1>6
  <2>3. View = [g \in Files |-> View[g]] BY DEF View
  <2> QED BY <2>1, <2>2, <2>3
<1>8. Meta' = [Meta EXCEPT ![f] = Meta'[f]] BY <1>2 DEF Meta
<1> QED BY <1>1, <1>3, <1>4, <1>5, <1>7, <1>8 DEF Inv

\* A user's change may move the mtime and sets the size.
LEMMA TouchedMeta ==
    ASSUME NEW f \in Files, NEW t \in Ticks(f), NEW z,
           Meta'[f] = [link |-> files[f].link, size |-> z, mtime |-> t]
    PROVE  Meta'[f] \in UV!Touched(Meta[f], z)
<1>1. Meta[f] = [link |-> files[f].link, size |-> files[f].size, mtime |-> files[f].mtime]
    BY DEF Meta
<1> QED BY <1>1 DEF Ticks, UV!Touched

\* Every file is as the invariant says.
LEMMA FileShape ==
    ASSUME Inv, NEW f \in Files
    PROVE  /\ IsFile(files[f])
           /\ files = [g \in Files |-> files[g]]
           /\ \A i \in Sectors : /\ IsMapping(files[f].map[i])
                                 /\ files[f].map[i].addr \in 0 .. Len(disk)
           /\ Len(disk) \in Nat
BY AppendFacts DEF Inv, FilesOK, MapsOK

\* A view that differs from another in one byte.
LEMMA OneByte ==
    ASSUME NEW f \in Files, NEW i \in Sectors, NEW o \in Offsets, NEW b,
           View' = [View EXCEPT ![f] = View'[f]],
           \A j \in Sectors, x \in Offsets :
              Shown(f, j, x)' = IF j = i /\ x = o THEN b ELSE Shown(f, j, x)
    PROVE  View' = [View EXCEPT ![f][i][o] = b]
<1>1. View'[f] = [j \in Sectors |-> [x \in Offsets |-> Shown(f, j, x)']]
    BY DEF View, Shown
<1>2. View[f] = [j \in Sectors |-> [x \in Offsets |-> Shown(f, j, x)]]
    BY DEF View, Shown
<1>3. View'[f][i] = [View[f][i] EXCEPT ![o] = b] BY <1>1, <1>2
<1>4. \A j \in Sectors : j # i => View'[f][j] = View[f][j] BY <1>1, <1>2
<1>5. View'[f] = [View[f] EXCEPT ![i] = [View[f][i] EXCEPT ![o] = b]]
    BY <1>1, <1>2, <1>3, <1>4
<1> QED BY <1>5

\* A file with a new item of one sector, in a new extent, at sector i.
LEMMA NewSector ==
    ASSUME Inv, NEW f \in Files, NEW i \in Sectors, NEW e,
           disk' = Append(disk, e),
           files'[f].map = Paste(files[f].map, i, 1, Len(disk) + 1, 0)
    PROVE  /\ files'[f].map = [j \in Sectors |-> files'[f].map[j]]
           /\ \A j \in Sectors : /\ IsMapping(files'[f].map[j])
                                 /\ files'[f].map[j].addr \in 0 .. Len(disk')
           /\ \A x : Byte(f, i, x)' = e[0][x]
           /\ \A j \in Sectors, x \in Offsets : j # i => Byte(f, j, x)' = Byte(f, j, x)
<1> DEFINE P == Paste(files[f].map, i, 1, Len(disk) + 1, 0)
<1>1. P = [j \in Sectors |-> P[j]] BY PasteIsMap
<1>2. \A j \in Sectors :
         /\ IsMapping(P[j])
         /\ j \in i .. i + 1 - 1 => P[j].addr = Len(disk) + 1 /\ P[j].sec = 0 + (j - i)
         /\ j \notin i .. i + 1 - 1 =>
               P[j].addr = files[f].map[j].addr /\ P[j].sec = files[f].map[j].sec
    BY PasteSectors
<1> HIDE DEF P
<1>3. /\ P[i].addr = Len(disk) + 1 /\ P[i].sec = 0
      /\ \A j \in Sectors : j # i => P[j].addr = files[f].map[j].addr
                                     /\ P[j].sec = files[f].map[j].sec
    BY <1>2 DEF Sectors
<1>4. files'[f].map = P BY DEF P
<1>5. Len(disk) \in Nat /\ Len(disk') = Len(disk) + 1 /\ disk'[Len(disk) + 1] = e
    BY AppendFacts DEF Inv
<1>6. \A j \in Sectors : /\ files[f].map[j].addr \in 0 .. Len(disk)
                         /\ files[f].map[j].addr # 0 =>
                              disk'[files[f].map[j].addr] = disk[files[f].map[j].addr]
    BY OldExtentsKept DEF Inv, MapsOK
<1>7. \A j \in Sectors : IsMapping(P[j]) /\ P[j].addr \in 0 .. Len(disk')
  <2> SUFFICES ASSUME NEW j \in Sectors PROVE P[j].addr \in 0 .. Len(disk')
      BY <1>2
  <2>1. CASE j = i BY <2>1, <1>3, <1>5
  <2>2. CASE j # i
    <3>1. P[j].addr = files[f].map[j].addr BY <2>2, <1>3
    <3> QED BY <3>1, <1>5, <1>6
  <2> QED BY <2>1, <2>2
<1>8. \A x : Byte(f, i, x)' = e[0][x] BY <1>3, <1>4, <1>5 DEF Byte
<1>9. \A j \in Sectors, x \in Offsets : j # i => Byte(f, j, x)' = Byte(f, j, x)
    BY <1>3, <1>4, <1>6 DEF Byte
<1> QED BY <1>1, <1>4, <1>7, <1>8, <1>9

\* A file whose size, mtime and map may have changed, over a disk that did or
\* did not grow.
Rewrites(f, n, t) ==
    /\ files' = [g \in Files |-> files'[g]]
    /\ \A g \in Files : g # f => files'[g] = files[g]
    /\ files'[f] = [link |-> files[f].link, size |-> n, mtime |-> t,
                    nocow |-> files[f].nocow, map |-> files'[f].map]
    /\ files'[f].map = [i \in Sectors |-> files'[f].map[i]]
    /\ \A i \in Sectors : IsMapping(files'[f].map[i]) /\ files'[f].map[i].addr \in 0 .. Len(disk')
    /\ disk' = disk \/ \E e : disk' = Append(disk, e)

LEMMA RewritesOne ==
    ASSUME Inv, UNCHANGED tool, NEW f \in Files, NEW n \in Sizes, NEW t \in Ticks(f),
           Rewrites(f, n, t)
    PROVE  /\ Inv'
           /\ View' = [View EXCEPT ![f] = View'[f]]
           /\ Meta' = [Meta EXCEPT ![f] = Meta'[f]]
           /\ Meta'[f] \in UV!Touched(Meta[f], n)
           /\ files'[f].size = n
<1>1. IsFile(files[f]) BY FileShape
<1>2. /\ files' = [g \in Files |-> files'[g]]
      /\ \A g \in Files : g # f => files'[g] = files[g]
      /\ files'[f] = [link |-> files[f].link, size |-> n, mtime |-> t,
                      nocow |-> files[f].nocow, map |-> files'[f].map]
      /\ files'[f].map = [i \in Sectors |-> files'[f].map[i]]
    BY DEF Rewrites
<1>3. t \in Nat BY <1>1 DEF Ticks, IsFile
<1>4. IsFile(files'[f])
  <2>1. files'[f] = [link |-> files'[f].link, size |-> files'[f].size,
           mtime |-> files'[f].mtime, nocow |-> files'[f].nocow, map |-> files'[f].map]
      BY <1>2
  <2>2. files'[f].link \in Nat /\ files'[f].size \in Sizes /\ files'[f].mtime \in Nat
      BY <1>1, <1>2, <1>3 DEF IsFile
  <2> QED BY <2>1, <2>2, <1>2 DEF IsFile
<1>5. UNCHANGED <<temp, pc>> BY DEF tool
<1>6. Changes(f) BY <1>4, <1>5 DEF Rewrites, Changes, IsFile, IsMapping
<1>7. Meta'[f] = [link |-> files[f].link, size |-> n, mtime |-> t]
  <2>1. Meta'[f] = [link |-> files'[f].link, size |-> files'[f].size, mtime |-> files'[f].mtime]
      BY DEF Meta
  <2>2. files'[f].link = files[f].link /\ files'[f].size = n /\ files'[f].mtime = t
      BY <1>2
  <2> QED BY <2>1, <2>2
<1> QED BY <1>2, <1>6, <1>7, ChangesOne, TouchedMeta

LEMMA WriteStep ==
    ASSUME Inv, UNCHANGED tool,
           NEW f \in Files, NEW i \in Sectors, NEW o \in Offsets, NEW b,
           UserWrite(f, i, o, b)
    PROVE  Inv' /\ UV!Write(f, i, o, b)
<1> DEFINE e == [s \in {0} |-> [x \in Offsets |->
          IF x = o THEN b ELSE IF Pos(i, x) < files[f].size THEN Byte(f, i, x) ELSE 0]]
           P == Paste(files[f].map, i, 1, Len(disk) + 1, 0)
<1>1. disk' = Append(disk, e) BY DEF UserWrite
<1>2. PICK t \in Ticks(f) : files' = [files EXCEPT ![f].map = P, ![f].mtime = t]
    BY DEF UserWrite
<1>3. /\ IsFile(files[f]) /\ files = [g \in Files |-> files[g]] BY FileShape
<1>4. /\ files' = [g \in Files |-> files'[g]]
      /\ \A g \in Files : g # f => files'[g] = files[g]
      /\ files'[f] = [link |-> files[f].link, size |-> files[f].size, mtime |-> t,
                      nocow |-> files[f].nocow, map |-> P]
  <2> HIDE DEF P
  <2> QED BY <1>2, <1>3 DEF IsFile
<1>5. files'[f].map = P BY <1>4
<1>6. /\ files'[f].map = [j \in Sectors |-> files'[f].map[j]]
      /\ \A j \in Sectors : /\ IsMapping(files'[f].map[j])
                            /\ files'[f].map[j].addr \in 0 .. Len(disk')
      /\ \A x : Byte(f, i, x)' = e[0][x]
      /\ \A j \in Sectors, x \in Offsets : j # i => Byte(f, j, x)' = Byte(f, j, x)
  <2> HIDE DEF e
  <2> QED BY <1>1, <1>5, NewSector
<1> HIDE DEF P
<1>7. files[f].size \in Sizes BY <1>3 DEF IsFile
<1>8. Rewrites(f, files[f].size, t)
  <2> HIDE DEF e
  <2> QED BY <1>1, <1>4, <1>5, <1>6 DEF Rewrites
<1>9. /\ Inv' /\ View' = [View EXCEPT ![f] = View'[f]]
      /\ Meta' = [Meta EXCEPT ![f] = Meta'[f]]
      /\ Meta'[f] \in UV!Touched(Meta[f], files[f].size)
    BY <1>7, <1>8, RewritesOne
<1>10. Pos(i, o) < files[f].size BY DEF UserWrite
<1>11. \A j \in Sectors, x \in Offsets :
          Shown(f, j, x)' = IF j = i /\ x = o THEN b ELSE Shown(f, j, x)
  <2> SUFFICES ASSUME NEW j \in Sectors, NEW x \in Offsets
               PROVE  Shown(f, j, x)' = IF j = i /\ x = o THEN b ELSE Shown(f, j, x)
      OBVIOUS
  <2>1. files'[f].size = files[f].size BY <1>4
  <2>2. e[0][x] = IF x = o THEN b ELSE IF Pos(i, x) < files[f].size THEN Byte(f, i, x) ELSE 0
      OBVIOUS
  <2> HIDE DEF e
  <2>3. CASE j = i BY <2>1, <2>2, <2>3, <1>6, <1>10 DEF Shown
  <2>4. CASE j # i BY <2>1, <2>4, <1>6 DEF Shown
  <2> QED BY <2>3, <2>4
<1>12. View' = [View EXCEPT ![f][i][o] = b] BY <1>9, <1>11, OneByte
<1>13. Meta[f].size = files[f].size BY DEF Meta
<1>14. UV!Pos(i, o) < Meta[f].size BY <1>10, <1>13 DEF Pos, UV!Pos
<1> QED BY <1>9, <1>12, <1>13, <1>14 DEF UV!Write

\* Byte offsets follow the order of sectors.
LEMMA PosFacts ==
    /\ \A i \in Sectors, o \in Offsets :
          /\ Pos(i, o) \in Nat /\ Pos(i, 0) \in Nat /\ Pos(i + 1, 0) \in Nat
          /\ Pos(i, 0) <= Pos(i, o) /\ Pos(i, o) < Pos(i + 1, 0)
    /\ \A i \in Sectors, j \in Sectors : i < j => Pos(i + 1, 0) <= Pos(j, 0)
<1>1. MaxSectors \in Nat /\ SectorSize \in Nat BY BtrfsAssumption
<1>2. \A i \in Nat : /\ i * SectorSize \in Nat
                     /\ (i + 1) * SectorSize = i * SectorSize + SectorSize
    BY <1>1
<1>3. \A i \in Nat, j \in Nat : i < j => (i + 1) * SectorSize <= j * SectorSize
    BY <1>1
<1> QED BY <1>1, <1>2, <1>3 DEF Pos, Sectors, Offsets

\* A view cut at byte n of file f.
LEMMA CutView ==
    ASSUME NEW f \in Files, NEW n,
           View' = [View EXCEPT ![f] = View'[f]],
           \A i \in Sectors, o \in Offsets :
              Shown(f, i, o)' = IF Pos(i, o) < n THEN Shown(f, i, o) ELSE 0
    PROVE  View' = [View EXCEPT ![f] =
                      [i \in Sectors |-> [o \in Offsets |->
                         IF Pos(i, o) < n THEN View[f][i][o] ELSE 0]]]
<1>1. View'[f] = [i \in Sectors |-> [o \in Offsets |-> Shown(f, i, o)']]
    BY DEF View, Shown
<1>2. \A i \in Sectors, o \in Offsets : View[f][i][o] = Shown(f, i, o)
    BY ViewIsShown
<1>3. View'[f] = [i \in Sectors |-> [o \in Offsets |->
                    IF Pos(i, o) < n THEN View[f][i][o] ELSE 0]]
    BY <1>1, <1>2
<1> QED BY <1>3

LEMMA ShrinkStep ==
    ASSUME Inv, UNCHANGED tool, NEW f \in Files, NEW n \in Sizes, UserShrink(f, n)
    PROVE  Inv' /\ UV!Truncate(f, n)
<1> DEFINE P == [i \in Sectors |-> IF Pos(i, 0) >= n THEN Hole ELSE files[f].map[i]]
<1>1. PICK t \in Ticks(f) : files' = [files EXCEPT ![f].size = n, ![f].mtime = t, ![f].map = P]
    BY DEF UserShrink
<1>2. disk' = disk /\ n < files[f].size BY DEF UserShrink
<1>3. /\ IsFile(files[f]) /\ Len(disk) \in Nat
      /\ \A i \in Sectors : IsMapping(files[f].map[i]) /\ files[f].map[i].addr \in 0 .. Len(disk)
    BY FileShape
<1>4. \A i \in Sectors : IsMapping(P[i]) /\ P[i].addr \in 0 .. Len(disk')
  <2> SUFFICES ASSUME NEW i \in Sectors PROVE IsMapping(P[i]) /\ P[i].addr \in 0 .. Len(disk')
      OBVIOUS
  <2>1. IsMapping(Hole) /\ Hole.addr = 0 BY DEF Hole, IsMapping
  <2>2. P[i] = Hole \/ P[i] = files[f].map[i] OBVIOUS
  <2> QED BY <2>1, <2>2, <1>2, <1>3
<1>5. P = [i \in Sectors |-> P[i]] OBVIOUS
<1>6. \A i \in Sectors : P[i] = IF Pos(i, 0) >= n THEN Hole ELSE files[f].map[i] OBVIOUS
<1> HIDE DEF P
<1>7. /\ Inv' /\ View' = [View EXCEPT ![f] = View'[f]]
      /\ Meta' = [Meta EXCEPT ![f] = Meta'[f]] /\ Meta'[f] \in UV!Touched(Meta[f], n)
      /\ files'[f].size = n /\ files'[f].map = P
  <2>1. files = [g \in Files |-> files[g]] BY FileShape
  <2>2. /\ files' = [g \in Files |-> files'[g]]
        /\ \A g \in Files : g # f => files'[g] = files[g]
        /\ files'[f] = [link |-> files[f].link, size |-> n, mtime |-> t,
                        nocow |-> files[f].nocow, map |-> P]
      BY <2>1, <1>1, <1>3 DEF IsFile
  <2>3. files'[f].map = P BY <2>2
  <2>4. Rewrites(f, n, t) BY <2>2, <2>3, <1>2, <1>4, <1>5 DEF Rewrites
  <2> QED BY <2>3, <2>4, RewritesOne
<1>8. n \in Nat /\ files[f].size \in Nat
  <2>1. Pos(MaxSectors, 0) \in Nat BY BtrfsAssumption DEF Pos
  <2> QED BY <2>1, <1>3 DEF Sizes, IsFile
<1>9. \A i \in Sectors, o \in Offsets :
         Shown(f, i, o)' = IF Pos(i, o) < n THEN Shown(f, i, o) ELSE 0
  <2> SUFFICES ASSUME NEW i \in Sectors, NEW o \in Offsets
               PROVE  Shown(f, i, o)' = IF Pos(i, o) < n THEN Shown(f, i, o) ELSE 0
      OBVIOUS
  <2>1. CASE Pos(i, o) < n
    <3>1. Pos(i, o) < files[f].size /\ ~(Pos(i, 0) >= n) BY <2>1, <1>2, <1>8, PosFacts
    <3>2. files'[f].map[i] = files[f].map[i] BY <3>1, <1>6, <1>7
    <3> QED BY <3>1, <3>2, <2>1, <1>2, <1>7 DEF Shown, Byte
  <2>2. CASE ~(Pos(i, o) < n) BY <2>2, <1>7 DEF Shown
  <2> QED BY <2>1, <2>2
<1>10. UV!Exists(f) /\ n # Meta[f].size
    BY <1>2, <1>8 DEF UV!Exists, Meta
<1>11. View' = [View EXCEPT ![f] = [i \in Sectors |-> [o \in Offsets |->
                  IF Pos(i, o) < n THEN View[f][i][o] ELSE 0]]]
    BY <1>7, <1>9, CutView
<1> QED BY <1>7, <1>10, <1>11
        DEF UV!Truncate, UV!Sectors, UV!Offsets, UV!Pos, Sectors, Offsets, Pos

LEMMA GrowStep ==
    ASSUME Inv, UNCHANGED tool, NEW f \in Files, NEW n \in Sizes, UserGrow(f, n)
    PROVE  Inv' /\ UV!Truncate(f, n)
<1> DEFINE size == files[f].size
           part(i) == Pos(i, 0) < size /\ size < Pos(i + 1, 0)
<1>1. /\ Exists(f) /\ n > size
      /\ \A i \in Sectors : Pos(i, 0) >= size => files[f].map[i].addr = 0
    BY DEF UserGrow
<1>2. /\ IsFile(files[f]) /\ files = [g \in Files |-> files[g]] /\ Len(disk) \in Nat
      /\ \A i \in Sectors : IsMapping(files[f].map[i]) /\ files[f].map[i].addr \in 0 .. Len(disk)
    BY FileShape
<1>3. n \in Nat /\ size \in Nat
  <2>1. Pos(MaxSectors, 0) \in Nat BY BtrfsAssumption DEF Pos
  <2> QED BY <2>1, <1>2 DEF Sizes, IsFile
<1>4. UV!Exists(f) /\ n # Meta[f].size
    BY <1>1, <1>3 DEF UV!Exists, Exists, Meta
<1>5. ASSUME NEW t \in Ticks(f), Rewrites(f, n, t),
             \A i \in Sectors, o \in Offsets :
                Pos(i, o) < n => Byte(f, i, o)' = Shown(f, i, o)
      PROVE  Inv' /\ UV!Truncate(f, n)
  <2>1. /\ Inv' /\ View' = [View EXCEPT ![f] = View'[f]]
        /\ Meta' = [Meta EXCEPT ![f] = Meta'[f]] /\ Meta'[f] \in UV!Touched(Meta[f], n)
        /\ files'[f].size = n
      BY <1>5, RewritesOne
  <2>2. \A i \in Sectors, o \in Offsets :
           Shown(f, i, o)' = IF Pos(i, o) < n THEN Shown(f, i, o) ELSE 0
      BY <1>5, <2>1 DEF Shown
  <2>3. View' = [View EXCEPT ![f] = [i \in Sectors |-> [o \in Offsets |->
                    IF Pos(i, o) < n THEN View[f][i][o] ELSE 0]]]
      BY <2>1, <2>2, CutView
  <2> QED BY <2>1, <2>3, <1>4
          DEF UV!Truncate, UV!Sectors, UV!Offsets, UV!Pos, Sectors, Offsets, Pos
<1>6. ASSUME NEW i \in Sectors, NEW o \in Offsets, ~part(i)
      PROVE  Byte(f, i, o) = Shown(f, i, o)
  <2>1. CASE Pos(i, o) < size BY <2>1 DEF Shown
  <2>2. CASE ~(Pos(i, o) < size)
    <3>1. Pos(i, 0) >= size BY <2>2, <1>3, <1>6, PosFacts
    <3> QED BY <3>1, <2>2, <1>1 DEF Byte, Shown
  <2> QED BY <2>1, <2>2
<1>7. ASSUME NEW t \in Ticks(f), \A i \in Sectors : ~part(i), disk' = disk,
             files' = [files EXCEPT ![f].size = n, ![f].mtime = t]
      PROVE  Inv' /\ UV!Truncate(f, n)
  <2>1. /\ files' = [g \in Files |-> files'[g]]
        /\ \A g \in Files : g # f => files'[g] = files[g]
        /\ files'[f] = [link |-> files[f].link, size |-> n, mtime |-> t,
                        nocow |-> files[f].nocow, map |-> files[f].map]
      BY <1>2, <1>7 DEF IsFile
  <2>2. files'[f].map = files[f].map BY <2>1
  <2>3. Rewrites(f, n, t) BY <2>1, <2>2, <1>2, <1>7 DEF Rewrites, IsFile
  <2>4. \A i \in Sectors, o \in Offsets : Byte(f, i, o)' = Byte(f, i, o)
      BY <2>2, <1>7 DEF Byte
  <2> QED BY <2>3, <2>4, <1>5, <1>6, <1>7
<1>8. ASSUME NEW t \in Ticks(f), NEW i \in Sectors, part(i),
             disk' = Append(disk, [s \in {0} |-> [o \in Offsets |->
                        IF Pos(i, o) < size THEN Byte(f, i, o) ELSE 0]]),
             files' = [files EXCEPT ![f].size = n, ![f].mtime = t,
                         ![f].map = Paste(@, i, 1, Len(disk) + 1, 0)]
      PROVE  Inv' /\ UV!Truncate(f, n)
  <2> DEFINE P == Paste(files[f].map, i, 1, Len(disk) + 1, 0)
             e == [s \in {0} |-> [o \in Offsets |->
                     IF Pos(i, o) < size THEN Byte(f, i, o) ELSE 0]]
  <2>1. files' = [files EXCEPT ![f].size = n, ![f].mtime = t, ![f].map = P] BY <1>8
  <2>2. disk' = Append(disk, e) BY <1>8
  <2>3. \A o \in Offsets : e[0][o] = Shown(f, i, o) BY DEF Shown
  <2> HIDE DEF e
  <2>4. /\ files' = [g \in Files |-> files'[g]]
        /\ \A g \in Files : g # f => files'[g] = files[g]
        /\ files'[f] = [link |-> files[f].link, size |-> n, mtime |-> t,
                        nocow |-> files[f].nocow, map |-> P]
    <3> HIDE DEF P
    <3> QED BY <2>1, <1>2 DEF IsFile
  <2>5. files'[f].map = P BY <2>4
  <2>6. /\ files'[f].map = [j \in Sectors |-> files'[f].map[j]]
        /\ \A j \in Sectors : /\ IsMapping(files'[f].map[j])
                              /\ files'[f].map[j].addr \in 0 .. Len(disk')
        /\ \A x : Byte(f, i, x)' = e[0][x]
        /\ \A j \in Sectors, x \in Offsets : j # i => Byte(f, j, x)' = Byte(f, j, x)
      BY <2>2, <2>5, NewSector
  <2> HIDE DEF P
  <2>7. Rewrites(f, n, t) BY <2>2, <2>4, <2>5, <2>6 DEF Rewrites
  <2>8. \A j \in Sectors : j # i => ~part(j)
    <3> SUFFICES ASSUME NEW j \in Sectors, j # i, part(j) PROVE FALSE OBVIOUS
    <3>1. i \in Int /\ j \in Int BY DEF Sectors
    <3>2. 0 \in Offsets BY BtrfsAssumption DEF Offsets
    <3>3. /\ Pos(i, 0) \in Nat /\ Pos(i + 1, 0) \in Nat
          /\ Pos(j, 0) \in Nat /\ Pos(j + 1, 0) \in Nat
        BY <3>2, PosFacts
    <3>4. CASE i < j BY <3>3, <3>4, <1>3, <1>8, PosFacts
    <3>5. CASE j < i BY <3>3, <3>5, <1>3, <1>8, PosFacts
    <3> QED BY <3>1, <3>4, <3>5
  <2>9. \A j \in Sectors, x \in Offsets : Byte(f, j, x)' = Shown(f, j, x)
      BY <2>3, <2>6, <2>8, <1>6
  <2> QED BY <2>7, <2>9, <1>5
<1> QED BY <1>7, <1>8 DEF UserGrow

LEMMA CloneStep ==
    ASSUME Inv, UNCHANGED tool, NEW f \in Files, NEW g \in Files, UserClone(f, g)
    PROVE  Inv' /\ UV!Clone(f, g)
<1>1. f # g /\ Exists(f) /\ Exists(g) /\ disk' = disk BY DEF UserClone
<1>2. PICK t \in Ticks(g) :
         files' = [files EXCEPT ![g].size = files[f].size, ![g].mtime = t,
                                ![g].map = files[f].map]
    BY DEF UserClone
<1>3. /\ IsFile(files[f]) /\ IsFile(files[g]) /\ files = [h \in Files |-> files[h]]
      /\ Len(disk) \in Nat
      /\ \A i \in Sectors : IsMapping(files[f].map[i]) /\ files[f].map[i].addr \in 0 .. Len(disk)
    BY FileShape
<1>4. /\ files' = [h \in Files |-> files'[h]]
      /\ \A h \in Files : h # g => files'[h] = files[h]
      /\ files'[g] = [link |-> files[g].link, size |-> files[f].size, mtime |-> t,
                      nocow |-> files[g].nocow, map |-> files[f].map]
    BY <1>2, <1>3 DEF IsFile
<1>5. files'[g].map = files[f].map BY <1>4
<1>6. Rewrites(g, files[f].size, t) BY <1>1, <1>3, <1>4, <1>5 DEF Rewrites, IsFile
<1>7. files[f].size \in Sizes BY <1>3 DEF IsFile
<1>8. /\ Inv' /\ View' = [View EXCEPT ![g] = View'[g]]
      /\ Meta' = [Meta EXCEPT ![g] = Meta'[g]]
      /\ Meta'[g] \in UV!Touched(Meta[g], files[f].size)
      /\ files'[g].size = files[f].size
    BY <1>6, <1>7, RewritesOne
<1>9. View'[g] = View[f]
  <2>1. \A i \in Sectors, o \in Offsets : Shown(g, i, o)' = Shown(f, i, o)
      BY <1>1, <1>5, <1>8 DEF Shown, Byte
  <2>2. View'[g] = [i \in Sectors |-> [o \in Offsets |-> Shown(g, i, o)']]
      BY DEF View, Shown
  <2>3. View[f] = [i \in Sectors |-> [o \in Offsets |-> Shown(f, i, o)]]
      BY DEF View, Shown
  <2> QED BY <2>1, <2>2, <2>3
<1>10. UV!Exists(f) /\ UV!Exists(g) /\ Meta[f].size = files[f].size
    BY <1>1 DEF UV!Exists, Exists, Meta
<1> QED BY <1>1, <1>8, <1>9, <1>10 DEF UV!Clone

\* A rename or an unlink: only the path changes.
LEMMA LinkStep ==
    ASSUME Inv, UNCHANGED tool, NEW f \in Files, NEW l \in Nat, disk' = disk,
           files' = [files EXCEPT ![f].link = l]
    PROVE  Inv' /\ View' = View /\ Meta' = [Meta EXCEPT ![f].link = l]
<1>1. /\ IsFile(files[f]) /\ files = [g \in Files |-> files[g]]
      /\ \A i \in Sectors : IsMapping(files[f].map[i]) /\ files[f].map[i].addr \in 0 .. Len(disk)
    BY FileShape
<1>2. /\ files' = [g \in Files |-> files'[g]]
      /\ \A g \in Files : g # f => files'[g] = files[g]
      /\ files'[f] = [link |-> l, size |-> files[f].size, mtime |-> files[f].mtime,
                      nocow |-> files[f].nocow, map |-> files[f].map]
    BY <1>1 DEF IsFile
<1>3. /\ files'[f].link = l /\ files'[f].size = files[f].size
      /\ files'[f].mtime = files[f].mtime /\ files'[f].nocow = files[f].nocow
      /\ files'[f].map = files[f].map
    BY <1>2
<1>4. IsFile(files'[f]) BY <1>1, <1>2, <1>3 DEF IsFile
<1>5. UNCHANGED <<temp, pc>> BY DEF tool
<1>6. Changes(f) BY <1>1, <1>2, <1>3, <1>4, <1>5 DEF Changes, IsFile, IsMapping
<1>7. Inv' /\ Meta' = [Meta EXCEPT ![f] = Meta'[f]] BY <1>6, ChangesOne
<1>8. \A g \in Files, i \in Sectors, o \in Offsets : Shown(g, i, o)' = Shown(g, i, o)
  <2>1. \A g \in Files : files'[g].map = files[g].map /\ files'[g].size = files[g].size
      BY <1>2, <1>3
  <2> QED BY <2>1 DEF Shown, Byte
<1>9. Meta'[f] = [Meta[f] EXCEPT !.link = l]
  <2>1. Meta'[f] = [link |-> files'[f].link, size |-> files'[f].size, mtime |-> files'[f].mtime]
      BY DEF Meta
  <2>2. Meta[f] = [link |-> files[f].link, size |-> files[f].size, mtime |-> files[f].mtime]
      BY DEF Meta
  <2> QED BY <2>1, <2>2, <1>3
<1> QED BY <1>7, <1>8, <1>9, SameView

LEMMA RenameStep ==
    ASSUME Inv, UNCHANGED tool, NEW f \in Files, UserRename(f)
    PROVE  Inv' /\ UV!Rename(f)
<1>1. files[f].link \in Nat BY FileShape DEF IsFile
<1>2. Meta[f].link = files[f].link BY DEF Meta
<1>3. /\ files[f].link > 0 /\ disk' = disk
      /\ files' = [files EXCEPT ![f].link = files[f].link + 1]
    BY DEF UserRename
<1>4. Inv' /\ View' = View /\ Meta' = [Meta EXCEPT ![f].link = files[f].link + 1]
  <2>1. PICK l \in Nat : l = files[f].link + 1 BY <1>1
  <2>2. files' = [files EXCEPT ![f].link = l] BY <2>1, <1>3
  <2>3. Inv' /\ View' = View /\ Meta' = [Meta EXCEPT ![f].link = l]
      BY <2>2, <1>3, LinkStep
  <2> QED BY <2>1, <2>3
<1> QED BY <1>2, <1>3, <1>4 DEF UV!Rename

LEMMA UnlinkStep ==
    ASSUME Inv, UNCHANGED tool, NEW f \in Files, UserUnlink(f)
    PROVE  Inv' /\ UV!Unlink(f)
<1>1. Meta[f].link = files[f].link BY DEF Meta
<1>2. files[f].link > 0 /\ disk' = disk /\ files' = [files EXCEPT ![f].link = 0]
    BY DEF UserUnlink
<1>3. Inv' /\ View' = View /\ Meta' = [Meta EXCEPT ![f].link = 0]
    BY <1>2, LinkStep
<1> QED BY <1>1, <1>2, <1>3 DEF UV!Unlink

LEMMA CloseStep ==
    ASSUME Inv, UNCHANGED tool, NEW f \in Files, UserClose(f)
    PROVE  Inv' /\ UV!Close(f)
<1> DEFINE P == [i \in Sectors |-> Hole]
<1>1. /\ files[f].link = 0 /\ files[f].size > 0 /\ disk' = disk
      /\ files' = [files EXCEPT ![f].size = 0, ![f].map = P]
    BY DEF UserClose
<1>2. P = [i \in Sectors |-> P[i]] /\ \A i \in Sectors : IsMapping(P[i]) /\ P[i].addr = 0
    BY DEF Hole, IsMapping
<1> HIDE DEF P
<1>3. /\ IsFile(files[f]) /\ files = [g \in Files |-> files[g]] /\ Len(disk) \in Nat
    BY FileShape
<1>4. /\ files' = [g \in Files |-> files'[g]]
      /\ \A g \in Files : g # f => files'[g] = files[g]
      /\ files'[f] = [link |-> files[f].link, size |-> 0, mtime |-> files[f].mtime,
                      nocow |-> files[f].nocow, map |-> P]
    BY <1>1, <1>3 DEF IsFile
<1>5. files'[f].map = P BY <1>4
<1>6. Rewrites(f, 0, files[f].mtime)
  <2>1. \A i \in Sectors : IsMapping(files'[f].map[i]) /\ files'[f].map[i].addr \in 0 .. Len(disk')
    <3>1. 0 \in 0 .. Len(disk') BY <1>1, <1>3
    <3> QED BY <3>1, <1>2, <1>5
  <2>2. /\ files'[f] = [link |-> files[f].link, size |-> 0, mtime |-> files[f].mtime,
                        nocow |-> files[f].nocow, map |-> files'[f].map]
        /\ files'[f].map = [i \in Sectors |-> files'[f].map[i]]
      BY <1>2, <1>4, <1>5
  <2> QED BY <2>1, <2>2, <1>1, <1>4 DEF Rewrites
<1>7. 0 \in Sizes /\ files[f].mtime \in Ticks(f)
  <2>1. Pos(MaxSectors, 0) \in Nat BY BtrfsAssumption DEF Pos
  <2> QED BY <2>1 DEF Sizes, Ticks
<1>8. /\ Inv' /\ View' = [View EXCEPT ![f] = View'[f]]
      /\ Meta' = [Meta EXCEPT ![f] = Meta'[f]]
      /\ files'[f].size = 0
    BY <1>6, <1>7, RewritesOne
<1>9. View'[f] = UV!Blank
  <2>1. \A i \in Sectors, o \in Offsets : Shown(f, i, o)' = 0
      BY <1>2, <1>5 DEF Shown, Byte
  <2>2. View'[f] = [i \in Sectors |-> [o \in Offsets |-> Shown(f, i, o)']]
      BY DEF View, Shown
  <2> QED BY <2>1, <2>2 DEF UV!Blank, UV!Sectors, UV!Offsets, Sectors, Offsets
<1>10. Meta'[f] = [Meta[f] EXCEPT !.size = 0]
  <2>1. Meta'[f] = [link |-> files'[f].link, size |-> files'[f].size, mtime |-> files'[f].mtime]
      BY DEF Meta
  <2>2. Meta[f] = [link |-> files[f].link, size |-> files[f].size, mtime |-> files[f].mtime]
      BY DEF Meta
  <2>3. files'[f].link = files[f].link /\ files'[f].mtime = files[f].mtime BY <1>4
  <2> QED BY <2>1, <2>2, <2>3, <1>8
<1>11. Meta[f].link = 0 /\ Meta[f].size > 0 BY <1>1 DEF Meta
<1> QED BY <1>8, <1>9, <1>10, <1>11 DEF UV!Close

-----------------------------------------------------------------------------
(* Whose step it is.                                                       *)

\* No step of the tool passes for a user's.
LEMMA StopUncounted == \A out : Stop(out) => ops' = ops
BY DEF Stop

LEMMA ToolUncounted == ToolNext \/ Fault => ops' = ops
<1> SUFFICES ASSUME ToolNext \/ Fault PROVE ops' = ops OBVIOUS
<1> USE StopUncounted
<1>1. CASE LogicalIno BY <1>1 DEF LogicalIno
<1>2. CASE Collect BY <1>2 DEF Collect
<1>3. CASE Judge BY <1>3 DEF Judge
<1>4. CASE InodePath BY <1>4 DEF InodePath
<1>5. CASE Inspect BY <1>5 DEF Inspect
<1>6. CASE FillOpen BY <1>6 DEF FillOpen
<1>7. CASE FillRead BY <1>7 DEF FillRead
<1>8. CASE EndStretch BY <1>8 DEF EndStretch
<1>9. CASE Before BY <1>9 DEF Before
<1>10. CASE Stage BY <1>10 DEF Stage
<1>11. CASE RedirectOpen BY <1>11 DEF RedirectOpen
<1>12. CASE DedupeChunk BY <1>12 DEF DedupeChunk
<1>13. CASE DedupeShort BY <1>13 DEF DedupeShort
<1>14. CASE FinishHolder BY <1>14 DEF FinishHolder
<1>15. CASE RedirectTail BY <1>15 DEF RedirectTail
<1>16. CASE Verify BY <1>16 DEF Verify
<1>17. CASE CheckReleased BY <1>17 DEF CheckReleased
<1>18. CASE Fault BY <1>18 DEF Fault
<1> QED BY <1>1, <1>2, <1>3, <1>4, <1>5, <1>6, <1>7, <1>8, <1>9, <1>10, <1>11, <1>12,
           <1>13, <1>14, <1>15, <1>16, <1>17, <1>18 DEF ToolNext

\* Whatever a user does is counted.
LEMMA UserCounted ==
    ASSUME UserNext
    PROVE  ops > 0 /\ ops' = ops - 1 /\ UNCHANGED <<apply, pc>>
<1>1. PICK held : UserStep(held) BY DEF UserNext
<1> HIDE DEF User
<1>2. \E op : User(op)
  <2>1. PICK f \in Files :
          \/ \E i \in Sectors, o \in Offsets, b \in WriteBytes : UserWrite(f, i, o, b)
          \/ \E n \in Sizes : UserShrink(f, n) \/ UserGrow(f, n)
          \/ \E g \in Files : UserClone(f, g)
          \/ UserRename(f) \/ UserUnlink(f) \/ UserClose(f)
      BY <1>1, Zenon DEF UserStep
  <2>2. CASE \E i \in Sectors, o \in Offsets, b \in WriteBytes : UserWrite(f, i, o, b)
      BY <2>2, Zenon DEF UserWrite
  <2>3. CASE \E n \in Sizes : UserShrink(f, n) BY <2>3, Zenon DEF UserShrink
  <2>4. CASE \E n \in Sizes : UserGrow(f, n) BY <2>4, Zenon DEF UserGrow
  <2>5. CASE \E g \in Files : UserClone(f, g) BY <2>5, Zenon DEF UserClone
  <2>6. CASE UserRename(f) BY <2>6, Zenon DEF UserRename
  <2>7. CASE UserUnlink(f) BY <2>7, Zenon DEF UserUnlink
  <2>8. CASE UserClose(f) BY <2>8, Zenon DEF UserClose
  <2> QED BY <2>1, <2>2, <2>3, <2>4, <2>5, <2>6, <2>7, <2>8, Zenon
<1>3. ops > 0 /\ ops' = ops - 1 BY <1>2 DEF User
<1> QED BY <1>3 DEF UserNext, tool

-----------------------------------------------------------------------------
(* The theorem.                                                            *)

LEMMA InitInv == Init => Inv
<1> SUFFICES ASSUME Init PROVE Inv OBVIOUS
<1>1. files \in [Files -> File] /\ disk = InitDisk BY InitialAssumption DEF Init, FsInit
<1>2. IsSeq(disk) BY <1>1, InitialAssumption DEF IsSeq
<1>3. FilesOK BY <1>1 DEF FilesOK, IsFile, File
<1>4. MapsOK
  <2> SUFFICES ASSUME NEW f \in Files, NEW i \in Sectors
               PROVE  IsMapping(files[f].map[i]) /\ files[f].map[i].addr \in 0 .. Len(disk)
      BY DEF MapsOK
  <2>1. files[f].map[i] \in Mapping BY <1>1 DEF File
  <2>2. IsMapping(files[f].map[i]) BY <2>1 DEF Mapping, IsMapping
  <2>3. files[f].map[i].addr # 0 => files[f].map[i].addr \in DOMAIN disk
      BY <1>1, InitialAssumption DEF Init, FsInit
  <2>4. DOMAIN disk = 1 .. Len(disk) /\ Len(disk) \in Nat BY <1>1, InitialAssumption
  <2> QED BY <2>1, <2>2, <2>3, <2>4 DEF Mapping
<1>5. TempOK
  <2>1. Len(disk) \in Nat BY <1>2, AppendFacts
  <2> QED BY <2>1 DEF Init, TempOK
<1> QED BY <1>2, <1>3, <1>4, <1>5 DEF Inv

LEMMA InitView == Init => UV!Init
<1> SUFFICES ASSUME Init PROVE UV!Init OBVIOUS
<1>1. files \in [Files -> File] /\ files \in InitFiles /\ disk = InitDisk /\ ops \in Nat
    BY InitialAssumption, BtrfsAssumption DEF Init, FsInit
<1>2. \A f \in Files, i \in Sectors, o \in Offsets : Shown(f, i, o) \in Bytes
  <2> SUFFICES ASSUME NEW f \in Files, NEW i \in Sectors, NEW o \in Offsets
               PROVE  Byte(f, i, o) \in Bytes
      BY BtrfsAssumption DEF Shown
  <2> DEFINE m == files[f].map[i]
  <2>1. CASE m.addr = 0 BY <2>1, BtrfsAssumption DEF Byte
  <2>2. CASE m.addr # 0
    <3>1. m.addr \in DOMAIN disk /\ m.sec \in DOMAIN disk[m.addr]
        BY <2>2, <1>1, InitialAssumption
    <3>2. disk[m.addr][m.sec] \in [Offsets -> Bytes] BY <3>1, <1>1, InitialAssumption
    <3> QED BY <3>2, <2>2 DEF Byte
  <2> QED BY <2>1, <2>2
<1>3. View \in [Files -> [Sectors -> [Offsets -> Bytes]]] BY <1>2, ViewIsShown
<1>4. Meta \in [Files -> [link : Nat, size : Sizes, mtime : Nat]]
    BY <1>1 DEF Meta, File
<1> QED BY <1>1, <1>3, <1>4
        DEF UV!Init, UV!Sectors, UV!Offsets, UV!Sizes, UV!Pos, Sectors, Offsets, Sizes, Pos

\* Every step is one of a user's that UserView has, or shows nothing.
LEMMA NextView == Inv /\ [Next]_vars => Inv' /\ [UV!Next]_<<View, Meta, ops>>
<1> SUFFICES ASSUME Inv, [Next]_vars PROVE Inv' /\ [UV!Next]_<<View, Meta, ops>>
    OBVIOUS
<1>1. CASE ToolNext \/ Fault BY <1>1, ToolInvisible, ToolUncounted
<1>2. CASE UNCHANGED vars
    BY <1>2, QuietStep DEF Quiet, vars, fsvars, tool
<1>3. CASE UserNext
  <2>1. UNCHANGED tool /\ ops > 0 /\ ops' = ops - 1 BY <1>3, UserCounted DEF UserNext
  <2>2. PICK f \in Files :
           \/ \E i \in Sectors, o \in Offsets, b \in WriteBytes : UserWrite(f, i, o, b)
           \/ \E n \in Sizes : UserShrink(f, n) \/ UserGrow(f, n)
           \/ \E g \in Files : UserClone(f, g)
           \/ UserRename(f) \/ UserUnlink(f)
           \/ UserClose(f)
      BY <1>3 DEF UserNext, UserStep
  <2>3. CASE \E i \in Sectors, o \in Offsets, b \in WriteBytes : UserWrite(f, i, o, b)
    <3>1. PICK i \in Sectors, o \in Offsets, b \in WriteBytes : UserWrite(f, i, o, b)
        BY <2>3
    <3>2. Inv' /\ UV!Write(f, i, o, b) BY <3>1, <2>1, WriteStep
    <3>3. \E j \in UV!Sectors, p \in UV!Offsets, c \in Bytes : UV!Write(f, j, p, c)
        BY <3>2, BtrfsAssumption DEF UV!Sectors, UV!Offsets, Sectors, Offsets
    <3> QED BY <3>2, <3>3, <2>1 DEF UV!Next
  <2>4. CASE \E n \in Sizes : UserShrink(f, n) \/ UserGrow(f, n)
    <3>1. PICK n \in Sizes : UserShrink(f, n) \/ UserGrow(f, n) BY <2>4
    <3>2. Inv' /\ UV!Truncate(f, n) BY <3>1, <2>1, ShrinkStep, GrowStep
    <3>3. \E m \in UV!Sizes : UV!Truncate(f, m)
        BY <3>2 DEF UV!Sizes, UV!Pos, Sizes, Pos
    <3> QED BY <3>2, <3>3, <2>1 DEF UV!Next
  <2>5. CASE \E g \in Files : UserClone(f, g)
    <3>1. PICK g \in Files : UserClone(f, g) BY <2>5
    <3>2. Inv' /\ UV!Clone(f, g) BY <3>1, <2>1, CloneStep
    <3> QED BY <3>2, <2>1 DEF UV!Next
  <2>6. CASE UserRename(f) BY <2>1, <2>6, RenameStep DEF UV!Next
  <2>7. CASE UserUnlink(f) BY <2>1, <2>7, UnlinkStep DEF UV!Next
  <2>8. CASE UserClose(f) BY <2>1, <2>8, CloseStep DEF UV!Next
  <2> QED BY <2>2, <2>3, <2>4, <2>5, <2>6, <2>7, <2>8
<1> QED BY <1>1, <1>2, <1>3 DEF Next, Done

\* The rewrite of an extent implements UserView (run.rs, realloc_extent): for
\* every set of files, every layout and size of them, every sector size, and
\* under any interleaving with users and failing calls, no step of the tool
\* changes a byte, a size, an mtime or a path that a user can see.
THEOREM RewriteIsInvisible == Spec => NothingVisible
<1>1. Init => Inv /\ UV!Init BY InitInv, InitView
<1>2. Inv /\ [Next]_vars => Inv' /\ [UV!Next]_(UV!uservars)
    BY NextView DEF UV!uservars
<1> QED BY <1>1, <1>2, PTL DEF Spec, NothingVisible, UV!Spec

-----------------------------------------------------------------------------
(* A dry run.  It comes to an end before anything is read, staged or       *)
(* deduped, however the holders look by then.                              *)

Looking == {"resolve", "collect", "judge", "path", "inspect"}
DryInv  == /\ ops \in Int
           /\ ~apply => pc \in Looking \union {"done"}

LEMMA InitDry == Init => DryInv
BY BtrfsAssumption DEF Init, FsInit, DryInv, Looking

\* What the tool does leaves the mode and what users have left to do alone.
LEMMA StopDry == \A out : Stop(out) => /\ pc' = "done" /\ UNCHANGED <<fsvars, ops, apply>>
BY DEF Stop

LEMMA ToolDry ==
    ASSUME DryInv, ToolNext \/ Fault
    PROVE  UNCHANGED <<ops, apply>> /\ (~apply => UNCHANGED fsvars /\ pc' \in Looking \union {"done"})
<1> USE StopDry DEF DryInv, Looking
<1>1. CASE LogicalIno BY <1>1 DEF LogicalIno
<1>2. CASE Collect BY <1>2 DEF Collect, NextHolder
<1>3. CASE Judge BY <1>3 DEF Judge
<1>4. CASE InodePath BY <1>4 DEF InodePath
<1>5. CASE Inspect BY <1>5 DEF Inspect
<1>6. CASE FillOpen BY <1>6 DEF FillOpen
<1>7. CASE FillRead BY <1>7 DEF FillRead
<1>8. CASE EndStretch BY <1>8 DEF EndStretch
<1>9. CASE Before BY <1>9 DEF Before
<1>10. CASE Stage BY <1>10 DEF Stage
<1>11. CASE RedirectOpen BY <1>11 DEF RedirectOpen
<1>12. CASE DedupeChunk BY <1>12 DEF DedupeChunk
<1>13. CASE DedupeShort BY <1>13 DEF DedupeShort
<1>14. CASE FinishHolder BY <1>14 DEF FinishHolder
<1>15. CASE RedirectTail BY <1>15 DEF RedirectTail
<1>16. CASE Verify BY <1>16 DEF Verify
<1>17. CASE CheckReleased BY <1>17 DEF CheckReleased
<1>18. CASE Fault BY <1>18 DEF Fault
<1> QED BY <1>1, <1>2, <1>3, <1>4, <1>5, <1>6, <1>7, <1>8, <1>9, <1>10, <1>11, <1>12,
           <1>13, <1>14, <1>15, <1>16, <1>17, <1>18 DEF ToolNext

\* A dry run makes no change to the filesystem, whatever users do meanwhile and
\* wherever a call fails: what changes, a user changed (Runner::process in
\* run.rs, which returns before realloc_extent unless Options::apply is set).
THEOREM DryRunIsDry == Spec => DryRunWritesNothing
<1>1. DryInv /\ [Next]_vars =>
         DryInv' /\ [(~apply /\ ops' = ops) => UNCHANGED fsvars]_vars
  <2> SUFFICES ASSUME DryInv, [Next]_vars
               PROVE  DryInv' /\ ((~apply /\ ops' = ops) => UNCHANGED fsvars)
      OBVIOUS
  <2>1. CASE ToolNext \/ Fault BY <2>1, ToolDry DEF DryInv
  <2>2. CASE UserNext BY <2>2, UserCounted DEF DryInv
  <2>3. CASE UNCHANGED vars BY <2>3 DEF vars, tool, DryInv
  <2> QED BY <2>1, <2>2, <2>3 DEF Next, Done
<1> QED BY <1>1, InitDry, PTL DEF Spec, DryRunWritesNothing

-----------------------------------------------------------------------------
(* An extent that is reported as rewritten has been let go, as far as the  *)
(* second lookup found its holders.                                        *)
(*                                                                         *)
(* Three things are put together.  Nothing that happens after the lookup,  *)
(* but for a reflink, makes a sector lead to the extent that did not: the  *)
(* copies and what users write are at addresses of their own.  The first   *)
(* of a file's sectors that lead to the extent is the start of an item, so *)
(* that an item is there to be found as long as one sector is.  And the    *)
(* last check asks every holder for the whole of what the lookup found.    *)

\* A set of numbers that is not empty has a least one.
LEMMA LeastNumber ==
    ASSUME NEW T \in SUBSET Nat, T # {}
    PROVE  \E x \in T : \A y \in T : x <= y
<1> DEFINE R == {p \in Nat \X Nat : p[1] < p[2]}
<1>1. IsWellFoundedOn(R, Nat) BY NatLessThanWellFounded DEF OpToRel
<1> HIDE DEF R
<1>2. \E x \in T : \A y \in T : ~ (<<y, x>> \in R) BY <1>1, WFMin
<1>3. PICK x \in T : \A y \in T : ~ (<<y, x>> \in R) BY <1>2
<1>4. \A y \in T : ~(y < x) BY <1>3 DEF R
<1> QED BY <1>4

-----------------------------------------------------------------------------
(* Items.                                                                  *)

\* What leads to the extent, and does not start an item, goes on from the sector
\* before.
IsChained(map) == \A i \in Sectors : map[i].addr = Ext /\ ~map[i].head =>
                                       i # 0 /\ map[i - 1].addr = Ext

\* The extent is there, and what is deduped from is another.
Chained == \A f \in Files : IsChained(files[f].map)
ExtOK   == /\ Len(disk) >= Ext
           /\ pc \in Deduping => temp.addr # Ext
Base    == Inv /\ Chained /\ ExtOK

\* A file's sectors have been changed, and none leads to the extent that did not.
LetsGo(old, new) == \A i \in Sectors : new[i].addr = Ext => old[i].addr = Ext

\* A new item somewhere else lets go of the extent, and leaves what still leads
\* to it in items.
LEMMA PasteLetsGo ==
    ASSUME NEW map, IsChained(map), NEW at, NEW n, NEW addr, NEW sec, addr # Ext
    PROVE  /\ LetsGo(map, Paste(map, at, n, addr, sec))
           /\ IsChained(Paste(map, at, n, addr, sec))
<1> DEFINE P == Paste(map, at, n, addr, sec)
<1>1. \A j \in Sectors :
         /\ j \in at .. at + n - 1 => P[j].addr = addr
         /\ j \notin at .. at + n - 1 =>
              P[j].addr = map[j].addr /\ P[j].head = (map[j].head \/ j - 1 \in at .. at + n - 1)
    BY DEF Paste
<1> HIDE DEF P
<1>2. LetsGo(map, P) BY <1>1 DEF LetsGo
<1>3. IsChained(P)
  <2> SUFFICES ASSUME NEW i \in Sectors, P[i].addr = Ext, ~P[i].head
               PROVE  i # 0 /\ P[i - 1].addr = Ext
      BY DEF IsChained
  <2>1. i \notin at .. at + n - 1 BY <1>1
  <2>2. map[i].addr = Ext /\ ~map[i].head /\ i - 1 \notin at .. at + n - 1 BY <2>1, <1>1
  <2>3. i # 0 /\ map[i - 1].addr = Ext BY <2>2 DEF IsChained
  <2>4. i - 1 \in Sectors BY <2>3, BtrfsAssumption DEF Sectors
  <2> QED BY <2>2, <2>3, <2>4, <1>1
<1> QED BY <1>2, <1>3 DEF P

\* As long as a file has a sector that leads to the extent it has an item that does.
LEMMA ItemIsThere ==
    ASSUME NEW map, IsChained(map), NEW i \in Sectors, map[i].addr = Ext
    PROVE  \E j \in Sectors : map[j].addr = Ext /\ map[j].head
<1> DEFINE T == {j \in Sectors : map[j].addr = Ext}
<1>1. T \in SUBSET Nat /\ T # {} BY DEF Sectors
<1>2. PICK j \in T : \A k \in T : j <= k BY <1>1, LeastNumber
<1>3. SUFFICES ASSUME ~map[j].head PROVE FALSE BY <1>2
<1>4. j # 0 /\ map[j - 1].addr = Ext BY <1>2, <1>3 DEF IsChained
<1>5. j - 1 \in T BY <1>4, BtrfsAssumption DEF Sectors
<1> QED BY <1>1, <1>2, <1>5

-----------------------------------------------------------------------------
(* What every step leaves true.                                            *)

\* What a step does to the files, as far as the extent goes.
Letting == \A f \in Files : LetsGo(files[f].map, files'[f].map)

LEMMA InitBase == Init => Base
<1> SUFFICES ASSUME Init PROVE Base OBVIOUS
<1>1. Inv BY InitInv
<1>2. Chained
  <2>1. files \in InitFiles BY DEF Init, FsInit
  <2> QED BY <2>1, InitialAssumption DEF Chained, IsChained
<1>3. ExtOK
  <2>1. disk = InitDisk /\ pc = "resolve" BY DEF Init, FsInit
  <2>2. DOMAIN InitDisk = 1 .. Len(InitDisk) /\ Len(InitDisk) \in Nat BY InitialAssumption
  <2> QED BY <2>1, <2>2, ReallocAssumption DEF ExtOK, Ext, Deduping
<1> QED BY <1>1, <1>2, <1>3 DEF Base

\* The tool points files at copies, which are not the extent.
LEMMA ToolBase ==
    ASSUME Base, ToolNext \/ Fault
    PROVE  Base' /\ Letting
<1>1. Inv /\ Inv' /\ IsSeq(disk) BY ToolInvisible DEF Base, Inv
<1>2. Quiet \/ Staged \/ Deduped BY ToolKinds
<1>3. \A f \in Files : LetsGo(files[f].map, files[f].map) BY DEF LetsGo
<1>4. CASE Quiet
  <2>1. Chained' /\ ExtOK' BY <1>4 DEF Quiet, Base, Chained, ExtOK
  <2> QED BY <1>1, <1>3, <1>4, <2>1 DEF Quiet, Base, Letting
<1>5. CASE Staged
  <2>1. Chained' /\ files' = files BY <1>5 DEF Staged, Base, Chained
  <2>2. Len(disk) \in Nat /\ Len(disk') = Len(disk) + 1 BY <1>1, <1>5, AppendFacts DEF Staged
  <2>3. ExtOK' BY <2>2, <1>5 DEF Staged, Base, ExtOK, Ext
  <2> QED BY <1>1, <1>3, <2>1, <2>3 DEF Base, Letting
<1>6. CASE Deduped
  <2>1. PICK f, c, n : Dedupe(f, c, n, temp) BY <1>6 DEF Deduped
  <2>2. temp.addr # Ext /\ disk' = disk /\ temp' = temp BY <1>6 DEF Deduped, Base, ExtOK
  <2>3. files' = [files EXCEPT ![f].map = Paste(files[f].map, c.at, n, temp.addr, c.sec)]
      BY <2>1 DEF Dedupe
  <2>4. \A g \in Files : IsFile(files[g]) BY <1>1 DEF Inv, FilesOK
  <2>5. files = [g \in Files |-> files[g]] BY <1>1 DEF Inv, FilesOK
  <2>6. ASSUME NEW g \in Files
        PROVE  LetsGo(files[g].map, files'[g].map) /\ IsChained(files'[g].map)
    <3>1. IsChained(files[g].map) BY DEF Base, Chained
    <3>2. CASE g = f
      <4> DEFINE P == Paste(files[f].map, c.at, n, temp.addr, c.sec)
      <4> HIDE DEF P
      <4>0. files' = [files EXCEPT ![f].map = P] BY <2>3 DEF P
      <4>1. files[f] = [link |-> files[f].link, size |-> files[f].size, mtime |-> files[f].mtime,
                        nocow |-> files[f].nocow, map |-> files[f].map]
          BY <2>4, <3>2 DEF IsFile
      <4>2. files'[f] = [files[f] EXCEPT !.map = P] BY <4>0, <2>5, <3>2
      <4>3. files'[g].map = P BY <4>1, <4>2, <3>2
      <4> QED BY <4>3, <3>1, <3>2, <2>2, PasteLetsGo DEF P
    <3>3. CASE g # f
      <4>1. files'[g] = files[g] BY <2>3, <2>5, <3>3
      <4> QED BY <4>1, <3>1, <1>3
    <3> QED BY <3>2, <3>3
  <2>7. ExtOK' BY <2>2, <1>6 DEF Deduped, Base, ExtOK
  <2> QED BY <2>6, <2>7, <1>1 DEF Base, Chained, Letting
<1> QED BY <1>2, <1>4, <1>5, <1>6

\* One file is changed by a user: what it is like afterwards says what it does.
OneFile(f, map) == /\ \A g \in Files : g # f => files'[g] = files[g]
                   /\ files'[f].map = map

LEMMA OneFileBase ==
    ASSUME Base, NEW f \in Files, NEW map, OneFile(f, map), IsChained(map)
    PROVE  Chained' /\ (LetsGo(files[f].map, map) => Letting)
<1>1. \A g \in Files : IsChained(files[g].map) BY DEF Base, Chained
<1>2. \A g \in Files : IsChained(files'[g].map) BY <1>1 DEF OneFile
<1>3. \A g \in Files : g # f => LetsGo(files[g].map, files'[g].map) BY DEF OneFile, LetsGo
<1> QED BY <1>2, <1>3 DEF Chained, Letting, OneFile

\* What users write is somewhere else, and so are the zeros a file grows by;
\* what they cut off leads nowhere.
LEMMA CutLetsGo ==
    ASSUME NEW map, NEW new, IsChained(map),
           \A i \in Sectors : new[i] = Hole \/ (new[i] = map[i] /\ (i # 0 => new[i - 1] = map[i - 1]))
    PROVE  LetsGo(map, new) /\ IsChained(new)
<1>1. Hole.addr # Ext BY DEF Hole, Ext
<1>2. LetsGo(map, new) BY <1>1 DEF LetsGo
<1> QED BY <1>1, <1>2 DEF IsChained

LEMMA UserBase ==
    ASSUME Base, UserNext
    PROVE  Base' /\ ("clone" \notin UserOps => Letting)
<1>1. Inv /\ Inv' /\ IsSeq(disk) /\ Len(disk) \in Nat BY NextView, AppendFacts DEF Base, Inv, Next
<1>2. UNCHANGED <<pc, temp>> BY DEF UserNext, tool
<1>3. ASSUME NEW e, disk' = Append(disk, e) PROVE Len(disk') = Len(disk) + 1
    BY <1>1, <1>3, AppendFacts
<1>4. Len(disk) + 1 # Ext BY <1>1 DEF Base, ExtOK, Ext
<1>5. disk' = disk \/ (\E e : disk' = Append(disk, e)) => ExtOK'
    BY <1>1, <1>2, <1>3 DEF Base, ExtOK, Ext, Deduping
<1>6. PICK f \in Files :
         \/ \E i \in Sectors, o \in Offsets, b \in WriteBytes : UserWrite(f, i, o, b)
         \/ \E n \in Sizes : UserShrink(f, n) \/ UserGrow(f, n)
         \/ \E g \in Files : UserClone(f, g)
         \/ UserRename(f) \/ UserUnlink(f) \/ UserClose(f)
    BY DEF UserNext, UserStep
<1>7. IsChained(files[f].map) BY DEF Base, Chained
<1>8. /\ files = [g \in Files |-> files[g]]
      /\ \A g \in Files :
           files[g] = [link |-> files[g].link, size |-> files[g].size, mtime |-> files[g].mtime,
                       nocow |-> files[g].nocow, map |-> files[g].map]
    BY <1>1 DEF Inv, FilesOK, IsFile
<1>9. LetsGo(files[f].map, files[f].map) BY DEF LetsGo
<1>10. CASE \E i \in Sectors, o \in Offsets, b \in WriteBytes : UserWrite(f, i, o, b)
  <2>1. PICK i \in Sectors, o \in Offsets, b \in WriteBytes : UserWrite(f, i, o, b) BY <1>10
  <2> DEFINE P == Paste(files[f].map, i, 1, Len(disk) + 1, 0)
  <2>2. LetsGo(files[f].map, P) /\ IsChained(P) BY <1>4, <1>7, PasteLetsGo
  <2>3. PICK t \in Ticks(f) : files' = [files EXCEPT ![f].map = P, ![f].mtime = t]
      BY <2>1 DEF UserWrite
  <2> HIDE DEF P
  <2>4. OneFile(f, P) BY <2>3, <1>8 DEF OneFile
  <2>5. ExtOK' BY <2>1, <1>5 DEF UserWrite
  <2> QED BY <2>2, <2>4, <2>5, <1>1, OneFileBase DEF Base
<1>11. ASSUME NEW n \in Sizes, UserShrink(f, n) PROVE Base' /\ Letting
  <2> DEFINE P == [i \in Sectors |-> IF Pos(i, 0) >= n THEN Hole ELSE files[f].map[i]]
  <2>1. PICK t \in Ticks(f) : files' = [files EXCEPT ![f].size = n, ![f].mtime = t, ![f].map = P]
      BY <1>11 DEF UserShrink
  <2>2. \A i \in Sectors : P[i] = Hole \/ (P[i] = files[f].map[i]
                                            /\ (i # 0 => P[i - 1] = files[f].map[i - 1]))
    <3> SUFFICES ASSUME NEW i \in Sectors, ~(Pos(i, 0) >= n), i # 0
                 PROVE  P[i - 1] = files[f].map[i - 1]
        OBVIOUS
    <3>1. Pos(MaxSectors, 0) \in Nat BY BtrfsAssumption DEF Pos
    <3>2. i - 1 \in Sectors /\ i \in Int /\ n \in Int
        BY <3>1, BtrfsAssumption DEF Sectors, Sizes
    <3>3. Pos(i, 0) = Pos(i - 1, 0) + SectorSize BY <3>2, BtrfsAssumption DEF Pos
    <3>4. Pos(i, 0) \in Int /\ Pos(i - 1, 0) \in Int BY <3>2, BtrfsAssumption DEF Pos
    <3>5. ~(Pos(i - 1, 0) >= n) BY <3>2, <3>3, <3>4, BtrfsAssumption
    <3> QED BY <3>2, <3>5
  <2> HIDE DEF P
  <2>3. LetsGo(files[f].map, P) /\ IsChained(P) BY <2>2, <1>7, CutLetsGo
  <2>4. OneFile(f, P) BY <2>1, <1>8 DEF OneFile
  <2>5. ExtOK' BY <1>11, <1>5 DEF UserShrink
  <2> QED BY <2>3, <2>4, <2>5, <1>1, OneFileBase DEF Base
<1>12. ASSUME NEW n \in Sizes, UserGrow(f, n) PROVE Base' /\ Letting
  <2>1. CASE \E t \in Ticks(f) : /\ files' = [files EXCEPT ![f].size = n, ![f].mtime = t]
                                 /\ UNCHANGED disk
    <3>1. PICK t \in Ticks(f) : files' = [files EXCEPT ![f].size = n, ![f].mtime = t]
        BY <2>1
    <3>2. OneFile(f, files[f].map) BY <3>1, <1>8 DEF OneFile
    <3> QED BY <3>2, <2>1, <1>1, <1>5, <1>7, <1>9, OneFileBase DEF Base
  <2>2. CASE \E t \in Ticks(f), i \in Sectors : \E e :
               /\ disk' = Append(disk, e)
               /\ files' = [files EXCEPT ![f].size = n, ![f].mtime = t,
                              ![f].map = Paste(files[f].map, i, 1, Len(disk) + 1, 0)]
    <3>0. PICK t \in Ticks(f), i \in Sectors : \E e :
               /\ disk' = Append(disk, e)
               /\ files' = [files EXCEPT ![f].size = n, ![f].mtime = t,
                              ![f].map = Paste(files[f].map, i, 1, Len(disk) + 1, 0)]
        BY <2>2
    <3>1. PICK e :
               /\ disk' = Append(disk, e)
               /\ files' = [files EXCEPT ![f].size = n, ![f].mtime = t,
                              ![f].map = Paste(files[f].map, i, 1, Len(disk) + 1, 0)]
        BY <3>0
    <3> DEFINE P == Paste(files[f].map, i, 1, Len(disk) + 1, 0)
    <3>2. LetsGo(files[f].map, P) /\ IsChained(P) BY <1>4, <1>7, PasteLetsGo
    <3>3. files' = [files EXCEPT ![f].size = n, ![f].mtime = t, ![f].map = P] BY <3>1
    <3> HIDE DEF P
    <3>4. OneFile(f, P) BY <3>3, <1>8 DEF OneFile
    <3>5. ExtOK' BY <3>1, <1>5
    <3> QED BY <3>2, <3>4, <3>5, <1>1, OneFileBase DEF Base
  <2> QED BY <2>1, <2>2, <1>12 DEF UserGrow
<1>13. ASSUME NEW g \in Files, UserClone(f, g)
       PROVE  Base' /\ "clone" \in UserOps
  <2>1. PICK t \in Ticks(g) :
           files' = [files EXCEPT ![g].size = files[f].size, ![g].mtime = t,
                                  ![g].map = files[f].map]
      BY <1>13 DEF UserClone
  <2>2. OneFile(g, files[f].map) BY <2>1, <1>8 DEF OneFile
  <2>3. Chained' BY <2>2, <1>7, OneFileBase
  <2>4. ExtOK' /\ "clone" \in UserOps BY <1>13, <1>5 DEF UserClone, User
  <2> QED BY <2>3, <2>4, <1>1 DEF Base
<1>14. CASE UserRename(f) \/ UserUnlink(f)
  <2>1. \/ files' = [files EXCEPT ![f].link = files[f].link + 1]
        \/ files' = [files EXCEPT ![f].link = 0]
      BY <1>14 DEF UserRename, UserUnlink
  <2>2. OneFile(f, files[f].map) BY <2>1, <1>8 DEF OneFile
  <2>3. ExtOK' BY <1>14, <1>5 DEF UserRename, UserUnlink
  <2> QED BY <2>2, <2>3, <1>1, <1>7, <1>9, OneFileBase DEF Base
<1>15. CASE UserClose(f)
  <2> DEFINE P == [i \in Sectors |-> Hole]
  <2>1. files' = [files EXCEPT ![f].size = 0, ![f].map = P] BY <1>15 DEF UserClose
  <2>2. \A i \in Sectors : P[i] = Hole OBVIOUS
  <2> HIDE DEF P
  <2>3. LetsGo(files[f].map, P) /\ IsChained(P) BY <2>2, <1>7, CutLetsGo
  <2>4. OneFile(f, P)
    <3>1. \A g \in Files : g # f => files'[g] = files[g] BY <2>1, <1>8
    <3>2. files'[f] = [files[f] EXCEPT !.size = 0, !.map = P] BY <2>1, <1>8
    <3>3. files'[f].map = P BY <3>2, <1>8
    <3> QED BY <3>1, <3>3 DEF OneFile
  <2>5. ExtOK' BY <1>15, <1>5 DEF UserClose
  <2> QED BY <2>3, <2>4, <2>5, <1>1, OneFileBase DEF Base
<1> QED BY <1>6, <1>10, <1>11, <1>12, <1>13, <1>14, <1>15

-----------------------------------------------------------------------------
(* From the lookup on.                                                     *)

\* Nothing has been said of the extent before the end.
Unsaid == pc # "done" => outcome = "none"

Released(f) == \A i \in Sectors : files[f].map[i].addr # Ext

\* Every sector that leads to the extent is one that was found, and a holder
\* that has been asked has none.
RInv ==
    /\ "clone" \notin UserOps
    /\ pc \notin {"resolve", "collect"}
    /\ AllFound
    /\ pc = "check" => \A f \in Holders \ todo : Released(f)
    /\ outcome = "Rewritten" => \A f \in Files : Released(f)

\* What is asked of a holder: whether it has let go of all that was found.
LEMMA AskedIsReleased ==
    ASSUME Base, AllFound, NEW f \in Files, ~StillHolds(f)
    PROVE  Released(f)
<1> SUFFICES ASSUME NEW i \in Sectors, files[f].map[i].addr = Ext PROVE FALSE
    BY DEF Released
<1>1. PICK j \in Sectors : files[f].map[j].addr = Ext /\ files[f].map[j].head
    BY ItemIsThere DEF Base, Chained
<1>2. PICK q \in refs[f] : Pos(j, 0) \in q.file_offset .. q.file_offset + q.num_bytes - 1
    BY <1>1 DEF AllFound
<1> DEFINE r == [file_offset   |-> Pos(j, 0),
                 extent_offset |-> Pos(files[f].map[j].sec, 0),
                 num_bytes     |-> Pos(ItemEnd(files[f].map, j) - j, 0)]
<1>3. r \in Items(files[f].map) BY <1>1 DEF Items
<1>4. r.file_offset = Pos(j, 0) OBVIOUS
<1> HIDE DEF r
<1>5. q.file_offset <= r.file_offset /\ r.file_offset <= q.file_offset + q.num_bytes - 1
    BY <1>2, <1>4
<1> QED BY <1>2, <1>3, <1>5 DEF StillHolds

\* A file that leads nowhere near the extent has no item of it.
LEMMA ReleasedHasNone == \A f \in Files : Released(f) => Items(files[f].map) = {}
BY DEF Released, Items

\* Once the references are read they are kept, and only the last check says
\* that the extent is rewritten.
Goes == /\ pc # "done"
        /\ pc' # "done" => outcome' = outcome
        /\ pc \notin {"resolve", "collect"} =>
              /\ pc' \notin {"resolve", "collect"}
              /\ UNCHANGED <<found, refs>>
Minor == /\ pc' = "done" => outcome' # "Rewritten"
         /\ pc' = "check" => todo' = Holders

LEMMA StopGoes ==
    \A out : Stop(out) => /\ pc' = "done" /\ outcome' = out /\ UNCHANGED <<found, refs>>
BY DEF Stop, lookup

LEMMA ToolGoes ==
    ASSUME ToolNext \/ Fault
    PROVE  Goes /\ (Minor \/ CheckReleased)
<1> USE StopGoes DEF Goes, Minor, lookup
<1>1. CASE LogicalIno BY <1>1 DEF LogicalIno
<1>2. CASE Collect BY <1>2 DEF Collect, NextHolder
<1>3. CASE Judge BY <1>3 DEF Judge, not_worth_rewriting
<1>4. CASE InodePath BY <1>4 DEF InodePath
<1>5. CASE Inspect BY <1>5 DEF Inspect
<1>6. CASE FillOpen BY <1>6 DEF FillOpen
<1>7. CASE FillRead BY <1>7 DEF FillRead
<1>8. CASE EndStretch BY <1>8 DEF EndStretch
<1>9. CASE Before BY <1>9 DEF Before, NextHolder
<1>10. CASE Stage BY <1>10 DEF Stage
<1>11. CASE RedirectOpen BY <1>11 DEF RedirectOpen, Redirected, NextHolder
<1>12. CASE DedupeChunk BY <1>12 DEF DedupeChunk, Redirected, NextHolder
<1>13. CASE DedupeShort BY <1>13 DEF DedupeShort
<1>14. CASE FinishHolder BY <1>14 DEF FinishHolder
<1>15. CASE RedirectTail BY <1>15 DEF RedirectTail
<1>16. CASE Verify BY <1>16 DEF Verify, NextHolder
<1>17. CASE CheckReleased BY <1>17 DEF CheckReleased
<1>18. CASE Fault BY <1>18 DEF Fault
<1> QED BY <1>1, <1>2, <1>3, <1>4, <1>5, <1>6, <1>7, <1>8, <1>9, <1>10, <1>11, <1>12,
           <1>13, <1>14, <1>15, <1>16, <1>17, <1>18 DEF ToolNext

\* A step that lets go, and keeps what was found, keeps what is known of both.
LEMMA LettingKeeps ==
    ASSUME Letting, UNCHANGED <<found, refs>>
    PROVE  /\ Holders' = Holders
           /\ AllFound => AllFound'
           /\ \A f \in Files : Released(f) => Released(f)'
BY DEF Letting, LetsGo, Holders, AllFound, Released

LEMMA NextRInv ==
    ASSUME Base, Unsaid, RInv, [Next]_vars
    PROVE  RInv'
<1>1. CASE UNCHANGED vars
    BY <1>1 DEF RInv, vars, fsvars, tool, lookup, AllFound, Released, Holders
<1>2. CASE UserNext
  <2>1. Letting BY <1>2, UserBase DEF RInv
  <2>2. UNCHANGED <<pc, outcome, found, refs, todo>> BY <1>2 DEF UserNext, tool, lookup
  <2> QED BY <2>1, <2>2, LettingKeeps DEF RInv, Holders
<1>3. CASE ToolNext \/ Fault
  <2>1. Letting BY <1>3, ToolBase
  <2>2. Goes /\ (Minor \/ CheckReleased) BY <1>3, ToolGoes
  <2>3. UNCHANGED <<found, refs>> /\ pc' \notin {"resolve", "collect"} BY <2>2 DEF Goes, RInv
  <2>4. /\ Holders' = Holders /\ AllFound'
        /\ \A f \in Files : Released(f) => Released(f)'
      BY <2>1, <2>3, LettingKeeps DEF RInv
  <2>5. pc # "done" /\ outcome = "none" /\ (pc' # "done" => outcome' = "none")
      BY <2>2 DEF Goes, Unsaid
  <2>6. CASE Minor BY <2>3, <2>4, <2>5, <2>6 DEF Minor, RInv
  <2>7. CASE CheckReleased
    <3>1. \A f \in Holders \ todo : Released(f) BY <2>7 DEF CheckReleased, RInv
    <3>2. \A f \in Files \ Holders : Released(f) BY DEF RInv, AllFound, Released
    <3>3. Holders \subseteq Files BY DEF Holders
    <3>4. ~StillHolds(cur) => (cur \in Files => Released(cur)) BY AskedIsReleased DEF RInv
    <3>5. CASE StillHolds(cur) /\ Stop("Failed")
        BY <3>5, <2>3, <2>4, StopGoes DEF RInv
    <3>6. CASE ~StillHolds(cur) /\ todo = {cur} /\ Stop("Rewritten")
      <4>1. \A f \in Files : Released(f) BY <3>1, <3>2, <3>3, <3>4, <3>6
      <4>2. pc' = "done" BY <3>6, StopGoes
      <4> QED BY <4>1, <4>2, <2>3, <2>4 DEF RInv
    <3>7. CASE ~StillHolds(cur) /\ todo # {cur} /\ todo' = todo \ {cur} /\ UNCHANGED <<pc, outcome>>
      <4>1. \A f \in Holders \ todo' : Released(f) BY <3>1, <3>3, <3>4, <3>7
      <4> QED BY <4>1, <3>3, <3>7, <2>3, <2>4, <2>5 DEF RInv
    <3> QED BY <3>5, <3>6, <3>7, <2>7 DEF CheckReleased
  <2> QED BY <2>2, <2>6, <2>7
<1> QED BY <1>1, <1>2, <1>3 DEF Next, Done

LEMMA NextBase ==
    ASSUME Base, Unsaid, [Next]_vars
    PROVE  Base' /\ Unsaid'
<1>1. CASE UNCHANGED vars
  <2>1. Inv' BY <1>1, QuietStep DEF Base, Quiet, vars, fsvars, tool
  <2> QED BY <2>1, <1>1 DEF vars, fsvars, tool, Base, Chained, ExtOK, Deduping, Unsaid
<1>2. CASE UserNext BY <1>2, UserBase DEF UserNext, tool, Unsaid
<1>3. CASE ToolNext \/ Fault BY <1>3, ToolBase, ToolGoes DEF Goes, Unsaid
<1> QED BY <1>1, <1>2, <1>3 DEF Next, Done

\* An extent that is reported as rewritten has been let go by every file, so that
\* its space is free, if the second lookup found all that led to it: whatever is
\* written, truncated, renamed or deleted while it is being rewritten, whatever
\* fails, and whatever the kernel's dedupe leaves undone (realloc_extent in
\* run.rs, with inode_holds_extent as its last check).  Reflinks made meanwhile
\* are the exception.
THEOREM RewrittenFoundIsReleased == Spec => FoundIsReleased
<1>1. Init => Base /\ Unsaid
    BY InitBase DEF Init, Unsaid
<1>2. Base /\ Unsaid /\ [Next]_vars => (Base /\ Unsaid)' BY NextBase
<1>3. Base /\ Unsaid /\ (pc = "judge" /\ AllFound /\ "clone" \notin UserOps) => RInv
    BY DEF Unsaid, RInv
<1>4. Base /\ Unsaid /\ RInv /\ [Next]_vars => RInv' BY NextRInv
<1>5. RInv => RewrittenIsReleased
    BY ReleasedHasNone DEF RInv, RewrittenIsReleased
<1> QED BY <1>1, <1>2, <1>3, <1>4, <1>5, PTL DEF Spec, FoundIsReleased

(* Offsets in bytes and numbers of sectors.                                *)

\* Sectors start where their numbers say, in the order of their numbers.
LEMMA PosSum ==
    ASSUME NEW i \in Int, NEW j \in Int
    PROVE  /\ Pos(i, 0) \in Int
           /\ Pos(i, 0) + Pos(j, 0) = Pos(i + j, 0)
           /\ Pos(i, 0) - Pos(j, 0) = Pos(i - j, 0)
           /\ Pos(i, 0) < Pos(j, 0) <=> i < j
           /\ Pos(i, 0) <= Pos(j, 0) <=> i <= j
           /\ Pos(i, 0) = Pos(j, 0) <=> i = j
           /\ Pos(i + 1, 0) = Pos(i, 0) + SectorSize
           /\ Pos(0, 0) = 0
           /\ i >= 0 => Pos(i, 0) \in Nat
<1>1. SectorSize \in Nat /\ SectorSize >= 1 BY BtrfsAssumption
<1>2. \A a \in Int, b \in Int : a < b => a * SectorSize < b * SectorSize BY <1>1
<1>3. \A a \in Int, b \in Int : (a + b) * SectorSize = a * SectorSize + b * SectorSize
    BY <1>1
<1>4. \A a \in Int, b \in Int : (a - b) * SectorSize = a * SectorSize - b * SectorSize
    BY <1>1
<1>5. \A a \in Int : a * SectorSize \in Int BY <1>1
<1>6. 0 * SectorSize = 0 /\ 1 * SectorSize = SectorSize BY <1>1
<1>7. i >= 0 => i * SectorSize >= 0 BY <1>1
<1> QED BY <1>1, <1>2, <1>3, <1>4, <1>5, <1>6, <1>7 DEF Pos

LEMMA PosInt == \A i \in Int : Pos(i, 0) \in Int /\ (i >= 0 => Pos(i, 0) \in Nat)
BY PosSum

LEMMA PosLess ==
    ASSUME NEW i \in Int, NEW j \in Int
    PROVE  Pos(i, 0) < Pos(j, 0) <=> i < j
BY PosSum

LEMMA PosUpTo ==
    ASSUME NEW i \in Int, NEW j \in Int
    PROVE  Pos(i, 0) <= Pos(j, 0) <=> i <= j
BY PosSum

\* What a quotient and its remainder add up to.
LEMMA DivMod ==
    ASSUME NEW p \in Nat, NEW n \in Nat, n >= 1
    PROVE  p = n * (p \div n) + (p % n)
BY SMTT(30)

\* The sector that a byte is in.
LEMMA PosDiv ==
    ASSUME NEW p \in Nat
    PROVE  /\ p \div SectorSize \in Nat /\ p % SectorSize \in Offsets
           /\ Pos(p \div SectorSize, 0) <= p /\ p < Pos(p \div SectorSize + 1, 0)
           /\ p = Pos(p \div SectorSize, 0) + (p % SectorSize)
           /\ p = Pos(p \div SectorSize, p % SectorSize)
<1>1. SectorSize \in Nat /\ SectorSize >= 1 BY BtrfsAssumption
<1>2. p \div SectorSize \in Nat BY <1>1
<1>3. p % SectorSize \in 0 .. SectorSize - 1 BY <1>1
<1>4. p = SectorSize * (p \div SectorSize) + (p % SectorSize) BY <1>1, DivMod
<1>5. p = (p \div SectorSize) * SectorSize + (p % SectorSize) BY <1>1, <1>2, <1>3, <1>4
<1>6. (p \div SectorSize + 1) * SectorSize = (p \div SectorSize) * SectorSize + SectorSize
    BY <1>1, <1>2
<1>7. (p \div SectorSize) * SectorSize \in Nat BY <1>1, <1>2
<1> QED BY <1>1, <1>2, <1>3, <1>5, <1>6, <1>7 DEF Pos, Offsets

LEMMA DivPos ==
    ASSUME NEW i \in Nat
    PROVE  /\ Pos(i, 0) \div SectorSize = i
           /\ \A p \in Nat : Pos(i, 0) <= p /\ p < Pos(i + 1, 0) => p \div SectorSize = i
           /\ \A o \in Offsets : /\ Pos(i, o) = Pos(i, 0) + o
                                 /\ Pos(i, o) \in Nat /\ o \in Nat /\ o < SectorSize
<1>1. SectorSize \in Nat /\ SectorSize >= 1 BY BtrfsAssumption
<1>2. ASSUME NEW p \in Nat, Pos(i, 0) <= p, p < Pos(i + 1, 0)
      PROVE  p \div SectorSize = i
  <2> DEFINE q == p \div SectorSize
  <2>1. q \in Nat /\ Pos(q, 0) <= p /\ p < Pos(q + 1, 0) BY PosDiv
  <2> HIDE DEF q
  <2>2. Pos(i, 0) < Pos(q + 1, 0) /\ Pos(q, 0) < Pos(i + 1, 0)
    <3>1. Pos(q + 1, 0) \in Int /\ Pos(q, 0) \in Int BY <2>1, PosSum
    <3>2. Pos(i, 0) \in Int /\ Pos(i + 1, 0) \in Int BY PosSum
    <3> QED BY <3>1, <3>2, <2>1, <1>2
  <2>3. i < q + 1 /\ q < i + 1
    <3>1. i < q + 1 BY <2>1, <2>2, PosSum
    <3>2. q < i + 1 BY <2>1, <2>2, PosSum
    <3> QED BY <3>1, <3>2
  <2>4. q = i BY <2>1, <2>3
  <2> QED BY <2>4 DEF q
<1>3. Pos(i, 0) \in Nat /\ Pos(i, 0) < Pos(i + 1, 0) BY <1>1, PosSum
<1>4. Pos(i, 0) \div SectorSize = i BY <1>2, <1>3
<1>5. \A o \in Offsets : /\ Pos(i, o) = Pos(i, 0) + o
                         /\ Pos(i, o) \in Nat /\ o \in Nat /\ o < SectorSize
  <2>1. i * SectorSize \in Nat BY <1>1
  <2> QED BY <2>1, <1>1 DEF Pos, Offsets
<1> QED BY <1>2, <1>4, <1>5

-----------------------------------------------------------------------------
(* Every byte that can be read is a byte.                                  *)

\* Sectors of bytes.
IsData(e) == \A s \in DOMAIN e : e[s] \in [Offsets -> Bytes]

\* Every sector of a file leads to a sector that is on the disk, and goes on from
\* the one before it unless an item starts there.
GoodMap(map, d) ==
    \A i \in Sectors :
       /\ map[i] \in Mapping
       /\ map[i].addr \in 0 .. Len(d)
       /\ map[i].addr # 0 => map[i].sec \in DOMAIN d[map[i].addr]
       /\ ~map[i].head => /\ i # 0
                          /\ map[i - 1].addr = map[i].addr
                          /\ map[i - 1].sec + 1 = map[i].sec

FsOK == /\ files \in [Files -> File]
        /\ \A a \in 1 .. Len(disk) : IsData(disk[a])
        /\ \A f \in Files : GoodMap(files[f].map, disk)
        /\ Len(disk) >= Ext /\ disk[Ext] = InitDisk[Ext]

LEMMA IsMappingOf ==
    ASSUME NEW m, m = [addr |-> m.addr, sec |-> m.sec, head |-> m.head],
           m.addr \in Nat, m.sec \in Nat, m.head \in BOOLEAN
    PROVE  m \in Mapping
BY Zenon DEF Mapping

LEMMA PasteGood ==
    ASSUME NEW map \in [Sectors -> Mapping], NEW d, GoodMap(map, d),
           NEW at \in Nat, NEW n \in Int, NEW addr \in Nat, NEW sec \in Nat,
           addr \in 1 .. Len(d), Len(d) \in Nat,
           \A s \in sec .. sec + n - 1 : s \in DOMAIN d[addr]
    PROVE  /\ GoodMap(Paste(map, at, n, addr, sec), d)
           /\ Paste(map, at, n, addr, sec) \in [Sectors -> Mapping]
<1> DEFINE P == Paste(map, at, n, addr, sec)
<1>1. \A j \in Sectors :
         /\ j \in at .. at + n - 1 =>
              P[j].addr = addr /\ P[j].sec = sec + (j - at) /\ P[j].head = (j = at)
         /\ j \notin at .. at + n - 1 =>
              /\ P[j].addr = map[j].addr /\ P[j].sec = map[j].sec
              /\ P[j].head = (map[j].head \/ j - 1 \in at .. at + n - 1)
         /\ P[j] = [addr |-> P[j].addr, sec |-> P[j].sec, head |-> P[j].head]
         /\ P[j].head \in BOOLEAN
    BY DEF Paste
<1>2. P = [j \in Sectors |-> P[j]] BY DEF Paste
<1> HIDE DEF P
<1>3. \A j \in Sectors : map[j] \in Mapping /\ j \in Nat BY DEF Sectors
<1>4. ASSUME NEW i \in Sectors
      PROVE  /\ P[i] \in Mapping
             /\ P[i].addr \in 0 .. Len(d)
             /\ P[i].addr # 0 => P[i].sec \in DOMAIN d[P[i].addr]
             /\ ~P[i].head => /\ i # 0
                              /\ P[i - 1].addr = P[i].addr
                              /\ P[i - 1].sec + 1 = P[i].sec
  <2>1. CASE i \in at .. at + n - 1
    <3>1. P[i].addr = addr /\ P[i].sec = sec + (i - at) /\ P[i].head = (i = at)
        BY <1>1, <2>1
    <3>2. i - at \in 0 .. n - 1 /\ i - at \in Nat /\ i \in Nat BY <2>1, <1>3
    <3>7. P[i].sec \in sec .. sec + n - 1 /\ P[i].sec \in Nat BY <3>1, <3>2
    <3>3. P[i].sec \in DOMAIN d[addr] /\ P[i].sec \in Nat BY <3>7
    <3>4. P[i] \in Mapping BY <3>1, <3>3, <1>1, IsMappingOf
    <3>5. ASSUME i # at
          PROVE  i # 0 => P[i - 1].addr = P[i].addr /\ P[i - 1].sec + 1 = P[i].sec
      <4> SUFFICES ASSUME i # 0
                   PROVE  P[i - 1].addr = P[i].addr /\ P[i - 1].sec + 1 = P[i].sec
          OBVIOUS
      <4>1. i - 1 \in Sectors /\ i - 1 \in at .. at + n - 1
          BY <3>2, <3>5, <2>1, BtrfsAssumption DEF Sectors
      <4>2. P[i - 1].addr = addr /\ P[i - 1].sec = sec + ((i - 1) - at)
          BY <1>1, <4>1
      <4> QED BY <4>2, <3>1, <3>2
    <3>6. i # at => i # 0 BY <3>2
    <3>8. ~P[i].head => i # at BY <3>1
    <3>9. addr \in 0 .. Len(d) BY <3>1
    <3> QED BY <3>1, <3>3, <3>4, <3>5, <3>6, <3>8, <3>9
  <2>2. CASE i \notin at .. at + n - 1
    <3>1. /\ P[i].addr = map[i].addr /\ P[i].sec = map[i].sec
          /\ P[i].head = (map[i].head \/ i - 1 \in at .. at + n - 1)
        BY <1>1, <2>2
    <3>2. map[i] \in Mapping /\ i \in Nat BY <1>3
    <3>6. map[i].addr \in Nat /\ map[i].sec \in Nat BY <3>2 DEF Mapping
    <3>3. P[i] \in Mapping BY <3>1, <3>6, <1>1, IsMappingOf
    <3>4. ASSUME ~P[i].head
          PROVE  i # 0 /\ P[i - 1].addr = P[i].addr /\ P[i - 1].sec + 1 = P[i].sec
      <4>1. ~map[i].head /\ i - 1 \notin at .. at + n - 1 BY <3>4, <3>1
      <4>2. i # 0 /\ map[i - 1].addr = map[i].addr /\ map[i - 1].sec + 1 = map[i].sec
          BY <4>1 DEF GoodMap
      <4>3. i - 1 \in Sectors BY <4>2, <3>2, BtrfsAssumption DEF Sectors
      <4>4. P[i - 1].addr = map[i - 1].addr /\ P[i - 1].sec = map[i - 1].sec
          BY <4>1, <4>3, <1>1
      <4> QED BY <4>2, <4>4, <3>1
    <3>5. map[i].addr \in 0 .. Len(d) /\ (map[i].addr # 0 => map[i].sec \in DOMAIN d[map[i].addr])
        BY DEF GoodMap
    <3> QED BY <3>1, <3>3, <3>4, <3>5
  <2> QED BY <2>1, <2>2
<1>5. P \in [Sectors -> Mapping] BY <1>2, <1>4
<1> QED BY <1>4, <1>5 DEF GoodMap, P

\* A new extent leaves every sector where it led.
LEMMA AppendGood ==
    ASSUME NEW map, NEW d, NEW e, IsSeq(d), GoodMap(map, d)
    PROVE  GoodMap(map, Append(d, e))
<1>1. /\ Len(d) \in Nat /\ Len(Append(d, e)) = Len(d) + 1
      /\ \A a \in 1 .. Len(d) : Append(d, e)[a] = d[a]
    BY AppendFacts
<1>2. ASSUME NEW i \in Sectors
      PROVE  /\ map[i].addr \in 0 .. Len(Append(d, e))
             /\ map[i].addr # 0 => map[i].sec \in DOMAIN Append(d, e)[map[i].addr]
  <2>1. /\ map[i].addr \in 0 .. Len(d)
        /\ map[i].addr # 0 => map[i].sec \in DOMAIN d[map[i].addr]
      BY DEF GoodMap
  <2> QED BY <2>1, <1>1
<1> QED BY <1>2 DEF GoodMap

\* What is cut off leads nowhere.
LEMMA CutGood ==
    ASSUME NEW map \in [Sectors -> Mapping], NEW d, GoodMap(map, d), Len(d) \in Nat,
           NEW new \in [Sectors -> Mapping],
           \A i \in Sectors : new[i] = Hole \/ (new[i] = map[i] /\ (i # 0 => new[i - 1] = map[i - 1]))
    PROVE  GoodMap(new, d)
<1>1. Hole.addr = 0 /\ Hole.head BY DEF Hole
<1> SUFFICES ASSUME NEW i \in Sectors
             PROVE  /\ new[i].addr \in 0 .. Len(d)
                    /\ new[i].addr # 0 => new[i].sec \in DOMAIN d[new[i].addr]
                    /\ ~new[i].head => /\ i # 0
                                       /\ new[i - 1].addr = new[i].addr
                                       /\ new[i - 1].sec + 1 = new[i].sec
    BY DEF GoodMap
<1>2. CASE new[i] = Hole BY <1>1, <1>2
<1>3. CASE new[i] = map[i] /\ (i # 0 => new[i - 1] = map[i - 1]) BY <1>3 DEF GoodMap
<1> QED BY <1>2, <1>3

\* A read comes to a byte.
LEMMA ReadsBytes ==
    ASSUME Inv, FsOK, NEW f \in Files, NEW i \in Sectors, NEW o \in Offsets
    PROVE  Byte(f, i, o) \in Bytes
<1>1. Len(disk) \in Nat BY AppendFacts DEF Inv
<1>2. CASE files[f].map[i].addr = 0 BY <1>2, BtrfsAssumption DEF Byte
<1>3. CASE files[f].map[i].addr # 0
  <2> DEFINE a == files[f].map[i].addr
             s == files[f].map[i].sec
  <2>1. a \in 1 .. Len(disk) /\ s \in DOMAIN disk[a] BY <1>1, <1>3 DEF FsOK, GoodMap
  <2>2. IsData(disk[a]) BY <2>1 DEF FsOK
  <2>3. disk[a][s] \in [Offsets -> Bytes] BY <2>1, <2>2 DEF IsData
  <2>4. Byte(f, i, o) = disk[a][s][o] BY <1>3 DEF Byte
  <2> QED BY <2>3, <2>4
<1> QED BY <1>2, <1>3

\* One file is changed, and an extent may be added.
LEMMA FsChange ==
    ASSUME Inv, FsOK, NEW f \in Files, NEW x \in File,
           files' = [g \in Files |-> IF g = f THEN x ELSE files[g]],
           \/ disk' = disk
           \/ \E e : disk' = Append(disk, e) /\ IsData(e),
           GoodMap(x.map, disk')
    PROVE  FsOK'
<1>1. IsSeq(disk) /\ Len(disk) \in Nat BY AppendFacts DEF Inv
<1>2. files \in [Files -> File] BY DEF FsOK
<1>3. files' \in [Files -> File] /\ files'[f] = x /\ \A g \in Files : g # f => files'[g] = files[g]
    BY <1>2
<1>4. \A g \in Files : GoodMap(files[g].map, disk) BY DEF FsOK
<1>5. CASE disk' = disk
  <2>1. \A g \in Files : GoodMap(files'[g].map, disk') BY <1>3, <1>4, <1>5
  <2> QED BY <1>3, <1>5, <2>1 DEF FsOK
<1>6. CASE \E e : disk' = Append(disk, e) /\ IsData(e)
  <2>1. PICK e : disk' = Append(disk, e) /\ IsData(e) BY <1>6
  <2>2. /\ Len(disk') = Len(disk) + 1 /\ disk'[Len(disk) + 1] = e
        /\ \A a \in 1 .. Len(disk) : disk'[a] = disk[a]
      BY <2>1, <1>1, AppendFacts
  <2>3. \A g \in Files : GoodMap(files'[g].map, disk') BY <1>1, <1>3, <1>4, <2>1, AppendGood
  <2>4. \A a \in 1 .. Len(disk') : IsData(disk'[a])
    <3> SUFFICES ASSUME NEW a \in 1 .. Len(disk') PROVE IsData(disk'[a]) OBVIOUS
    <3>1. CASE a = Len(disk) + 1 BY <3>1, <2>1, <2>2
    <3>2. CASE a # Len(disk) + 1
      <4>1. a \in 1 .. Len(disk) BY <3>2, <2>2, <1>1
      <4> QED BY <4>1, <2>2 DEF FsOK
    <3> QED BY <3>1, <3>2
  <2>5. Len(disk') >= Ext /\ disk'[Ext] = InitDisk[Ext] BY <2>2, <1>1 DEF FsOK, Ext
  <2> QED BY <1>3, <2>3, <2>4, <2>5 DEF FsOK
<1> QED BY <1>5, <1>6

LEMMA InitFs == Init => FsOK
<1> SUFFICES ASSUME Init PROVE FsOK OBVIOUS
<1>1. files \in InitFiles /\ disk = InitDisk BY DEF Init, FsInit
<1>2. files \in [Files -> File] BY <1>1, InitialAssumption
<1>3. DOMAIN InitDisk = 1 .. Len(InitDisk) /\ Len(InitDisk) \in Nat BY InitialAssumption
<1>4. \A a \in 1 .. Len(disk) : IsData(disk[a]) BY <1>1, <1>3, InitialAssumption DEF IsData
<1>5. Len(disk) >= Ext BY <1>1, <1>3, ReallocAssumption DEF Ext
<1>6. ASSUME NEW f \in Files PROVE GoodMap(files[f].map, disk)
  <2>1. files[f].map \in [Sectors -> Mapping] BY <1>2 DEF File
  <2> SUFFICES ASSUME NEW i \in Sectors
               PROVE  /\ files[f].map[i] \in Mapping
                      /\ files[f].map[i].addr \in 0 .. Len(disk)
                      /\ files[f].map[i].addr # 0 =>
                            files[f].map[i].sec \in DOMAIN disk[files[f].map[i].addr]
                      /\ ~files[f].map[i].head =>
                            /\ i # 0
                            /\ files[f].map[i - 1].addr = files[f].map[i].addr
                            /\ files[f].map[i - 1].sec + 1 = files[f].map[i].sec
      BY DEF GoodMap
  <2>2. files[f].map[i] \in Mapping /\ files[f].map[i].addr \in Nat BY <2>1 DEF Mapping
  <2>3. /\ files[f].map[i].addr # 0 =>
              /\ files[f].map[i].addr \in DOMAIN InitDisk
              /\ files[f].map[i].sec \in DOMAIN InitDisk[files[f].map[i].addr]
        /\ ~files[f].map[i].head =>
              /\ i # 0
              /\ files[f].map[i - 1].addr = files[f].map[i].addr
              /\ files[f].map[i - 1].sec + 1 = files[f].map[i].sec
      BY <1>1, InitialAssumption
  <2> QED BY <2>2, <2>3, <1>1, <1>3
<1> QED BY <1>1, <1>2, <1>4, <1>5, <1>6 DEF FsOK

\* One sector of bytes.
LEMMA OneSector ==
    ASSUME NEW e, e \in [Offsets -> Bytes]
    PROVE  IsData([s \in {0} |-> e])
BY DEF IsData

\* A file that a user has written one sector of.
LEMMA WrittenGood ==
    ASSUME Inv, FsOK, NEW f \in Files, NEW i \in Sectors, NEW e, e \in [Offsets -> Bytes],
           disk' = Append(disk, [s \in {0} |-> e])
    PROVE  LET P == Paste(files[f].map, i, 1, Len(disk) + 1, 0)
           IN  /\ P \in [Sectors -> Mapping] /\ GoodMap(P, disk')
               /\ \E e2 : disk' = Append(disk, e2) /\ IsData(e2)
<1>1. IsSeq(disk) /\ Len(disk) \in Nat BY AppendFacts DEF Inv
<1>2. IsData([s \in {0} |-> e]) BY OneSector
<1> DEFINE n == [s \in {0} |-> e]
<1>3. 0 \in DOMAIN n OBVIOUS
<1> HIDE DEF n
<1>4. disk' = Append(disk, n) BY DEF n
<1>5. Len(disk') = Len(disk) + 1 /\ disk'[Len(disk) + 1] = n BY <1>1, <1>4, AppendFacts
<1>6. files[f].map \in [Sectors -> Mapping] BY DEF FsOK, File
<1>7. GoodMap(files[f].map, disk') BY <1>1, <1>4, AppendGood DEF FsOK
<1> DEFINE A == Len(disk) + 1
           one == 1
           zero == 0
<1>8. /\ i \in Nat /\ one \in Int /\ A \in Nat /\ zero \in Nat
      /\ A \in 1 .. Len(disk') /\ Len(disk') \in Nat
    BY <1>1, <1>5 DEF Sectors
<1>9. \A s \in zero .. zero + one - 1 : s \in DOMAIN disk'[A] BY <1>3, <1>5
<1> HIDE DEF A, one, zero
<1>10. /\ GoodMap(Paste(files[f].map, i, one, A, zero), disk')
       /\ Paste(files[f].map, i, one, A, zero) \in [Sectors -> Mapping]
    BY <1>6, <1>7, <1>8, <1>9, PasteGood
<1> QED BY <1>2, <1>4, <1>10 DEF n, A, one, zero

\* What a user does to a file leaves a file.
LEMMA FileParts ==
    ASSUME NEW x \in File
    PROVE  /\ x = [link |-> x.link, size |-> x.size, mtime |-> x.mtime, nocow |-> x.nocow,
                   map |-> x.map]
           /\ x.link \in Nat /\ x.size \in Sizes /\ x.mtime \in Nat /\ x.nocow \in BOOLEAN
           /\ x.map \in [Sectors -> Mapping]
BY DEF File

\* One file becomes another.
BecomesAt(f, x) == /\ files' = [g \in Files |-> files'[g]]
                   /\ \A g \in Files : g # f => files'[g] = files[g]
                   /\ files'[f] = x

LEMMA Changed ==
    ASSUME Inv, FsOK, NEW f \in Files, NEW x, BecomesAt(f, x), x \in File,
           \/ disk' = disk
           \/ \E e : disk' = Append(disk, e) /\ IsData(e),
           GoodMap(x.map, disk')
    PROVE  FsOK'
<1>1. files' = [g \in Files |-> IF g = f THEN x ELSE files[g]] BY DEF BecomesAt
<1> QED BY <1>1, FsChange

LEMMA UserFs ==
    ASSUME Inv, FsOK, UserNext
    PROVE  FsOK'
<1>1. IsSeq(disk) /\ Len(disk) \in Nat BY AppendFacts DEF Inv
<1>2. files \in [Files -> File] BY DEF FsOK
<1>3. PICK f \in Files :
         \/ \E i \in Sectors, o \in Offsets, b \in WriteBytes : UserWrite(f, i, o, b)
         \/ \E n \in Sizes : UserShrink(f, n) \/ UserGrow(f, n)
         \/ \E g \in Files : UserClone(f, g)
         \/ UserRename(f) \/ UserUnlink(f) \/ UserClose(f)
    BY DEF UserNext, UserStep
<1>7. /\ files = [g \in Files |-> files[g]]
      /\ \A g \in Files :
           files[g] = [link |-> files[g].link, size |-> files[g].size, mtime |-> files[g].mtime,
                       nocow |-> files[g].nocow, map |-> files[g].map]
    BY <1>2, FileParts
<1>4. \A g \in Files :
         /\ files[g].link \in Nat /\ files[g].size \in Sizes /\ files[g].mtime \in Nat
         /\ files[g].map \in [Sectors -> Mapping] /\ GoodMap(files[g].map, disk)
    BY <1>2, FileParts DEF FsOK
<1>5. \A g \in Files : Ticks(g) \subseteq Nat BY <1>4 DEF Ticks
<1>6. Pos(MaxSectors, 0) \in Nat
  <2>1. MaxSectors \in Int /\ MaxSectors >= 0 BY BtrfsAssumption
  <2> QED BY <2>1, PosSum
<1>10. CASE \E i \in Sectors, o \in Offsets, b \in WriteBytes : UserWrite(f, i, o, b)
  <2>1. PICK i \in Sectors, o \in Offsets, b \in WriteBytes : UserWrite(f, i, o, b) BY <1>10
  <2> DEFINE P == Paste(files[f].map, i, 1, Len(disk) + 1, 0)
             e == [x \in Offsets |-> IF x = o THEN b
                     ELSE IF Pos(i, x) < files[f].size THEN Byte(f, i, x) ELSE 0]
  <2>2. e \in [Offsets -> Bytes] BY ReadsBytes, BtrfsAssumption
  <2>3. disk' = Append(disk, [s \in {0} |-> e]) BY <2>1 DEF UserWrite
  <2>4. PICK t \in Ticks(f) : files' = [files EXCEPT ![f].map = P, ![f].mtime = t]
      BY <2>1 DEF UserWrite
  <2> HIDE DEF e
  <2>5. /\ P \in [Sectors -> Mapping] /\ GoodMap(P, disk')
        /\ \E e2 : disk' = Append(disk, e2) /\ IsData(e2)
      BY <2>2, <2>3, WrittenGood
  <2> HIDE DEF P
  <2> DEFINE x == [files[f] EXCEPT !.map = P, !.mtime = t]
  <2>6. BecomesAt(f, x) BY <2>4, <1>7 DEF BecomesAt
  <2>9. x \in File /\ x.map = P
      BY <2>5, <1>2, <1>5 DEF File
  <2> HIDE DEF x
  <2> QED BY <2>5, <2>6, <1>4, <1>5, <2>9, Changed
<1>11. ASSUME NEW n \in Sizes, UserShrink(f, n) PROVE FsOK'
  <2> DEFINE P == [i \in Sectors |-> IF Pos(i, 0) >= n THEN Hole ELSE files[f].map[i]]
  <2>1. PICK t \in Ticks(f) : files' = [files EXCEPT ![f].size = n, ![f].mtime = t, ![f].map = P]
      BY <1>11 DEF UserShrink
  <2>2. \A i \in Sectors : P[i] = Hole \/ (P[i] = files[f].map[i]
                                            /\ (i # 0 => P[i - 1] = files[f].map[i - 1]))
    <3> SUFFICES ASSUME NEW i \in Sectors, ~(Pos(i, 0) >= n), i # 0
                 PROVE  P[i - 1] = files[f].map[i - 1]
        OBVIOUS
    <3>1. i - 1 \in Sectors /\ i \in Int /\ n \in Int
        BY <1>6, BtrfsAssumption DEF Sectors, Sizes
    <3>2. Pos(i - 1, 0) < Pos(i, 0) /\ Pos(i - 1, 0) \in Int /\ Pos(i, 0) \in Int
        BY <3>1, PosSum
    <3>3. ~(Pos(i - 1, 0) >= n) BY <3>1, <3>2
    <3> QED BY <3>1, <3>3
  <2>3. P \in [Sectors -> Mapping]
    <3>1. Hole \in Mapping BY IsMappingOf DEF Hole
    <3> QED BY <3>1, <1>4
  <2> HIDE DEF P
  <2>4. GoodMap(P, disk) BY <2>2, <2>3, <1>1, <1>4, CutGood
  <2> DEFINE x == [files[f] EXCEPT !.size = n, !.mtime = t, !.map = P]
  <2>5. BecomesAt(f, x) BY <2>1, <1>7 DEF BecomesAt
  <2>9. x \in File /\ x.map = P
      BY <2>3, <1>2, <1>5 DEF File
  <2> HIDE DEF x
  <2>6. disk' = disk BY <1>11 DEF UserShrink
  <2> QED BY <2>3, <2>4, <2>5, <2>6, <1>4, <1>5, <2>9, Changed
<1>12. ASSUME NEW n \in Sizes, UserGrow(f, n) PROVE FsOK'
  <2>1. CASE \E t \in Ticks(f) : /\ files' = [files EXCEPT ![f].size = n, ![f].mtime = t]
                                 /\ UNCHANGED disk
    <3>1. PICK t \in Ticks(f) : files' = [files EXCEPT ![f].size = n, ![f].mtime = t]
        BY <2>1
    <3> DEFINE x == [files[f] EXCEPT !.size = n, !.mtime = t]
    <3>2. BecomesAt(f, x) BY <3>1, <1>7 DEF BecomesAt
    <3>9. x \in File /\ x.map = files[f].map
        BY <1>2, <1>4, <1>5 DEF File
    <3> HIDE DEF x
    <3> QED BY <3>2, <2>1, <1>4, <1>5, <3>9, Changed
  <2>2. CASE \E t \in Ticks(f), i \in Sectors :
               /\ disk' = Append(disk, [s \in {0} |-> [o \in Offsets |->
                              IF Pos(i, o) < files[f].size THEN Byte(f, i, o) ELSE 0]])
               /\ files' = [files EXCEPT ![f].size = n, ![f].mtime = t,
                              ![f].map = Paste(files[f].map, i, 1, Len(disk) + 1, 0)]
    <3>1. PICK t \in Ticks(f), i \in Sectors :
               /\ disk' = Append(disk, [s \in {0} |-> [o \in Offsets |->
                              IF Pos(i, o) < files[f].size THEN Byte(f, i, o) ELSE 0]])
               /\ files' = [files EXCEPT ![f].size = n, ![f].mtime = t,
                              ![f].map = Paste(files[f].map, i, 1, Len(disk) + 1, 0)]
        BY <2>2
    <3> DEFINE P == Paste(files[f].map, i, 1, Len(disk) + 1, 0)
               e == [o \in Offsets |-> IF Pos(i, o) < files[f].size THEN Byte(f, i, o) ELSE 0]
    <3>2. e \in [Offsets -> Bytes] BY ReadsBytes, BtrfsAssumption
    <3>3. /\ disk' = Append(disk, [s \in {0} |-> e])
          /\ files' = [files EXCEPT ![f].size = n, ![f].mtime = t, ![f].map = P]
        BY <3>1
    <3> HIDE DEF e
    <3>4. /\ P \in [Sectors -> Mapping] /\ GoodMap(P, disk')
          /\ \E e2 : disk' = Append(disk, e2) /\ IsData(e2)
        BY <3>2, <3>3, WrittenGood
    <3> HIDE DEF P
    <3> DEFINE x == [files[f] EXCEPT !.size = n, !.mtime = t, !.map = P]
    <3>5. BecomesAt(f, x) BY <3>3, <1>7 DEF BecomesAt
    <3>9. x \in File /\ x.map = P
        BY <3>4, <1>2, <1>5 DEF File
    <3> HIDE DEF x
    <3> QED BY <3>4, <3>5, <1>4, <1>5, <3>9, Changed
  <2> QED BY <2>1, <2>2, <1>12 DEF UserGrow
<1>13. ASSUME NEW g \in Files, UserClone(f, g) PROVE FsOK'
  <2>1. PICK t \in Ticks(g) :
           files' = [files EXCEPT ![g].size = files[f].size, ![g].mtime = t,
                                  ![g].map = files[f].map]
      BY <1>13 DEF UserClone
  <2> DEFINE x == [files[g] EXCEPT !.size = files[f].size, !.mtime = t, !.map = files[f].map]
  <2>2. BecomesAt(g, x) BY <2>1, <1>7 DEF BecomesAt
  <2>9. x \in File /\ x.map = files[f].map
      BY <1>2, <1>4, <1>5 DEF File
  <2> HIDE DEF x
  <2>3. disk' = disk BY <1>13 DEF UserClone
  <2> QED BY <2>2, <2>3, <1>4, <1>5, <2>9, Changed
<1>14. CASE UserRename(f) \/ UserUnlink(f)
  <2>1. PICK l \in Nat : files' = [files EXCEPT ![f].link = l]
      BY <1>4, <1>14 DEF UserRename, UserUnlink
  <2> DEFINE x == [files[f] EXCEPT !.link = l]
  <2>2. BecomesAt(f, x) BY <2>1, <1>7 DEF BecomesAt
  <2>9. x \in File /\ x.map = files[f].map
      BY <2>1, <1>2, <1>5 DEF File
  <2> HIDE DEF x
  <2>3. disk' = disk BY <1>14 DEF UserRename, UserUnlink
  <2> QED BY <2>2, <2>3, <1>4, <2>9, Changed
<1>15. CASE UserClose(f)
  <2> DEFINE P == [i \in Sectors |-> Hole]
  <2>1. files' = [files EXCEPT ![f].size = 0, ![f].map = P] BY <1>15 DEF UserClose
  <2>2. \A i \in Sectors : P[i] = Hole OBVIOUS
  <2>3. P \in [Sectors -> Mapping]
    <3>1. Hole \in Mapping BY IsMappingOf DEF Hole
    <3> QED BY <3>1
  <2> HIDE DEF P
  <2>4. GoodMap(P, disk) BY <2>2, <2>3, <1>1, <1>4, CutGood
  <2>6. disk' = disk /\ 0 \in Sizes BY <1>15, <1>6 DEF UserClose, Sizes
  <2> DEFINE x == [files[f] EXCEPT !.size = 0, !.map = P]
  <2>5. BecomesAt(f, x) BY <2>1, <1>7 DEF BecomesAt
  <2>9. x \in File /\ x.map = P
      BY <2>3, <2>6, <1>2 DEF File
  <2> HIDE DEF x
  <2> QED BY <2>3, <2>4, <2>5, <2>6, <1>4, <2>9, Changed
<1> QED BY <1>3, <1>10, <1>11, <1>12, <1>13, <1>14, <1>15

-----------------------------------------------------------------------------
(* The items of a file that lead to the extent.                            *)

LEMMA MinIs ==
    ASSUME NEW T \in SUBSET Nat, T # {}
    PROVE  Min(T) \in T /\ \A y \in T : Min(T) <= y
<1>1. \E x \in T : \A y \in T : x <= y BY LeastNumber
<1> QED BY <1>1 DEF Min

LEMMA Min2 ==
    ASSUME NEW a \in Int, NEW b \in Int
    PROVE  Min({a, b}) \in Int /\ Min({a, b}) <= a /\ Min({a, b}) <= b /\ Min({a, b}) \in {a, b}
<1>1. \E x \in {a, b} : \A y \in {a, b} : x <= y BY a <= b \/ b <= a
<1>2. Min({a, b}) \in {a, b} /\ \A y \in {a, b} : Min({a, b}) <= y BY <1>1 DEF Min
<1> QED BY <1>2

LEMMA Max2 ==
    ASSUME NEW a \in Int, NEW b \in Int
    PROVE  Max({a, b}) \in Int /\ a <= Max({a, b}) /\ b <= Max({a, b}) /\ Max({a, b}) \in {a, b}
<1>1. \E x \in {a, b} : \A y \in {a, b} : x >= y BY a <= b \/ b <= a
<1>2. Max({a, b}) \in {a, b} /\ \A y \in {a, b} : Max({a, b}) >= y BY <1>1 DEF Max
<1> QED BY <1>2

\* A reference by sectors: where in the file, where in the extent, how many.
Ref(h, e, n) == [file_offset |-> Pos(h, 0), extent_offset |-> Pos(e, 0), num_bytes |-> Pos(n, 0)]

LEMMA RefIs ==
    ASSUME NEW h \in Nat, NEW e \in Nat, NEW n \in Nat, n >= 1
    PROVE  /\ Ref(h, e, n).file_offset = Pos(h, 0)
           /\ Ref(h, e, n).extent_offset = Pos(e, 0)
           /\ Ref(h, e, n).num_bytes = Pos(n, 0)
           /\ Ref(h, e, n) \in ExtentRef
           /\ Pos(h, 0) \in Nat /\ Pos(e, 0) \in Nat /\ Pos(n, 0) \in Nat \ {0}
<1>1. Pos(h, 0) \in Nat /\ Pos(e, 0) \in Nat BY PosSum
<1>2. Pos(n, 0) \in Nat /\ Pos(0, 0) = 0 /\ Pos(0, 0) < Pos(n, 0) BY PosSum
<1> QED BY <1>1, <1>2 DEF Ref, ExtentRef

\* An item by sectors: it starts at h and goes on for n sectors.
ItemIs(map, h, n) ==
    /\ h \in Sectors /\ n \in Nat /\ n >= 1 /\ h + n <= MaxSectors
    /\ map[h].head
    /\ map[h].sec \in Nat /\ map[h].sec + n <= ExtentSectors
    /\ \A j \in h .. h + n - 1 : map[j].addr = Ext /\ map[j].sec = map[h].sec + (j - h)
    /\ \A j \in h + 1 .. h + n - 1 : ~map[j].head
    /\ h + n < MaxSectors => map[h + n].head

LEMMA ItemFacts ==
    ASSUME FsOK, NEW map \in [Sectors -> Mapping], GoodMap(map, disk), NEW r \in Items(map)
    PROVE  \E h \in Sectors, n \in Nat : ItemIs(map, h, n) /\ r = Ref(h, map[h].sec, n)
<1>1. PICK h \in Sectors : /\ map[h].addr = Ext /\ map[h].head
                           /\ r = [file_offset |-> Pos(h, 0), extent_offset |-> Pos(map[h].sec, 0),
                                   num_bytes |-> Pos(ItemEnd(map, h) - h, 0)]
    BY DEF Items
<1> DEFINE T == {j \in h + 1 .. MaxSectors : j = MaxSectors \/ map[j].head}
           n == ItemEnd(map, h) - h
<1>2. MaxSectors \in Nat /\ h \in Nat /\ h < MaxSectors BY BtrfsAssumption DEF Sectors
<1>3. T \in SUBSET Nat /\ MaxSectors \in T BY <1>2
<1>4. Min(T) \in T /\ \A y \in T : Min(T) <= y BY <1>3, MinIs
<1>5. ItemEnd(map, h) = Min(T) BY DEF ItemEnd
<1> DEFINE z == Min(T)
<1>6. /\ z \in h + 1 .. MaxSectors /\ (z = MaxSectors \/ map[z].head)
      /\ \A j \in h + 1 .. z - 1 : ~map[j].head
  <2>1. z \in T /\ \A y \in T : z <= y BY <1>4
  <2> HIDE DEF z
  <2>2. z \in h + 1 .. MaxSectors /\ (z = MaxSectors \/ map[z].head) BY <2>1
  <2>3. ASSUME NEW j \in h + 1 .. z - 1, map[j].head PROVE FALSE
    <3>1. j \in T BY <2>2, <2>3, <1>2
    <3> QED BY <3>1, <2>1, <2>2, <1>2
  <2> QED BY <2>2, <2>3
<1>7. n = z - h BY <1>5
<1> HIDE DEF z, n
<1>8. n \in Nat /\ n >= 1 /\ h + n <= MaxSectors /\ h + n = z BY <1>2, <1>6, <1>7
<1>9. map[h].sec \in Nat BY DEF Mapping
<1>10. \A j \in h .. h + n - 1 : map[j].addr = Ext /\ map[j].sec = map[h].sec + (j - h)
  <2> DEFINE B == {j \in h .. h + n - 1 : ~(map[j].addr = Ext /\ map[j].sec = map[h].sec + (j - h))}
  <2> SUFFICES ASSUME B # {} PROVE FALSE OBVIOUS
  <2>1. B \in SUBSET Nat BY <1>2, <1>8
  <2>2. PICK b \in B : \A y \in B : b <= y BY <2>1, LeastNumber
  <2>3. b # h BY <2>2, <1>1, <1>2, <1>9
  <2>4. b \in h + 1 .. h + n - 1 /\ b \in Sectors /\ b - 1 \in h .. h + n - 1 /\ b \in Nat
      BY <2>2, <2>3, <1>2, <1>8 DEF Sectors
  <2>5. b - 1 \notin B BY <2>2, <2>4
  <2>6. map[b - 1].addr = Ext /\ map[b - 1].sec = map[h].sec + ((b - 1) - h) BY <2>4, <2>5
  <2>7. ~map[b].head BY <2>4, <1>6, <1>8
  <2>8. map[b - 1].addr = map[b].addr /\ map[b - 1].sec + 1 = map[b].sec BY <2>4, <2>7 DEF GoodMap
  <2>9. map[b].sec = map[h].sec + (b - h) BY <2>4, <2>6, <2>8, <1>2, <1>9
  <2> QED BY <2>2, <2>6, <2>8, <2>9
<1>11. map[h].sec + n <= ExtentSectors
  <2> DEFINE l == h + n - 1
  <2>1. l \in h .. h + n - 1 /\ l \in Sectors BY <1>2, <1>8 DEF Sectors
  <2>2. map[l].addr = Ext /\ map[l].sec = map[h].sec + (l - h) BY <2>1, <1>10
  <2>3. map[l].sec \in DOMAIN disk[Ext] BY <2>1, <2>2 DEF GoodMap, Ext
  <2>4. DOMAIN disk[Ext] = 0 .. ExtentSectors - 1 BY ReallocAssumption DEF FsOK
  <2>5. map[h].sec + (n - 1) <= ExtentSectors - 1
    <3>1. l - h = n - 1 BY <1>2, <1>8
    <3> QED BY <2>2, <2>3, <2>4, <3>1, ReallocAssumption
  <2> QED BY <2>5, <1>8, <1>9, ReallocAssumption
<1>14. h + n < MaxSectors => map[h + n].head BY <1>2, <1>6, <1>8
<1>15. ASSUME NEW j \in h + 1 .. h + n - 1 PROVE ~map[j].head
  <2>1. j \in h + 1 .. z - 1 BY <1>2, <1>6, <1>8
  <2> QED BY <2>1, <1>6
<1>12. ItemIs(map, h, n) BY <1>1, <1>8, <1>9, <1>10, <1>11, <1>14, <1>15, Zenon DEF ItemIs
<1>13. r = Ref(h, map[h].sec, n) BY <1>1 DEF n, Ref
<1> QED BY <1>8, <1>12, <1>13

\* Two items of a file are the same one or have no sector in common.
LEMMA ItemsApart ==
    ASSUME NEW map, NEW h, NEW n, NEW g, NEW m, ItemIs(map, h, n), ItemIs(map, g, m)
    PROVE  /\ h = g => n = m
           /\ h < g => h + n <= g
<1>1. /\ h \in Nat /\ g \in Nat /\ n \in Nat /\ m \in Nat /\ n >= 1 /\ m >= 1 /\ MaxSectors \in Nat
      /\ h + n <= MaxSectors /\ g + m <= MaxSectors
    BY BtrfsAssumption DEF ItemIs, Sectors
<1>2. /\ map[g].head
      /\ \A j \in h + 1 .. h + n - 1 : ~map[j].head
      /\ \A j \in g + 1 .. g + m - 1 : ~map[j].head
      /\ h + n < MaxSectors => map[h + n].head
      /\ g + m < MaxSectors => map[g + m].head
    BY DEF ItemIs
<1>3. ASSUME h = g, n # m PROVE FALSE
  <2>1. CASE n < m
    <3>1. h + n \in g + 1 .. g + m - 1 /\ h + n < MaxSectors BY <2>1, <1>1, <1>3
    <3> QED BY <3>1, <1>2
  <2>2. CASE m < n
    <3>1. g + m \in h + 1 .. h + n - 1 /\ g + m < MaxSectors BY <2>2, <1>1, <1>3
    <3> QED BY <3>1, <1>2
  <2> QED BY <2>1, <2>2, <1>1, <1>3
<1>4. ASSUME h < g, ~(h + n <= g) PROVE FALSE
  <2>1. g \in h + 1 .. h + n - 1 BY <1>1, <1>4
  <2> QED BY <2>1, <1>2
<1> QED BY <1>3, <1>4

\* What is kept of the references of one file: items of sectors, within the
\* extent, no two of which have a sector of the file in common.
IsRef(r) == \E h \in Nat, e \in Nat, n \in Nat :
              /\ n >= 1 /\ h + n <= MaxSectors /\ e + n <= ExtentSectors
              /\ r = Ref(h, e, n)
Apart(r, s) == \/ r.file_offset + r.num_bytes <= s.file_offset
               \/ s.file_offset + s.num_bytes <= r.file_offset
RefSet(R) == /\ \A r \in R : IsRef(r)
             /\ \A r \in R, s \in R : r = s \/ Apart(r, s)

LEMMA ItemsAreRefs ==
    ASSUME FsOK, NEW f \in Files
    PROVE  RefSet(Items(files[f].map)) /\ IsFiniteSet(Items(files[f].map))
<1> DEFINE map == files[f].map
<1>1. map \in [Sectors -> Mapping] /\ GoodMap(map, disk) BY FileParts DEF FsOK
<1> HIDE DEF map
<1>2. ASSUME NEW r \in Items(map) PROVE IsRef(r)
  <2>1. PICK h \in Sectors, n \in Nat : ItemIs(map, h, n) /\ r = Ref(h, map[h].sec, n)
      BY <1>1, ItemFacts
  <2> QED BY <2>1 DEF IsRef, ItemIs, Sectors
<1>3. ASSUME NEW r \in Items(map), NEW s \in Items(map) PROVE r = s \/ Apart(r, s)
  <2>1. PICK h \in Sectors, n \in Nat : ItemIs(map, h, n) /\ r = Ref(h, map[h].sec, n)
      BY <1>1, ItemFacts
  <2>2. PICK g \in Sectors, m \in Nat : ItemIs(map, g, m) /\ s = Ref(g, map[g].sec, m)
      BY <1>1, ItemFacts
  <2>3. h \in Int /\ g \in Int BY DEF Sectors
  <2>4. r.file_offset = Pos(h, 0) /\ r.num_bytes = Pos(n, 0) BY <2>1 DEF Ref
  <2>5. s.file_offset = Pos(g, 0) /\ s.num_bytes = Pos(m, 0) BY <2>2 DEF Ref
  <2>6. CASE h = g BY <2>1, <2>2, <2>6, ItemsApart
  <2>7. CASE h < g
    <3>1. h + n <= g BY <2>1, <2>2, <2>7, ItemsApart
    <3>2. h + n \in Int BY <2>3
    <3>3. Pos(h + n, 0) <= Pos(g, 0) BY <3>1, <3>2, <2>3, PosSum
    <3>4. Pos(h, 0) + Pos(n, 0) = Pos(h + n, 0) BY <2>3, PosSum
    <3> QED BY <3>3, <3>4, <2>4, <2>5 DEF Apart
  <2>8. CASE g < h
    <3>1. g + m <= h BY <2>1, <2>2, <2>8, ItemsApart
    <3>2. g + m \in Int BY <2>3
    <3>3. Pos(g + m, 0) <= Pos(h, 0) BY <3>1, <3>2, <2>3, PosSum
    <3>4. Pos(g, 0) + Pos(m, 0) = Pos(g + m, 0) BY <2>3, PosSum
    <3> QED BY <3>3, <3>4, <2>4, <2>5 DEF Apart
  <2> QED BY <2>3, <2>6, <2>7, <2>8
<1>4. IsFiniteSet(Items(map))
  <2> DEFINE S == {j \in Sectors : map[j].addr = Ext /\ map[j].head}
             it(i) == [file_offset |-> Pos(i, 0), extent_offset |-> Pos(map[i].sec, 0),
                       num_bytes |-> Pos(ItemEnd(map, i) - i, 0)]
  <2>1. IsFiniteSet(Sectors) BY FS_Interval, BtrfsAssumption DEF Sectors
  <2>2. IsFiniteSet(S) BY <2>1, FS_Subset
  <2>3. Items(map) = {it(i) : i \in S} BY DEF Items
  <2> HIDE DEF S, it
  <2> DEFINE F == [i \in S |-> it(i)]
  <2>4. F \in Surjection(S, Items(map)) BY <2>3 DEF Surjection
  <2> QED BY <2>2, <2>4, FS_Surjection
<1> QED BY <1>2, <1>3, <1>4 DEF RefSet, map

-----------------------------------------------------------------------------
(* Live ranges.                                                            *)

LEMMA RefParts ==
    ASSUME NEW r, IsRef(r)
    PROVE  /\ r \in ExtentRef
           /\ r.file_offset \in Nat /\ r.extent_offset \in Nat /\ r.num_bytes \in Nat
           /\ r.num_bytes >= 1
           /\ \E a \in Nat, b \in Nat :
                 /\ a < b /\ b <= ExtentSectors
                 /\ r.extent_offset = Pos(a, 0)
                 /\ r.extent_offset + r.num_bytes = Pos(b, 0)
           /\ r.extent_offset + r.num_bytes <= Pos(ExtentSectors, 0)
<1>1. PICK h \in Nat, e \in Nat, n \in Nat :
         n >= 1 /\ h + n <= MaxSectors /\ e + n <= ExtentSectors /\ r = Ref(h, e, n)
    BY DEF IsRef
<1>2. /\ r.file_offset = Pos(h, 0) /\ r.extent_offset = Pos(e, 0) /\ r.num_bytes = Pos(n, 0)
      /\ r \in ExtentRef
      /\ Pos(h, 0) \in Nat /\ Pos(e, 0) \in Nat /\ Pos(n, 0) \in Nat \ {0}
    BY <1>1, RefIs
<1>3. Pos(e, 0) + Pos(n, 0) = Pos(e + n, 0) BY PosSum
<1>4. e + n \in Int /\ ExtentSectors \in Int BY ReallocAssumption
<1>5. Pos(e + n, 0) <= Pos(ExtentSectors, 0) BY <1>1, <1>4, PosSum
<1>6. e + n \in Nat /\ e < e + n BY <1>1
<1> QED BY <1>1, <1>2, <1>3, <1>5, <1>6

\* Of numbers that have a bound there is a largest.
LEMMA LargestNumber ==
    ASSUME NEW T \in SUBSET Nat, T # {}, NEW bound \in Nat, \A x \in T : x <= bound
    PROVE  \E x \in T : \A y \in T : y <= x
<1> DEFINE S == {bound - x : x \in T}
<1>0. \A x \in T : bound - x \in Nat OBVIOUS
<1>1. S \in SUBSET Nat /\ S # {} BY <1>0
<1>2. PICK d \in S : \A y \in S : d <= y BY <1>1, LeastNumber
<1>3. PICK x \in T : d = bound - x BY <1>2
<1>4. ASSUME NEW y \in T PROVE y <= x
  <2>1. bound - y \in S OBVIOUS
  <2>2. d <= bound - y BY <1>2, <2>1
  <2> QED BY <2>2, <1>3
<1> QED BY <1>4

LEMMA InSpan ==
    ASSUME NEW r, IsRef(r), NEW p
    PROVE  p \in Span(r) <=> p \in Nat /\ r.extent_offset <= p /\ p < r.extent_offset + r.num_bytes
<1>1. r.extent_offset \in Nat /\ r.num_bytes \in Nat BY RefParts
<1> QED BY <1>1 DEF Span

\* A range of sectors of the extent.
IsRange(g) == \E a \in Nat, b \in Nat :
                 /\ a < b /\ b <= ExtentSectors
                 /\ g = [start |-> Pos(a, 0), end |-> Pos(b, 0)]

\* Some reference starts a live range, and each range ends where one of the
\* references ends that nothing covers the end of.
LEMMA RangeOf ==
    ASSUME NEW R, \A r \in R : IsRef(r), NEW g \in LiveRanges(R)
    PROVE  /\ IsRange(g)
           /\ \E r \in R : g.start = r.extent_offset
           /\ g.end \notin Covered(R)
           /\ \A p \in Covered(R) : p + 1 # g.start
           /\ \A r \in R : r.extent_offset + r.num_bytes > g.start
                             /\ r.extent_offset + r.num_bytes < g.end
                             => r.extent_offset + r.num_bytes \in Covered(R)
<1> DEFINE covered == Covered(R)
           ends == {r.extent_offset + r.num_bytes : r \in R} \ covered
           E(s) == {e \in ends : e > s}
<1>0. LiveRanges(R) = { [start |-> s, end |-> Min(E(s))] :
                          s \in {r.extent_offset : r \in R} \ {p + 1 : p \in covered} }
    BY DEF LiveRanges
<1>1. PICK s \in {r.extent_offset : r \in R} \ {p + 1 : p \in covered} :
         g = [start |-> s, end |-> Min(E(s))]
    BY <1>0
<1>2. PICK r \in R : s = r.extent_offset BY <1>1
<1>3. \A q \in R : /\ q.extent_offset \in Nat /\ q.num_bytes \in Nat /\ q.num_bytes >= 1
                   /\ q.extent_offset + q.num_bytes <= Pos(ExtentSectors, 0)
    BY RefParts
<1>4. Pos(ExtentSectors, 0) \in Nat
  <2>1. ExtentSectors \in Int /\ ExtentSectors >= 0 BY ReallocAssumption
  <2> QED BY <2>1, PosSum
<1> DEFINE T == {q.extent_offset + q.num_bytes : q \in R}
<1>5. T \in SUBSET Nat /\ T # {} /\ \A x \in T : x <= Pos(ExtentSectors, 0) BY <1>2, <1>3
<1>6. PICK m \in T : \A y \in T : y <= m BY <1>4, <1>5, LargestNumber
<1>7. m \notin covered
  <2> SUFFICES ASSUME m \in covered PROVE FALSE OBVIOUS
  <2>1. PICK q \in R : m \in Span(q) BY DEF Covered
  <2>2. m < q.extent_offset + q.num_bytes BY <2>1, InSpan
  <2>3. q.extent_offset + q.num_bytes \in T OBVIOUS
  <2> QED BY <2>2, <2>3, <1>3, <1>5, <1>6
<1>8. m \in E(s)
  <2>1. r.extent_offset + r.num_bytes <= m BY <1>6
  <2>2. m > s BY <2>1, <1>2, <1>3, <1>5, <1>6
  <2> QED BY <2>2, <1>6, <1>7
<1>9. E(s) \in SUBSET Nat BY <1>3
<1>10. Min(E(s)) \in E(s) /\ \A y \in E(s) : Min(E(s)) <= y BY <1>8, <1>9, MinIs
<1> DEFINE z == Min(E(s))
<1>11. z \in E(s) /\ \A y \in E(s) : z <= y BY <1>10
<1>12. g = [start |-> s, end |-> z] BY <1>1
<1> HIDE DEF z
<1>13. PICK t \in R : z = t.extent_offset + t.num_bytes BY <1>11
<1>14. IsRange(g)
  <2>1. PICK a \in Nat : s = Pos(a, 0) BY <1>2, RefParts
  <2>2. PICK b \in Nat : b <= ExtentSectors /\ z = Pos(b, 0) BY <1>13, RefParts
  <2>3. Pos(a, 0) < Pos(b, 0)
    <3>1. z > s BY <1>11
    <3>2. Pos(a, 0) \in Int /\ Pos(b, 0) \in Int BY PosSum
    <3> QED BY <3>1, <3>2, <2>1, <2>2
  <2>4. a < b BY <2>3, PosSum
  <2> QED BY <1>12, <2>1, <2>2, <2>4 DEF IsRange
<1>15. g.start = s /\ g.end = z BY <1>12
<1>16. z \notin covered BY <1>11
<1>17. \A p \in covered : p + 1 # s BY <1>1
<1>18. ASSUME NEW q \in R, q.extent_offset + q.num_bytes > s, q.extent_offset + q.num_bytes < z,
              q.extent_offset + q.num_bytes \notin covered
       PROVE  FALSE
  <2>1. q.extent_offset + q.num_bytes \in E(s) BY <1>18
  <2>2. z <= q.extent_offset + q.num_bytes BY <2>1, <1>11
  <2>3. z \in Nat BY <1>9, <1>11
  <2> QED BY <2>2, <2>3, <1>3, <1>18
<1> QED BY <1>2, <1>14, <1>15, <1>16, <1>17, <1>18

\* Where there is a reference there is a range.
LEMMA SomeRange ==
    ASSUME NEW R, R # {}, \A r \in R : IsRef(r)
    PROVE  LiveRanges(R) # {}
<1> DEFINE T == {r.extent_offset : r \in R}
<1>1. T \in SUBSET Nat /\ T # {} BY RefParts
<1>2. PICK s \in T : \A y \in T : s <= y BY <1>1, LeastNumber
<1>3. s \notin {p + 1 : p \in Covered(R)}
  <2> SUFFICES ASSUME NEW p \in Covered(R), s = p + 1 PROVE FALSE OBVIOUS
  <2>1. PICK r \in R : p \in Span(r) BY DEF Covered
  <2>2. p \in Nat /\ r.extent_offset <= p BY <2>1, InSpan
  <2>3. s <= r.extent_offset BY <1>2
  <2>4. r.extent_offset \in Nat BY RefParts
  <2> QED BY <2>2, <2>3, <2>4
<1>4. s \in T \ {p + 1 : p \in Covered(R)} BY <1>3
<1> QED BY <1>4 DEF LiveRanges

-----------------------------------------------------------------------------
(* The lookup.                                                             *)

\* The references are what items came to, and every holder has some.
LookOK ==
    /\ found \in [Files -> [first : Nat, last : Nat, count : Nat]]
    /\ refs = [f \in Files |-> refs[f]]
    /\ \A f \in Files : RefSet(refs[f]) /\ (refs[f] # {} => f \in Holders)
    /\ todo \subseteq Files
    /\ pc = "resolve" => \A f \in Files : refs[f] = {} /\ found[f].count = 0
    /\ pc \notin {"resolve", "done"} => todo \subseteq Holders /\ todo # {}
    /\ pc = "collect" => \A f \in Holders \ todo : refs[f] # {}
    /\ pc \notin {"resolve", "collect", "done"} => \A f \in Holders : refs[f] # {}

\* Where the items of a file are.
Places(f) == {r.file_offset : r \in Items(files[f].map)}

LEMMA PlacesFacts ==
    ASSUME FsOK, NEW f \in Files
    PROVE  /\ Places(f) \in SUBSET Nat /\ IsFiniteSet(Places(f))
           /\ Cardinality(Places(f)) \in Nat
           /\ Cardinality(Places(f)) = Cardinality(Items(files[f].map))
           /\ Places(f) # {} =>
                /\ Cardinality(Places(f)) > 0
                /\ Min(Places(f)) \in Nat /\ Max(Places(f)) \in Nat
                /\ \A p \in Places(f) : Min(Places(f)) <= p /\ p <= Max(Places(f))
<1> DEFINE I == Items(files[f].map)
           P == Places(f)
           F == [r \in I |-> r.file_offset]
<1>1. RefSet(I) /\ IsFiniteSet(I) BY ItemsAreRefs
<1>2. \A r \in I : r.file_offset \in Nat /\ r.num_bytes \in Nat /\ r.num_bytes >= 1
    BY <1>1, RefParts DEF RefSet
<1>3. P = {r.file_offset : r \in I} BY DEF Places
<1> HIDE DEF I, P
<1>4. P \in SUBSET Nat BY <1>2, <1>3
<1>5. F \in Surjection(I, P) BY <1>3 DEF Surjection
<1>6. F \in Injection(I, P)
  <2>1. F \in [I -> P] BY <1>5 DEF Surjection
  <2>2. ASSUME NEW r \in I, NEW s \in I, F[r] = F[s] PROVE r = s
    <3>1. r.file_offset = s.file_offset BY <2>2
    <3>2. r = s \/ Apart(r, s) BY <1>1 DEF RefSet
    <3> QED BY <3>1, <3>2, <1>2 DEF Apart
  <2> QED BY <2>1, <2>2 DEF Injection, IsInjective
<1>7. IsFiniteSet(P) /\ Cardinality(P) = Cardinality(I) BY <1>1, <1>5, <1>6, FS_Surjection
<1>8. Cardinality(P) \in Nat BY <1>7, FS_CardinalityType
<1>9. ASSUME P # {}
      PROVE  /\ Cardinality(P) > 0 /\ Min(P) \in Nat /\ Max(P) \in Nat
             /\ \A p \in P : Min(P) <= p /\ p <= Max(P)
  <2>1. Cardinality(P) # 0 BY <1>7, <1>9, FS_EmptySet
  <2>2. Min(P) \in P /\ \A p \in P : Min(P) <= p BY <1>4, <1>9, MinIs
  <2>3. \E x \in P : \A y \in P : x >= y
    <3>1. \A p \in P : p <= Pos(MaxSectors, 0)
      <4> SUFFICES ASSUME NEW r \in I PROVE r.file_offset <= Pos(MaxSectors, 0) BY <1>3
      <4>1. PICK h \in Nat, n \in Nat : n >= 1 /\ h + n <= MaxSectors /\ r.file_offset = Pos(h, 0)
        <5>1. IsRef(r) BY <1>1 DEF RefSet
        <5>2. PICK h \in Nat, e \in Nat, n \in Nat :
                 n >= 1 /\ h + n <= MaxSectors /\ r = Ref(h, e, n)
          BY <5>1 DEF IsRef
        <5>3. r.file_offset = Pos(h, 0) BY <5>2 DEF Ref
        <5> QED BY <5>2, <5>3
      <4>2. h <= MaxSectors /\ MaxSectors \in Int BY <4>1, BtrfsAssumption
      <4>3. Pos(h, 0) <= Pos(MaxSectors, 0) BY <4>2, PosUpTo
      <4> QED BY <4>1, <4>3
    <3>2. Pos(MaxSectors, 0) \in Nat
      <4>1. MaxSectors \in Int /\ MaxSectors >= 0 BY BtrfsAssumption
      <4> QED BY <4>1, PosSum
    <3>3. \E x \in P : \A y \in P : y <= x BY <1>4, <1>9, <3>1, <3>2, LargestNumber
    <3> QED BY <3>3, <1>4
  <2>4. Max(P) \in P /\ \A p \in P : Max(P) >= p BY <2>3 DEF Max
  <2>5. Cardinality(P) > 0 BY <2>1, <1>8
  <2>6. Min(P) \in Nat /\ Max(P) \in Nat BY <2>2, <2>4, <1>4
  <2>7. \A p \in P : p <= Max(P) BY <2>4, <2>6, <1>4
  <2> QED BY <2>2, <2>5, <2>6, <2>7
<1>10. /\ P \in SUBSET Nat /\ IsFiniteSet(P) /\ Cardinality(P) \in Nat
       /\ Cardinality(P) = Cardinality(I)
       /\ P # {} => /\ Cardinality(P) > 0 /\ Min(P) \in Nat /\ Max(P) \in Nat
                    /\ \A p \in P : Min(P) <= p /\ p <= Max(P)
    BY <1>4, <1>7, <1>8, <1>9, Zenon
<1> QED BY <1>10, Zenon DEF I, P

LEMMA InitLook == Init => LookOK
BY DEF Init, LookOK, RefSet, Holders

LEMMA LogicalInoLook ==
    ASSUME FsOK, LookOK, LogicalIno
    PROVE  LookOK'
<1> DEFINE offsets(f) == {r.file_offset : r \in Items(files[f].map)}
           held == {f \in Files : offsets(f) # {}}
<1>1. \A f \in Files : offsets(f) = Places(f) BY DEF Places
<1>2. \A f \in Files : refs[f] = {} /\ found[f].count = 0 BY DEF LogicalIno, LookOK
<1>3. CASE held = {} /\ Stop("Changed")
    BY <1>3 DEF LookOK, Stop, lookup, Holders
<1>4. CASE /\ held # {}
           /\ found' = [f \in Files |->
                    IF f \in held
                      THEN [first |-> Min(offsets(f)), last |-> Max(offsets(f)),
                            count |-> Cardinality(offsets(f))]
                      ELSE found[f]]
           /\ todo' = held
           /\ pc' = "collect"
           /\ UNCHANGED refs
  <2>1. ASSUME NEW f \in Files
        PROVE  /\ found'[f] \in [first : Nat, last : Nat, count : Nat]
               /\ f \in held => found'[f].count > 0
    <3>1. CASE f \in held
      <4>1. found'[f] = [first |-> Min(Places(f)), last |-> Max(Places(f)),
                         count |-> Cardinality(Places(f))]
          BY <1>1, <1>4, <3>1
      <4>2. Places(f) # {} BY <1>1, <3>1
      <4> QED BY <4>1, <4>2, PlacesFacts
    <3>2. CASE f \notin held
      <4>1. found'[f] = found[f] BY <1>4, <3>2
      <4> QED BY <4>1, <3>2 DEF LookOK
    <3> QED BY <3>1, <3>2
  <2>2. held \subseteq Holders' BY <2>1 DEF Holders
  <2>3. found' \in [Files -> [first : Nat, last : Nat, count : Nat]] BY <2>1, <1>4
  <2>4. held \subseteq Files OBVIOUS
  <2>5. \A f \in Files : RefSet(refs'[f]) /\ refs'[f] = {} BY <1>2, <1>4 DEF RefSet
  <2> HIDE DEF held
  <2>6. Holders' \subseteq Files BY DEF Holders
  <2>7. \A f \in Files : f \notin held => found'[f].count = 0 BY <1>2, <1>4
  <2>8. Holders' \ todo' = {} BY <2>7, <1>4 DEF Holders
  <2> QED BY <1>4, <2>2, <2>3, <2>4, <2>5, <2>8 DEF LookOK
<1> QED BY <1>3, <1>4 DEF LogicalIno

\* What is collected of a file is items of it, and some.
LEMMA CollectLook ==
    ASSUME FsOK, LookOK, Collect
    PROVE  LookOK'
<1> DEFINE got == {r \in Items(files[cur].map) :
                     found[cur].first <= r.file_offset /\ r.file_offset <= found[cur].last}
<1>1. pc = "collect" /\ todo \subseteq Holders /\ todo # {} /\ todo \subseteq Files
    BY DEF Collect, LookOK
<1>2. cur \in todo
  <2>1. todo \in SUBSET Nat BY <1>1, BtrfsAssumption
  <2> QED BY <2>1, <1>1, MinIs DEF cur
<1>3. CASE Stop("Changed") BY <1>3 DEF LookOK, Stop, lookup, Holders
<1>4. CASE /\ Cardinality(got) = found[cur].count
           /\ refs' = [refs EXCEPT ![cur] = got]
           /\ NextHolder("collect", "judge")
           /\ UNCHANGED found
  <2>1. found[cur].count > 0 /\ cur \in Files BY <1>1, <1>2 DEF Holders
  <2>2. RefSet(got) BY <2>1, ItemsAreRefs DEF RefSet
  <2>10. Cardinality(got) > 0 BY <2>1, <1>4
  <2> HIDE DEF got
  <2>3. got # {}
    <3>1. Cardinality({}) = 0 BY FS_EmptySet
    <3> QED BY <3>1, <2>10
  <2>4. Holders' = Holders /\ Holders \subseteq Files BY <1>4 DEF Holders
  <2>5. /\ refs' = [f \in Files |-> refs'[f]]
        /\ refs'[cur] = got
        /\ \A f \in Files : f # cur => refs'[f] = refs[f]
      BY <1>4, <2>1 DEF LookOK
  <2>6. \A f \in Files : RefSet(refs'[f]) /\ (refs'[f] # {} => f \in Holders')
      BY <2>2, <2>4, <2>5, <1>1, <1>2 DEF LookOK
  <2>7. \A f \in Holders \ todo : refs[f] # {} BY <1>1 DEF LookOK
  <2>8. CASE todo = {cur}
    <3>1. todo' = Holders /\ pc' = "judge" BY <1>4, <2>8 DEF NextHolder
    <3>2. \A f \in Holders : refs'[f] # {} BY <2>3, <2>4, <2>5, <2>7, <2>8
    <3> QED BY <3>1, <3>2, <2>4, <2>5, <2>6, <1>1, <1>4 DEF LookOK
  <2>9. CASE todo # {cur}
    <3>1. todo' = todo \ {cur} /\ pc' = "collect" BY <1>4, <2>9 DEF NextHolder
    <3>2. todo' # {} BY <3>1, <2>9, <1>2
    <3>3. \A f \in Holders \ todo' : refs'[f] # {} BY <2>3, <2>4, <2>5, <2>7, <3>1
    <3> QED BY <3>1, <3>2, <3>3, <2>4, <2>5, <2>6, <1>1, <1>4 DEF LookOK
  <2> QED BY <2>8, <2>9
<1> QED BY <1>3, <1>4 DEF Collect

\* The other steps visit holders, or end the rewrite.
Visits == /\ UNCHANGED <<found, refs>>
          /\ pc # "done"
          /\ \/ pc' = "done" /\ UNCHANGED todo
             \/ /\ pc \notin {"resolve", "collect"} /\ pc' \notin {"resolve", "collect", "done"}
                /\ \/ todo' = todo
                   \/ todo' = Holders
                   \/ todo # {cur} /\ todo' = todo \ {cur}

LEMMA StopVisits ==
    \A out : Stop(out) => pc' = "done" /\ UNCHANGED <<found, refs, todo>>
BY DEF Stop, lookup

LEMMA ToolVisits == ToolNext \/ Fault => LogicalIno \/ Collect \/ Visits
<1> SUFFICES ASSUME ToolNext \/ Fault PROVE LogicalIno \/ Collect \/ Visits
    OBVIOUS
<1> USE StopVisits DEF Visits, lookup
<1>3. CASE Judge BY <1>3 DEF Judge
<1>4. CASE InodePath BY <1>4 DEF InodePath
<1>5. CASE Inspect BY <1>5 DEF Inspect
<1>6. CASE FillOpen BY <1>6 DEF FillOpen
<1>7. CASE FillRead BY <1>7 DEF FillRead
<1>8. CASE EndStretch BY <1>8 DEF EndStretch
<1>9. CASE Before BY <1>9 DEF Before, NextHolder
<1>10. CASE Stage BY <1>10 DEF Stage
<1>11. CASE RedirectOpen BY <1>11 DEF RedirectOpen, Redirected, NextHolder
<1>12. CASE DedupeChunk BY <1>12 DEF DedupeChunk, Redirected, NextHolder
<1>13. CASE DedupeShort BY <1>13 DEF DedupeShort
<1>14. CASE FinishHolder BY <1>14 DEF FinishHolder
<1>15. CASE RedirectTail BY <1>15 DEF RedirectTail
<1>16. CASE Verify BY <1>16 DEF Verify, NextHolder
<1>17. CASE CheckReleased BY <1>17 DEF CheckReleased
<1>18. CASE Fault BY <1>18 DEF Fault
<1> QED BY <1>3, <1>4, <1>5, <1>6, <1>7, <1>8, <1>9, <1>10, <1>11, <1>12, <1>13, <1>14,
           <1>15, <1>16, <1>17, <1>18 DEF ToolNext

LEMMA VisitsLook ==
    ASSUME LookOK, Visits
    PROVE  LookOK'
<1>1. Holders' = Holders BY DEF Visits, Holders
<1>2. Holders \subseteq Files BY DEF Holders
<1>3. CASE pc' = "done" /\ UNCHANGED todo BY <1>1, <1>3 DEF Visits, LookOK
<1>4. CASE /\ pc \notin {"resolve", "collect"} /\ pc' \notin {"resolve", "collect", "done"}
           /\ \/ todo' = todo
              \/ todo' = Holders
              \/ todo # {cur} /\ todo' = todo \ {cur}
  <2>1. todo \subseteq Holders /\ todo # {} /\ \A f \in Holders : refs[f] # {}
      BY <1>4 DEF Visits, LookOK
  <2>2. todo' \subseteq Holders /\ todo' # {} BY <1>4, <2>1
  <2> QED BY <1>1, <1>2, <1>4, <2>1, <2>2 DEF Visits, LookOK
<1> QED BY <1>3, <1>4 DEF Visits

LEMMA NextLook ==
    ASSUME FsOK, LookOK, [Next]_vars
    PROVE  LookOK'
<1>1. CASE UNCHANGED vars BY <1>1 DEF LookOK, Holders, vars, tool, lookup
<1>2. CASE UserNext BY <1>2 DEF LookOK, Holders, UserNext, tool, lookup
<1>3. CASE ToolNext \/ Fault BY <1>3, ToolVisits, LogicalInoLook, CollectLook, VisitsLook
<1> QED BY <1>1, <1>2, <1>3 DEF Next, Done

-----------------------------------------------------------------------------
(* Reading.                                                                *)

LEMMA Min3 ==
    ASSUME NEW a \in Int, NEW b \in Int, NEW c \in Int
    PROVE  /\ Min({a, b, c}) \in Int
           /\ Min({a, b, c}) <= a /\ Min({a, b, c}) <= b /\ Min({a, b, c}) <= c
           /\ Min({a, b, c}) = a \/ Min({a, b, c}) = b \/ Min({a, b, c}) = c
<1>1. \E x \in {a, b, c} : \A y \in {a, b, c} : x <= y
    BY (a <= b /\ a <= c) \/ (b <= a /\ b <= c) \/ (c <= a /\ c <= b)
<1>2. Min({a, b, c}) \in {a, b, c} /\ \A y \in {a, b, c} : Min({a, b, c}) <= y BY <1>1 DEF Min
<1> QED BY <1>2

LEMMA MaxZero ==
    ASSUME NEW a \in Int
    PROVE  /\ Max({a, 0}) \in Int /\ a <= Max({a, 0}) /\ 0 <= Max({a, 0})
           /\ Max({a, 0}) = a \/ Max({a, 0}) = 0
<1> DEFINE z == 0
<1>1. z \in Int OBVIOUS
<1> HIDE DEF z
<1>2. /\ Max({a, z}) \in Int /\ a <= Max({a, z}) /\ z <= Max({a, z})
      /\ Max({a, z}) \in {a, z}
    BY <1>1, Max2
<1> QED BY <1>2 DEF z

LEMMA RangeParts ==
    ASSUME NEW g, IsRange(g)
    PROVE  /\ g.start \in Nat /\ g.end \in Nat /\ g.start < g.end
           /\ g.end <= Pos(ExtentSectors, 0) /\ Pos(ExtentSectors, 0) \in Nat
           /\ \E a \in Nat, b \in Nat : /\ a < b /\ b <= ExtentSectors
                                        /\ g.start = Pos(a, 0) /\ g.end = Pos(b, 0)
<1>1. PICK a \in Nat, b \in Nat :
         a < b /\ b <= ExtentSectors /\ g = [start |-> Pos(a, 0), end |-> Pos(b, 0)]
    BY DEF IsRange
<1>2. g.start = Pos(a, 0) /\ g.end = Pos(b, 0) BY <1>1
<1>3. a \in Int /\ b \in Int /\ ExtentSectors \in Int /\ ExtentSectors >= 0 BY ReallocAssumption
<1>4. Pos(a, 0) \in Nat /\ Pos(b, 0) \in Nat /\ Pos(a, 0) < Pos(b, 0) BY <1>1, <1>3, PosSum
<1>5. Pos(b, 0) <= Pos(ExtentSectors, 0) /\ Pos(ExtentSectors, 0) \in Nat BY <1>1, <1>3, PosSum
<1> QED BY <1>1, <1>2, <1>4, <1>5

\* The first of some ranges is one of them.
LEMMA FirstIs ==
    ASSUME NEW S, S # {}, \A g \in S : IsRange(g)
    PROVE  First(S) \in S /\ \A g \in S : First(S).start <= g.start
<1> DEFINE T == {g.start : g \in S}
<1>1. T \in SUBSET Nat /\ T # {} BY RangeParts
<1>2. PICK s \in T : \A y \in T : s <= y BY <1>1, LeastNumber
<1>3. PICK g \in S : g.start = s BY <1>2
<1>4. \A y \in S : g.start <= y.start BY <1>2, <1>3
<1> QED BY <1>4 DEF First

\* What fill keeps: the stretch it reads starts with a sector and lies in a range.
RdOK == /\ rd.at \in Nat /\ rd.start <= rd.at /\ rd.at <= range.end
        /\ \E k \in Nat : rd.start = Pos(k, 0)
        /\ \A p \in rd.left : p[1] \in Files /\ p[2] \in refs[p[1]]
FillOK ==
    /\ rd = [start |-> rd.start, at |-> rd.at, src |-> rd.src, from |-> rd.from, to |-> rd.to,
             left |-> rd.left]
    /\ pc \in {"fill", "pread"} => ranges # {} /\ (\A g \in ranges : IsRange(g)) /\ RdOK
    /\ pc = "pread" => /\ rd.src \in Files /\ rd.from \in Nat /\ rd.to \in Nat
                       /\ rd.at < rd.to /\ rd.to <= range.end
    /\ \A c \in copies : IsRange(c)

LEMMA AllRefsAre ==
    ASSUME LookOK
    PROVE  \A r \in AllRefs : IsRef(r)
BY DEF LookOK, AllRefs, RefSet, Holders

LEMMA StretchOK ==
    ASSUME LookOK, NEW k \in Nat, NEW s, s = Pos(k, 0), rd' = Stretch(s), s <= range.end',
           UNCHANGED refs
    PROVE  /\ RdOK'
           /\ rd' = [start |-> rd'.start, at |-> rd'.at, src |-> rd'.src, from |-> rd'.from,
                     to |-> rd'.to, left |-> rd'.left]
<1>1. Pos(k, 0) \in Nat BY PosSum
<1>2. /\ rd'.start = s /\ rd'.at = s
      /\ rd'.left = {p \in Files \X AllRefs : p[2] \in refs[p[1]]}
      /\ rd' = [start |-> rd'.start, at |-> rd'.at, src |-> rd'.src, from |-> rd'.from,
                to |-> rd'.to, left |-> rd'.left]
    BY DEF Stretch
<1>3. \A p \in rd'.left : p[1] \in Files /\ p[2] \in refs'[p[1]] BY <1>2
<1> QED BY <1>1, <1>2, <1>3 DEF RdOK

LEMMA InspectFill ==
    ASSUME LookOK, FillOK, Inspect, pc' = "fill"
    PROVE  FillOK'
<1>1. /\ todo' = Holders /\ ranges' = LiveRanges(AllRefs)
      /\ rd' = Stretch(First(ranges').start)
      /\ UNCHANGED <<copies, refs>>
    BY DEF Inspect, Stop, lookup
<1>2. \A r \in AllRefs : IsRef(r) BY AllRefsAre
<1>3. AllRefs # {}
  <2>1. pc = "inspect" BY DEF Inspect
  <2>2. PICK f \in Holders : refs[f] # {} BY <2>1 DEF LookOK
  <2> QED BY <2>2 DEF AllRefs
<1>4. ranges' # {} /\ \A g \in ranges' : IsRange(g) BY <1>1, <1>2, <1>3, SomeRange, RangeOf
<1>5. range' \in ranges' BY <1>4, FirstIs DEF range
<1>6. First(ranges') = range' BY DEF range
<1>7. PICK k \in Nat : range'.start = Pos(k, 0) BY <1>4, <1>5, RangeParts
<1>8. range'.start <= range'.end BY <1>4, <1>5, RangeParts
<1>9. rd' = Stretch(range'.start) BY <1>1, <1>6
<1>10. range.end' = range'.end OBVIOUS
<1>11. /\ RdOK'
       /\ rd' = [start |-> rd'.start, at |-> rd'.at, src |-> rd'.src, from |-> rd'.from,
                 to |-> rd'.to, left |-> rd'.left]
    BY <1>1, <1>7, <1>8, <1>9, StretchOK
<1> QED BY <1>1, <1>4, <1>11 DEF FillOK

LEMMA FillOpenFill ==
    ASSUME FsOK, LookOK, FillOK, FillOpen
    PROVE  FillOK'
<1>1. pc = "fill" /\ rd.at < range.end BY DEF FillOpen
<1>2. ranges # {} /\ (\A g \in ranges : IsRange(g)) /\ RdOK BY <1>1 DEF FillOK
<1>3. range \in ranges BY <1>2, FirstIs DEF range
<1>4. range.end \in Nat BY <1>2, <1>3, RangeParts
<1> DEFINE from(r) == r.file_offset + (rd.at - r.extent_offset)
           to(f, r) == Min({range.end, r.extent_offset + r.num_bytes,
                            rd.at + Max({files[f].size - from(r), 0})})
           left(p) == {q \in rd.left : q[2].extent_offset >= p[2].extent_offset} \ {p}
<1>5. PICK p \in Nearest :
        \/ Stop("Failed")
        \/ /\ rd' = IF to(p[1], p[2]) <= rd.at
                      THEN [rd EXCEPT !.left = left(p)]
                      ELSE [rd EXCEPT !.left = left(p), !.src = p[1],
                                      !.from = from(p[2]), !.to = to(p[1], p[2])]
           /\ pc' = IF to(p[1], p[2]) <= rd.at THEN "fill" ELSE "pread"
           /\ UNCHANGED <<ranges, copies, refs>>
    BY DEF FillOpen, lookup
<1>6. p \in rd.left /\ rd.at \in Span(p[2]) BY DEF Nearest, Sources
<1>7. p[1] \in Files /\ p[2] \in refs[p[1]] BY <1>2, <1>6 DEF RdOK
<1>8. IsRef(p[2]) BY <1>7 DEF LookOK, RefSet
<1>9. /\ p[2].extent_offset \in Nat /\ p[2].num_bytes \in Nat /\ p[2].file_offset \in Nat
      /\ p[2].extent_offset <= rd.at /\ rd.at \in Nat
    BY <1>6, <1>8, RefParts, InSpan
<1>10. from(p[2]) \in Nat BY <1>9
<1>11. files[p[1]].size \in Nat
  <2>1. files[p[1]].size \in Sizes BY <1>7, FileParts DEF FsOK
  <2> QED BY <2>1 DEF Sizes
<1> HIDE DEF from
<1>12. to(p[1], p[2]) \in Int /\ to(p[1], p[2]) <= range.end
  <2>0. files[p[1]].size - from(p[2]) \in Int BY <1>10, <1>11
  <2> DEFINE x == files[p[1]].size - from(p[2])
  <2>4. x \in Int BY <2>0
  <2> HIDE DEF x
  <2>5. Max({x, 0}) \in Int BY <2>4, MaxZero
  <2>1. Max({files[p[1]].size - from(p[2]), 0}) \in Int BY <2>5 DEF x
  <2>2. rd.at + Max({files[p[1]].size - from(p[2]), 0}) \in Int BY <2>1, <1>9
  <2>3. p[2].extent_offset + p[2].num_bytes \in Int /\ range.end \in Int BY <1>4, <1>9
  <2> QED BY <2>2, <2>3, Min3
<1> HIDE DEF to
<1>13. \A q \in left(p) : q \in rd.left OBVIOUS
<1> HIDE DEF left
<1>14. CASE Stop("Failed")
    BY <1>14 DEF Stop, reading, FillOK
<1>15. CASE to(p[1], p[2]) <= rd.at /\ rd' = [rd EXCEPT !.left = left(p)] /\ pc' = "fill"
            /\ UNCHANGED <<ranges, copies, refs>>
  <2>1. /\ rd'.start = rd.start /\ rd'.at = rd.at /\ rd'.left = left(p)
        /\ rd' = [start |-> rd'.start, at |-> rd'.at, src |-> rd'.src, from |-> rd'.from,
                  to |-> rd'.to, left |-> rd'.left]
      BY <1>15 DEF FillOK
  <2>2. range' = range BY <1>15 DEF range
  <2>3. RdOK' BY <2>1, <2>2, <1>2, <1>13, <1>15 DEF RdOK
  <2> QED BY <2>1, <2>3, <1>2, <1>15 DEF FillOK
<1>16. CASE /\ ~(to(p[1], p[2]) <= rd.at)
            /\ rd' = [rd EXCEPT !.left = left(p), !.src = p[1],
                                !.from = from(p[2]), !.to = to(p[1], p[2])]
            /\ pc' = "pread"
            /\ UNCHANGED <<ranges, copies, refs>>
  <2>1. /\ rd'.start = rd.start /\ rd'.at = rd.at /\ rd'.left = left(p)
        /\ rd'.src = p[1] /\ rd'.from = from(p[2]) /\ rd'.to = to(p[1], p[2])
        /\ rd' = [start |-> rd'.start, at |-> rd'.at, src |-> rd'.src, from |-> rd'.from,
                  to |-> rd'.to, left |-> rd'.left]
      BY <1>16 DEF FillOK
  <2>2. range' = range BY <1>16 DEF range
  <2>3. RdOK' BY <2>1, <2>2, <1>2, <1>13, <1>16 DEF RdOK
  <2>4. to(p[1], p[2]) \in Nat /\ rd.at < to(p[1], p[2]) BY <1>9, <1>12, <1>16
  <2> QED BY <2>1, <2>2, <2>3, <2>4, <1>2, <1>7, <1>10, <1>12, <1>16 DEF FillOK
<1> QED BY <1>5, <1>14, <1>15, <1>16

LEMMA FillReadFill ==
    ASSUME FillOK, FillRead
    PROVE  FillOK'
<1>1. CASE Stop("Failed") BY <1>1 DEF Stop, reading, FillOK
<1>2. CASE /\ rd' = [rd EXCEPT !.at = rd.to] /\ pc' = "fill"
           /\ UNCHANGED <<ranges, copies, refs>>
  <2>1. pc = "pread" BY DEF FillRead
  <2>2. /\ ranges # {} /\ (\A g \in ranges : IsRange(g)) /\ RdOK
        /\ rd.to \in Nat /\ rd.at < rd.to /\ rd.to <= range.end
      BY <2>1 DEF FillOK
  <2>3. /\ rd'.start = rd.start /\ rd'.at = rd.to /\ rd'.left = rd.left
        /\ rd' = [start |-> rd'.start, at |-> rd'.at, src |-> rd'.src, from |-> rd'.from,
                  to |-> rd'.to, left |-> rd'.left]
      BY <1>2 DEF FillOK
  <2>4. range' = range BY <1>2 DEF range
  <2>7. PICK k \in Nat : rd.start = Pos(k, 0) BY <2>2 DEF RdOK
  <2>5. rd.start \in Nat BY <2>7, PosSum
  <2>6. RdOK' BY <2>2, <2>3, <2>4, <2>5, <1>2 DEF RdOK
  <2> QED BY <2>2, <2>3, <2>6, <1>2 DEF FillOK
<1> QED BY <1>1, <1>2 DEF FillRead, lookup

LEMMA EndStretchFill ==
    ASSUME LookOK, FillOK, EndStretch
    PROVE  FillOK'
<1>1. pc = "fill" /\ UNCHANGED refs BY DEF EndStretch, lookup
<1>2. ranges # {} /\ (\A g \in ranges : IsRange(g)) /\ RdOK BY <1>1 DEF FillOK
<1>3. range \in ranges BY <1>2, FirstIs DEF range
<1>4. PICK b \in Nat : b <= ExtentSectors /\ range.end = Pos(b, 0) BY <1>2, <1>3, RangeParts
<1>5. rd.at \in Nat /\ rd.at <= range.end BY <1>2 DEF RdOK
<1>6. PICK k \in Nat : rd.start = Pos(k, 0) BY <1>2 DEF RdOK
<1> DEFINE w == rd.at \div SectorSize
<1>7. w \in Nat /\ Pos(w, 0) <= rd.at BY <1>5, PosDiv
<1>8. WholeEnd = Pos(w, 0) BY DEF WholeEnd
<1> HIDE DEF w
<1>9. w <= ExtentSectors
  <2>1. Pos(w, 0) \in Int /\ Pos(b, 0) \in Int BY <1>7, PosSum
  <2>2. Pos(w, 0) <= Pos(b, 0) BY <2>1, <1>4, <1>5, <1>7
  <2>3. w <= b BY <2>2, <1>7, PosSum
  <2> QED BY <2>3, <1>4, <1>7, ReallocAssumption
<1>10. \A c \in copies' : IsRange(c)
  <2>1. \A c \in copies : IsRange(c) BY DEF FillOK
  <2>2. copies' \subseteq copies \/ (/\ WholeEnd > rd.start
                                   /\ copies' = copies \union {[start |-> rd.start, end |-> WholeEnd]})
      BY DEF EndStretch
  <2>3. ASSUME WholeEnd > rd.start PROVE IsRange([start |-> rd.start, end |-> WholeEnd])
    <3>1. Pos(k, 0) \in Int /\ Pos(w, 0) \in Int BY <1>7, PosSum
    <3>2. Pos(k, 0) < Pos(w, 0) BY <3>1, <2>3, <1>6, <1>8
    <3>3. k < w BY <3>2, <1>7, PosSum
    <3> QED BY <3>3, <1>6, <1>7, <1>8, <1>9 DEF IsRange
  <2> QED BY <2>1, <2>2, <2>3
<1>11. CASE NextStart < range.end /\ rd' = Stretch(NextStart) /\ UNCHANGED <<pc, ranges>>
  <2> DEFINE later == {r.extent_offset : r \in {q \in AllRefs : q.extent_offset > rd.at}}
  <2>1. \A r \in AllRefs : IsRef(r) BY AllRefsAre
  <2>2. later # {}
    <3> SUFFICES ASSUME later = {} PROVE FALSE OBVIOUS
    <3>1. NextStart = range.end BY DEF NextStart
    <3>2. range.end \in Nat BY <1>2, <1>3, RangeParts
    <3> QED BY <3>1, <3>2, <1>11
  <2>3. NextStart = Min(later) BY <2>2 DEF NextStart
  <2>4. later \in SUBSET Nat BY <2>1, RefParts
  <2>5. NextStart \in later BY <2>2, <2>3, <2>4, MinIs
  <2>6. PICK r \in AllRefs : NextStart = r.extent_offset BY <2>5
  <2>7. PICK n \in Nat : NextStart = Pos(n, 0) BY <2>1, <2>6, RefParts
  <2>8. range' = range BY <1>11 DEF range
  <2>9. NextStart <= range.end'
    <3>1. NextStart \in Nat BY <2>4, <2>5
    <3>2. range.end \in Nat BY <1>2, <1>3, RangeParts
    <3> QED BY <3>1, <3>2, <2>8, <1>11
  <2> HIDE DEF later
  <2>10. /\ RdOK'
         /\ rd' = [start |-> rd'.start, at |-> rd'.at, src |-> rd'.src, from |-> rd'.from,
                   to |-> rd'.to, left |-> rd'.left]
      BY <1>1, <1>11, <2>7, <2>9, StretchOK
  <2> QED BY <1>1, <1>2, <1>10, <1>11, <2>10 DEF FillOK
<1>12. CASE /\ ranges' = ranges \ {range}
            /\ IF ranges' = {}
                 THEN pc' = "before" /\ UNCHANGED rd
                 ELSE rd' = Stretch(First(ranges').start) /\ UNCHANGED pc
  <2>1. CASE ranges' = {} BY <2>1, <1>10, <1>12 DEF FillOK
  <2>2. CASE ranges' # {}
    <3>1. \A g \in ranges' : IsRange(g) BY <1>2, <1>12
    <3>2. range' \in ranges' /\ First(ranges') = range' BY <2>2, <3>1, FirstIs DEF range
    <3>3. PICK n \in Nat : range'.start = Pos(n, 0) BY <3>1, <3>2, RangeParts
    <3>4. range'.start <= range.end' BY <3>1, <3>2, RangeParts
    <3>5. rd' = Stretch(range'.start) BY <1>12, <2>2, <3>2
    <3>6. /\ RdOK'
          /\ rd' = [start |-> rd'.start, at |-> rd'.at, src |-> rd'.src, from |-> rd'.from,
                    to |-> rd'.to, left |-> rd'.left]
        BY <1>1, <3>3, <3>4, <3>5, StretchOK
    <3> QED BY <1>1, <1>10, <1>12, <2>2, <3>1, <3>6 DEF FillOK
  <2> QED BY <2>1, <2>2
<1> QED BY <1>11, <1>12 DEF EndStretch

\* No other step reads or goes on to.
Aside == /\ rd' = rd /\ pc' \notin {"fill", "pread"} /\ copies' \subseteq copies

LEMMA StopAside == \A out : Stop(out) => Aside
BY DEF Stop, Aside, reading

LEMMA ToolAside ==
    ToolNext \/ Fault => \/ Inspect /\ pc' = "fill"
                        \/ FillOpen \/ FillRead \/ EndStretch \/ Aside
<1> SUFFICES ASSUME ToolNext \/ Fault
             PROVE  \/ Inspect /\ pc' = "fill"
                    \/ FillOpen \/ FillRead \/ EndStretch \/ Aside
    OBVIOUS
<1> USE StopAside DEF Aside, reading
<1>1. CASE LogicalIno BY <1>1 DEF LogicalIno
<1>2. CASE Collect BY <1>2 DEF Collect, NextHolder
<1>3. CASE Judge BY <1>3 DEF Judge
<1>4. CASE InodePath BY <1>4 DEF InodePath
<1>5. CASE Inspect BY <1>5 DEF Inspect
<1>9. CASE Before BY <1>9 DEF Before, NextHolder
<1>10. CASE Stage BY <1>10 DEF Stage
<1>11. CASE RedirectOpen BY <1>11 DEF RedirectOpen, Redirected, NextHolder
<1>12. CASE DedupeChunk BY <1>12 DEF DedupeChunk, Redirected, NextHolder
<1>13. CASE DedupeShort BY <1>13 DEF DedupeShort
<1>14. CASE FinishHolder BY <1>14 DEF FinishHolder
<1>15. CASE RedirectTail BY <1>15 DEF RedirectTail
<1>16. CASE Verify BY <1>16 DEF Verify, NextHolder
<1>17. CASE CheckReleased BY <1>17 DEF CheckReleased
<1>18. CASE Fault BY <1>18 DEF Fault
<1> QED BY <1>1, <1>2, <1>3, <1>4, <1>5, <1>9, <1>10, <1>11, <1>12, <1>13, <1>14,
           <1>15, <1>16, <1>17, <1>18 DEF ToolNext

LEMMA NextFill ==
    ASSUME FsOK, LookOK, FillOK, [Next]_vars
    PROVE  FillOK'
<1>1. CASE UNCHANGED <<tool>>
    BY <1>1 DEF FillOK, RdOK, range, tool, lookup, reading
<1>2. CASE Aside BY <1>2 DEF Aside, FillOK
<1>3. CASE ToolNext \/ Fault
    BY <1>2, <1>3, ToolAside, InspectFill, FillOpenFill, FillReadFill, EndStretchFill
<1> QED BY <1>1, <1>3 DEF Next, Done, UserNext, vars

-----------------------------------------------------------------------------
(* The calls that point one holder at a stretch.                           *)

\* What the reference of n sectors from h on, which starts at sector e of the
\* extent, has of the stretch from sector a to sector b.
From(e, a) == IF e >= a THEN e ELSE a
Upto(e, n, b) == IF e + n <= b THEN e + n ELSE b
Chunk(f, h, e, n, a, b) ==
    [at  |-> h + (From(e, a) - e), sec |-> From(e, a) - a,
     len |-> Min({Pos(Upto(e, n, b) - From(e, a), 0),
                  before[f].size - Pos(h + (From(e, a) - e), 0)})]
Has(f, h, e, n, a, b) == /\ From(e, a) < Upto(e, n, b)
                         /\ Pos(h + (From(e, a) - e), 0) < before[f].size

LEMMA MaxPos ==
    ASSUME NEW e \in Nat, NEW a \in Nat
    PROVE  Max({Pos(e, 0), Pos(a, 0)}) = Pos(From(e, a), 0) /\ From(e, a) \in Nat
<1>1. Pos(e, 0) \in Int /\ Pos(a, 0) \in Int BY PosSum
<1>2. /\ Max({Pos(e, 0), Pos(a, 0)}) \in {Pos(e, 0), Pos(a, 0)}
      /\ Pos(e, 0) <= Max({Pos(e, 0), Pos(a, 0)}) /\ Pos(a, 0) <= Max({Pos(e, 0), Pos(a, 0)})
    BY <1>1, Max2
<1>3. CASE e >= a
  <2>1. Pos(a, 0) <= Pos(e, 0) BY <1>3, PosSum
  <2> QED BY <2>1, <1>1, <1>2, <1>3 DEF From
<1>4. CASE e < a
  <2>1. Pos(e, 0) <= Pos(a, 0) BY <1>4, PosSum
  <2> QED BY <2>1, <1>1, <1>2, <1>4 DEF From
<1> QED BY <1>3, <1>4

LEMMA MinPos ==
    ASSUME NEW e \in Nat, NEW n \in Nat, NEW b \in Nat
    PROVE  Min({Pos(e, 0) + Pos(n, 0), Pos(b, 0)}) = Pos(Upto(e, n, b), 0) /\ Upto(e, n, b) \in Nat
<1> DEFINE d == e + n
<1>1. d \in Nat /\ Pos(e, 0) + Pos(n, 0) = Pos(d, 0) BY PosSum
<1>2. Upto(e, n, b) = IF d <= b THEN d ELSE b BY DEF Upto
<1> HIDE DEF d
<1>3. Pos(d, 0) \in Int /\ Pos(b, 0) \in Int BY <1>1, PosSum
<1>4. /\ Min({Pos(d, 0), Pos(b, 0)}) \in {Pos(d, 0), Pos(b, 0)}
      /\ Min({Pos(d, 0), Pos(b, 0)}) <= Pos(d, 0) /\ Min({Pos(d, 0), Pos(b, 0)}) <= Pos(b, 0)
    BY <1>3, Min2
<1>5. CASE d <= b
  <2>1. Pos(d, 0) <= Pos(b, 0) BY <1>1, <1>5, PosSum
  <2> QED BY <2>1, <1>1, <1>2, <1>3, <1>4, <1>5
<1>6. CASE b < d
  <2>1. Pos(b, 0) <= Pos(d, 0) BY <1>1, <1>6, PosSum
  <2> QED BY <2>1, <1>1, <1>2, <1>3, <1>4, <1>6
<1> QED BY <1>1, <1>5, <1>6

\* The smaller of two numbers is what it is.
LEMMA MinIsThis ==
    ASSUME NEW a \in Int, NEW b \in Int
    PROVE  Min({a, b}) = IF a <= b THEN a ELSE b
BY Min2

\* What Chunks works out for one reference.
LoOf(r)     == Max({r.extent_offset, copy.start})
ToOf(r)     == Min({r.extent_offset + r.num_bytes, copy.end})
DestOf(r)   == r.file_offset + (LoOf(r) - r.extent_offset)
EndOf(f, r) == Min({r.file_offset + r.num_bytes, before[f].size})
RecOf(f, r) == [at  |-> DestOf(r) \div SectorSize,
                sec |-> (LoOf(r) - copy.start) \div SectorSize,
                len |-> Min({ToOf(r) - LoOf(r), EndOf(f, r) - DestOf(r)})]
Overlaps(f, r) == LoOf(r) < ToOf(r) /\ DestOf(r) < EndOf(f, r)

LEMMA ChunkOfRef ==
    ASSUME NEW f \in Files, before[f].size \in Nat,
           NEW h \in Nat, NEW e \in Nat, NEW n \in Nat, n >= 1,
           NEW a \in Nat, NEW b \in Nat, copy.start = Pos(a, 0), copy.end = Pos(b, 0),
           NEW r, r = Ref(h, e, n)
    PROVE  /\ Overlaps(f, r) <=> Has(f, h, e, n, a, b)
           /\ Has(f, h, e, n, a, b) => RecOf(f, r) = Chunk(f, h, e, n, a, b)
<1> DEFINE lo == LoOf(r)
           to == ToOf(r)
           dest == DestOf(r)
           end == EndOf(f, r)
           l == From(e, a)
           t == Upto(e, n, b)
           d == h + (l - e)
           size == before[f].size
<1>1. r.file_offset = Pos(h, 0) /\ r.extent_offset = Pos(e, 0) /\ r.num_bytes = Pos(n, 0)
    BY DEF Ref
<1>2. lo = Pos(l, 0) /\ l \in Nat BY <1>1, MaxPos DEF LoOf
<1>3. to = Pos(t, 0) /\ t \in Nat
  <2>1. to = Min({Pos(e, 0) + Pos(n, 0), Pos(b, 0)}) BY <1>1 DEF ToOf
  <2> QED BY <2>1, MinPos
<1>4. l >= e /\ l >= a /\ (l = e \/ l = a) BY DEF From
<1>5. t <= e + n /\ t <= b BY DEF Upto
<1>6. size \in Nat OBVIOUS
<1> HIDE DEF l, t
<1>7. d \in Nat BY <1>2, <1>4
<1>8. dest = Pos(d, 0)
  <2>1. Pos(l, 0) - Pos(e, 0) = Pos(l - e, 0) BY <1>2, PosSum
  <2>2. l - e \in Int BY <1>2
  <2>3. Pos(h, 0) + Pos(l - e, 0) = Pos(d, 0) BY <2>2, PosSum
  <2> QED BY <2>1, <2>3, <1>1, <1>2 DEF DestOf
<1>9. Pos(h, 0) + Pos(n, 0) = Pos(h + n, 0) BY PosSum
<1>10. end = Min({Pos(h + n, 0), size}) BY <1>1, <1>9 DEF EndOf
<1>21. h + n \in Int OBVIOUS
<1>11. Pos(h + n, 0) \in Int BY <1>21, PosSum
<1>12. end = IF Pos(h + n, 0) <= size THEN Pos(h + n, 0) ELSE size BY <1>6, <1>10, <1>11, MinIsThis
<1> HIDE DEF d, dest, lo, to, end, size
<1>13. lo < to <=> l < t BY <1>2, <1>3, PosLess
<1>14. l < t => Pos(d, 0) < Pos(h + n, 0)
  <2>1. l < t => d < h + n BY <1>2, <1>3, <1>5 DEF d
  <2> QED BY <2>1, <1>7, <1>21, PosSum
<1>15. Pos(d, 0) \in Nat BY <1>7, PosInt
<1>16. lo < to /\ dest < end <=> l < t /\ Pos(d, 0) < size
    BY <1>6, <1>8, <1>11, <1>12, <1>13, <1>14, <1>15
<1>17. ASSUME l < t, Pos(d, 0) < size
       PROVE  /\ dest \div SectorSize = d /\ (lo - copy.start) \div SectorSize = l - a
              /\ Min({to - lo, end - dest}) = Min({Pos(t - l, 0), size - Pos(d, 0)})
  <2>1. dest \div SectorSize = d BY <1>7, <1>8, DivPos
  <2>2. lo - copy.start = Pos(l - a, 0) /\ l - a \in Nat BY <1>2, <1>4, PosSum
  <2>3. (lo - copy.start) \div SectorSize = l - a BY <2>2, DivPos
  <2>4. to - lo = Pos(t - l, 0) /\ t - l \in Int BY <1>2, <1>3, PosSum
  <2>5. Pos(t - l, 0) \in Int BY <2>4, PosSum
  <2>6. CASE Pos(h + n, 0) <= size
    <3>1. end - dest = Pos(h + n, 0) - Pos(d, 0) BY <2>6, <1>8, <1>12
    <3>2. Pos(h + n, 0) - Pos(d, 0) = Pos(h + n - d, 0) BY <1>7, PosSum
    <3>3. t - l <= h + n - d /\ h + n - d \in Int BY <1>2, <1>3, <1>5, <1>7 DEF d
    <3>4. Pos(t - l, 0) <= Pos(h + n - d, 0) BY <2>4, <3>3, PosSum
    <3>5. Pos(h + n - d, 0) \in Int BY <3>3, PosSum
    <3>6. end - dest \in Int /\ Pos(t - l, 0) <= end - dest BY <3>1, <3>2, <3>4, <3>5
    <3>7. Min({Pos(t - l, 0), end - dest}) = Pos(t - l, 0) BY <2>5, <3>6, MinIsThis
    <3>8. size - Pos(d, 0) \in Int /\ Pos(t - l, 0) <= size - Pos(d, 0)
        BY <2>5, <2>6, <3>1, <3>6, <1>6, <1>11, <1>15
    <3>9. Min({Pos(t - l, 0), size - Pos(d, 0)}) = Pos(t - l, 0) BY <2>5, <3>8, MinIsThis
    <3> QED BY <2>1, <2>3, <2>4, <3>7, <3>9
  <2>7. CASE ~(Pos(h + n, 0) <= size)
    <3>1. end - dest = size - Pos(d, 0) BY <2>7, <1>8, <1>12
    <3> QED BY <2>1, <2>3, <2>4, <3>1
  <2> QED BY <2>6, <2>7
<1>18. Has(f, h, e, n, a, b) <=> l < t /\ Pos(d, 0) < size BY DEF Has, l, t, d, size
<1>19. Chunk(f, h, e, n, a, b) = [at |-> d, sec |-> l - a,
                                  len |-> Min({Pos(t - l, 0), size - Pos(d, 0)})]
    BY DEF Chunk, l, t, d, size
<1>20. /\ lo < to /\ dest < end <=> Has(f, h, e, n, a, b)
       /\ Has(f, h, e, n, a, b) =>
            [at |-> dest \div SectorSize, sec |-> (lo - copy.start) \div SectorSize,
             len |-> Min({to - lo, end - dest})] = Chunk(f, h, e, n, a, b)
    BY <1>16, <1>17, <1>18, <1>19
<1> QED BY <1>20 DEF lo, to, dest, end, Overlaps, RecOf

\* The calls for a file are its references' chunks.
LEMMA ChunksAre ==
    ASSUME NEW f \in Files, before[f].size \in Nat, RefSet(refs[f]),
           NEW a \in Nat, NEW b \in Nat, copy.start = Pos(a, 0), copy.end = Pos(b, 0)
    PROVE  /\ \A c \in Chunks(f) :
                 \E h \in Nat, e \in Nat, n \in Nat :
                    /\ n >= 1 /\ h + n <= MaxSectors /\ e + n <= ExtentSectors
                    /\ Ref(h, e, n) \in refs[f]
                    /\ Has(f, h, e, n, a, b) /\ c = Chunk(f, h, e, n, a, b)
           /\ \A h \in Nat, e \in Nat, n \in Nat :
                 n >= 1 /\ Ref(h, e, n) \in refs[f] /\ Has(f, h, e, n, a, b)
                    => Chunk(f, h, e, n, a, b) \in Chunks(f)
<1>1. Chunks(f) = {RecOf(f, r) : r \in {q \in refs[f] : Overlaps(f, q)}}
    BY DEF Chunks, RecOf, Overlaps, LoOf, ToOf, DestOf, EndOf
<1>3. ASSUME NEW c \in Chunks(f)
      PROVE  \E h \in Nat, e \in Nat, n \in Nat :
                    /\ n >= 1 /\ h + n <= MaxSectors /\ e + n <= ExtentSectors
                    /\ Ref(h, e, n) \in refs[f]
                    /\ Has(f, h, e, n, a, b) /\ c = Chunk(f, h, e, n, a, b)
  <2>1. PICK r \in refs[f] : Overlaps(f, r) /\ c = RecOf(f, r) BY <1>1
  <2>2. PICK h \in Nat, e \in Nat, n \in Nat :
           n >= 1 /\ h + n <= MaxSectors /\ e + n <= ExtentSectors /\ r = Ref(h, e, n)
      BY <2>1 DEF RefSet, IsRef
  <2>3. Has(f, h, e, n, a, b) /\ c = Chunk(f, h, e, n, a, b) BY <2>1, <2>2, ChunkOfRef
  <2> QED BY <2>1, <2>2, <2>3
<1>4. ASSUME NEW h \in Nat, NEW e \in Nat, NEW n \in Nat, n >= 1,
             Ref(h, e, n) \in refs[f], Has(f, h, e, n, a, b)
      PROVE  Chunk(f, h, e, n, a, b) \in Chunks(f)
  <2> DEFINE r == Ref(h, e, n)
  <2>1. Overlaps(f, r) /\ RecOf(f, r) = Chunk(f, h, e, n, a, b) BY <1>4, ChunkOfRef
  <2>2. r \in refs[f] BY <1>4
  <2> HIDE DEF r
  <2>3. RecOf(f, r) \in Chunks(f) BY <2>1, <2>2, <1>1
  <2> QED BY <2>1, <2>3
<1> QED BY <1>3, <1>4

\* How a chunk lies: within the file, within its reference and within the stretch.
ChunkLies(f, h, e, n, a, b, c, l, t) ==
    /\ l \in Nat /\ t \in Nat /\ e <= l /\ a <= l /\ l < t /\ t <= e + n /\ t <= b
    /\ c.at \in Nat /\ c.at = h + (l - e)
    /\ c.sec \in Nat /\ c.sec = l - a
    /\ c.len \in Nat /\ c.len >= 1
    /\ c.len = Pos(t - l, 0) \/ Pos(c.at, 0) + c.len = before[f].size
    /\ c.len <= Pos(t - l, 0) /\ Pos(c.at, 0) + c.len <= before[f].size
    /\ Pos(c.sec, 0) + c.len <= Pos(b, 0) - Pos(a, 0)

LEMMA ChunkFacts ==
    ASSUME NEW f, before[f].size \in Nat, NEW h \in Nat, NEW e \in Nat, NEW n \in Nat, n >= 1,
           NEW a \in Nat, NEW b \in Nat, Has(f, h, e, n, a, b)
    PROVE  ChunkLies(f, h, e, n, a, b, Chunk(f, h, e, n, a, b), From(e, a), Upto(e, n, b))
<1> DEFINE c == Chunk(f, h, e, n, a, b)
           l == From(e, a)
           t == Upto(e, n, b)
           d == h + (l - e)
           size == before[f].size
<1>1. l \in Nat /\ e <= l /\ a <= l /\ (l = e \/ l = a) BY DEF From
<1>2. t \in Nat /\ t <= e + n /\ t <= b /\ (t = e + n \/ t = b) BY DEF Upto
<1>3. l < t /\ Pos(d, 0) < size BY DEF Has
<1>4. c = [at |-> d, sec |-> l - a, len |-> Min({Pos(t - l, 0), size - Pos(d, 0)})]
    BY DEF Chunk
<1>5. size \in Nat OBVIOUS
<1> HIDE DEF c, l, t, size
<1>6. d \in Nat /\ l - a \in Nat /\ t - l \in Nat BY <1>1, <1>2, <1>3
<1>7. Pos(d, 0) \in Nat /\ Pos(t - l, 0) \in Nat BY <1>6, PosInt
<1>8. Pos(t - l, 0) >= 1
  <2>1. 0 < t - l BY <1>1, <1>2, <1>3
  <2>2. Pos(0, 0) < Pos(t - l, 0) BY <2>1, <1>6, PosLess
  <2>3. Pos(0, 0) = 0 BY PosSum
  <2> QED BY <2>2, <2>3, <1>7
<1> HIDE DEF d
<1>9. size - Pos(d, 0) \in Int BY <1>5, <1>7
<1>10. c.at = d /\ c.sec = l - a /\ c.len = Min({Pos(t - l, 0), size - Pos(d, 0)}) BY <1>4
<1>11. c.len = IF Pos(t - l, 0) <= size - Pos(d, 0) THEN Pos(t - l, 0) ELSE size - Pos(d, 0)
    BY <1>7, <1>9, <1>10, MinIsThis
<1>12. /\ c.len \in Nat /\ c.len >= 1 /\ c.len <= Pos(t - l, 0)
       /\ Pos(d, 0) + c.len <= size
       /\ c.len = Pos(t - l, 0) \/ Pos(d, 0) + c.len = size
    BY <1>3, <1>5, <1>7, <1>8, <1>11
<1>13. Pos(l - a, 0) + c.len <= Pos(b, 0) - Pos(a, 0)
  <2>1. Pos(l - a, 0) + Pos(t - l, 0) = Pos((l - a) + (t - l), 0) BY <1>6, PosSum
  <2>2. (l - a) + (t - l) = t - a BY <1>1, <1>2
  <2>3. Pos(b, 0) - Pos(a, 0) = Pos(b - a, 0) BY PosSum
  <2>4. t - a \in Int /\ b - a \in Int /\ t - a <= b - a BY <1>1, <1>2
  <2>5. Pos(t - a, 0) <= Pos(b - a, 0) BY <2>4, PosSum
  <2>6. Pos(t - a, 0) \in Int /\ Pos(b - a, 0) \in Int /\ Pos(l - a, 0) \in Int
      BY <2>4, <1>6, PosInt
  <2>7. Pos(l - a, 0) + Pos(t - l, 0) <= Pos(b, 0) - Pos(a, 0) BY <2>1, <2>2, <2>3, <2>5
  <2> QED BY <2>3, <2>6, <2>7, <1>7, <1>12
<1>14. /\ l \in Nat /\ t \in Nat /\ e <= l /\ a <= l /\ l < t /\ t <= e + n /\ t <= b
       /\ c.at \in Nat /\ c.at = h + (l - e)
       /\ c.sec \in Nat /\ c.sec = l - a
       /\ c.len \in Nat /\ c.len >= 1
       /\ c.len = Pos(t - l, 0) \/ Pos(c.at, 0) + c.len = size
       /\ c.len <= Pos(t - l, 0) /\ Pos(c.at, 0) + c.len <= size
       /\ Pos(c.sec, 0) + c.len <= Pos(b, 0) - Pos(a, 0)
    BY <1>1, <1>2, <1>3, <1>6, <1>10, <1>12, <1>13 DEF d
<1> QED BY <1>14 DEF ChunkLies, c, l, t, size

-----------------------------------------------------------------------------
(* Staging and deduping.                                                   *)

\* A call lies within the stretch that is staged.
IsCall(c) == /\ c.at \in Nat /\ c.sec \in Nat /\ c.len \in Nat /\ c.len >= 1
             /\ Pos(c.sec, 0) + c.len <= copy.end - copy.start

StageOK ==
    /\ buf \in [0 .. Pos(ExtentSectors, 0) - 1 -> Bytes]
    /\ before \in [Files -> [size : Nat, mtime : Nat]] /\ name \in [Files -> Nat]
    /\ temp.size \in Nat
    /\ pc \in {"stage", "redirect", "dedupe"} => copies # {}
    /\ pc \in {"redirect", "dedupe"} =>
          DOMAIN disk[temp.addr] = 0 .. (copy.end - copy.start) \div SectorSize - 1
    /\ pc = "tail" => DOMAIN disk[temp.addr] = {0}
    /\ pc = "dedupe" => calls # {} /\ \A c \in calls : IsCall(c)

LEMMA CopySectors ==
    ASSUME FillOK, copies # {}
    PROVE  /\ copy \in copies
           /\ \E a \in Nat, b \in Nat :
                 /\ a < b /\ b <= ExtentSectors
                 /\ copy.start = Pos(a, 0) /\ copy.end = Pos(b, 0)
                 /\ copy.end - copy.start = Pos(b - a, 0)
                 /\ (copy.end - copy.start) \div SectorSize = b - a
<1>1. \A c \in copies : IsRange(c) BY DEF FillOK
<1>2. copy \in copies BY <1>1, FirstIs DEF copy
<1>3. PICK a \in Nat, b \in Nat : /\ a < b /\ b <= ExtentSectors
                                  /\ copy.start = Pos(a, 0) /\ copy.end = Pos(b, 0)
    BY <1>1, <1>2, RangeParts
<1>4. copy.end - copy.start = Pos(b - a, 0) /\ b - a \in Nat BY <1>3, PosSum
<1>5. (copy.end - copy.start) \div SectorSize = b - a BY <1>4, DivPos
<1> QED BY <1>2, <1>3, <1>4, <1>5

\* The first of some calls is one of them.
LEMMA CallIs ==
    ASSUME calls # {}, \A c \in calls : c.at \in Nat
    PROVE  call \in calls
<1> DEFINE T == {c.at : c \in calls}
<1>1. T \in SUBSET Nat /\ T # {} OBVIOUS
<1>2. PICK s \in T : \A y \in T : s <= y BY <1>1, LeastNumber
<1>3. PICK c \in calls : c.at = s BY <1>2
<1>4. \A d \in calls : c.at <= d.at BY <1>2, <1>3
<1> QED BY <1>4 DEF call

\* A dedupe moves no more sectors than there are in what it is asked to move.
LEMMA SectorsFit ==
    ASSUME NEW s \in Nat, NEW w \in Nat, NEW o \in Nat, NEW m \in Nat,
           Pos(s, 0) + (Pos(w, 0) + o) <= Pos(m, 0)
    PROVE  s + w <= m /\ (o # 0 => s + w < m)
<1>1. Pos(s, 0) + Pos(w, 0) = Pos(s + w, 0) BY PosSum
<1>2. s + w \in Int /\ s \in Int /\ w \in Int /\ m \in Int OBVIOUS
<1>3. Pos(s, 0) \in Int BY <1>2, PosInt
<1>4. Pos(w, 0) \in Int BY <1>2, PosInt
<1>5. Pos(m, 0) \in Int BY <1>2, PosInt
<1>6. Pos(s + w, 0) \in Int BY <1>2, PosInt
<1>7. Pos(s + w, 0) <= Pos(m, 0) /\ (o # 0 => Pos(s + w, 0) < Pos(m, 0))
    BY <1>1, <1>3, <1>4, <1>5, <1>6
<1>8. s + w <= m
  <2>1. ~(Pos(m, 0) < Pos(s + w, 0)) BY <1>5, <1>6, <1>7
  <2>2. Pos(m, 0) < Pos(s + w, 0) <=> m < s + w BY <1>2, PosLess
  <2> QED BY <2>1, <2>2, <1>2
<1>9. Pos(s + w, 0) < Pos(m, 0) <=> s + w < m BY <1>2, PosLess
<1> QED BY <1>7, <1>8, <1>9

LEMMA SectorsMoved ==
    ASSUME NEW f, NEW c, NEW src, NEW m \in Nat, c.sec \in Nat, c.len \in Nat,
           Pos(c.sec, 0) + c.len <= Pos(m, 0)
    PROVE  /\ DedupeSectors(f, c, src) \in Nat
           /\ c.sec + DedupeSectors(f, c, src) <= m
           /\ c.len \div SectorSize \in Nat
           /\ c.sec + c.len \div SectorSize <= m
<1> DEFINE s == c.sec
           l == c.len
           w == l \div SectorSize
           o == l % SectorSize
           d == DedupeSectors(f, c, src)
<1>0. s \in Nat /\ l \in Nat /\ Pos(s, 0) + l <= Pos(m, 0) OBVIOUS
<1>1. w \in Nat /\ o \in Offsets /\ l = Pos(w, 0) + o BY <1>0, PosDiv
<1>2. d = w + 0 \/ (o # 0 /\ d = w + 1) BY DEF DedupeSectors
<1> HIDE DEF d, w, o, l, s
<1>3. o \in Nat BY <1>1 DEF Offsets
<1>4. Pos(s, 0) + (Pos(w, 0) + o) <= Pos(m, 0) BY <1>0, <1>1
<1>5. s + w <= m /\ (o # 0 => s + w < m) BY <1>0, <1>1, <1>3, <1>4, SectorsFit
<1>6. d \in Nat /\ s + d <= m BY <1>0, <1>1, <1>2, <1>5
<1> QED BY <1>1, <1>5, <1>6 DEF d, w, l, s

\* A dedupe of sectors that are there.
LEMMA DedupeFs ==
    ASSUME Inv, FsOK, NEW f \in Files, NEW c, NEW n \in Nat, c.at \in Nat, c.sec \in Nat,
           Dedupe(f, c, n, temp), disk' = disk, temp.addr \in 1 .. Len(disk),
           NEW m \in Nat, DOMAIN disk[temp.addr] = 0 .. m - 1, c.sec + n <= m
    PROVE  FsOK'
<1> DEFINE P == Paste(files[f].map, c.at, n, temp.addr, c.sec)
<1>1. files' = [files EXCEPT ![f].map = P] BY DEF Dedupe
<1>2. files \in [Files -> File] /\ Len(disk) \in Nat BY AppendFacts DEF FsOK, Inv
<1>3. files[f].map \in [Sectors -> Mapping] /\ GoodMap(files[f].map, disk)
    BY <1>2, FileParts DEF FsOK
<1>4. \A s \in c.sec .. c.sec + n - 1 : s \in DOMAIN disk[temp.addr]
  <2> DEFINE q == c.sec
             D == DOMAIN disk[temp.addr]
  <2>1. q \in Nat /\ q + n <= m /\ D = 0 .. m - 1 OBVIOUS
  <2> HIDE DEF q, D
  <2>2. \A s \in q .. q + n - 1 : s \in D BY <2>1
  <2> QED BY <2>2 DEF q, D
<1>5. GoodMap(P, disk) /\ P \in [Sectors -> Mapping]
  <2> DEFINE mp == files[f].map
             t == temp.addr
             q == c.sec
             at == c.at
  <2>1. /\ mp \in [Sectors -> Mapping] /\ GoodMap(mp, disk) /\ at \in Nat /\ q \in Nat
        /\ t \in 1 .. Len(disk) /\ t \in Nat /\ n \in Int /\ Len(disk) \in Nat
        /\ \A s \in q .. q + n - 1 : s \in DOMAIN disk[t]
    BY <1>2, <1>3, <1>4
  <2> HIDE DEF mp, t, q, at
  <2>2. GoodMap(Paste(mp, at, n, t, q), disk) /\ Paste(mp, at, n, t, q) \in [Sectors -> Mapping]
    BY <2>1, PasteGood
  <2> QED BY <2>2 DEF mp, t, q, at
<1> HIDE DEF P
<1> DEFINE x == [files[f] EXCEPT !.map = P]
<1>6. files = [g \in Files |-> files[g]] BY <1>2
<1>7. BecomesAt(f, x) BY <1>1, <1>6 DEF BecomesAt
<1>8. x \in File /\ x.map = P BY <1>2, <1>5 DEF File
<1> HIDE DEF x
<1> QED BY <1>5, <1>7, <1>8, Changed

\* A temporary is staged.
LEMMA AppendFs ==
    ASSUME Inv, FsOK, NEW e, IsData(e), disk' = Append(disk, e), files' = files
    PROVE  FsOK' /\ disk'[Len(disk) + 1] = e
<1>1. IsSeq(disk) /\ Len(disk) \in Nat BY AppendFacts DEF Inv
<1>2. /\ Len(disk') = Len(disk) + 1 /\ disk'[Len(disk) + 1] = e
      /\ \A a \in 1 .. Len(disk) : disk'[a] = disk[a]
    BY <1>1, AppendFacts
<1>3. \A g \in Files : GoodMap(files'[g].map, disk') BY <1>1, AppendGood DEF FsOK
<1>4. \A a \in 1 .. Len(disk') : IsData(disk'[a])
  <2> SUFFICES ASSUME NEW a \in 1 .. Len(disk') PROVE IsData(disk'[a]) OBVIOUS
  <2>1. CASE a = Len(disk) + 1 BY <2>1, <1>2
  <2>2. CASE a # Len(disk) + 1
    <3>1. a \in 1 .. Len(disk) BY <2>2, <1>1, <1>2
    <3> QED BY <3>1, <1>2 DEF FsOK
  <2> QED BY <2>1, <2>2
<1>5. Len(disk') >= Ext /\ disk'[Ext] = InitDisk[Ext] BY <1>1, <1>2 DEF FsOK, Ext
<1> QED BY <1>2, <1>3, <1>4, <1>5 DEF FsOK

LEMMA CurIs ==
    ASSUME LookOK, pc \notin {"resolve", "done"}
    PROVE  cur \in todo /\ cur \in Files /\ cur \in Holders
<1>1. todo \subseteq Holders /\ todo # {} /\ todo \subseteq Files BY DEF LookOK
<1>2. todo \in SUBSET Nat BY <1>1, BtrfsAssumption
<1>3. cur \in todo BY <1>1, <1>2, MinIs DEF cur
<1> QED BY <1>1, <1>3

\* What the stretch staged and the calls still to make have to do with each other.
CopyOK ==
    /\ pc \in {"stage", "redirect", "dedupe"} => copies # {}
    /\ pc \in {"redirect", "dedupe"} =>
          DOMAIN disk[temp.addr] = 0 .. (copy.end - copy.start) \div SectorSize - 1
    /\ pc = "tail" => DOMAIN disk[temp.addr] = {0}
    /\ pc = "dedupe" => calls # {} /\ \A c \in calls : IsCall(c)

HolderOK ==
    /\ before \in [Files -> [size : Nat, mtime : Nat]] /\ name \in [Files -> Nat]
    /\ temp.size \in Nat

LEMMA StageParts ==
    StageOK <=> buf \in [0 .. Pos(ExtentSectors, 0) - 1 -> Bytes] /\ HolderOK /\ CopyOK
BY DEF StageOK, HolderOK, CopyOK

LEMMA StageNext ==
    buf' \in [0 .. Pos(ExtentSectors, 0) - 1 -> Bytes] /\ HolderOK' /\ CopyOK' => StageOK'
BY DEF StageOK, HolderOK, CopyOK

LEMMA SameCopy == copies' = copies => copy' = copy /\ \A c : IsCall(c)' = IsCall(c)
BY DEF copy, First, IsCall

LEMMA RedirectedCopy ==
    ASSUME FillOK, CopyOK, pc \in {"redirect", "dedupe"}, Redirected, UNCHANGED <<disk, temp>>
    PROVE  CopyOK'
<1>1. copies # {} BY DEF CopyOK
<1>2. copy \in copies BY <1>1, CopySectors
<1>3. CASE todo = {cur}
  <2>1. /\ copies' = copies \ {copy}
        /\ pc' = IF copies = {copy} THEN "finish" ELSE "stage"
    BY <1>3 DEF Redirected, NextHolder
  <2>2. pc' = "stage" => copies' # {} BY <2>1, <1>1
  <2>3. pc' \in {"stage", "finish"} BY <2>1
  <2> QED BY <2>2, <2>3 DEF CopyOK
<1>4. CASE todo # {cur}
  <2>1. copies' = copies /\ pc' = "redirect" BY <1>4 DEF Redirected, NextHolder
  <2> QED BY <2>1, <1>1, SameCopy DEF CopyOK
<1> QED BY <1>3, <1>4

LEMMA StageStage ==
    ASSUME Inv, FsOK, FillOK, StageOK, Stage
    PROVE  FsOK' /\ StageOK'
<1>1. copies # {} BY DEF StageOK, Stage
<1>2. PICK a \in Nat, b \in Nat : /\ a < b /\ b <= ExtentSectors
                                  /\ copy.start = Pos(a, 0) /\ copy.end = Pos(b, 0)
                                  /\ copy.end - copy.start = Pos(b - a, 0)
                                  /\ (copy.end - copy.start) \div SectorSize = b - a
    BY <1>1, CopySectors
<1> DEFINE e == [i \in 0 .. (copy.end - copy.start) \div SectorSize - 1 |->
                   [o \in Offsets |-> buf[copy.start + Pos(i, o)]]]
<1>3. /\ disk' = Append(disk, e)
      /\ temp' = [addr |-> Len(disk) + 1, size |-> Pos(1, copy.end - copy.start)]
      /\ pc' = "redirect"
      /\ UNCHANGED <<files, name, before, buf, copies, calls>>
    BY DEF Stage, lookup, reading
<1>4. DOMAIN e = 0 .. (copy.end - copy.start) \div SectorSize - 1 OBVIOUS
<1>5. IsData(e)
  <2> SUFFICES ASSUME NEW i \in 0 .. b - a - 1, NEW o \in Offsets
               PROVE  buf[copy.start + Pos(i, o)] \in Bytes
    BY <1>2 DEF IsData
  <2>0. i \in Nat /\ i < b - a /\ a + i + 1 <= b BY <1>2
  <2>1. Pos(i, o) = Pos(i, 0) + o /\ o \in Nat /\ o < SectorSize BY <2>0, DivPos
  <2>2. Pos(a, 0) + Pos(i, 0) = Pos(a + i, 0) BY <2>0, PosSum
  <2>3. a + i \in Nat /\ a + i + 1 <= ExtentSectors /\ ExtentSectors \in Nat
    BY <2>0, <1>2, ReallocAssumption
  <2> DEFINE k == a + i
  <2>4. k \in Nat /\ k + 1 <= ExtentSectors BY <2>3
  <2>5. copy.start + Pos(i, o) = Pos(k, 0) + o
    <3>1. Pos(a, 0) \in Int BY PosInt
    <3>2. Pos(i, 0) \in Int BY <2>0, PosInt
    <3> QED BY <3>1, <3>2, <2>1, <2>2, <1>2
  <2> HIDE DEF k
  <2>6. Pos(k + 1, 0) = Pos(k, 0) + SectorSize /\ Pos(k, 0) \in Nat BY <2>4, PosSum
  <2>7. Pos(k + 1, 0) <= Pos(ExtentSectors, 0) BY <2>3, <2>4, PosSum
  <2>8. Pos(ExtentSectors, 0) \in Int BY <2>3, PosInt
  <2>9. SectorSize \in Nat BY BtrfsAssumption
  <2>10. Pos(k, 0) + o \in 0 .. Pos(ExtentSectors, 0) - 1
    BY <2>1, <2>6, <2>7, <2>8, <2>9
  <2> QED BY <2>5, <2>10 DEF StageOK
<1> HIDE DEF e
<1>6. FsOK' /\ disk'[Len(disk) + 1] = e BY <1>3, <1>5, AppendFs
<1>7. temp'.addr = Len(disk) + 1 /\ temp'.size \in Nat
  <2>1. b - a \in Nat BY <1>2
  <2>2. Pos(b - a, 0) \in Nat BY <2>1, PosInt
  <2>3. SectorSize \in Nat BY BtrfsAssumption
  <2>4. Pos(1, copy.end - copy.start) \in Nat BY <1>2, <2>2, <2>3 DEF Pos
  <2> QED BY <2>4, <1>3
<1>8. HolderOK'
  <2>1. HolderOK BY StageParts
  <2> QED BY <2>1, <1>3, <1>7 DEF HolderOK
<1>9. CopyOK'
  <2>1. copy' = copy BY <1>3, SameCopy
  <2>2. DOMAIN disk'[temp'.addr] = 0 .. (copy'.end - copy'.start) \div SectorSize - 1
    BY <2>1, <1>4, <1>6, <1>7
  <2>3. copies' # {} BY <1>1, <1>3
  <2> QED BY <2>2, <2>3, <1>3 DEF CopyOK
<1>10. buf' \in [0 .. Pos(ExtentSectors, 0) - 1 -> Bytes] BY <1>3 DEF StageOK
<1>11. StageOK' BY <1>8, <1>9, <1>10, StageNext
<1> QED BY <1>6, <1>11

LEMMA ChunkIsCall ==
    ASSUME NEW f, before[f].size \in Nat, NEW h \in Nat, NEW e \in Nat, NEW n \in Nat, n >= 1,
           NEW a \in Nat, NEW b \in Nat, Has(f, h, e, n, a, b),
           NEW c, c = Chunk(f, h, e, n, a, b),
           copy.start = Pos(a, 0), copy.end = Pos(b, 0)
    PROVE  IsCall(c)
<1>1. /\ c.at \in Nat /\ c.sec \in Nat /\ c.len \in Nat /\ c.len >= 1
      /\ Pos(c.sec, 0) + c.len <= Pos(b, 0) - Pos(a, 0)
  <2>1. ChunkLies(f, h, e, n, a, b, c, From(e, a), Upto(e, n, b)) BY ChunkFacts
  <2> QED BY <2>1 DEF ChunkLies
<1> QED BY <1>1 DEF IsCall

\* The tool's steps that leave the filesystem and what is known of it alone.
LEMMA RedirectOpenStage ==
    ASSUME FsOK, LookOK, FillOK, StageOK, RedirectOpen
    PROVE  CopyOK'
<1>1. /\ pc = "redirect"
      /\ \/ Stop("Failed")
         \/ /\ calls' = Chunks(cur)
            /\ IF calls' = {} THEN Redirected
                              ELSE pc' = "dedupe" /\ UNCHANGED <<todo, copies>>
            /\ UNCHANGED <<disk, temp>>
    BY DEF RedirectOpen, fsvars
<1>2. CopyOK BY StageParts
<1>3. copies # {} BY <1>1, <1>2 DEF CopyOK
<1>4. CASE Stop("Failed") BY <1>4 DEF Stop, CopyOK
<1>5. CASE /\ calls' = Chunks(cur) /\ UNCHANGED <<disk, temp>>
           /\ calls' = {} /\ Redirected
    BY <1>1, <1>2, <1>5, RedirectedCopy
<1>6. CASE /\ calls' = Chunks(cur) /\ UNCHANGED <<disk, temp, copies>>
           /\ calls' # {} /\ pc' = "dedupe"
  <2>1. PICK a \in Nat, b \in Nat : /\ a < b /\ b <= ExtentSectors
                                    /\ copy.start = Pos(a, 0) /\ copy.end = Pos(b, 0)
                                    /\ copy.end - copy.start = Pos(b - a, 0)
    BY <1>3, CopySectors
  <2>2. cur \in Files BY <1>1, CurIs
  <2>3. before[cur].size \in Nat BY <2>2 DEF StageOK
  <2>4. RefSet(refs[cur]) BY <2>2 DEF LookOK
  <2>5. ASSUME NEW c \in Chunks(cur) PROVE IsCall(c)
    <3>1. PICK h \in Nat, e \in Nat, n \in Nat :
             n >= 1 /\ Has(cur, h, e, n, a, b) /\ c = Chunk(cur, h, e, n, a, b)
      BY <2>1, <2>2, <2>3, <2>4, <2>5, ChunksAre
    <3> QED BY <2>1, <2>3, <3>1, ChunkIsCall
  <2>6. \A c \in calls' : IsCall(c)' BY <1>6, <2>5, SameCopy
  <2>7. copy' = copy BY <1>6, SameCopy
  <2> QED BY <1>1, <1>2, <1>3, <1>6, <2>6, <2>7 DEF CopyOK
<1> QED BY <1>1, <1>4, <1>5, <1>6

LEMMA DedupeIs ==
    ASSUME Inv, FsOK, FillOK, StageOK, pc = "dedupe"
    PROVE  /\ call \in calls /\ IsCall(call)
           /\ temp.addr \in 1 .. Len(disk)
           /\ \E m \in Nat : /\ DOMAIN disk[temp.addr] = 0 .. m - 1
                             /\ Pos(call.sec, 0) + call.len <= Pos(m, 0)
                             /\ copy.end - copy.start = Pos(m, 0)
<1>1. CopyOK BY StageParts
<1>2. copies # {} /\ calls # {} /\ \A c \in calls : IsCall(c) BY <1>1 DEF CopyOK
<1>3. \A c \in calls : c.at \in Nat BY <1>2 DEF IsCall
<1>4. call \in calls /\ IsCall(call) BY <1>2, <1>3, CallIs
<1>5. temp.addr \in 1 .. Len(disk)
  <2>1. Len(disk) \in Nat BY AppendFacts DEF Inv
  <2> QED BY <2>1 DEF Inv, TempOK, Deduping
<1>6. PICK a \in Nat, b \in Nat : /\ a < b
                                  /\ copy.end - copy.start = Pos(b - a, 0)
                                  /\ (copy.end - copy.start) \div SectorSize = b - a
    BY <1>2, CopySectors
<1>7. b - a \in Nat BY <1>6
<1>8. DOMAIN disk[temp.addr] = 0 .. (b - a) - 1 BY <1>1, <1>6 DEF CopyOK
<1>9. Pos(call.sec, 0) + call.len <= Pos(b - a, 0) BY <1>4, <1>6 DEF IsCall
<1> QED BY <1>4, <1>5, <1>6, <1>7, <1>8, <1>9

LEMMA DedupeChunkStage ==
    ASSUME Inv, FsOK, LookOK, FillOK, StageOK, DedupeChunk
    PROVE  FsOK' /\ CopyOK'
<1>1. pc = "dedupe" BY DEF DedupeChunk
<1>2. CopyOK BY StageParts
<1>3. cur \in Files BY <1>1, CurIs
<1>4. call \in calls /\ IsCall(call) /\ temp.addr \in 1 .. Len(disk) BY <1>1, DedupeIs
<1>5. PICK m \in Nat : /\ DOMAIN disk[temp.addr] = 0 .. m - 1
                       /\ Pos(call.sec, 0) + call.len <= Pos(m, 0)
    BY <1>1, DedupeIs
<1>6. PICK n \in Moves(cur, call) :
        \/ Stop("Failed")
        \/ /\ Dedupe(cur, call, n, temp)
           /\ calls' = calls \ {call}
           /\ IF calls' = {} THEN Redirected ELSE UNCHANGED <<pc, todo, copies>>
           /\ UNCHANGED <<disk, temp>>
    BY DEF DedupeChunk
<1>7. CASE Stop("Failed")
  <2>1. files' = files /\ disk' = disk /\ pc' = "done" BY <1>7 DEF Stop, fsvars
  <2> QED BY <2>1 DEF FsOK, CopyOK
<1>8. CASE /\ Dedupe(cur, call, n, temp)
           /\ calls' = calls \ {call}
           /\ IF calls' = {} THEN Redirected ELSE UNCHANGED <<pc, todo, copies>>
           /\ UNCHANGED <<disk, temp>>
  <2>1. call.at \in Nat /\ call.sec \in Nat /\ call.len \in Nat BY <1>4 DEF IsCall
  <2>2. n \in Nat /\ call.sec + n <= m
    <3> DEFINE d == DedupeSectors(cur, call, temp)
    <3>1. d \in Nat /\ call.sec + d <= m BY <1>5, <2>1, SectorsMoved
    <3>2. n = d \/ n = 0 BY DEF Moves
    <3> HIDE DEF d
    <3> QED BY <3>1, <3>2, <2>1
  <2>9. Dedupe(cur, call, n, temp) /\ disk' = disk BY <1>8
  <2>3. FsOK' BY <1>3, <1>4, <1>5, <2>9, <2>1, <2>2, DedupeFs
  <2>4. CASE calls' = {}
    <3>1. Redirected /\ UNCHANGED <<disk, temp>> /\ pc \in {"redirect", "dedupe"}
      BY <1>1, <1>8, <2>4
    <3> QED BY <1>2, <2>3, <3>1, RedirectedCopy
  <2>5. CASE calls' # {}
    <3>1. /\ pc' = pc /\ copies' = copies /\ disk' = disk /\ temp' = temp
          /\ calls' \subseteq calls
      BY <1>8, <2>5
    <3>2. copy' = copy /\ \A c : IsCall(c)' = IsCall(c) BY <3>1, SameCopy
    <3>3. \A c \in calls' : IsCall(c)' BY <1>1, <1>2, <3>1, <3>2 DEF CopyOK
    <3> QED BY <1>1, <1>2, <2>3, <2>5, <3>1, <3>2, <3>3 DEF CopyOK
  <2> QED BY <2>3, <2>4, <2>5
<1> QED BY <1>6, <1>7, <1>8

LEMMA DedupeShortStage ==
    ASSUME Inv, FsOK, LookOK, FillOK, StageOK, DedupeShort
    PROVE  FsOK' /\ CopyOK'
<1>1. pc = "dedupe" BY DEF DedupeShort
<1>2. CopyOK BY StageParts
<1>3. cur \in Files BY <1>1, CurIs
<1>4. call \in calls /\ IsCall(call) /\ temp.addr \in 1 .. Len(disk) BY <1>1, DedupeIs
<1>5. PICK m \in Nat : /\ DOMAIN disk[temp.addr] = 0 .. m - 1
                       /\ Pos(call.sec, 0) + call.len <= Pos(m, 0)
                       /\ copy.end - copy.start = Pos(m, 0)
    BY <1>1, DedupeIs
<1> DEFINE rest(k) == [at |-> call.at + k, sec |-> call.sec + k, len |-> call.len - Pos(k, 0)]
<1>6. PICK k \in 0 .. call.len \div SectorSize :
        /\ Pos(k, 0) < call.len
        /\ \/ Stop("Failed")
           \/ /\ Dedupe(cur, call, k, temp)
              /\ calls' = (calls \ {call}) \union {rest(k)}
              /\ UNCHANGED <<disk, pc, copies, temp>>
    BY DEF DedupeShort
<1>7. CASE Stop("Failed")
  <2>1. files' = files /\ disk' = disk /\ pc' = "done" BY <1>7 DEF Stop, fsvars
  <2> QED BY <2>1 DEF FsOK, CopyOK
<1>8. CASE /\ Dedupe(cur, call, k, temp)
           /\ calls' = (calls \ {call}) \union {rest(k)}
           /\ UNCHANGED <<disk, pc, copies, temp>>
  <2>1. call.at \in Nat /\ call.sec \in Nat /\ call.len \in Nat BY <1>4 DEF IsCall
  <2>2. call.len \div SectorSize \in Nat /\ call.sec + call.len \div SectorSize <= m
    BY <1>5, <2>1, SectorsMoved
  <2>3. k \in Nat /\ call.sec + k <= m
    <3> DEFINE w == call.len \div SectorSize
               s == call.sec
    <3>1. w \in Nat /\ s \in Nat /\ s + w <= m /\ k \in 0 .. w BY <1>6, <2>1, <2>2
    <3> HIDE DEF w, s
    <3>2. k \in Nat /\ s + k <= m BY <3>1
    <3> QED BY <3>2 DEF s
  <2>4. FsOK' BY <1>3, <1>4, <1>5, <1>8, <2>1, <2>3, DedupeFs
  <2>5. IsCall(rest(k))
    <3> DEFINE s == call.sec
               l == call.len
    <3>1. s \in Nat /\ l \in Nat /\ k \in Nat /\ Pos(k, 0) < l /\ Pos(s, 0) + l <= Pos(m, 0)
      BY <1>5, <1>6, <2>1, <2>3
    <3>2. /\ rest(k).at = call.at + k /\ rest(k).sec = s + k /\ rest(k).len = l - Pos(k, 0)
          /\ call.at + k \in Nat
      BY <2>1, <2>3
    <3> HIDE DEF s, l
    <3>3. Pos(s, 0) + Pos(k, 0) = Pos(s + k, 0) BY <3>1, PosSum
    <3>4. Pos(s, 0) \in Int BY <3>1, PosInt
    <3>5. Pos(k, 0) \in Int BY <3>1, PosInt
    <3>6. Pos(m, 0) \in Int BY PosInt
    <3>7. l - Pos(k, 0) \in Nat /\ l - Pos(k, 0) >= 1 BY <3>1, <3>5
    <3>8. Pos(s + k, 0) + (l - Pos(k, 0)) <= Pos(m, 0) BY <3>1, <3>3, <3>4, <3>5, <3>6
    <3>9. s + k \in Nat BY <3>1
    <3> HIDE DEF rest
    <3> QED BY <3>2, <3>7, <3>8, <3>9, <1>5 DEF IsCall
  <2> HIDE DEF rest
  <2>6. copy' = copy /\ \A c : IsCall(c)' = IsCall(c) BY <1>8, SameCopy
  <2>7. calls' # {} /\ \A c \in calls' : IsCall(c)'
    BY <1>1, <1>2, <1>8, <2>5, <2>6 DEF CopyOK
  <2>8. CopyOK' BY <1>1, <1>2, <1>8, <2>6, <2>7 DEF CopyOK
  <2> QED BY <2>4, <2>8
<1> QED BY <1>6, <1>7, <1>8

\* A part sector at the end of a file is read and staged.
LEMMA FinishHolderStage ==
    ASSUME Inv, FsOK, LookOK, StageOK, FinishHolder
    PROVE  FsOK' /\ CopyOK' /\ HolderOK'
<1>1. pc = "finish" BY DEF FinishHolder
<1>2. cur \in Files BY <1>1, CurIs
<1>3. HolderOK BY StageParts
<1> DEFINE T == TailSector(cur)
           e == [i \in {0} |-> [o \in Offsets |->
                   IF Pos(T, o) < before[cur].size THEN Byte(cur, T, o) ELSE 0]]
<1>4. \/ /\ pc' \in {"done", "verify"}
         /\ UNCHANGED <<files, disk, name, before, temp>>
      \/ /\ HoldsTail(cur) /\ files[cur].size >= before[cur].size
         /\ disk' = Append(disk, e)
         /\ temp' = [addr |-> Len(disk) + 1, size |-> Pos(1, before[cur].size % SectorSize)]
         /\ pc' = "tail"
         /\ UNCHANGED <<files, name, before>>
    BY DEF FinishHolder, Stop, fsvars, lookup
<1>5. CASE /\ pc' \in {"done", "verify"}
           /\ UNCHANGED <<files, disk, name, before, temp>>
    BY <1>3, <1>5 DEF FsOK, CopyOK, HolderOK
<1>6. CASE /\ HoldsTail(cur) /\ files[cur].size >= before[cur].size
           /\ disk' = Append(disk, e)
           /\ temp' = [addr |-> Len(disk) + 1, size |-> Pos(1, before[cur].size % SectorSize)]
           /\ pc' = "tail"
           /\ UNCHANGED <<files, name, before>>
  <2> DEFINE z == before[cur].size
  <2>1. z \in Nat BY <1>2, <1>3 DEF HolderOK
  <2>2. T = z \div SectorSize BY DEF TailSector
  <2>3. files[cur].size \in Sizes BY <1>2, FileParts DEF FsOK
  <2>4. files[cur].size >= z BY <1>6
  <2>5. z % SectorSize # 0 BY <1>6 DEF HoldsTail
  <2> HIDE DEF z, T
  <2>6. /\ T \in Nat /\ z % SectorSize \in Offsets /\ z = Pos(T, 0) + (z % SectorSize)
    BY <2>1, <2>2, PosDiv
  <2> DEFINE w == z % SectorSize
  <2>7. w \in Nat /\ w # 0 /\ w \in Offsets BY <2>5, <2>6 DEF Offsets
  <2>8. T \in Sectors
    <3>1. MaxSectors \in Nat BY BtrfsAssumption
    <3>2. Pos(MaxSectors, 0) \in Nat BY <3>1, PosInt
    <3>3. Pos(T, 0) \in Nat BY <2>6, PosInt
    <3>4. z <= Pos(MaxSectors, 0) BY <2>1, <2>3, <2>4, <3>2 DEF Sizes
    <3>5. Pos(T, 0) < Pos(MaxSectors, 0) BY <2>1, <2>6, <2>7, <3>2, <3>3, <3>4
    <3>6. T < MaxSectors BY <2>6, <3>1, <3>5, PosLess
    <3> QED BY <2>6, <3>1, <3>6 DEF Sectors
  <2>9. \A o \in Offsets : Byte(cur, T, o) \in Bytes BY <1>2, <2>8, ReadsBytes DEF Inv
  <2>10. IsData(e) /\ DOMAIN e = {0}
    <3>1. DOMAIN e = {0} OBVIOUS
    <3>2. 0 \in Bytes BY BtrfsAssumption
    <3>3. e[0] \in [Offsets -> Bytes] BY <2>9, <3>2
    <3> QED BY <3>1, <3>3 DEF IsData
  <2> HIDE DEF e
  <2>11. FsOK' /\ disk'[Len(disk) + 1] = e BY <1>6, <2>10, AppendFs
  <2>12. temp'.addr = Len(disk) + 1 /\ temp'.size = Pos(1, w) BY <1>6 DEF z
  <2>13. Pos(1, w) \in Nat
    <3>1. SectorSize \in Nat BY BtrfsAssumption
    <3> HIDE DEF w
    <3> QED BY <3>1, <2>7 DEF Pos
  <2>14. HolderOK' BY <1>3, <1>6, <2>12, <2>13 DEF HolderOK
  <2>15. CopyOK' BY <1>6, <2>10, <2>11, <2>12 DEF CopyOK
  <2> QED BY <2>11, <2>14, <2>15
<1> QED BY <1>4, <1>5, <1>6

LEMMA RedirectTailStage ==
    ASSUME Inv, FsOK, LookOK, StageOK, RedirectTail
    PROVE  FsOK' /\ CopyOK'
<1>1. pc = "tail" BY DEF RedirectTail
<1>2. cur \in Files BY <1>1, CurIs
<1>3. HolderOK /\ CopyOK BY StageParts
<1> DEFINE z == before[cur].size
           c == [at |-> TailSector(cur), sec |-> 0, len |-> z % SectorSize]
<1>4. PICK n \in Moves(cur, c) :
        /\ pc' \in {"done", "verify"}
        /\ disk' = disk
        /\ \/ files' = files
           \/ Dedupe(cur, c, n, temp)
    BY DEF RedirectTail, Stop, fsvars
<1>5. CopyOK' BY <1>4 DEF CopyOK
<1>6. CASE files' = files BY <1>4, <1>5, <1>6 DEF FsOK
<1>7. CASE Dedupe(cur, c, n, temp)
  <2>1. z \in Nat BY <1>2, <1>3 DEF HolderOK
  <2>2. z \div SectorSize \in Nat /\ z % SectorSize \in Offsets
    <3> HIDE DEF z
    <3> QED BY <2>1, PosDiv
  <2>3. c.at \in Nat /\ c.sec = 0 /\ c.sec \in Nat /\ c.len \in Offsets BY <2>2 DEF TailSector
  <2> HIDE DEF c
  <2>4. SectorSize \in Nat BY BtrfsAssumption
  <2>5. c.len \in Nat /\ c.len < SectorSize BY <2>3, <2>4 DEF Offsets
  <2>6. Pos(c.sec, 0) + c.len <= Pos(1, 0)
    <3>1. Pos(c.sec, 0) = 0 BY <2>3, <2>4 DEF Pos
    <3>2. Pos(1, 0) = SectorSize BY <2>4 DEF Pos
    <3> QED BY <3>1, <3>2, <2>4, <2>5
  <2>7. n \in Nat /\ c.sec + n <= 1
    <3> DEFINE d == DedupeSectors(cur, c, temp)
               m == 1
    <3>0. m \in Nat /\ Pos(c.sec, 0) + c.len <= Pos(m, 0) BY <2>6
    <3>2. n = d \/ n = 0 BY DEF Moves
    <3> HIDE DEF m
    <3>1. d \in Nat /\ c.sec + d <= m BY <2>3, <2>5, <3>0, SectorsMoved
    <3> HIDE DEF d
    <3>3. c.sec + d <= 1 BY <3>1 DEF m
    <3> QED BY <3>1, <3>2, <3>3, <2>3
  <2>8. temp.addr \in 1 .. Len(disk)
    <3>1. Len(disk) \in Nat BY AppendFacts DEF Inv
    <3> QED BY <3>1, <1>1 DEF Inv, TempOK, Deduping
  <2>9. FsOK'
    <3> DEFINE m == 1
    <3>1. m \in Nat /\ c.sec + n <= m BY <2>7
    <3>2. DOMAIN disk[temp.addr] = 0 .. m - 1
      <4>1. DOMAIN disk[temp.addr] = {0} BY <1>1, <1>3 DEF CopyOK
      <4> QED BY <4>1
    <3> HIDE DEF m
    <3> QED BY <1>2, <1>4, <1>7, <2>3, <2>7, <2>8, <3>1, <3>2, DedupeFs
  <2> QED BY <1>5, <2>9
<1> QED BY <1>4, <1>6, <1>7

\* What fill reads are bytes.
LEMMA FillReadBuf ==
    ASSUME Inv, FsOK, FillOK, StageOK, FillRead, pc' = "fill"
    PROVE  buf' \in [0 .. Pos(ExtentSectors, 0) - 1 -> Bytes]
<1>1. /\ pc = "pread"
      /\ files[rd.src].size >= rd.from + (rd.to - rd.at)
      /\ buf' = [p \in DOMAIN buf |->
                   IF p \in rd.at .. rd.to - 1
                     THEN ByteAt(rd.src, rd.from + (p - rd.at)) ELSE buf[p]]
    BY DEF FillRead, Stop
<1> DEFINE D == 0 .. Pos(ExtentSectors, 0) - 1
<1>2. buf \in [D -> Bytes] BY DEF StageOK
<1> DEFINE f == rd.src
           a == rd.at
           t == rd.to
           h == rd.from
<1>3. f \in Files /\ a \in Nat /\ t \in Nat /\ h \in Nat /\ a < t BY <1>1 DEF FillOK, RdOK
<1>4. files[f].size >= h + (t - a) BY <1>1
<1>5. buf' = [p \in D |-> IF p \in a .. t - 1 THEN ByteAt(f, h + (p - a)) ELSE buf[p]]
    BY <1>1, <1>2
<1> HIDE DEF D, f, a, t, h
<1>6. files[f].size \in Sizes BY <1>3, FileParts DEF FsOK
<1>7. ASSUME NEW p \in a .. t - 1 PROVE ByteAt(f, h + (p - a)) \in Bytes
  <2> DEFINE q == h + (p - a)
             s == q \div SectorSize
             o == q % SectorSize
  <2>1. q \in Nat BY <1>3, <1>7
  <2>2. MaxSectors \in Nat BY BtrfsAssumption
  <2>3. Pos(MaxSectors, 0) \in Nat BY <2>2, PosInt
  <2>4. files[f].size \in Nat /\ files[f].size <= Pos(MaxSectors, 0) BY <1>6, <2>3 DEF Sizes
  <2>5. q < Pos(MaxSectors, 0) BY <1>3, <1>4, <1>7, <2>3, <2>4
  <2> HIDE DEF q
  <2>6. s \in Nat /\ o \in Offsets /\ Pos(s, 0) <= q BY <2>1, PosDiv
  <2>7. ByteAt(f, q) = Byte(f, s, o) BY DEF ByteAt
  <2> HIDE DEF s, o
  <2>8. Pos(s, 0) \in Nat BY <2>6, PosInt
  <2>9. Pos(s, 0) < Pos(MaxSectors, 0) BY <2>1, <2>3, <2>5, <2>6, <2>8
  <2>10. s < MaxSectors BY <2>2, <2>6, <2>9, PosLess
  <2>11. s \in Sectors BY <2>2, <2>6, <2>10 DEF Sectors
  <2>12. Byte(f, s, o) \in Bytes BY <1>3, <2>6, <2>11, ReadsBytes DEF Inv
  <2> QED BY <2>7, <2>12 DEF q
<1>8. buf' \in [D -> Bytes] BY <1>2, <1>5, <1>7
<1> QED BY <1>8 DEF D

\* Whatever a user does, extents are only added.
LEMMA UserAppends ==
    ASSUME UserNext
    PROVE  /\ disk' = disk \/ \E e : disk' = Append(disk, e)
           /\ ops > 0 /\ ops' = ops - 1
           /\ UNCHANGED <<apply, tool>>
<1>1. PICK f \in Files :
         \/ \E i \in Sectors, o \in Offsets, b \in WriteBytes : UserWrite(f, i, o, b)
         \/ \E n \in Sizes : UserShrink(f, n) \/ UserGrow(f, n)
         \/ \E g \in Files : UserClone(f, g)
         \/ UserRename(f) \/ UserUnlink(f) \/ UserClose(f)
    BY DEF UserNext, UserStep
<1> DEFINE D == disk' = disk \/ \E e : disk' = Append(disk, e)
           O == \E op : User(op)
<1>2. CASE \E i \in Sectors, o \in Offsets, b \in WriteBytes : UserWrite(f, i, o, b)
  <2>1. PICK i \in Sectors, o \in Offsets, b \in WriteBytes : UserWrite(f, i, o, b) BY <1>2
  <2>2. O BY <2>1, Zenon DEF UserWrite
  <2>3. D BY <2>1, Zenon DEF UserWrite
  <2> QED BY <2>2, <2>3 DEF UserNext, User
<1>3. CASE \E n \in Sizes : UserShrink(f, n)
  <2>1. PICK n \in Sizes : UserShrink(f, n) BY <1>3
  <2>2. O BY <2>1, Zenon DEF UserShrink
  <2>3. D BY <2>1, Zenon DEF UserShrink
  <2> QED BY <2>2, <2>3 DEF UserNext, User
<1>4. CASE \E n \in Sizes : UserGrow(f, n)
  <2>1. PICK n \in Sizes : UserGrow(f, n) BY <1>4
  <2>2. O BY <2>1, Zenon DEF UserGrow
  <2>3. D BY <2>1, Zenon DEF UserGrow
  <2> QED BY <2>2, <2>3 DEF UserNext, User
<1>5. CASE \E g \in Files : UserClone(f, g)
  <2>1. PICK g \in Files : UserClone(f, g) BY <1>5
  <2>2. O BY <2>1, Zenon DEF UserClone
  <2>3. D BY <2>1, Zenon DEF UserClone
  <2> QED BY <2>2, <2>3 DEF UserNext, User
<1>6. CASE UserRename(f) \/ UserUnlink(f) \/ UserClose(f)
  <2>2. O BY <1>6, Zenon DEF UserRename, UserUnlink, UserClose
  <2>3. D BY <1>6, Zenon DEF UserRename, UserUnlink, UserClose
  <2> QED BY <2>2, <2>3 DEF UserNext, User
<1> QED BY <1>1, <1>2, <1>3, <1>4, <1>5, <1>6

\* The tool's variables that StageOK is about, and the extent staged, stay.
LEMMA StageKept ==
    ASSUME StageOK, UNCHANGED <<pc, buf, before, name, temp, copies, calls>>,
           pc \in {"redirect", "dedupe", "tail"} => disk'[temp.addr] = disk[temp.addr]
    PROVE  StageOK'
<1>1. copy' = copy /\ \A c : IsCall(c)' = IsCall(c) BY SameCopy
<1>2. CopyOK /\ HolderOK BY StageParts
<1>3. CopyOK' BY <1>1, <1>2 DEF CopyOK
<1>4. HolderOK' BY <1>2 DEF HolderOK
<1>5. buf' \in [0 .. Pos(ExtentSectors, 0) - 1 -> Bytes] BY DEF StageOK
<1> QED BY <1>3, <1>4, <1>5, StageNext

LEMMA UserStage ==
    ASSUME Inv, StageOK, UserNext
    PROVE  StageOK'
<1>1. UNCHANGED <<pc, buf, before, name, temp, copies, calls>>
    BY DEF UserNext, tool, lookup, reading
<1>2. IsSeq(disk) /\ Len(disk) \in Nat BY AppendFacts DEF Inv
<1>3. pc \in {"redirect", "dedupe", "tail"} => temp.addr \in 1 .. Len(disk)
    BY <1>2 DEF Inv, TempOK, Deduping
<1>4. disk' = disk \/ \E e : disk' = Append(disk, e) BY UserAppends
<1>5. pc \in {"redirect", "dedupe", "tail"} => disk'[temp.addr] = disk[temp.addr]
  <2>1. CASE disk' = disk BY <2>1
  <2>2. CASE \E e : disk' = Append(disk, e)
    <3>1. PICK e : disk' = Append(disk, e) BY <2>2
    <3> QED BY <3>1, <1>2, <1>3, AppendFacts
  <2> QED BY <2>1, <2>2, <1>4
<1> QED BY <1>1, <1>5, StageKept

\* The other steps of the tool leave the filesystem alone, and the staging too.
Away ==
    /\ UNCHANGED <<files, disk, temp>>
    /\ buf' = buf \/ (FillRead /\ pc' = "fill")
    /\ \/ before' = before
       \/ /\ cur \in Files
          /\ before' = [before EXCEPT ![cur] = [size |-> files[cur].size, mtime |-> files[cur].mtime]]
    /\ \/ name' = name
       \/ cur \in Files /\ name' = [name EXCEPT ![cur] = files[cur].link]
    /\ \/ pc' \notin {"stage", "redirect", "dedupe", "tail"}
       \/ pc' = "stage" /\ copies' # {}

LEMMA StopAway == \A out : Stop(out) => Away /\ UNCHANGED <<before, name, buf, files, disk, temp>>
BY DEF Stop, Away, fsvars, lookup, reading

LEMMA ToolAway ==
    ASSUME LookOK, ToolNext \/ Fault
    PROVE  \/ Away
           \/ Stage \/ RedirectOpen \/ DedupeChunk \/ DedupeShort \/ FinishHolder \/ RedirectTail
<1> USE StopAway DEF fsvars, lookup, reading
<1>1. CASE LogicalIno BY <1>1 DEF LogicalIno, Away
<1>2. CASE Collect BY <1>2 DEF Collect, NextHolder, Away
<1>3. CASE Judge BY <1>3 DEF Judge, Away
<1>4. CASE InodePath
  <2>1. cur \in Files BY <1>4, CurIs DEF InodePath
  <2> QED BY <1>4, <2>1 DEF InodePath, Away
<1>5. CASE Inspect BY <1>5 DEF Inspect, Away
<1>6. CASE FillOpen BY <1>6 DEF FillOpen, Away
<1>7. CASE FillRead BY <1>7 DEF FillRead, Away
<1>8. CASE EndStretch BY <1>8 DEF EndStretch, Away
<1>9. CASE Before
  <2>1. cur \in Files BY <1>9, CurIs DEF Before
  <2> QED BY <1>9, <2>1 DEF Before, NextHolder, Away
<1>16. CASE Verify BY <1>16 DEF Verify, NextHolder, Away
<1>17. CASE CheckReleased BY <1>17 DEF CheckReleased, Away
<1>18. CASE Fault BY <1>18 DEF Fault
<1> QED BY <1>1, <1>2, <1>3, <1>4, <1>5, <1>6, <1>7, <1>8, <1>9,
           <1>16, <1>17, <1>18 DEF ToolNext

LEMMA AwayStage ==
    ASSUME Inv, FsOK, FillOK, StageOK, Away
    PROVE  FsOK' /\ StageOK'
<1>1. FsOK' BY DEF Away, FsOK
<1>2. CopyOK' BY DEF Away, CopyOK
<1>3. HolderOK'
  <2>1. HolderOK BY StageParts
  <2>2. cur \in Files => /\ files[cur].link \in Nat /\ files[cur].size \in Nat
                         /\ files[cur].mtime \in Nat
    <3>1. MaxSectors \in Nat BY BtrfsAssumption
    <3>2. Pos(MaxSectors, 0) \in Nat BY <3>1, PosInt
    <3>3. cur \in Files => files[cur] \in File BY DEF FsOK
    <3> QED BY <3>2, <3>3, FileParts DEF Sizes
  <2>3. before' \in [Files -> [size : Nat, mtime : Nat]] BY <2>1, <2>2 DEF Away, HolderOK
  <2>4. name' \in [Files -> Nat] BY <2>1, <2>2 DEF Away, HolderOK
  <2>5. temp'.size \in Nat BY <2>1 DEF Away, HolderOK
  <2> QED BY <2>3, <2>4, <2>5 DEF HolderOK
<1>4. buf' \in [0 .. Pos(ExtentSectors, 0) - 1 -> Bytes]
  <2>1. CASE buf' = buf BY <2>1 DEF StageOK
  <2>2. CASE FillRead /\ pc' = "fill" BY <2>2, FillReadBuf
  <2> QED BY <2>1, <2>2 DEF Away
<1> QED BY <1>1, <1>2, <1>3, <1>4, StageNext

LEMMA ToolStage ==
    ASSUME Inv, FsOK, LookOK, FillOK, StageOK, ToolNext \/ Fault
    PROVE  FsOK' /\ StageOK'
<1>1. HolderOK /\ CopyOK /\ buf \in [0 .. Pos(ExtentSectors, 0) - 1 -> Bytes] BY StageParts
<1>2. CASE Away BY <1>2, AwayStage
<1>3. CASE Stage BY <1>3, StageStage
<1>4. CASE RedirectOpen
  <2>1. UNCHANGED <<files, disk, buf, before, name, temp>>
    BY <1>4, StopAway DEF RedirectOpen, fsvars, lookup, reading
  <2>2. CopyOK' BY <1>4, RedirectOpenStage
  <2> QED BY <1>1, <2>1, <2>2, StageNext DEF FsOK, HolderOK
<1>5. CASE DedupeChunk
  <2>1. UNCHANGED <<buf, before, name, temp>>
    BY <1>5, StopAway DEF DedupeChunk, lookup, reading
  <2>2. FsOK' /\ CopyOK' BY <1>5, DedupeChunkStage
  <2> QED BY <1>1, <2>1, <2>2, StageNext DEF HolderOK
<1>6. CASE DedupeShort
  <2>1. UNCHANGED <<buf, before, name, temp>>
    BY <1>6, StopAway DEF DedupeShort, lookup, reading
  <2>2. FsOK' /\ CopyOK' BY <1>6, DedupeShortStage
  <2> QED BY <1>1, <2>1, <2>2, StageNext DEF HolderOK
<1>7. CASE FinishHolder
  <2>1. buf' = buf BY <1>7, StopAway DEF FinishHolder, reading
  <2>2. FsOK' /\ CopyOK' /\ HolderOK' BY <1>7, FinishHolderStage
  <2> QED BY <1>1, <2>1, <2>2, StageNext
<1>8. CASE RedirectTail
  <2>1. UNCHANGED <<buf, before, name, temp>>
    BY <1>8, StopAway DEF RedirectTail, lookup, reading
  <2>2. FsOK' /\ CopyOK' BY <1>8, RedirectTailStage
  <2> QED BY <1>1, <2>1, <2>2, StageNext DEF HolderOK
<1> QED BY <1>2, <1>3, <1>4, <1>5, <1>6, <1>7, <1>8, ToolAway

TInv == Inv /\ FsOK /\ LookOK /\ FillOK /\ StageOK

LEMMA NextT ==
    ASSUME TInv, [Next]_vars
    PROVE  TInv'
<1>1. Inv /\ FsOK /\ LookOK /\ FillOK /\ StageOK BY DEF TInv
<1>2. Inv' BY <1>1, NextView
<1>3. LookOK' BY <1>1, NextLook
<1>4. FillOK' BY <1>1, NextFill
<1>5. FsOK' /\ StageOK'
  <2>1. CASE ToolNext \/ Fault BY <1>1, <2>1, ToolStage
  <2>2. CASE UserNext BY <1>1, <2>2, UserFs, UserStage
  <2>3. CASE UNCHANGED vars
    <3>1. UNCHANGED <<files, disk, pc, buf, before, name, temp, copies, calls>>
      BY <2>3 DEF vars, fsvars, tool, lookup, reading
    <3>2. StageOK' BY <1>1, <3>1, StageKept
    <3> QED BY <1>1, <3>1, <3>2 DEF FsOK
  <2> QED BY <2>1, <2>2, <2>3 DEF Next, Done
<1> QED BY <1>2, <1>3, <1>4, <1>5 DEF TInv

LEMMA InitT == Init => TInv
<1> SUFFICES ASSUME Init PROVE TInv OBVIOUS
<1>1. Inv BY InitInv
<1>2. FsOK BY InitFs
<1>3. LookOK BY InitLook
<1>4. FillOK
  <2>1. /\ rd = [start |-> 0, at |-> 0, src |-> 0, from |-> 0, to |-> 0, left |-> {}]
        /\ pc = "resolve" /\ copies = {}
    BY DEF Init
  <2>2. rd = [start |-> rd.start, at |-> rd.at, src |-> rd.src, from |-> rd.from, to |-> rd.to,
              left |-> rd.left]
    BY <2>1
  <2> QED BY <2>1, <2>2 DEF FillOK
<1>5. StageOK
  <2>1. 0 \in Bytes BY BtrfsAssumption
  <2>2. CopyOK BY DEF Init, CopyOK
  <2>3. buf \in [0 .. Pos(ExtentSectors, 0) - 1 -> Bytes] BY <2>1 DEF Init
  <2>4. HolderOK BY DEF Init, HolderOK
  <2> QED BY <2>2, <2>3, <2>4, StageParts
<1> QED BY <1>1, <1>2, <1>3, <1>4, <1>5 DEF TInv

\* How far the tool and its users are.
CtlOK == /\ ops \in 0 .. MaxOps /\ apply \in BOOLEAN
         /\ pc \in Labels /\ outcome \in Outcomes
         /\ (pc = "done") <=> (outcome # "none")

\* A step of the tool leaves it at a label, and says how it ended if it ended.
Proceeds == /\ UNCHANGED <<ops, apply>>
            /\ pc # "done"
            /\ \/ pc' \in Labels \ {"done"} /\ outcome' = outcome
               \/ pc' = "done" /\ outcome' \in Outcomes \ {"none"}

LEMMA StopProceeds ==
    ASSUME pc # "done"
    PROVE  \A out \in Outcomes \ {"none"} : Stop(out) => Proceeds
BY DEF Stop, Proceeds

LEMMA EndsAre ==
    {"TooLittleToFree", "TooMuchToCopy", "NoDataCow", "PastEnd", "Changed", "Unresolved",
     "Failed", "Deleted", "NothingToFree", "WouldRewrite", "Rewritten", "Modified", "Fatal"}
       \subseteq Outcomes \ {"none"}
BY DEF Outcomes, LeftAlone

LEMMA LabelsAre ==
    {"resolve", "collect", "judge", "path", "inspect", "fill", "pread", "before", "stage",
     "redirect", "dedupe", "finish", "tail", "verify", "check"} \subseteq Labels \ {"done"}
BY DEF Labels

LEMMA ToolProceeds ==
    ASSUME pc \in Labels, ToolNext \/ Fault
    PROVE  Proceeds
<1> USE StopProceeds, EndsAre, LabelsAre
<1>1. CASE LogicalIno BY <1>1 DEF LogicalIno, Proceeds
<1>2. CASE Collect BY <1>2 DEF Collect, NextHolder, Proceeds
<1>3. CASE Judge
  <2> DEFINE live == live_uncompressed_bytes(AllRefs)
             free == disk_free_bytes(live, DiskBytes, Pos(ExtentSectors, 0))
             reason == not_worth_rewriting(free, live)
  <2>1. reason \in {"TooLittleToFree", "TooMuchToCopy", "none"} BY DEF not_worth_rewriting
  <2>2. pc = "judge" BY <1>3 DEF Judge
  <2>3. \/ Stop("NothingToFree")
        \/ reason # "none" /\ Stop(reason)
        \/ pc' = "path" /\ UNCHANGED <<ops, apply, outcome>>
    BY <1>3 DEF Judge
  <2> HIDE DEF reason
  <2>4. CASE Stop("NothingToFree") BY <2>2, <2>4
  <2>5. CASE reason # "none" /\ Stop(reason) BY <2>1, <2>2, <2>5
  <2>6. CASE pc' = "path" /\ UNCHANGED <<ops, apply, outcome>> BY <2>2, <2>6 DEF Proceeds
  <2> QED BY <2>3, <2>4, <2>5, <2>6
<1>4. CASE InodePath BY <1>4 DEF InodePath, Proceeds
<1>5. CASE Inspect BY <1>5 DEF Inspect, Proceeds
<1>6. CASE FillOpen BY <1>6 DEF FillOpen, Proceeds
<1>7. CASE FillRead BY <1>7 DEF FillRead, Proceeds
<1>8. CASE EndStretch BY <1>8 DEF EndStretch, Proceeds
<1>9. CASE Before BY <1>9 DEF Before, NextHolder, Proceeds
<1>10. CASE Stage BY <1>10 DEF Stage, Proceeds
<1>11. CASE RedirectOpen BY <1>11 DEF RedirectOpen, Redirected, NextHolder, Proceeds
<1>12. CASE DedupeChunk BY <1>12 DEF DedupeChunk, Redirected, NextHolder, Proceeds
<1>13. CASE DedupeShort BY <1>13 DEF DedupeShort, Proceeds
<1>14. CASE FinishHolder BY <1>14 DEF FinishHolder, Proceeds
<1>15. CASE RedirectTail BY <1>15 DEF RedirectTail, Proceeds
<1>16. CASE Verify BY <1>16 DEF Verify, NextHolder, Proceeds
<1>17. CASE CheckReleased BY <1>17 DEF CheckReleased, Proceeds
<1>18. CASE Fault BY <1>18 DEF Fault
<1> QED BY <1>1, <1>2, <1>3, <1>4, <1>5, <1>6, <1>7, <1>8, <1>9, <1>10, <1>11, <1>12,
           <1>13, <1>14, <1>15, <1>16, <1>17, <1>18 DEF ToolNext

LEMMA NextCtl ==
    ASSUME CtlOK, [Next]_vars
    PROVE  CtlOK'
<1>1. CASE ToolNext \/ Fault
  <2>1. Proceeds BY <1>1, ToolProceeds DEF CtlOK
  <2>2. outcome = "none" BY <2>1 DEF Proceeds, CtlOK
  <2> QED BY <2>1, <2>2 DEF Proceeds, CtlOK, Labels
<1>2. CASE UserNext
  <2>1. ops > 0 /\ ops' = ops - 1 /\ UNCHANGED <<apply, pc, outcome>>
    BY <1>2, UserAppends DEF tool
  <2>2. MaxOps \in Nat BY BtrfsAssumption
  <2> QED BY <2>1, <2>2 DEF CtlOK
<1>3. CASE UNCHANGED vars BY <1>3 DEF vars, tool, CtlOK
<1> QED BY <1>1, <1>2, <1>3 DEF Next, Done

LEMMA InitCtl == Init => CtlOK
<1> SUFFICES ASSUME Init PROVE CtlOK OBVIOUS
<1>1. MaxOps \in Nat /\ Modes \subseteq BOOLEAN BY BtrfsAssumption, ReallocAssumption
<1>2. ops = MaxOps /\ apply \in Modes /\ pc = "resolve" /\ outcome = "none"
    BY DEF Init, FsInit
<1>3. "none" \in Outcomes /\ "resolve" \in Labels BY DEF Outcomes, Labels
<1> QED BY <1>1, <1>2, <1>3 DEF CtlOK

\* A reference that is read is one of the kind extent.rs keeps.
LEMMA RefTyped ==
    ASSUME NEW r, IsRef(r)
    PROVE  r \in ExtentRef
<1>1. PICK h \in Nat, e \in Nat, n \in Nat : n >= 1 /\ r = Ref(h, e, n) BY DEF IsRef
<1>2. Pos(h, 0) \in Nat BY PosInt
<1>3. Pos(e, 0) \in Nat BY PosInt
<1>4. Pos(n, 0) \in Nat \ {0}
  <2>1. SectorSize \in Nat /\ SectorSize >= 1 BY BtrfsAssumption
  <2>2. n * SectorSize >= 1 BY <1>1, <2>1
  <2> QED BY <2>1, <2>2 DEF Pos
<1> QED BY <1>1, <1>2, <1>3, <1>4 DEF Ref, ExtentRef

LEMMA TypesFollow == TInv /\ CtlOK => TypeOK
<1> SUFFICES ASSUME TInv, CtlOK PROVE TypeOK OBVIOUS
<1>1. Inv /\ FsOK /\ LookOK /\ FillOK /\ StageOK BY DEF TInv
<1>2. files \in [Files -> File] BY <1>1 DEF FsOK
<1>3. \A f \in Files, i \in Sectors : files[f].map[i].addr \in 0 .. Len(disk)
    BY <1>1 DEF FsOK, GoodMap
<1>4. refs \in [Files -> SUBSET ExtentRef]
  <2>1. refs = [f \in Files |-> refs[f]] BY <1>1 DEF LookOK
  <2>2. \A f \in Files : \A r \in refs[f] : IsRef(r) BY <1>1 DEF LookOK, RefSet
  <2>3. \A f \in Files : refs[f] \in SUBSET ExtentRef BY <2>2, RefTyped
  <2> QED BY <2>1, <2>3
<1>5. /\ found \in [Files -> [first : Nat, last : Nat, count : Nat]]
      /\ todo \subseteq Files
    BY <1>1 DEF LookOK
<1>6. /\ before \in [Files -> [size : Nat, mtime : Nat]] /\ name \in [Files -> Nat]
      /\ temp.size \in Nat /\ buf \in [0 .. Pos(ExtentSectors, 0) - 1 -> Bytes]
    BY <1>1 DEF StageOK
<1>7. temp.addr \in 0 .. Len(disk) BY <1>1 DEF Inv, TempOK
<1>8. /\ ops \in 0 .. MaxOps /\ apply \in BOOLEAN /\ pc \in Labels /\ outcome \in Outcomes
      /\ (pc = "done") <=> (outcome # "none")
    BY DEF CtlOK
<1> QED BY <1>2, <1>3, <1>4, <1>5, <1>6, <1>7, <1>8 DEF TypeOK

\* Whatever users do and wherever a call fails, every variable of the rewrite keeps
\* a value of the kind the code keeps in it: a file leads to extents there are, what
\* is read are bytes, a reference lies within the extent, and the tool has come to an
\* end exactly when it has said how (Runner::process and realloc_extent in run.rs).
THEOREM ReallocTypeCorrect == Spec => []TypeOK
<1>1. Init => TInv /\ CtlOK BY InitT, InitCtl
<1>2. TInv /\ CtlOK /\ [Next]_vars => (TInv /\ CtlOK)' BY NextT, NextCtl
<1>3. TInv /\ CtlOK => TypeOK BY TypesFollow
<1> QED BY <1>1, <1>2, <1>3, PTL DEF Spec

-----------------------------------------------------------------------------
(* With nobody else about, and no failing system call.  From here on it is *)
(* sectors that count: which of them a file holds of the extent, which of  *)
(* these are whole, and where they are at each point.                      *)

Secs == 0 .. ExtentSectors - 1

\* Sector i of f was found to be sector x of the extent.
Holds(f, i, x) ==
    \E r \in refs[f] : /\ Pos(i, 0) \in r.file_offset .. r.file_offset + r.num_bytes - 1
                       /\ Pos(x, 0) = r.extent_offset + (Pos(i, 0) - r.file_offset)
Whole(f, i) == Pos(i + 1, 0) <= files[f].size
HasWhole(f, i, x) == Holds(f, i, x) /\ Whole(f, i)
Live(x) == \E f \in Files, i \in Sectors : HasWhole(f, i, x)

\* Sector x is in a stretch.
In(c, x) == c.start <= Pos(x, 0) /\ Pos(x, 0) < c.end

\* The tool is alone for as long as the users have all they had left to do.
LEMMA AloneStep ==
    ASSUME CtlOK, [Next]_vars, Undisturbed'
    PROVE  Undisturbed /\ (ToolNext \/ UNCHANGED vars)
<1>1. ops' = MaxOps /\ Faults = {} BY DEF Undisturbed
<1>2. MaxOps \in Nat /\ ops \in 0 .. MaxOps BY BtrfsAssumption DEF CtlOK
<1>3. ~UserNext
  <2>1. UserNext => ops' = ops - 1 BY UserAppends
  <2> QED BY <2>1, <1>1, <1>2
<1>4. ~Fault BY <1>1 DEF Fault
<1>5. ToolNext \/ UNCHANGED vars BY <1>3, <1>4 DEF Next, Done
<1>6. ops' = ops
  <2>1. ToolNext => ops' = ops BY ToolProceeds DEF CtlOK, Proceeds
  <2> QED BY <2>1, <1>5 DEF vars
<1> QED BY <1>1, <1>5, <1>6 DEF Undisturbed

LEMMA PosShift ==
    ASSUME NEW h \in Int, NEW e \in Int, NEW i \in Int
    PROVE  Pos(e + (i - h), 0) = Pos(e, 0) + (Pos(i, 0) - Pos(h, 0))
<1>1. Pos(i, 0) - Pos(h, 0) = Pos(i - h, 0) BY PosSum
<1>2. i - h \in Int OBVIOUS
<1>3. Pos(e, 0) + Pos(i - h, 0) = Pos(e + (i - h), 0) BY <1>2, PosSum
<1> QED BY <1>1, <1>3

LEMMA RefCovers ==
    ASSUME NEW h \in Int, NEW e \in Int, NEW n \in Int, NEW i \in Int, NEW x \in Int
    PROVE  /\ Pos(i, 0) \in Pos(h, 0) .. Pos(h, 0) + Pos(n, 0) - 1 <=> h <= i /\ i < h + n
           /\ Pos(x, 0) = Pos(e, 0) + (Pos(i, 0) - Pos(h, 0)) <=> x = e + (i - h)
<1> DEFINE ph == Pos(h, 0)
           pn == Pos(n, 0)
           pi == Pos(i, 0)
           px == Pos(x, 0)
           pe == Pos(e, 0)
<1>1. ph \in Int /\ pn \in Int /\ pi \in Int /\ px \in Int /\ pe \in Int BY PosInt
<1>2. ph <= pi <=> h <= i BY PosUpTo
<1>3. ph + pn = Pos(h + n, 0) BY PosSum
<1>4. h + n \in Int /\ i - h \in Int /\ e + (i - h) \in Int OBVIOUS
<1>5. pi < Pos(h + n, 0) <=> i < h + n BY <1>4, PosLess
<1>6. pi - ph = Pos(i - h, 0) BY PosSum
<1>7. pe + Pos(i - h, 0) = Pos(e + (i - h), 0) BY <1>4, PosSum
<1>8. px = Pos(e + (i - h), 0) <=> x = e + (i - h) BY <1>4, PosSum
<1>9. pe + (pi - ph) = Pos(e + (i - h), 0) BY <1>6, <1>7
<1> HIDE DEF ph, pn, pi, px, pe
<1>10. pi \in ph .. ph + pn - 1 <=> h <= i /\ i < h + n BY <1>1, <1>2, <1>3, <1>5
<1>11. px = pe + (pi - ph) <=> x = e + (i - h) BY <1>8, <1>9
<1> QED BY <1>10, <1>11 DEF ph, pn, pi, px, pe

\* What a file holds, by sectors.
HoldsBy(f, i, x, h, e, n) ==
    /\ n >= 1 /\ h + n <= MaxSectors /\ e + n <= ExtentSectors
    /\ Ref(h, e, n) \in refs[f]
    /\ h <= i /\ i < h + n /\ x = e + (i - h)

LEMMA HoldsIs ==
    ASSUME LookOK, NEW f \in Files, NEW i \in Int, NEW x \in Int, Holds(f, i, x)
    PROVE  \E h \in Nat, e \in Nat, n \in Nat : HoldsBy(f, i, x, h, e, n)
<1>1. PICK r \in refs[f] : /\ Pos(i, 0) \in r.file_offset .. r.file_offset + r.num_bytes - 1
                           /\ Pos(x, 0) = r.extent_offset + (Pos(i, 0) - r.file_offset)
    BY DEF Holds
<1>2. PICK h \in Nat, e \in Nat, n \in Nat :
         /\ n >= 1 /\ h + n <= MaxSectors /\ e + n <= ExtentSectors
         /\ r = Ref(h, e, n)
  <2>1. IsRef(r) BY DEF LookOK, RefSet
  <2> QED BY <2>1 DEF IsRef
<1>3. r.file_offset = Pos(h, 0) /\ r.extent_offset = Pos(e, 0) /\ r.num_bytes = Pos(n, 0)
    BY <1>2 DEF Ref
<1>4. /\ Pos(i, 0) \in Pos(h, 0) .. Pos(h, 0) + Pos(n, 0) - 1
      /\ Pos(x, 0) = Pos(e, 0) + (Pos(i, 0) - Pos(h, 0))
    BY <1>1, <1>3
<1>5. h <= i /\ i < h + n /\ x = e + (i - h) BY <1>4, RefCovers
<1> QED BY <1>1, <1>2, <1>5 DEF HoldsBy

LEMMA IsHeld ==
    ASSUME NEW f, NEW i \in Int, NEW x \in Int, NEW h \in Nat, NEW e \in Nat, NEW n \in Nat,
           Ref(h, e, n) \in refs[f], h <= i, i < h + n, x = e + (i - h)
    PROVE  Holds(f, i, x)
<1> DEFINE r == Ref(h, e, n)
<1>1. r.file_offset = Pos(h, 0) /\ r.extent_offset = Pos(e, 0) /\ r.num_bytes = Pos(n, 0)
    BY DEF Ref
<1>2. /\ Pos(i, 0) \in Pos(h, 0) .. Pos(h, 0) + Pos(n, 0) - 1
      /\ Pos(x, 0) = Pos(e, 0) + (Pos(i, 0) - Pos(h, 0))
  <2>1. h \in Int /\ e \in Int /\ n \in Int OBVIOUS
  <2>2. Pos(i, 0) \in Pos(h, 0) .. Pos(h, 0) + Pos(n, 0) - 1 <=> h <= i /\ i < h + n
    BY <2>1, RefCovers
  <2>3. Pos(x, 0) = Pos(e, 0) + (Pos(i, 0) - Pos(h, 0)) BY <2>1, PosShift
  <2> QED BY <2>2, <2>3
<1>3. r \in refs[f] OBVIOUS
<1> HIDE DEF r
<1> QED BY <1>1, <1>2, <1>3 DEF Holds

LEMMA RefInjective ==
    ASSUME NEW h \in Nat, NEW e \in Nat, NEW n \in Nat, NEW g \in Nat, NEW d \in Nat, NEW m \in Nat,
           Ref(h, e, n) = Ref(g, d, m)
    PROVE  h = g /\ e = d /\ n = m
<1>1. Pos(h, 0) = Pos(g, 0) /\ Pos(e, 0) = Pos(d, 0) /\ Pos(n, 0) = Pos(m, 0) BY DEF Ref
<1>2. h = g BY <1>1, PosSum
<1>3. e = d BY <1>1, PosSum
<1>4. n = m BY <1>1, PosSum
<1> QED BY <1>2, <1>3, <1>4

\* A sector of a file is in one reference only.
LEMMA HoldsOnce ==
    ASSUME LookOK, NEW f \in Files, NEW i \in Int, NEW x \in Int, Holds(f, i, x),
           NEW h \in Nat, NEW e \in Nat, NEW n \in Nat, Ref(h, e, n) \in refs[f],
           h <= i, i < h + n
    PROVE  x = e + (i - h)
<1>1. PICK g \in Nat, d \in Nat, m \in Nat : HoldsBy(f, i, x, g, d, m) BY HoldsIs
<1> DEFINE r == Ref(h, e, n)
           s == Ref(g, d, m)
<1>2. /\ Ref(g, d, m) \in refs[f] /\ g <= i /\ i < g + m /\ x = d + (i - g) BY <1>1 DEF HoldsBy
<1>3. r = s \/ Apart(r, s) BY <1>2 DEF LookOK, RefSet
<1>4. ~Apart(r, s)
  <2>1. r.file_offset = Pos(h, 0) /\ r.num_bytes = Pos(n, 0) BY DEF Ref
  <2>2. s.file_offset = Pos(g, 0) /\ s.num_bytes = Pos(m, 0) BY DEF Ref
  <2> HIDE DEF r, s
  <2>3. Pos(h, 0) + Pos(n, 0) = Pos(h + n, 0) BY PosSum
  <2>4. Pos(g, 0) + Pos(m, 0) = Pos(g + m, 0) BY PosSum
  <2>5. h + n \in Int /\ g + m \in Int /\ h \in Int /\ g \in Int OBVIOUS
  <2>6. Pos(h + n, 0) <= Pos(g, 0) <=> h + n <= g BY <2>5, PosUpTo
  <2>7. Pos(g + m, 0) <= Pos(h, 0) <=> g + m <= h BY <2>5, PosUpTo
  <2>8. ~(h + n <= g) /\ ~(g + m <= h) BY <1>2
  <2> QED BY <2>1, <2>2, <2>3, <2>4, <2>6, <2>7, <2>8 DEF Apart
<1>5. h = g /\ e = d
  <2>1. Ref(h, e, n) = Ref(g, d, m) BY <1>3, <1>4
  <2> HIDE DEF r, s
  <2>2. Pos(h, 0) = Pos(g, 0) /\ Pos(e, 0) = Pos(d, 0) BY <2>1 DEF Ref
  <2>3. h = g BY <2>2, PosSum
  <2>4. e = d BY <2>2, PosSum
  <2> QED BY <2>3, <2>4
<1> QED BY <1>2, <1>5

LEMMA HoldsRange ==
    ASSUME LookOK, NEW f \in Files, NEW i \in Int, NEW x \in Int, Holds(f, i, x)
    PROVE  x \in Secs /\ i \in Sectors /\ f \in Holders
<1>1. PICK g \in Nat, d \in Nat, m \in Nat : HoldsBy(f, i, x, g, d, m) BY HoldsIs
<1>2. MaxSectors \in Nat /\ ExtentSectors \in Nat BY BtrfsAssumption, ReallocAssumption
<1>3. refs[f] # {} BY <1>1 DEF HoldsBy
<1> QED BY <1>1, <1>2, <1>3 DEF HoldsBy, Secs, Sectors, LookOK

\* As long as the references found are the items there are.
LEMMA HeldIsThere ==
    ASSUME FsOK, LookOK, NEW f \in Files, refs[f] = Items(files[f].map), NEW i \in Sectors
    PROVE  /\ \A x \in Int : Holds(f, i, x) => files[f].map[i].addr = Ext /\ files[f].map[i].sec = x
           /\ files[f].map[i].addr = Ext =>
                 Holds(f, i, files[f].map[i].sec) /\ files[f].map[i].sec \in Secs
<1> DEFINE map == files[f].map
<1>1. map \in [Sectors -> Mapping] /\ GoodMap(map, disk) BY FileParts DEF FsOK
<1>2. MaxSectors \in Nat /\ i \in Nat /\ i < MaxSectors BY BtrfsAssumption DEF Sectors
<1>3. refs[f] = Items(map) OBVIOUS
<1> HIDE DEF map
<1>4. ASSUME NEW x \in Int, Holds(f, i, x) PROVE map[i].addr = Ext /\ map[i].sec = x
  <2>1. PICK h \in Nat, e \in Nat, n \in Nat : HoldsBy(f, i, x, h, e, n) BY <1>2, <1>4, HoldsIs
  <2>2. Ref(h, e, n) \in Items(map) BY <1>3, <2>1 DEF HoldsBy
  <2>3. PICK g \in Sectors, m \in Nat : ItemIs(map, g, m) /\ Ref(h, e, n) = Ref(g, map[g].sec, m)
    BY <1>1, <2>2, ItemFacts
  <2>4. g \in Nat /\ map[g].sec \in Nat BY <2>3 DEF ItemIs, Sectors
  <2>5. h = g /\ e = map[g].sec /\ n = m
    <3> DEFINE d == map[g].sec
    <3>1. d \in Nat /\ Ref(h, e, n) = Ref(g, d, m) BY <2>3, <2>4
    <3> HIDE DEF d
    <3>2. h = g /\ e = d /\ n = m BY <2>4, <3>1, RefInjective
    <3> QED BY <3>2 DEF d
  <2>6. i \in g .. g + m - 1 BY <1>2, <2>1, <2>4, <2>5 DEF HoldsBy
  <2>7. map[i].addr = Ext /\ map[i].sec = map[g].sec + (i - g) BY <2>3, <2>6 DEF ItemIs
  <2> QED BY <2>1, <2>5, <2>7 DEF HoldsBy
<1>5. ASSUME map[i].addr = Ext PROVE Holds(f, i, map[i].sec) /\ map[i].sec \in Secs
  <2> DEFINE D == {d \in Nat : d <= i /\ map[i - d].head}
  <2>1. D # {}
    <3>1. 0 \in Sectors BY <1>2 DEF Sectors
    <3>2. map[0].head BY <1>1, <3>1 DEF GoodMap
    <3>3. i - i = 0 BY <1>2
    <3>4. i \in D BY <3>2, <3>3, <1>2
    <3> QED BY <3>4
  <2>2. PICK d \in D : \A y \in D : d <= y BY <2>1, LeastNumber
  <2> DEFINE h == i - d
  <2>3. h \in Nat /\ h <= i /\ map[h].head /\ h \in Sectors BY <1>2, <2>2 DEF Sectors
  <2>4. \A j \in h + 1 .. i : ~map[j].head
    <3> SUFFICES ASSUME NEW j \in h + 1 .. i, map[j].head PROVE FALSE OBVIOUS
    <3>1. i - j \in Nat /\ i - j < d /\ i - (i - j) = j BY <1>2, <2>2
    <3>2. i - j \in D BY <3>1, <1>2
    <3> QED BY <3>1, <3>2, <2>2
  <2> HIDE DEF h
  <2>5. map[h].addr = Ext
    <3> DEFINE C == {c \in Nat : c <= i - h /\ map[h + c].addr = Ext}
    <3>1. h + (i - h) = i /\ i - h \in Nat BY <1>2, <2>3
    <3>2. i - h \in C BY <3>1, <1>5
    <3>3. PICK c \in C : \A y \in C : c <= y BY <3>2, LeastNumber
    <3>4. c = 0
      <4> SUFFICES ASSUME c # 0 PROVE FALSE OBVIOUS
      <4>1. /\ c - 1 \in Nat /\ c - 1 <= i - h /\ h + (c - 1) = (h + c) - 1
            /\ h + c \in h + 1 .. i /\ h + c \in Sectors
        BY <1>2, <2>3, <3>3 DEF Sectors
      <4>2. ~map[h + c].head BY <2>4, <4>1
      <4>3. map[(h + c) - 1].addr = map[h + c].addr BY <1>1, <4>1, <4>2 DEF GoodMap
      <4>4. c - 1 \in C BY <4>1, <4>3, <3>3
      <4> QED BY <4>4, <3>3
    <3> QED BY <3>3, <3>4, <2>3
  <2> DEFINE r == [file_offset |-> Pos(h, 0), extent_offset |-> Pos(map[h].sec, 0),
                   num_bytes |-> Pos(ItemEnd(map, h) - h, 0)]
  <2>6. r \in Items(map) /\ r.file_offset = Pos(h, 0) BY <2>3, <2>5 DEF Items
  <2> HIDE DEF r
  <2>7. PICK g \in Sectors, m \in Nat : ItemIs(map, g, m) /\ r = Ref(g, map[g].sec, m)
    BY <1>1, <2>6, ItemFacts
  <2>8. g = h
    <3>1. Pos(g, 0) = Pos(h, 0) BY <2>6, <2>7 DEF Ref
    <3>2. g \in Int BY DEF Sectors
    <3> QED BY <3>1, <3>2, <2>3, PosSum
  <2>9. i < h + m
    <3>1. h + m < MaxSectors => map[h + m].head BY <2>7, <2>8 DEF ItemIs
    <3>2. m >= 1 BY <2>7 DEF ItemIs
    <3> SUFFICES ASSUME h + m <= i PROVE FALSE BY <1>2, <2>3
    <3>3. h + m \in h + 1 .. i /\ h + m < MaxSectors BY <1>2, <2>3, <3>2
    <3> QED BY <2>4, <3>1, <3>3
  <2>10. i \in h .. h + m - 1 BY <1>2, <2>3, <2>9
  <2>11. /\ map[i].sec = map[h].sec + (i - h) /\ map[h].sec \in Nat
         /\ map[h].sec + m <= ExtentSectors
    BY <2>7, <2>8, <2>10 DEF ItemIs
  <2>12. map[i].sec \in Secs
    <3> DEFINE e == map[h].sec
               x == map[i].sec
    <3>1. x = e + (i - h) /\ e \in Nat /\ e + m <= ExtentSectors BY <2>11
    <3> HIDE DEF e, x
    <3>2. h \in Int /\ i \in Int /\ h <= i /\ i < h + m BY <1>2, <2>3, <2>9
    <3>3. x \in 0 .. ExtentSectors - 1 BY <3>1, <3>2, ReallocAssumption
    <3> QED BY <3>3 DEF Secs, x
  <2>13. Ref(h, map[h].sec, m) \in refs[f] BY <1>3, <2>6, <2>7, <2>8
  <2>14. Holds(f, i, map[i].sec)
    <3> DEFINE e == map[h].sec
               x == map[i].sec
    <3>1. e \in Nat /\ x \in Int /\ x = e + (i - h) /\ Ref(h, e, m) \in refs[f]
      BY <2>11, <2>12, <2>13 DEF Secs
    <3> HIDE DEF e, x
    <3>2. Holds(f, i, x) BY <1>2, <2>3, <2>9, <3>1, IsHeld
    <3> QED BY <3>2 DEF x
  <2> QED BY <2>12, <2>14
<1> QED BY <1>4, <1>5 DEF map

-----------------------------------------------------------------------------
(* Looking the extent up finds the items there are.                        *)

\* Before anything is moved, and after.
Early == {"judge", "path", "inspect", "fill", "pread", "before"}
Late  == {"stage", "redirect", "dedupe", "finish", "tail", "verify", "check"}
Bad   == {"Failed", "Modified", "Changed", "Unresolved", "Fatal"}

\* The references found are the items there are.
LookQ ==
    /\ pc = "resolve" => files \in InitFiles
    /\ pc \in {"resolve", "collect"} \union Early => disk = InitDisk
    /\ pc = "collect" => \A f \in Files :
          /\ f \in Holders => /\ found[f].first = Min(Places(f)) /\ found[f].last = Max(Places(f))
                              /\ found[f].count = Cardinality(Places(f))
          /\ f \notin Holders => Items(files[f].map) = {}
          /\ f \in Holders \ todo => refs[f] = Items(files[f].map)
    /\ pc \in Early => \A f \in Files : refs[f] = Items(files[f].map)

\* A rewrite that is over has not failed, unless it says so.
NoFailure == pc = "done" => outcome \notin Bad

LEMMA SomeHolder ==
    ASSUME FsOK, files \in InitFiles
    PROVE  \E f \in Files : Items(files[f].map) # {}
<1>1. PICK f \in Files, i \in Sectors : files[f].map[i].addr = Ext BY ReallocAssumption
<1>2. GoodMap(files[f].map, disk) BY DEF FsOK
<1>3. IsChained(files[f].map) BY <1>2 DEF GoodMap, IsChained
<1>4. PICK j \in Sectors : files[f].map[j].addr = Ext /\ files[f].map[j].head
    BY <1>1, <1>3, ItemIsThere
<1>5. Items(files[f].map) # {} BY <1>4 DEF Items
<1> QED BY <1>5

LEMMA LogicalInoQ ==
    ASSUME FsOK, LookOK, LookQ, LogicalIno
    PROVE  LookQ' /\ pc' = "collect"
<1> DEFINE offsets(f) == {r.file_offset : r \in Items(files[f].map)}
           held == {f \in Files : offsets(f) # {}}
<1>1. \A f \in Files : offsets(f) = Places(f) BY DEF Places
<1>2. \A f \in Files : refs[f] = {} /\ found[f].count = 0 BY DEF LogicalIno, LookOK
<1>3. held # {}
  <2>1. PICK f \in Files : Items(files[f].map) # {} BY SomeHolder DEF LookQ, LogicalIno
  <2>2. f \in held BY <2>1
  <2> QED BY <2>2
<1>4. /\ found' = [f \in Files |->
                    IF f \in held
                      THEN [first |-> Min(offsets(f)), last |-> Max(offsets(f)),
                            count |-> Cardinality(offsets(f))]
                      ELSE found[f]]
      /\ todo' = held
      /\ pc' = "collect"
      /\ files' = files /\ disk' = disk
    BY <1>3 DEF LogicalIno, fsvars
<1>5. ASSUME NEW f \in Files
      PROVE  /\ f \in Holders' => /\ found'[f].first = Min(Places(f))
                                  /\ found'[f].last = Max(Places(f))
                                  /\ found'[f].count = Cardinality(Places(f))
             /\ f \notin Holders' => Items(files[f].map) = {}
             /\ f \notin Holders' \ todo'
  <2>1. CASE f \in held
    <3>1. found'[f] = [first |-> Min(Places(f)), last |-> Max(Places(f)),
                       count |-> Cardinality(Places(f))]
      BY <1>1, <1>4, <2>1
    <3>2. Places(f) # {} BY <1>1, <2>1
    <3>3. found'[f].count > 0 BY <3>1, <3>2, PlacesFacts
    <3>4. f \in Holders' /\ f \in todo' BY <1>4, <2>1, <3>3 DEF Holders
    <3> QED BY <3>1, <3>4
  <2>2. CASE f \notin held
    <3>1. found'[f].count = 0 BY <1>2, <1>4, <2>2
    <3>2. f \notin Holders' BY <3>1 DEF Holders
    <3>3. Items(files[f].map) = {} BY <2>2
    <3> QED BY <3>2, <3>3
  <2> QED BY <2>1, <2>2
<1>6. \A f \in Files : Places(f)' = Places(f) BY <1>4 DEF Places
<1>7. disk' = InitDisk BY <1>4 DEF LookQ, LogicalIno
<1> QED BY <1>4, <1>5, <1>6, <1>7 DEF LookQ, Early

LEMMA CollectQ ==
    ASSUME FsOK, LookOK, LookQ, Collect
    PROVE  LookQ' /\ pc' \in {"collect", "judge"}
<1> DEFINE got == {r \in Items(files[cur].map) :
                     found[cur].first <= r.file_offset /\ r.file_offset <= found[cur].last}
<1>1. pc = "collect" BY DEF Collect
<1>2. cur \in todo /\ cur \in Files /\ cur \in Holders BY <1>1, CurIs
<1>3. /\ found[cur].first = Min(Places(cur)) /\ found[cur].last = Max(Places(cur))
      /\ found[cur].count = Cardinality(Places(cur))
    BY <1>1, <1>2 DEF LookQ
<1>4. got = Items(files[cur].map)
  <2>1. ASSUME NEW r \in Items(files[cur].map)
        PROVE  found[cur].first <= r.file_offset /\ r.file_offset <= found[cur].last
    <3>1. r.file_offset \in Places(cur) BY DEF Places
    <3> QED BY <1>2, <1>3, <3>1, PlacesFacts
  <2> QED BY <2>1
<1>5. Cardinality(got) = found[cur].count BY <1>2, <1>3, <1>4, PlacesFacts
<1>6. /\ refs' = [refs EXCEPT ![cur] = got]
      /\ NextHolder("collect", "judge")
      /\ files' = files /\ disk' = disk /\ found' = found
    BY <1>5 DEF Collect, fsvars
<1> HIDE DEF got
<1>7. /\ refs'[cur] = Items(files[cur].map)
      /\ \A f \in Files : f # cur => refs'[f] = refs[f]
    BY <1>2, <1>4, <1>6 DEF LookOK
<1>8. Holders' = Holders /\ \A f \in Files : Places(f)' = Places(f)
    BY <1>6 DEF Holders, Places
<1>9. disk' = InitDisk BY <1>1, <1>6 DEF LookQ
<1>10. CASE todo = {cur}
  <2>1. pc' = "judge" /\ todo' = Holders BY <1>6, <1>10 DEF NextHolder
  <2>2. ASSUME NEW f \in Files PROVE refs'[f] = Items(files'[f].map)
    <3>1. CASE f = cur BY <1>6, <1>7, <3>1
    <3>2. CASE f # cur /\ f \in Holders
      <4>1. refs[f] = Items(files[f].map) BY <1>1, <1>10, <3>2 DEF LookQ
      <4> QED BY <1>6, <1>7, <3>2, <4>1
    <3>3. CASE f # cur /\ f \notin Holders
      <4>1. refs[f] = {} /\ Items(files[f].map) = {} BY <1>1, <3>3 DEF LookQ, LookOK
      <4> QED BY <1>6, <1>7, <3>3, <4>1
    <3> QED BY <3>1, <3>2, <3>3
  <2> QED BY <1>9, <2>1, <2>2 DEF LookQ
<1>11. CASE todo # {cur}
  <2>1. pc' = "collect" /\ todo' = todo \ {cur} BY <1>6, <1>11 DEF NextHolder
  <2>2. ASSUME NEW f \in Files, f \in Holders', f \notin todo' PROVE refs'[f] = Items(files'[f].map)
    <3>1. CASE f = cur BY <1>6, <1>7, <3>1
    <3>2. CASE f # cur
      <4>1. f \in Holders \ todo BY <1>8, <2>1, <2>2, <3>2
      <4>2. refs[f] = Items(files[f].map) BY <1>1, <4>1 DEF LookQ
      <4> QED BY <1>6, <1>7, <3>2, <4>2
    <3> QED BY <3>1, <3>2
  <2>3. \A f \in Files :
          /\ f \in Holders' => /\ found'[f].first = Min(Places(f)') /\ found'[f].last = Max(Places(f)')
                               /\ found'[f].count = Cardinality(Places(f)')
          /\ f \notin Holders' => Items(files'[f].map) = {}
    BY <1>1, <1>6, <1>8 DEF LookQ
  <2> QED BY <1>9, <2>1, <2>2, <2>3 DEF LookQ, Early
<1> QED BY <1>10, <1>11, <1>6 DEF NextHolder

\* The other steps up to the first that moves anything.
LEMMA EarlyStep ==
    ASSUME ToolNext, pc' \in {"resolve", "collect"} \union Early
    PROVE  \/ LogicalIno \/ Collect
           \/ pc \in Early /\ UNCHANGED <<files, disk, refs, found>>
<1> USE DEF Early, fsvars, lookup
<1>0. \A out : ~Stop(out) BY DEF Stop
<1>3. CASE Judge BY <1>0, <1>3 DEF Judge
<1>4. CASE InodePath BY <1>0, <1>4 DEF InodePath
<1>5. CASE Inspect BY <1>0, <1>5 DEF Inspect
<1>6. CASE FillOpen BY <1>0, <1>6 DEF FillOpen
<1>7. CASE FillRead BY <1>0, <1>7 DEF FillRead
<1>8. CASE EndStretch BY <1>0, <1>8 DEF EndStretch
<1>9. CASE Before BY <1>0, <1>9 DEF Before
<1>10. ~Stage BY DEF Stage
<1>11. ~RedirectOpen BY <1>0 DEF RedirectOpen, Redirected, NextHolder
<1>12. ~DedupeChunk BY <1>0 DEF DedupeChunk, Redirected, NextHolder
<1>13. ~DedupeShort BY <1>0 DEF DedupeShort
<1>14. ~FinishHolder BY <1>0 DEF FinishHolder
<1>15. ~RedirectTail BY <1>0 DEF RedirectTail
<1>16. ~Verify BY <1>0 DEF Verify, NextHolder
<1>17. ~CheckReleased BY <1>0 DEF CheckReleased
<1> QED BY <1>3, <1>4, <1>5, <1>6, <1>7, <1>8, <1>9, <1>10, <1>11, <1>12,
           <1>13, <1>14, <1>15, <1>16, <1>17 DEF ToolNext

LEMMA NextLookQ ==
    ASSUME FsOK, LookOK, LookQ, ToolNext
    PROVE  LookQ'
<1>1. CASE LogicalIno BY <1>1, LogicalInoQ
<1>2. CASE Collect BY <1>2, CollectQ
<1>3. CASE pc' \notin {"resolve", "collect"} \union Early BY <1>3 DEF LookQ
<1>4. CASE /\ pc' \in {"resolve", "collect"} \union Early /\ pc \in Early
           /\ UNCHANGED <<files, disk, refs, found>>
  <2>1. pc' \notin {"resolve", "collect"} BY <1>4, ToolVisits DEF Early, Visits, LogicalIno, Collect
  <2> QED BY <1>4, <2>1 DEF LookQ, Early
<1> QED BY <1>1, <1>2, <1>3, <1>4, EarlyStep

-----------------------------------------------------------------------------
(* Every holder stays as it was found.                                     *)

\* Every holder is where it was found, ends behind what it holds, and is as it was.
Fit(f) == Opens(f) /\ ~PastEnd(f)
Acting == {"fill", "pread", "before"} \union Late
FitQ == /\ pc \in {"judge", "fill", "pread", "stage"} => todo = Holders
        /\ pc \in {"path", "inspect"} => \A f \in Holders \ todo : Fit(f)
        /\ pc = "inspect" => Opens(cur)
        /\ pc \in Acting => \A f \in Holders : Fit(f)
        /\ pc = "before" => \A f \in Holders \ todo : Verified(f)
        /\ pc \in Late => \A f \in Holders : Verified(f)

LEMMA ToolMeta ==
    ASSUME Inv, ToolNext, NEW f \in Files
    PROVE  /\ files'[f].link = files[f].link /\ files'[f].size = files[f].size
           /\ files'[f].mtime = files[f].mtime
<1>1. Meta' = Meta BY ToolInvisible
<1>2. Meta'[f] = Meta[f] BY <1>1
<1> QED BY <1>2 DEF Meta

LEMMA FitKept ==
    ASSUME Inv, ToolNext, NEW f \in Files, refs' = refs
    PROVE  /\ name'[f] = name[f] => Fit(f)' = Fit(f)
           /\ before'[f] = before[f] => Verified(f)' = Verified(f)
           /\ PastEnd(f)' = PastEnd(f)
<1>1. /\ files'[f].link = files[f].link /\ files'[f].size = files[f].size
      /\ files'[f].mtime = files[f].mtime
    BY ToolMeta
<1>2. PastEnd(f)' = PastEnd(f) BY <1>1 DEF PastEnd
<1>3. name'[f] = name[f] => Opens(f)' = Opens(f) BY <1>1 DEF Opens
<1>4. before'[f] = before[f] => Verified(f)' = Verified(f) BY <1>1 DEF Verified
<1> QED BY <1>2, <1>3, <1>4 DEF Fit

LEMMA StopEnds == \A out : Stop(out) => pc' = "done"
BY DEF Stop

\* How the tool goes on.
Onward ==
    /\ pc \in Acting /\ pc' \in Acting
    /\ UNCHANGED <<name, refs, found>>
    /\ pc' \in {"fill", "pread"} => pc \in {"fill", "pread"} /\ todo' = todo
    /\ pc' = "before" => pc \in {"fill", "pread"} /\ todo' = todo
    /\ pc' = "stage" => todo' = Holders
    /\ pc' \in Late => pc \in Late /\ before' = before

LEMMA ToolOnward ==
    ASSUME ToolNext
    PROVE  \/ pc' = "done" \/ LogicalIno \/ Collect
           \/ Judge \/ InodePath \/ Inspect \/ Before
           \/ Onward
<1> USE StopEnds DEF Onward, Acting, Late, lookup, reading
<1>6. CASE FillOpen BY <1>6 DEF FillOpen
<1>7. CASE FillRead BY <1>7 DEF FillRead
<1>8. CASE EndStretch BY <1>8 DEF EndStretch
<1>10. CASE Stage BY <1>10 DEF Stage
<1>11. CASE RedirectOpen BY <1>11 DEF RedirectOpen, Redirected, NextHolder
<1>12. CASE DedupeChunk BY <1>12 DEF DedupeChunk, Redirected, NextHolder
<1>13. CASE DedupeShort BY <1>13 DEF DedupeShort
<1>14. CASE FinishHolder BY <1>14 DEF FinishHolder
<1>15. CASE RedirectTail BY <1>15 DEF RedirectTail
<1>16. CASE Verify BY <1>16 DEF Verify, NextHolder
<1>17. CASE CheckReleased BY <1>17 DEF CheckReleased
<1> QED BY <1>6, <1>7, <1>8, <1>10, <1>11, <1>12,
           <1>13, <1>14, <1>15, <1>16, <1>17 DEF ToolNext

LEMMA NextFitQ ==
    ASSUME TInv, LookQ, FitQ, ToolNext
    PROVE  FitQ'
<1>0. Inv /\ FsOK /\ LookOK /\ FillOK /\ StageOK BY DEF TInv
<1> USE DEF Acting, Late
<1>1. CASE pc' = "done" BY <1>1 DEF FitQ
<1>2. CASE LogicalIno
  <2>1. pc' = "collect" BY <1>0, <1>2, LogicalInoQ
  <2> QED BY <2>1 DEF FitQ
<1>3. CASE Collect
  <2>1. pc' \in {"collect", "judge"} BY <1>0, <1>3, CollectQ
  <2>2. pc' = "judge" => todo' = Holders' BY <1>3, StopEnds DEF Collect, NextHolder, Holders
  <2> QED BY <2>1, <2>2 DEF FitQ
<1>4. CASE Judge /\ pc' # "done"
  <2>1. pc = "judge" /\ pc' = "path" /\ UNCHANGED <<todo, found>> BY <1>4, StopEnds DEF Judge, lookup
  <2>2. Holders' \ todo' = {} BY <2>1 DEF FitQ, Holders
  <2> QED BY <2>1, <2>2 DEF FitQ
<1>5. CASE InodePath /\ pc' # "done"
  <2>1. /\ pc = "path" /\ pc' = "inspect" /\ UNCHANGED <<todo, found, refs, files>>
        /\ name' = [name EXCEPT ![cur] = files[cur].link]
    BY <1>5, StopEnds DEF InodePath, fsvars
  <2>2. cur \in Files /\ cur \in todo BY <1>0, <2>1, CurIs
  <2>3. name'[cur] = files[cur].link BY <2>1, <2>2, <1>0 DEF StageOK
  <2>4. cur' = cur /\ Holders' = Holders /\ Holders \subseteq Files BY <2>1 DEF cur, Holders
  <2>5. Opens(cur)'
    <3>1. files'[cur'].link = name'[cur'] BY <2>1, <2>3, <2>4
    <3> QED BY <3>1 DEF Opens
  <2>6. ASSUME NEW f \in Holders' \ todo' PROVE Fit(f)'
    <3>1. f \in Holders \ todo /\ f \in Files /\ f # cur BY <2>1, <2>2, <2>4, <2>6
    <3>2. name'[f] = name[f] BY <2>1, <3>1, <1>0 DEF StageOK
    <3>3. Fit(f) BY <2>1, <3>1 DEF FitQ
    <3> QED BY <1>0, <2>1, <3>1, <3>2, <3>3, FitKept
  <2> QED BY <2>1, <2>5, <2>6 DEF FitQ
<1>6. CASE Inspect /\ pc' # "done"
  <2>1. /\ pc = "inspect" /\ UNCHANGED <<name, refs, found>>
        /\ Opens(cur) /\ ~PastEnd(cur)
        /\ \/ pc' = "path" /\ todo' = todo \ {cur}
           \/ pc' = "fill" /\ todo = {cur} /\ todo' = Holders
    BY <1>6, StopEnds DEF Inspect, lookup
  <2>2. cur \in Files /\ cur \in todo BY <1>0, <2>1, CurIs
  <2>3. Holders' = Holders /\ Holders \subseteq Files BY <2>1 DEF Holders
  <2>4. \A f \in Files : f \in Holders \ todo \/ f = cur => Fit(f)' 
    <3> SUFFICES ASSUME NEW f \in Files, f \in Holders \ todo \/ f = cur PROVE Fit(f)' OBVIOUS
    <3>1. Fit(f) BY <2>1 DEF FitQ, Fit
    <3> QED BY <1>0, <2>1, <3>1, FitKept
  <2>5. pc' = "path" => \A f \in Holders' \ todo' : Fit(f)' BY <2>1, <2>3, <2>4
  <2>6. pc' = "fill" => \A f \in Holders' : Fit(f)' BY <2>1, <2>3, <2>4
  <2> QED BY <2>1, <2>3, <2>5, <2>6 DEF FitQ
<1>7. CASE Before /\ pc' # "done"
  <2>1. /\ pc = "before" /\ UNCHANGED <<name, refs, found, files>>
        /\ before' = [before EXCEPT ![cur] = [size |-> files[cur].size, mtime |-> files[cur].mtime]]
        /\ \/ pc' = "before" /\ todo' = todo \ {cur}
           \/ pc' \in {"stage", "finish"} /\ todo = {cur} /\ todo' = Holders
    BY <1>7, StopEnds DEF Before, lookup, NextHolder, fsvars
  <2>2. cur \in Files /\ cur \in todo BY <1>0, <2>1, CurIs
  <2>3. Holders' = Holders /\ Holders \subseteq Files BY <2>1 DEF Holders
  <2>4. \A f \in Holders' : Fit(f)'
    <3> SUFFICES ASSUME NEW f \in Holders PROVE Fit(f)' BY <2>3
    <3>1. Fit(f) /\ f \in Files BY <2>1, <2>3 DEF FitQ
    <3> QED BY <1>0, <2>1, <3>1, FitKept
  <2>5. before'[cur].size = files[cur].size /\ before'[cur].mtime = files[cur].mtime
    BY <2>1, <2>2, <1>0 DEF StageOK
  <2>6. ASSUME NEW f \in Holders, f \in Holders \ todo \/ f = cur PROVE Verified(f)'
    <3>1. f \in Files BY <2>3
    <3>2. CASE f = cur BY <2>1, <2>5, <3>2 DEF Verified
    <3>3. CASE f # cur
      <4>1. before'[f] = before[f] BY <2>1, <3>1, <3>3, <1>0 DEF StageOK
      <4>2. Verified(f) BY <2>1, <2>6, <3>3 DEF FitQ
      <4> QED BY <1>0, <2>1, <3>1, <4>1, <4>2, FitKept
    <3> QED BY <3>2, <3>3
  <2>7. pc' = "before" => \A f \in Holders' \ todo' : Verified(f)' BY <2>1, <2>3, <2>6
  <2>8. pc' # "before" => \A f \in Holders' : Verified(f)' BY <2>1, <2>3, <2>6
  <2> QED BY <2>1, <2>3, <2>4, <2>7, <2>8 DEF FitQ
<1>8. CASE Onward
  <2>1. /\ pc \in Acting /\ pc' \in Acting
        /\ UNCHANGED <<name, refs, found>>
        /\ pc' \in {"fill", "pread"} => pc \in {"fill", "pread"} /\ todo' = todo
        /\ pc' = "before" => pc \in {"fill", "pread"} /\ todo' = todo
        /\ pc' = "stage" => todo' = Holders
        /\ pc' \in Late => pc \in Late /\ before' = before
    BY <1>8 DEF Onward
  <2>2. Holders' = Holders /\ Holders \subseteq Files BY <2>1 DEF Holders
  <2>3. \A f \in Holders' : Fit(f)'
    <3> SUFFICES ASSUME NEW f \in Holders PROVE Fit(f)' BY <2>2
    <3>1. Fit(f) /\ f \in Files BY <2>1, <2>2 DEF FitQ
    <3> QED BY <1>0, <2>1, <3>1, FitKept
  <2>4. pc' \in Late => \A f \in Holders' : Verified(f)'
    <3> SUFFICES ASSUME pc' \in Late, NEW f \in Holders PROVE Verified(f)' BY <2>2
    <3>1. Verified(f) /\ f \in Files BY <2>1, <2>2 DEF FitQ
    <3> QED BY <1>0, <2>1, <3>1, FitKept
  <2>5. pc' \in {"fill", "pread"} => todo' = Holders' BY <2>1, <2>2 DEF FitQ
  <2>6. pc' = "before" => Holders' \ todo' = {} BY <2>1, <2>2 DEF FitQ
  <2> QED BY <2>1, <2>2, <2>3, <2>4, <2>5, <2>6 DEF FitQ
<1> QED BY <1>1, <1>2, <1>3, <1>4, <1>5, <1>6, <1>7, <1>8, ToolOnward

\* What a file holds of the extent reads as the extent does.
Content == \A f \in Files, i \in Sectors, x \in Secs, o \in Offsets :
              Holds(f, i, x) /\ Pos(i, o) < files[f].size => Byte(f, i, o) = disk[Ext][x][o]

LEMMA ContentEarly ==
    ASSUME FsOK, LookOK, LookQ, pc \in Early
    PROVE  Content
<1> SUFFICES ASSUME NEW f \in Files, NEW i \in Sectors, NEW x \in Secs, NEW o \in Offsets,
                    Holds(f, i, x)
             PROVE  Byte(f, i, o) = disk[Ext][x][o]
    BY DEF Content
<1>1. x \in Int BY DEF Secs
<1>2. refs[f] = Items(files[f].map) BY DEF LookQ
<1>3. files[f].map[i].addr = Ext /\ files[f].map[i].sec = x BY <1>1, <1>2, HeldIsThere
<1> QED BY <1>3 DEF Byte, Ext

\* Users see no step of the tool, so that it stays so.
LEMMA ContentKept ==
    ASSUME TInv, Content, ToolNext, refs' = refs
    PROVE  Content'
<1> SUFFICES ASSUME NEW f \in Files, NEW i \in Sectors, NEW x \in Secs, NEW o \in Offsets,
                    Holds(f, i, x)', Pos(i, o) < files'[f].size
             PROVE  Byte(f, i, o)' = disk'[Ext][x][o]
    BY DEF Content
<1>0. Inv /\ FsOK /\ FsOK' BY NextT DEF TInv, Next
<1>1. View' = View /\ files'[f].size = files[f].size BY <1>0, ToolInvisible, ToolMeta
<1>2. Holds(f, i, x) BY DEF Holds
<1>3. Byte(f, i, o) = disk[Ext][x][o] BY <1>1, <1>2 DEF Content
<1>4. Byte(f, i, o)' = Byte(f, i, o)
  <2>1. View[f][i][o] = Byte(f, i, o) BY <1>1 DEF View
  <2>2. View'[f][i][o] = Byte(f, i, o)' BY DEF View
  <2> QED BY <2>1, <2>2, <1>1
<1>5. disk'[Ext] = disk[Ext] BY <1>0 DEF FsOK
<1> QED BY <1>3, <1>4, <1>5

\* What is held, and what is whole, is settled by the references found.
LEMMA HasKept ==
    ASSUME Inv, ToolNext, refs' = refs, NEW f \in Files
    PROVE  /\ \A i, x : Holds(f, i, x)' = Holds(f, i, x)
           /\ \A i : Whole(f, i)' = Whole(f, i)
           /\ \A i, x : HasWhole(f, i, x)' = HasWhole(f, i, x)
<1>1. files'[f].size = files[f].size BY ToolMeta
<1>2. ASSUME NEW i, NEW x PROVE Holds(f, i, x)' = Holds(f, i, x) BY DEF Holds
<1>3. ASSUME NEW i PROVE Whole(f, i)' = Whole(f, i) BY <1>1 DEF Whole
<1> QED BY <1>2, <1>3 DEF HasWhole

LEMMA SizeIs ==
    ASSUME FsOK, NEW f \in Files
    PROVE  files[f].size \in Nat
<1>1. files[f] \in File BY DEF FsOK
<1>2. files[f].size \in Sizes BY <1>1, FileParts
<1>3. MaxSectors \in Int /\ Pos(MaxSectors, 0) \in Int BY BtrfsAssumption, PosInt
<1> QED BY <1>2, <1>3 DEF Sizes

\* Every whole sector that a file holds of the stretch staged is in a call.
LEMMA ChunkCovers ==
    ASSUME FsOK, LookOK, FillOK, copies # {}, NEW f \in Files, before[f].size = files[f].size,
           NEW i \in Sectors, NEW x \in Secs, HasWhole(f, i, x), In(copy, x)
    PROVE  \E c \in Chunks(f) : c.at <= i /\ i < c.at + c.len \div SectorSize
<1>1. i \in Int /\ x \in Int BY DEF Sectors, Secs
<1>2. PICK h \in Nat, e \in Nat, n \in Nat : HoldsBy(f, i, x, h, e, n) BY <1>1, HoldsIs DEF HasWhole
<1>3. /\ n >= 1 /\ Ref(h, e, n) \in refs[f] /\ h <= i /\ i < h + n /\ x = e + (i - h)
  BY <1>2 DEF HoldsBy
<1>4. PICK a \in Nat, b \in Nat : a < b /\ copy.start = Pos(a, 0) /\ copy.end = Pos(b, 0)
  BY CopySectors
<1>5. a <= x /\ x < b
  <2>1. Pos(a, 0) <= Pos(x, 0) BY <1>4 DEF In
  <2>2. Pos(x, 0) < Pos(b, 0) BY <1>4 DEF In
  <2>3. a <= x BY <2>1, <1>1, PosUpTo
  <2>4. x < b BY <2>2, <1>1, PosLess
  <2> QED BY <2>3, <2>4
<1> DEFINE l == From(e, a)
           t == Upto(e, n, b)
           at == h + (l - e)
<1>6. l \in Nat /\ t \in Nat /\ l <= x /\ x < t /\ e <= l /\ a <= l
  BY <1>1, <1>3, <1>5 DEF From, Upto
<1>7. before[f].size \in Nat /\ Pos(i + 1, 0) <= before[f].size
  BY SizeIs DEF HasWhole, Whole
<1> HIDE DEF l, t
<1>8. at \in Nat /\ at <= i /\ (i + 1) - at <= t - l BY <1>1, <1>3, <1>6
<1>9. Pos(at, 0) < before[f].size
  <2>1. at \in Int /\ i + 1 \in Int /\ at < i + 1 BY <1>1, <1>8
  <2> HIDE DEF at
  <2>2. Pos(at, 0) < Pos(i + 1, 0) /\ Pos(at, 0) \in Int /\ Pos(i + 1, 0) \in Int
    BY <2>1, PosLess, PosInt
  <2> QED BY <2>2, <1>7
<1>10. Has(f, h, e, n, a, b) BY <1>1, <1>6, <1>9 DEF Has, l, t
<1> DEFINE c == Chunk(f, h, e, n, a, b)
<1>18. c = Chunk(f, h, e, n, a, b) /\ l = From(e, a) /\ t = Upto(e, n, b) BY DEF l, t
<1>11. c \in Chunks(f)
  <2>1. RefSet(refs[f]) BY DEF LookOK
  <2>2. \A hh \in Nat, ee \in Nat, nn \in Nat :
           nn >= 1 /\ Ref(hh, ee, nn) \in refs[f] /\ Has(f, hh, ee, nn, a, b)
              => Chunk(f, hh, ee, nn, a, b) \in Chunks(f)
    BY <1>4, <1>7, <2>1, ChunksAre
  <2> QED BY <1>3, <1>10, <2>2
<1> HIDE DEF c
<1>12. /\ c.len \in Nat /\ c.at = at
       /\ c.len = Pos(t - l, 0) \/ Pos(c.at, 0) + c.len = before[f].size
  <2>1. ChunkLies(f, h, e, n, a, b, c, l, t) BY <1>3, <1>7, <1>10, <1>18, ChunkFacts
  <2> QED BY <2>1 DEF ChunkLies
<1>13. Pos((i + 1) - at, 0) <= c.len
  <2> HIDE DEF at
  <2>1. (i + 1) - at \in Int /\ t - l \in Int /\ at \in Int /\ i + 1 \in Int BY <1>1, <1>6, <1>8
  <2>2. Pos((i + 1) - at, 0) <= Pos(t - l, 0) BY <2>1, <1>8, PosUpTo
  <2>4. Pos(i + 1, 0) \in Int /\ Pos(at, 0) \in Int BY <2>1, PosInt
  <2>7. Pos(i + 1, 0) - Pos(at, 0) = Pos((i + 1) - at, 0)
    <3> DEFINE u == i + 1
    <3>1. u \in Int /\ at \in Int BY <2>1
    <3> HIDE DEF u
    <3>2. Pos(u, 0) - Pos(at, 0) = Pos(u - at, 0) BY <3>1, PosSum
    <3> QED BY <3>2 DEF u
  <2>5. CASE c.len = Pos(t - l, 0) BY <2>2, <2>5
  <2>6. CASE Pos(c.at, 0) + c.len = before[f].size BY <2>4, <2>6, <2>7, <1>7, <1>12
  <2> QED BY <2>5, <2>6, <1>12
<1> HIDE DEF at
<1>14. /\ c.len \div SectorSize \in Nat /\ c.len < Pos(c.len \div SectorSize + 1, 0)
  BY <1>12, PosDiv
<1>15. (i + 1) - at < c.len \div SectorSize + 1
  <2>1. (i + 1) - at \in Int /\ c.len \div SectorSize + 1 \in Int BY <1>1, <1>8, <1>14
  <2>2. Pos((i + 1) - at, 0) \in Int /\ Pos(c.len \div SectorSize + 1, 0) \in Int BY <2>1, PosInt
  <2>3. Pos((i + 1) - at, 0) < Pos(c.len \div SectorSize + 1, 0) BY <2>2, <1>12, <1>13, <1>14
  <2> QED BY <2>1, <2>3, PosLess
<1>16. c.at <= i /\ i < c.at + c.len \div SectorSize BY <1>1, <1>8, <1>12, <1>14, <1>15
<1> QED BY <1>11, <1>16

\* What a call moves the file holds of the stretch, at the same place in both.
LEMMA ChunkSectors ==
    ASSUME LookOK, FillOK, copies # {}, NEW f \in Files, before[f].size \in Nat, NEW c \in Chunks(f),
           NEW src, NEW k \in Int, c.at <= k, k < c.at + DedupeSectors(f, c, src)
    PROVE  \E x \in Secs : /\ Holds(f, k, x) /\ In(copy, x)
                           /\ copy.start + Pos(c.sec + (k - c.at), 0) = Pos(x, 0)
                           /\ \A y \in Int : Holds(f, k, y) => y = x
<1>4. PICK a \in Nat, b \in Nat : a < b /\ b <= ExtentSectors /\ copy.start = Pos(a, 0) /\ copy.end = Pos(b, 0)
  BY CopySectors
<1>2. RefSet(refs[f]) BY DEF LookOK
<1>3. PICK h \in Nat, e \in Nat, n \in Nat :
         /\ n >= 1 /\ h + n <= MaxSectors /\ e + n <= ExtentSectors
         /\ Ref(h, e, n) \in refs[f]
         /\ Has(f, h, e, n, a, b) /\ c = Chunk(f, h, e, n, a, b)
  BY <1>2, <1>4, ChunksAre
<1> DEFINE l == From(e, a)
           t == Upto(e, n, b)
           d == DedupeSectors(f, c, src)
           x == e + (k - h)
<1>5. /\ l \in Nat /\ t \in Nat /\ e <= l /\ a <= l /\ l < t /\ t <= e + n /\ t <= b
      /\ c.at \in Nat /\ c.at = h + (l - e)
      /\ c.sec \in Nat /\ c.sec = l - a
      /\ c.len \in Nat /\ c.len <= Pos(t - l, 0)
  <2>1. l = From(e, a) /\ t = Upto(e, n, b) OBVIOUS
  <2> HIDE DEF l, t
  <2>2. ChunkLies(f, h, e, n, a, b, c, l, t) BY <1>3, <2>1, ChunkFacts
  <2> QED BY <2>2 DEF ChunkLies
<1> HIDE DEF l, t
<1>6. d \in Nat /\ c.sec + d <= t - a
  <2>1. t - a \in Nat /\ t - l \in Nat BY <1>5
  <2>2. Pos(c.sec, 0) + Pos(t - l, 0) = Pos(c.sec + (t - l), 0) BY <1>5, <2>1, PosSum
  <2>3. c.sec + (t - l) = t - a BY <1>5
  <2>4. Pos(c.sec, 0) \in Int /\ Pos(t - l, 0) \in Int BY <1>5, <2>1, PosInt
  <2>5. Pos(c.sec, 0) + c.len <= Pos(t - a, 0) BY <2>2, <2>3, <2>4, <1>5
  <2> QED BY <1>5, <2>1, <2>5, SectorsMoved
<1>9. k < c.at + d OBVIOUS
<1> HIDE DEF d
<1>7. /\ h <= k /\ k < h + n /\ x \in Int /\ x >= 0 /\ a <= x /\ x < b /\ c.sec + (k - c.at) = x - a
  BY <1>5, <1>6, <1>9
<1>8. Holds(f, k, x) BY <1>3, <1>7, IsHeld
<1>10. \A y \in Int : Holds(f, k, y) => y = x BY <1>3, <1>7, HoldsOnce
<1> HIDE DEF x
<1>11. Pos(a, 0) <= Pos(x, 0) BY <1>7, PosUpTo
<1>12. Pos(x, 0) < Pos(b, 0) BY <1>7, PosLess
<1>13. Pos(x, 0) - Pos(a, 0) = Pos(x - a, 0) BY <1>7, PosSum
<1>14. Pos(x, 0) \in Int /\ Pos(a, 0) \in Int BY <1>7, PosInt
<1>15. copy.start + Pos(c.sec + (k - c.at), 0) = Pos(x, 0) BY <1>4, <1>7, <1>13, <1>14
<1>16. In(copy, x) BY <1>4, <1>11, <1>12 DEF In
<1>17. x \in Secs BY <1>4, <1>7, ReallocAssumption DEF Secs
<1> QED BY <1>8, <1>10, <1>15, <1>16, <1>17

-----------------------------------------------------------------------------
(* Redirecting a stretch moves every whole sector of it, for every holder. *)

\* A mapping m leads to where sector x of the extent was staged, in stretch c.
AtCopy(m, x, c, addr) == /\ In(c, x) /\ m.addr = addr
                         /\ c.start + Pos(m.sec, 0) = Pos(x, 0)
Moved(f, i, x) == AtCopy(files[f].map[i], x, copy, temp.addr)

\* The holders that the stretch at hand has still to be redirected for, and the
\* sectors of the one that is being redirected.
Pending(f, i) == IF pc = "dedupe" /\ f = cur
                   THEN \E c \in calls : c.at <= i /\ i < c.at + c.len \div SectorSize
                   ELSE f \in todo

Same(f, i, g, j) == SameSector(files[f].map[i], files[g].map[j])
Shares == \A f \in Files, g \in Files, i \in Sectors, j \in Sectors, x \in Secs :
             HasWhole(f, i, x) /\ HasWhole(g, j, x) => Same(f, i, g, j)

\* While a stretch is redirected, a whole sector of it has been moved or is to be,
\* and two that were the same are so unless one of them has.
MoveQ == pc \in {"redirect", "dedupe"} =>
    /\ \A f \in Files, i \in Sectors, x \in Secs :
          HasWhole(f, i, x) /\ In(copy, x) => Moved(f, i, x) \/ Pending(f, i)
    /\ \A f \in Files, g \in Files, i \in Sectors, j \in Sectors, x \in Secs :
          HasWhole(f, i, x) /\ HasWhole(g, j, x)
             => Same(f, i, g, j) \/ Moved(f, i, x) \/ Moved(g, j, x)
    /\ pc = "dedupe" => calls \subseteq Chunks(cur)

\* Between two stretches they are all the same again.
Ending == {"finish", "tail", "verify", "check"}
ShareQ == (pc \in {"stage"} \union Ending \/ (pc = "done" /\ outcome = "Rewritten")) => Shares

LEMMA SectorIs ==
    ASSUME FsOK, NEW f \in Files, NEW i \in Sectors
    PROVE  /\ files[f].map[i].addr \in Nat /\ files[f].map[i].sec \in Nat
           /\ files[f].map \in [Sectors -> Mapping]
<1>1. files[f] \in File BY DEF FsOK
<1>2. files[f].map \in [Sectors -> Mapping] BY <1>1, FileParts
<1>3. files[f].map[i] \in Mapping BY <1>2
<1> QED BY <1>2, <1>3 DEF Mapping

LEMMA AtSame ==
    ASSUME NEW m, NEW n, NEW x \in Int, NEW c, NEW addr, AtCopy(m, x, c, addr), AtCopy(n, x, c, addr),
           m.sec \in Int, n.sec \in Int, c.start \in Int
    PROVE  SameSector(m, n)
<1>1. Pos(m.sec, 0) \in Int /\ Pos(n.sec, 0) \in Int BY PosInt
<1>2. Pos(m.sec, 0) = Pos(n.sec, 0) BY <1>1 DEF AtCopy
<1>3. m.sec = n.sec BY <1>2, PosSum
<1> QED BY <1>3 DEF AtCopy, SameSector

LEMMA EarlyShares ==
    ASSUME FsOK, LookOK, LookQ, pc \in Early
    PROVE  Shares
<1> SUFFICES ASSUME NEW f \in Files, NEW g \in Files, NEW i \in Sectors, NEW j \in Sectors,
                    NEW x \in Secs, Holds(f, i, x), Holds(g, j, x)
             PROVE  Same(f, i, g, j)
  BY DEF Shares, HasWhole
<1>1. x \in Int BY DEF Secs
<1>2. refs[f] = Items(files[f].map) /\ refs[g] = Items(files[g].map) BY DEF LookQ
<1>3. files[f].map[i].addr = Ext /\ files[f].map[i].sec = x BY <1>1, <1>2, HeldIsThere
<1>4. files[g].map[j].addr = Ext /\ files[g].map[j].sec = x BY <1>1, <1>2, HeldIsThere
<1> QED BY <1>3, <1>4 DEF Same, SameSector

\* As long as nothing moves.
LEMMA SharesKept ==
    ASSUME Inv, ToolNext, UNCHANGED <<refs, files>>, Shares
    PROVE  Shares'
<1>1. \A f \in Files : \A i, x : HasWhole(f, i, x)' = HasWhole(f, i, x) BY HasKept
<1>2. \A f, i, g, j : Same(f, i, g, j)' = Same(f, i, g, j) BY DEF Same
<1> QED BY <1>1, <1>2 DEF Shares

\* A holder is done with.  H1 and H2 are what MoveQ says, once it is.
LEMMA MovedOn ==
    ASSUME TInv, ToolNext, pc \in {"redirect", "dedupe"}, Redirected,
           UNCHANGED <<refs, found, temp, outcome>>,
           \A f \in Files, i \in Sectors, x \in Secs : HasWhole(f, i, x) /\ In(copy, x)
              => AtCopy(files'[f].map[i], x, copy, temp.addr) \/ f \in todo \ {cur},
           \A f \in Files, g \in Files, i \in Sectors, j \in Sectors, x \in Secs :
              HasWhole(f, i, x) /\ HasWhole(g, j, x)
                => \/ SameSector(files'[f].map[i], files'[g].map[j])
                   \/ AtCopy(files'[f].map[i], x, copy, temp.addr)
                   \/ AtCopy(files'[g].map[j], x, copy, temp.addr)
    PROVE  MoveQ' /\ ShareQ'
<1>0. Inv /\ FsOK /\ LookOK /\ FillOK /\ StageOK /\ FsOK' BY NextT DEF TInv, Next
<1>1. \A f \in Files : \A i, x : HasWhole(f, i, x)' = HasWhole(f, i, x) BY <1>0, HasKept
<1>2. CASE todo = {cur}
  <2>1. pc' \in {"stage", "finish"} BY <1>2 DEF Redirected, NextHolder
  <2>2. ASSUME NEW f \in Files, NEW g \in Files, NEW i \in Sectors, NEW j \in Sectors, NEW x \in Secs,
               HasWhole(f, i, x), HasWhole(g, j, x)
        PROVE  SameSector(files'[f].map[i], files'[g].map[j])
    <3>1. CASE In(copy, x)
      <4>1. /\ AtCopy(files'[f].map[i], x, copy, temp.addr)
            /\ AtCopy(files'[g].map[j], x, copy, temp.addr)
        BY <2>2, <3>1, <1>2
      <4>2. files'[f].map[i].sec \in Int /\ files'[g].map[j].sec \in Int
        <5>1. files'[f] \in File /\ files'[g] \in File BY <1>0 DEF FsOK
        <5>2. files'[f].map[i] \in Mapping /\ files'[g].map[j] \in Mapping BY <5>1, FileParts
        <5> QED BY <5>2 DEF Mapping
      <4>3. copy.start \in Int
        <5>1. copies # {} BY <1>0 DEF StageOK
        <5>2. PICK a \in Nat : copy.start = Pos(a, 0) BY <1>0, <5>1, CopySectors
        <5> QED BY <5>2, PosInt
      <4>4. x \in Int BY DEF Secs
      <4> QED BY <4>1, <4>2, <4>3, <4>4, AtSame
    <3>2. CASE ~In(copy, x) BY <2>2, <3>2 DEF AtCopy
    <3> QED BY <3>1, <3>2
  <2>3. Shares' BY <1>1, <2>2 DEF Shares, Same
  <2> QED BY <2>1, <2>3 DEF MoveQ, ShareQ
<1>3. CASE todo # {cur}
  <2>1. /\ pc' = "redirect" /\ todo' = todo \ {cur} /\ copies' = copies
    BY <1>3 DEF Redirected, NextHolder
  <2>2. copy' = copy BY <2>1, SameCopy
  <2>3. \A f, i, x : Moved(f, i, x)' = AtCopy(files'[f].map[i], x, copy, temp.addr)
    BY <2>2 DEF Moved, AtCopy, In
  <2>4. \A f, i : Pending(f, i)' = (f \in todo \ {cur}) BY <2>1 DEF Pending
  <2>5. \A x : In(copy, x)' = In(copy, x) BY <2>2 DEF In
  <2>6. \A f, i, g, j : Same(f, i, g, j)' = SameSector(files'[f].map[i], files'[g].map[j])
    BY DEF Same
  <2>7. MoveQ'
    <3>1. ASSUME NEW f \in Files, NEW i \in Sectors, NEW x \in Secs,
                 HasWhole(f, i, x)', In(copy, x)'
          PROVE  Moved(f, i, x)' \/ Pending(f, i)'
      <4>1. HasWhole(f, i, x) /\ In(copy, x) BY <3>1, <1>1, <2>5
      <4> QED BY <4>1, <2>3, <2>4
    <3>2. ASSUME NEW f \in Files, NEW g \in Files, NEW i \in Sectors, NEW j \in Sectors,
                 NEW x \in Secs, HasWhole(f, i, x)', HasWhole(g, j, x)'
          PROVE  Same(f, i, g, j)' \/ Moved(f, i, x)' \/ Moved(g, j, x)'
      <4>1. HasWhole(f, i, x) /\ HasWhole(g, j, x) BY <3>2, <1>1
      <4> QED BY <4>1, <2>3, <2>6
    <3> QED BY <2>1, <3>1, <3>2 DEF MoveQ
  <2> QED BY <2>1, <2>7 DEF ShareQ, Ending
<1> QED BY <1>2, <1>3

\* What a dedupe does to the sectors of a file.
LEMMA DedupeSteps ==
    ASSUME FsOK, NEW f \in Files, NEW c, NEW n, NEW src, Dedupe(f, c, n, src)
    PROVE  /\ \A g \in Files : g # f => files'[g] = files[g]
           /\ \A i \in Sectors :
                /\ i \in c.at .. c.at + n - 1 =>
                     files'[f].map[i].addr = src.addr /\ files'[f].map[i].sec = c.sec + (i - c.at)
                /\ i \notin c.at .. c.at + n - 1 =>
                     /\ files'[f].map[i].addr = files[f].map[i].addr
                     /\ files'[f].map[i].sec = files[f].map[i].sec
<1> DEFINE P == Paste(files[f].map, c.at, n, src.addr, c.sec)
<1>1. files' = [files EXCEPT ![f].map = P] BY DEF Dedupe
<1>2. files \in [Files -> File] /\ files[f] \in File BY DEF FsOK
<1> HIDE DEF P
<1>3. \A g \in Files : g # f => files'[g] = files[g] BY <1>1, <1>2
<1>4. files'[f].map = P
  <2>1. files'[f] = [files[f] EXCEPT !.map = P] BY <1>1, <1>2
  <2>2. files[f] = [link |-> files[f].link, size |-> files[f].size, mtime |-> files[f].mtime,
                    nocow |-> files[f].nocow, map |-> files[f].map]
    BY <1>2, FileParts
  <2> QED BY <2>1, <2>2
<1>5. ASSUME NEW i \in Sectors
      PROVE  /\ i \in c.at .. c.at + n - 1 => P[i].addr = src.addr /\ P[i].sec = c.sec + (i - c.at)
             /\ i \notin c.at .. c.at + n - 1 =>
                  P[i].addr = files[f].map[i].addr /\ P[i].sec = files[f].map[i].sec
  BY PasteSectors DEF P
<1> QED BY <1>3, <1>4, <1>5

LEMMA StageMoves ==
    ASSUME TInv, FitQ, ShareQ, Stage, ToolNext
    PROVE  MoveQ' /\ ShareQ'
<1>0. Inv /\ LookOK BY DEF TInv
<1>1. /\ pc = "stage" /\ pc' = "redirect" /\ UNCHANGED <<refs, files, todo, found>>
  BY DEF Stage, lookup
<1>2. Shares BY <1>1 DEF ShareQ
<1>3. Shares' BY <1>0, <1>1, <1>2, SharesKept
<1>4. ASSUME NEW f \in Files, NEW i \in Sectors, NEW x \in Secs, HasWhole(f, i, x)'
      PROVE  Pending(f, i)'
  <2>1. HasWhole(f, i, x) BY <1>0, <1>1, <1>4, HasKept
  <2>2. i \in Int /\ x \in Int BY DEF Sectors, Secs
  <2>3. f \in Holders BY <1>0, <2>1, <2>2, HoldsRange DEF HasWhole
  <2>4. todo' = Holders BY <1>1 DEF FitQ
  <2> QED BY <1>1, <2>3, <2>4 DEF Pending
<1>5. MoveQ' BY <1>1, <1>3, <1>4 DEF MoveQ, Shares
<1> QED BY <1>1, <1>5 DEF ShareQ, Ending

\* Once a holder is done with, what it holds of the stretch has been moved.
AllMoved == \A f \in Files, i \in Sectors, x \in Secs : HasWhole(f, i, x) /\ In(copy, x)
               => AtCopy(files'[f].map[i], x, copy, temp.addr) \/ f \in todo \ {cur}

LEMMA RedirectOpenMoves ==
    ASSUME TInv, FitQ, MoveQ, RedirectOpen, ToolNext, pc' # "done"
    PROVE  MoveQ' /\ ShareQ' /\ (pc' = "dedupe" \/ (Redirected /\ AllMoved))
<1>0. Inv /\ FsOK /\ LookOK /\ FillOK /\ StageOK BY DEF TInv
<1>1. /\ pc = "redirect" /\ calls' = Chunks(cur)
      /\ IF calls' = {} THEN Redirected ELSE pc' = "dedupe" /\ UNCHANGED <<todo, copies>>
      /\ UNCHANGED <<files, refs, found, before, temp, outcome>>
  <2>1. pc = "redirect" /\ \A out : ~Stop(out) BY StopEnds DEF RedirectOpen
  <2> QED BY <2>1 DEF RedirectOpen, fsvars, lookup
<1>2. cur \in Files /\ cur \in Holders /\ cur \in todo BY <1>0, <1>1, CurIs
<1>3. copies # {} BY <1>0, <1>1 DEF StageOK
<1>4. before[cur].size = files[cur].size BY <1>1, <1>2 DEF FitQ, Late, Verified
<1>5. \A i \in Sectors, x \in Secs : HasWhole(cur, i, x) /\ In(copy, x) =>
          \E c \in Chunks(cur) : c.at <= i /\ i < c.at + c.len \div SectorSize
  BY <1>0, <1>2, <1>3, <1>4, ChunkCovers
<1>6. \A f \in Files, i \in Sectors, x \in Secs :
          HasWhole(f, i, x) /\ In(copy, x) => Moved(f, i, x) \/ f \in todo
  BY <1>1 DEF MoveQ, Pending
<1>7. \A f \in Files, g \in Files, i \in Sectors, j \in Sectors, x \in Secs :
          HasWhole(f, i, x) /\ HasWhole(g, j, x)
             => Same(f, i, g, j) \/ Moved(f, i, x) \/ Moved(g, j, x)
  BY <1>1 DEF MoveQ
<1>8. CASE calls' = {}
  <2>1. \A f \in Files, i \in Sectors, x \in Secs : HasWhole(f, i, x) /\ In(copy, x)
           => AtCopy(files'[f].map[i], x, copy, temp.addr) \/ f \in todo \ {cur}
    BY <1>1, <1>5, <1>6, <1>8 DEF Moved
  <2>2. \A f \in Files, g \in Files, i \in Sectors, j \in Sectors, x \in Secs :
           HasWhole(f, i, x) /\ HasWhole(g, j, x)
             => \/ SameSector(files'[f].map[i], files'[g].map[j])
                \/ AtCopy(files'[f].map[i], x, copy, temp.addr)
                \/ AtCopy(files'[g].map[j], x, copy, temp.addr)
    BY <1>1, <1>7 DEF Moved, Same
  <2>3. Redirected /\ pc \in {"redirect", "dedupe"} /\ UNCHANGED <<refs, found, temp, outcome>>
    BY <1>1, <1>8
  <2>4. MoveQ' /\ ShareQ' BY <2>1, <2>2, <2>3, MovedOn
  <2> QED BY <2>1, <2>3, <2>4 DEF AllMoved
<1>9. CASE calls' # {}
  <2>1. pc' = "dedupe" /\ todo' = todo /\ copies' = copies BY <1>1, <1>9
  <2>2. copy' = copy /\ cur' = cur BY <2>1, SameCopy DEF cur
  <2>3. Chunks(cur)' = Chunks(cur) BY <1>1, <2>2 DEF Chunks
  <2>4. \A f \in Files : \A i, x : HasWhole(f, i, x)' = HasWhole(f, i, x) BY <1>0, <1>1, HasKept
  <2>5. \A f, i, x : Moved(f, i, x)' = Moved(f, i, x) BY <1>1, <2>2 DEF Moved, AtCopy, In
  <2>6. \A x : In(copy, x)' = In(copy, x) BY <2>2 DEF In
  <2>7. \A f, i, g, j : Same(f, i, g, j)' = Same(f, i, g, j) BY <1>1 DEF Same
  <2>8. ASSUME NEW f \in Files, NEW i \in Sectors, NEW x \in Secs, HasWhole(f, i, x)', In(copy, x)'
        PROVE  Moved(f, i, x)' \/ Pending(f, i)'
    <3>1. HasWhole(f, i, x) /\ In(copy, x) BY <2>8, <2>4, <2>6
    <3>2. CASE f = cur
      <4>1. Pending(f, i)' BY <3>1, <3>2, <1>1, <1>5, <2>1, <2>2 DEF Pending
      <4> QED BY <4>1
    <3>3. CASE f # cur
      <4>1. Moved(f, i, x) \/ f \in todo BY <3>1, <1>6
      <4>2. f \in todo => Pending(f, i)' BY <3>3, <2>1, <2>2 DEF Pending
      <4> QED BY <4>1, <4>2, <2>5
    <3> QED BY <3>2, <3>3
  <2>9. ASSUME NEW f \in Files, NEW g \in Files, NEW i \in Sectors, NEW j \in Sectors,
               NEW x \in Secs, HasWhole(f, i, x)', HasWhole(g, j, x)'
        PROVE  Same(f, i, g, j)' \/ Moved(f, i, x)' \/ Moved(g, j, x)'
    <3>1. HasWhole(f, i, x) /\ HasWhole(g, j, x) BY <2>9, <2>4
    <3> QED BY <3>1, <1>7, <2>5, <2>7
  <2>10. MoveQ' BY <1>1, <2>1, <2>3, <2>8, <2>9 DEF MoveQ
  <2> QED BY <2>1, <2>10 DEF ShareQ, Ending
<1> QED BY <1>8, <1>9

\* One call is made: the sectors it moves are those it is for.
LEMMA CallMoves ==
    ASSUME TInv, MoveQ, FitQ, Faults = {}, DedupeChunk, pc' # "done"
    PROVE  LET n == DedupeSectors(cur, call, temp)
           IN  /\ pc = "dedupe" /\ call \in calls /\ call \in Chunks(cur) /\ cur \in Files
               /\ n \in Nat /\ n >= call.len \div SectorSize /\ call.len \div SectorSize \in Nat
               /\ call.at \in Nat /\ call.sec \in Nat
               /\ Dedupe(cur, call, n, temp)
               /\ calls' = calls \ {call}
               /\ IF calls' = {} THEN Redirected ELSE UNCHANGED <<pc, todo, copies>>
               /\ UNCHANGED <<disk, refs, found, before, temp, outcome>>
<1> DEFINE d == DedupeSectors(cur, call, temp)
<1>0. Inv /\ FsOK /\ LookOK /\ FillOK /\ StageOK BY DEF TInv
<1>1. pc = "dedupe" /\ \A out : ~Stop(out) BY StopEnds DEF DedupeChunk
<1>2. call \in calls /\ IsCall(call) BY <1>0, <1>1, DedupeIs
<1>3. calls \subseteq Chunks(cur) BY <1>1 DEF MoveQ
<1>4. cur \in Files BY <1>0, <1>1, CurIs
<1>5. Moves(cur, call) = {d} BY DEF Moves
<1>6. /\ Dedupe(cur, call, d, temp) /\ calls' = calls \ {call}
      /\ IF calls' = {} THEN Redirected ELSE UNCHANGED <<pc, todo, copies>>
      /\ UNCHANGED <<disk, refs, found, before, temp, outcome>>
  BY <1>1, <1>5 DEF DedupeChunk, lookup
<1>7. d \in Nat /\ d >= call.len \div SectorSize /\ call.len \div SectorSize \in Nat
  <2> DEFINE w == call.len \div SectorSize
  <2>1. w \in Nat BY <1>2, PosDiv DEF IsCall
  <2>2. d = w + 0 \/ d = w + 1 BY DEF DedupeSectors
  <2> HIDE DEF d, w
  <2>3. d \in Nat /\ d >= w BY <2>1, <2>2
  <2> QED BY <2>1, <2>3 DEF w
<1>8. call.at \in Nat /\ call.sec \in Nat BY <1>2 DEF IsCall
<1> QED BY <1>1, <1>2, <1>3, <1>4, <1>6, <1>7, <1>8

LEMMA DedupeChunkMoves ==
    ASSUME TInv, FitQ, MoveQ, Faults = {}, DedupeChunk, ToolNext, pc' # "done"
    PROVE  MoveQ' /\ ShareQ' /\ (pc' = "dedupe" \/ (Redirected /\ AllMoved))
<1> DEFINE d == DedupeSectors(cur, call, temp)
           M(f, i) == files'[f].map[i]
<1>0. Inv /\ FsOK /\ LookOK /\ FillOK /\ StageOK BY DEF TInv
<1>1. /\ pc = "dedupe" /\ call \in calls /\ call \in Chunks(cur) /\ cur \in Files
      /\ d \in Nat /\ d >= call.len \div SectorSize /\ call.len \div SectorSize \in Nat
      /\ call.at \in Nat /\ call.sec \in Nat
      /\ Dedupe(cur, call, d, temp)
      /\ calls' = calls \ {call}
      /\ IF calls' = {} THEN Redirected ELSE UNCHANGED <<pc, todo, copies>>
      /\ UNCHANGED <<disk, refs, found, before, temp, outcome>>
  BY CallMoves
<1>2. copies # {} BY <1>0, <1>1 DEF StageOK
<1>3. before[cur].size \in Nat BY <1>0, <1>1 DEF StageOK
<1>4. /\ \A g \in Files : g # cur => files'[g] = files[g]
      /\ \A i \in Sectors :
           /\ i \in call.at .. call.at + d - 1 =>
                M(cur, i).addr = temp.addr /\ M(cur, i).sec = call.sec + (i - call.at)
           /\ i \notin call.at .. call.at + d - 1 =>
                /\ M(cur, i).addr = files[cur].map[i].addr
                /\ M(cur, i).sec = files[cur].map[i].sec
  <2> HIDE DEF d
  <2> QED BY <1>0, <1>1, DedupeSteps
<1>5. ASSUME NEW i \in Sectors, NEW x \in Secs, HasWhole(cur, i, x), i \in call.at .. call.at + d - 1
      PROVE  AtCopy(M(cur, i), x, copy, temp.addr)
  <2>1. i \in Int /\ x \in Int /\ call.at <= i /\ i < call.at + d BY <1>1, <1>5 DEF Sectors, Secs
  <2>4. call \in Chunks(cur) /\ cur \in Files BY <1>1
  <2>2. PICK y \in Secs : /\ Holds(cur, i, y) /\ In(copy, y)
                          /\ copy.start + Pos(call.sec + (i - call.at), 0) = Pos(y, 0)
                          /\ \A z \in Int : Holds(cur, i, z) => z = y
    BY <1>0, <1>2, <1>3, <2>1, <2>4, ChunkSectors
  <2>3. x = y BY <1>5, <2>1, <2>2 DEF HasWhole
  <2> QED BY <1>4, <1>5, <2>2, <2>3 DEF AtCopy
<1>6. ASSUME NEW f \in Files, NEW i \in Sectors, f # cur \/ i \notin call.at .. call.at + d - 1
      PROVE  /\ M(f, i).addr = files[f].map[i].addr /\ M(f, i).sec = files[f].map[i].sec
             /\ \A x, c, addr : AtCopy(M(f, i), x, c, addr) = AtCopy(files[f].map[i], x, c, addr)
  BY <1>4, <1>6 DEF AtCopy
<1>7. ASSUME NEW f \in Files, NEW i \in Sectors, NEW x \in Secs, HasWhole(f, i, x), In(copy, x)
      PROVE  \/ AtCopy(M(f, i), x, copy, temp.addr)
             \/ f # cur /\ f \in todo
             \/ /\ f = cur
                /\ \E c \in calls' : c.at <= i /\ i < c.at + c.len \div SectorSize
  <2>1. CASE f = cur /\ i \in call.at .. call.at + d - 1 BY <1>5, <1>7, <2>1
  <2>2. CASE f # cur \/ i \notin call.at .. call.at + d - 1
    <3>1. Moved(f, i, x) \/ Pending(f, i) BY <1>1, <1>7 DEF MoveQ
    <3>2. CASE Moved(f, i, x) BY <1>6, <2>2, <3>2 DEF Moved
    <3>3. CASE Pending(f, i) /\ f # cur BY <3>3 DEF Pending
    <3>4. CASE Pending(f, i) /\ f = cur
      <4>1. PICK c \in calls : c.at <= i /\ i < c.at + c.len \div SectorSize
        BY <1>1, <3>4 DEF Pending
      <4>2. c # call
        <5>1. SUFFICES ASSUME c = call PROVE FALSE OBVIOUS
        <5>2. i \in Int BY DEF Sectors
        <5>3. i \in call.at .. call.at + d - 1 BY <1>1, <4>1, <5>1, <5>2
        <5> QED BY <2>2, <3>4, <5>3
      <4> QED BY <1>1, <3>4, <4>1, <4>2
    <3> QED BY <3>1, <3>2, <3>3, <3>4
  <2> QED BY <2>1, <2>2
<1>8. ASSUME NEW f \in Files, NEW g \in Files, NEW i \in Sectors, NEW j \in Sectors, NEW x \in Secs,
             HasWhole(f, i, x), HasWhole(g, j, x)
      PROVE  \/ SameSector(M(f, i), M(g, j))
             \/ AtCopy(M(f, i), x, copy, temp.addr) \/ AtCopy(M(g, j), x, copy, temp.addr)
  <2>1. CASE f = cur /\ i \in call.at .. call.at + d - 1 BY <1>5, <1>8, <2>1
  <2>2. CASE g = cur /\ j \in call.at .. call.at + d - 1 BY <1>5, <1>8, <2>2
  <2>3. CASE /\ f # cur \/ i \notin call.at .. call.at + d - 1
             /\ g # cur \/ j \notin call.at .. call.at + d - 1
    <3>1. Same(f, i, g, j) \/ Moved(f, i, x) \/ Moved(g, j, x) BY <1>1, <1>8 DEF MoveQ
    <3>2. /\ M(f, i).addr = files[f].map[i].addr /\ M(f, i).sec = files[f].map[i].sec
          /\ AtCopy(M(f, i), x, copy, temp.addr) = Moved(f, i, x)
      BY <1>6, <2>3 DEF Moved
    <3>3. /\ M(g, j).addr = files[g].map[j].addr /\ M(g, j).sec = files[g].map[j].sec
          /\ AtCopy(M(g, j), x, copy, temp.addr) = Moved(g, j, x)
      BY <1>6, <2>3 DEF Moved
    <3> QED BY <3>1, <3>2, <3>3 DEF Same, SameSector
  <2> QED BY <2>1, <2>2, <2>3
<1> HIDE DEF d
<1>9. CASE calls' = {}
  <2>1. \A f \in Files, i \in Sectors, x \in Secs : HasWhole(f, i, x) /\ In(copy, x)
           => AtCopy(files'[f].map[i], x, copy, temp.addr) \/ f \in todo \ {cur}
    BY <1>7, <1>9
  <2>2. Redirected /\ pc \in {"redirect", "dedupe"} /\ UNCHANGED <<refs, found, temp, outcome>>
    BY <1>1, <1>9
  <2>3. MoveQ' /\ ShareQ' BY <1>8, <2>1, <2>2, MovedOn
  <2> QED BY <2>1, <2>2, <2>3 DEF AllMoved
<1>10. CASE calls' # {}
  <2>1. pc' = "dedupe" /\ todo' = todo /\ copies' = copies BY <1>1, <1>10
  <2>2. copy' = copy /\ cur' = cur BY <2>1, SameCopy DEF cur
  <2>3. calls' \subseteq Chunks(cur)'
    <3>1. Chunks(cur)' = Chunks(cur) BY <1>1, <2>2 DEF Chunks
    <3> QED BY <1>1, <3>1 DEF MoveQ
  <2>4. \A f \in Files : \A i, x : HasWhole(f, i, x)' = HasWhole(f, i, x) BY <1>0, <1>1, HasKept
  <2>5. \A f, i, x : Moved(f, i, x)' = AtCopy(M(f, i), x, copy, temp.addr)
    BY <1>1, <2>2 DEF Moved, AtCopy, In
  <2>6. \A x : In(copy, x)' = In(copy, x) BY <2>2 DEF In
  <2>7. \A f, i, g, j : Same(f, i, g, j)' = SameSector(M(f, i), M(g, j)) BY DEF Same
  <2>8. ASSUME NEW f \in Files, NEW i \in Sectors, NEW x \in Secs, HasWhole(f, i, x)', In(copy, x)'
        PROVE  Moved(f, i, x)' \/ Pending(f, i)'
    <3>1. HasWhole(f, i, x) /\ In(copy, x) BY <2>8, <2>4, <2>6
    <3>2. \/ AtCopy(M(f, i), x, copy, temp.addr)
          \/ f # cur /\ f \in todo
          \/ /\ f = cur
             /\ \E c \in calls' : c.at <= i /\ i < c.at + c.len \div SectorSize
      BY <3>1, <1>7
    <3>3. Pending(f, i)' = IF f = cur THEN \E c \in calls' : c.at <= i /\ i < c.at + c.len \div SectorSize
                                     ELSE f \in todo
      BY <2>1, <2>2 DEF Pending
    <3> QED BY <3>2, <3>3, <2>5
  <2>9. ASSUME NEW f \in Files, NEW g \in Files, NEW i \in Sectors, NEW j \in Sectors,
               NEW x \in Secs, HasWhole(f, i, x)', HasWhole(g, j, x)'
        PROVE  Same(f, i, g, j)' \/ Moved(f, i, x)' \/ Moved(g, j, x)'
    <3>1. HasWhole(f, i, x) /\ HasWhole(g, j, x) BY <2>9, <2>4
    <3> QED BY <3>1, <1>8, <2>5, <2>7
  <2>10. MoveQ' BY <2>1, <2>3, <2>8, <2>9 DEF MoveQ
  <2> QED BY <2>1, <2>10 DEF ShareQ, Ending
<1> QED BY <1>9, <1>10

TailCall == [at |-> TailSector(cur), sec |-> 0, len |-> before[cur].size % SectorSize]

\* The part sector at a file's end is not a whole one, and goes alone.
LEMMA TailAlone ==
    ASSUME FsOK, NEW f \in Files, before[f].size = files[f].size
    PROVE  /\ TailSector(f) \in Nat /\ ~Whole(f, TailSector(f))
           /\ Pos(TailSector(f), 0) <= files[f].size /\ files[f].size < Pos(TailSector(f) + 1, 0)
           /\ before[f].size % SectorSize \in Offsets
           /\ files[f].size = Pos(TailSector(f), 0) + (before[f].size % SectorSize)
<1> DEFINE z == before[f].size
<1>1. files[f].size \in Nat /\ z \in Nat BY SizeIs
<1>6. TailSector(f) = z \div SectorSize BY DEF TailSector
<1>7. z = files[f].size OBVIOUS
<1> HIDE DEF z
<1>8. /\ z \div SectorSize \in Nat /\ Pos(z \div SectorSize, 0) <= z
      /\ z < Pos(z \div SectorSize + 1, 0) /\ z % SectorSize \in Offsets
      /\ z = Pos(z \div SectorSize, 0) + (z % SectorSize)
  BY <1>1, PosDiv
<1>2. /\ TailSector(f) \in Nat /\ Pos(TailSector(f), 0) <= files[f].size
      /\ files[f].size < Pos(TailSector(f) + 1, 0) /\ before[f].size % SectorSize \in Offsets
      /\ files[f].size = Pos(TailSector(f), 0) + (before[f].size % SectorSize)
  BY <1>6, <1>7, <1>8 DEF z
<1>3. TailSector(f) + 1 \in Int BY <1>2
<1>4. Pos(TailSector(f) + 1, 0) \in Int BY <1>3, PosInt
<1>5. ~Whole(f, TailSector(f)) BY <1>1, <1>2, <1>4 DEF Whole
<1> QED BY <1>2, <1>5

LEMMA ShortDiv ==
    ASSUME NEW o \in Offsets
    PROVE  o \in Nat /\ o \div SectorSize = 0 /\ o % SectorSize = o
<1>1. SectorSize \in Nat /\ SectorSize > 0 BY BtrfsAssumption
<1>2. o \in Nat /\ o < SectorSize BY <1>1 DEF Offsets
<1>3. Pos(0, 0) = 0 /\ Pos(0 + 1, 0) = SectorSize BY <1>1 DEF Pos
<1>4. o \div SectorSize = 0 BY <1>2, <1>3, DivPos
<1>5. o = SectorSize * (o \div SectorSize) + (o % SectorSize) BY <1>1, <1>2, DivMod
<1>6. o % SectorSize \in Int BY <1>1, <1>2
<1> QED BY <1>1, <1>2, <1>4, <1>5, <1>6

LEMMA TailMoves ==
    ASSUME TInv, FitQ, Faults = {}, RedirectTail, pc' # "done"
    PROVE  /\ pc = "tail" /\ pc' = "verify" /\ cur \in Files /\ cur \in Holders
           /\ UNCHANGED <<disk, refs, found, name, todo, before, copies, temp, outcome>>
           /\ before[cur].size = files[cur].size
           /\ \E n \in {0, 1} : n = DedupeSectors(cur, TailCall, temp) /\ Dedupe(cur, TailCall, n, temp)
           /\ \A f \in Files, i \in Sectors : f # cur \/ i # TailSector(cur) =>
                 /\ files'[f].map[i].addr = files[f].map[i].addr
                 /\ files'[f].map[i].sec = files[f].map[i].sec
<1> DEFINE d == DedupeSectors(cur, TailCall, temp)
<1>0. Inv /\ FsOK /\ LookOK /\ FillOK /\ StageOK BY DEF TInv
<1>1. pc = "tail" /\ \A out : ~Stop(out) BY StopEnds DEF RedirectTail
<1>2. cur \in Files /\ cur \in Holders BY <1>0, <1>1, CurIs
<1>3. before[cur].size = files[cur].size BY <1>1, <1>2 DEF FitQ, Late, Verified
<1>4. Moves(cur, TailCall) = {d} BY DEF Moves
<1>5. /\ pc' = "verify" /\ Dedupe(cur, TailCall, d, temp)
      /\ UNCHANGED <<disk, refs, found, name, todo, before, copies, temp, outcome>>
  BY <1>1, <1>4 DEF RedirectTail, TailCall, lookup
<1>6. /\ TailSector(cur) \in Nat /\ before[cur].size % SectorSize \in Offsets
  BY <1>0, <1>2, <1>3, TailAlone
<1>7. TailCall.at = TailSector(cur) /\ TailCall.len = before[cur].size % SectorSize BY DEF TailCall
<1>8. d \in {0, 1}
  <2>1. TailCall.len \div SectorSize = 0 BY <1>6, <1>7, ShortDiv
  <2> QED BY <2>1 DEF DedupeSectors
<1> HIDE DEF d
<1>9. ASSUME NEW f \in Files, NEW i \in Sectors, f # cur \/ i # TailSector(cur)
      PROVE  /\ files'[f].map[i].addr = files[f].map[i].addr
             /\ files'[f].map[i].sec = files[f].map[i].sec
  <2>1. CASE f # cur BY <1>0, <1>2, <1>5, <2>1, DedupeSteps
  <2>2. CASE f = cur /\ i # TailSector(cur)
    <3>1. i \notin TailCall.at .. TailCall.at + d - 1
      BY <1>6, <1>7, <1>8, <2>2 DEF Sectors
    <3> QED BY <1>0, <1>2, <1>5, <2>2, <3>1, DedupeSteps
  <2> QED BY <1>9, <2>1, <2>2
<1> QED BY <1>1, <1>2, <1>3, <1>5, <1>8, <1>9 DEF d

LEMMA TailShares ==
    ASSUME TInv, FitQ, Shares, Faults = {}, RedirectTail, ToolNext, pc' # "done"
    PROVE  Shares'
<1>0. Inv /\ FsOK BY DEF TInv
<1>1. /\ refs' = refs /\ cur \in Files /\ before[cur].size = files[cur].size
      /\ \A f \in Files, i \in Sectors : f # cur \/ i # TailSector(cur) =>
            /\ files'[f].map[i].addr = files[f].map[i].addr
            /\ files'[f].map[i].sec = files[f].map[i].sec
  BY TailMoves
<1>2. ~Whole(cur, TailSector(cur)) BY <1>0, <1>1, TailAlone
<1>3. ASSUME NEW f \in Files, NEW i \in Sectors, NEW x, HasWhole(f, i, x)'
      PROVE  /\ HasWhole(f, i, x) /\ files'[f].map[i].addr = files[f].map[i].addr
             /\ files'[f].map[i].sec = files[f].map[i].sec
  <2>1. HasWhole(f, i, x) BY <1>0, <1>1, <1>3, HasKept
  <2>2. f # cur \/ i # TailSector(cur) BY <1>2, <2>1 DEF HasWhole
  <2> QED BY <1>1, <2>1, <2>2
<1> SUFFICES ASSUME NEW f \in Files, NEW g \in Files, NEW i \in Sectors, NEW j \in Sectors,
                    NEW x \in Secs, HasWhole(f, i, x)', HasWhole(g, j, x)'
             PROVE  Same(f, i, g, j)'
  BY DEF Shares
<1>4. /\ HasWhole(f, i, x) /\ files'[f].map[i].addr = files[f].map[i].addr
      /\ files'[f].map[i].sec = files[f].map[i].sec
  BY <1>3
<1>5. /\ HasWhole(g, j, x) /\ files'[g].map[j].addr = files[g].map[j].addr
      /\ files'[g].map[j].sec = files[g].map[j].sec
  BY <1>3
<1>6. Same(f, i, g, j) BY <1>4, <1>5 DEF Shares
<1> QED BY <1>4, <1>5, <1>6 DEF Same, SameSector

\* The steps that stay away from redirecting.
Aloof == \/ pc' \notin {"stage", "redirect", "dedupe"} \union Ending
         \/ /\ pc \in {"before", "finish", "verify", "check"} /\ pc' \in {"stage"} \union Ending
            /\ UNCHANGED <<files, refs>>

LEMMA ToolAloof ==
    ASSUME ToolNext, Faults = {}, pc' # "done"
    PROVE  Aloof \/ Stage \/ RedirectOpen \/ DedupeChunk \/ RedirectTail
<1> USE DEF Aloof, Ending, fsvars, lookup
<1>0. \A out : ~Stop(out) BY StopEnds
<1>1. CASE LogicalIno BY <1>0, <1>1 DEF LogicalIno
<1>2. CASE Collect BY <1>0, <1>2 DEF Collect, NextHolder
<1>3. CASE Judge BY <1>0, <1>3 DEF Judge
<1>4. CASE InodePath BY <1>0, <1>4 DEF InodePath
<1>5. CASE Inspect BY <1>0, <1>5 DEF Inspect
<1>6. CASE FillOpen BY <1>0, <1>6 DEF FillOpen
<1>7. CASE FillRead BY <1>0, <1>7 DEF FillRead
<1>8. CASE EndStretch BY <1>0, <1>8 DEF EndStretch
<1>9. CASE Before BY <1>0, <1>9 DEF Before, NextHolder
<1>13. ~DedupeShort BY DEF DedupeShort
<1>14. CASE FinishHolder BY <1>0, <1>14 DEF FinishHolder
<1>16. CASE Verify BY <1>0, <1>16 DEF Verify, NextHolder
<1>17. CASE CheckReleased BY <1>0, <1>17 DEF CheckReleased
<1> QED BY <1>1, <1>2, <1>3, <1>4, <1>5, <1>6, <1>7, <1>8, <1>9, <1>13, <1>14, <1>16, <1>17
     DEF ToolNext

LEMMA NextShareQ ==
    ASSUME TInv, LookQ, FitQ, MoveQ, ShareQ, Faults = {}, ToolNext
    PROVE  MoveQ' /\ ShareQ'
<1>0. Inv /\ FsOK /\ LookOK BY DEF TInv
<1>1. CASE pc' = "done"
  <2>1. CASE outcome' # "Rewritten" BY <1>1, <2>1 DEF MoveQ, ShareQ, Ending
  <2>2. CASE outcome' = "Rewritten"
    <3>1. CheckReleased BY <1>1, <2>2, ToolGoes DEF Minor
    <3>2. pc = "check" /\ UNCHANGED <<files, refs>>
      BY <3>1 DEF CheckReleased, Stop, fsvars, lookup
    <3>3. Shares' BY <1>0, <3>2, SharesKept DEF ShareQ, Ending
    <3> QED BY <1>1, <3>3 DEF MoveQ, ShareQ
  <2> QED BY <2>1, <2>2
<1>2. CASE Aloof /\ pc' # "done"
  <2>1. CASE pc' \notin {"stage", "redirect", "dedupe"} \union Ending
    BY <1>2, <2>1 DEF MoveQ, ShareQ
  <2>2. CASE /\ pc \in {"before", "finish", "verify", "check"} /\ pc' \in {"stage"} \union Ending
             /\ UNCHANGED <<files, refs>>
    <3>1. Shares
      <4>1. CASE pc = "before" BY <1>0, <4>1, EarlyShares DEF Early
      <4>2. CASE pc # "before" BY <2>2, <4>2 DEF ShareQ, Ending
      <4> QED BY <4>1, <4>2
    <3>2. Shares' BY <1>0, <2>2, <3>1, SharesKept
    <3> QED BY <2>2, <3>2 DEF MoveQ, ShareQ, Ending
  <2> QED BY <1>2, <2>1, <2>2 DEF Aloof
<1>3. CASE Stage BY <1>3, StageMoves
<1>4. CASE RedirectOpen /\ pc' # "done" BY <1>4, RedirectOpenMoves
<1>5. CASE DedupeChunk /\ pc' # "done" BY <1>5, DedupeChunkMoves
<1>6. CASE RedirectTail /\ pc' # "done"
  <2>1. pc = "tail" /\ pc' = "verify" BY <1>6, TailMoves
  <2>2. Shares BY <2>1 DEF ShareQ, Ending
  <2>3. Shares' BY <1>6, <2>2, TailShares
  <2> QED BY <2>1, <2>3 DEF MoveQ, ShareQ
<1> QED BY <1>1, <1>2, <1>3, <1>4, <1>5, <1>6, ToolAloof

-----------------------------------------------------------------------------
(* fill reads every live sector, and reads it right.                       *)

\* Whatever is referenced is in a live range.
LEMMA RangeCover ==
    ASSUME NEW R, \A r \in R : IsRef(r), NEW p \in Covered(R)
    PROVE  \E g \in LiveRanges(R) : g.start <= p /\ p < g.end
<1>0. ASSUME NEW q \in Covered(R)
      PROVE  q \in Nat /\ \E r \in R : q \in Span(r) /\ r.extent_offset \in Nat
  <2>1. PICK r \in R : q \in Span(r) BY DEF Covered
  <2> QED BY <2>1, InSpan, RefParts
<1> DEFINE T == {s \in Nat : s <= p /\ \A q \in s .. p : q \in Covered(R)}
<1>1. p \in Nat BY <1>0
<1>2. p \in T BY <1>1
<1>3. PICK s \in T : \A y \in T : s <= y BY <1>2, LeastNumber
<1>4. s \in Nat /\ s <= p /\ \A q \in s .. p : q \in Covered(R) BY <1>3
<1>5. s \in Covered(R) BY <1>1, <1>4
<1>6. \A q \in Covered(R) : q + 1 # s
  <2> SUFFICES ASSUME NEW q \in Covered(R), q + 1 = s PROVE FALSE OBVIOUS
  <2>1. q \in Nat BY <1>0
  <2>2. \A z \in q .. p : z = q \/ z \in s .. p BY <1>1, <1>4, <2>1
  <2>3. q \in T BY <1>1, <1>4, <2>1, <2>2
  <2> QED BY <1>3, <1>4, <2>1, <2>3
<1>7. PICK r \in R : s \in Span(r) /\ r.extent_offset \in Nat BY <1>0, <1>5
<1>8. s = r.extent_offset
  <2>1. r.extent_offset <= s /\ s < r.extent_offset + r.num_bytes BY <1>7, InSpan
  <2>2. r.num_bytes \in Nat BY <1>7, RefParts
  <2>3. SUFFICES ASSUME r.extent_offset < s PROVE FALSE BY <1>4, <1>7, <2>1
  <2>4. s - 1 \in Nat /\ r.extent_offset <= s - 1 /\ s - 1 < r.extent_offset + r.num_bytes
    BY <1>4, <1>7, <2>1, <2>2, <2>3
  <2>5. s - 1 \in Span(r) BY <2>4, InSpan
  <2>6. s - 1 \in Covered(R) BY <2>5 DEF Covered
  <2>7. (s - 1) + 1 = s BY <1>4
  <2> QED BY <1>6, <2>6, <2>7
<1> DEFINE ends == {q.extent_offset + q.num_bytes : q \in R} \ Covered(R)
           g == [start |-> s, end |-> Min({e \in ends : e > s})]
<1>9. g \in LiveRanges(R)
  <2>1. s \in {q.extent_offset : q \in R} \ {q + 1 : q \in Covered(R)} BY <1>6, <1>8
  <2> QED BY <2>1 DEF LiveRanges
<1>10. g.start = s OBVIOUS
<1> HIDE DEF g
<1>11. g.end \notin Covered(R) /\ IsRange(g) BY <1>9, RangeOf
<1>12. g.end \in Nat /\ g.start < g.end BY <1>11, RangeParts
<1>13. p < g.end BY <1>1, <1>4, <1>10, <1>11, <1>12
<1> QED BY <1>4, <1>9, <1>10, <1>13

\* A live range holds nothing else.
LEMMA RangeCovered ==
    ASSUME NEW R, \A r \in R : IsRef(r), NEW g \in LiveRanges(R), NEW p \in Nat,
           g.start <= p, p < g.end
    PROVE  p \in Covered(R)
<1>1. /\ IsRange(g) /\ \E r \in R : g.start = r.extent_offset
      /\ \A r \in R : r.extent_offset + r.num_bytes > g.start
                        /\ r.extent_offset + r.num_bytes < g.end
                        => r.extent_offset + r.num_bytes \in Covered(R)
  BY RangeOf
<1>2. g.start \in Nat /\ g.end \in Nat BY <1>1, RangeParts
<1>3. SUFFICES ASSUME p \notin Covered(R) PROVE FALSE OBVIOUS
<1> DEFINE T == {q \in Nat : g.start <= q /\ q \notin Covered(R)}
<1>4. p \in T BY <1>3
<1>5. PICK q \in T : \A y \in T : q <= y BY <1>4, LeastNumber
<1>6. q \in Nat /\ g.start <= q /\ q \notin Covered(R) /\ q <= p BY <1>4, <1>5
<1>7. q # g.start
  <2>1. PICK r \in R : g.start = r.extent_offset BY <1>1
  <2>2. r.num_bytes \in Nat /\ r.num_bytes >= 1 BY RefParts
  <2>3. g.start \in Span(r) BY <1>2, <2>1, <2>2, InSpan
  <2> QED BY <1>6, <2>3 DEF Covered
<1>8. q - 1 \in Covered(R)
  <2>1. q - 1 \in Nat /\ g.start <= q - 1 /\ ~(q <= q - 1) BY <1>2, <1>6, <1>7
  <2> QED BY <1>5, <2>1
<1>9. PICK r \in R : q - 1 \in Span(r) BY <1>8 DEF Covered
<1>10. r.extent_offset <= q - 1 /\ q - 1 < r.extent_offset + r.num_bytes BY <1>9, InSpan
<1>11. r.extent_offset \in Nat /\ r.num_bytes \in Nat BY RefParts
<1>12. q \notin Span(r) BY <1>6 DEF Covered
<1>13. ~(q < r.extent_offset + r.num_bytes) BY <1>6, <1>10, <1>11, <1>12, InSpan
<1>14. q = r.extent_offset + r.num_bytes BY <1>6, <1>10, <1>11, <1>13
<1>15. q > g.start /\ q < g.end BY <1>2, <1>6, <1>7
<1> QED BY <1>1, <1>6, <1>14, <1>15

LEMMA RangesApart ==
    ASSUME NEW R, \A r \in R : IsRef(r), NEW g \in LiveRanges(R), NEW k \in LiveRanges(R)
    PROVE  g = k \/ g.end <= k.start \/ k.end <= g.start
<1>1. /\ IsRange(g) /\ IsRange(k)
      /\ \A p \in Covered(R) : p + 1 # g.start
      /\ \A p \in Covered(R) : p + 1 # k.start
  BY RangeOf
<1>2. /\ g.start \in Nat /\ g.end \in Nat /\ k.start \in Nat /\ k.end \in Nat
  BY <1>1, RangeParts
<1>3. CASE g.start = k.start
  <2> DEFINE E(s) == Min({e \in {r.extent_offset + r.num_bytes : r \in R} \ Covered(R) : e > s})
             starts == {r.extent_offset : r \in R} \ {p + 1 : p \in Covered(R)}
  <2>1. LiveRanges(R) = {[start |-> s, end |-> E(s)] : s \in starts} BY DEF LiveRanges
  <2> HIDE DEF E, starts
  <2>2. PICK s \in starts : g = [start |-> s, end |-> E(s)] BY <2>1
  <2>3. PICK t \in starts : k = [start |-> t, end |-> E(t)] BY <2>1
  <2>4. s = t BY <1>3, <2>2, <2>3
  <2> QED BY <2>2, <2>3, <2>4
<1>4. ASSUME g.start < k.start, k.start < g.end PROVE FALSE
  <2>1. k.start - 1 \in Nat /\ g.start <= k.start - 1 /\ k.start - 1 < g.end BY <1>2, <1>4
  <2>2. k.start - 1 \in Covered(R) BY <2>1, RangeCovered
  <2>3. (k.start - 1) + 1 = k.start BY <1>2
  <2> QED BY <1>1, <2>2, <2>3
<1>5. ASSUME k.start < g.start, g.start < k.end PROVE FALSE
  <2>1. g.start - 1 \in Nat /\ k.start <= g.start - 1 /\ g.start - 1 < k.end BY <1>2, <1>5
  <2>2. g.start - 1 \in Covered(R) BY <2>1, RangeCovered
  <2>3. (g.start - 1) + 1 = g.start BY <1>2
  <2> QED BY <1>1, <2>2, <2>3
<1> QED BY <1>2, <1>3, <1>4, <1>5

\* The buffer holds what the extent does at position p.
ReadOK(p) == buf[p] = disk[Ext][p \div SectorSize][p % SectorSize]

\* What was read is right, all of it is live, and no two stretches overlap.
CopiesRight == /\ \A c \in copies : \A p \in c.start .. c.end - 1 : ReadOK(p)
               /\ \A c \in copies, x \in Secs : In(c, x) => Live(x)
               /\ \A c \in copies, d \in copies : c = d \/ c.end <= d.start \/ d.end <= c.start

\* Nothing can be read on from at through reference r of f.
Spent(f, r, at) ==
    /\ r.extent_offset <= at
    /\ \/ r.extent_offset + r.num_bytes <= at
       \/ r.file_offset + (at - r.extent_offset) >= files[f].size
       \/ range.end <= at

ReadSoFar == /\ \A p \in rd.start .. rd.at - 1 : ReadOK(p)
             /\ \A x \in Secs : rd.start <= Pos(x, 0) /\ Pos(x + 1, 0) <= rd.at => Live(x)
Reach     == IF pc = "fill" THEN rd.at ELSE rd.to
AllSpent  == \A f \in Files : \A r \in refs[f] : <<f, r>> \notin rd.left => Spent(f, r, Reach)

\* Every live sector has been read or is still to come.
ToCome(x) == \/ rd.start <= Pos(x, 0) /\ Pos(x, 0) < range.end
             \/ \E g \in ranges \ {range} : In(g, x)
Copied(x) == \E c \in copies : In(c, x)
NoneLost  == \A x \in Secs : Live(x) => Copied(x) \/ ToCome(x)
InOrder   == /\ \A c \in copies : c.end <= rd.start
             /\ \A g \in ranges, k \in ranges : g = k \/ g.end <= k.start \/ k.end <= g.start
             /\ rd.start >= range.start

Reading == \E r \in refs[rd.src] :
              /\ rd.at \in Span(r) /\ rd.from = r.file_offset + (rd.at - r.extent_offset)
              /\ rd.to <= r.extent_offset + r.num_bytes
              /\ rd.from + (rd.to - rd.at) <= files[rd.src].size

FillQ == /\ pc \in {"fill", "pread"} => ReadSoFar /\ AllSpent /\ NoneLost /\ InOrder
         /\ pc = "pread" => Reading
         /\ pc \in Looking => copies = {}
         /\ pc = "before" => \A x \in Secs : Live(x) => Copied(x)
         /\ pc # "done" => CopiesRight

LEMMA Steady ==
    ASSUME UNCHANGED <<files, refs>>
    PROVE  \A x : Live(x)' = Live(x)
  BY DEF Live, HasWhole, Holds, Whole

\* A source that nothing more can be read from, further on either.
LEMMA SpentOn ==
    ASSUME NEW f \in Files, FsOK, NEW r, IsRef(r), NEW at \in Nat, NEW to \in Nat, at <= to,
           Spent(f, r, at), range.end \in Nat
    PROVE  Spent(f, r, to)
<1>1. r.extent_offset \in Nat /\ r.num_bytes \in Nat /\ r.file_offset \in Nat BY RefParts
<1>2. files[f].size \in Nat BY SizeIs
<1> QED BY <1>1, <1>2 DEF Spent

\* How far a source goes from at on, if it has anything there.
SourceAt(at, end, fo, eo, nb, size, from, to) ==
    /\ at \in Nat /\ end \in Nat /\ at < end
    /\ fo \in Nat /\ eo \in Nat /\ nb \in Nat /\ eo <= at /\ at < eo + nb
    /\ size \in Nat /\ from = fo + (at - eo)
    /\ to = Min({end, eo + nb, at + Max({size - from, 0})})
SourceEnds(at, end, fo, eo, nb, size, from, to) ==
    /\ to \in Int
    /\ to <= at => fo + (at - eo) >= size
    /\ to > at => /\ eo + nb <= to \/ fo + (to - eo) >= size \/ end <= to
                  /\ to <= eo + nb /\ from + (to - at) <= size /\ eo <= to

LEMMA SourceSpent ==
    ASSUME NEW at, NEW end, NEW fo, NEW eo, NEW nb, NEW size, NEW from, NEW to,
           SourceAt(at, end, fo, eo, nb, size, from, to)
    PROVE  SourceEnds(at, end, fo, eo, nb, size, from, to)
<1>0. /\ at \in Nat /\ end \in Nat /\ at < end
      /\ fo \in Nat /\ eo \in Nat /\ nb \in Nat /\ eo <= at /\ at < eo + nb
      /\ size \in Nat /\ from = fo + (at - eo)
      /\ to = Min({end, eo + nb, at + Max({size - from, 0})})
  BY DEF SourceAt
<1> DEFINE x == size - from
           m == Max({x, 0})
<1>1. from \in Int /\ x \in Int BY <1>0 DEF x
<1> HIDE DEF x
<1>2. m \in Int /\ x <= m /\ 0 <= m /\ (m = x \/ m = 0) BY <1>1, MaxZero
<1>3. to = Min({end, eo + nb, at + m}) BY <1>0 DEF x
<1> HIDE DEF m
<1>4. /\ to \in Int /\ to <= end /\ to <= eo + nb /\ to <= at + m
      /\ to = end \/ to = eo + nb \/ to = at + m
  <2> DEFINE u == eo + nb
             v == at + m
  <2>1. end \in Int /\ u \in Int /\ v \in Int BY <1>0, <1>2
  <2>2. to = Min({end, u, v}) BY <1>3
  <2> HIDE DEF u, v
  <2>3. to \in Int /\ to <= end /\ to <= u /\ to <= v /\ (to = end \/ to = u \/ to = v)
    BY <2>1, <2>2, Min3
  <2> QED BY <2>3 DEF u, v
<1>5. x = size - from BY DEF x
<1> QED BY <1>0, <1>1, <1>2, <1>4, <1>5 DEF SourceEnds

LEMMA FillOpenQ ==
    ASSUME TInv, FitQ, FillQ, FillOpen
    PROVE  FillQ' /\ pc' # "done"
<1>0. Inv /\ FsOK /\ LookOK /\ FillOK /\ StageOK BY DEF TInv
<1>1. pc = "fill" /\ rd.at < range.end BY DEF FillOpen
<1>2. ranges # {} /\ (\A g \in ranges : IsRange(g)) /\ RdOK BY <1>0, <1>1 DEF FillOK
<1>3. range \in ranges BY <1>2, FirstIs DEF range
<1>4. range.end \in Nat BY <1>2, <1>3, RangeParts
<1> DEFINE from(r) == r.file_offset + (rd.at - r.extent_offset)
           to(f, r) == Min({range.end, r.extent_offset + r.num_bytes,
                            rd.at + Max({files[f].size - from(r), 0})})
           left(p) == {q \in rd.left : q[2].extent_offset >= p[2].extent_offset} \ {p}
<1>5. PICK p \in Nearest :
        \/ ~Opens(p[1]) /\ Stop("Failed")
        \/ /\ rd' = IF to(p[1], p[2]) <= rd.at
                      THEN [rd EXCEPT !.left = left(p)]
                      ELSE [rd EXCEPT !.left = left(p), !.src = p[1],
                                      !.from = from(p[2]), !.to = to(p[1], p[2])]
           /\ pc' = IF to(p[1], p[2]) <= rd.at THEN "fill" ELSE "pread"
           /\ UNCHANGED <<files, disk, ranges, copies, refs, buf>>
    BY DEF FillOpen, lookup, fsvars
<1>6. p \in rd.left /\ rd.at \in Span(p[2]) BY DEF Nearest, Sources
<1>7. p[1] \in Files /\ p[2] \in refs[p[1]] BY <1>2, <1>6 DEF RdOK
<1>8. IsRef(p[2]) BY <1>0, <1>7 DEF LookOK, RefSet
<1> DEFINE f0 == p[1]
           r0 == p[2]
           at == rd.at
           t0 == to(f0, r0)
<1>9. /\ r0.extent_offset \in Nat /\ r0.num_bytes \in Nat /\ r0.file_offset \in Nat
      /\ r0.extent_offset <= at /\ at \in Nat /\ at < r0.extent_offset + r0.num_bytes
    BY <1>6, <1>8, RefParts, InSpan
<1>10. files[f0].size \in Nat BY <1>0, <1>7, SizeIs
<1>11. Opens(f0)
  <2>1. f0 \in Holders BY <1>0, <1>7 DEF LookOK
  <2> QED BY <1>1, <2>1 DEF FitQ, Acting, Fit
<1>12. /\ t0 \in Int
       /\ t0 <= at => r0.file_offset + (at - r0.extent_offset) >= files[f0].size
       /\ t0 > at => /\ \/ r0.extent_offset + r0.num_bytes <= t0
                        \/ r0.file_offset + (t0 - r0.extent_offset) >= files[f0].size
                        \/ range.end <= t0
                     /\ t0 <= r0.extent_offset + r0.num_bytes
                     /\ from(r0) + (t0 - at) <= files[f0].size /\ r0.extent_offset <= t0
  <2>1. from(r0) = r0.file_offset + (at - r0.extent_offset) OBVIOUS
  <2>2. t0 = Min({range.end, r0.extent_offset + r0.num_bytes, at + Max({files[f0].size - from(r0), 0})})
    OBVIOUS
  <2> HIDE DEF from, t0, f0, r0
  <2>3. at < range.end BY <1>1
  <2>4. SourceAt(at, range.end, r0.file_offset, r0.extent_offset, r0.num_bytes, files[f0].size,
                 from(r0), t0)
    BY <1>4, <1>9, <1>10, <2>1, <2>2, <2>3 DEF SourceAt
  <2>5. SourceEnds(at, range.end, r0.file_offset, r0.extent_offset, r0.num_bytes, files[f0].size,
                   from(r0), t0)
    BY <2>4, SourceSpent
  <2> QED BY <2>5 DEF SourceEnds
<1> DEFINE reach == IF t0 <= at THEN at ELSE t0
<1>13. reach \in Nat /\ at <= reach BY <1>9, <1>12
<1>14. \A q \in rd.left : q \notin left(p) => q = p \/ q[2].extent_offset < p[2].extent_offset
  <2> SUFFICES ASSUME NEW q \in rd.left, q \notin left(p), q # p
               PROVE  q[2].extent_offset < p[2].extent_offset
    OBVIOUS
  <2>1. ~(q[2].extent_offset >= p[2].extent_offset) OBVIOUS
  <2>2. q[1] \in Files /\ q[2] \in refs[q[1]] BY <1>2 DEF RdOK
  <2>3. IsRef(q[2]) BY <1>0, <2>2 DEF LookOK, RefSet
  <2>4. q[2].extent_offset \in Nat BY <2>3, RefParts
  <2> QED BY <1>9, <2>1, <2>4
<1>15. ASSUME NEW f \in Files, NEW r \in refs[f], <<f, r>> \notin left(p)
       PROVE  Spent(f, r, reach)
  <2>0. IsRef(r) BY <1>0 DEF LookOK, RefSet
  <2>6. /\ r.extent_offset \in Nat /\ r.num_bytes \in Nat /\ r.file_offset \in Nat BY <2>0, RefParts
  <2>1. CASE <<f, r>> \notin rd.left
    <3>1. Spent(f, r, at) BY <1>1, <2>1 DEF FillQ, AllSpent, Reach
    <3> HIDE DEF reach, at
    <3> QED BY <1>0, <1>4, <1>9, <1>13, <2>0, <3>1, SpentOn
  <2>2. CASE <<f, r>> = p
    <3>1. f = f0 /\ r = r0 BY <2>2
    <3> HIDE DEF t0, f0, r0, at
    <3> QED BY <1>9, <1>12, <3>1 DEF Spent
  <2>3. CASE <<f, r>> \in rd.left /\ r.extent_offset < r0.extent_offset
    <3>1. rd.at \notin Span(r)
      <4>1. SUFFICES ASSUME rd.at \in Span(r) PROVE FALSE OBVIOUS
      <4>2. <<f, r>> \in Sources BY <2>3, <4>1 DEF Sources
      <4>3. p[2].extent_offset <= <<f, r>>[2].extent_offset BY <4>2 DEF Nearest
      <4> QED BY <1>9, <2>3, <2>6, <4>3
    <3>2. r.extent_offset <= at BY <1>9, <2>3, <2>6
    <3>3. ~(at < r.extent_offset + r.num_bytes) BY <1>9, <2>0, <3>1, <3>2, InSpan
    <3> HIDE DEF reach, at
    <3>4. r.extent_offset <= reach /\ r.extent_offset + r.num_bytes <= reach
      BY <1>9, <1>13, <2>6, <3>2, <3>3
    <3> QED BY <3>4 DEF Spent
  <2>4. <<f, r>>[2] = r OBVIOUS
  <2> QED BY <1>14, <1>15, <2>1, <2>2, <2>3, <2>4
<1>16. /\ rd'.start = rd.start /\ rd'.at = rd.at /\ rd'.left = left(p)
       /\ t0 > at => rd'.src = f0 /\ rd'.from = from(r0) /\ rd'.to = t0
       /\ pc' = IF t0 <= at THEN "fill" ELSE "pread"
       /\ UNCHANGED <<files, disk, ranges, copies, refs, buf>>
  <2>1. /\ rd' = IF t0 <= rd.at
                      THEN [rd EXCEPT !.left = left(p)]
                      ELSE [rd EXCEPT !.left = left(p), !.src = f0,
                                      !.from = from(r0), !.to = t0]
        /\ pc' = IF t0 <= at THEN "fill" ELSE "pread"
        /\ UNCHANGED <<files, disk, ranges, copies, refs, buf>>
    BY <1>5, <1>11
  <2>2. rd = [start |-> rd.start, at |-> rd.at, src |-> rd.src, from |-> rd.from, to |-> rd.to,
              left |-> rd.left]
    BY <1>0 DEF FillOK
  <2>3. t0 \in Int /\ at \in Nat BY <1>9, <1>12
  <2> HIDE DEF left, from, t0, f0, r0
  <2> QED BY <2>1, <2>2, <2>3
<1>17. range' = range BY <1>16 DEF range
<1>18. \A x : Live(x)' = Live(x) BY <1>16, Steady
<1>19. \A q : ReadOK(q)' = ReadOK(q) BY <1>16 DEF ReadOK
<1>20. ReadSoFar /\ NoneLost /\ InOrder /\ CopiesRight BY <1>1 DEF FillQ
<1>21. ReadSoFar' BY <1>16, <1>18, <1>19, <1>20 DEF ReadSoFar
<1>22. AllSpent'
  <2>1. Reach' = reach
    <3>1. t0 \in Int /\ at \in Nat BY <1>9, <1>12
    <3> HIDE DEF t0
    <3> QED BY <1>16, <3>1 DEF Reach
  <2>2. \A f, r, z : Spent(f, r, z)' = Spent(f, r, z) BY <1>16, <1>17 DEF Spent
  <2> HIDE DEF left, reach
  <2> QED BY <1>15, <1>16, <2>1, <2>2 DEF AllSpent
<1>23. NoneLost'
  <2>1. \A x : ToCome(x)' = ToCome(x) /\ Copied(x)' = Copied(x)
    BY <1>16, <1>17 DEF ToCome, Copied, In
  <2> QED BY <1>18, <1>20, <2>1 DEF NoneLost
<1>24. InOrder' BY <1>16, <1>17, <1>20 DEF InOrder
<1>25. CopiesRight'
  <2>1. \A c, x : In(c, x)' = In(c, x) BY DEF In
  <2> QED BY <1>16, <1>18, <1>19, <1>20 DEF CopiesRight
<1>26. ASSUME pc' = "pread" PROVE Reading'
  <2>1. t0 > at /\ rd'.src = f0 /\ rd'.from = from(r0) /\ rd'.to = t0 /\ rd'.at = at
    <3>1. t0 \in Int /\ at \in Nat BY <1>9, <1>12
    <3> HIDE DEF t0, f0, r0, from
    <3> QED BY <1>16, <1>26, <3>1
  <2>2. r0 \in refs'[rd'.src] BY <1>7, <1>16, <2>1
  <2>3. /\ rd'.at \in Span(r0) /\ rd'.from = r0.file_offset + (rd'.at - r0.extent_offset)
    BY <1>6, <2>1
  <2>4. /\ rd'.to <= r0.extent_offset + r0.num_bytes
        /\ rd'.from + (rd'.to - rd'.at) <= files'[rd'.src].size
    <3> HIDE DEF t0, f0, r0, from
    <3> QED BY <1>12, <1>16, <2>1
  <2> HIDE DEF r0
  <2> QED BY <2>2, <2>3, <2>4 DEF Reading
<1>27. pc' \in {"fill", "pread"} BY <1>16
<1> QED BY <1>21, <1>22, <1>23, <1>24, <1>25, <1>26, <1>27 DEF FillQ, Looking

\* What is read through a reference is what the extent holds.
LEMMA ReadThrough ==
    ASSUME FsOK, LookOK, Content, NEW f \in Files, NEW h \in Nat, NEW e \in Nat, NEW n \in Nat,
           n >= 1, h + n <= MaxSectors, e + n <= ExtentSectors, Ref(h, e, n) \in refs[f],
           NEW p \in Nat, Pos(e, 0) <= p, p < Pos(e + n, 0),
           NEW q, q = Pos(h, 0) + (p - Pos(e, 0)), q < files[f].size
    PROVE  ByteAt(f, q) = disk[Ext][p \div SectorSize][p % SectorSize]
<1> DEFINE x == p \div SectorSize
           o == p % SectorSize
           i == h + (x - e)
<1>1. x \in Nat /\ o \in Offsets /\ Pos(x, 0) <= p /\ p < Pos(x + 1, 0) /\ p = Pos(x, 0) + o
  BY PosDiv
<1> HIDE DEF x, o
<1>2. e < x + 1 /\ x < e + n
  <2>1. x + 1 \in Int /\ e + n \in Int BY <1>1
  <2>2. Pos(e, 0) \in Int /\ Pos(x + 1, 0) \in Int /\ Pos(x, 0) \in Int /\ Pos(e + n, 0) \in Int
    BY <1>1, <2>1, PosInt
  <2>3. Pos(e, 0) < Pos(x + 1, 0) BY <1>1, <2>2
  <2>4. Pos(x, 0) < Pos(e + n, 0) BY <1>1, <2>2
  <2>5. e < x + 1 BY <2>1, <2>3, PosLess
  <2>6. x < e + n BY <1>1, <2>1, <2>4, PosLess
  <2> QED BY <2>5, <2>6
<1>3. i \in Nat /\ h <= i /\ i < h + n /\ x = e + (i - h) BY <1>1, <1>2
<1>4. MaxSectors \in Nat /\ ExtentSectors \in Nat BY BtrfsAssumption, ReallocAssumption
<1>5. i \in Sectors /\ x \in Secs BY <1>1, <1>2, <1>3, <1>4 DEF Sectors, Secs
<1>6. Holds(f, i, x) BY <1>1, <1>3, IsHeld
<1>7. q = Pos(i, 0) + o
  <2>1. Pos(i, 0) = Pos(h, 0) + (Pos(x, 0) - Pos(e, 0)) BY <1>1, PosShift
  <2>2. Pos(h, 0) \in Int /\ Pos(x, 0) \in Int /\ Pos(e, 0) \in Int BY <1>1, PosInt
  <2>3. o \in Int BY <1>1 DEF Offsets
  <2> QED BY <1>1, <2>1, <2>2, <2>3
<1> HIDE DEF i
<1>8. Pos(i, o) = q /\ q \in Nat /\ Pos(i, 0) <= q /\ q < Pos(i + 1, 0)
  <2>1. Pos(i, o) = Pos(i, 0) + o /\ Pos(i, o) \in Nat /\ o \in Nat /\ o < SectorSize
    BY <1>1, <1>3, DivPos
  <2>2. Pos(i + 1, 0) = Pos(i, 0) + SectorSize BY <1>3, PosSum
  <2>3. Pos(i, 0) \in Int /\ SectorSize \in Int BY <1>3, PosInt, BtrfsAssumption
  <2> QED BY <1>7, <2>1, <2>2, <2>3
<1>9. q \div SectorSize = i BY <1>3, <1>8, DivPos
<1>10. q % SectorSize = o
  <2>1. q = Pos(q \div SectorSize, 0) + (q % SectorSize) /\ q % SectorSize \in Offsets BY <1>8, PosDiv
  <2>2. q % SectorSize \in Int /\ o \in Int /\ Pos(i, 0) \in Int BY <1>1, <1>3, <2>1, PosInt DEF Offsets
  <2>3. q = Pos(i, 0) + (q % SectorSize) BY <1>9, <2>1
  <2> QED BY <1>7, <2>2, <2>3
<1>11. Byte(f, i, o) = disk[Ext][x][o] BY <1>1, <1>5, <1>6, <1>8 DEF Content
<1> QED BY <1>9, <1>10, <1>11 DEF ByteAt, x, o

\* A sector whose end is read is held whole by the file it is read from.
LEMMA ReadWhole ==
    ASSUME FsOK, LookOK, NEW f \in Files, NEW h \in Nat, NEW e \in Nat, NEW n \in Nat,
           n >= 1, h + n <= MaxSectors, e + n <= ExtentSectors, Ref(h, e, n) \in refs[f],
           NEW at \in Nat, NEW to \in Nat, Pos(e, 0) <= at, to <= Pos(e + n, 0),
           Pos(h, 0) + (to - Pos(e, 0)) <= files[f].size,
           NEW x \in Secs, at < Pos(x + 1, 0), Pos(x + 1, 0) <= to
    PROVE  Live(x)
<1> DEFINE i == h + (x - e)
           y == x + 1
<1>1. x \in Nat /\ y \in Nat BY DEF Secs
<1>2. e < y /\ y <= e + n
  <2>1. e + n \in Int BY <1>1
  <2>2. Pos(e, 0) \in Int /\ Pos(y, 0) \in Int /\ Pos(e + n, 0) \in Int BY <1>1, <2>1, PosInt
  <2>3. Pos(e, 0) < Pos(y, 0) BY <2>2
  <2>4. Pos(y, 0) <= Pos(e + n, 0) BY <2>2
  <2> HIDE DEF y
  <2>5. e < y BY <1>1, <2>1, <2>3, PosLess
  <2>6. y <= e + n BY <1>1, <2>1, <2>4, PosUpTo
  <2> QED BY <2>5, <2>6
<1>3. i \in Nat /\ h <= i /\ i < h + n /\ x = e + (i - h) BY <1>1, <1>2
<1>4. MaxSectors \in Nat BY BtrfsAssumption
<1>5. i \in Sectors BY <1>3, <1>4 DEF Sectors
<1>6. Holds(f, i, x) BY <1>1, <1>3, IsHeld
<1>7. Whole(f, i)
  <2>1. i + 1 = h + (y - e) BY <1>1
  <2> HIDE DEF y, i
  <2>2. Pos(h + (y - e), 0) = Pos(h, 0) + (Pos(y, 0) - Pos(e, 0)) BY <1>1, PosShift
  <2>3. Pos(h, 0) \in Int /\ Pos(y, 0) \in Int /\ Pos(e, 0) \in Int BY <1>1, PosInt
  <2>4. files[f].size \in Nat BY SizeIs
  <2>5. Pos(y, 0) <= to BY DEF y
  <2>6. Pos(i + 1, 0) <= files[f].size BY <2>1, <2>2, <2>3, <2>4, <2>5
  <2> QED BY <2>6 DEF Whole
<1> QED BY <1>5, <1>6, <1>7 DEF Live, HasWhole

LEMMA FillReadQ ==
    ASSUME TInv, FillQ, Content, FillRead
    PROVE  FillQ' /\ pc' # "done"
<1>0. Inv /\ FsOK /\ LookOK /\ FillOK /\ StageOK BY DEF TInv
<1>1. pc = "pread" BY DEF FillRead
<1>2. /\ ranges # {} /\ (\A g \in ranges : IsRange(g)) /\ RdOK
      /\ rd.src \in Files /\ rd.from \in Nat /\ rd.to \in Nat
      /\ rd.at < rd.to /\ rd.to <= range.end
  BY <1>0, <1>1 DEF FillOK
<1>3. rd.at \in Nat /\ rd.start <= rd.at BY <1>2 DEF RdOK
<1>4. rd.start \in Nat
  <2>1. PICK k \in Nat : rd.start = Pos(k, 0) BY <1>2 DEF RdOK
  <2> QED BY <2>1, PosInt
<1>5. PICK r \in refs[rd.src] :
         /\ rd.at \in Span(r) /\ rd.from = r.file_offset + (rd.at - r.extent_offset)
         /\ rd.to <= r.extent_offset + r.num_bytes
         /\ rd.from + (rd.to - rd.at) <= files[rd.src].size
  BY <1>1 DEF FillQ, Reading
<1>6. IsRef(r) BY <1>0, <1>2, <1>5 DEF LookOK, RefSet
<1>7. PICK h \in Nat, e \in Nat, n \in Nat :
         /\ n >= 1 /\ h + n <= MaxSectors /\ e + n <= ExtentSectors
         /\ r = Ref(h, e, n)
  BY <1>6 DEF IsRef
<1>8. r.file_offset = Pos(h, 0) /\ r.extent_offset = Pos(e, 0) /\ r.num_bytes = Pos(n, 0)
  BY <1>7 DEF Ref
<1>9. /\ Pos(e, 0) <= rd.at /\ rd.at < Pos(e, 0) + Pos(n, 0)
      /\ rd.from = Pos(h, 0) + (rd.at - Pos(e, 0)) /\ rd.to <= Pos(e, 0) + Pos(n, 0)
  BY <1>5, <1>6, <1>8, InSpan
<1>10. Pos(e, 0) + Pos(n, 0) = Pos(e + n, 0) BY PosSum
<1>11. Pos(e, 0) \in Int /\ Pos(h, 0) \in Int /\ Pos(e + n, 0) \in Int BY PosInt
<1>12. files[rd.src].size \in Nat BY <1>0, <1>2, SizeIs
<1>13. ~(files[rd.src].size < rd.from + (rd.to - rd.at)) BY <1>2, <1>3, <1>5, <1>12
<1>14. /\ buf' = [p \in DOMAIN buf |->
                    IF p \in rd.at .. rd.to - 1
                      THEN ByteAt(rd.src, rd.from + (p - rd.at)) ELSE buf[p]]
       /\ rd' = [rd EXCEPT !.at = rd.to]
       /\ pc' = "fill"
       /\ UNCHANGED <<files, disk, refs, ranges, copies>>
  BY <1>13 DEF FillRead, fsvars, lookup
<1>15. rd = [start |-> rd.start, at |-> rd.at, src |-> rd.src, from |-> rd.from, to |-> rd.to,
             left |-> rd.left]
  BY <1>0 DEF FillOK
<1>16. rd'.start = rd.start /\ rd'.at = rd.to /\ rd'.left = rd.left BY <1>14, <1>15
<1>17. range' = range BY <1>14 DEF range
<1>18. \A x : Live(x)' = Live(x) BY <1>14, Steady
<1>19. ReadSoFar /\ AllSpent /\ NoneLost /\ InOrder /\ CopiesRight BY <1>1 DEF FillQ
<1>20. DOMAIN buf = 0 .. Pos(ExtentSectors, 0) - 1 BY <1>0 DEF StageOK
<1>21. range.end \in Nat /\ range.end <= Pos(ExtentSectors, 0) /\ Pos(ExtentSectors, 0) \in Nat
  <2>1. range \in ranges BY <1>2, FirstIs DEF range
  <2> QED BY <1>2, <2>1, RangeParts
<1>22. ASSUME NEW p \in Nat, p < rd.at, ReadOK(p) PROVE ReadOK(p)'
  <2>1. p \in DOMAIN buf BY <1>2, <1>3, <1>20, <1>21, <1>22
  <2>2. p \notin rd.at .. rd.to - 1 BY <1>3, <1>22
  <2>3. buf'[p] = buf[p] BY <1>14, <2>1, <2>2
  <2> QED BY <1>14, <1>22, <2>3 DEF ReadOK
<1>23. ASSUME NEW p \in Nat, rd.at <= p, p < rd.to PROVE ReadOK(p)'
  <2> DEFINE q == rd.from + (p - rd.at)
  <2>1. p \in DOMAIN buf BY <1>2, <1>3, <1>20, <1>21, <1>23
  <2>2. p \in rd.at .. rd.to - 1 BY <1>2, <1>3, <1>23
  <2>3. buf'[p] = ByteAt(rd.src, q) BY <1>14, <2>1, <2>2
  <2>4. q = Pos(h, 0) + (p - Pos(e, 0)) BY <1>3, <1>9, <1>11, <1>23
  <2>5. q < files[rd.src].size BY <1>2, <1>3, <1>5, <1>12, <1>23
  <2>6. Pos(e, 0) <= p /\ p < Pos(e + n, 0) BY <1>2, <1>3, <1>9, <1>10, <1>11, <1>23
  <2>7. Ref(h, e, n) \in refs[rd.src] BY <1>5, <1>7
  <2> HIDE DEF q
  <2>8. ByteAt(rd.src, q) = disk[Ext][p \div SectorSize][p % SectorSize]
    BY <1>0, <1>2, <1>7, <2>4, <2>5, <2>6, <2>7, ReadThrough
  <2> QED BY <1>14, <2>3, <2>8 DEF ReadOK
<1>24. ReadSoFar'
  <2>1. ASSUME NEW p \in rd.start .. rd.to - 1 PROVE ReadOK(p)'
    <3>1. p \in Nat BY <1>2, <1>4
    <3>2. CASE p < rd.at
      <4>1. p \in rd.start .. rd.at - 1 BY <1>3, <1>4, <3>1, <3>2, <1>2
      <4> QED BY <1>19, <1>22, <3>1, <3>2, <4>1 DEF ReadSoFar
    <3>3. CASE rd.at <= p BY <1>2, <1>4, <1>23, <3>1, <3>3
    <3> QED BY <1>3, <3>1, <3>2, <3>3
  <2>2. ASSUME NEW x \in Secs, rd.start <= Pos(x, 0), Pos(x + 1, 0) <= rd.to
        PROVE  Live(x)
    <3>1. CASE Pos(x + 1, 0) <= rd.at BY <1>19, <2>2, <3>1 DEF ReadSoFar
    <3>2. CASE rd.at < Pos(x + 1, 0)
      <4>1. Pos(h, 0) + (rd.to - Pos(e, 0)) <= files[rd.src].size
        BY <1>2, <1>3, <1>5, <1>9, <1>11, <1>12
      <4>2. Ref(h, e, n) \in refs[rd.src] /\ rd.to <= Pos(e + n, 0) BY <1>5, <1>7, <1>9, <1>10
      <4> QED BY <1>0, <1>2, <1>3, <1>7, <1>9, <2>2, <3>2, <4>1, <4>2, ReadWhole
    <3>3. x + 1 \in Int BY DEF Secs
    <3>4. Pos(x + 1, 0) \in Int BY <3>3, PosInt
    <3> QED BY <1>3, <3>1, <3>2, <3>4
  <2> QED BY <1>16, <1>18, <2>1, <2>2 DEF ReadSoFar
<1>25. AllSpent'
  <2>1. Reach' = rd.to /\ Reach = rd.to BY <1>1, <1>14, <1>16 DEF Reach
  <2>2. \A f, s, z : Spent(f, s, z)' = Spent(f, s, z) BY <1>14, <1>17 DEF Spent
  <2> QED BY <1>14, <1>16, <1>19, <2>1, <2>2 DEF AllSpent
<1>26. NoneLost'
  <2>1. \A x : ToCome(x)' = ToCome(x) /\ Copied(x)' = Copied(x)
    BY <1>14, <1>16, <1>17 DEF ToCome, Copied, In
  <2> QED BY <1>18, <1>19, <2>1 DEF NoneLost
<1>27. InOrder' BY <1>14, <1>16, <1>17, <1>19 DEF InOrder
<1>28. CopiesRight'
  <2>1. ASSUME NEW c \in copies, NEW p \in c.start .. c.end - 1 PROVE ReadOK(p)'
    <3>1. IsRange(c) BY <1>0 DEF FillOK
    <3>2. c.start \in Nat /\ c.end \in Nat BY <3>1, RangeParts
    <3>3. c.end <= rd.start BY <1>19 DEF InOrder
    <3>4. p \in Nat /\ p < rd.at BY <1>3, <1>4, <3>2, <3>3
    <3> QED BY <1>19, <1>22, <3>4 DEF CopiesRight
  <2> QED BY <1>14, <1>18, <1>19, <2>1 DEF CopiesRight
<1> QED BY <1>14, <1>24, <1>25, <1>26, <1>27, <1>28 DEF FillQ, Looking

\* A stretch begins with nothing read and every reference before it.
LEMMA StretchQ ==
    ASSUME LookOK, NEW s \in Nat, rd' = Stretch(s), UNCHANGED refs
    PROVE  ReadSoFar' /\ AllSpent' /\ rd'.start = s /\ rd'.at = s
<1>1. /\ rd'.start = s /\ rd'.at = s
      /\ rd'.left = {p \in Files \X AllRefs : p[2] \in refs[p[1]]}
  BY DEF Stretch
<1>2. ASSUME NEW x \in Secs, s <= Pos(x, 0), Pos(x + 1, 0) <= s PROVE FALSE
  <2>1. x \in Int /\ x + 1 \in Int /\ x < x + 1 BY DEF Secs
  <2>2. Pos(x, 0) < Pos(x + 1, 0) BY <2>1, PosLess
  <2>3. Pos(x, 0) \in Int /\ Pos(x + 1, 0) \in Int BY <2>1, PosInt
  <2> QED BY <1>2, <2>2, <2>3
<1>3. ReadSoFar' BY <1>1, <1>2 DEF ReadSoFar
<1>4. ASSUME NEW f \in Files, NEW r \in refs[f] PROVE <<f, r>> \in rd'.left
  <2>1. f \in Holders BY DEF LookOK
  <2>2. r \in AllRefs BY <2>1 DEF AllRefs
  <2> QED BY <1>1, <2>2
<1>5. AllSpent' BY <1>4 DEF AllSpent
<1> QED BY <1>1, <1>3, <1>5

\* A live sector is in a live range.
LEMMA LiveInRange ==
    ASSUME LookOK, NEW x \in Secs, Live(x)
    PROVE  \E g \in LiveRanges(AllRefs) : In(g, x)
<1>1. PICK f \in Files, i \in Sectors : HasWhole(f, i, x) BY DEF Live
<1>2. i \in Int /\ x \in Int BY DEF Sectors, Secs
<1>3. PICK h \in Nat, e \in Nat, n \in Nat : HoldsBy(f, i, x, h, e, n)
  BY <1>1, <1>2, HoldsIs DEF HasWhole
<1>4. /\ n >= 1 /\ h + n <= MaxSectors /\ e + n <= ExtentSectors
      /\ Ref(h, e, n) \in refs[f] /\ e <= x /\ x < e + n /\ x \in Nat
  BY <1>2, <1>3 DEF HoldsBy
<1> DEFINE r == Ref(h, e, n)
<1>5. IsRef(r) BY <1>4 DEF IsRef
<1>6. r.extent_offset = Pos(e, 0) /\ r.num_bytes = Pos(n, 0) BY <1>4 DEF Ref
<1>7. r \in AllRefs
  <2>1. r \in refs[f] BY <1>4
  <2>2. f \in Holders BY <2>1 DEF LookOK
  <2> QED BY <2>1, <2>2 DEF AllRefs
<1> HIDE DEF r
<1>8. Pos(x, 0) \in Span(r)
  <2>1. Pos(e, 0) <= Pos(x, 0) BY <1>4, PosUpTo
  <2>2. e + n \in Int OBVIOUS
  <2>3. Pos(x, 0) < Pos(e + n, 0) BY <1>4, <2>2, PosLess
  <2>4. Pos(e, 0) + Pos(n, 0) = Pos(e + n, 0) BY PosSum
  <2>5. Pos(x, 0) \in Nat BY <1>4, PosInt
  <2> QED BY <1>5, <1>6, <2>1, <2>3, <2>4, <2>5, InSpan
<1>9. Pos(x, 0) \in Covered(AllRefs) BY <1>7, <1>8 DEF Covered
<1>10. \A s \in AllRefs : IsRef(s) BY AllRefsAre
<1>11. PICK g \in LiveRanges(AllRefs) : g.start <= Pos(x, 0) /\ Pos(x, 0) < g.end
  BY <1>9, <1>10, RangeCover
<1> QED BY <1>11 DEF In

LEMMA InspectQ ==
    ASSUME TInv, FillQ, Inspect, pc' = "fill"
    PROVE  FillQ'
<1>0. Inv /\ FsOK /\ LookOK /\ FillOK /\ StageOK BY DEF TInv
<1>1. /\ pc = "inspect" /\ ranges' = LiveRanges(AllRefs)
      /\ rd' = Stretch(First(ranges').start)
      /\ UNCHANGED <<files, disk, copies, refs, buf, found>>
    BY DEF Inspect, Stop, lookup, fsvars
<1>2. \A r \in AllRefs : IsRef(r) BY <1>0, AllRefsAre
<1>3. AllRefs # {}
  <2>2. PICK f \in Holders : refs[f] # {} BY <1>0, <1>1 DEF LookOK
  <2> QED BY <2>2 DEF AllRefs
<1>4. ranges' # {} /\ \A g \in ranges' : IsRange(g) BY <1>1, <1>2, <1>3, SomeRange, RangeOf
<1>5. range' \in ranges' BY <1>4, FirstIs DEF range
<1>6. First(ranges') = range' BY DEF range
<1>7. range'.start \in Nat BY <1>4, <1>5, RangeParts
<1>8. rd' = Stretch(range'.start) BY <1>1, <1>6
<1>9. ReadSoFar' /\ AllSpent' /\ rd'.start = range'.start BY <1>0, <1>1, <1>7, <1>8, StretchQ
<1>10. copies = {} /\ copies' = {} BY <1>1 DEF FillQ, Looking
<1>11. \A x : Live(x)' = Live(x) BY <1>1, Steady
<1>12. NoneLost'
  <2> SUFFICES ASSUME NEW x \in Secs, Live(x) PROVE ToCome(x)' BY <1>11 DEF NoneLost
  <2>1. PICK g \in ranges' : In(g, x) BY <1>0, <1>1, LiveInRange
  <2>2. CASE g = range' BY <1>9, <2>1, <2>2 DEF ToCome, In
  <2>3. CASE g # range' BY <2>1, <2>3 DEF ToCome, In
  <2> QED BY <2>2, <2>3
<1>13. InOrder'
  <2>1. \A g \in ranges', k \in ranges' : g = k \/ g.end <= k.start \/ k.end <= g.start
    BY <1>1, <1>2, RangesApart
  <2> QED BY <1>7, <1>9, <1>10, <2>1 DEF InOrder
<1>14. CopiesRight' BY <1>10 DEF CopiesRight
<1> QED BY <1>9, <1>12, <1>13, <1>14 DEF FillQ, Looking

\* What lies behind the end of a stretch.
LEMMA GapIs ==
    ASSUME TInv, FillQ, EndStretch, NEW x \in Secs, Live(x),
           rd.at < Pos(x + 1, 0), Pos(x, 0) < range.end
    PROVE  NextStart <= Pos(x, 0)
<1>0. Inv /\ FsOK /\ LookOK /\ FillOK /\ StageOK BY DEF TInv
<1>1. pc = "fill" /\ (rd.at >= range.end \/ Sources = {}) BY DEF EndStretch
<1>2. ranges # {} /\ (\A g \in ranges : IsRange(g)) /\ RdOK BY <1>0, <1>1 DEF FillOK
<1>3. range \in ranges BY <1>2, FirstIs DEF range
<1>4. PICK b \in Nat : range.end = Pos(b, 0) BY <1>2, <1>3, RangeParts
<1>5. rd.at \in Nat BY <1>2 DEF RdOK
<1>6. x \in Nat /\ x \in Int /\ x + 1 \in Int BY DEF Secs
<1>7. Pos(x, 0) \in Int /\ Pos(x + 1, 0) \in Int /\ Pos(b, 0) \in Int BY <1>6, PosInt
<1>8. rd.at < range.end /\ Sources = {}
  <2>1. x < b BY <1>4, <1>6, PosLess
  <2>2. x + 1 <= b BY <1>6, <2>1
  <2>3. Pos(x + 1, 0) <= Pos(b, 0) BY <1>6, <2>2, PosUpTo
  <2> QED BY <1>1, <1>4, <1>5, <1>7, <2>3
<1>9. PICK f \in Files, i \in Sectors : HasWhole(f, i, x) BY DEF Live
<1>10. i \in Int BY DEF Sectors
<1>11. PICK h \in Nat, e \in Nat, n \in Nat : HoldsBy(f, i, x, h, e, n)
  <2>1. Holds(f, i, x) BY <1>9 DEF HasWhole
  <2> QED BY <1>0, <1>6, <1>10, <2>1, HoldsIs
<1>12. /\ n >= 1 /\ h + n <= MaxSectors /\ e + n <= ExtentSectors
       /\ Ref(h, e, n) \in refs[f] /\ h <= i /\ i < h + n /\ x = e + (i - h)
  BY <1>11 DEF HoldsBy
<1> DEFINE r == Ref(h, e, n)
           y == x + 1
<1>13. IsRef(r) /\ r \in refs[f] BY <1>12 DEF IsRef
<1>14. r.extent_offset = Pos(e, 0) /\ r.num_bytes = Pos(n, 0) /\ r.file_offset = Pos(h, 0)
  BY DEF Ref
<1>15. r \in AllRefs
  <2>2. f \in Holders BY <1>0, <1>13 DEF LookOK
  <2> QED BY <1>13, <2>2 DEF AllRefs
<1> HIDE DEF r
<1>16. Pos(e, 0) <= Pos(x, 0) /\ Pos(y, 0) <= Pos(e, 0) + Pos(n, 0)
  <2>1. e <= x /\ y <= e + n /\ y \in Int /\ e + n \in Int BY <1>6, <1>10, <1>12
  <2> HIDE DEF y
  <2>2. Pos(e, 0) <= Pos(x, 0) BY <1>6, <2>1, PosUpTo
  <2>3. Pos(y, 0) <= Pos(e + n, 0) BY <2>1, PosUpTo
  <2>4. Pos(e, 0) + Pos(n, 0) = Pos(e + n, 0) BY PosSum
  <2> QED BY <2>2, <2>3, <2>4
<1>17. Pos(e, 0) \in Nat /\ Pos(n, 0) \in Nat /\ Pos(h, 0) \in Nat BY PosInt
<1>18. r.extent_offset > rd.at
  <2>1. SUFFICES ASSUME r.extent_offset <= rd.at PROVE FALSE BY <1>5, <1>14, <1>17
  <2>2. rd.at < r.extent_offset + r.num_bytes BY <1>5, <1>7, <1>14, <1>16, <1>17
  <2>3. rd.at \in Span(r) BY <1>5, <1>13, <2>1, <2>2, InSpan
  <2>4. <<f, r>> \notin rd.left
    <3>1. <<f, r>>[2] = r OBVIOUS
    <3> QED BY <1>8, <2>3, <3>1 DEF Sources
  <2>5. Spent(f, r, rd.at) BY <1>1, <1>13, <2>4 DEF FillQ, AllSpent, Reach
  <2>6. range.end \in Nat BY <1>2, <1>3, RangeParts
  <2>7. r.file_offset + (rd.at - r.extent_offset) >= files[f].size
    BY <1>5, <1>8, <1>14, <1>17, <2>2, <2>5, <2>6 DEF Spent
  <2>8. Pos(i + 1, 0) = Pos(h, 0) + (Pos(y, 0) - Pos(e, 0))
    <3>1. i + 1 = h + (y - e) BY <1>6, <1>10, <1>12
    <3>2. y \in Int BY <1>6
    <3> HIDE DEF y
    <3>3. Pos(h + (y - e), 0) = Pos(h, 0) + (Pos(y, 0) - Pos(e, 0)) BY <3>2, PosShift
    <3> QED BY <3>1, <3>3
  <2>9. Pos(i + 1, 0) <= files[f].size BY <1>9 DEF HasWhole, Whole
  <2>10. files[f].size \in Nat BY <1>0, SizeIs
  <2> QED BY <1>5, <1>7, <1>14, <1>17, <2>7, <2>8, <2>9, <2>10
<1> DEFINE later == {s.extent_offset : s \in {q \in AllRefs : q.extent_offset > rd.at}}
<1>19. r.extent_offset \in later BY <1>15, <1>18
<1>20. \A s \in AllRefs : IsRef(s) BY <1>0, AllRefsAre
<1>21. later \in SUBSET Nat BY <1>20, RefParts
<1>22. NextStart = Min(later) BY <1>19 DEF NextStart
<1> HIDE DEF later
<1>23. Min(later) <= r.extent_offset /\ Min(later) \in Nat BY <1>19, <1>21, MinIs
<1> QED BY <1>7, <1>14, <1>16, <1>17, <1>22, <1>23

\* The end of a stretch turns what was read of it into a copy.
LEMMA EndStretchQ ==
    ASSUME TInv, FillQ, EndStretch
    PROVE  FillQ' /\ pc' # "done"
<1>0. Inv /\ FsOK /\ LookOK /\ FillOK /\ StageOK BY DEF TInv
<1>1. /\ pc = "fill" /\ UNCHANGED <<files, disk, refs, buf, found>>
      /\ copies' = IF WholeEnd > rd.start
                     THEN copies \union {[start |-> rd.start, end |-> WholeEnd]}
                     ELSE copies
      /\ \/ NextStart < range.end /\ rd' = Stretch(NextStart) /\ UNCHANGED <<pc, ranges>>
         \/ /\ ~(NextStart < range.end)
            /\ ranges' = ranges \ {range}
            /\ IF ranges' = {}
                 THEN pc' = "before" /\ UNCHANGED rd
                 ELSE rd' = Stretch(First(ranges').start) /\ UNCHANGED pc
  BY DEF EndStretch, lookup, fsvars
<1>2. ranges # {} /\ (\A g \in ranges : IsRange(g)) /\ RdOK BY <1>0, <1>1 DEF FillOK
<1>3. range \in ranges /\ (\A g \in ranges : range.start <= g.start) BY <1>2, FirstIs DEF range
<1>4. /\ range.end \in Nat /\ range.start \in Nat /\ range.start < range.end
  BY <1>2, <1>3, RangeParts
<1>5. rd.at \in Nat /\ rd.start <= rd.at /\ rd.at <= range.end BY <1>2 DEF RdOK
<1>6. PICK k \in Nat : rd.start = Pos(k, 0) BY <1>2 DEF RdOK
<1>7. rd.start \in Nat BY <1>6, PosInt
<1> DEFINE w == rd.at \div SectorSize
           new == [start |-> rd.start, end |-> WholeEnd]
<1>8. w \in Nat /\ Pos(w, 0) <= rd.at /\ rd.at < Pos(w + 1, 0) /\ WholeEnd = Pos(w, 0)
  BY <1>5, PosDiv DEF WholeEnd
<1> HIDE DEF w
<1>9. WholeEnd \in Nat /\ WholeEnd <= rd.at BY <1>8, PosInt
<1>10. ReadSoFar /\ AllSpent /\ NoneLost /\ InOrder /\ CopiesRight BY <1>1 DEF FillQ
<1>11. \A x : Live(x)' = Live(x) BY <1>1, Steady
<1>12. \A p : ReadOK(p)' = ReadOK(p) BY <1>1 DEF ReadOK
<1>13. ASSUME NEW c \in copies' PROVE c \in copies \/ (c = new /\ WholeEnd > rd.start) BY <1>1
<1>14. ASSUME NEW x \in Secs PROVE /\ x \in Nat /\ x \in Int /\ x + 1 \in Int
                                   /\ Pos(x, 0) \in Int /\ Pos(x + 1, 0) \in Int
                                   /\ Pos(x, 0) < Pos(x + 1, 0)
  <2>1. x \in Nat /\ x \in Int /\ x + 1 \in Int /\ x < x + 1 BY DEF Secs
  <2>2. Pos(x, 0) < Pos(x + 1, 0) BY <2>1, PosLess
  <2> QED BY <2>1, <2>2, PosInt
<1>15. new.start = rd.start /\ new.end = WholeEnd OBVIOUS
<1>16. \A c \in copies : IsRange(c) /\ c.start \in Nat /\ c.end \in Nat /\ c.end <= rd.start
  BY <1>0, <1>10, RangeParts DEF FillOK, InOrder
<1> HIDE DEF new
<1>17. CopiesRight'
  <2>1. ASSUME NEW c \in copies', NEW p \in c.start .. c.end - 1 PROVE ReadOK(p)
    <3>1. CASE c \in copies BY <1>10, <3>1 DEF CopiesRight
    <3>2. CASE c = new
      <4>1. p \in rd.start .. rd.at - 1 BY <1>5, <1>7, <1>9, <1>15, <3>2
      <4> QED BY <1>10, <4>1 DEF ReadSoFar
    <3> QED BY <1>13, <3>1, <3>2
  <2>2. ASSUME NEW c \in copies', NEW x \in Secs, In(c, x) PROVE Live(x)
    <3>1. CASE c \in copies BY <1>10, <2>2, <3>1 DEF CopiesRight
    <3>2. CASE c = new
      <4>1. rd.start <= Pos(x, 0) /\ Pos(x, 0) < Pos(w, 0) BY <1>8, <1>15, <2>2, <3>2 DEF In
      <4>2. x < w BY <1>8, <1>14, <4>1, PosLess
      <4>3. x + 1 <= w BY <1>8, <1>14, <4>2
      <4>4. Pos(x + 1, 0) <= Pos(w, 0) BY <1>8, <1>14, <4>3, PosUpTo
      <4>5. Pos(x + 1, 0) <= rd.at BY <1>5, <1>8, <1>9, <1>14, <4>4
      <4> QED BY <1>10, <4>1, <4>5 DEF ReadSoFar
    <3> QED BY <1>13, <3>1, <3>2
  <2>3. ASSUME NEW c \in copies', NEW d \in copies'
        PROVE  c = d \/ c.end <= d.start \/ d.end <= c.start
    <3>1. CASE c \in copies /\ d \in copies BY <1>10, <3>1 DEF CopiesRight
    <3>2. CASE c \in copies /\ d = new BY <1>15, <1>16, <3>2
    <3>3. CASE c = new /\ d \in copies BY <1>15, <1>16, <3>3
    <3> QED BY <1>13, <3>1, <3>2, <3>3
  <2> QED BY <1>11, <1>12, <2>1, <2>2, <2>3 DEF CopiesRight, In
<1>18. \A c \in copies' : c.end <= rd.at
  <2> SUFFICES ASSUME NEW c \in copies' PROVE c.end <= rd.at OBVIOUS
  <2>1. CASE c \in copies BY <1>5, <1>7, <1>16, <2>1
  <2>2. CASE c = new BY <1>9, <1>15, <2>2
  <2> QED BY <1>13, <2>1, <2>2
<1>19. ASSUME NEW x \in Secs, Live(x)
       PROVE  \/ Copied(x)'
              \/ /\ NextStart <= Pos(x, 0) /\ Pos(x, 0) < range.end
              \/ \E g \in ranges \ {range} : In(g, x)
  <2>1. CASE Copied(x)
    <3>1. PICK c \in copies : In(c, x) BY <2>1 DEF Copied
    <3>2. c \in copies' BY <1>1
    <3> QED BY <3>1, <3>2 DEF Copied, In
  <2>2. CASE \E g \in ranges \ {range} : In(g, x) BY <2>2
  <2>3. CASE rd.start <= Pos(x, 0) /\ Pos(x, 0) < range.end
    <3>1. CASE rd.at < Pos(x + 1, 0) BY <1>19, <2>3, <3>1, GapIs
    <3>2. CASE Pos(x + 1, 0) <= rd.at
      <4>1. x + 1 < w + 1
        <5>1. w + 1 \in Int BY <1>8
        <5>2. Pos(w + 1, 0) \in Int BY <5>1, PosInt
        <5>3. Pos(x + 1, 0) < Pos(w + 1, 0) BY <1>5, <1>8, <1>14, <3>2, <5>2
        <5> QED BY <1>14, <5>1, <5>3, PosLess
      <4>2. x < w BY <1>8, <1>14, <4>1
      <4>3. Pos(x, 0) < Pos(w, 0) BY <1>8, <1>14, <4>2, PosLess
      <4>4. WholeEnd > rd.start BY <1>7, <1>8, <1>9, <1>14, <2>3, <4>3
      <4>5. new \in copies' BY <1>1, <4>4 DEF new
      <4>6. In(new, x) BY <1>8, <1>15, <2>3, <4>3 DEF In
      <4> QED BY <4>5, <4>6 DEF Copied, In
    <3> QED BY <1>5, <1>14, <3>1, <3>2
  <2> QED BY <1>10, <1>19, <2>1, <2>2, <2>3 DEF NoneLost, ToCome
<1>20. CASE NextStart < range.end /\ rd' = Stretch(NextStart) /\ UNCHANGED <<pc, ranges>>
  <2> DEFINE later == {r.extent_offset : r \in {q \in AllRefs : q.extent_offset > rd.at}}
  <2>1. \A r \in AllRefs : IsRef(r) BY <1>0, AllRefsAre
  <2>2. later # {}
    <3> SUFFICES ASSUME later = {} PROVE FALSE OBVIOUS
    <3>1. NextStart = range.end BY DEF NextStart
    <3> QED BY <3>1, <1>4, <1>20
  <2>3. NextStart = Min(later) BY <2>2 DEF NextStart
  <2>4. later \in SUBSET Nat BY <2>1, RefParts
  <2>5. NextStart \in later BY <2>2, <2>3, <2>4, MinIs
  <2>6. NextStart \in Nat /\ NextStart > rd.at BY <2>4, <2>5
  <2> HIDE DEF later
  <2>7. ReadSoFar' /\ AllSpent' /\ rd'.start = NextStart
    BY <1>0, <1>1, <1>20, <2>6, StretchQ
  <2>8. range' = range BY <1>20 DEF range
  <2>9. NoneLost'
    <3> SUFFICES ASSUME NEW x \in Secs, Live(x) PROVE Copied(x)' \/ ToCome(x)'
      BY <1>11 DEF NoneLost
    <3>1. ToCome(x)' = (\/ NextStart <= Pos(x, 0) /\ Pos(x, 0) < range.end
                        \/ \E g \in ranges \ {range} : In(g, x))
      BY <1>20, <2>7, <2>8 DEF ToCome, In
    <3> QED BY <1>19, <3>1
  <2>10. \A c \in copies' : c.end <= rd'.start
    <3> SUFFICES ASSUME NEW c \in copies' PROVE c.end <= rd'.start OBVIOUS
    <3>1. c.end \in Nat BY <1>9, <1>13, <1>15, <1>16
    <3>2. c.end <= rd.at BY <1>18
    <3> QED BY <1>5, <2>6, <2>7, <3>1, <3>2
  <2>11. rd'.start >= range.start
    BY <1>4, <1>5, <1>7, <1>10, <2>6, <2>7 DEF InOrder
  <2>12. InOrder' BY <1>10, <1>20, <2>8, <2>10, <2>11 DEF InOrder
  <2> QED BY <1>1, <1>17, <1>20, <2>7, <2>9, <2>12 DEF FillQ, Looking
<1>21. CASE /\ ~(NextStart < range.end)
            /\ ranges' = ranges \ {range}
            /\ IF ranges' = {}
                 THEN pc' = "before" /\ UNCHANGED rd
                 ELSE rd' = Stretch(First(ranges').start) /\ UNCHANGED pc
  <2>0. ASSUME NEW x \in Secs, Live(x) PROVE Copied(x)' \/ \E g \in ranges' : In(g, x)
    <3>1. NextStart \in Int
      <4> DEFINE later == {r.extent_offset : r \in {q \in AllRefs : q.extent_offset > rd.at}}
      <4>1. \A r \in AllRefs : IsRef(r) BY <1>0, AllRefsAre
      <4>2. later \in SUBSET Nat BY <4>1, RefParts
      <4>3. NextStart = IF later = {} THEN range.end ELSE Min(later) BY DEF NextStart
      <4> HIDE DEF later
      <4>4. later # {} => Min(later) \in Nat BY <4>2, MinIs
      <4> QED BY <1>4, <4>3, <4>4
    <3>2. ~(NextStart <= Pos(x, 0) /\ Pos(x, 0) < range.end) BY <1>4, <1>14, <1>21, <3>1
    <3> QED BY <1>19, <1>21, <2>0, <3>2
  <2>1. CASE ranges' = {}
    <3>1. \A x \in Secs : Live(x)' => Copied(x)' BY <1>11, <2>0, <2>1
    <3> QED BY <1>17, <1>21, <2>1, <3>1 DEF FillQ, Looking
  <2>2. CASE ranges' # {}
    <3>1. \A g \in ranges' : IsRange(g) BY <1>2, <1>21
    <3>2. range' \in ranges' /\ First(ranges') = range' BY <2>2, <3>1, FirstIs DEF range
    <3>3. range'.start \in Nat /\ range'.end \in Nat /\ range'.start < range'.end
      BY <3>1, <3>2, RangeParts
    <3>4. rd' = Stretch(range'.start) /\ pc' = "fill" BY <1>1, <1>21, <2>2, <3>2
    <3>5. ReadSoFar' /\ AllSpent' /\ rd'.start = range'.start BY <1>0, <1>1, <3>3, <3>4, StretchQ
    <3>6. NoneLost'
      <4> SUFFICES ASSUME NEW x \in Secs, Live(x) PROVE Copied(x)' \/ ToCome(x)'
        BY <1>11 DEF NoneLost
      <4>1. CASE Copied(x)' BY <4>1
      <4>2. ASSUME NEW g \in ranges', In(g, x) PROVE ToCome(x)'
        <5>1. CASE g = range' BY <3>5, <4>2, <5>1 DEF ToCome, In
        <5>2. CASE g # range' BY <4>2, <5>2 DEF ToCome, In
        <5> QED BY <5>1, <5>2
      <4> QED BY <2>0, <4>1, <4>2
    <3>7. range.end <= range'.start
      <4>1. range' \in ranges /\ range' # range BY <1>21, <3>2
      <4>2. range.start <= range'.start BY <1>3, <4>1
      <4>3. range.end <= range'.start \/ range'.end <= range.start
        BY <1>3, <1>10, <4>1 DEF InOrder
      <4> QED BY <1>4, <3>3, <4>2, <4>3
    <3>8. \A c \in copies' : c.end <= rd'.start
      <4> SUFFICES ASSUME NEW c \in copies' PROVE c.end <= rd'.start OBVIOUS
      <4>1. c.end \in Nat BY <1>9, <1>13, <1>15, <1>16
      <4>2. c.end <= rd.at BY <1>18
      <4> QED BY <1>4, <1>5, <3>3, <3>5, <3>7, <4>1, <4>2
    <3>9. InOrder' BY <1>10, <1>21, <3>3, <3>5, <3>8 DEF InOrder
    <3> QED BY <1>17, <3>4, <3>5, <3>6, <3>9 DEF FillQ, Looking
  <2> QED BY <2>1, <2>2
<1> QED BY <1>1, <1>20, <1>21

\* The steps that do not read.
Asides == /\ Aside
          /\ pc' \in Looking => pc \in Looking
          /\ pc' = "before" => pc = "before" /\ UNCHANGED <<files, copies>>
          /\ pc \in Looking \/ (refs' = refs /\ buf' = buf)

LEMMA ToolAsides ==
    ASSUME ToolNext, Faults = {}, pc' # "done"
    PROVE  \/ Inspect /\ pc' = "fill"
           \/ FillOpen \/ FillRead \/ EndStretch \/ Asides
<1> USE DEF Asides, Aside, Looking, fsvars, lookup, reading
<1>0. \A out : ~Stop(out) BY StopEnds
<1>1. CASE LogicalIno BY <1>0, <1>1 DEF LogicalIno
<1>2. CASE Collect BY <1>0, <1>2 DEF Collect, NextHolder
<1>3. CASE Judge BY <1>0, <1>3 DEF Judge
<1>4. CASE InodePath BY <1>0, <1>4 DEF InodePath
<1>5. CASE Inspect BY <1>0, <1>5 DEF Inspect
<1>9. CASE Before BY <1>0, <1>9 DEF Before, NextHolder
<1>10. CASE Stage BY <1>0, <1>10 DEF Stage
<1>11. CASE RedirectOpen BY <1>0, <1>11 DEF RedirectOpen, Redirected, NextHolder
<1>12. CASE DedupeChunk BY <1>0, <1>12 DEF DedupeChunk, Redirected, NextHolder
<1>13. ~DedupeShort BY DEF DedupeShort
<1>14. CASE FinishHolder BY <1>0, <1>14 DEF FinishHolder
<1>15. CASE RedirectTail BY <1>0, <1>15 DEF RedirectTail
<1>16. CASE Verify BY <1>0, <1>16 DEF Verify, NextHolder
<1>17. CASE CheckReleased BY <1>0, <1>17 DEF CheckReleased
<1> QED BY <1>1, <1>2, <1>3, <1>4, <1>5, <1>9, <1>10, <1>11, <1>12, <1>13, <1>14, <1>15,
           <1>16, <1>17
     DEF ToolNext

LEMMA LiveKept ==
    ASSUME Inv, ToolNext, refs' = refs
    PROVE  \A x : Live(x)' = Live(x)
<1>1. \A f \in Files : \A i, x : HasWhole(f, i, x)' = HasWhole(f, i, x) BY HasKept
<1> QED BY <1>1 DEF Live

\* What was read stays right, whatever is done with it.
LEMMA CopiesKept ==
    ASSUME TInv, ToolNext, CopiesRight, copies' \subseteq copies, UNCHANGED <<refs, buf>>
    PROVE  CopiesRight'
<1>0. Inv /\ FsOK /\ FsOK' BY NextT DEF TInv, Next
<1>1. \A x : Live(x)' = Live(x) BY <1>0, LiveKept
<1>2. disk'[Ext] = disk[Ext] BY <1>0 DEF FsOK
<1>3. \A p : ReadOK(p)' = ReadOK(p) BY <1>2 DEF ReadOK
<1>4. \A c, x : In(c, x)' = In(c, x) BY DEF In
<1>5. \A c \in copies' : \A p \in c.start .. c.end - 1 : ReadOK(p)' BY <1>3 DEF CopiesRight
<1>6. \A c \in copies', x \in Secs : In(c, x)' => Live(x)' BY <1>1, <1>4 DEF CopiesRight
<1>7. \A c \in copies', d \in copies' : c = d \/ c.end <= d.start \/ d.end <= c.start
  BY DEF CopiesRight
<1> QED BY <1>5, <1>6, <1>7 DEF CopiesRight

LEMMA NextFillQ ==
    ASSUME TInv, LookQ, FitQ, FillQ, Faults = {}, ToolNext
    PROVE  FillQ'
<1>0. Inv /\ FsOK /\ LookOK BY DEF TInv
<1>1. CASE pc' = "done" BY <1>1 DEF FillQ, Looking
<1>2. CASE Inspect /\ pc' = "fill" BY <1>2, InspectQ
<1>3. CASE FillOpen BY <1>3, FillOpenQ
<1>4. CASE FillRead
  <2>1. pc \in Early BY <1>4 DEF FillRead, Early
  <2>2. Content BY <1>0, <2>1, ContentEarly
  <2> QED BY <1>4, <2>2, FillReadQ
<1>5. CASE EndStretch BY <1>5, EndStretchQ
<1>6. CASE Asides /\ pc' # "done"
  <2>1. copies' \subseteq copies /\ pc' \notin {"fill", "pread"} BY <1>6 DEF Asides, Aside
  <2>2. CopiesRight'
    <3>1. CASE pc \in Looking
      <4>1. copies' = {} BY <2>1, <3>1 DEF FillQ
      <4> QED BY <4>1 DEF CopiesRight
    <3>2. CASE pc \notin Looking
      <4>1. UNCHANGED <<refs, buf>> BY <1>6, <3>2 DEF Asides
      <4>2. pc # "done"
        <5>1. Goes BY ToolGoes
        <5> QED BY <5>1 DEF Goes
      <4>3. CopiesRight BY <4>2 DEF FillQ
      <4> QED BY <2>1, <4>1, <4>3, CopiesKept
    <3> QED BY <3>1, <3>2
  <2>3. pc' \in Looking => copies' = {} BY <1>6, <2>1 DEF FillQ, Asides
  <2>4. ASSUME pc' = "before" PROVE \A x \in Secs : Live(x)' => Copied(x)'
    <3>1. pc = "before" /\ UNCHANGED <<copies, refs>> BY <1>6, <2>4 DEF Asides, Looking
    <3>2. \A x : Live(x)' = Live(x) BY <1>0, <3>1, LiveKept
    <3>3. \A x : Copied(x)' = Copied(x) BY <3>1 DEF Copied, In
    <3> QED BY <3>1, <3>2, <3>3 DEF FillQ
  <2> QED BY <2>1, <2>2, <2>3, <2>4 DEF FillQ
<1> QED BY <1>1, <1>2, <1>3, <1>4, <1>5, <1>6, ToolAsides

-----------------------------------------------------------------------------
(* What is staged reads as what it replaces, so that the kernel agrees to  *)
(* every dedupe call.                                                      *)

\* What is staged reads as what it is to replace.
StagedQ ==
    /\ pc \in Late => Content
    /\ pc \in {"redirect", "dedupe"} =>
          \A s \in DOMAIN disk[temp.addr], o \in Offsets :
             disk[temp.addr][s][o] = disk[Ext][copy.start \div SectorSize + s][o]
    /\ pc = "tail" =>
          /\ HoldsTail(cur) /\ temp.size = Pos(1, before[cur].size % SectorSize)
          /\ \A o \in Offsets : Pos(TailSector(cur), o) < files[cur].size =>
                disk[temp.addr][0][o] = Byte(cur, TailSector(cur), o)

LEMMA PosParts ==
    ASSUME NEW i \in Nat, NEW o \in Offsets
    PROVE  /\ Pos(i, o) \in Nat /\ Pos(i, o) = Pos(i, 0) + o
           /\ Pos(i, 0) <= Pos(i, o) /\ Pos(i, o) < Pos(i + 1, 0)
           /\ Pos(i, o) \div SectorSize = i /\ Pos(i, o) % SectorSize = o
<1> DEFINE p == Pos(i, o)
<1>1. p = Pos(i, 0) + o /\ p \in Nat /\ o \in Nat /\ o < SectorSize BY DivPos
<1>2. Pos(i + 1, 0) = Pos(i, 0) + SectorSize BY PosSum
<1>3. Pos(i, 0) \in Int /\ SectorSize \in Int BY PosInt, BtrfsAssumption
<1>4. Pos(i, 0) <= p /\ p < Pos(i + 1, 0) BY <1>1, <1>2, <1>3
<1> HIDE DEF p
<1>5. p \div SectorSize = i BY <1>1, <1>4, DivPos
<1>6. p = Pos(p \div SectorSize, 0) + (p % SectorSize) /\ p % SectorSize \in Offsets BY <1>1, PosDiv
<1>7. p = Pos(i, 0) + (p % SectorSize) BY <1>5, <1>6
<1>8. p % SectorSize \in Int BY <1>6 DEF Offsets
<1>9. p % SectorSize = o BY <1>1, <1>3, <1>7, <1>8
<1> QED BY <1>1, <1>4, <1>5, <1>9 DEF p

LEMMA StageStaged ==
    ASSUME TInv, FillQ, Stage
    PROVE  /\ pc' = "redirect"
           /\ \A s \in DOMAIN disk'[temp'.addr], o \in Offsets :
                 disk'[temp'.addr][s][o] = disk'[Ext][copy'.start \div SectorSize + s][o]
<1>0. Inv /\ FsOK /\ FillOK /\ StageOK BY DEF TInv
<1>1. pc = "stage" /\ pc' = "redirect" /\ copies' = copies BY DEF Stage
<1>2. copies # {} BY <1>0, <1>1 DEF StageOK
<1>3. copy \in copies BY <1>0, <1>2, CopySectors
<1>4. PICK a \in Nat, b \in Nat :
         /\ a < b /\ b <= ExtentSectors
         /\ copy.start = Pos(a, 0) /\ copy.end = Pos(b, 0)
         /\ (copy.end - copy.start) \div SectorSize = b - a
  BY <1>0, <1>2, CopySectors
<1> DEFINE E == [i \in 0 .. (b - a) - 1 |-> [o \in Offsets |-> buf[copy.start + Pos(i, o)]]]
<1>5. disk' = Append(disk, E) /\ temp'.addr = Len(disk) + 1
  BY <1>4 DEF Stage
<1>6. IsSeq(disk) /\ Ext \in 1 .. Len(disk) /\ Len(disk) \in Nat
  <2>1. IsSeq(disk) BY <1>0 DEF Inv
  <2>2. Len(disk) \in Nat BY <2>1, AppendFacts
  <2> QED BY <2>1, <2>2, <1>0 DEF FsOK, Ext
<1> HIDE DEF E
<1>7. disk'[temp'.addr] = E /\ disk'[Ext] = disk[Ext] BY <1>5, <1>6, AppendFacts
<1>8. copy' = copy BY <1>1, SameCopy
<1>9. copy.start \div SectorSize = a BY <1>4, DivPos
<1>10. ASSUME NEW s \in DOMAIN E, NEW o \in Offsets
       PROVE  E[s][o] = disk[Ext][a + s][o]
  <2>1. s \in Nat /\ a + s \in Nat /\ a + s < b /\ a + s + 1 <= b /\ a + s + 1 \in Int BY <1>4 DEF E
  <2> DEFINE k == a + s
             p == Pos(k, o)
  <2>2. E[s][o] = buf[copy.start + Pos(s, o)] BY DEF E
  <2>3. copy.start + Pos(s, o) = p
    <3>1. Pos(s, o) = Pos(s, 0) + o BY <2>1, PosParts
    <3>2. Pos(k, o) = Pos(k, 0) + o
      <4>1. k \in Nat BY <2>1
      <4> HIDE DEF k
      <4> QED BY <4>1, PosParts
    <3>3. Pos(a, 0) + Pos(s, 0) = Pos(a + s, 0) BY <2>1, PosSum
    <3>4. Pos(a, 0) \in Int /\ Pos(s, 0) \in Int /\ o \in Int BY <2>1, PosInt DEF Offsets
    <3> QED BY <1>4, <3>1, <3>2, <3>3, <3>4
  <2>4. /\ p \in Nat /\ p \div SectorSize = k /\ p % SectorSize = o
        /\ Pos(k, 0) <= p /\ p < Pos(k + 1, 0)
    <3>1. k \in Nat BY <2>1
    <3> HIDE DEF k
    <3> QED BY <3>1, PosParts
  <2>5. Pos(a, 0) <= Pos(k, 0) /\ Pos(k + 1, 0) <= Pos(b, 0)
    <3>1. k \in Int /\ k + 1 \in Int /\ a <= k /\ k + 1 <= b BY <2>1
    <3> HIDE DEF k
    <3> QED BY <3>1, PosUpTo
  <2>6. Pos(a, 0) \in Int /\ Pos(k, 0) \in Int /\ Pos(k + 1, 0) \in Int /\ Pos(b, 0) \in Int
    BY <2>1, PosInt
  <2> HIDE DEF p
  <2>7. p \in copy.start .. copy.end - 1 BY <1>4, <2>4, <2>5, <2>6
  <2>8. ReadOK(p) BY <1>1, <1>3, <2>7 DEF FillQ, CopiesRight
  <2> QED BY <2>2, <2>3, <2>4, <2>8 DEF ReadOK
<1> QED BY <1>1, <1>7, <1>8, <1>9, <1>10

LEMMA CoveredIsHeld ==
    ASSUME LookOK, NEW f \in Files, NEW i \in Int, NEW r \in refs[f],
           Pos(i, 0) \in r.file_offset .. r.file_offset + r.num_bytes - 1
    PROVE  /\ i \in Sectors /\ f \in Holders
           /\ \E x \in Secs : Holds(f, i, x) /\ Pos(x, 0) = r.extent_offset + (Pos(i, 0) - r.file_offset)
<1>1. IsRef(r) BY DEF LookOK, RefSet
<1>2. PICK h \in Nat, e \in Nat, n \in Nat :
         h + n <= MaxSectors /\ e + n <= ExtentSectors /\ r = Ref(h, e, n)
  BY <1>1 DEF IsRef
<1>3. r.file_offset = Pos(h, 0) /\ r.num_bytes = Pos(n, 0) /\ r.extent_offset = Pos(e, 0)
  BY <1>2 DEF Ref
<1>4. Pos(h, 0) + Pos(n, 0) = Pos(h + n, 0) BY PosSum
<1>5. h + n \in Int OBVIOUS
<1>6. Pos(h, 0) \in Int /\ Pos(n, 0) \in Int /\ Pos(i, 0) \in Int /\ Pos(h + n, 0) \in Int BY <1>5, PosInt
<1>7. Pos(h, 0) <= Pos(i, 0) /\ Pos(i, 0) < Pos(h + n, 0) BY <1>3, <1>4, <1>6
<1>8. h <= i BY <1>7, PosUpTo
<1>9. i < h + n BY <1>5, <1>7, PosLess
<1> DEFINE x == e + (i - h)
<1>10. Pos(x, 0) = Pos(e, 0) + (Pos(i, 0) - Pos(h, 0)) BY PosShift
<1>11. x \in Int /\ x >= 0 /\ x < ExtentSectors BY <1>2, <1>8, <1>9, ReallocAssumption
<1>12. x \in Secs BY <1>11, ReallocAssumption DEF Secs
<1>13. Holds(f, i, x)
  <2> HIDE DEF x
  <2> QED BY <1>3, <1>10 DEF Holds
<1>14. i \in Sectors BY <1>2, <1>8, <1>9, BtrfsAssumption DEF Sectors
<1>15. f \in Holders BY DEF LookOK
<1> QED BY <1>3, <1>10, <1>12, <1>13, <1>14, <1>15

\* The part sector that a file ends in, if the extent holds it.
LEMMA TailIsHeld ==
    ASSUME FsOK, LookOK, NEW f \in Files, before[f].size = files[f].size, HoldsTail(f)
    PROVE  TailSector(f) \in Sectors /\ \E x \in Secs : Holds(f, TailSector(f), x)
<1>1. TailSector(f) \in Nat BY TailAlone
<1> DEFINE t == TailSector(f)
<1>2. PICK r \in refs[f] : Pos(t, 0) \in r.file_offset .. r.file_offset + r.num_bytes - 1
  BY DEF HoldsTail
<1>3. t \in Int BY <1>1
<1> HIDE DEF t
<1>4. t \in Sectors /\ \E x \in Secs : Holds(f, t, x) BY <1>2, <1>3, CoveredIsHeld
<1> QED BY <1>4 DEF t

\* The last sector of a file, read by itself.
LEMMA FinishStaged ==
    ASSUME TInv, FitQ, FinishHolder, pc' = "tail"
    PROVE  /\ HoldsTail(cur)' /\ temp'.size = Pos(1, before'[cur'].size % SectorSize)
           /\ \A o \in Offsets : Pos(TailSector(cur)', o) < files'[cur'].size =>
                disk'[temp'.addr][0][o] = Byte(cur, TailSector(cur), o)'
           /\ files' = files /\ cur' = cur /\ before' = before /\ refs' = refs
<1>0. Inv /\ FsOK /\ LookOK BY DEF TInv
<1>1. pc = "finish" /\ \A out : ~Stop(out) BY StopEnds DEF FinishHolder
<1> DEFINE e == [o \in Offsets |-> IF Pos(TailSector(cur), o) < before[cur].size
                                     THEN Byte(cur, TailSector(cur), o) ELSE 0]
<1>2. /\ HoldsTail(cur) /\ disk' = Append(disk, [i \in {0} |-> e])
      /\ temp' = [addr |-> Len(disk) + 1, size |-> Pos(1, before[cur].size % SectorSize)]
      /\ UNCHANGED <<files, refs, todo, before>>
  BY <1>1 DEF FinishHolder, lookup
<1> HIDE DEF e
<1>3. cur \in Files /\ cur \in Holders BY <1>0, <1>1, CurIs
<1>4. before[cur].size = files[cur].size BY <1>1, <1>3 DEF FitQ, Late, Verified
<1>5. cur' = cur BY <1>2 DEF cur
<1>6. disk'[temp'.addr] = [i \in {0} |-> e]
  <2>1. IsSeq(disk) BY <1>0 DEF Inv
  <2>2. temp'.addr = Len(disk) + 1 BY <1>2
  <2> QED BY <1>2, <2>1, <2>2, AppendFacts
<1>7. HoldsTail(cur)' BY <1>2, <1>5 DEF HoldsTail, TailSector
<1>8. TailSector(cur)' = TailSector(cur) BY <1>2, <1>5 DEF TailSector
<1> DEFINE t == TailSector(cur)
<1>9. t \in Sectors BY <1>0, <1>2, <1>3, <1>4, TailIsHeld
<1>10. ASSUME NEW o \in Offsets PROVE Byte(cur, t, o)' = Byte(cur, t, o)
  <2>1. files[cur].map[t].addr # 0 => disk'[files[cur].map[t].addr] = disk[files[cur].map[t].addr]
    BY <1>0, <1>2, <1>3, <1>9, OldExtentsKept
  <2>2. Byte(cur, t, o)' = IF files[cur].map[t].addr = 0 THEN 0
                          ELSE disk'[files[cur].map[t].addr][files[cur].map[t].sec][o]
    BY <1>2, <1>5, <1>8 DEF Byte
  <2> QED BY <2>1, <2>2 DEF Byte
<1>11. ASSUME NEW o \in Offsets, Pos(t, o) < files[cur].size PROVE e[o] = Byte(cur, t, o)
  BY <1>4, <1>11 DEF e
<1>12. temp'.size = Pos(1, before'[cur'].size % SectorSize) BY <1>2, <1>5
<1> QED BY <1>2, <1>5, <1>6, <1>7, <1>8, <1>10, <1>11, <1>12

\* The steps that keep what is staged.
LEMMA StagedKept ==
    ASSUME ToolNext, Faults = {}, pc' \in {"redirect", "dedupe", "tail"}, ~Stage, ~FinishHolder
    PROVE  /\ pc \in {"redirect", "dedupe"} /\ pc' # "tail"
           /\ UNCHANGED <<disk, temp, copies>>
<1> USE DEF fsvars, lookup, reading
<1>0. \A out : ~Stop(out) BY StopEnds
<1>1. ~LogicalIno BY <1>0 DEF LogicalIno
<1>2. ~Collect BY <1>0 DEF Collect, NextHolder
<1>3. ~Judge BY <1>0 DEF Judge
<1>4. ~InodePath BY <1>0 DEF InodePath
<1>5. ~Inspect BY <1>0 DEF Inspect
<1>6. ~FillOpen BY <1>0 DEF FillOpen
<1>7. ~FillRead BY <1>0 DEF FillRead
<1>8. ~EndStretch BY <1>0 DEF EndStretch
<1>9. ~Before BY <1>0 DEF Before, NextHolder
<1>11. CASE RedirectOpen BY <1>0, <1>11 DEF RedirectOpen, Redirected, NextHolder
<1>12. CASE DedupeChunk BY <1>0, <1>12 DEF DedupeChunk, Redirected, NextHolder
<1>13. ~DedupeShort BY DEF DedupeShort
<1>15. ~RedirectTail BY <1>0 DEF RedirectTail
<1>16. ~Verify BY <1>0 DEF Verify, NextHolder
<1>17. ~CheckReleased BY <1>0 DEF CheckReleased
<1> QED BY <1>1, <1>2, <1>3, <1>4, <1>5, <1>6, <1>7, <1>8, <1>9, <1>11, <1>12, <1>13,
           <1>15, <1>16, <1>17
     DEF ToolNext

\* Once things are moved the references stay those found.
LEMMA LateFrom ==
    ASSUME ToolNext, pc' \in Late
    PROVE  pc \in Late \union {"before"} /\ refs' = refs
<1>0. \A out : ~Stop(out) BY StopEnds DEF Late
<1>1. pc' # "done" BY DEF Late
<1>2. ~LogicalIno BY <1>0 DEF LogicalIno, Late
<1>3. ~Collect BY <1>0 DEF Collect, NextHolder, Late
<1>4. ~Judge BY <1>0 DEF Judge, Late
<1>5. ~InodePath BY <1>0 DEF InodePath, Late
<1>6. ~Inspect BY <1>0 DEF Inspect, Late
<1>7. CASE Before BY <1>0, <1>7 DEF Before, lookup
<1>8. CASE Onward BY <1>8 DEF Onward
<1> QED BY <1>1, <1>2, <1>3, <1>4, <1>5, <1>6, <1>7, <1>8, ToolOnward

LEMMA NextStagedQ ==
    ASSUME TInv, LookQ, FitQ, FillQ, StagedQ, Faults = {}, ToolNext
    PROVE  StagedQ'
<1>0. Inv /\ FsOK /\ LookOK /\ FsOK' BY NextT DEF TInv, Next
<1>1. ASSUME pc' \in Late PROVE Content'
  <2>1. pc \in Late \union {"before"} /\ refs' = refs BY <1>1, LateFrom
  <2>2. Content BY <1>0, <2>1, ContentEarly DEF StagedQ, Early
  <2> QED BY <2>1, <2>2, ContentKept
<1>2. CASE pc' \notin {"redirect", "dedupe", "tail"} BY <1>1, <1>2 DEF StagedQ
<1>3. CASE Stage
  <2>1. /\ pc' = "redirect"
        /\ \A s \in DOMAIN disk'[temp'.addr], o \in Offsets :
              disk'[temp'.addr][s][o] = disk'[Ext][copy'.start \div SectorSize + s][o]
    BY <1>3, StageStaged
  <2> QED BY <1>1, <2>1 DEF StagedQ
<1>4. CASE FinishHolder /\ pc' = "tail"
  <2>1. /\ HoldsTail(cur)' /\ temp'.size = Pos(1, before'[cur'].size % SectorSize)
        /\ \A o \in Offsets : Pos(TailSector(cur)', o) < files'[cur'].size =>
             disk'[temp'.addr][0][o] = Byte(cur, TailSector(cur), o)'
    BY <1>4, FinishStaged
  <2> QED BY <1>1, <1>4, <2>1 DEF StagedQ
<1>5. CASE pc' \in {"redirect", "dedupe", "tail"} /\ ~Stage /\ ~FinishHolder
  <2>1. pc \in {"redirect", "dedupe"} /\ pc' # "tail" /\ UNCHANGED <<disk, temp, copies>>
    BY <1>5, StagedKept
  <2>2. copy' = copy BY <2>1, SameCopy
  <2>3. \A s \in DOMAIN disk'[temp'.addr], o \in Offsets :
           disk'[temp'.addr][s][o] = disk'[Ext][copy'.start \div SectorSize + s][o]
    BY <2>1, <2>2 DEF StagedQ
  <2> QED BY <1>1, <2>1, <2>3 DEF StagedQ
<1>6. FinishHolder => pc' \in {"done", "tail", "verify"} BY StopEnds DEF FinishHolder
<1> QED BY <1>2, <1>3, <1>4, <1>5, <1>6

\* A call finds what was staged to be what the file holds.
LEMMA CallAccepted ==
    ASSUME TInv, FitQ, MoveQ, StagedQ, Faults = {}, DedupeChunk
    PROVE  pc' # "done"
<1>0. Inv /\ FsOK /\ LookOK /\ FillOK /\ StageOK BY DEF TInv
<1>1. pc = "dedupe" BY DEF DedupeChunk
<1>2. call \in calls BY <1>0, <1>1, DedupeIs
<1>3. call \in Chunks(cur) BY <1>1, <1>2 DEF MoveQ
<1>4. cur \in Files /\ cur \in Holders BY <1>0, <1>1, CurIs
<1>5. before[cur].size = files[cur].size /\ files[cur].size \in Nat
  BY <1>0, <1>1, <1>4, SizeIs DEF FitQ, Late, Verified
<1>6. copies # {} BY <1>0, <1>1 DEF StageOK
<1>7. PICK a \in Nat, b \in Nat : a < b /\ b <= ExtentSectors /\ copy.start = Pos(a, 0)
                                   /\ copy.end = Pos(b, 0)
                                   /\ (copy.end - copy.start) \div SectorSize = b - a
  BY <1>0, <1>6, CopySectors
<1>8. Pos(call.at, call.len) <= files[cur].size /\ call.at \in Nat /\ call.sec \in Nat
  <2>1. RefSet(refs[cur]) BY <1>0, <1>4 DEF LookOK
  <2>2. PICK h \in Nat, e \in Nat, n \in Nat :
           /\ n >= 1 /\ Has(cur, h, e, n, a, b) /\ call = Chunk(cur, h, e, n, a, b)
    BY <1>3, <1>4, <1>5, <1>7, <2>1, ChunksAre
  <2> DEFINE l == From(e, a)
             t == Upto(e, n, b)
  <2>3. l = From(e, a) /\ t = Upto(e, n, b) OBVIOUS
  <2> HIDE DEF l, t
  <2>4. ChunkLies(cur, h, e, n, a, b, call, l, t) BY <1>5, <2>2, <2>3, ChunkFacts
  <2>5. Pos(call.at, 0) + call.len <= before[cur].size /\ call.at \in Nat /\ call.len \in Nat
        /\ call.sec \in Nat
    BY <2>4 DEF ChunkLies
  <2>6. Pos(call.at, call.len) = Pos(call.at, 0) + call.len BY <2>5, BtrfsAssumption DEF Pos
  <2> QED BY <1>5, <2>5, <2>6
<1> DEFINE d == DedupeSectors(cur, call, temp)
<1>9. Moves(cur, call) = {d} BY DEF Moves
<1>10. ASSUME NEW i \in Sectors, NEW o \in Offsets, i \in call.at .. call.at + d - 1,
              Pos(i, o) < files[cur].size
       PROVE  Byte(cur, i, o) = disk[temp.addr][call.sec + (i - call.at)][o]
  <2> DEFINE s == call.sec + (i - call.at)
  <2>1. i \in Int /\ call.at <= i /\ i < call.at + d /\ s \in Nat
    <3>1. d \in Int
      <4>1. IsCall(call) BY <1>0, <1>1, DedupeIs
      <4>2. call.len \div SectorSize \in Nat BY <4>1, PosDiv DEF IsCall
      <4> QED BY <4>2 DEF DedupeSectors
    <3> HIDE DEF d
    <3> QED BY <1>8, <1>10, <3>1 DEF Sectors
  <2>2. PICK x \in Secs : /\ Holds(cur, i, x) /\ In(copy, x)
                          /\ copy.start + Pos(s, 0) = Pos(x, 0)
    BY <1>0, <1>3, <1>4, <1>5, <1>6, <2>1, ChunkSectors
  <2>3. Byte(cur, i, o) = disk[Ext][x][o] BY <1>1, <1>4, <1>10, <2>2 DEF StagedQ, Content, Late
  <2> HIDE DEF s
  <2>4. x \in Nat BY DEF Secs
  <2>5. x = a + s
    <3>1. Pos(a, 0) + Pos(s, 0) = Pos(a + s, 0) BY <2>1, PosSum
    <3>2. Pos(a + s, 0) = Pos(x, 0) BY <1>7, <2>2, <3>1
    <3>3. a + s \in Int BY <2>1
    <3> QED BY <2>4, <3>2, <3>3, PosSum
  <2>6. x < b
    <3>1. Pos(x, 0) < Pos(b, 0) BY <1>7, <2>2 DEF In
    <3> QED BY <2>4, <3>1, PosLess
  <2>7. s \in DOMAIN disk[temp.addr]
    <3>1. DOMAIN disk[temp.addr] = 0 .. (b - a) - 1 BY <1>0, <1>1, <1>7 DEF StageOK
    <3> QED BY <2>1, <2>5, <2>6, <3>1
  <2>8. copy.start \div SectorSize = a BY <1>7, DivPos
  <2>9. disk[temp.addr][s][o] = disk[Ext][a + s][o] BY <1>1, <2>7, <2>8 DEF StagedQ
  <2> QED BY <2>3, <2>5, <2>9 DEF s
<1>11. ~DedupeRefused(cur, call, d, temp)
  <2> HIDE DEF d
  <2>1. ~(Pos(call.at, call.len) > files[cur].size)
    <3>1. Pos(call.at, call.len) \in Int
      <4>1. IsCall(call) BY <1>0, <1>1, DedupeIs
      <4> QED BY <4>1, BtrfsAssumption DEF IsCall, Pos
    <3> QED BY <1>5, <1>8, <3>1
  <2> QED BY <1>10, <2>1 DEF DedupeRefused
<1>12. /\ calls' = {} => Redirected
       /\ calls' # {} => UNCHANGED pc
  <2> HIDE DEF d
  <2> QED BY <1>9, <1>11 DEF DedupeChunk
<1>13. Redirected => pc' \in {"redirect", "finish", "stage"} BY DEF Redirected, NextHolder
<1> QED BY <1>1, <1>12, <1>13

\* The part sector is moved.
LEMMA TailAccepted ==
    ASSUME TInv, FitQ, StagedQ, Faults = {}, RedirectTail
    PROVE  /\ pc' # "done" /\ TailSector(cur) \in Sectors /\ DedupeSectors(cur, TailCall, temp) = 1
           /\ HoldsTail(cur)
<1>0. Inv /\ FsOK /\ LookOK /\ FillOK /\ StageOK BY DEF TInv
<1>1. pc = "tail" BY DEF RedirectTail
<1>2. cur \in Files /\ cur \in Holders BY <1>0, <1>1, CurIs
<1>3. before[cur].size = files[cur].size /\ files[cur].size \in Nat
  BY <1>0, <1>1, <1>2, SizeIs DEF FitQ, Late, Verified
<1> DEFINE t == TailSector(cur)
           z == before[cur].size % SectorSize
           d == DedupeSectors(cur, TailCall, temp)
<1>4. /\ HoldsTail(cur) /\ temp.size = Pos(1, z)
      /\ \A o \in Offsets : Pos(t, o) < files[cur].size => disk[temp.addr][0][o] = Byte(cur, t, o)
  BY <1>1 DEF StagedQ
<1>5. t \in Sectors BY <1>0, <1>2, <1>3, <1>4, TailIsHeld
<1>6. t \in Nat /\ z \in Offsets /\ files[cur].size = Pos(t, 0) + z BY <1>0, <1>2, <1>3, TailAlone
<1>7. TailCall.at = t /\ TailCall.len = z /\ TailCall.sec = 0 BY DEF TailCall
<1>8. z # 0 BY <1>4 DEF HoldsTail
<1>9. Moves(cur, TailCall) = {d} BY DEF Moves
<1> HIDE DEF t, z
<1>10. Pos(t, z) = files[cur].size BY <1>6, PosParts
<1>11. d = 1
  <2>1. z \div SectorSize = 0 /\ z % SectorSize = z BY <1>6, ShortDiv
  <2>2. Pos(0 + 1, z) = temp.size BY <1>4
  <2> QED BY <1>7, <1>8, <1>10, <2>1, <2>2 DEF DedupeSectors
<1> HIDE DEF d
<1>12. ~DedupeRefused(cur, TailCall, d, temp)
  <2>1. ~(Pos(t, z) > files[cur].size) BY <1>3, <1>10
  <2>2. ASSUME NEW i \in Sectors, NEW o \in Offsets, i \in t .. t + d - 1, Pos(i, o) < files[cur].size
        PROVE  Byte(cur, i, o) = disk[temp.addr][0 + (i - t)][o]
    <3>1. i = t /\ 0 + (i - t) = 0 BY <1>6, <1>11, <2>2
    <3> QED BY <1>4, <2>2, <3>1
  <2> QED BY <1>7, <2>1, <2>2 DEF DedupeRefused
<1>13. pc' = "verify" BY <1>9, <1>12 DEF RedirectTail, TailCall
<1> QED BY <1>4, <1>5, <1>11, <1>13 DEF t, d

-----------------------------------------------------------------------------
(* What still leads to the extent is still to be moved.                    *)

\* The holders whose part sector has been seen to.
TailDone(f) == pc = "check" \/ f \notin todo \/ (pc = "verify" /\ f = cur)
TailFree == \A f \in Holders : HoldsTail(f) /\ TailDone(f) => files[f].map[TailSector(f)].addr # Ext

\* What still leads to the extent was found to, and is to be moved: with a stretch
\* that has still to be redirected, or as the last sector of a file.
FoundYet  == \A f \in Files, i \in Sectors : files[f].map[i].addr = Ext =>
                \E x \in Secs : Holds(f, i, x)
CopiedYet == \A f \in Files, i \in Sectors, x \in Secs :
                HasWhole(f, i, x) /\ files[f].map[i].addr = Ext => Copied(x)
RestQ == /\ pc \in Late => FoundYet /\ CopiedYet
         /\ pc \in Ending => copies = {} /\ TailFree

\* How the tool goes on once it moves things.
Begins   == /\ pc = "before" /\ pc' \in {"stage", "finish"} /\ UNCHANGED <<files, disk, copies>>
            /\ todo' = Holders /\ (pc' = "finish" => copies = {})
Moving   == {"stage", "redirect", "dedupe"}
MovesOn  == pc \in Moving /\ pc' \in Moving \ {"stage"} /\ copies' = copies
Finishes == pc \in {"redirect", "dedupe"} /\ Redirected /\ AllMoved /\ UNCHANGED <<temp, found>>
EndStep  == FinishHolder \/ RedirectTail \/ Verify \/ CheckReleased

LEMMA LateSteps ==
    ASSUME TInv, FitQ, MoveQ, Faults = {}, ToolNext, pc' \in Late
    PROVE  Begins \/ MovesOn \/ Finishes \/ EndStep
<1>0. pc' # "done" /\ \A out : ~Stop(out) BY StopEnds DEF Late
<1>1. ~LogicalIno BY <1>0 DEF LogicalIno, Late
<1>2. ~Collect BY <1>0 DEF Collect, NextHolder, Late
<1>3. ~Judge BY <1>0 DEF Judge, Late
<1>4. ~InodePath BY <1>0 DEF InodePath, Late
<1>5. ~Inspect BY <1>0 DEF Inspect, Late
<1>6. ~FillOpen BY <1>0 DEF FillOpen, Late
<1>7. ~FillRead BY <1>0 DEF FillRead, Late
<1>8. ~EndStretch BY <1>0 DEF EndStretch, Late
<1>9. CASE Before BY <1>0, <1>9 DEF Before, NextHolder, Late, Begins, fsvars
<1>10. CASE Stage BY <1>10 DEF Stage, MovesOn, Moving
<1>11. CASE RedirectOpen
  <2>1. pc' = "dedupe" \/ (Redirected /\ AllMoved) BY <1>0, <1>11, RedirectOpenMoves
  <2>2. pc = "redirect" /\ UNCHANGED <<temp, found>> BY <1>0, <1>11 DEF RedirectOpen, lookup
  <2>3. pc' = "dedupe" => copies' = copies
    BY <1>0, <1>11 DEF RedirectOpen, Redirected, NextHolder
  <2> QED BY <2>1, <2>2, <2>3 DEF MovesOn, Moving, Finishes
<1>12. CASE DedupeChunk
  <2>1. pc' = "dedupe" \/ (Redirected /\ AllMoved) BY <1>0, <1>12, DedupeChunkMoves
  <2>2. pc = "dedupe" /\ UNCHANGED <<temp, found>> BY <1>0, <1>12 DEF DedupeChunk, lookup
  <2>3. pc' = "dedupe" => copies' = copies
    BY <1>0, <1>12 DEF DedupeChunk, Redirected, NextHolder
  <2> QED BY <2>1, <2>2, <2>3 DEF MovesOn, Moving, Finishes
<1>13. ~DedupeShort BY DEF DedupeShort
<1> QED BY <1>1, <1>2, <1>3, <1>4, <1>5, <1>6, <1>7, <1>8, <1>9, <1>10, <1>11, <1>12, <1>13
     DEF ToolNext, EndStep

\* The steps once every stretch has been redirected.
LEMMA EndSteps ==
    ASSUME EndStep, pc' # "done"
    PROVE  /\ pc \in Ending /\ pc' \in Ending /\ UNCHANGED <<copies, refs, found, before, name>>
           /\ RedirectTail \/ files' = files
           /\ FinishHolder => /\ todo' = todo
                              /\ pc' = "verify" => ~HoldsTail(cur)
                              /\ pc' \in {"tail", "verify"}
           /\ RedirectTail => todo' = todo /\ pc' = "verify"
           /\ Verify => \/ pc' = "finish" /\ todo' = todo \ {cur}
                        \/ pc' = "check" /\ todo = {cur}
           /\ CheckReleased => pc' = "check"
<1> USE DEF Ending, lookup, fsvars
<1>0. \A out : ~Stop(out) BY StopEnds
<1>1. CASE FinishHolder BY <1>0, <1>1 DEF FinishHolder, RedirectTail, Verify, CheckReleased
<1>2. CASE RedirectTail BY <1>0, <1>2 DEF RedirectTail, FinishHolder, Verify, CheckReleased
<1>3. CASE Verify BY <1>0, <1>3 DEF Verify, NextHolder, FinishHolder, RedirectTail, CheckReleased
<1>4. CASE CheckReleased BY <1>0, <1>4 DEF CheckReleased, FinishHolder, RedirectTail, Verify
<1> QED BY <1>1, <1>2, <1>3, <1>4 DEF EndStep

LEMMA EndTails ==
    ASSUME TInv, Base, FitQ, StagedQ, TailFree, Faults = {}, ToolNext, EndStep, pc' # "done"
    PROVE  TailFree'
<1>0. Inv /\ FsOK /\ LookOK /\ FillOK /\ StageOK BY DEF TInv
<1>1. /\ pc \in Ending /\ UNCHANGED <<copies, refs, found, before>>
      /\ RedirectTail \/ files' = files
  BY EndSteps
<1>2. Holders' = Holders /\ \A f : HoldsTail(f)' = HoldsTail(f) /\ TailSector(f)' = TailSector(f)
  <2>1. Holders' = Holders BY <1>1 DEF Holders
  <2>2. \A f : TailSector(f)' = TailSector(f) BY <1>1 DEF TailSector
  <2>3. \A f : HoldsTail(f)' = HoldsTail(f) BY <1>1, <2>2 DEF HoldsTail
  <2> QED BY <2>1, <2>2, <2>3
<1>3. todo' = todo => cur' = cur BY DEF cur
<1>4. Letting BY ToolBase
<1> SUFFICES ASSUME NEW f \in Holders, HoldsTail(f), TailDone(f)'
             PROVE  files'[f].map[TailSector(f)].addr # Ext
  BY <1>2 DEF TailFree
<1>5. f \in Files BY DEF Holders
<1>6. pc # "done" /\ pc # "resolve" BY <1>1 DEF Ending
<1>7. before[f].size = files[f].size BY <1>1 DEF FitQ, Ending, Late, Verified
<1>8. TailSector(f) \in Sectors BY <1>0, <1>5, <1>7, TailIsHeld
<1>9. CASE TailDone(f)
  <2>1. files[f].map[TailSector(f)].addr # Ext BY <1>9 DEF TailFree
  <2> QED BY <1>4, <1>5, <1>8, <2>1 DEF Letting, LetsGo
<1>10. CASE ~TailDone(f)
  <2>1. CASE FinishHolder
    <3>1. /\ todo' = todo /\ pc' \in {"tail", "verify"} /\ (pc' = "verify" => ~HoldsTail(cur))
      BY <2>1, EndSteps DEF EndStep
    <3> QED BY <1>3, <1>10, <3>1 DEF TailDone
  <2>2. CASE RedirectTail
    <3>1. todo' = todo /\ pc' = "verify" BY <2>2, EndSteps DEF EndStep
    <3>2. f = cur BY <1>3, <1>10, <3>1 DEF TailDone
    <3>3. DedupeSectors(cur, TailCall, temp) = 1 BY <2>2, TailAccepted
    <3>4. Dedupe(cur, TailCall, 1, temp) BY <2>2, <3>3, TailMoves
    <3>5. TailCall.at = TailSector(cur) BY DEF TailCall
    <3>6. TailSector(cur) \in TailCall.at .. TailCall.at + 1 - 1 BY <1>8, <3>2, <3>5 DEF Sectors
    <3>7. files'[cur].map[TailSector(cur)].addr = temp.addr
      BY <1>0, <1>5, <1>8, <3>2, <3>4, <3>6, DedupeSteps
    <3>8. temp.addr # Ext
      <4>1. pc = "tail" BY <2>2 DEF RedirectTail
      <4> QED BY <4>1 DEF Base, ExtOK, Deduping
    <3> QED BY <3>2, <3>7, <3>8
  <2>3. CASE Verify
    <3>1. \/ pc' = "finish" /\ todo' = todo \ {cur}
          \/ pc' = "check" /\ todo = {cur}
      BY <2>3, EndSteps DEF EndStep
    <3>2. pc = "verify" BY <2>3 DEF Verify
    <3> QED BY <1>10, <3>1, <3>2 DEF TailDone
  <2>4. CASE CheckReleased BY <1>10, <2>4 DEF TailDone, CheckReleased
  <2> QED BY <2>1, <2>2, <2>3, <2>4 DEF EndStep
<1> QED BY <1>9, <1>10

LEMMA NextRestQ ==
    ASSUME TInv, Base, LookQ, FitQ, FillQ, MoveQ, StagedQ, RestQ, Faults = {}, ToolNext
    PROVE  RestQ'
<1>0. Inv /\ FsOK /\ LookOK /\ FillOK /\ StageOK BY DEF TInv
<1> SUFFICES ASSUME pc' \in Late PROVE RestQ' BY DEF RestQ, Ending, Late
<1>1. pc \in Late \union {"before"} /\ refs' = refs BY LateFrom
<1>2. \A f \in Files : \A i, x : Holds(f, i, x)' = Holds(f, i, x) /\ HasWhole(f, i, x)' = HasWhole(f, i, x)
  BY <1>0, <1>1, HasKept
<1>3. Letting BY ToolBase
<1>4. FoundYet /\ CopiedYet
  <2>1. CASE pc \in Late BY <2>1 DEF RestQ
  <2>2. CASE pc = "before"
    <3>1. \A f \in Files : refs[f] = Items(files[f].map) BY <2>2 DEF LookQ, Early
    <3>2. FoundYet
      <4> SUFFICES ASSUME NEW f \in Files, NEW i \in Sectors, files[f].map[i].addr = Ext
                   PROVE  \E x \in Secs : Holds(f, i, x)
        BY DEF FoundYet
      <4>1. Holds(f, i, files[f].map[i].sec) /\ files[f].map[i].sec \in Secs
        BY <1>0, <3>1, HeldIsThere
      <4> QED BY <4>1
    <3>3. CopiedYet BY <2>2 DEF CopiedYet, FillQ, Live
    <3> QED BY <3>2, <3>3
  <2> QED BY <1>1, <2>1, <2>2
<1>5. FoundYet'
  <2> SUFFICES ASSUME NEW f \in Files, NEW i \in Sectors, files'[f].map[i].addr = Ext
               PROVE  \E x \in Secs : Holds(f, i, x)'
    BY DEF FoundYet
  <2>1. files[f].map[i].addr = Ext BY <1>3 DEF Letting, LetsGo
  <2> QED BY <1>2, <1>4, <2>1 DEF FoundYet
<1>6. ASSUME NEW f \in Files, NEW i \in Sectors, NEW x \in Secs,
             HasWhole(f, i, x)', files'[f].map[i].addr = Ext
      PROVE  HasWhole(f, i, x) /\ Copied(x)
  <2>1. HasWhole(f, i, x) /\ files[f].map[i].addr = Ext BY <1>2, <1>3, <1>6 DEF Letting, LetsGo
  <2> QED BY <1>4, <2>1 DEF CopiedYet
<1>7. ASSUME copies' = copies PROVE CopiedYet'
  <2>1. \A x : Copied(x)' = Copied(x) BY <1>7 DEF Copied, In
  <2> QED BY <1>6, <2>1 DEF CopiedYet
<1>8. CASE Begins
  <2>1. pc' \in Ending => copies' = {} BY <1>8 DEF Begins, Ending
  <2>2. pc' = "finish" => TailFree'
    <3>1. todo' = Holders' /\ pc' # "check" /\ pc' # "verify"
      <4>1. found' = found
        <5>1. ToolNext => LogicalIno \/ Collect \/ Visits BY ToolVisits
        <5>2. ~LogicalIno /\ ~Collect BY <1>8 DEF Begins, LogicalIno, Collect
        <5> QED BY <5>1, <5>2 DEF Visits
      <4> QED BY <1>8, <4>1 DEF Begins, Holders
    <3> QED BY <3>1 DEF TailFree, TailDone
  <2>3. CopiedYet' BY <1>7, <1>8 DEF Begins
  <2>4. pc' \in Ending => pc' = "finish" BY <1>8 DEF Begins, Ending
  <2> QED BY <1>5, <2>1, <2>2, <2>3, <2>4 DEF RestQ
<1>9. CASE MovesOn
  <2>1. CopiedYet' /\ pc' \notin Ending BY <1>7, <1>9 DEF MovesOn, Moving, Ending
  <2> QED BY <1>5, <2>1 DEF RestQ
<1>10. CASE Finishes
  <2>1. CASE todo = {cur}
    <3>1. /\ copies' = copies \ {copy} /\ todo' = Holders
          /\ pc' = IF copies = {copy} THEN "finish" ELSE "stage"
      BY <1>10, <2>1 DEF Finishes, Redirected, NextHolder
    <3>2. temp.addr # Ext BY <1>10 DEF Finishes, Base, ExtOK, Deduping
    <3>3. CopiedYet'
      <4> SUFFICES ASSUME NEW f \in Files, NEW i \in Sectors, NEW x \in Secs,
                          HasWhole(f, i, x)', files'[f].map[i].addr = Ext
                   PROVE  Copied(x)'
        BY DEF CopiedYet
      <4>1. HasWhole(f, i, x) /\ Copied(x) BY <1>6
      <4>2. ~In(copy, x)
        <5> SUFFICES ASSUME In(copy, x) PROVE FALSE OBVIOUS
        <5>1. AtCopy(files'[f].map[i], x, copy, temp.addr)
          BY <1>10, <2>1, <4>1 DEF Finishes, AllMoved
        <5> QED BY <3>2, <5>1 DEF AtCopy
      <4>3. PICK c \in copies : In(c, x) BY <4>1 DEF Copied
      <4>4. c \in copies' BY <3>1, <4>2, <4>3
      <4> QED BY <4>3, <4>4 DEF Copied, In
    <3>4. pc' \in Ending => copies' = {} /\ pc' = "finish" BY <3>1 DEF Ending
    <3>5. pc' = "finish" => TailFree'
      <4>1. todo' = Holders' BY <1>10, <3>1 DEF Finishes, Holders
      <4> QED BY <4>1 DEF TailFree, TailDone
    <3> QED BY <1>5, <3>3, <3>4, <3>5 DEF RestQ
  <2>2. CASE todo # {cur}
    <3>1. copies' = copies /\ pc' = "redirect" BY <1>10, <2>2 DEF Finishes, Redirected, NextHolder
    <3> QED BY <1>5, <1>7, <3>1 DEF RestQ, Ending
  <2> QED BY <2>1, <2>2
<1>11. CASE EndStep
  <2>1. pc' # "done" BY DEF Late
  <2>2. pc \in Ending /\ pc' \in Ending /\ copies' = copies BY <1>11, <2>1, EndSteps
  <2>3. TailFree' BY <1>11, <2>1, <2>2, EndTails DEF RestQ
  <2> QED BY <1>5, <1>7, <2>2, <2>3 DEF RestQ
<1> QED BY <1>8, <1>9, <1>10, <1>11, LateSteps

\* A sector that a file ends in is its last one.
LEMMA PartIsTail ==
    ASSUME FsOK, LookOK, NEW f \in Files, before[f].size = files[f].size, ~PastEnd(f),
           NEW i \in Sectors, NEW x \in Secs, Holds(f, i, x), ~Whole(f, i)
    PROVE  i = TailSector(f) /\ HoldsTail(f)
<1> DEFINE z == files[f].size
           c == (z + SectorSize - 1) \div SectorSize
<1>1. z \in Nat /\ SectorSize \in Nat /\ SectorSize > 0 /\ i \in Nat /\ i + 1 \in Int
  BY SizeIs, BtrfsAssumption DEF Sectors
<1>2. PICK r \in refs[f] : Pos(i, 0) \in r.file_offset .. r.file_offset + r.num_bytes - 1
  BY DEF Holds
<1>3. IsRef(r) BY DEF LookOK, RefSet
<1>4. PICK h \in Nat, e \in Nat, n \in Nat : r = Ref(h, e, n) BY <1>3 DEF IsRef
<1>5. r.file_offset = Pos(h, 0) /\ r.num_bytes = Pos(n, 0) BY <1>4 DEF Ref
<1>6. Pos(h, 0) + Pos(n, 0) = Pos(h + n, 0) BY PosSum
<1>7. /\ Pos(h, 0) \in Int /\ Pos(n, 0) \in Int /\ Pos(i, 0) \in Int /\ Pos(h + n, 0) \in Int
      /\ Pos(i + 1, 0) \in Int /\ h + n \in Int
  <2>1. h + n \in Int OBVIOUS
  <2> QED BY <1>1, <2>1, PosInt
<1>8. i + 1 <= h + n
  <2>1. Pos(i, 0) < Pos(h + n, 0) BY <1>2, <1>5, <1>6, <1>7
  <2>2. i < h + n BY <1>1, <1>7, <2>1, PosLess
  <2> QED BY <1>1, <1>7, <2>2
<1>9. c \in Nat /\ Pos(c, 0) <= z + SectorSize - 1
  <2> DEFINE y == z + SectorSize - 1
  <2>1. y \in Nat BY <1>1
  <2> HIDE DEF y
  <2>2. y \div SectorSize \in Nat /\ Pos(y \div SectorSize, 0) <= y BY <2>1, PosDiv
  <2> QED BY <2>2 DEF y
<1>10. r.file_offset + r.num_bytes <= Pos(c, 0)
  <2>1. ~(r.file_offset + r.num_bytes > Pos(c, 0)) BY DEF PastEnd
  <2> HIDE DEF c
  <2>2. Pos(c, 0) \in Int BY <1>9, PosInt
  <2> QED BY <1>5, <1>6, <1>7, <2>1, <2>2
<1> HIDE DEF c
<1>11. Pos(i, 0) < z
  <2>1. Pos(h + n, 0) <= Pos(c, 0) BY <1>5, <1>6, <1>10
  <2>2. Pos(i + 1, 0) <= Pos(h + n, 0) BY <1>1, <1>7, <1>8, PosUpTo
  <2>3. Pos(i + 1, 0) = Pos(i, 0) + SectorSize BY <1>1, PosSum
  <2>4. Pos(c, 0) \in Int BY <1>9, PosInt
  <2> QED BY <1>1, <1>7, <1>9, <2>1, <2>2, <2>3, <2>4
<1>12. z < Pos(i + 1, 0) BY <1>1, <1>7 DEF Whole
<1>13. z = before[f].size OBVIOUS
<1> HIDE DEF z
<1>14. z \div SectorSize = i
  <2>1. Pos(i, 0) <= z BY <1>1, <1>7, <1>11
  <2> QED BY <1>1, <1>12, <2>1, DivPos
<1>15. TailSector(f) = i BY <1>13, <1>14 DEF TailSector
<1>16. z % SectorSize # 0
  <2>1. z = Pos(z \div SectorSize, 0) + (z % SectorSize) BY <1>1, PosDiv
  <2> QED BY <1>1, <1>7, <1>11, <1>14, <2>1
<1> QED BY <1>2, <1>13, <1>15, <1>16 DEF HoldsTail

\* When it comes to the check nothing leads to the extent any more.
LEMMA CheckFinds ==
    ASSUME TInv, FitQ, RestQ, pc = "check"
    PROVE  \A f \in Files : Released(f)
<1>0. FsOK /\ LookOK BY DEF TInv
<1> SUFFICES ASSUME NEW f \in Files, NEW i \in Sectors, files[f].map[i].addr = Ext PROVE FALSE
  BY DEF Released
<1>1. FoundYet /\ CopiedYet /\ copies = {} /\ TailFree BY DEF RestQ, Late, Ending
<1>2. PICK x \in Secs : Holds(f, i, x) BY <1>1 DEF FoundYet
<1>3. f \in Holders
  <2>1. i \in Int /\ x \in Int BY DEF Sectors, Secs
  <2> QED BY <1>0, <1>2, <2>1, HoldsRange
<1>4. ~Whole(f, i)
  <2> SUFFICES ASSUME Whole(f, i) PROVE FALSE OBVIOUS
  <2>1. HasWhole(f, i, x) BY <1>2 DEF HasWhole
  <2> QED BY <1>1, <2>1 DEF CopiedYet, Copied
<1>5. Fit(f) /\ Verified(f) BY <1>3 DEF FitQ, Acting, Late
<1>6. before[f].size = files[f].size /\ ~PastEnd(f) BY <1>5 DEF Fit, Verified
<1>7. i = TailSector(f) /\ HoldsTail(f) BY <1>0, <1>2, <1>4, <1>6, PartIsTail
<1>8. TailDone(f) BY DEF TailDone
<1> QED BY <1>1, <1>3, <1>7, <1>8 DEF TailFree

\* How a rewrite that nobody disturbs ends.
DoneQ == pc = "done" => /\ outcome \notin Bad
                        /\ outcome = "Rewritten" => \A f \in Files : Items(files[f].map) = {}

LEMMA StopSays == \A out : Stop(out) => outcome' = out /\ files' = files
BY DEF Stop, fsvars

LEMMA NextDoneQ ==
    ASSUME TInv, LookQ, FitQ, FillQ, MoveQ, StagedQ, RestQ, Faults = {}, ToolNext
    PROVE  DoneQ'
<1>0. Inv /\ FsOK /\ LookOK /\ FillOK /\ StageOK BY DEF TInv
<1> SUFFICES ASSUME pc' = "done" PROVE DoneQ' BY DEF DoneQ
<1>a. ASSUME outcome' \notin Bad, outcome' # "Rewritten" PROVE DoneQ' BY <1>a DEF DoneQ
<1>b. pc \notin {"resolve", "done"} => cur \in Files /\ cur \in Holders BY <1>0, CurIs
<1>1. ~LogicalIno BY <1>0, LogicalInoQ
<1>2. ~Collect BY <1>0, CollectQ
<1>3. CASE Judge
  <2> DEFINE live == live_uncompressed_bytes(AllRefs)
             free == disk_free_bytes(live, DiskBytes, Pos(ExtentSectors, 0))
             reason == not_worth_rewriting(free, live)
  <2>1. \/ Stop("NothingToFree") \/ (reason # "none" /\ Stop(reason))
    BY <1>3 DEF Judge
  <2>2. reason \in {"TooLittleToFree", "TooMuchToCopy", "none"}
    <3> HIDE DEF live, free
    <3> QED BY DEF not_worth_rewriting
  <2> HIDE DEF reason
  <2> QED BY <1>a, <2>1, <2>2, StopSays DEF Bad
<1>4. CASE InodePath
  <2>1. Stop("Deleted") BY <1>4 DEF InodePath
  <2> QED BY <1>a, <2>1, StopSays DEF Bad
<1>5. CASE Inspect
  <2>1. Opens(cur) BY <1>5 DEF FitQ, Inspect
  <2>2. Stop("NoDataCow") \/ Stop("PastEnd") \/ Stop("WouldRewrite") BY <1>5, <2>1 DEF Inspect
  <2> QED BY <1>a, <2>2, StopSays DEF Bad
<1>6. ~FillOpen BY FillOpenQ
<1>7. ~FillRead
  <2> SUFFICES ASSUME FillRead PROVE FALSE OBVIOUS
  <2>1. pc \in Early BY DEF FillRead, Early
  <2>2. Content BY <1>0, <2>1, ContentEarly
  <2> QED BY <2>2, FillReadQ
<1>8. ~EndStretch BY EndStretchQ
<1>9. ~Before
  <2> SUFFICES ASSUME Before PROVE FALSE OBVIOUS
  <2>1. pc = "before" BY DEF Before
  <2>2. Opens(cur) BY <1>b, <2>1 DEF FitQ, Acting, Fit
  <2> QED BY <2>2 DEF Before, NextHolder
<1>10. ~Stage BY DEF Stage
<1>11. ~RedirectOpen
  <2> SUFFICES ASSUME RedirectOpen PROVE FALSE OBVIOUS
  <2>1. pc = "redirect" BY DEF RedirectOpen
  <2>2. Opens(cur) BY <1>b, <2>1 DEF FitQ, Acting, Late, Fit
  <2> QED BY <2>2 DEF RedirectOpen, Redirected, NextHolder
<1>12. ~DedupeChunk BY CallAccepted
<1>13. ~DedupeShort BY DEF DedupeShort
<1>14. ~FinishHolder
  <2> SUFFICES ASSUME FinishHolder PROVE FALSE OBVIOUS
  <2>1. pc = "finish" BY DEF FinishHolder
  <2>2. Opens(cur) /\ before[cur].size = files[cur].size
    BY <1>b, <2>1 DEF FitQ, Acting, Late, Fit, Verified
  <2>3. files[cur].size \in Nat BY <1>0, <1>b, <2>1, SizeIs
  <2>4. ~(files[cur].size < before[cur].size) BY <2>2, <2>3
  <2> QED BY <2>2, <2>4 DEF FinishHolder
<1>15. ~RedirectTail BY TailAccepted
<1>16. ~Verify
  <2> SUFFICES ASSUME Verify PROVE FALSE OBVIOUS
  <2>1. pc = "verify" BY DEF Verify
  <2>2. Verified(cur) BY <1>b, <2>1 DEF FitQ, Late
  <2> QED BY <2>2 DEF Verify, NextHolder
<1>17. CASE CheckReleased
  <2>1. pc = "check" BY <1>17 DEF CheckReleased
  <2>2. \A f \in Files : Items(files[f].map) = {} BY <2>1, CheckFinds, ReleasedHasNone
  <2>3. ~StillHolds(cur) BY <1>b, <2>1, <2>2 DEF StillHolds
  <2>4. Stop("Rewritten") BY <1>17, <2>1, <2>3 DEF CheckReleased
  <2>5. outcome' = "Rewritten" /\ files' = files BY <2>4, StopSays
  <2> QED BY <2>2, <2>5 DEF DoneQ, Bad
<1> QED BY <1>1, <1>2, <1>3, <1>4, <1>5, <1>6, <1>7, <1>8, <1>9, <1>10, <1>11, <1>12,
           <1>13, <1>14, <1>15, <1>16, <1>17
     DEF ToolNext

-----------------------------------------------------------------------------
(* Every sector staged ends up referenced.                                 *)

\* The sectors that will not be moved again.
Kept(f, i) == \/ \E x \in Secs : HasWhole(f, i, x) /\ ~Copied(x)
              \/ /\ pc \in Ending /\ f \in Holders /\ TailDone(f)
                 /\ i = TailSector(f) /\ ~Whole(f, i)
Leads(f, i, a, s) == files[f].map[i].addr = a /\ files[f].map[i].sec = s
Refd(a, s) == \E f \in Files, i \in Sectors : Leads(f, i, a, s) /\ Kept(f, i)

\* Every sector staged is one that a file leads to for good, but for those of the
\* temporary at hand.
KeptQ ==
    /\ pc \in Late => \A a \in Len(InitDisk) + 1 .. Len(disk) : \A s \in DOMAIN disk[a] :
          (a = temp.addr /\ pc \in Deduping) \/ Refd(a, s)
    /\ pc = "done" /\ outcome = "Rewritten" =>
          \A a \in Len(InitDisk) + 1 .. Len(disk) : \A s \in DOMAIN disk[a] :
             \E f \in Files, i \in Sectors : Leads(f, i, a, s)

LEMMA ToolMoves ==
    ASSUME ToolNext, Faults = {}, pc' # "done"
    PROVE  files' = files \/ DedupeChunk \/ RedirectTail
<1> USE DEF fsvars
<1>0. \A out : ~Stop(out) BY StopEnds
<1>1. CASE LogicalIno BY <1>0, <1>1 DEF LogicalIno
<1>2. CASE Collect BY <1>0, <1>2 DEF Collect
<1>3. CASE Judge BY <1>0, <1>3 DEF Judge
<1>4. CASE InodePath BY <1>0, <1>4 DEF InodePath
<1>5. CASE Inspect BY <1>0, <1>5 DEF Inspect
<1>6. CASE FillOpen BY <1>0, <1>6 DEF FillOpen
<1>7. CASE FillRead BY <1>0, <1>7 DEF FillRead
<1>8. CASE EndStretch BY <1>0, <1>8 DEF EndStretch
<1>9. CASE Before BY <1>0, <1>9 DEF Before
<1>10. CASE Stage BY <1>0, <1>10 DEF Stage
<1>11. CASE RedirectOpen BY <1>0, <1>11 DEF RedirectOpen
<1>13. ~DedupeShort BY DEF DedupeShort
<1>14. CASE FinishHolder BY <1>0, <1>14 DEF FinishHolder
<1>16. CASE Verify BY <1>0, <1>16 DEF Verify
<1>17. CASE CheckReleased BY <1>0, <1>17 DEF CheckReleased
<1> QED BY <1>1, <1>2, <1>3, <1>4, <1>5, <1>6, <1>7, <1>8, <1>9, <1>10, <1>11, <1>13, <1>14,
           <1>16, <1>17
     DEF ToolNext

\* A whole sector of no stretch that is left to redirect stays as it is.
LEMMA WholeStays ==
    ASSUME TInv, FitQ, MoveQ, Faults = {}, ToolNext, pc' # "done",
           NEW f \in Files, NEW i \in Sectors, NEW x \in Secs, HasWhole(f, i, x), ~Copied(x)
    PROVE  /\ files'[f].map[i].addr = files[f].map[i].addr
           /\ files'[f].map[i].sec = files[f].map[i].sec
<1>0. Inv /\ FsOK /\ LookOK /\ FillOK /\ StageOK BY DEF TInv
<1>1. CASE files' = files BY <1>1
<1>2. CASE RedirectTail
  <2>1. /\ cur \in Files /\ before[cur].size = files[cur].size
        /\ f # cur \/ i # TailSector(cur) =>
              /\ files'[f].map[i].addr = files[f].map[i].addr
              /\ files'[f].map[i].sec = files[f].map[i].sec
    BY <1>2, TailMoves
  <2>2. ~Whole(cur, TailSector(cur)) BY <1>0, <2>1, TailAlone
  <2>3. Whole(f, i) BY DEF HasWhole
  <2> QED BY <2>1, <2>2, <2>3
<1>3. CASE DedupeChunk
  <2> DEFINE d == DedupeSectors(cur, call, temp)
  <2>1. /\ pc = "dedupe" /\ call \in Chunks(cur) /\ cur \in Files
        /\ d \in Nat /\ call.at \in Nat /\ Dedupe(cur, call, d, temp)
    BY <1>3, CallMoves
  <2>2. copies # {} BY <1>0, <2>1 DEF StageOK
  <2>3. before[cur].size \in Nat BY <1>0, <2>1 DEF StageOK
  <2>4. f = cur => i \notin call.at .. call.at + d - 1
    <3> SUFFICES ASSUME f = cur, i \in call.at .. call.at + d - 1 PROVE FALSE OBVIOUS
    <3>1. i \in Int /\ x \in Int /\ call.at <= i /\ i < call.at + d BY <2>1 DEF Sectors, Secs
    <3>2. call \in Chunks(cur) /\ cur \in Files BY <2>1
    <3>3. PICK y \in Secs : In(copy, y) /\ \A z \in Int : Holds(cur, i, z) => z = y
      BY <1>0, <2>2, <2>3, <3>1, <3>2, ChunkSectors
    <3>4. x = y BY <3>1, <3>3 DEF HasWhole
    <3>5. copy \in copies BY <1>0, <2>2, CopySectors
    <3> QED BY <3>3, <3>4, <3>5 DEF Copied
  <2> HIDE DEF d
  <2>5. CASE f # cur BY <1>0, <2>1, <2>5, DedupeSteps
  <2>6. CASE f = cur BY <1>0, <2>1, <2>4, <2>6, DedupeSteps
  <2> QED BY <2>5, <2>6
<1> QED BY <1>1, <1>2, <1>3, ToolMoves

LEMMA KeptStays ==
    ASSUME TInv, FitQ, MoveQ, Faults = {}, ToolNext, pc \in Late, pc' \in Late,
           NEW f \in Files, NEW i \in Sectors, Kept(f, i)
    PROVE  /\ Kept(f, i)' /\ files'[f].map[i].addr = files[f].map[i].addr
           /\ files'[f].map[i].sec = files[f].map[i].sec
<1>0. Inv /\ FsOK /\ LookOK /\ FillOK /\ StageOK BY DEF TInv
<1>1. refs' = refs /\ pc' # "done" BY LateFrom DEF Late
<1>2. \A x : HasWhole(f, i, x)' = HasWhole(f, i, x) /\ Whole(f, i)' = Whole(f, i) BY <1>0, <1>1, HasKept
<1>3. Begins \/ MovesOn \/ Finishes \/ EndStep BY LateSteps
<1>4. copies' \subseteq copies
  <2>1. ~Begins BY DEF Begins, Late
  <2>2. CASE MovesOn BY <2>2 DEF MovesOn
  <2>3. CASE Finishes BY <2>3 DEF Finishes, Redirected
  <2>4. CASE EndStep BY <1>1, <2>4, EndSteps
  <2> QED BY <1>3, <2>1, <2>2, <2>3, <2>4
<1>5. ASSUME NEW x \in Secs, HasWhole(f, i, x), ~Copied(x)
      PROVE  /\ Kept(f, i)' /\ files'[f].map[i].addr = files[f].map[i].addr
             /\ files'[f].map[i].sec = files[f].map[i].sec
  <2>1. HasWhole(f, i, x)' BY <1>2, <1>5
  <2>2. ~Copied(x)' BY <1>4, <1>5 DEF Copied, In
  <2>3. Kept(f, i)' BY <2>1, <2>2 DEF Kept
  <2> QED BY <1>1, <1>5, <2>3, WholeStays
<1>6. ASSUME pc \in Ending, f \in Holders, TailDone(f), i = TailSector(f), ~Whole(f, i)
      PROVE  /\ Kept(f, i)' /\ files'[f].map[i].addr = files[f].map[i].addr
             /\ files'[f].map[i].sec = files[f].map[i].sec
  <2>1. EndStep
    <3>1. ~Begins BY <1>6 DEF Begins, Ending
    <3>2. ~MovesOn BY <1>6 DEF MovesOn, Moving, Ending
    <3>3. ~Finishes BY <1>6 DEF Finishes, Ending
    <3> QED BY <1>3, <3>1, <3>2, <3>3
  <2>2. /\ pc' \in Ending /\ UNCHANGED <<found, before>> /\ (RedirectTail \/ files' = files)
    BY <1>1, <2>1, EndSteps
  <2>3. f \in Holders' /\ i = TailSector(f)' BY <1>6, <2>2 DEF Holders, TailSector
  <2>4. todo' = todo => cur' = cur BY DEF cur
  <2>5. TailDone(f)'
    <3>1. CASE FinishHolder
      <4>1. todo' = todo /\ pc = "finish" BY <1>1, <2>1, <3>1, EndSteps DEF FinishHolder
      <4> QED BY <1>6, <4>1 DEF TailDone
    <3>2. CASE RedirectTail
      <4>1. todo' = todo /\ pc = "tail" BY <1>1, <2>1, <3>2, EndSteps DEF RedirectTail
      <4> QED BY <1>6, <4>1 DEF TailDone
    <3>3. CASE Verify
      <4>1. /\ pc = "verify"
            /\ \/ pc' = "finish" /\ todo' = todo \ {cur}
               \/ pc' = "check" /\ todo = {cur}
        BY <1>1, <2>1, <3>3, EndSteps DEF Verify
      <4> QED BY <1>6, <4>1 DEF TailDone
    <3>4. CASE CheckReleased
      <4>1. pc' = "check" BY <1>1, <2>1, <3>4, EndSteps
      <4> QED BY <4>1 DEF TailDone
    <3> QED BY <2>1, <3>1, <3>2, <3>3, <3>4 DEF EndStep
  <2>6. Kept(f, i)' BY <1>2, <1>6, <2>2, <2>3, <2>5 DEF Kept
  <2>7. /\ files'[f].map[i].addr = files[f].map[i].addr /\ files'[f].map[i].sec = files[f].map[i].sec
    <3>1. CASE files' = files BY <3>1
    <3>2. CASE RedirectTail
      <4>1. pc = "tail" BY <3>2 DEF RedirectTail
      <4>2. cur \in todo BY <1>0, <4>1, CurIs
      <4>3. f # cur BY <1>6, <4>1, <4>2 DEF TailDone
      <4> QED BY <1>1, <3>2, <4>3, TailMoves
    <3> QED BY <2>2, <3>1, <3>2
  <2> QED BY <2>6, <2>7
<1> QED BY <1>5, <1>6 DEF Kept

\* Whatever is staged becomes the temporary at hand.
LEMMA ToolStages ==
    ASSUME ToolNext, Faults = {}, pc' \in Late
    PROVE  \/ UNCHANGED <<disk, temp>>
           \/ /\ \E e : disk' = Append(disk, e)
              /\ temp'.addr = Len(disk) + 1 /\ pc' \in Deduping
<1> USE DEF fsvars, Late, Deduping
<1>0. \A out : ~Stop(out) BY StopEnds
<1>1. ~LogicalIno BY <1>0 DEF LogicalIno
<1>2. ~Collect BY <1>0 DEF Collect, NextHolder
<1>3. ~Judge BY <1>0 DEF Judge
<1>4. ~InodePath BY <1>0 DEF InodePath
<1>5. ~Inspect BY <1>0 DEF Inspect
<1>6. ~FillOpen BY <1>0 DEF FillOpen
<1>7. ~FillRead BY <1>0 DEF FillRead
<1>8. ~EndStretch BY <1>0 DEF EndStretch
<1>9. CASE Before BY <1>0, <1>9 DEF Before
<1>10. CASE Stage
  <2>1. (\E e : disk' = Append(disk, e)) BY <1>10 DEF Stage
  <2>2. temp'.addr = Len(disk) + 1 /\ pc' = "redirect" BY <1>10 DEF Stage
  <2> QED BY <2>1, <2>2
<1>11. CASE RedirectOpen BY <1>0, <1>11 DEF RedirectOpen
<1>12. CASE DedupeChunk BY <1>0, <1>12 DEF DedupeChunk
<1>13. ~DedupeShort BY DEF DedupeShort
<1>14. CASE FinishHolder
  <2>1. CASE pc' = "verify" BY <1>0, <1>14, <2>1 DEF FinishHolder
  <2>2. CASE pc' # "verify"
    <3>1. (\E e : disk' = Append(disk, e)) BY <1>0, <1>14, <2>2 DEF FinishHolder
    <3>2. temp'.addr = Len(disk) + 1 /\ pc' = "tail" BY <1>0, <1>14, <2>2 DEF FinishHolder
    <3> QED BY <3>1, <3>2
  <2> QED BY <2>1, <2>2
<1>15. CASE RedirectTail BY <1>0, <1>15 DEF RedirectTail
<1>16. CASE Verify BY <1>0, <1>16 DEF Verify
<1>17. CASE CheckReleased BY <1>0, <1>17 DEF CheckReleased
<1> QED BY <1>1, <1>2, <1>3, <1>4, <1>5, <1>6, <1>7, <1>8, <1>9, <1>10, <1>11, <1>12, <1>13,
           <1>14, <1>15, <1>16, <1>17
     DEF ToolNext

\* A stretch that has been redirected is live, so that some file leads to all of it.
LEMMA CopyRefd ==
    ASSUME TInv, FillQ, ToolNext, pc' \in Late, Finishes, todo = {cur},
           NEW s \in DOMAIN disk[temp.addr]
    PROVE  Refd(temp.addr, s)'
<1>0. Inv /\ FsOK /\ LookOK /\ FillOK /\ StageOK /\ FsOK' BY NextT DEF TInv, Next
<1>1. /\ pc \in {"redirect", "dedupe"} /\ copies' = copies \ {copy} /\ AllMoved /\ temp' = temp
  BY DEF Finishes, Redirected
<1>2. copies # {} BY <1>0, <1>1 DEF StageOK
<1>3. copy \in copies BY <1>0, <1>2, CopySectors
<1>4. PICK a \in Nat, b \in Nat :
         /\ a < b /\ b <= ExtentSectors
         /\ copy.start = Pos(a, 0) /\ copy.end = Pos(b, 0)
         /\ (copy.end - copy.start) \div SectorSize = b - a
  BY <1>0, <1>2, CopySectors
<1>5. s \in 0 .. (b - a) - 1 BY <1>0, <1>1, <1>4 DEF StageOK
<1> DEFINE x == a + s
<1>6. x \in Nat /\ s \in Nat /\ a <= x /\ x < b /\ x \in Secs BY <1>4, <1>5, ReallocAssumption DEF Secs
<1>7. Pos(a, 0) + Pos(s, 0) = Pos(x, 0) BY <1>6, PosSum
<1> HIDE DEF x
<1>8. In(copy, x)
  <2>1. Pos(a, 0) <= Pos(x, 0) BY <1>6, PosUpTo
  <2>2. Pos(x, 0) < Pos(b, 0) BY <1>6, PosLess
  <2> QED BY <1>4, <2>1, <2>2 DEF In
<1>9. CopiesRight BY <1>1 DEF FillQ
<1>10. Live(x) BY <1>3, <1>6, <1>8, <1>9 DEF CopiesRight
<1>11. PICK f \in Files, i \in Sectors : HasWhole(f, i, x) BY <1>10 DEF Live
<1>12. AtCopy(files'[f].map[i], x, copy, temp.addr) BY <1>1, <1>6, <1>8, <1>11 DEF AllMoved
<1>13. files'[f].map[i].sec \in Nat
  <2>1. files'[f] \in File BY <1>0 DEF FsOK
  <2>2. files'[f].map[i] \in Mapping BY <2>1, FileParts
  <2> QED BY <2>2 DEF Mapping
<1> DEFINE k == files'[f].map[i].sec
<1>14. k = s
  <2>1. Pos(a, 0) + Pos(k, 0) = Pos(x, 0) BY <1>4, <1>12 DEF AtCopy
  <2>2. k \in Nat BY <1>13
  <2> HIDE DEF k
  <2>3. Pos(a, 0) \in Int /\ Pos(k, 0) \in Int /\ Pos(s, 0) \in Int /\ Pos(x, 0) \in Int
    BY <1>6, <2>2, PosInt
  <2>4. Pos(k, 0) = Pos(s, 0) BY <1>7, <2>1, <2>3
  <2> QED BY <1>6, <2>2, <2>4, PosSum
<1>15. Leads(f, i, temp.addr, s)' BY <1>1, <1>12, <1>14 DEF Leads, AtCopy
<1>16. HasWhole(f, i, x)'
  <2>1. refs' = refs BY LateFrom
  <2> QED BY <1>0, <1>11, <2>1, HasKept
<1>17. ~Copied(x)'
  <2> SUFFICES ASSUME NEW c \in copies, c # copy, In(c, x) PROVE FALSE BY <1>1 DEF Copied, In
  <2>1. c.end <= copy.start \/ copy.end <= c.start BY <1>3, <1>9 DEF CopiesRight
  <2>2. c.start <= Pos(x, 0) /\ Pos(x, 0) < c.end BY DEF In
  <2>3. copy.start <= Pos(x, 0) /\ Pos(x, 0) < copy.end BY <1>8 DEF In
  <2>4. IsRange(c) BY <1>0 DEF FillOK
  <2>5. c.start \in Nat /\ c.end \in Nat BY <2>4, RangeParts
  <2>6. copy.start \in Int /\ copy.end \in Int /\ Pos(x, 0) \in Int BY <1>4, <1>6, PosInt
  <2> QED BY <2>1, <2>2, <2>3, <2>5, <2>6
<1>18. Kept(f, i)' BY <1>6, <1>16, <1>17 DEF Kept
<1> QED BY <1>15, <1>18 DEF Refd

\* So is the part sector that was staged for its own file.
LEMMA TailRefd ==
    ASSUME TInv, FitQ, StagedQ, Faults = {}, ToolNext, RedirectTail
    PROVE  /\ DOMAIN disk[temp.addr] = {0} /\ Refd(temp.addr, 0)'
<1>0. Inv /\ FsOK /\ LookOK /\ FillOK /\ StageOK BY DEF TInv
<1> DEFINE t == TailSector(cur)
<1>1. pc' # "done" /\ t \in Sectors /\ DedupeSectors(cur, TailCall, temp) = 1 BY TailAccepted
<1>2. /\ pc = "tail" /\ pc' = "verify" /\ cur \in Files /\ cur \in Holders
      /\ UNCHANGED <<disk, refs, found, todo, before, temp>>
      /\ before[cur].size = files[cur].size
      /\ Dedupe(cur, TailCall, 1, temp)
  BY <1>1, TailMoves
<1>3. DOMAIN disk[temp.addr] = {0} BY <1>0, <1>2 DEF StageOK
<1>4. TailCall.at = t /\ TailCall.sec = 0 BY DEF TailCall
<1>5. t \in TailCall.at .. TailCall.at + 1 - 1 /\ 0 + (t - t) = 0 BY <1>1, <1>4 DEF Sectors
<1>6. files'[cur].map[t].addr = temp.addr /\ files'[cur].map[t].sec = 0 + (t - t)
  BY <1>0, <1>1, <1>2, <1>4, <1>5, DedupeSteps
<1>7. ~Whole(cur, t) BY <1>0, <1>2, TailAlone
<1>8. cur' = cur /\ TailSector(cur)' = TailSector(cur) BY <1>2 DEF cur, TailSector
<1> HIDE DEF t
<1>9. PICK f \in Files : f = cur BY <1>2
<1>10. PICK i \in Sectors : i = TailSector(cur) BY <1>1 DEF t
<1>11. TailSector(f)' = TailSector(cur)' /\ TailSector(f) = i BY <1>8, <1>9, <1>10
<1>12. ~Whole(f, i)'
  <2>1. ~Whole(f, i) BY <1>7, <1>9, <1>10 DEF t
  <2> QED BY <1>0, <1>2, <2>1, HasKept
<1>13. TailDone(f)' BY <1>2, <1>8, <1>9 DEF TailDone
<1>14. f \in Holders' /\ i = TailSector(f)'
  BY <1>2, <1>8, <1>9, <1>10 DEF Holders, TailSector
<1>15. pc' \in Ending BY <1>2 DEF Ending
<1>16. Kept(f, i)' BY <1>12, <1>13, <1>14, <1>15 DEF Kept
<1>17. files'[f].map[i].addr = temp.addr /\ files'[f].map[i].sec = 0
  BY <1>5, <1>6, <1>9, <1>10 DEF t
<1>18. Leads(f, i, temp.addr, 0)' BY <1>2, <1>17 DEF Leads
<1>19. Refd(temp.addr, 0)' BY <1>16, <1>18 DEF Refd
<1> QED BY <1>3, <1>19

\* What a file leads to for good, it leads to after the step.
LEMMA RefdStays ==
    ASSUME TInv, FitQ, MoveQ, Faults = {}, ToolNext, pc \in Late, pc' \in Late,
           NEW a, NEW s, Refd(a, s)
    PROVE  Refd(a, s)'
<1>1. PICK f \in Files, i \in Sectors : Leads(f, i, a, s) /\ Kept(f, i) BY DEF Refd
<1>2. /\ Kept(f, i)' /\ files'[f].map[i].addr = files[f].map[i].addr
      /\ files'[f].map[i].sec = files[f].map[i].sec
  BY <1>1, KeptStays
<1>3. Leads(f, i, a, s)' BY <1>1, <1>2 DEF Leads
<1> QED BY <1>2, <1>3 DEF Refd

\* When the tool is done with a temporary, files lead to all of it for good.
LEMMA TempRefd ==
    ASSUME TInv, FitQ, FillQ, MoveQ, StagedQ, Faults = {}, ToolNext,
           pc \in Deduping, pc' \in Late \ Deduping,
           NEW a, a = temp.addr, NEW s \in DOMAIN disk[a]
    PROVE  Refd(a, s)'
<1>0. ASSUME temp' = temp, Refd(temp.addr, s)' PROVE Refd(a, s)' BY <1>0 DEF Refd, Leads
<1>1. Begins \/ MovesOn \/ Finishes \/ EndStep BY LateSteps
<1>2. ~Begins BY DEF Begins, Deduping
<1>3. ~MovesOn BY DEF MovesOn, Moving, Deduping
<1>4. CASE Finishes
  <2>1. todo = {cur} BY <1>4 DEF Finishes, Redirected, NextHolder, Deduping
  <2>2. Refd(temp.addr, s)' BY <1>4, <2>1, CopyRefd
  <2> QED BY <1>0, <1>4, <2>2 DEF Finishes
<1>5. CASE EndStep
  <2>1. RedirectTail
    BY <1>5 DEF EndStep, FinishHolder, Verify, CheckReleased, Deduping
  <2>2. DOMAIN disk[temp.addr] = {0} /\ Refd(temp.addr, 0)' BY <2>1, TailRefd
  <2>3. s = 0 BY <2>2
  <2>4. temp' = temp BY <2>1, TailMoves DEF Late
  <2> QED BY <1>0, <2>2, <2>3, <2>4
<1> QED BY <1>1, <1>2, <1>3, <1>4, <1>5

\* A step of the tool leaves no staged sector behind that no file leads to.
LEMMA NextKeptQ ==
    ASSUME TInv, LookQ, FitQ, FillQ, MoveQ, StagedQ, KeptQ, Faults = {}, ToolNext
    PROVE  KeptQ'
<1>0. Inv /\ FsOK /\ LookOK /\ FillOK /\ StageOK BY DEF TInv
<1>1. CASE pc' = "done"
  <2>1. CASE outcome' # "Rewritten" BY <1>1, <2>1 DEF KeptQ, Late
  <2>2. CASE outcome' = "Rewritten"
    <3>1. CheckReleased BY <1>1, <2>2, ToolGoes DEF Minor
    <3>2. pc = "check" /\ UNCHANGED <<files, disk>>
      BY <3>1 DEF CheckReleased, Stop, fsvars
    <3> SUFFICES ASSUME NEW a \in Len(InitDisk) + 1 .. Len(disk), NEW s \in DOMAIN disk[a]
                 PROVE  \E f \in Files, i \in Sectors : Leads(f, i, a, s)'
      BY <1>1, <3>2 DEF KeptQ, Late
    <3>3. Refd(a, s) BY <3>2 DEF KeptQ, Late, Deduping
    <3>4. \A f, i : Leads(f, i, a, s)' = Leads(f, i, a, s) BY <3>2 DEF Leads
    <3> QED BY <3>3, <3>4 DEF Refd
  <2> QED BY <2>1, <2>2
<1>2. CASE pc' \in Late
  <2> SUFFICES ASSUME NEW a \in Len(InitDisk) + 1 .. Len(disk'), NEW s \in DOMAIN disk'[a]
               PROVE  (a = temp'.addr /\ pc' \in Deduping) \/ Refd(a, s)'
    BY <1>2 DEF KeptQ, Late
  <2>1. pc \in Late \union {"before"} BY <1>2, LateFrom
  <2>2. pc = "before" => disk = InitDisk BY DEF LookQ, Early
  <2>3. Len(InitDisk) \in Nat /\ a \in Int /\ Len(InitDisk) < a BY InitialAssumption
  <2>4. IsSeq(disk) /\ Len(disk) \in Nat BY <1>0, AppendFacts DEF Inv
  <2>5. ASSUME a <= Len(disk), s \in DOMAIN disk[a], ~(a = temp.addr /\ pc \in Deduping)
        PROVE  Refd(a, s)'
    <3>1. a \in Len(InitDisk) + 1 .. Len(disk) BY <2>3, <2>4, <2>5
    <3>2. pc \in Late BY <2>1, <2>2, <2>3, <2>5
    <3>3. Refd(a, s) BY <2>5, <3>1, <3>2 DEF KeptQ
    <3> QED BY <1>2, <3>2, <3>3, RefdStays
  <2>6. CASE UNCHANGED <<disk, temp>>
    <3>1. a <= Len(disk) /\ s \in DOMAIN disk[a] BY <2>3, <2>4, <2>6
    <3>2. CASE a = temp.addr /\ pc \in Deduping
      <4>1. CASE pc' \in Deduping BY <2>6, <3>2, <4>1
      <4>2. CASE pc' \notin Deduping BY <1>2, <3>1, <3>2, <4>2, TempRefd
      <4> QED BY <4>1, <4>2
    <3> QED BY <2>5, <3>1, <3>2
  <2>7. CASE /\ \E e : disk' = Append(disk, e)
             /\ temp'.addr = Len(disk) + 1 /\ pc' \in Deduping
    <3>1. PICK e : disk' = Append(disk, e) BY <2>7
    <3>2. /\ Len(disk') = Len(disk) + 1
          /\ \A b \in 1 .. Len(disk) : disk'[b] = disk[b]
      BY <2>4, <3>1, AppendFacts
    <3>3. CASE a = Len(disk) + 1 BY <2>7, <3>3
    <3>4. CASE a # Len(disk) + 1
      <4>1. a <= Len(disk) /\ a \in 1 .. Len(disk) BY <2>3, <2>4, <3>2, <3>4
      <4>2. s \in DOMAIN disk[a] BY <3>2, <4>1
      <4>3. Stage \/ FinishHolder
        <5> SUFFICES ASSUME ~Stage, ~FinishHolder PROVE FALSE OBVIOUS
        <5>1. disk' = disk BY <2>7, StagedKept DEF Deduping
        <5> QED BY <2>4, <3>2, <5>1
      <4>4. pc \notin Deduping BY <4>3 DEF Stage, FinishHolder, Deduping
      <4> QED BY <2>5, <4>1, <4>2, <4>4
    <3> QED BY <3>3, <3>4
  <2> QED BY <1>2, <2>6, <2>7, ToolStages
<1>3. CASE pc' \notin Late \union {"done"} BY <1>3 DEF KeptQ
<1> QED BY <1>1, <1>2, <1>3

-----------------------------------------------------------------------------
(* An undisturbed rewrite: the invariant, and what it says at the end.     *)

\* All that is known of a rewrite that nothing disturbs.
QInv == /\ LookQ /\ FitQ /\ MoveQ /\ ShareQ
        /\ FillQ /\ StagedQ /\ RestQ /\ DoneQ /\ KeptQ

LEMMA InitQ == Init => QInv
<1> SUFFICES ASSUME Init PROVE QInv OBVIOUS
<1>1. /\ pc = "resolve" /\ copies = {} /\ files \in InitFiles /\ disk = InitDisk
  BY DEF Init, FsInit
<1>2. LookQ BY <1>1 DEF LookQ, Early
<1>3. FitQ BY <1>1 DEF FitQ, Acting, Late
<1>4. MoveQ /\ ShareQ BY <1>1 DEF MoveQ, ShareQ, Ending
<1>5. CopiesRight BY <1>1 DEF CopiesRight
<1>6. FillQ BY <1>1, <1>5 DEF FillQ
<1>7. StagedQ /\ RestQ /\ DoneQ /\ KeptQ
  BY <1>1 DEF StagedQ, RestQ, DoneQ, KeptQ, Late, Ending
<1> QED BY <1>2, <1>3, <1>4, <1>6, <1>7 DEF QInv

LEMMA NextQ ==
    ASSUME TInv, Base, QInv, Faults = {}, ToolNext
    PROVE  QInv'
<1>0. /\ LookQ /\ FitQ /\ MoveQ /\ ShareQ /\ FillQ /\ StagedQ /\ RestQ /\ DoneQ /\ KeptQ
      /\ FsOK /\ LookOK
  BY DEF QInv, TInv
<1>1. LookQ' BY <1>0, NextLookQ
<1>2. FitQ' BY <1>0, NextFitQ
<1>3. MoveQ' /\ ShareQ' BY <1>0, NextShareQ
<1>4. FillQ' BY <1>0, NextFillQ
<1>5. StagedQ' BY <1>0, NextStagedQ
<1>6. RestQ' BY <1>0, NextRestQ
<1>7. DoneQ' BY <1>0, NextDoneQ
<1>8. KeptQ' BY <1>0, NextKeptQ
<1> QED BY <1>1, <1>2, <1>3, <1>4, <1>5, <1>6, <1>7, <1>8 DEF QInv

\* A step that changes nothing keeps it.
LEMMA StutterQ ==
    ASSUME QInv, UNCHANGED vars
    PROVE  QInv'
<1> USE DEF vars, fsvars, tool, lookup, reading
<1>0. UNCHANGED <<files, disk, pc, outcome, found, refs, todo, name, before, ranges, rd, buf,
                  copies, temp, calls>>
  OBVIOUS
<1>1. /\ Holders' = Holders /\ cur' = cur /\ copy' = copy /\ range' = range
      /\ \A f : Opens(f)' = Opens(f)
      /\ \A f : PastEnd(f)' = PastEnd(f)
      /\ \A f : Verified(f)' = Verified(f)
      /\ \A f : Places(f)' = Places(f)
      /\ \A f : TailSector(f)' = TailSector(f)
  BY <1>0 DEF Holders, cur, copy, range, Opens, PastEnd, Verified, Places, TailSector, AllRefs
<1>2. /\ \A f : HoldsTail(f)' = HoldsTail(f)
      /\ \A f, i, o : Byte(f, i, o)' = Byte(f, i, o)
  BY <1>0, <1>1 DEF HoldsTail, Byte
<1>3. \A f : Chunks(f)' = Chunks(f) BY <1>0, <1>1 DEF Chunks
<1>4. /\ \A f, i, x : Holds(f, i, x)' = Holds(f, i, x)
      /\ \A f, i : Whole(f, i)' = Whole(f, i)
      /\ \A f, i, x : Moved(f, i, x)' = Moved(f, i, x)
      /\ \A f, i : Pending(f, i)' = Pending(f, i)
      /\ \A f, i, g, j : Same(f, i, g, j)' = Same(f, i, g, j)
      /\ \A p : ReadOK(p)' = ReadOK(p)
      /\ \A f, r, at : Spent(f, r, at)' = Spent(f, r, at)
      /\ \A x : Copied(x)' = Copied(x)
      /\ \A x : ToCome(x)' = ToCome(x)
      /\ \A f : TailDone(f)' = TailDone(f)
  BY <1>0, <1>1 DEF Holds, Whole, Moved, AtCopy, Pending, Same, ReadOK, Spent, Copied, ToCome,
     TailDone, In
<1>5. /\ \A f, i, x : HasWhole(f, i, x)' = HasWhole(f, i, x)
      /\ \A f, i, a, s : Leads(f, i, a, s)' = Leads(f, i, a, s)
  BY <1>0, <1>4 DEF HasWhole, Leads
<1>6. /\ \A x : Live(x)' = Live(x)
      /\ \A f, i : Kept(f, i)' = Kept(f, i)
  BY <1>0, <1>1, <1>4, <1>5 DEF Live, Kept
<1>7. \A a, s : Refd(a, s)' = Refd(a, s) BY <1>5, <1>6 DEF Refd
<1>8. Content' = Content /\ Shares' = Shares BY <1>0, <1>2, <1>4, <1>5 DEF Content, Shares
<1>9. CopiesRight' = CopiesRight BY <1>0, <1>4, <1>6 DEF CopiesRight, In
<1>a. ReadSoFar' = ReadSoFar /\ NoneLost' = NoneLost BY <1>0, <1>4, <1>6 DEF ReadSoFar, NoneLost
<1>b. AllSpent' = AllSpent
  <2>1. Reach' = Reach BY <1>0 DEF Reach
  <2> QED BY <1>0, <1>4, <2>1 DEF AllSpent
<1>c. InOrder' = InOrder /\ Reading' = Reading BY <1>0, <1>1 DEF InOrder, Reading
<1>d. TailFree' = TailFree BY <1>0, <1>1, <1>2, <1>4 DEF TailFree
<1>e. FoundYet' = FoundYet /\ CopiedYet' = CopiedYet BY <1>0, <1>4, <1>5 DEF FoundYet, CopiedYet
<1>10. LookQ' BY <1>0, <1>1 DEF QInv, LookQ
<1>11. FitQ' BY <1>0, <1>1 DEF QInv, FitQ, Fit
<1>12. MoveQ' BY <1>0, <1>1, <1>3, <1>4, <1>5 DEF QInv, MoveQ, In
<1>13. ShareQ' BY <1>0, <1>8 DEF QInv, ShareQ
<1>14. FillQ' BY <1>0, <1>4, <1>6, <1>9, <1>a, <1>b, <1>c DEF QInv, FillQ
<1>15. StagedQ' BY <1>0, <1>1, <1>2, <1>8 DEF QInv, StagedQ
<1>16. RestQ' BY <1>0, <1>d, <1>e DEF QInv, RestQ
<1>17. DoneQ' BY <1>0 DEF QInv, DoneQ
<1>18. KeptQ' BY <1>0, <1>5, <1>7 DEF QInv, KeptQ
<1> QED BY <1>10, <1>11, <1>12, <1>13, <1>14, <1>15, <1>16, <1>17, <1>18 DEF QInv

\* What always holds, whether the rewrite is disturbed or not.
QuietInv == TInv /\ CtlOK /\ Base /\ (Undisturbed => QInv)

LEMMA InitQuiet == Init => QuietInv
BY InitT, InitCtl, InitBase, InitQ DEF QuietInv

LEMMA NextQuiet ==
    ASSUME QuietInv, [Next]_vars
    PROVE  QuietInv'
<1>1. TInv /\ CtlOK /\ Base BY DEF QuietInv
<1>2. TInv' /\ CtlOK' BY <1>1, NextT, NextCtl
<1>3. Base'
  <2>1. Unsaid BY <1>1 DEF CtlOK, Unsaid
  <2> QED BY <1>1, <2>1, NextBase
<1>4. ASSUME Undisturbed' PROVE QInv'
  <2>1. Undisturbed /\ (ToolNext \/ UNCHANGED vars) BY <1>1, <1>4, AloneStep
  <2>2. QInv /\ Faults = {} BY <2>1 DEF QuietInv, Undisturbed
  <2>3. CASE ToolNext BY <1>1, <2>2, <2>3, NextQ
  <2>4. CASE UNCHANGED vars BY <2>2, <2>4, StutterQ
  <2> QED BY <2>1, <2>3, <2>4
<1> QED BY <1>2, <1>3, <1>4 DEF QuietInv

\* With nobody else about and no failing system call, realloc_extent never ends
\* in an error, and when it reports the extent as rewritten no file holds any of
\* it: every chunk that redirect asks the kernel to dedupe is accepted, every part
\* sector is released by finish, and the last check finds nothing.
THEOREM QuietRewriteSucceeds == Spec => []RewriteSucceeds
<1>1. QuietInv => RewriteSucceeds
  BY DEF QuietInv, QInv, DoneQ, Bad, RewriteSucceeds
<1>2. QuietInv /\ [Next]_vars => QuietInv' BY NextQuiet
<1> QED BY <1>1, <1>2, InitQuiet, PTL DEF Spec

\* With nobody else about and no failing system call, two files that shared a
\* whole sector of the extent when its references were collected share a sector
\* still once realloc_extent has rewritten it: redirect moves both to the same
\* sector of the same temporary (README.md: existing deduplication is preserved).
THEOREM SharingIsPreserved == Spec => []SharingPreserved
<1>1. QuietInv => SharingPreserved
  <2> SUFFICES ASSUME QuietInv, outcome = "Rewritten", Undisturbed,
                      NEW f \in Files, NEW g \in Files, NEW p \in SharedSectors(f, g),
                      Pos(p[1] + 1, 0) <= files[f].size, Pos(p[2] + 1, 0) <= files[g].size
               PROVE  SameSector(files[f].map[p[1]], files[g].map[p[2]])
    BY DEF SharingPreserved
  <2>1. LookOK /\ Shares BY DEF QuietInv, TInv, QInv, ShareQ, CtlOK
  <2>2. p[1] \in Sectors /\ p[2] \in Sectors BY DEF SharedSectors
  <2>3. PICK r \in refs[f], s \in refs[g] :
           /\ Pos(p[1], 0) \in r.file_offset .. r.file_offset + r.num_bytes - 1
           /\ Pos(p[2], 0) \in s.file_offset .. s.file_offset + s.num_bytes - 1
           /\ r.extent_offset + (Pos(p[1], 0) - r.file_offset)
                = s.extent_offset + (Pos(p[2], 0) - s.file_offset)
    BY DEF SharedSectors
  <2> DEFINE i == p[1]  j == p[2]
  <2>4. i \in Int /\ j \in Int BY <2>2 DEF Sectors
  <2> HIDE DEF i, j
  <2>5. PICK x \in Secs : Holds(f, i, x) /\ Pos(x, 0) = r.extent_offset + (Pos(i, 0) - r.file_offset)
    BY <2>1, <2>3, <2>4, CoveredIsHeld DEF i
  <2>6. PICK y \in Secs : Holds(g, j, y) /\ Pos(y, 0) = s.extent_offset + (Pos(j, 0) - s.file_offset)
    BY <2>1, <2>3, <2>4, CoveredIsHeld DEF j
  <2>7. x = y
    <3>1. Pos(x, 0) = Pos(y, 0) BY <2>3, <2>5, <2>6 DEF i, j
    <3>2. x \in Nat /\ y \in Nat BY ReallocAssumption DEF Secs
    <3> QED BY <3>1, <3>2, PosSum
  <2>8. HasWhole(f, i, x) /\ HasWhole(g, j, x) BY <2>5, <2>6, <2>7 DEF HasWhole, Whole, i, j
  <2>9. Same(f, i, g, j) BY <2>1, <2>2, <2>8 DEF Shares, i, j
  <2> QED BY <2>9 DEF Same, i, j
<1>2. QuietInv /\ [Next]_vars => QuietInv' BY NextQuiet
<1> QED BY <1>1, <1>2, InitQuiet, PTL DEF Spec

\* With nobody else about and no failing system call, every sector that
\* realloc_extent staged is referenced by a file once the extent is rewritten:
\* fill stages only sectors some holder has whole, and stages a part sector only
\* for the file that ends in it, so that a rewrite leaves no unreachable space of
\* its own (ExtentWalk says of them that they are fully referenced).
THEOREM CopiesAreReferenced == Spec => []CopiesFullyReferenced
<1>1. QuietInv => CopiesFullyReferenced
  <2> SUFFICES ASSUME QuietInv, outcome = "Rewritten", Undisturbed PROVE CopiesFullyReferenced
    BY DEF CopiesFullyReferenced
  <2>1. pc = "done" /\ KeptQ BY DEF QuietInv, QInv, CtlOK
  <2> QED BY <2>1 DEF KeptQ, Leads, CopiesFullyReferenced
<1>2. QuietInv /\ [Next]_vars => QuietInv' BY NextQuiet
<1> QED BY <1>1, <1>2, InitQuiet, PTL DEF Spec
=============================================================================
