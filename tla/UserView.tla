------------------------------ MODULE UserView ------------------------------
(***************************************************************************)
(* What the users of the filesystem may see: the promise of README.md and  *)
(* of realloc_extent (run.rs) that a rewrite touches neither contents nor  *)
(* metadata of any file.  The only steps are those of the users; the tool  *)
(* has none, so a specification that implements this one makes each of its *)
(* own steps a stutter: at no instant, not even between two system calls,  *)
(* can a reader see anything but what the users put there.  A user's step  *)
(* is known by what it takes off ops, so none of the tool's passes for one.*)
(*                                                                         *)
(* A file is an inode.  Its content is given sector by sector, and reads   *)
(* as zero from its size on.  link identifies the path that leads to it, 0 *)
(* once it has been unlinked.  An unlinked empty file is gone.             *)
(***************************************************************************)
EXTENDS Integers

CONSTANTS
    Files,        \* inodes
    MaxSectors,   \* sectors of a file's address space
    SectorSize,   \* bytes in a sector
    Bytes         \* byte values

VARIABLES
    view,   \* view[f][i][o]: the byte a read of f returns at offset o of sector i
    meta,   \* meta[f]: link, size and mtime of f
    ops     \* what users have left to do, by which their steps are known

uservars == <<view, meta, ops>>

Sectors == 0 .. MaxSectors - 1
Offsets == 0 .. SectorSize - 1

\* The byte offset in its file of offset o of sector i.
Pos(i, o) == i * SectorSize + o

Sizes == 0 .. Pos(MaxSectors, 0)

Blank == [i \in Sectors |-> [o \in Offsets |-> 0]]

Exists(f) == meta[f].link > 0 \/ meta[f].size > 0

\* Every change of a file may move its mtime; the clock is too coarse for it
\* to be sure to.
Touched(m, size) == [link : {m.link}, size : {size}, mtime : {m.mtime, m.mtime + 1}]

Init ==
    /\ view \in [Files -> [Sectors -> [Offsets -> Bytes]]]
    /\ meta \in [Files -> [link : Nat, size : Sizes, mtime : Nat]]
    /\ ops \in Nat

Write(f, i, o, b) ==
    /\ Pos(i, o) < meta[f].size
    /\ view' = [view EXCEPT ![f][i][o] = b]
    /\ \E m \in Touched(meta[f], meta[f].size) : meta' = [meta EXCEPT ![f] = m]

Truncate(f, n) ==
    /\ Exists(f)
    /\ n # meta[f].size
    /\ view' = [view EXCEPT ![f] =
                  [i \in Sectors |-> [o \in Offsets |->
                     IF Pos(i, o) < n THEN view[f][i][o] ELSE 0]]]
    /\ \E m \in Touched(meta[f], n) : meta' = [meta EXCEPT ![f] = m]

\* A reflink copy, or the file as a snapshot shows it: g becomes a copy of f.
Clone(f, g) ==
    /\ f # g
    /\ Exists(f) /\ Exists(g)
    /\ view' = [view EXCEPT ![g] = view[f]]
    /\ \E m \in Touched(meta[g], meta[f].size) : meta' = [meta EXCEPT ![g] = m]

Rename(f) ==
    /\ meta[f].link > 0
    /\ meta' = [meta EXCEPT ![f].link = @ + 1]
    /\ UNCHANGED view

Unlink(f) ==
    /\ meta[f].link > 0
    /\ meta' = [meta EXCEPT ![f].link = 0]
    /\ UNCHANGED view

\* The last descriptor of an unlinked file is closed.
Close(f) ==
    /\ meta[f].link = 0 /\ meta[f].size > 0
    /\ meta' = [meta EXCEPT ![f].size = 0]
    /\ view' = [view EXCEPT ![f] = Blank]

Next ==
    /\ ops > 0 /\ ops' = ops - 1
    /\ \E f \in Files :
        \/ \E i \in Sectors, o \in Offsets, b \in Bytes : Write(f, i, o, b)
        \/ \E n \in Sizes : Truncate(f, n)
        \/ \E g \in Files : Clone(f, g)
        \/ Rename(f) \/ Unlink(f) \/ Close(f)

Spec == Init /\ [][Next]_uservars
=============================================================================
