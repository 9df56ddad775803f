------------------------------- MODULE Btrfs --------------------------------
(***************************************************************************)
(* The filesystem under the tool, as the code in src/src relies on it, and *)
(* what its users do to it.  A file maps each of its sectors to a sector   *)
(* of an extent, in runs that are its file extent items.  Data is never    *)
(* overwritten in place: a write goes to an extent of its own, and what it *)
(* replaces stays where it was.  Extents are immutable, and addresses are  *)
(* not reused; they index disk.                                            *)
(***************************************************************************)
EXTENDS Integers, Sequences, FiniteSetsExt

CONSTANTS
    Files,          \* inodes; a number stands for the (subvolume, inode) pair
    MaxSectors,     \* sectors of a file's address space
    SectorSize,     \* bytes in a sector
    Bytes,          \* byte values
    InitDisk,       \* the extents there are at first
    InitFiles,      \* the possible first states of the files
    UserOps,        \* what users do while the tool runs
    WriteBytes,     \* the bytes they write
    MaxOps          \* how many such operations there are

Sectors == 0 .. MaxSectors - 1
Offsets == 0 .. SectorSize - 1
Pos(i, o) == i * SectorSize + o
Sizes   == 0 .. Pos(MaxSectors, 0)

\* Where a sector of a file lives; head says that a file extent item starts
\* there.  Address 0 is a hole.
Mapping == [addr : Nat, sec : Nat, head : BOOLEAN]
Hole    == [addr |-> 0, sec |-> 0, head |-> TRUE]
File    == [link : Nat, size : Sizes, mtime : Nat, nocow : BOOLEAN,
            map : [Sectors -> Mapping]]

ASSUME BtrfsAssumption ==
    /\ Files \subseteq Nat /\ IsFiniteSet(Files)
    /\ MaxSectors \in Nat /\ SectorSize \in Nat \ {0} /\ 0 \in Bytes
    /\ WriteBytes \subseteq Bytes /\ MaxOps \in Nat

\* The data of the first extents, and files that lead to nothing else.  A sector
\* that no item starts at is in the item that the one before it is in, and leads
\* to the next sector of the same extent.
ASSUME InitialAssumption ==
    /\ InitDisk \in Seq({InitDisk[a] : a \in DOMAIN InitDisk})
    /\ \A a \in DOMAIN InitDisk : \A s \in DOMAIN InitDisk[a] :
          InitDisk[a][s] \in [Offsets -> Bytes]
    /\ InitFiles \subseteq [Files -> File]
    /\ \A fs \in InitFiles : \A f \in Files, i \in Sectors :
          LET m == fs[f].map[i]
          IN  /\ m.addr # 0 => /\ m.addr \in DOMAIN InitDisk
                               /\ m.sec \in DOMAIN InitDisk[m.addr]
              /\ ~m.head => /\ i # 0
                            /\ fs[f].map[i - 1].addr = m.addr
                            /\ fs[f].map[i - 1].sec + 1 = m.sec

VARIABLES
    files,    \* File records
    disk,     \* disk[addr]: the sectors of each extent
    ops       \* operations the users have left

fsvars == <<files, disk>>

FsInit ==
    /\ files \in InitFiles
    /\ disk = InitDisk
    /\ ops = MaxOps

-----------------------------------------------------------------------------
(* Reading and mapping.                                                    *)

\* A read of offset o of sector i of f, within the file's size.
Byte(f, i, o) == LET m == files[f].map[i]
                 IN  IF m.addr = 0 THEN 0 ELSE disk[m.addr][m.sec][o]

ByteAt(f, p) == Byte(f, p \div SectorSize, p % SectorSize)

\* One new item for n sectors from sector at on; what is left of the item it
\* cuts short starts anew behind it.
Paste(map, at, n, addr, sec) ==
    [i \in Sectors |->
       IF i \in at .. at + n - 1
         THEN [addr |-> addr, sec |-> sec + (i - at), head |-> i = at]
         ELSE [addr |-> map[i].addr, sec |-> map[i].sec,
               head |-> map[i].head \/ i - 1 \in at .. at + n - 1]]

\* FIDEDUPERANGE from sector sec of the source's extent to sector at of f.
\* It takes an unaligned length only up to the end of both files, and
\* otherwise leaves the part sector at its end out, without saying so.
DedupeSectors(f, c, src) ==
    LET whole == /\ Pos(c.sec + 1, c.len) = src.size
                 /\ Pos(c.at, c.len) = files[f].size
    IN  c.len \div SectorSize
          + (IF whole /\ c.len % SectorSize # 0 THEN 1 ELSE 0)

\* Mutant: the source is not compared with what it replaces.
DedupeUnchecked(f, c, n, src) ==
    /\ Pos(c.at, c.len) <= files[f].size
    /\ files' = [files EXCEPT ![f].map = Paste(@, c.at, n, src.addr, c.sec)]

\* The kernel compares, under lock, what a read of either file would return.
Dedupe(f, c, n, src) ==
    /\ Pos(c.at, c.len) <= files[f].size
    /\ \A i \in Sectors, o \in Offsets :
          (i \in c.at .. c.at + n - 1 /\ Pos(i, o) < files[f].size)
             => Byte(f, i, o) = disk[src.addr][c.sec + (i - c.at)][o]
    /\ files' = [files EXCEPT ![f].map = Paste(@, c.at, n, src.addr, c.sec)]

DedupeRefused(f, c, n, src) ==
    \/ Pos(c.at, c.len) > files[f].size
    \/ \E i \in Sectors, o \in Offsets :
          /\ i \in c.at .. c.at + n - 1 /\ Pos(i, o) < files[f].size
          /\ Byte(f, i, o) # disk[src.addr][c.sec + (i - c.at)][o]

-----------------------------------------------------------------------------
(* The users.                                                              *)

Exists(f) == files[f].link > 0 \/ files[f].size > 0

User(op) ==
    /\ op \in UserOps
    /\ ops > 0 /\ ops' = ops - 1

\* Whether the clock has moved on since the file was last changed.
Ticks(f) == {files[f].mtime, files[f].mtime + 1}

UserWrite(f, i, o, b) ==
    /\ User("write")
    /\ ~files[f].nocow
    /\ Pos(i, o) < files[f].size
    /\ disk' = Append(disk, [s \in {0} |-> [x \in Offsets |->
          IF x = o THEN b ELSE IF Pos(i, x) < files[f].size THEN Byte(f, i, x) ELSE 0]])
    /\ \E t \in Ticks(f) :
         files' = [files EXCEPT ![f].map = Paste(@, i, 1, Len(disk) + 1, 0),
                                ![f].mtime = t]

\* A shorter file lets go of the sectors past its end.
UserShrink(f, n) ==
    /\ User("truncate")
    /\ n < files[f].size
    /\ \E t \in Ticks(f) :
         files' = [files EXCEPT ![f].size = n, ![f].mtime = t,
                     ![f].map = [i \in Sectors |-> IF Pos(i, 0) >= n THEN Hole ELSE @[i]]]
    /\ UNCHANGED disk

\* A longer one has its part sector filled up with zeros.  Growth into space
\* reserved past the end is left out.
UserGrow(f, n) ==
    /\ User("truncate")
    /\ Exists(f) /\ ~files[f].nocow
    /\ n > files[f].size
    /\ \A i \in Sectors : Pos(i, 0) >= files[f].size => files[f].map[i].addr = 0
    /\ LET size == files[f].size
           part(i) == Pos(i, 0) < size /\ size < Pos(i + 1, 0)
       IN  \E t \in Ticks(f) :
             \/ /\ \A i \in Sectors : ~part(i)
                /\ files' = [files EXCEPT ![f].size = n, ![f].mtime = t]
                /\ UNCHANGED disk
             \/ \E i \in Sectors :
                /\ part(i)
                /\ disk' = Append(disk, [s \in {0} |-> [o \in Offsets |->
                              IF Pos(i, o) < size THEN Byte(f, i, o) ELSE 0]])
                /\ files' = [files EXCEPT ![f].size = n, ![f].mtime = t,
                               ![f].map = Paste(@, i, 1, Len(disk) + 1, 0)]

\* cp --reflink, or a file as a new snapshot has it.
UserClone(f, g) ==
    /\ User("clone")
    /\ f # g
    /\ Exists(f) /\ Exists(g)
    /\ files[f].nocow = files[g].nocow
    /\ \E t \in Ticks(g) :
         files' = [files EXCEPT ![g].size = files[f].size, ![g].mtime = t,
                                ![g].map = files[f].map]
    /\ UNCHANGED disk

UserRename(f) ==
    /\ User("rename")
    /\ files[f].link > 0
    /\ files' = [files EXCEPT ![f].link = @ + 1]
    /\ UNCHANGED disk

UserUnlink(f) ==
    /\ User("unlink")
    /\ files[f].link > 0
    /\ files' = [files EXCEPT ![f].link = 0]
    /\ UNCHANGED disk

\* The last descriptor of an unlinked file is closed, and its inode goes.
UserClose(f) ==
    /\ User("unlink")
    /\ files[f].link = 0 /\ files[f].size > 0
    /\ files' = [files EXCEPT ![f].size = 0, ![f].map = [i \in Sectors |-> Hole]]
    /\ UNCHANGED disk

\* One operation of some user, while the tool keeps the files in held open.
UserStep(held) ==
    \E f \in Files :
        \/ \E i \in Sectors, o \in Offsets, b \in WriteBytes : UserWrite(f, i, o, b)
        \/ \E n \in Sizes : UserShrink(f, n) \/ UserGrow(f, n)
        \/ \E g \in Files : UserClone(f, g)
        \/ UserRename(f) \/ UserUnlink(f)
        \/ f \notin held /\ UserClose(f)

-----------------------------------------------------------------------------
\* What a user sees of the files: bytes past the end read as nothing.
View == [f \in Files |-> [i \in Sectors |-> [o \in Offsets |->
            IF Pos(i, o) < files[f].size THEN Byte(f, i, o) ELSE 0]]]
Meta == [f \in Files |-> [link |-> files[f].link, size |-> files[f].size,
                          mtime |-> files[f].mtime]]

UV == INSTANCE UserView WITH view <- View, meta <- Meta

=============================================================================
