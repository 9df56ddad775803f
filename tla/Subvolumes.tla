----------------------------- MODULE Subvolumes -----------------------------
(***************************************************************************)
(* How a file holding an extent is come by (Filesystem::subvolume,         *)
(* find_subvolume, root_backref, open_subvolume, inode_path, open_inode in *)
(* kernel.rs): up from its subvolume by backreferences to the top level,   *)
(* then down again by the path those give, which is kept for the rest of   *)
(* the run, while users move, rename and delete what is on it.  Each       *)
(* subvolume has one directory and two files, of which one holds the       *)
(* extent.  Inode numbers are the same in all of them, as in snapshots.    *)
(***************************************************************************)
EXTENDS Integers, SequencesExt, FiniteSets

CONSTANTS
    Roots, Top,   \* subvolumes, the top level one among them
    Names,        \* names of subvolumes
    DirNames,     \* names of directories
    Starts,       \* where subvolumes may sit at first
    Lookups,      \* how many files are looked for
    MaxOps        \* how often users do something

Inode == 1
Other == 2

Dirs     == {"root", "dir"}
Place    == [parent : Roots, dir : Dirs, name : Names]
Nowhere  == [parent |-> 0]

ASSUME SubvolumesAssumption ==
    /\ IsFiniteSet(Roots) /\ Top \in Roots /\ 0 \notin Roots
    /\ Names # {} /\ DirNames # {} /\ {"", "removed"} \intersect DirNames = {}
    /\ Lookups \in Nat /\ MaxOps \in Nat
    /\ Starts \subseteq [Roots \ {Top} -> Place]
    /\ \A start \in Starts : \A r, s \in Roots \ {Top} : start[r] = start[s] => r = s

VARIABLES
    place,     \* the root backreference of each subvolume
    dirname,   \* the name of its directory
    file,      \* the name of the file that holds the extent
    ops,       \* what users have left to do
    lookups,   \* files left to look for
    pc,
    root,      \* the subvolume the file is in
    stack,     \* subvolumes being found, each with its backreference as read
    value,     \* what the last one found came to
    cache,     \* Filesystem::subvolumes
    name,      \* the file's name, as inode_path has it
    opened,    \* the file open_inode opened
    result,
    moved      \* subvolumes and files disturbed in the run so far

fs    == <<place, dirname, file>>
tool  == <<lookups, pc, root, stack, value, cache, name, opened, result>>
vars  == <<fs, ops, tool, moved>>

None    == <<>>
Some(p) == <<p>>

-----------------------------------------------------------------------------
(* The tree of subvolumes and directories.  A path is a sequence of the    *)
(* directory and name each subvolume on it is found by.                    *)

DirPath(r, dir) == IF dir = "root" THEN "" ELSE dirname[r]

Below(r, step) == {s \in Roots \ {Top} : /\ place[s].parent = r
                                         /\ place[s].name = step.name
                                         /\ DirPath(r, place[s].dir) = step.dir}

\* Where a path leads: a subvolume, or nowhere.
Leads(path) ==
    LET lead[n \in 0 .. Len(path)] ==
          IF n = 0 THEN Top
          ELSE IF lead[n - 1] = 0 \/ Below(lead[n - 1], path[n]) = {} THEN 0
          ELSE CHOOSE s \in Below(lead[n - 1], path[n]) : TRUE
    IN  lead[Len(path)]

\* A subvolume and those it sits in.
Above(r) == IF r = Top THEN {} ELSE {place[r].parent} \ {0}
Chain(r) == {x \in Roots : \A C \in SUBSET Roots :
                               r \in C /\ (\A y \in C : Above(y) \subseteq C) => x \in C}

Init ==
    /\ \E start \in Starts : place = [r \in Roots |-> IF r = Top THEN Nowhere ELSE start[r]]
    /\ dirname = [r \in Roots |-> CHOOSE n \in DirNames : TRUE]
    /\ file = [r \in Roots |-> "f"]
    /\ ops = MaxOps /\ lookups = Lookups
    /\ pc = "idle" /\ root = Top /\ stack = <<>> /\ value = None
    /\ cache = <<>> /\ name = "" /\ opened = <<>> /\ result = "none"
    /\ moved = {}

-----------------------------------------------------------------------------
(* The users.                                                              *)

Disturb(kind, what) ==
    /\ pc # "done" /\ ops > 0 /\ ops' = ops - 1
    /\ moved' = moved \union ({kind} \X what)
    /\ UNCHANGED tool

Free(p) == \A s \in Roots \ {Top} : place[s] # p

MoveSubvolume(r, p) ==
    /\ Disturb("subvolume", {r}) /\ place[r] # Nowhere
    /\ Free(p) /\ r \notin Chain(p.parent) /\ (p.parent = Top \/ place[p.parent] # Nowhere)
    /\ p.dir = "dir" => dirname[p.parent] # "removed"
    /\ place' = [place EXCEPT ![r] = p]
    /\ UNCHANGED <<dirname, file>>

\* Two subvolumes trade places.
ExchangeSubvolumes(r, s) ==
    /\ Disturb("subvolume", {r, s}) /\ r # s /\ place[r] # Nowhere /\ place[s] # Nowhere
    /\ r \notin Chain(s) /\ s \notin Chain(r)
    /\ place' = [place EXCEPT ![r] = place[s], ![s] = place[r]]
    /\ UNCHANGED <<dirname, file>>

Within(r, dir) == {s \in Roots \ {Top} : place[s].parent = r /\ place[s].dir = dir}

DeleteSubvolume(r) ==
    /\ Disturb("subvolume", {r}) /\ place[r] # Nowhere /\ \A dir \in Dirs : Within(r, dir) = {}
    /\ place' = [place EXCEPT ![r] = Nowhere]
    /\ UNCHANGED <<dirname, file>>

RenameDir(r, n) ==
    /\ Disturb("subvolume", Within(r, "dir")) /\ dirname[r] \notin {n, "removed"}
    /\ dirname' = [dirname EXCEPT ![r] = n]
    /\ UNCHANGED <<place, file>>

RemoveDir(r) ==
    /\ Disturb("subvolume", {}) /\ Within(r, "dir") = {} /\ dirname[r] # "removed"
    /\ dirname' = [dirname EXCEPT ![r] = "removed"]
    /\ UNCHANGED <<place, file>>

\* The two files trade names, or the one that holds the extent is unlinked.
RenameFile(r) ==
    /\ Disturb("file", {r}) /\ file[r] # "unlinked"
    /\ file' = [file EXCEPT ![r] = IF @ = "f" THEN "g" ELSE "f"]
    /\ UNCHANGED <<place, dirname>>

Unlink(r) ==
    /\ Disturb("file", {r}) /\ file[r] # "unlinked"
    /\ file' = [file EXCEPT ![r] = "unlinked"]
    /\ UNCHANGED <<place, dirname>>

-----------------------------------------------------------------------------
(* subvolume and find_subvolume.                                           *)

Begin(r) ==
    /\ pc = "idle" /\ lookups > 0 /\ lookups' = lookups - 1
    /\ root' = r /\ stack' = <<[root |-> r, ref |-> Nowhere]>>
    /\ pc' = "subvolume"
    /\ UNCHANGED <<fs, ops, value, cache, name, opened, result, moved>>

Finish(as) == pc' = "done" /\ result' = as

Frame == Last(stack)

\* What was found is kept, and handed to whoever asked: the search for a
\* subvolume below, or inode_path.
Return(v) ==
    /\ cache' = [r \in DOMAIN cache \union {Frame.root} |->
                   IF r = Frame.root THEN v ELSE cache[r]]
    /\ value' = v
    /\ stack' = Front(stack)
    /\ \/ Len(stack) = 1 /\ v = None /\ Finish("none")
       \/ Len(stack) = 1 /\ v # None /\ pc' = "reopen" /\ UNCHANGED result
       \/ Len(stack) > 1 /\ pc' = "parent" /\ UNCHANGED result
    /\ UNCHANGED <<lookups, root, name, opened>>

Known ==
    /\ pc = "subvolume" /\ Frame.root \in DOMAIN cache
    /\ Return(cache[Frame.root])
    /\ UNCHANGED <<fs, ops, moved>>

\* root_backref, which names the subvolume to be found first.
RootBackref ==
    /\ pc = "subvolume" /\ Frame.root \notin DOMAIN cache /\ Frame.root # Top
    /\ IF place[Frame.root] = Nowhere
         THEN Return(None)
         ELSE /\ stack' = Append([stack EXCEPT ![Len(stack)].ref = place[Frame.root]],
                                 [root |-> place[Frame.root].parent, ref |-> Nowhere])
              /\ UNCHANGED <<lookups, pc, root, value, cache, name, opened, result>>
    /\ UNCHANGED <<fs, ops, moved>>

\* open_subvolume, at the path found.
OpenFound(path) == Return(IF Leads(path) = Frame.root THEN Some(path) ELSE None)

FindTop ==
    /\ pc = "subvolume" /\ Frame.root \notin DOMAIN cache /\ Frame.root = Top
    /\ OpenFound(<<>>)
    /\ UNCHANGED <<fs, ops, moved>>

ParentLost ==
    /\ pc = "parent" /\ value = None
    /\ Return(None)
    /\ UNCHANGED <<fs, ops, moved>>

\* Mutant: the directory within the parent is left out.
JoinedDirless(path, dir, n) == Append(path, [dir |-> "", name |-> n])

Joined(path, dir, n) == Append(path, [dir |-> dir, name |-> n])

\* ino_lookup of the directory in the parent.
HasDir(r, dir) == /\ r = Top \/ place[r] # Nowhere
                  /\ DirPath(r, dir) # "removed"

InoLookup ==
    /\ pc = "parent" /\ value # None /\ HasDir(Frame.ref.parent, Frame.ref.dir)
    /\ value' = Some(Joined(value[1], DirPath(Frame.ref.parent, Frame.ref.dir), Frame.ref.name))
    /\ pc' = "open"
    /\ UNCHANGED <<fs, ops, lookups, root, stack, cache, name, opened, result, moved>>

\* A directory that is gone fails the lookup with NotFound, which locate_holders
\* takes for a file deleted.  The stack is left to show how far the search got.
InoLookupFails ==
    /\ pc = "parent" /\ value # None /\ ~HasDir(Frame.ref.parent, Frame.ref.dir)
    /\ Finish("deleted")
    /\ UNCHANGED <<fs, ops, lookups, root, stack, value, cache, name, opened, moved>>

Open ==
    /\ pc = "open"
    /\ OpenFound(value[1])
    /\ UNCHANGED <<fs, ops, moved>>

-----------------------------------------------------------------------------
(* inode_path and open_inode.                                              *)

\* The subvolume is opened at the path kept, ...
Reopen ==
    /\ pc = "reopen"
    /\ IF Leads(value[1]) = root THEN pc' = "paths" /\ UNCHANGED result
                                 ELSE Finish("none")
    /\ UNCHANGED <<fs, ops, lookups, root, stack, value, cache, name, opened, moved>>

\* ... and asked for the file's name.
InoPaths ==
    /\ pc = "paths"
    /\ IF file[root] = "unlinked" \/ (root # Top /\ place[root] = Nowhere)
         THEN Finish("deleted") /\ UNCHANGED name
         ELSE name' = file[root] /\ pc' = "file" /\ UNCHANGED result
    /\ UNCHANGED <<fs, ops, lookups, root, stack, value, cache, opened, moved>>

\* What is at the path by now.
AtPath == LET r == Leads(value[1])
          IN [root |-> r, inode |-> IF r # 0 /\ file[r] = name THEN Inode ELSE Other]

\* Mutant: only the inode number is compared.
IsStillInode(found) == found.inode = Inode

IsStill(found) == found.inode = Inode /\ found.root = root

\* Mutant: a path that leads to something else is taken for a file deleted.
OpenInodeDeleted ==
    /\ pc = "file"
    /\ \/ /\ AtPath.root = 0 \/ ~IsStill(AtPath)
          /\ Finish("deleted") /\ UNCHANGED opened
       \/ /\ AtPath.root # 0 /\ IsStill(AtPath)
          /\ Finish("opened") /\ opened' = <<AtPath>>
    /\ UNCHANGED <<fs, ops, lookups, root, stack, value, cache, name, moved>>

OpenInode ==
    /\ pc = "file"
    /\ \/ /\ AtPath.root = 0 \/ ~IsStill(AtPath)
          /\ Finish("failed") /\ UNCHANGED opened
       \/ /\ AtPath.root # 0 /\ IsStill(AtPath)
          /\ Finish("opened") /\ opened' = <<AtPath>>
    /\ UNCHANGED <<fs, ops, lookups, root, stack, value, cache, name, moved>>

NextFile ==
    /\ pc = "done" /\ pc' = "idle"
    /\ stack' = <<>> /\ value' = None /\ name' = "" /\ opened' = <<>> /\ result' = "none"
    /\ UNCHANGED <<fs, ops, lookups, root, cache, moved>>

Stop == pc = "idle" /\ lookups = 0 /\ UNCHANGED vars

-----------------------------------------------------------------------------
Tool == \/ \E r \in Roots : Begin(r)
        \/ Known \/ RootBackref \/ FindTop \/ ParentLost \/ InoLookup \/ InoLookupFails \/ Open
        \/ Reopen \/ InoPaths \/ OpenInode \/ NextFile

Users == \/ \E r \in Roots \ {Top} : \/ \E p \in Place : MoveSubvolume(r, p)
                                     \/ \E s \in Roots \ {Top} : ExchangeSubvolumes(r, s)
                                     \/ DeleteSubvolume(r)
         \/ \E r \in Roots : \/ \E n \in DirNames : RenameDir(r, n)
                             \/ RemoveDir(r) \/ RenameFile(r) \/ Unlink(r)

Next == Tool \/ Users \/ Stop

Spec == Init /\ [][Next]_vars

-----------------------------------------------------------------------------
(* What is to be shown.                                                    *)

\* A file is worked on only as the inode of the subvolume that holds the
\* extent, whatever has come to be at its path by then: the path of a
\* subvolume kept from an earlier lookup may lead to another, with the same
\* inode numbers (open_inode).
OpenedIsTheHolder == result = "opened" => opened[1] = [root |-> root, inode |-> Inode]

\* Whatever is moved, renamed or deleted elsewhere, and whatever was found or
\* lost there before and is remembered, a file is reached as long as nobody has
\* touched it, its subvolume, or those that one sits in (find_subvolume).
UndisturbedIsReached ==
    pc = "done" /\ moved \intersect (({"subvolume"} \X Chain(root)) \union {<<"file", root>>}) = {}
      => result = "opened"

\* A file is taken for deleted, which is no failure, only if it has been, alone
\* or with its subvolume (locate_holders, whose comment says so of NotFound).
Gone == file[root] = "unlinked" \/ (root # Top /\ place[root] = Nowhere)
DeletedIsDeleted == pc = "done" /\ result = "deleted" => Gone

\* Or if a subvolume on the way looked up has left the directory that its
\* backreference was read to name, and that directory is gone as well: never for
\* what is deleted elsewhere, for having been moved or renamed alone, or for
\* what came to be at its path (find_subvolume, inode_path, open_inode).
LostOnTheWay ==
    pc = "done" /\ result = "deleted" =>
      \/ Gone
      \/ \E i \in DOMAIN stack :
           LET ref == stack[i].ref
           IN  /\ ref # Nowhere /\ place[stack[i].root] # ref
               /\ ~HasDir(ref.parent, ref.dir)
=============================================================================
