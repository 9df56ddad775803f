------------------------------ MODULE Resolve -------------------------------
(***************************************************************************)
(* Who holds one extent (Filesystem::resolve, resolve_again,               *)
(* may_be_shared, last_snapshot, the loop of logical_ino and that of       *)
(* collect in kernel.rs), while users write to the files, take snapshots   *)
(* and delete subvolumes.  Each subvolume has one file and its references  *)
(* to the extent are in one leaf, which snapshots share until one side     *)
(* writes to it.  How items are found in a file is DataRef's part, and how *)
(* a search goes through its pages Search's.                               *)
(***************************************************************************)
EXTENDS Integers, FiniteSetsExt, Functions

CONSTANTS
    Roots,       \* subvolumes there may come to be
    MaxRefs,     \* references a file has to the extent at most
    StartSize,   \* LOGICAL_INO_START_SIZE, in references
    MaxSize,     \* LOGICAL_INO_MAX_SIZE, likewise
    First,       \* the subvolume there is at first
    MaxOps       \* how often users do something

ASSUME ResolveAssumption ==
    /\ IsFiniteSet(Roots) /\ Roots \subseteq Nat /\ First \in Roots
    /\ MaxRefs \in Nat \ {0} /\ StartSize \in Nat /\ MaxSize \in Nat /\ MaxOps \in Nat

VARIABLES
    status,   \* of each subvolume: unborn, live, dying (deleted, not yet cleaned up), gone
    tree,     \* the leaf of each, told from others by its owner and its generation
    snap,     \* the last snapshot in its root item
    transid,  \* the transaction running
    account,  \* what the extent tree says, which lags behind
    ops,      \* what users have left to do
    cache,    \* Filesystem::last_snapshots
    pc,
    path,     \* how the references in found were come by: the extent tree, or the walk
    data,     \* data refs left to collect, or roots left to check
    found,    \* references collected: how many in which file, and the leaf's generation
    size,     \* the size of the lookup's buffer
    result,
    lagged,   \* whether the account read has been wrong since
    quiet,    \* whether users have done nothing since
    steady    \* references there all along since the account, or the lookup, was read

fs    == <<status, tree, snap, transid>>
tool  == <<pc, path, data, found, size, result>>
since == <<lagged, quiet, steady>>
vars  == <<fs, account, ops, cache, tool, since>>

None == -1

\* What a data ref stands for, or a root has been found to hold.
Nothing == <<>>

-----------------------------------------------------------------------------
(* Leaves, and what the extent tree records of them.                       *)

Present == {r \in Roots : status[r] \in {"live", "dying"}}

Sharing(r) == {s \in Present : tree[s].owner = tree[r].owner /\ tree[s].gen = tree[r].gen}

\* A reference is recorded once, against the owner of the leaf, or against the
\* leaf itself if that has been made to carry full backreferences.
Account(st, t) ==
    LET present == {r \in Roots : st[r] \in {"live", "dying"}}
    IN [files  |-> [o \in Roots |-> Max({0} \union {t[r].n : r \in {s \in present :
                                                 t[s].owner = o /\ ~t[s].full}})],
        opaque |-> \E r \in present : t[r].full /\ t[r].n > 0]

\* Without its owner, a leaf that is still shared carries full backreferences.
WithoutOwner(r) ==
    [s \in Roots |-> IF s \in Sharing(r) /\ tree[r].owner = r THEN [tree[s] EXCEPT !.full = TRUE]
                                                              ELSE tree[s]]

\* The references in files that can be opened.
Held == UNION {{r} \X (1 .. tree[r].n) : r \in {s \in Roots : status[s] = "live"}}

Init ==
    /\ status = [r \in Roots |-> IF r = First THEN "live" ELSE "unborn"]
    /\ tree = [r \in Roots |-> [owner |-> First, gen |-> 1, full |-> FALSE, n |-> 1]]
    /\ snap = [r \in Roots |-> 0]
    /\ transid = 2
    /\ account = Account(status, tree)
    /\ ops = MaxOps
    /\ cache = [r \in Roots |-> IF r = First THEN 0 ELSE None]
    /\ pc = "idle" /\ path = "none" /\ data = Nothing /\ found = Nothing
    /\ size = StartSize /\ result = "none"
    /\ lagged = FALSE /\ quiet = TRUE /\ steady = {}

-----------------------------------------------------------------------------
(* The users.                                                              *)

\* What they do once the extent is resolved makes no difference to it.
User ==
    /\ pc # "done"
    /\ ops > 0 /\ ops' = ops - 1
    /\ quiet' = FALSE
    /\ UNCHANGED <<cache, tool>>

\* What the filesystem has come to by this step, for the history.
Observe ==
    /\ steady' = steady \intersect Held'
    /\ lagged' = (lagged \/ Account(status', tree') # Account(status, tree))

\* A write near or over the references leaves n of them.  A leaf of an earlier
\* transaction is copied; a shared one stays behind for the others.
Write(r, n) ==
    /\ User /\ status[r] = "live"
    /\ tree' = [(IF tree[r].gen = transid THEN tree ELSE WithoutOwner(r)) EXCEPT
                   ![r] = [owner |-> r, gen |-> transid, full |-> FALSE, n |-> n]]
    /\ UNCHANGED <<status, snap, transid, account>>
    /\ Observe

\* Whatever is queued reaches the extent tree with a commit.
Commits == transid' = transid + 1 /\ account' = Account(status', tree')

\* A snapshot, which is taken in a commit.  Tree ids are given out in order.
Snapshot(r, s) ==
    /\ User /\ status[r] = "live"
    /\ s = Min({t \in Roots : status[t] = "unborn"} \union {Max(Roots) + 1}) /\ s \in Roots
    /\ status' = [status EXCEPT ![s] = "live"]
    /\ tree' = [tree EXCEPT ![s] = tree[r]]
    /\ snap' = [snap EXCEPT ![r] = transid, ![s] = transid]
    /\ Commits
    /\ Observe

Commit ==
    /\ User
    /\ UNCHANGED <<status, tree, snap>>
    /\ Commits
    /\ Observe

DeleteSubvolume(r) ==
    /\ User /\ status[r] = "live"
    /\ status' = [status EXCEPT ![r] = "dying"]
    /\ UNCHANGED <<tree, snap, transid, account>>
    /\ Observe

\* The kernel cleans a deleted subvolume up in its own time ...
Clean(r) ==
    /\ pc # "done" /\ status[r] = "dying"
    /\ status' = [status EXCEPT ![r] = "gone"]
    /\ tree' = WithoutOwner(r)
    /\ quiet' = FALSE
    /\ Observe
    /\ UNCHANGED <<snap, transid, account, ops, cache, tool>>

\* ... and lets the extent tree know in its own time.
Flush ==
    /\ pc # "done" /\ account # Account(status, tree)
    /\ account' = Account(status, tree)
    /\ UNCHANGED <<fs, ops, cache, tool, since>>

-----------------------------------------------------------------------------
(* resolve.                                                                *)

Finish(as) == pc' = "done" /\ result' = as

\* Mutant: what the last batch's extents were judged by is kept.
ReadBatchUncleared ==
    /\ pc = "idle"
    /\ account # Account([r \in Roots |-> "gone"], tree)
    /\ data' = Restrict(account.files, {r \in Roots : account.files[r] > 0})
    /\ pc' = IF account.opaque THEN "lookup" ELSE "collect"
    /\ path' = "tree"
    /\ lagged' = (account # Account(status, tree)) /\ quiet' = TRUE /\ steady' = Held
    /\ UNCHANGED <<fs, account, ops, cache, found, size, result>>

\* extent_batch reads the extent's account, if the extent tree has one, and
\* resolve begins.
ReadBatch ==
    /\ pc = "idle"
    /\ account # Account([r \in Roots |-> "gone"], tree)
    /\ cache' = [r \in Roots |-> None]
    /\ data' = Restrict(account.files, {r \in Roots : account.files[r] > 0})
    /\ pc' = IF account.opaque THEN "lookup" ELSE "collect"
    /\ path' = "tree"
    /\ lagged' = (account # Account(status, tree)) /\ quiet' = TRUE /\ steady' = Held
    /\ UNCHANGED <<fs, account, ops, found, size, result>>

\* Another thread asks for a subvolume's last snapshot, for another extent of
\* the batch.
OtherThread(r) ==
    /\ pc \in {"collect", "shared", "lookup"} /\ status[r] \in {"live", "dying"}
    /\ cache[r] = None
    /\ cache' = [cache EXCEPT ![r] = snap[r]]
    /\ UNCHANGED <<fs, account, ops, tool, since>>

\* resolve_again does without the extent tree.
ResolveAgain ==
    /\ pc = "idle"
    /\ pc' = "lookup"
    /\ quiet' = TRUE
    /\ UNCHANGED <<fs, account, ops, cache, path, data, found, size, result, lagged, steady>>

\* collect, for one data ref: what is in the file has to add up to it.
AddsUp(r) == status[r] = "live" /\ tree[r].n = data[r]

Collect(r) ==
    /\ pc = "collect" /\ r \in DOMAIN data /\ AddsUp(r)
    /\ found' = [s \in DOMAIN found \union {r} |->
                   IF s = r THEN [n |-> tree[r].n, gen |-> tree[r].gen] ELSE found[s]]
    /\ data' = Restrict(data, DOMAIN data \ {r})
    /\ UNCHANGED <<fs, account, ops, cache, pc, path, size, result, since>>

\* Mutant: an account that does not add up is given up on.
FallBackNot == Finish("err") /\ UNCHANGED <<found, data>>

\* What the extent tree said did not add up, or may not be all.
FallBack ==
    /\ pc' = "lookup" /\ found' = Nothing /\ data' = Nothing
    /\ UNCHANGED result

CollectFails(r) ==
    /\ pc = "collect" /\ r \in DOMAIN data /\ ~AddsUp(r)
    /\ IF path = "tree" THEN FallBack ELSE Finish("err") /\ UNCHANGED <<data, found>>
    /\ UNCHANGED <<fs, account, ops, cache, path, size, since>>

\* Everything is collected.  What the walk named is the answer; what the extent
\* tree named is looked at once more.
Collected ==
    /\ pc = "collect" /\ DOMAIN data = {}
    /\ \/ /\ found = Nothing /\ path = "tree"
          /\ FallBack
       \/ /\ found = Nothing /\ path = "walk"
          /\ Finish("err")
          /\ UNCHANGED <<data, found>>
       \/ /\ found # Nothing /\ path = "tree"
          /\ pc' = "shared" /\ data' = [r \in DOMAIN found |-> found[r].n]
          /\ UNCHANGED <<found, result>>
       \/ /\ found # Nothing /\ path = "walk"
          /\ Finish("ok")
          /\ UNCHANGED <<data, found>>
    /\ UNCHANGED <<fs, account, ops, cache, path, size, since>>

-----------------------------------------------------------------------------
(* may_be_shared.                                                          *)

\* Mutant: only a leaf older than the snapshot.
MayBeSharedOlder(generation, last) == generation < last

MayBeShared(generation, last) == generation <= last

\* last_snapshot, from the cache or the root item.
LastSnapshot(r) == IF cache[r] # None THEN cache[r] ELSE snap[r]
HasRootItem(r)  == cache[r] # None \/ status[r] \in {"live", "dying"}

\* One of the references.  The first that may be shared decides.
CheckShared(r) ==
    /\ pc = "shared" /\ r \in DOMAIN data /\ HasRootItem(r)
    /\ cache' = [cache EXCEPT ![r] = LastSnapshot(r)]
    /\ IF MayBeShared(found[r].gen, LastSnapshot(r))
         THEN FallBack
         ELSE /\ data' = Restrict(data, DOMAIN data \ {r})
              /\ UNCHANGED <<pc, found, result>>
    /\ UNCHANGED <<fs, account, ops, path, size, since>>

CheckFails(r) ==
    /\ pc = "shared" /\ r \in DOMAIN data /\ ~HasRootItem(r)
    /\ Finish("err")
    /\ UNCHANGED <<fs, account, ops, cache, path, data, found, size, since>>

NotShared ==
    /\ pc = "shared" /\ DOMAIN data = {}
    /\ Finish("ok")
    /\ UNCHANGED <<fs, account, ops, cache, path, data, found, size, since>>

-----------------------------------------------------------------------------
(* logical_ino.                                                            *)

\* What the kernel's walk comes to now: every file that can be opened, and
\* maybe some of those being deleted.
Reached(some) == {r \in Present : tree[r].n > 0 /\ (status[r] = "live" \/ r \in some)}

Needed(roots) == Cardinality(UNION {{r} \X (1 .. tree[r].n) : r \in roots})

\* Mutant: the buffer stays as it is.
GrownNot(missing) == size

Grown(missing) == size + missing

LookupNone ==
    /\ pc = "lookup" /\ Reached(Roots) = {}
    /\ Finish("err")
    /\ UNCHANGED <<fs, account, ops, cache, path, data, found, size, since>>

LookupTooSmall(some) ==
    /\ pc = "lookup" /\ Reached(Roots) # {} /\ Needed(Reached(some)) > size
    /\ LET larger == Grown(Needed(Reached(some)) - size) IN
         IF larger > MaxSize THEN Finish("err") /\ UNCHANGED size
                             ELSE size' = larger /\ UNCHANGED <<pc, result>>
    /\ UNCHANGED <<fs, account, ops, cache, path, data, found, since>>

Lookup(some) ==
    /\ pc = "lookup" /\ Reached(Roots) # {} /\ Needed(Reached(some)) <= size
    /\ pc' = "collect" /\ path' = "walk"
    /\ data' = [r \in Reached(some) |-> tree[r].n]
    /\ steady' = Held
    /\ UNCHANGED <<fs, account, ops, cache, found, size, result, lagged, quiet>>

-----------------------------------------------------------------------------
Done == pc = "done" /\ UNCHANGED vars

\* Resolution goes on once it has begun.
Goes == \/ \E r \in Roots : Collect(r) \/ CollectFails(r) \/ CheckShared(r) \/ CheckFails(r)
        \/ Collected \/ NotShared \/ LookupNone
        \/ \E some \in SUBSET (Present \ {r \in Roots : status[r] = "live"}) :
             LookupTooSmall(some) \/ Lookup(some)

Users == \/ \E r \in Roots : \/ \E n \in 0 .. MaxRefs : Write(r, n)
                             \/ \E s \in Roots : Snapshot(r, s)
                             \/ DeleteSubvolume(r) \/ Clean(r)
         \/ Commit \/ Flush

Next == ReadBatch \/ ResolveAgain \/ Goes \/ (\E r \in Roots : OtherThread(r)) \/ Users \/ Done

Spec == Init /\ [][Next]_vars /\ WF_vars(Goes)

-----------------------------------------------------------------------------
(* What is to be shown.                                                    *)

FoundRefs == UNION {{r} \X (1 .. found[r].n) : r \in DOMAIN found}

\* Every reference is found (resolve, resolve_again): those the backreference
\* walk comes to, by whichever files and snapshots still hold them when their
\* turn comes, and, where resolution trusts the extent tree instead, every one
\* there all along, snapshots sharing a leaf included, as long as what the
\* extent tree said stayed true.
EveryReferenceFound ==
    result = "ok" /\ (path = "walk" \/ ~lagged) => steady \subseteq FoundRefs

\* An extent nobody touches while it is looked up is resolved, however far the
\* extent tree lags behind (resolve falls back on the walk), unless nobody
\* holds it, a subvolume on its way out does, or they are more than fit.
QuietResolves ==
    result = "err" /\ quiet => \/ Held = {}
                               \/ \E r \in Roots : status[r] = "dying" /\ tree[r].n > 0
                               \/ Cardinality(Held) > MaxSize

\* Resolution ends, however often the lookup has to be made again with more
\* room (logical_ino).
ResolutionEnds == pc # "idle" ~> pc = "done"
=============================================================================
