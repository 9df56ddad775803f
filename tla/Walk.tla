-------------------------------- MODULE Walk --------------------------------
(***************************************************************************)
(* The walk over the extent tree (Filesystem::walk, extent_batch, tally,   *)
(* ExtentWalk::next in kernel.rs): a buffer of items at a time, from an    *)
(* address on, over a tree that users and the rewrites made along the way  *)
(* change under it.  An extent is the items it has in the tree, the        *)
(* transaction it was allocated in, whether it is data or a tree block,    *)
(* and whether the tool itself made it as a copy.                          *)
(***************************************************************************)
EXTENDS Integers, Sequences, FiniteSetsExt, Functions

CONSTANTS
    MaxAddress,    \* addresses go from 0 to this, which is u64::MAX
    BlockGroups,   \* addresses with an item of some other type behind the extent's
    BufItems,      \* items a search returns at most
    MaxItems,      \* items an extent has at most
    Starts,        \* the trees there may be at first
    UserOps,       \* what users do: "begin", "commit", "alloc", "free", "refs"
    MaxOps,        \* how often they do
    MaxRewrites    \* rewrites made along the way

Address == 0 .. MaxAddress
Extent  == [gen : Nat, data : BOOLEAN, items : 1 .. MaxItems, own : BOOLEAN]
Free    == [gen |-> 0, data |-> FALSE, items |-> 0, own |-> FALSE]

ASSUME WalkAssumption ==
    /\ MaxAddress \in Nat /\ BlockGroups \subseteq Address
    /\ BufItems \in Nat \ {0} /\ MaxItems \in Nat \ {0}
    /\ MaxOps \in Nat /\ MaxRewrites \in Nat
    /\ \A s \in Starts : /\ s.gen \in Nat /\ s.running \in BOOLEAN
                         /\ s.tree \in [Address -> Extent \union {Free}]
                         /\ \A a \in Address : s.tree[a].gen <= s.gen /\ ~s.tree[a].own

VARIABLES
    tree,        \* the extent tree, by address
    gen,         \* the transaction running, or the one last committed
    running,     \* whether one is running
    ops, rewrites,   \* what users and the tool have left to do
    pc,
    generation,  \* ExtentWalk::generation
    next,        \* ExtentWalk::next; -1 is None
    last,        \* the key of the last item returned; an address and an index
    used,        \* items in the buffer
    tallies,     \* the extents read into this batch
    batch,       \* the batch, less what has been handed over
    resolving,   \* extents of it that threads of the pool are still resolving
    met,         \* addresses handed over
    result,      \* how the walk ended
    steady,      \* data extents that were there all along
    slipped      \* whether a transaction was begun between the sync and the generation

fs    == <<tree, gen, running>>
users == <<ops, slipped>>
vars  == <<fs, users, rewrites, pc, generation, next, last, used, tallies, batch,
           resolving, met, result, steady>>

None == -1

Init ==
    /\ \E s \in Starts : tree = s.tree /\ gen = s.gen /\ running = s.running
    /\ ops = MaxOps /\ rewrites = MaxRewrites
    /\ pc = "walk"
    /\ generation = 0 /\ next = None
    /\ last = <<0, 0>> /\ used = 0 /\ tallies = <<>> /\ batch = <<>>
    /\ resolving = {} /\ met = {} /\ result = "none" /\ steady = {}
    /\ slipped = FALSE

-----------------------------------------------------------------------------
(* Transactions.                                                           *)

\* What is changed now is changed in this transaction, begun if need be.
Current == IF running THEN gen ELSE gen + 1
Change(changed) == tree' = changed /\ gen' = Current /\ running' = TRUE

-----------------------------------------------------------------------------
\* Mutant: nothing is committed first.
SyncNot ==
    /\ pc = "walk" /\ pc' = "generation"
    /\ UNCHANGED <<fs, users, rewrites, generation, next, last, used, tallies, batch, resolving,
                   met, result, steady>>

\* walk: what is pending is committed, so that what comes after is newer ...
Sync ==
    /\ pc = "walk" /\ pc' = "generation"
    /\ running' = FALSE
    /\ UNCHANGED <<tree, gen, users, rewrites, generation, next, last, used, tallies, batch,
                   resolving, met, result, steady>>

\* ... than the generation read next.
ReadGeneration ==
    /\ pc = "generation" /\ pc' = "next"
    /\ generation' = gen
    /\ next' = 0
    /\ steady' = {a \in Address : tree[a].data}
    /\ UNCHANGED <<fs, users, rewrites, last, used, tallies, batch, resolving, met, result>>

\* ExtentWalk::next, for a batch that is used up.
BeginBatch ==
    /\ pc = "next" /\ batch = <<>> /\ next # None
    /\ pc' = "search"
    /\ last' = <<next, -1>> /\ used' = 0 /\ tallies' = <<>>
    /\ UNCHANGED <<fs, users, rewrites, generation, next, batch, resolving, met, result, steady>>

-----------------------------------------------------------------------------
(* extent_batch.                                                           *)

\* The items at an address: those of its extent, numbered from zero, and
\* behind them that of a block group.
ItemsAt(a) == (0 .. tree[a].items - 1) \union (IF a \in BlockGroups THEN {MaxItems} ELSE {})

After(k) == {x \in Address \X (0 .. MaxItems) :
               x[2] \in ItemsAt(x[1]) /\ (x[1] > k[1] \/ (x[1] = k[1] /\ x[2] > k[2]))}

IsFirst(k, keys) == \A x \in keys : k[1] < x[1] \/ (k[1] = x[1] /\ k[2] <= x[2])

\* Tally::add_item: the extent item, and only it, says what the extent is.
Blank(a) == [address |-> a, gen |-> None, own |-> FALSE]
Tallied(a, tally, i) ==
    IF i = 0 /\ tree[a].data THEN [tally EXCEPT !.gen = tree[a].gen, !.own = tree[a].own]
                             ELSE tally

\* One more item of the search.  Items that are not an extent's are passed over.
ReadItem ==
    /\ pc = "search" /\ used < BufItems
    /\ \E k \in After(last) :
         /\ IsFirst(k, After(last))
         /\ last' = k
         /\ tallies' =
              IF k[2] = MaxItems THEN tallies
              ELSE IF tallies # <<>> /\ tallies[Len(tallies)].address = k[1]
                THEN [tallies EXCEPT ![Len(tallies)] = Tallied(k[1], @, k[2])]
                ELSE Append(tallies, Tallied(k[1], Blank(k[1]), k[2]))
    /\ used' = used + 1
    /\ UNCHANGED <<fs, users, rewrites, pc, generation, next, batch, resolving, met, result, steady>>

\* The extents read that are data and not newer than the walk.
Keeps(t)  == t.gen # None /\ t.gen <= generation
Kept(all) ==
    LET kept[n \in 0 .. Len(all)] ==
          IF n = 0 THEN <<>>
          ELSE IF Keeps(all[n]) THEN Append(kept[n - 1], all[n]) ELSE kept[n - 1]
    IN  kept[Len(all)]

\* Mutant: extents are handed over while others of the batch are being resolved.
ResolveAhead(all) ==
    /\ batch' = all
    /\ resolving' = {t.address : t \in Range(all)}
    /\ pc' = "next"

\* ExtentWalk::next has a batch resolved by a pool of threads.
Resolve(all) ==
    /\ batch' = all
    /\ resolving' = {t.address : t \in Range(all)}
    /\ pc' = IF all = <<>> THEN "next" ELSE "resolve"

\* The search came to the end of the tree with room to spare.
EndOfTree ==
    /\ pc = "search" /\ used < BufItems /\ After(last) = {}
    /\ Resolve(Kept(tallies))
    /\ next' = None
    /\ UNCHANGED <<fs, users, rewrites, generation, last, used, tallies, met, result, steady>>

Popped == IF tallies # <<>> /\ tallies[Len(tallies)].address = last[1]
            THEN SubSeq(tallies, 1, Len(tallies) - 1) ELSE tallies

\* Mutant: the last extent reached is dropped and not read again.
RereadNot == Popped

\* tally: everything the tree has about the last extent reached, by now.
Reread == Append(Popped, Tallied(last[1], Blank(last[1]), 0))

\* Mutant: the next batch starts with the extent read again.
NextSame == last[1]

\* checked_add
NextAddress == IF last[1] = MaxAddress THEN None ELSE last[1] + 1

\* The search stopped for want of room: the last extent it reached may have more
\* items and is read again on its own.
OutOfRoom ==
    /\ pc = "search" /\ used = BufItems
    /\ Resolve(Kept(Reread))
    /\ next' = NextAddress
    /\ UNCHANGED <<fs, users, rewrites, generation, last, used, tallies, met, result, steady>>

\* A search that fails ends the walk.
Fault ==
    /\ pc = "search"
    /\ pc' = "done" /\ result' = "err" /\ next' = None
    /\ UNCHANGED <<fs, users, rewrites, generation, last, used, tallies, batch, resolving, met,
                   steady>>

-----------------------------------------------------------------------------
\* Some thread is done with an extent, one way or the other, in no order; with
\* the last of them the batch is there.
Resolved(a) ==
    /\ a \in resolving
    /\ resolving' = resolving \ {a}
    /\ pc' = IF pc = "resolve" /\ resolving = {a} THEN "next" ELSE pc
    /\ UNCHANGED <<fs, users, rewrites, generation, next, last, used, tallies, batch, met,
                   result, steady>>

\* ExtentWalk::next, for a batch with extents left.
HandOver ==
    /\ pc = "next" /\ batch # <<>>
    /\ met' = met \union {Head(batch).address}
    /\ batch' = Tail(batch)
    /\ pc' = "process"
    /\ UNCHANGED <<fs, users, rewrites, generation, next, last, used, tallies, resolving,
                   result, steady>>

\* What is done with it before the next is asked for: nothing, or a rewrite,
\* which makes a copy somewhere and lets go of the extent.
PassOver ==
    /\ pc = "process" /\ pc' = "next"
    /\ UNCHANGED <<fs, users, rewrites, generation, next, last, used, tallies, batch, resolving,
                   met, result, steady>>

Rewrite(a) ==
    /\ pc = "process" /\ pc' = "next"
    /\ rewrites > 0 /\ rewrites' = rewrites - 1
    /\ tree[a] = Free
    /\ Change([tree EXCEPT ![a] = [gen |-> Current, data |-> TRUE, items |-> 1, own |-> TRUE],
                            ![Max(met)] = Free])
    /\ steady' = steady \ {Max(met)}
    /\ UNCHANGED <<users, generation, next, last, used, tallies, batch, resolving, met, result>>

End ==
    /\ pc = "next" /\ batch = <<>> /\ next = None
    /\ pc' = "done" /\ result' = "ok"
    /\ UNCHANGED <<fs, users, rewrites, generation, next, last, used, tallies, batch, resolving,
                   met, steady>>

-----------------------------------------------------------------------------
(* The users, and what is let go of after a rewrite.                       *)

User(op) ==
    /\ op \in UserOps /\ ops > 0 /\ ops' = ops - 1
    /\ slipped' = (slipped \/ (pc = "generation" /\ op # "commit"))
    /\ UNCHANGED <<rewrites, pc, generation, next, last, used, tallies, batch, resolving, met,
                   result>>

UserBegin ==
    /\ User("begin") /\ ~running
    /\ running' = TRUE /\ gen' = gen + 1
    /\ UNCHANGED <<tree, steady>>

UserCommit ==
    /\ User("commit") /\ running
    /\ running' = FALSE
    /\ UNCHANGED <<tree, gen, steady>>

UserAllocate(a, n) ==
    /\ User("alloc") /\ tree[a] = Free
    /\ Change([tree EXCEPT ![a] = [gen |-> Current, data |-> TRUE, items |-> n, own |-> FALSE]])
    /\ UNCHANGED steady

UserFree(a) ==
    /\ User("free") /\ tree[a] # Free
    /\ Change([tree EXCEPT ![a] = Free])
    /\ steady' = steady \ {a}

\* References come and go, and with them items behind the extent item.
UserRefs(a, n) ==
    /\ User("refs") /\ tree[a] # Free /\ n # tree[a].items
    /\ Change([tree EXCEPT ![a].items = n])
    /\ UNCHANGED steady

Done == pc = "done" /\ UNCHANGED vars

Tool == \/ Sync \/ ReadGeneration \/ BeginBatch \/ ReadItem \/ EndOfTree \/ OutOfRoom
        \/ Fault \/ HandOver \/ PassOver \/ End
        \/ (\E a \in Address : Resolved(a) \/ Rewrite(a))

Users == \/ UserBegin \/ UserCommit
         \/ \E a \in Address : \/ UserFree(a)
                               \/ \E n \in 1 .. MaxItems : UserAllocate(a, n) \/ UserRefs(a, n)

Next == Tool \/ Users \/ Done

Spec == Init /\ [][Next]_vars /\ WF_vars(Tool)

-----------------------------------------------------------------------------
(* What is to be shown.                                                    *)

\* Each extent is met once and in address order, whatever is freed, allocated
\* or reused behind and ahead of the walk, and wherever a batch ends (the
\* comment on ExtentWalk).
MetInOrder == [][\A a \in met : batch' # batch /\ Len(batch') < Len(batch)
                                  => a < Head(batch).address]_vars

\* A walk that comes to its end has met every data extent that was there from
\* its beginning and never freed, however its items fall into buffers
\* (extent_batch).
NothingPassedOver == result = "ok" => steady \subseteq met

\* Copies made by the run itself are passed over (the comments in
\* Filesystem::walk and on ExtentWalk), unless someone else began a transaction
\* in between the sync and the reading of the generation, which the copies may
\* then be part of.
OwnCopiesPassedOver == ~slipped => \A n \in 1 .. Len(batch) : ~batch[n].own

\* Nothing is being looked up while an extent is dealt with (the comment on
\* ExtentWalk): a dedupe and a backreference walk that meet can hang the kernel.
NoLookupDuringRewrite == pc = "process" => resolving = {}

\* The walk ends (extent_batch): every batch gets it on to a later address.
WalkEnds == <>(pc = "done")
=============================================================================
