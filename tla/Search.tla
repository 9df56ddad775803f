------------------------------- MODULE Search -------------------------------
(***************************************************************************)
(* SearchArgs (kernel.rs): a search over a range of a tree's keys, a       *)
(* buffer at a time, while the tree's users put items in and take them     *)
(* out.  The kernel's part is one item per step, for it lets go of the     *)
(* tree between leaves.  The arguments are a loan from a pool: each search *)
(* takes them as the one before left them.                                 *)
(***************************************************************************)
EXTENDS Integers, Sequences

CONSTANTS
    MaxObjectid, MaxType, MaxOffset,   \* u64::MAX, u8::MAX and u64::MAX
    BufSize, HeaderSize, MaxItemSize,  \* BUF_SIZE, HEADER_SIZE, MAX_ITEM_SIZE
    ItemSizes,                         \* the lengths items have
    Trees,                             \* the items there may be at first
    Ranges,                            \* what is searched for
    MaxSearches,                       \* searches made with the same arguments
    MaxOps                             \* items that come or go meanwhile

Key == [objectid : 0 .. MaxObjectid, type : 0 .. MaxType, offset : 0 .. MaxOffset]

ASSUME SearchAssumption ==
    /\ MaxObjectid \in Nat /\ MaxType \in Nat /\ MaxOffset \in Nat
    /\ BufSize \in Nat /\ HeaderSize \in Nat /\ MaxItemSize \in Nat
    /\ ItemSizes \subseteq 0 .. MaxItemSize
    /\ BufSize >= HeaderSize + MaxItemSize
    /\ Trees \subseteq SUBSET Key
    /\ Ranges \subseteq [min : Key, max : Key]
    /\ MaxSearches \in Nat /\ MaxOps \in Nat

VARIABLES
    tree,      \* the keys of the tree's items
    ops,       \* changes the users have left to make
    searches,  \* searches left to make
    pc,        \* idle, in the ioctl, or going through the buffer
    key,       \* the key range of the arguments
    buf,       \* the keys of the items in the buffer
    pos,       \* how much of the buffer they take
    each,      \* items of the buffer handed over
    handed,    \* everything handed over by this search
    result,    \* what search_all returned
    want,      \* the range it was asked for
    steady,    \* items that have been there since it began
    seen       \* and those that were there at some time since

users == <<tree, ops>>
args  == <<key, buf, pos, each>>
since == <<want, steady, seen>>
vars  == <<users, searches, pc, args, handed, result, since>>

-----------------------------------------------------------------------------
(* Keys order as (objectid, type, offset) tuples.                          *)

Less(a, b) ==
    \/ a.objectid < b.objectid
    \/ a.objectid = b.objectid /\ a.type < b.type
    \/ a.objectid = b.objectid /\ a.type = b.type /\ a.offset < b.offset

Within(k, range) == ~Less(k, range.min) /\ ~Less(range.max, k)

First == [objectid |-> 0, type |-> 0, offset |-> 0]
Last  == [objectid |-> MaxObjectid, type |-> MaxType, offset |-> MaxOffset]

Init ==
    /\ tree \in Trees /\ ops = MaxOps
    /\ searches = MaxSearches
    /\ pc = "idle"
    /\ key = [min |-> First, max |-> Last]
    /\ buf = <<>> /\ pos = 0 /\ each = 0
    /\ handed = {} /\ result = "none"
    /\ want = key /\ steady = {} /\ seen = {}

set_range(range) == key' = range

\* A search on the arguments as they come from the pool.
Begin ==
    /\ pc = "idle" /\ searches > 0
    /\ searches' = searches - 1
    /\ \E range \in Ranges :
         set_range(range) /\ want' = range
    /\ steady' = tree /\ seen' = tree
    /\ handed' = {} /\ result' = "none"
    /\ buf' = <<>> /\ pos' = 0 /\ each' = 0
    /\ pc' = "search"
    /\ UNCHANGED users

-----------------------------------------------------------------------------
(* The ioctl.                                                              *)

Ahead == {k \in tree : Within(k, key) /\ (buf # <<>> => Less(buf[Len(buf)], k))}

\* The next item, as long as it fits.
Copy ==
    /\ pc = "search"
    /\ \E k \in Ahead, size \in ItemSizes :
         /\ \A other \in Ahead : ~Less(other, k)
         /\ pos + HeaderSize + size <= BufSize
         /\ buf' = Append(buf, k)
         /\ pos' = pos + HeaderSize + size
    /\ UNCHANGED <<users, searches, pc, key, each, handed, result, since>>

\* It stops short of the end of the range only for want of room.
Return ==
    /\ pc = "search"
    /\ \/ Ahead = {}
       \/ \E size \in ItemSizes : pos + HeaderSize + size > BufSize
    /\ pc' = "items"
    /\ UNCHANGED <<users, searches, args, handed, result, since>>

Fault ==
    /\ pc = "search"
    /\ pc' = "idle" /\ result' = "err"
    /\ UNCHANGED <<users, searches, args, handed, since>>

-----------------------------------------------------------------------------
\* items: each is given the items one by one.
Each ==
    /\ pc = "items" /\ each < Len(buf)
    /\ each' = each + 1
    /\ handed' = handed \union {buf[each + 1]}
    /\ UNCHANGED <<users, searches, pc, key, buf, pos, result, since>>

\* Mutant: room for a header is taken for room for an item.
CompleteAtHeader == BufSize - pos >= HeaderSize

\* Room left for any item means the search did not stop short.
Complete == BufSize - pos >= HeaderSize + MaxItemSize

\* Mutant: the search carries on from the last key.
AdvanceNot(last) == last

\* Mutant: the offset goes past its end without a carry.
AdvanceCarryless(last) == [last EXCEPT !.offset = @ + 1]

\* Mutant: the offset wraps without a carry.
AdvanceWrapping(last) == [last EXCEPT !.offset = (@ + 1) % (MaxOffset + 1)]

\* Just past the last key returned.
Advance(last) ==
    IF last.offset < MaxOffset THEN [last EXCEPT !.offset = @ + 1]
    ELSE IF last.type < MaxType THEN [last EXCEPT !.type = @ + 1, !.offset = 0]
    ELSE [objectid |-> last.objectid + 1, type |-> 0, offset |-> 0]

\* search_all goes on unless the buffer is empty or has room to spare, or there
\* is no key past the last.
More == buf # <<>> /\ ~Complete /\ buf[Len(buf)] # Last

Continue ==
    /\ pc = "items" /\ each = Len(buf)
    /\ More
    /\ key' = [key EXCEPT !.min = Advance(buf[Len(buf)])]
    /\ buf' = <<>> /\ pos' = 0 /\ each' = 0
    /\ pc' = "search"
    /\ UNCHANGED <<users, searches, handed, result, since>>

Finish ==
    /\ pc = "items" /\ each = Len(buf)
    /\ ~More
    /\ pc' = "idle" /\ result' = "ok"
    /\ UNCHANGED <<users, searches, args, handed, since>>

-----------------------------------------------------------------------------
(* The users of the tree.                                                  *)

Insert(k) ==
    /\ ops > 0 /\ k \notin tree
    /\ ops' = ops - 1
    /\ tree' = tree \union {k}
    /\ seen' = seen \union {k}
    /\ UNCHANGED <<searches, pc, args, handed, result, want, steady>>

Delete(k) ==
    /\ ops > 0 /\ k \in tree
    /\ ops' = ops - 1
    /\ tree' = tree \ {k}
    /\ steady' = steady \ {k}
    /\ UNCHANGED <<searches, pc, args, handed, result, want, seen>>

Done == pc = "idle" /\ searches = 0 /\ UNCHANGED vars

Tool == Begin \/ Copy \/ Return \/ Fault \/ Each \/ Continue \/ Finish

Next == Tool \/ (\E k \in Key : Insert(k) \/ Delete(k)) \/ Done

Spec == Init /\ [][Next]_vars /\ WF_vars(Tool)

-----------------------------------------------------------------------------
(* What is to be shown.                                                    *)

TypeOK ==
    /\ tree \in SUBSET Key /\ ops \in 0 .. MaxOps /\ searches \in 0 .. MaxSearches
    /\ pc \in {"idle", "search", "items"} /\ result \in {"none", "ok", "err"}
    /\ key \in [min : Key, max : Key] /\ want \in [min : Key, max : Key]
    /\ buf \in Seq(Key) /\ pos \in 0 .. BufSize /\ each \in 0 .. Len(buf)
    /\ handed \in SUBSET Key /\ steady \in SUBSET Key /\ seen \in SUBSET Key

\* Whatever a search hands over was in the tree while it ran and is in the
\* range it was asked for, and it comes after everything handed over before,
\* so that nothing is handed over twice, whichever way the items fall into
\* buffers and whatever comes and goes meanwhile (search_all).
HandedInOrder ==
    [][each' = each + 1 => /\ buf[each'] \in seen
                           /\ Within(buf[each'], want)
                           /\ \A k \in handed : Less(k, buf[each'])]_vars

\* A search that says it worked has handed over every item of its range that
\* was there all along (search_all; items, for when it may stop).
NothingMissed ==
    result = "ok" => \A k \in steady : Within(k, want) => k \in handed

\* A search ends (search_all): each buffer takes it further on, and the last
\* key of all is the end.
SearchEnds == (pc = "search") ~> (pc = "idle")
=============================================================================
