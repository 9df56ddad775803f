------------------------------ MODULE DataRef -------------------------------
(***************************************************************************)
(* From who holds an extent to the file extent items themselves (collect   *)
(* and data_ref_extents, kernel.rs), once its account is added up (Tally). *)
(* Each DataRef stands for so many items of one file, and says where to    *)
(* look for them: by the base that the extent tree records, worked out     *)
(* with the wrapping arithmetic of a u64, or between the first and the     *)
(* last that the backreference walk came upon (logical_ino).  Files may    *)
(* change before they are looked at.                                       *)
(***************************************************************************)
EXTENDS Tally, SequencesExt, FiniteSetsExt

CONSTANTS
    Word,            \* 2^64
    MaxCompressed,   \* MAX_COMPRESSED_BYTES
    Files,           \* (subvolume, inode) pairs
    Extents,         \* the extent looked for: its size on disk and uncompressed
    Items,           \* the file extent items there may be
    Layouts,         \* the sets of them the files may have at first
    MaxOps           \* items that come or go meanwhile

\* An item of an extent, its own or some other one.
Item == [file : Files, file_offset : Nat, own : BOOLEAN, extent_offset : Nat]

\* A file has one item at an offset.
Same(a, b) == a.file = b.file /\ a.file_offset = b.file_offset

\* Offsets in files are signed in the kernel, and extents far smaller.  An
\* extent is as large uncompressed as it is on disk, unless it is compressed.
ASSUME DataRefAssumption ==
    /\ Word \in Nat /\ MaxCompressed \in Nat \ {0} /\ MaxOps \in Nat
    /\ 2 * MaxCompressed <= Word
    /\ IsFiniteSet(Items) /\ Items \subseteq Item
    /\ \A it \in Items : 2 * it.file_offset < Word
    /\ Layouts \subseteq SUBSET Items
    /\ \A its \in Layouts : \A a, b \in its : Same(a, b) => a = b
    /\ Extents \subseteq [disk_bytes : Nat, ram_bytes : Nat]
    /\ \A e \in Extents : /\ 2 * e.disk_bytes <= Word
                          /\ e.ram_bytes = e.disk_bytes \/ e.ram_bytes <= MaxCompressed

VARIABLES
    extent,     \* the extent looked for
    items,      \* the items the files have
    ops,        \* changes the users have left to make
    todo,       \* the DataRefs still to be looked for
    refs,       \* how often each item was collected
    result,     \* what collect returned
    steady      \* the extent's items that were there all along

vars == <<tallyvars, extent, items, ops, todo, refs, result, steady>>

-----------------------------------------------------------------------------
wrapping_sub(a, b) == IF a >= b THEN a - b ELSE a - b + Word
wrapping_add(a, b) == IF a + b < Word THEN a + b ELSE a + b - Word

Base(it) == wrapping_sub(it.file_offset, it.extent_offset)

Own(its) == {it \in its : it.own}

\* The extent tree counts the items of a file by their base.
ExtentTree(its) ==
    {[file |-> it.file, at |-> "base", base |-> Base(it),
      count |-> Cardinality({x \in Own(its) : x.file = it.file /\ Base(x) = Base(it)})]
        : it \in Own(its)}

\* logical_ino counts them by file, between the first and the last.
LogicalIno(its) ==
    {LET offsets == {x.file_offset : x \in {y \in Own(its) : y.file = it.file}}
     IN  [file |-> it.file, at |-> "between", first |-> Min(offsets), last |-> Max(offsets),
          count |-> Cardinality(offsets)]
        : it \in Own(its)}

\* Mutant: the stretch starts at the base, wrapped or not.
StretchUnwrapped(ref) ==
    IF ref.at = "between" THEN [start |-> ref.first, last |-> ref.last]
    ELSE LET uncompressed == IF extent.disk_bytes > MaxCompressed
                               THEN extent.disk_bytes ELSE MaxCompressed
         IN  [start |-> ref.base, last |-> wrapping_add(ref.base, uncompressed - 1)]

\* Where in its file the items of a DataRef can be.
Stretch(ref) ==
    IF ref.at = "between" THEN [start |-> ref.first, last |-> ref.last]
    ELSE LET uncompressed == IF extent.disk_bytes > MaxCompressed
                               THEN extent.disk_bytes ELSE MaxCompressed
             last == wrapping_add(ref.base, uncompressed - 1)
         IN  [start |-> IF last >= ref.base THEN ref.base ELSE 0, last |-> last]

\* Mutant: every item of the extent in the stretch is taken.
BelongsAny(it, ref) == TRUE

Belongs(it, ref) == ref.at = "base" => Base(it) = ref.base

\* data_ref_extents
Found(ref) == {it \in Own(items) :
                 /\ it.file = ref.file
                 /\ it.file_offset >= Stretch(ref).start
                 /\ it.file_offset <= Stretch(ref).last
                 /\ Belongs(it, ref)}

-----------------------------------------------------------------------------
\* The accounts an extent with these items may have: the first few of its
\* entries are in the extent item, behind a record of its owner if it has one.
Account(its) ==
    LET groups == SetToSeq(ExtentTree(its))
        entries(kinds) == [n \in DOMAIN groups |->
                             [kind |-> kinds[n], count |-> groups[n].count, ref |-> groups[n]]]
    IN  {[data |-> TRUE, inline |-> owner \o SubSeq(entries(kinds), 1, k),
          keyed |-> SubSeq(entries(kinds), k + 1, Len(groups))] :
            owner \in {<<>>, <<[kind |-> "owner", count |-> 0]>>},
            kinds \in [DOMAIN groups -> {"data", "shared"}], k \in 0 .. Len(groups)}

\* That of a tree block.
TreeBlock == [data |-> FALSE, inline |-> <<>>, keyed |-> <<[kind |-> "shared", count |-> 1]>>]

Init ==
    /\ extent \in Extents
    /\ items \in Layouts
    /\ \A it \in Own(items) : it.extent_offset < extent.ram_bytes
    /\ TallyInit(IF Own(items) = {} THEN {TreeBlock} ELSE Account(items))
    /\ ops = MaxOps
    /\ todo = {} /\ refs = [it \in Items |-> 0]
    /\ result = "none"
    /\ steady = Own(items)

\* The account is added up, as it was read.
AddUp == TallyNext /\ UNCHANGED <<extent, items, ops, todo, refs, result, steady>>

\* A tree block is passed over.  Of a data extent, the DataRefs of its account
\* are looked for if those are all, and what logical_ino comes to if not.  That
\* resolve turns to logical_ino when the former fails is in module Resolve.
Begin ==
    /\ result = "none" /\ tally # "none"
    /\ \/ tally = "nothing" /\ result' = "nothing" /\ UNCHANGED todo
       \/ /\ tally = "files" /\ result' = "begun"
          /\ todo' = {data_refs[n].ref : n \in DOMAIN data_refs}
       \/ tally = "opaque" /\ result' = "begun" /\ todo' = LogicalIno(items)
    /\ UNCHANGED <<tallyvars, extent, items, ops, refs, steady>>

\* collect, one DataRef after another; it fails if what is there does not add
\* up to what was said.
Collect(ref) ==
    /\ result = "begun"
    /\ \/ /\ Cardinality(Found(ref)) # ref.count
          /\ result' = "changed"
          /\ UNCHANGED <<todo, refs>>
       \/ /\ Cardinality(Found(ref)) = ref.count
          /\ refs' = [it \in Items |-> refs[it] + (IF it \in Found(ref) THEN 1 ELSE 0)]
          /\ todo' = todo \ {ref}
          /\ UNCHANGED result
    /\ UNCHANGED <<tallyvars, extent, items, ops, steady>>

Collected ==
    /\ result = "begun" /\ todo = {}
    /\ result' = IF \A it \in Items : refs[it] = 0 THEN "unreferenced" ELSE "ok"
    /\ UNCHANGED <<tallyvars, extent, items, ops, todo, refs, steady>>

-----------------------------------------------------------------------------
(* The users.  What they do while the account is added up makes no         *)
(* difference before that is done.                                         *)

\* An item lies within its extent.
Put(it) ==
    /\ ops > 0 /\ tally # "none"
    /\ it.own => it.extent_offset < extent.ram_bytes
    /\ it \notin items
    /\ ops' = ops - 1
    /\ items' = {x \in items : ~Same(x, it)} \union {it}
    /\ steady' = {x \in steady : ~Same(x, it)}
    /\ UNCHANGED <<tallyvars, extent, todo, refs, result>>

Punch(it) ==
    /\ ops > 0 /\ tally # "none" /\ it \in items
    /\ ops' = ops - 1
    /\ items' = items \ {it}
    /\ steady' = steady \ {it}
    /\ UNCHANGED <<tallyvars, extent, todo, refs, result>>

Done == result \notin {"none", "begun"} /\ UNCHANGED vars

Next == \/ AddUp \/ Begin
        \/ (\E ref \in todo : Collect(ref))
        \/ Collected
        \/ (\E it \in Items : Put(it) \/ Punch(it))
        \/ Done

Spec == Init /\ [][Next]_vars

-----------------------------------------------------------------------------
(* What is to be shown.                                                    *)

\* What collect returns has every item of the extent that was there all along
\* once, however the stretches of its DataRefs overlap, and no item twice
\* (collect, data_ref_extents).
CollectedOnce ==
    /\ \A it \in Items : refs[it] <= 1
    /\ result = "ok" => \A it \in steady : refs[it] = 1

\* A collection that fails means that some file changed since its DataRefs
\* were read, as the comment on collect has it: the stretch of each DataRef
\* has all of its items, also where the base wraps and where the extent is
\* compressed.
FailsOnlyIfChanged == result \in {"changed", "unreferenced"} => ops < MaxOps
=============================================================================
