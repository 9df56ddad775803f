------------------------------- MODULE Tally --------------------------------
(***************************************************************************)
(* The extent tree's account of one extent, added up item by item (Tally,  *)
(* kernel.rs).  References to an extent are written into its extent item   *)
(* as long as they fit and into items of their own behind it otherwise,    *)
(* and the reading may be cut short by the end of a search buffer.  An     *)
(* entry names its file ("data"), or a tree block or something not read    *)
(* here ("shared"), or is the record of an owner, which is no reference.   *)
(* Module DataRef goes on from what comes of it.                           *)
(***************************************************************************)
EXTENDS Integers, Sequences

VARIABLES
    account,    \* what there is to read: the entries in the extent item and behind it
    left,       \* items to be read before the reading is cut short
    part,       \* in the extent item, its inline references, or behind it
    inline,     \* inline references not read yet
    keyed,      \* items behind the extent item not read yet
    item,       \* Tally::item, as its number of references, or -1
    counted,    \* Tally::counted
    data_refs,  \* Tally::data_refs
    opaque,     \* Tally::opaque
    tally       \* what finish says

tallyvars == <<account, left, part, inline, keyed, item, counted, data_refs, opaque, tally>>

Entries == account.inline \o account.keyed

\* The references that the first n entries stand for.
Count(entries, n) ==
    LET sum[i \in 0 .. Len(entries)] == IF i = 0 THEN 0 ELSE sum[i - 1] + entries[i].count
    IN  sum[n]

TallyInit(accounts) ==
    /\ account \in accounts
    /\ left \in 0 .. Len(account.keyed) + 1
    /\ part = "item"
    /\ inline = <<>> /\ keyed = account.keyed
    /\ item = -1 /\ counted = 0 /\ data_refs = <<>>
    /\ opaque = FALSE /\ tally = "none"

add_data_ref(entry) ==
    /\ counted' = counted + entry.count
    /\ data_refs' = Append(data_refs, entry)

\* add_item for the extent item; a tree block's is passed over.
AddExtentItem ==
    /\ part = "item" /\ left > 0
    /\ left' = left - 1
    /\ IF account.data
         THEN item' = Count(Entries, Len(Entries)) /\ inline' = account.inline
         ELSE UNCHANGED <<item, inline>>
    /\ part' = "inline"
    /\ UNCHANGED <<account, keyed, counted, data_refs, opaque, tally>>

\* Mutant: an owner is taken for a reference of some other kind.
AddInlineOwnerUnknown ==
    /\ part = "inline" /\ inline # <<>>
    /\ IF Head(inline).kind = "data"
         THEN add_data_ref(Head(inline)) /\ inline' = Tail(inline) /\ UNCHANGED opaque
         ELSE opaque' = TRUE /\ inline' = <<>> /\ UNCHANGED <<counted, data_refs>>
    /\ UNCHANGED <<account, left, part, keyed, item, tally>>

\* add_inline: what cannot be read ends it, for there is no telling its length.
AddInline ==
    /\ part = "inline" /\ inline # <<>>
    /\ \/ /\ Head(inline).kind = "data"
          /\ add_data_ref(Head(inline))
          /\ inline' = Tail(inline)
          /\ UNCHANGED opaque
       \/ /\ Head(inline).kind = "owner"
          /\ inline' = Tail(inline)
          /\ UNCHANGED <<counted, data_refs, opaque>>
       \/ /\ Head(inline).kind = "shared"
          /\ opaque' = TRUE
          /\ inline' = <<>>
          /\ UNCHANGED <<counted, data_refs>>
    /\ UNCHANGED <<account, left, part, keyed, item, tally>>

\* add_item for what follows the extent item.
AddKeyed ==
    /\ part = "inline" /\ inline = <<>>
    /\ keyed # <<>> /\ left > 0
    /\ left' = left - 1
    /\ keyed' = Tail(keyed)
    /\ IF Head(keyed).kind = "data"
         THEN add_data_ref(Head(keyed)) /\ UNCHANGED opaque
         ELSE opaque' = TRUE /\ UNCHANGED <<counted, data_refs>>
    /\ UNCHANGED <<account, part, inline, item, tally>>

\* Mutant: the references are not held against the number there are.
FinishUncounted ==
    /\ tally = "none"
    /\ left = 0 \/ (part = "inline" /\ keyed = <<>>)
    /\ inline = <<>>
    /\ tally' = IF item = -1 THEN "nothing" ELSE IF opaque THEN "opaque" ELSE "files"
    /\ UNCHANGED <<account, left, part, inline, keyed, item, counted, data_refs, opaque>>

Finish ==
    /\ tally = "none"
    /\ left = 0 \/ (part = "inline" /\ keyed = <<>>)
    /\ inline = <<>>
    /\ tally' = IF item = -1 THEN "nothing"
                 ELSE IF opaque \/ counted # item THEN "opaque" ELSE "files"
    /\ UNCHANGED <<account, left, part, inline, keyed, item, counted, data_refs, opaque>>

TallyNext == AddExtentItem \/ AddInline \/ AddKeyed \/ Finish

-----------------------------------------------------------------------------
(* What is to be shown.                                                    *)

\* Which of the first n entries are references.
References(entries, n) ==
    LET some[i \in 0 .. Len(entries)] ==
          IF i = 0 THEN <<>>
          ELSE IF entries[i].kind = "owner" THEN some[i - 1]
          ELSE Append(some[i - 1], entries[i])
    IN  some[n]

\* An account is taken to name every holder only if it does: it has all the
\* references there are and each names its file, wherever the reading was cut
\* short (finish).
FilesIsEverything ==
    tally = "files" => /\ account.data
                       /\ data_refs = References(Entries, Len(Entries))
                       /\ \A n \in 1 .. Len(Entries) : Entries[n].kind # "shared"

\* And it is said to be opaque only if some reference does not name its file
\* or the reading was cut short: the costly backreference walk is not made for
\* nothing (add_inline, finish).
OpaqueForAReason ==
    tally = "opaque" => \/ keyed # <<>>
                        \/ \E n \in 1 .. Len(Entries) : Entries[n].kind = "shared"
=============================================================================
