----------------------------- MODULE MCDataRef ------------------------------
(***************************************************************************)
(* A small instance of DataRef: words of four bits, an extent that is      *)
(* compressed and one that is not, and up to three items, early and late   *)
(* in their files, of which one belongs to another extent.                 *)
(***************************************************************************)
EXTENDS DataRef

MCExtents == { [disk_bytes |-> 4, ram_bytes |-> 4], [disk_bytes |-> 1, ram_bytes |-> 2] }
MCItem(f, at, own, e) == [file |-> f, file_offset |-> at, own |-> own, extent_offset |-> e]
MCItems == {MCItem(1, at, TRUE, e) : at \in {0, 1, 7}, e \in {0, 1, 3}}
             \union {MCItem(1, 1, FALSE, 0), MCItem(2, 0, TRUE, 0), MCItem(2, 0, TRUE, 3)}
MCLayouts == {its \in {{a, b, c} : a, b, c \in MCItems} :
                \A a, b \in its : Same(a, b) => a = b}
=============================================================================
