----------------------------- MODULE MCRealloc ------------------------------
(***************************************************************************)
(* Small instances of Realloc: two files of three sectors of two bytes,    *)
(* over an extent of four or five sectors whose bytes are all different,   *)
(* so that a byte that ends up in the wrong place is seen.                 *)
(***************************************************************************)
EXTENDS Realloc, TLC

MCExtent == [s \in 0 .. ExtentSectors - 1 |->
               [o \in Offsets |-> 1 + Pos(s, o)]]
MCBytes == 0 .. Pos(ExtentSectors, 0) + 1
MCInitDisk == <<MCExtent>>

\* A layout is a sequence of sectors of Ext counted from one, 0 for a hole;
\* neighbours that are neighbours in Ext too are in one item unless split.
MapOf(layout, split) ==
    [i \in Sectors |->
       IF layout[i + 1] = 0 THEN Hole
       ELSE [addr |-> Ext, sec |-> layout[i + 1] - 1,
             head |-> \/ split \/ i = 0
                      \/ layout[i] = 0 \/ layout[i] + 1 # layout[i + 1]]]

FileOf(layout, size, split) ==
    [link |-> 1, size |-> size, mtime |-> 0, nocow |-> FALSE,
     map |-> MapOf(layout, split)]

Layouts == [1 .. MaxSectors -> 0 .. ExtentSectors]

\* Every layout of one file against the ones of another that overlap it,
\* touch it or leave it alone, with ends on and within a sector.
AnyFile == {FileOf(l, s, FALSE) : l \in Layouts, s \in {1, 3, 5, 6}}
OtherFile ==
    {FileOf(l, s, FALSE) : l \in {<<1, 2, 0>>, <<2, 3, 4>>, <<4, 0, 2>>, <<3, 3, 0>>},
                           s \in {3, 4, 5, 6}}
      \union {FileOf(<<1, 2, 3>>, 5, TRUE), FileOf(<<2, 0, 0>>, 1, FALSE),
              FileOf(<<0, 0, 0>>, 6, FALSE),
              [FileOf(<<3, 0, 0>>, 2, FALSE) EXCEPT !.link = 0]}
QuietFiles ==
    {fs \in {[f \in Files |-> IF f = 1 THEN a ELSE b] : a \in AnyFile, b \in OtherFile} :
        \E f \in Files, i \in Sectors : fs[f].map[i].addr = Ext}
      \union {[f \in Files |-> [FileOf(l, 5, FALSE) EXCEPT !.nocow = TRUE]] :
                 l \in {<<1, 2, 0>>, <<0, 2, 3>>}}

\* Files in use: shared, overlapping and ragged, one that holds nothing, one
\* with an item of three sectors, which a write can split, and two that hold
\* most of the extent between them.
BusyFiles ==
    { (1 :> FileOf(<<2, 3, 0>>, 3, FALSE) @@ 2 :> FileOf(<<0, 3, 4>>, 6, FALSE)),
      (1 :> FileOf(<<2, 3, 0>>, 3, FALSE) @@ 2 :> FileOf(<<0, 3, 0>>, 4, FALSE)),
      (1 :> FileOf(<<2, 3, 0>>, 3, TRUE) @@ 2 :> FileOf(<<2, 3, 0>>, 3, FALSE)),
      (1 :> FileOf(<<4, 0, 2>>, 5, FALSE) @@ 2 :> FileOf(<<0, 0, 0>>, 0, FALSE)),
      (1 :> FileOf(<<1, 2, 0>>, 4, FALSE) @@ 2 :> FileOf(<<2, 0, 0>>, 1, FALSE)),
      (1 :> FileOf(<<2, 3, 4>>, 6, FALSE) @@ 2 :> FileOf(<<0, 0, 0>>, 0, FALSE)),
      (1 :> FileOf(<<1, 2, 3>>, 6, FALSE) @@ 2 :> FileOf(<<0, 4, 0>>, 4, FALSE)) }

\* Identical files that end inside a sector, in one item or in two.
TailFiles == {[f \in Files |-> FileOf(<<2, 3, 0>>, 3, split)] : split \in BOOLEAN}
               \union {[f \in Files |-> FileOf(<<1, 2, 3>>, 5, FALSE)]}
=============================================================================
