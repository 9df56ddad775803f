----------------------------- MODULE MCResolve ------------------------------
(***************************************************************************)
(* Small instances of Resolve: three subvolumes, so that a snapshot can be *)
(* taken of a snapshot, and files of up to two references.                 *)
(***************************************************************************)
EXTENDS Resolve
=============================================================================
