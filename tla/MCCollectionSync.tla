-------------------------- MODULE MCCollectionSync --------------------------
(* Small instances of CollectionSync. *)
EXTENDS CollectionSync
=============================================================================
