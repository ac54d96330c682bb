--------------------------- MODULE MCDawarichSync ---------------------------
(* Small instances of DawarichSync. *)
EXTENDS DawarichSync

AllCalls == Calls
=============================================================================
