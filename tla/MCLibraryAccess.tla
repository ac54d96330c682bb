-------------------------- MODULE MCLibraryAccess --------------------------
EXTENDS LibraryAccess
CONSTANTS u1, u2, l1
OwnerOfLibs == [l \in Libs |-> u1]
=============================================================================
