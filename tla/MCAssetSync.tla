---------------------------- MODULE MCAssetSync ----------------------------
(* Small instances of AssetSync, of FrequentLocations and of Accounts: how *)
(* the rows of the photos come about, what is computed from them, and whom *)
(* they belong to.  The three share no variable: a behaviour runs one and  *)
(* leaves the others in their initial states.                              *)
EXTENDS AssetSync, FrequentLocations, Accounts

MCConfigured == <<"here">>

VARIABLE part

MCInit ==
    /\ part \in {"assets", "frequent", "accounts"}
    /\ Init /\ FrequentInit /\ AccountsInit

\* Recomputations and requests may stop for good, a sync may not.
MCNext ==
    \/ part = "assets" /\ Next /\ UNCHANGED <<part, frequentVars, accountVars>>
    \/ part = "frequent" /\ (FrequentNext \/ UNCHANGED frequentVars)
                         /\ UNCHANGED <<part, vars, accountVars>>
    \/ part = "accounts" /\ (AccountsNext \/ UNCHANGED accountVars)
                         /\ UNCHANGED <<part, vars, frequentVars>>

MCSpec == MCInit /\ [][MCNext]_<<part, vars, frequentVars, accountVars>>
=============================================================================
