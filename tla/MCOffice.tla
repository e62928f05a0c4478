------------------------------ MODULE MCOffice ------------------------------
(* Instances of Office for TLC: thresholds for everybody and for a client.   *)
EXTENDS Office, TLC

MCScopes == [client : Clients \cup {All}, type : {All}]

Symmetry == Permutations(People) \cup Permutations(Partners)
=============================================================================
