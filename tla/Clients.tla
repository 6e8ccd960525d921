------------------------------- MODULE Clients -------------------------------
(***************************************************************************)
(* One account used from the front end and from a program with the SDK:    *)
(* their transactions share its nonces, allowances and listings.           *)
(***************************************************************************)
EXTENDS Dapp, SdkClient

vars == <<accountVars, dappVars, call>>

(* Every variable of the account and of its two clients keeps its type.     *)
ClientsTypeOK == AccountTypeOK /\ DappTypeOK /\ SdkTypeOK

Init == AccountInit /\ DappInit /\ SdkInit

Next ==
    \/ AccountNext /\ UNCHANGED <<dappVars, call>>
    \/ DappNext /\ UNCHANGED call
    \/ SdkNext /\ UNCHANGED dappVars

Spec == Init /\ [][Next]_vars
=============================================================================
