------------------------------- MODULE MCPage -------------------------------
(* The page opened by the protocol's owner, by an account with a token and  *)
(* USDC, and by a delegate.                                                 *)
EXTENDS Page

Accounts == {OwnerFacts \union {"strategyActive", "ruleDue"},
             {"usdc", "vaultRoom", "vaultAllowed", "holdsToken", "nftApproved", "sellerReady"},
             {"royalties", "forOwner"}}
=============================================================================
