------------------------- MODULE WalletAuthorization -------------------------
(***************************************************************************)
(* contracts/WalletAuthorization.sol: delegates authorised by an EIP-712   *)
(* signature over (owner, delegate, nonce, deadline), and revoked by a     *)
(* transaction.  A signature exists from the moment its owner signs it;    *)
(* anyone may submit it, once, at any later time or never.                 *)
(***************************************************************************)
EXTENDS Chain, FiniteSets

CONSTANTS
    MaxSignatures,   \* bound: largest nonce an owner signs for
    MaxSigned        \* bound: signatures made in all

ASSUME AuthorizationAssumption == MaxSignatures \in Nat /\ MaxSigned \in Nat

VARIABLES
    authorized,   \* _isAuthorized[owner][delegate]
    authNonce,    \* nonces[owner]
    signed,       \* history: authorisations owners have signed off-chain
    spent         \* history: signatures that have authorised a delegate

authVars == <<authorized, authNonce, signed, spent>>

Signatures == [owner : Users, delegate : Users, nonce : 0..MaxSignatures, deadline : Times]

(* An owner's nonce counts the signatures the owner has had spent.          *)
AuthTypeOK ==
    /\ authorized \in [Users -> [Users -> BOOLEAN]]
    /\ authNonce \in [Users -> 0..(MaxSignatures + 1)]
    /\ signed \in SUBSET Signatures
    /\ spent \in SUBSET Signatures

AuthInit ==
    /\ authorized = [o \in Users |-> [d \in Users |-> FALSE]]
    /\ authNonce = [o \in Users |-> 0]
    /\ signed = {} /\ spent = {}

(* Off-chain: owners sign for their next nonce, or further ahead.           *)
Sign(sig) ==
    /\ sig \in Signatures \ signed
    /\ Cardinality(signed) < MaxSigned
    /\ signed' = signed \cup {sig}
    /\ UNCHANGED <<authorized, authNonce, spent>>

(* Mutants: the digest leaves out the delegate, or the nonce.               *)
SignatureAnyDelegate(sig, owner, delegate, deadline) ==
    /\ sig \in signed
    /\ sig.owner = owner /\ sig.nonce = authNonce[owner] /\ sig.deadline = deadline

SignatureAnyNonce(sig, owner, delegate, deadline) ==
    /\ sig \in signed
    /\ sig.owner = owner /\ sig.delegate = delegate /\ sig.deadline = deadline

(* The digest is taken over the stored nonce, so a signature for any other  *)
(* nonce recovers another signer.                                           *)
ValidSignature(sig, owner, delegate, deadline) ==
    /\ sig \in signed
    /\ sig = [owner |-> owner, delegate |-> delegate,
              nonce |-> authNonce[owner], deadline |-> deadline]

AuthorizeDelegate(owner, delegate, deadline, sig) ==
    /\ now <= deadline
    /\ ValidSignature(sig, owner, delegate, deadline)
    /\ authNonce' = [authNonce EXCEPT ![owner] = @ + 1]
    /\ authorized' = [authorized EXCEPT ![owner][delegate] = TRUE]
    /\ spent' = spent \cup {sig}
    /\ UNCHANGED signed

RevokeDelegate(sender, delegate) ==
    /\ authorized[sender][delegate]
    /\ authorized' = [authorized EXCEPT ![sender][delegate] = FALSE]
    /\ UNCHANGED <<authNonce, signed, spent>>

-----------------------------------------------------------------------------
(* A delegate acts for an owner only while holding a signature of that very *)
(* owner that was spent, and no two authorisations spend one nonce: a       *)
(* signature cannot be replayed, not even after a revocation.               *)
AuthorizedBySignature ==
    /\ \A o, d \in Users : authorized[o][d] =>
          \E sig \in spent : sig.owner = o /\ sig.delegate = d
    /\ spent \subseteq signed
    /\ \A s1, s2 \in spent : (s1.owner = s2.owner /\ s1.nonce = s2.nonce) => s1 = s2

(* Authority returns after a revocation only through a signature that had   *)
(* not been used before.                                                    *)
NoSignatureReplay ==
    [][\A o, d \in Users : (~authorized[o][d] /\ authorized'[o][d]) =>
          \E sig \in spent' \ spent : sig.owner = o /\ sig.delegate = d]_authVars
=============================================================================
