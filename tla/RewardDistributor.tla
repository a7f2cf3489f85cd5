-------------------------- MODULE RewardDistributor --------------------------
(***************************************************************************)
(* contracts/rewards/RewardDistributor.sol, paying in the APY token        *)
(* (GovernanceTokenV2): a signer signs claims off the chain, with a nonce  *)
(* for each wallet, and anyone may submit them, any number of times and in *)
(* any order.  The owner replaces the signer; a claim that was not used    *)
(* may be signed again with another amount.                                *)
(*                                                                         *)
(* A signature is the signer it recovers to, which is the zero address     *)
(* when it is malformed.  The owner may make that the signer; for as long  *)
(* as it is, any claim passes that has such a signature.                   *)
(***************************************************************************)
EXTENDS GovernanceTokenV2, Sequences, FiniteSets

CONSTANTS
    Distributor,    \* the contract's account
    Wallets,
    Signers,
    FirstSigner,
    NoSigner,       \* the zero address
    MaxNonce,       \* bound: nonces signed for
    MaxIssued       \* bound: claims signed

ASSUME DistributorAssumption ==
    /\ Distributor \in Accounts /\ Wallets \subseteq Accounts \ {Distributor}
    /\ FirstSigner \in Signers /\ NoSigner \notin Signers
    /\ MaxNonce \in Nat /\ MaxIssued \in Nat

VARIABLES
    accountNonces,
    signer,
    issued,         \* claims signed so far, for whoever submits them
    paid            \* history: the claims each wallet was paid, in order

claimVars == <<accountNonces, signer, issued, paid>>
distributorVars == <<tokenVars, claimVars>>

Claims ==
    [nonce : 0..MaxNonce, wallet : Wallets, amount : Amounts, signer : Signers \cup {NoSigner}]

-----------------------------------------------------------------------------
\* Mutant: claims may be left out.
NonceMatchesAny(claim) == claim.nonce >= accountNonces[claim.wallet]

NonceMatches(claim) == claim.nonce = accountNonces[claim.wallet]

\* Whether a signature for the claim is there that recovers to its signer.
Signed(claim) == claim \in issued \/ claim.signer = NoSigner

DistributorInit ==
    /\ TokenInit
    /\ accountNonces = [w \in Wallets |-> 0]
    /\ signer = FirstSigner
    /\ issued = {}
    /\ paid = [w \in Wallets |-> <<>>]

Issue(claim) ==
    /\ claim.signer # NoSigner
    /\ Cardinality(issued) < MaxIssued
    /\ issued' = issued \cup {claim}
    /\ UNCHANGED <<tokenVars, accountNonces, signer, paid>>

SetSigner(newSigner) ==
    /\ signer' = newSigner
    /\ UNCHANGED <<tokenVars, accountNonces, issued, paid>>

Claim(claim) ==
    /\ Signed(claim)
    /\ claim.signer = signer
    /\ NonceMatches(claim)
    /\ balances[Distributor] >= claim.amount
    /\ accountNonces' = [accountNonces EXCEPT ![claim.wallet] = @ + 1]
    /\ Transfer(Distributor, claim.wallet, claim.amount)
    /\ paid' = [paid EXCEPT ![claim.wallet] = Append(@, claim)]
    /\ UNCHANGED <<signer, issued>>

DistributorNext ==
    \/ \E claim \in Claims : Issue(claim) \/ Claim(claim)
    \/ \E s \in Signers \cup {NoSigner} : SetSigner(s)
    \/ TokenNext /\ UNCHANGED claimVars

DistributorSpec == DistributorInit /\ [][DistributorNext]_distributorVars

-----------------------------------------------------------------------------
\* A wallet is paid once for each nonce and in the order of the nonces, in claims for it
\* that were signed, or that passed while the zero address was the signer: whichever
\* of several claims for one nonce comes first uses it up, and no claim is paid
\* before the one it follows, although anyone may submit any of them at any time.
PaidInOrder ==
    \A w \in Wallets :
        /\ Len(paid[w]) = accountNonces[w]
        /\ \A i \in DOMAIN paid[w] :
               /\ Signed(paid[w][i])
               /\ paid[w][i].wallet = w
               /\ paid[w][i].nonce = i - 1
=============================================================================
