-------------------------- MODULE MultiSigStorage ---------------------------
(***************************************************************************)
(* The items of the `multiSig` pallet that describe one proposal of one    *)
(* multisig, as the generated query surface declares them                  *)
(* (augment-api-query.ts, `multiSig: { ... }`).                            *)
(*                                                                         *)
(* A key absent from the trie holds NoValue.  Option accessors read it as  *)
(* None (NoValue); ValueQuery accessors read it as the default, 0 for u64. *)
(* The runtime that writes the items is not in the repository; a block may *)
(* hold any Storage its doc comments allow (Documented).                   *)
(***************************************************************************)
EXTENDS Naturals, FiniteSets

CONSTANTS
    Signers,        \* the signer accounts (AccountId32) of the multisig
    SignsRequired,  \* the value multiSigSignsRequired holds for the multisig
    NoValue         \* an absent trie key; also Option::None

ASSUME SignsRequired \in 1..Cardinality(Signers)

\* PolymeshPrimitivesMultisigProposalState, without the expiry of Active.
States == {"Active", "ExecutionSuccessful", "ExecutionFailed", "Rejected"}
Executed == {"ExecutionSuccessful", "ExecutionFailed"}

\* PolymeshPrimitivesMultisigProposalVoteCount.
VoteCounts == [approvals : 0..Cardinality(Signers), rejections : 0..Cardinality(Signers)]

\* The trie contents of the items for the multisig and the watched proposal.
Storage ==
    [multiSigSignsRequired : {SignsRequired},
     proposalStates        : States \cup {NoValue},
     proposalVoteCounts    : VoteCounts \cup {NoValue}]

(***************************************************************************)
(* The accessors, with the semantics of their declared return types.       *)
(***************************************************************************)

\* multiSigSignsRequired(ms) => Observable<u64>
MultiSigSignsRequired(s) ==
    IF s.multiSigSignsRequired = NoValue THEN 0 ELSE s.multiSigSignsRequired
\* proposalStates(ms, id) => Observable<Option<ProposalState>>
ProposalStates(s) == s.proposalStates
\* proposalVoteCounts(ms, id) => Observable<Option<ProposalVoteCount>>
ProposalVoteCounts(s) == s.proposalVoteCounts

(***************************************************************************)
(* What the doc comments say of the items.                                 *)
(***************************************************************************)

\* multiSigSignsRequired: "Confirmations required before processing a
\* multisig tx": a proposal that was executed, successfully or not, had at
\* least that many approvals counted by proposalVoteCounts ("The count of
\* approvals/rejections of a multisig proposal").
Documented(s) ==
    ProposalStates(s) \in Executed =>
        /\ ProposalVoteCounts(s) # NoValue
        /\ ProposalVoteCounts(s).approvals >= MultiSigSignsRequired(s)

\* The storages a block of the chain may hold.
ValidStorages == { s \in Storage : Documented(s) }

=============================================================================
