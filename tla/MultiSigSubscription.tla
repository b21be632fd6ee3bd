------------------------ MODULE MultiSigSubscription ------------------------
(***************************************************************************)
(* A client that watches one multisig proposal through two subscriptions  *)
(* of the generated query surface:                                         *)
(*                                                                         *)
(*   api.query.multiSig.proposalStates(ms, id)     => Observable<Option<   *)
(*                                                    ProposalState>>      *)
(*   api.query.multiSig.proposalVoteCounts(ms, id) => Observable<Option<   *)
(*                                                    ProposalVoteCount>>  *)
(*                                                                         *)
(* The declared type of each accessor is an Observable: a stream of values *)
(* of its own item, each for one block, in block order.  The two streams   *)
(* are separate, so the client's handler may run for either one first.    *)
(* The client shows the latest value of each stream side by side, what    *)
(* combineLatest over the two Observables does.                            *)
(***************************************************************************)
EXTENDS MultiSigStorage, Sequences

CONSTANT MaxBlocks   \* the length of the longest chain the model builds

ASSUME MaxBlocks \in Nat \ {0}

VARIABLES
    chain,      \* chain[b]: the multisig's storage at block b
    stateSub,   \* values of proposalStates(ms, id) not yet handled
    countSub,   \* values of proposalVoteCounts(ms, id) not yet handled
    view        \* what the client shows: [state, counts]

vars == <<chain, stateSub, countSub, view>>

Init ==
    \E s \in ValidStorages :
        /\ chain = <<s>>
        /\ stateSub = <<ProposalStates(s)>>
        /\ countSub = <<ProposalVoteCounts(s)>>
        /\ view = [state |-> NoValue, counts |-> NoValue]

\* A new block is imported; each subscription gets the item's value there.
NewBlock ==
    \E s \in ValidStorages :
        /\ Len(chain) < MaxBlocks
        /\ chain' = Append(chain, s)
        /\ stateSub' = Append(stateSub, ProposalStates(s))
        /\ countSub' = Append(countSub, ProposalVoteCounts(s))
        /\ UNCHANGED view

\* The handler of each stream replaces its half of the view.
ReceiveState ==
    /\ stateSub # <<>>
    /\ view' = [view EXCEPT !.state = Head(stateSub)]
    /\ stateSub' = Tail(stateSub)
    /\ UNCHANGED <<chain, countSub>>

ReceiveCounts ==
    /\ countSub # <<>>
    /\ view' = [view EXCEPT !.counts = Head(countSub)]
    /\ countSub' = Tail(countSub)
    /\ UNCHANGED <<chain, stateSub>>

Next == NewBlock \/ ReceiveState \/ ReceiveCounts

Spec == Init /\ [][Next]_vars

TypeOK ==
    /\ chain \in Seq(Storage) /\ Len(chain) \in 1..MaxBlocks
    /\ view \in [state : States \cup {NoValue}, counts : VoteCounts \cup {NoValue}]

\* When the client shows the proposal as executed next to its vote counts,
\* the counts have at least multiSigSignsRequired approvals: it never
\* presents an executed proposal with fewer confirmations than the
\* multisig requires, which every single block guarantees (Documented).
DisplayedExecutionJustified ==
    (view.state \in Executed /\ view.counts # NoValue) =>
        view.counts.approvals >= MultiSigSignsRequired(chain[Len(chain)])

=============================================================================
