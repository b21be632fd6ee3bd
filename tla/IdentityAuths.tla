--------------------------- MODULE IdentityAuths ----------------------------
(***************************************************************************)
(* The authorization items of the `identity` pallet as the generated query *)
(* surface declares them (augment-api-query.ts, `identity: { ... }`):      *)
(*                                                                         *)
(*   authorizations(Signatory, u64)      => Observable<Option<Authorization>> *)
(*   authorizationsGiven(IdentityId, u64) => Observable<Signatory>          *)
(*                                                                         *)
(* and a client that asks which signatory holds the authorization an      *)
(* identity gave under an auth id.  authorizationsGiven is a ValueQuery:  *)
(* an absent key reads as the default Signatory, Identity(0x00..00).      *)
(* The runtime that writes the items is not in the repository: the block  *)
(* the client reads holds any Storage the doc comments allow.  Both calls *)
(* of a question are made at that block with `.at(hash)`.                  *)
(***************************************************************************)
EXTENDS Naturals

CONSTANTS
    Dids,              \* identities; DefaultDid is among them
    Signatories,       \* signatories (identities or keys); DefaultSignatory is among them
    AuthIds,           \* authorization ids (u64)
    DefaultDid,        \* IdentityId 0x00..00, the default of IdentityId
    DefaultSignatory,  \* Signatory::Identity(DefaultDid), the default of Signatory
    Checked,           \* TRUE: the client confirms the index with authorizations
    NoValue            \* an absent trie key; also Option::None

ASSUME DefaultDid \in Dids /\ DefaultSignatory \in Signatories /\ Checked \in BOOLEAN

\* The trie contents.  An Authorization is kept as its authorized_by field.
Storage ==
    [authorizations      : [Signatories \X AuthIds -> Dids \cup {NoValue}],
     authorizationsGiven : [Dids \X AuthIds -> Signatories \cup {NoValue}]]

\* Mutant: authorizations declared as a ValueQuery, whose default
\* Authorization has the default IdentityId as authorized_by.
AuthorizationsValueQuery(s, t, id) ==
    IF s.authorizations[t, id] = NoValue THEN DefaultDid ELSE s.authorizations[t, id]

\* authorizations(signatory, id) => Observable<Option<Authorization>>,
\* read as the authorization's authorized_by.
Authorizations(s, t, id) == s.authorizations[t, id]

\* authorizationsGiven(did, id) => Observable<Signatory>
AuthorizationsGiven(s, d, id) ==
    IF s.authorizationsGiven[d, id] = NoValue THEN DefaultSignatory
    ELSE s.authorizationsGiven[d, id]

\* authorizations: "All authorizations that an identity/key has";
\* authorizationsGiven: "All authorizations that an identity has given.
\* (Authorizer, auth_id -> authorized)": the second indexes the first.
Documented(s) ==
    \A d \in Dids, t \in Signatories, id \in AuthIds :
        s.authorizationsGiven[d, id] = t <=> s.authorizations[t, id] = d

ValidStorages == { s \in Storage : Documented(s) }

VARIABLES
    s,       \* the Storage of the block the client reads
    pc,      \* "idle", "given" or "auth"
    did,     \* the authorizer asked about
    authId,  \* the auth id asked about
    target,  \* the signatory authorizationsGiven answered
    answer   \* [done, holder]: the answer, holder NoValue standing for "none"

vars == <<s, pc, did, authId, target, answer>>

Init ==
    /\ s \in ValidStorages
    /\ pc = "idle"
    /\ did = DefaultDid
    /\ authId \in AuthIds
    /\ target = DefaultSignatory
    /\ answer = [done |-> FALSE, holder |-> NoValue]

Ask ==
    \E d \in Dids, id \in AuthIds :
        /\ pc = "idle"
        /\ pc' = "given"
        /\ did' = d
        /\ authId' = id
        /\ answer' = [done |-> FALSE, holder |-> NoValue]
        /\ UNCHANGED <<s, target>>

\* authorizationsGiven(did, id).  Without Checked its value is the answer.
ReadGiven ==
    /\ pc = "given"
    /\ target' = AuthorizationsGiven(s, did, authId)
    /\ IF Checked
       THEN /\ pc' = "auth" /\ UNCHANGED answer
       ELSE /\ pc' = "idle"
            /\ answer' = [done |-> TRUE, holder |-> AuthorizationsGiven(s, did, authId)]
    /\ UNCHANGED <<s, did, authId>>

\* authorizations(target, id): the answer is the target if the
\* authorization there was given by did, and none otherwise.
ReadAuthorization ==
    /\ pc = "auth"
    /\ pc' = "idle"
    /\ answer' = [done |-> TRUE,
                   holder |-> IF Authorizations(s, target, authId) = did THEN target ELSE NoValue]
    /\ UNCHANGED <<s, did, authId, target>>

\* The block read by the next question.
NewBlock ==
    /\ pc = "idle"
    /\ s' \in ValidStorages
    /\ answer' = [done |-> FALSE, holder |-> NoValue]
    /\ UNCHANGED <<pc, did, authId, target>>

Next == Ask \/ ReadGiven \/ ReadAuthorization \/ NewBlock

Spec == Init /\ [][Next]_vars

TypeOK ==
    /\ s \in Storage /\ pc \in {"idle", "given", "auth"}
    /\ answer \in [done : BOOLEAN, holder : Signatories \cup {NoValue}]

\* An answer names the signatory that holds the authorization did gave
\* under the auth id, and "none" is answered only when did gave none: the
\* default Signatory that authorizationsGiven, a ValueQuery, reads for an
\* absent key is never taken for a real authorization.
GivenAnswerCorrect ==
    answer.done =>
        IF answer.holder # NoValue
        THEN s.authorizations[answer.holder, authId] = did
        ELSE \A t \in Signatories : s.authorizations[t, authId] # did

=============================================================================
