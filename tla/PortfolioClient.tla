-------------------------- MODULE PortfolioClient ---------------------------
(***************************************************************************)
(* A client of the generated query surface that answers two questions     *)
(* about an identity's portfolios while the chain keeps producing blocks: *)
(*                                                                         *)
(*   Lookup(did, name): nameToNumber(did, name), then portfolios(did, n);  *)
(*   List(did):         nextPortfolioNumber(did), then portfolios(did, i)  *)
(*                      for every i below it.                              *)
(*                                                                         *)
(* Every call is a separate storage query.  With Pinned the client fixes  *)
(* the tip's hash when a question starts and makes every call with         *)
(* `.at(hash, ...)`, which every entry has through its declared            *)
(* `QueryableStorageEntry<ApiType, [...]>` type; without it each call is a *)
(* plain `api.query.portfolio.x(...)`, answered from the tip of the moment. *)
(***************************************************************************)
EXTENDS PortfolioChain

CONSTANT Pinned     \* TRUE: calls use .at(hash); FALSE: plain calls

ASSUME Pinned \in BOOLEAN

VARIABLES
    pc,       \* the client's control state
    start,    \* the tip when the current question was asked
    did,      \* the identity asked about
    asked,    \* Lookup: the name asked for
    num,      \* Lookup: the number nameToNumber answered
    bound,    \* List: the counter nextPortfolioNumber answered
    i,        \* List: the next number to query
    entries,  \* List: the (number, name) pairs gathered so far
    result    \* the answer to the last question answered

clientVars == <<pc, start, did, asked, num, bound, i, entries, result>>
vars == <<chain, clientVars>>

\* The block a storage query made now is answered from.
ReadBlock == IF Pinned THEN chain[start] ELSE chain[Len(chain)]

\* The answer record, with the blocks the question was open over.
Answer(r) == [r EXCEPT !.from = start, !.to = Len(chain)]

Init ==
    /\ ChainInit
    /\ pc = "idle"
    /\ start = 1
    /\ did \in Dids
    /\ asked \in Names
    /\ num = 0
    /\ bound = 0
    /\ i = 0
    /\ entries = {}
    /\ result = [kind |-> "none"]

StartLookup ==
    \E d \in Dids, name \in Names :
        /\ pc = "idle"
        /\ pc' = "lookupNumber"
        /\ start' = Len(chain)
        /\ did' = d
        /\ asked' = name
        /\ UNCHANGED <<chain, num, bound, i, entries, result>>

\* nameToNumber(did, name): None ends the lookup.
LookupNumber ==
    /\ pc = "lookupNumber"
    /\ LET r == NameToNumber(ReadBlock, did, asked) IN
       IF r = NoValue
       THEN /\ pc' = "idle"
            /\ result' = Answer([kind |-> "lookup", found |-> FALSE, did |-> did,
                                 asked |-> asked, from |-> 0, to |-> 0])
            /\ UNCHANGED num
       ELSE /\ pc' = "lookupPortfolio"
            /\ num' = r
            /\ UNCHANGED result
    /\ UNCHANGED <<chain, start, did, asked, bound, i, entries>>

\* portfolios(did, num): the name the number stands for.
LookupPortfolio ==
    /\ pc = "lookupPortfolio"
    /\ pc' = "idle"
    /\ result' = Answer([kind |-> "lookup", found |-> TRUE, did |-> did, asked |-> asked,
                         name |-> Portfolios(ReadBlock, did, num), from |-> 0, to |-> 0])
    /\ UNCHANGED <<chain, start, did, asked, num, bound, i, entries>>

StartList ==
    \E d \in Dids :
        /\ pc = "idle"
        /\ pc' = "listCounter"
        /\ start' = Len(chain)
        /\ did' = d
        /\ UNCHANGED <<chain, asked, num, bound, i, entries, result>>

\* nextPortfolioNumber(did): every number below it is queried.
ListCounter ==
    /\ pc = "listCounter"
    /\ pc' = "listPortfolio"
    /\ bound' = NextPortfolioNumber(ReadBlock, did)
    /\ i' = 0
    /\ entries' = {}
    /\ UNCHANGED <<chain, start, did, asked, num, result>>

\* portfolios(did, i) for one i below the counter; None is skipped.
ListPortfolio ==
    /\ pc = "listPortfolio"
    /\ i < bound
    /\ LET r == Portfolios(ReadBlock, did, i) IN
       entries' = IF r = NoValue THEN entries ELSE entries \cup {<<i, r>>}
    /\ i' = i + 1
    /\ UNCHANGED <<chain, pc, start, did, asked, num, bound, result>>

ListDone ==
    /\ pc = "listPortfolio"
    /\ i = bound
    /\ pc' = "idle"
    /\ result' = Answer([kind |-> "list", did |-> did, entries |-> entries,
                         from |-> 0, to |-> 0])
    /\ UNCHANGED <<chain, start, did, asked, num, bound, i, entries>>

ChainStep == NewBlock /\ UNCHANGED clientVars

Next ==
    \/ ChainStep
    \/ StartLookup \/ LookupNumber \/ LookupPortfolio
    \/ StartList \/ ListCounter \/ ListPortfolio \/ ListDone

Spec == Init /\ [][Next]_vars

(***************************************************************************)
(* Properties.                                                             *)
(***************************************************************************)

TypeOK ==
    /\ chain \in Seq(Storage) /\ Len(chain) \in 1..MaxBlocks
    /\ pc \in {"idle", "lookupNumber", "lookupPortfolio", "listCounter", "listPortfolio"}
    /\ start \in 1..Len(chain)
    /\ did \in Dids /\ asked \in Names /\ num \in Numbers
    /\ bound \in 0..MaxPortfolioNumber + 1 /\ i \in 0..bound
    /\ entries \subseteq Numbers \X Names

\* Every finished answer is one the chain gave at some block while the
\* question was open: a lookup by name that found a number answers with a
\* portfolio of that name (nameToNumber then portfolios behave together as
\* the bijection nameToNumber's doc comment promises), and a listing
\* (nextPortfolioNumber, then portfolios(did, i) for every i below it) is
\* exactly the identity's portfolios at one of those blocks: none missed,
\* none that does not exist, none under a stale name.
AnswersConsistent ==
    /\ (result.kind = "lookup" /\ result.found) => result.name = result.asked
    /\ result.kind = "list" =>
           \E b \in result.from..result.to :
               result.entries = ExistingPortfolios(chain[b], result.did)

=============================================================================
