-------------------------- MODULE PortfolioStorage --------------------------
(***************************************************************************)
(* The name and number items of the `portfolio` pallet as the generated    *)
(* query surface declares them (augment-api-query.ts, `portfolio: {...}`). *)
(*                                                                         *)
(* One value of Storage is the pallet's trie contents at one block.  A key *)
(* that is absent from the trie holds NoValue.  How an absent key reads    *)
(* back depends on the declared return type of the accessor:               *)
(*   Observable<Option<T>>  - absent reads as None (NoValue here);         *)
(*   Observable<T>          - absent reads as the type's default (0 for    *)
(*                            u64).                                        *)
(*                                                                         *)
(* The runtime that writes these items is not part of the repository.  What *)
(* the declarations say about it is in their doc comments, and Documented  *)
(* states exactly that: a block may hold any Storage that satisfies it.    *)
(***************************************************************************)
EXTENDS Naturals

CONSTANTS
    Dids,               \* identities (PolymeshPrimitivesIdentityId)
    Names,              \* portfolio names (Bytes)
    MaxPortfolioNumber, \* the largest u64 portfolio number the model reaches
    NoValue             \* an absent trie key; also Option::None

ASSUME MaxPortfolioNumber \in Nat

\* The portfolio numbers (u64) the model can reach.
Numbers == 0..MaxPortfolioNumber

\* The trie contents of the portfolio pallet's name and number items.
Storage ==
    [portfolios          : [Dids \X Numbers -> Names \cup {NoValue}],
     nameToNumber        : [Dids \X Names -> Numbers \cup {NoValue}],
     nextPortfolioNumber : [Dids -> (0..MaxPortfolioNumber + 1) \cup {NoValue}]]

(***************************************************************************)
(* The accessors, with the semantics of their declared return types.       *)
(***************************************************************************)

\* The default of Bytes, what a ValueQuery of Bytes reads for an absent key.
EmptyBytes == ""

\* Mutant: the accessor declared as Observable<Bytes>, a ValueQuery.
PortfoliosValueQuery(s, did, num) ==
    IF s.portfolios[did, num] = NoValue THEN EmptyBytes ELSE s.portfolios[did, num]

\* portfolio.portfolios(did, u64) => Observable<Option<Bytes>>
Portfolios(s, did, num) == s.portfolios[did, num]

\* portfolio.nameToNumber(did, Bytes) => Observable<Option<u64>>
NameToNumber(s, did, name) == s.nameToNumber[did, name]

\* portfolio.nextPortfolioNumber(did) => Observable<u64>: a ValueQuery, so an
\* absent counter reads as 0.
NextPortfolioNumber(s, did) ==
    IF s.nextPortfolioNumber[did] = NoValue THEN 0 ELSE s.nextPortfolioNumber[did]

(***************************************************************************)
(* What the doc comments say of the items.                                 *)
(***************************************************************************)

\* portfolios: "If a certain pair of a DID and portfolio number maps to
\* None then such a portfolio doesn't exist.  Conversely, if a pair maps to
\* Some(name) then such a portfolio exists and is called name."  The
\* (number, name) pairs of the portfolios of `did` that exist in s.
ExistingPortfolios(s, did) ==
    { <<n, s.portfolios[did, n]>> : n \in { m \in Numbers : s.portfolios[did, m] # NoValue } }

\* nameToNumber: "Inverse map of Portfolios used to ensure bijectivity, and
\* uniqueness of names in Portfolios."
NamesBijective(s) ==
    \A did \in Dids, n \in Numbers, name \in Names :
        s.portfolios[did, n] = name <=> s.nameToNumber[did, name] = n

\* nextPortfolioNumber: "The next portfolio sequence number of an identity":
\* every number an existing portfolio has was handed out before it.
NumbersBelowNext(s) ==
    \A did \in Dids, n \in Numbers :
        s.portfolios[did, n] # NoValue => n < NextPortfolioNumber(s, did)

Documented(s) == NamesBijective(s) /\ NumbersBelowNext(s)

\* The storages a block of the chain may hold.
ValidStorages == { s \in Storage : Documented(s) }

=============================================================================
