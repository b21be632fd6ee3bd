--------------------------- MODULE NftCollections ---------------------------
(***************************************************************************)
(* The collection items of the `nft` pallet as the generated query surface *)
(* declares them (augment-api-query.ts, `nft: { ... }`):                   *)
(*                                                                         *)
(*   collection(u64)        => Observable<NftCollection>   (ValueQuery)    *)
(*   collectionAsset(asset) => Observable<u64>             (ValueQuery)    *)
(*   currentCollectionId()  => Observable<Option<u64>>                     *)
(*   nextCollectionId()     => Observable<u64>             (ValueQuery)    *)
(*                                                                         *)
(* A key absent from the trie holds NoValue; a ValueQuery reads it as the  *)
(* default, 0 for u64.  The runtime that writes the items is not in the   *)
(* repository: each block holds any Storage the doc comments allow.        *)
(***************************************************************************)
EXTENDS Naturals

CONSTANTS
    Assets,           \* asset ids (PolymeshPrimitivesAssetAssetID)
    MaxCollectionId,  \* the largest u64 collection id the model reaches
    NoValue           \* an absent trie key; also Option::None

ASSUME MaxCollectionId \in Nat

CollectionIds == 0..MaxCollectionId

\* The trie contents.  collection(id) is kept as the asset of the
\* collection's details, the one field the doc comments relate.
Storage ==
    [collection          : [CollectionIds -> Assets \cup {NoValue}],
     collectionAsset     : [Assets -> CollectionIds \cup {NoValue}],
     currentCollectionId : CollectionIds \cup {NoValue},
     nextCollectionId    : (0..MaxCollectionId + 1) \cup {NoValue}]

U64(v) == IF v = NoValue THEN 0 ELSE v

\* collectionAsset(asset) => Observable<u64>
CollectionAsset(s, a) == U64(s.collectionAsset[a])
\* currentCollectionId() => Observable<Option<u64>>
CurrentCollectionId(s) == s.currentCollectionId
\* nextCollectionId() => Observable<u64>
NextCollectionId(s) == U64(s.nextCollectionId)

\* The collection ids in use.
UsedIds(s) == { c \in CollectionIds : s.collection[c] # NoValue }

\* What the doc comments say.
\*   collection: "All collection details for a given collection id";
\*   collectionAsset: "The collection id corresponding to each asset";
\*   currentCollectionId: "The last NFTCollectionId used for a collection";
\*   nextCollectionId: "The next available id for an NFT collection".
Documented(s) ==
    /\ \A c \in CollectionIds, a \in Assets :
           s.collection[c] = a <=> s.collectionAsset[a] = c
    /\ IF UsedIds(s) = {}
       THEN CurrentCollectionId(s) = NoValue
       ELSE /\ CurrentCollectionId(s) \in UsedIds(s)
            /\ \A c \in UsedIds(s) : c <= CurrentCollectionId(s)
    /\ \A c \in UsedIds(s) : c < NextCollectionId(s)

\* The storages a block of the chain may hold.
ValidStorages == { s \in Storage : Documented(s) }

VARIABLE s   \* the Storage of the block a client reads

Init == s \in ValidStorages
\* Each new block may hold any valid Storage.
Next == s' \in ValidStorages

Spec == Init /\ [][Next]_s

TypeOK == s \in Storage

\* A client takes a zero read of collectionAsset(asset), a ValueQuery, for
\* "the asset has no collection": that is right only if no asset's
\* collection has id 0.
CollectionAssetZeroMeansNone ==
    \A a \in Assets : CollectionAsset(s, a) = 0 <=> \A c \in CollectionIds : s.collection[c] # a

=============================================================================
