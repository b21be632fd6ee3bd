-------------------------- MODULE AssetCustomTypes --------------------------
(***************************************************************************)
(* The custom asset type items of the `asset` pallet as the generated      *)
(* query surface declares them (augment-api-query.ts, `asset: { ... }`):   *)
(*                                                                         *)
(*   customTypeIdSequence()    => Observable<u32>           (ValueQuery)   *)
(*   customTypes(u32)          => Observable<Bytes>         (ValueQuery)   *)
(*   customTypesInverse(Bytes) => Observable<Option<u32>>                  *)
(*                                                                         *)
(* and a client that lists the registered custom types at one block       *)
(* (`.at(hash)`): it reads the sequence, then for every id from 1 to one   *)
(* below it reads customTypes(id), and keeps the id only if                *)
(* customTypesInverse of the name it read gives the id back.  customTypes  *)
(* reads empty Bytes both for an unregistered id and for a type registered *)
(* with empty contents, which nothing in the declarations forbids; the     *)
(* inverse map, an Option, tells the two apart.                            *)
(***************************************************************************)
EXTENDS Naturals

CONSTANTS
    Names,      \* type contents (Bytes); EmptyBytes may be among them
    MaxTypeId,  \* the largest u32 id the model reaches
    NoValue     \* an absent trie key; also Option::None

ASSUME MaxTypeId \in Nat

TypeIds == 0..MaxTypeId

\* The default of Bytes.
EmptyBytes == ""

Storage ==
    [customTypeIdSequence : (0..MaxTypeId + 1) \cup {NoValue},
     customTypes          : [TypeIds -> Names \cup {NoValue}],
     customTypesInverse   : [Names -> TypeIds \cup {NoValue}]]

\* customTypeIdSequence() => Observable<u32>
CustomTypeIdSequence(s) ==
    IF s.customTypeIdSequence = NoValue THEN 0 ELSE s.customTypeIdSequence
\* customTypes(id) => Observable<Bytes>
CustomTypes(s, id) == IF s.customTypes[id] = NoValue THEN EmptyBytes ELSE s.customTypes[id]
\* customTypesInverse(name) => Observable<Option<u32>>
CustomTypesInverse(s, name) == s.customTypesInverse[name]

CustomTypeIds(s) == 1..(CustomTypeIdSequence(s) - 1)

\* The registered ids.
Registered(s) == { id \in TypeIds : s.customTypes[id] # NoValue }

\* What the doc comments say: registered ids were handed out by the
\* sequence, and customTypesInverse is the "Inverse map of CustomTypes, from
\* registered string contents to custom asset type ids".
Documented(s) ==
    /\ \A id \in Registered(s) : id >= 1 /\ id < CustomTypeIdSequence(s)
    /\ \A id \in TypeIds, n \in Names :
           s.customTypes[id] = n <=> s.customTypesInverse[n] = id

ValidStorages == { s \in Storage : Documented(s) }

VARIABLES
    s,       \* the Storage of the block the client reads
    pc,      \* "sequence", "scan" or "done"
    ids,     \* the ids still to read
    listed   \* the ids listed as registered so far

vars == <<s, pc, ids, listed>>

Init ==
    /\ s \in ValidStorages
    /\ pc = "sequence"
    /\ ids = {}
    /\ listed = {}

ReadSequence ==
    /\ pc = "sequence"
    /\ pc' = "scan"
    /\ ids' = CustomTypeIds(s)
    /\ UNCHANGED <<s, listed>>

\* customTypes(id), then customTypesInverse of the name read.
ReadType ==
    \E id \in ids :
        /\ pc = "scan"
        /\ ids' = ids \ {id}
        /\ listed' = IF CustomTypesInverse(s, CustomTypes(s, id)) = id
                     THEN listed \cup {id} ELSE listed
        /\ UNCHANGED <<s, pc>>

ListDone ==
    /\ pc = "scan"
    /\ ids = {}
    /\ pc' = "done"
    /\ UNCHANGED <<s, ids, listed>>

Next == ReadSequence \/ ReadType \/ ListDone

\* The listing stops once it is done.
Spec == Init /\ [][Next]_vars

TypeOK == s \in Storage /\ pc \in {"sequence", "scan", "done"} /\ listed \subseteq TypeIds

=============================================================================
