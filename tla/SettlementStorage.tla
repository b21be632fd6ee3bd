------------------------- MODULE SettlementStorage --------------------------
(***************************************************************************)
(* The instruction counter and the pending-affirmation counts of the       *)
(* `settlement` pallet, as the generated query surface declares them       *)
(* (augment-api-query.ts, `settlement: { ... }`).  Both are ValueQuery     *)
(* items of u64: an absent key reads 0.                                    *)
(*                                                                         *)
(* The runtime that writes them is not in the repository; a block may hold *)
(* any Storage their doc comments allow (Documented).                      *)
(***************************************************************************)
EXTENDS Naturals, FiniteSets

CONSTANTS
    MaxInstructionId,  \* the largest u64 instruction id the model reaches
    MaxPending,        \* the largest pending-affirmation count
    NoValue            \* an absent trie key

ASSUME MaxInstructionId \in Nat /\ MaxPending \in Nat

InstructionIds == 0..MaxInstructionId

\* The trie contents.  `instructions` is not an item: it is the set of
\* instructions in the system, which the doc comments talk about.
Storage ==
    [instructions              : SUBSET InstructionIds,
     instructionCounter        : (1..MaxInstructionId + 1) \cup {NoValue},
     instructionAffirmsPending : [InstructionIds -> (0..MaxPending) \cup {NoValue}]]

U64(v) == IF v = NoValue THEN 0 ELSE v

\* instructionCounter() => Observable<u64>
InstructionCounter(s) == U64(s.instructionCounter)

\* instructionAffirmsPending(id) => Observable<u64>
InstructionAffirmsPending(s, id) == U64(s.instructionAffirmsPending[id])

\* instructionCounter: "Number of instructions in the system (It's one more
\* than the actual number)".  Instruction ids are handed out by the counter,
\* so every instruction has an id below it; and only an instruction has
\* affirmations pending ("Number of affirmations pending before instruction
\* is executed. instruction_id -> affirm_pending").
Documented(s) ==
    /\ \A id \in s.instructions : id < InstructionCounter(s)
    /\ Cardinality(s.instructions) = InstructionCounter(s) - 1
    /\ \A id \in InstructionIds :
           s.instructionAffirmsPending[id] # NoValue => id \in s.instructions

\* The storages a block of the chain may hold.
ValidStorages == { s \in Storage : Documented(s) }

=============================================================================
