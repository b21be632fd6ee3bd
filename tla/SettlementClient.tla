------------------------- MODULE SettlementClient ---------------------------
(***************************************************************************)
(* A client that lists the instructions ready to execute from the two     *)
(* counters the query surface offers: it reads instructionCounter(), then *)
(* instructionAffirmsPending(id) for every id from 1 to one below it, and *)
(* lists the ids with no affirmation pending.  All calls are made at one   *)
(* block with `.at(hash)`, so the listing reads a single Storage.          *)
(***************************************************************************)
EXTENDS SettlementStorage

VARIABLES
    s,      \* the Storage of the block the client reads
    pc,     \* "counter", "pending" or "done"
    count,  \* the number of instructions the counter stands for
    id,     \* the next id to read
    ready   \* the ids listed as ready so far

vars == <<s, pc, count, id, ready>>

Init ==
    /\ s \in ValidStorages
    /\ pc = "counter"
    /\ count = 0
    /\ id = 1
    /\ ready = {}

\* instructionCounter(): "one more than the actual number".
ReadCounter ==
    /\ pc = "counter"
    /\ pc' = "pending"
    /\ count' = InstructionCounter(s) - 1
    /\ UNCHANGED <<s, id, ready>>

\* instructionAffirmsPending(id) for the next id.
ReadPending ==
    /\ pc = "pending"
    /\ id <= count
    /\ ready' = IF InstructionAffirmsPending(s, id) = 0 THEN ready \cup {id} ELSE ready
    /\ id' = id + 1
    /\ UNCHANGED <<s, pc, count>>

ListDone ==
    /\ pc = "pending"
    /\ id > count
    /\ pc' = "done"
    /\ UNCHANGED <<s, count, id, ready>>

Next == ReadCounter \/ ReadPending \/ ListDone

\* The listing stops once it is done.
Spec == Init /\ [][Next]_vars

TypeOK ==
    /\ s \in Storage /\ pc \in {"counter", "pending", "done"}
    /\ ready \subseteq InstructionIds

=============================================================================
