------------------------------ MODULE PipelineMC ------------------------------
(***************************************************************************)
(* The safety instance of the evidence pipeline, in three parts whose state*)
(* spaces add up: two workers on one item, one worker at a time on two     *)
(* items that may be each other's duplicate, and the same with a run of    *)
(* find_duplicates beside the worker.                                      *)
(***************************************************************************)
EXTENDS EvidencePipelineMC

VARIABLE focus

MCInit == Init /\ focus \in {"one item", "two items", "command"}

OneItem ==
    /\ \A i \in Items \ {1} : decision'[i] = "absent"
    /\ scans' = 0

TwoItems ==
    /\ Cardinality({w \in Workers : job'[w] # Idle}) <= 1
    /\ \A m \in Message : queue'[m] <= 1
    /\ \A i \in Items : Cardinality(runs'[i]) <= 1

OneWorker == TwoItems /\ crashes' <= 1 /\ scans' = 0

Command ==
    /\ TwoItems
    /\ crashes' = 0
    /\ \A m \in Message : m.tries > 0 => queue'[m] = 0
    /\ Cardinality({m \in Message : queue'[m] > 0}) <= 2

MCNext ==
    /\ Next
    /\ UNCHANGED focus
    /\ CASE focus = "one item"  -> OneItem
         [] focus = "two items" -> OneWorker
         [] focus = "command"   -> Command

MCSpec == MCInit /\ [][MCNext]_<<vars, focus>>

=============================================================================
