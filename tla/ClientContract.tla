--------------------------- MODULE ClientContract ---------------------------
(***************************************************************************)
(* What the publication gate promises the client side, without requests,   *)
(* transactions or tables: the head comments of                            *)
(* apps/publication/services.py and models.py as a specification.          *)
(*                                                                         *)
(* A version is approved, an output is reviewed; one approved version of   *)
(* an output at a time is on show, after a review where its type needs     *)
(* one; it can be taken down, and then nothing is on show.  A file without *)
(* the DRAFT watermark is made only of a version that has been on show.    *)
(***************************************************************************)
CONSTANTS
    Outputs, ExpertOutputs, Numbers

VARIABLES
    approved,   \* approved[o]: the versions signed off internally
    reviewed,   \* reviewed[o]: an expert has signed off
    shown,      \* shown[o]: {} or the one version the client sees
    released,   \* released[o]: every version that was ever on show
    lastFile    \* the last file rendered of any version

contract == <<approved, reviewed, shown, released, lastFile>>

Init ==
    /\ approved = [o \in Outputs |-> {}]
    /\ reviewed = [o \in Outputs |-> FALSE]
    /\ shown = [o \in Outputs |-> {}]
    /\ released = [o \in Outputs |-> {}]
    /\ lastFile.draft

Approve(o, n) ==
    /\ approved' = [approved EXCEPT ![o] = @ \union {n}]
    /\ UNCHANGED <<reviewed, shown, released, lastFile>>

Review(o) ==
    /\ reviewed' = [reviewed EXCEPT ![o] = TRUE]
    /\ UNCHANGED <<approved, shown, released, lastFile>>

Show(o, n) ==
    /\ n \in approved[o]
    /\ o \in ExpertOutputs => reviewed[o]
    /\ shown' = [shown EXCEPT ![o] = {n}]
    /\ released' = [released EXCEPT ![o] = @ \union {n}]
    /\ UNCHANGED <<approved, reviewed, lastFile>>

TakeDown(o) ==
    /\ shown' = [shown EXCEPT ![o] = {}]
    /\ UNCHANGED <<approved, reviewed, released, lastFile>>

Render(o, n, draft) ==
    /\ draft \/ n \in released[o]
    /\ lastFile' = [output |-> o, number |-> n, draft |-> draft]
    /\ UNCHANGED <<approved, reviewed, shown, released>>

Next ==
    \E o \in Outputs :
        \/ \E n \in Numbers :
              \/ Approve(o, n)
              \/ Show(o, n)
              \/ \E draft \in BOOLEAN : Render(o, n, draft)
        \/ Review(o)
        \/ TakeDown(o)

Spec == Init /\ [][Next]_contract
=============================================================================
