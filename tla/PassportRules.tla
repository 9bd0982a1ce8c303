--------------------------- MODULE PassportRules ---------------------------
(***************************************************************************)
(* The life of a blast passport as its users are told: each operation      *)
(* checks the passport and changes it in one step.  A design is edited     *)
(* only in DRAFT, the status follows the diagram, a blast is recorded once *)
(* and only after the approval, and a revision takes the passport's place. *)
(* The demonstration passport appears active and blasted.                  *)
(***************************************************************************)
CONSTANTS Passports, Designs

VARIABLES
    status,     \* status of a passport, "absent" before it exists
    design,     \* its blast design
    blastEvent  \* its blast has been recorded

vars == <<status, design, blastEvent>>

Init ==
    /\ status = [p \in Passports |-> "absent"]
    /\ design \in [Passports -> Designs]
    /\ blastEvent = [p \in Passports |-> FALSE]

Create(p, d) ==
    /\ status[p] = "absent"
    /\ status' = [status EXCEPT ![p] = "draft"]
    /\ design' = [design EXCEPT ![p] = d]
    /\ UNCHANGED blastEvent

CreateBlasted(p, d) ==
    /\ status[p] = "absent"
    /\ status' = [status EXCEPT ![p] = "active"]
    /\ design' = [design EXCEPT ![p] = d]
    /\ blastEvent' = [blastEvent EXCEPT ![p] = TRUE]

Edit(p, d) ==
    /\ status[p] = "draft"
    /\ design' = [design EXCEPT ![p] = d]
    /\ UNCHANGED <<status, blastEvent>>

\* Submission, approval, activation and completion.
Diagram == {<<"draft", "submitted">>, <<"submitted", "approved">>,
            <<"approved", "active">>, <<"active", "completed">>}

Advance(p, new) ==
    /\ <<status[p], new>> \in Diagram
    /\ status' = [status EXCEPT ![p] = new]
    /\ UNCHANGED <<design, blastEvent>>

RecordBlast(p) ==
    /\ status[p] \in {"approved", "active"}
    /\ ~blastEvent[p]
    /\ blastEvent' = [blastEvent EXCEPT ![p] = TRUE]
    /\ UNCHANGED <<status, design>>

\* The draft q takes the place of p, in whatever status p is.
Revise(p, q, d) ==
    /\ status[p] # "absent" /\ status[q] = "absent"
    /\ status' = [status EXCEPT ![p] = "superseded", ![q] = "draft"]
    /\ design' = [design EXCEPT ![q] = d]
    /\ UNCHANGED blastEvent

Next ==
    \E p \in Passports :
        \/ RecordBlast(p)
        \/ \E new \in {"submitted", "approved", "active", "completed"} :
             Advance(p, new)
        \/ \E d \in Designs :
             \/ Create(p, d)
             \/ CreateBlasted(p, d)
             \/ Edit(p, d)
             \/ \E q \in Passports : Revise(p, q, d)

Spec == Init /\ [][Next]_vars
=============================================================================
