------------------------------- MODULE Claims -------------------------------
(***************************************************************************)
(* What the session store (backend/src/session.rs) promises about claims:  *)
(* a conversation belongs to the newest question asked in it, and to no    *)
(* other, until that question ends.  A question whose conversation went to *)
(* a newer one is told to stop, never gets it back, and its own end takes  *)
(* nothing from the newer one.                                             *)
(***************************************************************************)
CONSTANTS Ids, Runs, NoRun

VARIABLES
    owner,  \* id -> the run the conversation belongs to, or NoRun
    phase,  \* run -> new, owns its conversation, displaced from it, over
    told    \* the runs told to stop

claims == <<owner, phase, told>>

Init ==
    /\ owner = [id \in Ids |-> NoRun]
    /\ phase = [r \in Runs |-> "new"]
    /\ told = {}

Take(r, id) ==
    /\ phase[r] = "new"
    /\ owner' = [owner EXCEPT ![id] = r]
    /\ phase' = [q \in Runs |-> IF q = r THEN "owns"
                                ELSE IF q = owner[id] THEN "displaced" ELSE phase[q]]
    /\ told' = told \cup ({owner[id]} \ {NoRun})

Tell(r) ==
    /\ phase[r] \in {"owns", "displaced"}
    /\ told' = told \cup {r}
    /\ UNCHANGED <<owner, phase>>

Give(r, id) ==
    /\ phase[r] = "owns" /\ owner[id] = r
    /\ owner' = [owner EXCEPT ![id] = NoRun]
    /\ phase' = [phase EXCEPT ![r] = "over"]
    /\ told' = told

EndDisplaced(r) ==
    /\ phase[r] = "displaced"
    /\ phase' = [phase EXCEPT ![r] = "over"]
    /\ UNCHANGED <<owner, told>>

\* The server restarts.
Lose ==
    /\ owner' = [id \in Ids |-> NoRun]
    /\ phase' = [r \in Runs |-> IF phase[r] = "new" THEN "new" ELSE "over"]
    /\ told' = told

Next ==
    \/ \E r \in Runs, id \in Ids : Take(r, id) \/ Give(r, id)
    \/ \E r \in Runs : Tell(r) \/ EndDisplaced(r)
    \/ Lose

Spec == Init /\ [][Next]_claims
=============================================================================
