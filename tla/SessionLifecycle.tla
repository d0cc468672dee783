-------------------------- MODULE SessionLifecycle --------------------------
(***************************************************************************)
(* What the token handler promises about sessions, without cookies, tokens,*)
(* tables or clocks: a session begins once, for one user, and ends once and*)
(* for all; a request enters a session only while it is live, and whatever *)
(* happens in between is served as that session's user or not at all.      *)
(***************************************************************************)
CONSTANTS SessionIDs, Subjects, Requests, None

VARIABLES
    phase,      \* phase[id]: "unborn", then "live", then "ended"
    user,       \* user[id]: whose session it is, None before it begins
    holder,     \* holder[r]: the session request r has entered, or None
    serving     \* serving[r]: the user r is being served as, or None

lifecycle == <<phase, user, holder, serving>>

Init ==
    /\ phase = [id \in SessionIDs |-> "unborn"]
    /\ user = [id \in SessionIDs |-> None]
    /\ holder = [r \in Requests |-> None]
    /\ serving = [r \in Requests |-> None]

Begin(id, u) ==
    /\ phase[id] = "unborn"
    /\ phase' = [phase EXCEPT ![id] = "live"]
    /\ user' = [user EXCEPT ![id] = u]
    /\ UNCHANGED <<holder, serving>>

\* A logout ends one session, a purge any number of them.
End(S) ==
    /\ \A id \in S : phase[id] = "live"
    /\ phase' = [id \in SessionIDs |-> IF id \in S THEN "ended" ELSE phase[id]]
    /\ UNCHANGED <<user, holder, serving>>

Enter(r, id) ==
    /\ holder[r] = None
    /\ phase[id] = "live"
    /\ holder' = [holder EXCEPT ![r] = id]
    /\ UNCHANGED <<phase, user, serving>>

\* The session may have ended since r entered it.
Serve(r) ==
    /\ holder[r] # None
    /\ serving[r] = None
    /\ serving' = [serving EXCEPT ![r] = user[holder[r]]]
    /\ UNCHANGED <<phase, user, holder>>

\* A request is answered, or all of them are cut off.
Leave(R) ==
    /\ holder' = [r \in Requests |-> IF r \in R THEN None ELSE holder[r]]
    /\ serving' = [r \in Requests |-> IF r \in R THEN None ELSE serving[r]]
    /\ UNCHANGED <<phase, user>>

Next ==
    \/ \E id \in SessionIDs, u \in Subjects : Begin(id, u)
    \/ \E S \in SUBSET SessionIDs : End(S)
    \/ \E r \in Requests, id \in SessionIDs : Enter(r, id)
    \/ \E r \in Requests : Serve(r)
    \/ \E R \in SUBSET Requests : Leave(R)

Spec == Init /\ [][Next]_lifecycle

=============================================================================
