--------------------------- MODULE ServiceLifecycle ---------------------------
(***************************************************************************)
(* What a service unit promises the unit manager, in terms of the active  *)
(* state it reports through notify (spec section 3: inactive, activating, *)
(* active, reloading, deactivating, failed).  One step of the unit is one *)
(* handler, which may pass through several states, so each abstract step  *)
(* names where a request or a child exit may take the unit from here.     *)
(***************************************************************************)

VARIABLE active_state

ActiveStates ==
    {"inactive", "activating", "active", "reloading", "deactivating", "failed"}

Down == {"inactive", "failed"}
Up   == ActiveStates \ Down

Init == active_state = "inactive"

\* A start request takes a stopped unit into activation; with empty stages
\* it may come up at once.  It never begins by deactivating or failing:
\* each activation starts afresh (spec 8, result per activation).
Start ==
    /\ active_state \in Down
    /\ active_state' \in {"activating", "active"}

\* A stop request on a unit that is up deactivates it; with empty stop
\* stages and no child left it may be down at once.
Stop ==
    /\ active_state \in Up
    /\ active_state' \in {"deactivating"} \cup Down

\* Reload is requested of an active unit only; an empty reload stage
\* leaves it active, a failed one deactivates it.
Reload ==
    /\ active_state = "active"
    /\ active_state' \in {"reloading", "active", "deactivating"} \cup Down

\* A child exit moves the unit forward along its path: activation goes on,
\* comes up or is abandoned; reloading returns to active or deactivates;
\* deactivation never comes back up.  A stopped unit stays stopped.
Progress ==
    \/ /\ active_state = "activating"
       /\ active_state' \in {"activating", "active", "deactivating"} \cup Down
    \/ /\ active_state \in {"active", "reloading"}
       /\ active_state' \in {"active", "deactivating"} \cup Down
    \/ /\ active_state = "deactivating"
       /\ active_state' \in {"deactivating"} \cup Down

Next == Start \/ Stop \/ Reload \/ Progress

Spec == Init /\ [][Next]_active_state
=============================================================================
