--------------------------- MODULE OvnKubeStartup ---------------------------
(***************************************************************************)
(* What the start of ovnkube promises, whatever order its steps take: the *)
(* controllers asked for on the command line are started, and the process *)
(* then serves; it serves only with all of them running, it ends cleanly  *)
(* only when none was asked for, and otherwise it can only fail; a        *)
(* serving process never returns, it can only be stopped as a failure.    *)
(***************************************************************************)
CONSTANT Modes   \* the controllers a command line may ask for

VARIABLES
    requested,   \* the controllers asked for
    running,     \* the controllers started so far
    state        \* "starting", "serving", "returned" or "failed"

vars == <<requested, running, state>>

Init ==
    /\ requested \in SUBSET Modes
    /\ running = {}
    /\ state = "starting"

StartController(m) ==
    /\ state = "starting"
    /\ m \in requested \ running
    /\ running' = running \cup {m}
    /\ UNCHANGED <<requested, state>>

Serve ==
    /\ state = "starting"
    /\ requested # {}
    /\ running = requested
    /\ state' = "serving"
    /\ UNCHANGED <<requested, running>>

Return ==
    /\ state = "starting"
    /\ requested = {}
    /\ state' = "returned"
    /\ UNCHANGED <<requested, running>>

Fail ==
    /\ state \in {"starting", "serving"}
    /\ state' = "failed"
    /\ UNCHANGED <<requested, running>>

Next == (\E m \in Modes : StartController(m)) \/ Serve \/ Return \/ Fail

Spec == Init /\ [][Next]_vars

=============================================================================
