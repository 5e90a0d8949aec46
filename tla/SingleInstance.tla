---------------------------- MODULE SingleInstance ----------------------------
(***************************************************************************)
(* What the --pidfile option of ovnkube promises, as an abstract lock:    *)
(* at any time at most one ovnkube process owns the node (is past          *)
(* setupPIDFile and runs); a process becomes the owner only when there is *)
(* none, and ownership ends only when the owner ends.                      *)
(***************************************************************************)
CONSTANTS
    Inst,   \* the ovnkube processes
    None    \* no owner

VARIABLE owner

Init == owner = None

\* A start that finds no owner runs.
Acquire(i) ==
    /\ owner = None
    /\ owner' = i

\* The owner exits (signal, panic, kill).
Release(i) ==
    /\ owner = i
    /\ owner' = None

Next == \E i \in Inst : Acquire(i) \/ Release(i)

Spec == Init /\ [][Next]_owner

=============================================================================
