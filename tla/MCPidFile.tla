----------------------------- MODULE MCPidFile -----------------------------
(* Instantiates PidFile for TLC: three ovnkube processes.                  *)
EXTENDS PidFile

\* Every main-goroutine position a signal or SIGKILL can interrupt.
AnyPoint == {"stat", "open", "write", "read", "proc", "running",
             "delstat", "delremove"}

\* Only a process that has finished setupPIDFile is stopped.
AfterSetup == {"running"}
=============================================================================
