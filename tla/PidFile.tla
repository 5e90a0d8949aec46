------------------------------ MODULE PidFile ------------------------------
(***************************************************************************)
(* The single-instance guard of ovnkube (cmd/ovnkube/ovnkube.go).          *)
(*                                                                         *)
(* Every ovnkube process started with --pidfile runs setupPIDFile: it arms *)
(* a SIGTERM handler goroutine, stats the pidfile, and either writes its   *)
(* own pid (file absent, or the recorded pid has no /proc entry) or exits  *)
(* (the recorded pid has a /proc entry).  runOvnKube defers delPidfile, so *)
(* an error return or a later panic removes the file.  Several processes   *)
(* share only the file system: the pidfile and /proc.                      *)
(*                                                                         *)
(* A process is a model value of Inst and is its own pid.  The file holds  *)
(* Absent, Empty (created and truncated, pid not yet written) or a pid.   *)
(***************************************************************************)
EXTENDS FiniteSets

CONSTANTS
    Inst,        \* the ovnkube processes that may be started (their pids)
    Absent,      \* model value: no pidfile on disk
    Empty,       \* model value: the pidfile exists and holds no pid
    StopPoints,  \* positions at which a SIGTERM, a SIGKILL or a panic may land
    Sequential,  \* TRUE: a start waits until every other process is running or gone
    OpenMayFail  \* TRUE: opening the pidfile for writing can fail (read-only dir)

ASSUME Sequential \in BOOLEAN /\ OpenMayFail \in BOOLEAN

VARIABLES
    pidfile,   \* what the pidfile on disk holds
    pc,        \* pc[i]: position of process i's main goroutine
    handler,   \* handler[i]: position of process i's SIGTERM goroutine
    linked,    \* linked[i]: i's open WriteFile fd still names the pidfile
    readPid    \* readPid[i]: what process i read from the pidfile

vars == <<pidfile, pc, handler, linked, readPid>>

PcValues == {"idle", "stat", "open", "write", "read", "proc", "running",
             "delstat", "delremove", "refused", "dead"}

Alive(i) == pc[i] \notin {"idle", "refused", "dead"}

\* Inside setupPIDFile or delPidfile.
Busy(i) == Alive(i) /\ pc[i] # "running"

\* Mutant: any pid read from the file counts as a live process.
ProcEntryExistsAnyFile(p) == p # Absent

\* Mutant: the pid is read with a trailing newline, so "/proc/<pid>\n/cmdline"
\* never exists and only an empty pid counts as a live process.
ProcEntryExistsTrailingNewline(p) == p = Empty

\* os.Stat("/proc/" + pid + "/cmdline") succeeds.  An empty pid makes the
\* path "/proc//cmdline", which names /proc/cmdline and always exists.
ProcEntryExists(p) ==
    \/ p = Empty
    \/ p \in {i \in Inst : Alive(i)}

\* os.Remove of the pidfile: every open fd now refers to an unlinked inode.
RemovePidfile ==
    /\ pidfile' = Absent
    /\ linked' = [j \in Inst |-> FALSE]

TypeOK ==
    /\ pidfile \in {Absent, Empty} \cup Inst
    /\ pc \in [Inst -> PcValues]
    /\ handler \in [Inst -> {"unarmed", "armed", "stat", "remove"}]
    /\ linked \in [Inst -> BOOLEAN]
    /\ readPid \in [Inst -> {Absent, Empty} \cup Inst]

Init ==
    /\ pidfile = Absent
    /\ pc = [i \in Inst |-> "idle"]
    /\ handler = [i \in Inst |-> "unarmed"]
    /\ linked = [i \in Inst |-> FALSE]
    /\ readPid = [i \in Inst |-> Absent]

-----------------------------------------------------------------------------
(* runOvnKube up to setupPIDFile: defer delPidfile, then signal.Notify and *)
(* the handler goroutine.                                                  *)
Start(i) ==
    /\ pc[i] = "idle"
    /\ Sequential => \A j \in Inst : ~Busy(j)
    /\ pc' = [pc EXCEPT ![i] = "stat"]
    /\ handler' = [handler EXCEPT ![i] = "armed"]
    /\ UNCHANGED <<pidfile, linked, readPid>>

\* Mutant: the os.IsNotExist test inverted.
StatPidfileInverted(i) ==
    /\ pc[i] = "stat"
    /\ pc' = [pc EXCEPT ![i] = IF pidfile = Absent THEN "read" ELSE "open"]
    /\ UNCHANGED <<pidfile, handler, linked, readPid>>

\* _, err := os.Stat(pidfile); if os.IsNotExist(err) ...
StatPidfile(i) ==
    /\ pc[i] = "stat"
    /\ pc' = [pc EXCEPT ![i] = IF pidfile = Absent THEN "open" ELSE "read"]
    /\ UNCHANGED <<pidfile, handler, linked, readPid>>

\* ioutil.WriteFile, first half: open with O_CREATE|O_TRUNC.  A failure is
\* logged and ignored ("Ignoring..") and setupPIDFile returns nil.
OpenPidfile(i) ==
    /\ pc[i] = "open"
    /\ \/ /\ pidfile' = Empty
          /\ linked' = [linked EXCEPT ![i] = TRUE]
          /\ pc' = [pc EXCEPT ![i] = "write"]
       \/ /\ OpenMayFail
          /\ pc' = [pc EXCEPT ![i] = "running"]
          /\ UNCHANGED <<pidfile, linked>>
    /\ UNCHANGED <<handler, readPid>>

\* ioutil.WriteFile, second half: write the pid through the open fd.  If
\* the file was removed meanwhile the write lands in an unlinked inode.
WritePid(i) ==
    /\ pc[i] = "write"
    /\ pidfile' = IF linked[i] THEN i ELSE pidfile
    /\ pc' = [pc EXCEPT ![i] = "running"]
    /\ UNCHANGED <<handler, linked, readPid>>

\* pid, err := ioutil.ReadFile(pidfile); on error setupPIDFile returns err
\* and the deferred delPidfile runs.
ReadPidfile(i) ==
    /\ pc[i] = "read"
    /\ IF pidfile = Absent
         THEN /\ pc' = [pc EXCEPT ![i] = "delstat"]
              /\ UNCHANGED readPid
         ELSE /\ pc' = [pc EXCEPT ![i] = "proc"]
              /\ readPid' = [readPid EXCEPT ![i] = pidfile]
    /\ UNCHANGED <<pidfile, handler, linked>>

\* The recorded pid has a /proc entry: "exists and ovnkube is running",
\* os.Exit(1), which skips the deferred delPidfile.
ProcAlive(i) ==
    /\ pc[i] = "proc"
    /\ ProcEntryExists(readPid[i])
    /\ pc' = [pc EXCEPT ![i] = "refused"]
    /\ UNCHANGED <<pidfile, handler, linked, readPid>>

\* "Left over pid from dead process": overwrite it with our own pid.
ProcStale(i) ==
    /\ pc[i] = "proc"
    /\ ~ProcEntryExists(readPid[i])
    /\ pc' = [pc EXCEPT ![i] = "open"]
    /\ UNCHANGED <<pidfile, handler, linked, readPid>>

\* A later startup step panics (NewClientset, NewWatchFactory,
\* StartClusterMaster, StartClusterNode, RebuildOVNDatabase, Run); the
\* panic runs the deferred delPidfile before the process dies.
StartupPanics(i) ==
    /\ pc[i] = "running"
    /\ pc[i] \in StopPoints
    /\ pc' = [pc EXCEPT ![i] = "delstat"]
    /\ UNCHANGED <<pidfile, handler, linked, readPid>>

\* delPidfile: if _, err := os.Stat(pidfile); err == nil { os.Remove }
DelStat(i) ==
    /\ pc[i] = "delstat"
    /\ pc' = [pc EXCEPT ![i] = IF pidfile = Absent THEN "dead" ELSE "delremove"]
    /\ UNCHANGED <<pidfile, handler, linked, readPid>>

DelRemove(i) ==
    /\ pc[i] = "delremove"
    /\ RemovePidfile
    /\ pc' = [pc EXCEPT ![i] = "dead"]
    /\ UNCHANGED <<handler, readPid>>

-----------------------------------------------------------------------------
(* The SIGTERM handler goroutine: <-c; delPidfile(pidfile); os.Exit(1).    *)
(* It runs concurrently with the main goroutine, and os.Exit ends both.    *)
Signal(i) ==
    /\ handler[i] = "armed"
    /\ pc[i] \in StopPoints
    /\ handler' = [handler EXCEPT ![i] = "stat"]
    /\ UNCHANGED <<pidfile, pc, linked, readPid>>

HandlerStat(i) ==
    /\ handler[i] = "stat"
    /\ Alive(i)
    /\ IF pidfile = Absent
         THEN /\ pc' = [pc EXCEPT ![i] = "dead"]
              /\ UNCHANGED handler
         ELSE /\ handler' = [handler EXCEPT ![i] = "remove"]
              /\ UNCHANGED pc
    /\ UNCHANGED <<pidfile, linked, readPid>>

HandlerRemove(i) ==
    /\ handler[i] = "remove"
    /\ Alive(i)
    /\ RemovePidfile
    /\ pc' = [pc EXCEPT ![i] = "dead"]
    /\ UNCHANGED <<handler, readPid>>

(* Environment: SIGKILL (or power loss); no handler, no deferred call.     *)
Kill(i) ==
    /\ Alive(i)
    /\ pc[i] \in StopPoints
    /\ pc' = [pc EXCEPT ![i] = "dead"]
    /\ UNCHANGED <<pidfile, handler, linked, readPid>>

-----------------------------------------------------------------------------
MainStep(i) ==
    \/ StatPidfile(i) \/ OpenPidfile(i) \/ WritePid(i) \/ ReadPidfile(i)
    \/ ProcAlive(i) \/ ProcStale(i) \/ DelStat(i) \/ DelRemove(i)

HandlerStep(i) == HandlerStat(i) \/ HandlerRemove(i)

Next ==
    \E i \in Inst :
        \/ Start(i) \/ MainStep(i) \/ HandlerStep(i)
        \/ StartupPanics(i) \/ Signal(i) \/ Kill(i)

\* The Go runtime keeps running a runnable goroutine, and file-system calls
\* return: both goroutines of a live process make progress.  Starts, signals,
\* kills and panics come from outside and are not fair.
Fairness == \A i \in Inst : WF_vars(MainStep(i)) /\ WF_vars(HandlerStep(i))

Spec == Init /\ [][Next]_vars /\ Fairness

-----------------------------------------------------------------------------
(* Properties *)

\* At most one ovnkube process is past setupPIDFile at a time: the purpose
\* of the pidfile check ("Create if it doesn't exist, else exit with error").
MutualExclusion ==
    \A i, j \in Inst : i # j => ~(pc[i] = "running" /\ pc[j] = "running")

\* A process takes the "exists and ovnkube is running" exit only while some
\* other ovnkube process is alive: a pidfile left by dead processes never
\* blocks a start.
NoFalseRefusal ==
    [][\A i \in Inst :
          (pc[i] # "refused" /\ pc'[i] = "refused")
             => \E j \in Inst \ {i} : Alive(j)]_vars

\* A process started while no other ovnkube is alive is eventually past
\* setupPIDFile, or some process started after it is: whatever pidfile
\* killed, signalled or panicking processes left behind, starts do not all
\* end in refusals or read errors.  (A start that overlaps the exit of a
\* running process may be refused while that process is still alive.)
Progress ==
    \A i \in Inst :
        (pc[i] = "stat" /\ \A j \in Inst \ {i} : ~Alive(j))
            ~> \E j \in Inst : pc[j] = "running"


-----------------------------------------------------------------------------
(***************************************************************************)
(* Refinement: the pidfile protocol implements the abstract lock of        *)
(* SingleInstance.  The owner is the process whose main goroutine is past  *)
(* setupPIDFile; a process leaves "running" only by dying or by a panic    *)
(* that starts its deferred delPidfile.                                    *)
(***************************************************************************)
Owners == {i \in Inst : pc[i] = "running"}

Owner == IF Owners = {} THEN Absent ELSE CHOOSE i \in Owners : TRUE

Lock == INSTANCE SingleInstance WITH owner <- Owner, None <- Absent

\* Every behaviour of the pidfile protocol (starts one at a time, kills,
\* SIGTERMs and panics at any point, the pidfile always writable) is a
\* behaviour of the abstract lock: nobody starts running while another
\* ovnkube runs, and ownership passes only through "no owner".
LockRefinement == Lock!Spec

=============================================================================
