------------------------------ MODULE SimCompile ------------------------------
(***************************************************************************)
(* sim::compile and Spawner::run of src/src/sim/compile.cc: the parent    *)
(* that forks the compiler, the child process, the real-time Timer that   *)
(* SIGKILLs it, and the clock.  Spawner::run_child, Timer and             *)
(* FileDescriptor are not in the repository; they are modelled by what   *)
(* run() relies on: the child sets itself up and stops (or writes an     *)
(* error to the pipe and exits), continues on SIGCONT and execs; the     *)
(* Timer(cpid, limit) sends SIGKILL to cpid once limit has elapsed since  *)
(* its construction, until stop_and_get_runtime(), which returns the     *)
(* time elapsed until that call; a FileDescriptor closes on destruction.  *)
(* Time is counted from the Timer's construction, the only clock the code *)
(* reads.  The argument vector (proot prefix, compile_command) is data    *)
(* that no decision depends on.                                           *)
(***************************************************************************)
EXTENDS Integers

CONSTANTS
    TimeLimits,   \* the time_limit arguments: NoLimit or a number of ticks
    MaxElapsed,   \* the bound on the clock
    NoLimit       \* an empty Optional<nanoseconds>

ASSUME TimeLimits \subseteq Int \cup {NoLimit} /\ MaxElapsed \in Nat

VARIABLES
    pc,        \* where the parent is in compile() / Spawner::run
    tl,        \* time_limit
    want,      \* c_errors != nullptr
    fds,       \* the parent's descriptors opened by compile: cef, pfd[0], pfd[1]
    child,     \* the child process: none, setup, stopped, running, compiling,
               \* exited (a zombie), reaped
    cstatus,   \* how it ended: none, ok (exit 0), fail (exit # 0), killed
    pipeMsg,   \* the child wrote an error message to pfd[1]
    timer,     \* the real-time Timer: none, armed, fired, stopped
    elapsed,   \* time since the Timer was constructed
    pidReused, \* the reaped child's pid now names another process
    strayKill, \* a SIGKILL meant for the child reached that other process
    returned,  \* compile's outcome: none, 0, 2, throw
    cerr       \* *c_errors: unset, empty, tle ("Compilation time limit exceeded"),
               \* contents (getFileContents(cef))

vars == <<pc, tl, want, fds, child, cstatus, pipeMsg, timer, elapsed,
          pidReused, strayKill, returned, cerr>>

Alive == {"setup", "stopped", "running", "compiling"}

Init ==
    /\ pc = "begin"
    /\ tl \in TimeLimits
    /\ want \in BOOLEAN
    /\ fds = {}
    /\ child = "none"
    /\ cstatus = "none"
    /\ pipeMsg = FALSE
    /\ timer = "none"
    /\ elapsed = 0
    /\ pidReused = FALSE
    /\ strayKill = FALSE
    /\ returned = "none"
    /\ cerr = "unset"

-----------------------------------------------------------------------------
(* Helpers                                                                 *)

(* kill(cpid, SIGKILL): a live child (stopped too) dies; a zombie is not   *)
(* affected; once reaped, the pid may name another process.              *)
SigKill ==
    /\ child' = IF child \in Alive THEN "exited" ELSE child
    /\ cstatus' = IF child \in Alive THEN "killed" ELSE cstatus
    /\ strayKill' = (strayKill \/ (child = "reaped" /\ pidReused))

(* Leaving compile, by return or exception: the destructors close the   *)
(* descriptors in released (cef's FileDescriptor, the Closer of pfd[0]). *)
Leave(res, released) ==
    /\ pc' = "done"
    /\ returned' = res
    /\ fds' = fds \ released

(* receive_error_message(si, pfd[0]): throws the child's message if it  *)
(* wrote one, otherwise describes si ("returned ...", "killed by ...").  *)
ReceiveErrorMessageThrows == pipeMsg

(* Mutant: a failed compilation returning 1 instead of 2.                 *)
CompileResultReturnsOne(runtime, released) ==
    IF cstatus = "ok"
    THEN Leave("0", released) /\ cerr' = IF want THEN "empty" ELSE cerr
    ELSE Leave("1", released) /\ cerr' = IF want THEN "contents" ELSE cerr

(* compile() after Spawner::run returned es: 0 and "" for an exit with   *)
(* status 0; otherwise 2, and *c_errors is the time-limit message when   *)
(* es.runtime >= time_limit, the compiler's output otherwise.            *)
CompileResult(runtime, released) ==
    IF cstatus = "ok"
    THEN Leave("0", released) /\ cerr' = IF want THEN "empty" ELSE cerr
    ELSE /\ Leave("2", released)
         /\ cerr' = IF ~want THEN cerr
                    ELSE IF tl # NoLimit /\ runtime >= tl THEN "tle" ELSE "contents"

(* The end of run(): receive_error_message may throw, otherwise compile  *)
(* goes on with the ExitStat.  pfd[0] and cef are closed either way.      *)
RunReturns(runtime) ==
    IF cstatus # "ok" /\ ReceiveErrorMessageThrows
    THEN Leave("throw", {"cef", "pipe0"}) /\ UNCHANGED cerr
    ELSE CompileResult(runtime, {"cef", "pipe0"})

-----------------------------------------------------------------------------
(* The parent                                                              *)

(* time_limit.has_value() and time_limit.value() <= 0ns                  *)
LimitInvalid == IF tl = NoLimit THEN FALSE ELSE tl <= 0

(* time_limit <= 0 throws; with c_errors, openUnlinkedTmpFile may fail.   *)
Begin ==
    /\ pc = "begin"
    /\ \/ LimitInvalid /\ Leave("throw", {})
       \/ ~LimitInvalid /\ want /\ Leave("throw", {})
       \/ /\ ~LimitInvalid
          /\ pc' = "pipe"
          /\ fds' = IF want THEN {"cef"} ELSE {}
          /\ UNCHANGED returned
    /\ UNCHANGED <<tl, want, child, cstatus, pipeMsg, timer, elapsed,
                   pidReused, strayKill, cerr>>

(* pipe2(pfd, O_CLOEXEC); it may fail and throw.                          *)
Pipe ==
    /\ pc = "pipe"
    /\ \/ Leave("throw", {"cef"})
       \/ pc' = "fork" /\ fds' = fds \cup {"pipe0", "pipe1"} /\ UNCHANGED returned
    /\ UNCHANGED <<tl, want, child, cstatus, pipeMsg, timer, elapsed,
                   pidReused, strayKill, cerr>>

(* fork(); on failure THROW("fork()") with both pipe ends still open.     *)
(* Otherwise the parent closes pfd[1] and guards pfd[0] with a Closer.    *)
Fork ==
    /\ pc = "fork"
    /\ \/ Leave("throw", {"cef"}) /\ UNCHANGED child
       \/ /\ child' = "setup"
          /\ fds' = fds \ {"pipe1"}
          /\ pc' = "waitReady"
          /\ UNCHANGED returned
    /\ UNCHANGED <<tl, want, cstatus, pipeMsg, timer, elapsed, pidReused,
                   strayKill, cerr>>

(* Mutant: the ready-wait without WEXITED: a child that exits during    *)
(* its setup is never waited for.                                          *)
WaitReadyStoppedOnly ==
    /\ pc = "waitReady"
    /\ child = "stopped" /\ pc' = "arm"
    /\ UNCHANGED <<child, fds, returned, cerr>>
    /\ UNCHANGED <<tl, want, cstatus, pipeMsg, timer, elapsed, pidReused, strayKill>>

(* Mutant: the early return after the ready-wait builds the ExitStat     *)
(* without receive_error_message, as the success path at the end does.    *)
WaitReadyNoErrorMessage ==
    /\ pc = "waitReady"
    /\ \/ child = "stopped" /\ pc' = "arm"
          /\ UNCHANGED <<child, fds, returned, cerr>>
       \/ child = "exited" /\ child' = "reaped" /\ CompileResult(0, {"cef", "pipe0"})
    /\ UNCHANGED <<tl, want, cstatus, pipeMsg, timer, elapsed, pidReused, strayKill>>

(* waitid(P_PID, cpid, WSTOPPED | WEXITED): a stopped child is ready; a  *)
(* child that exited instead is reaped and run returns at once.          *)
WaitReady ==
    /\ pc = "waitReady"
    /\ \/ child = "stopped" /\ pc' = "arm"
          /\ UNCHANGED <<child, fds, returned, cerr>>
       \/ child = "exited" /\ child' = "reaped" /\ RunReturns(0)
    /\ UNCHANGED <<tl, want, cstatus, pipeMsg, timer, elapsed, pidReused, strayKill>>

(* Mutant: the Timer constructed before the kill-and-wait guard, so its  *)
(* exception leaves the stopped child behind.                             *)
ArmGuardAfterTimer ==
    /\ pc = "arm"
    /\ \/ Leave("throw", {"cef", "pipe0"})
          /\ UNCHANGED <<child, cstatus, timer, elapsed, strayKill>>
       \/ /\ timer' = IF tl = NoLimit THEN "none" ELSE "armed"
          /\ elapsed' = 0
          /\ child' = "running"
          /\ pc' = "waitExit"
          /\ UNCHANGED <<fds, returned, cstatus, strayKill>>
    /\ UNCHANGED <<tl, want, pipeMsg, pidReused, cerr>>

(* Mutant: the Timer given the (empty) cpu_time_limit.                     *)
ArmWithCpuLimit ==
    /\ pc = "arm"
    /\ \/ child' = "reaped" /\ cstatus' = "killed"
          /\ Leave("throw", {"cef", "pipe0"})
          /\ UNCHANGED <<timer, elapsed, strayKill>>
       \/ /\ timer' = "none"
          /\ elapsed' = 0
          /\ child' = "running"
          /\ pc' = "waitExit"
          /\ UNCHANGED <<fds, returned, cstatus, strayKill>>
    /\ UNCHANGED <<tl, want, pipeMsg, pidReused, cerr>>

(* The kill-and-wait guard, Timer(cpid, real_time_limit) and              *)
(* CPUTimeMonitor (either may throw: the guard's kill(-cpid, SIGKILL)     *)
(* and waitid reap the child), then kill(cpid, SIGCONT).                  *)
Arm ==
    /\ pc = "arm"
    /\ \/ child' = "reaped" /\ cstatus' = "killed"
          /\ Leave("throw", {"cef", "pipe0"})
          /\ UNCHANGED <<timer, elapsed, strayKill>>
       \/ /\ timer' = IF tl = NoLimit THEN "none" ELSE "armed"
          /\ elapsed' = 0
          /\ child' = "running"
          /\ pc' = "waitExit"
          /\ UNCHANGED <<fds, returned, cstatus, strayKill>>
    /\ UNCHANGED <<tl, want, pipeMsg, pidReused, cerr>>

(* waitid(..., WEXITED | WNOWAIT) returns once the child is a zombie;     *)
(* then the CPU time is read, the guard cancelled and the CPU monitor     *)
(* deactivated.                                                           *)
ChildDied ==
    /\ pc = "waitExit"
    /\ child = "exited"
    /\ pc' = "reap"
    /\ UNCHANGED <<tl, want, fds, child, cstatus, pipeMsg, timer, elapsed,
                   pidReused, strayKill, returned, cerr>>

(* syscall(SYS_waitid, ..., WEXITED): the zombie is reaped.               *)
Reap ==
    /\ pc = "reap"
    /\ child' = "reaped"
    /\ pc' = "stop"
    /\ UNCHANGED <<tl, want, fds, cstatus, pipeMsg, timer, elapsed,
                   pidReused, strayKill, returned, cerr>>

(* timer.stop_and_get_runtime() (it may throw), then run returns.        *)
Stop ==
    /\ pc = "stop"
    /\ timer' = "stopped"
    /\ \/ Leave("throw", {"cef", "pipe0"}) /\ UNCHANGED cerr
       \/ RunReturns(elapsed)
    /\ UNCHANGED <<tl, want, child, cstatus, pipeMsg, elapsed, pidReused, strayKill>>

Terminated == pc = "done" /\ UNCHANGED vars

Parent == Begin \/ Pipe \/ Fork \/ WaitReady \/ Arm \/ ChildDied \/ Reap \/ Stop

-----------------------------------------------------------------------------
(* The child, the Timer, the clock and the rest of the system             *)

ChildUnchanged == UNCHANGED <<pc, tl, want, fds, timer, elapsed, pidReused,
                              strayKill, returned, cerr>>

(* run_child: the setup succeeds and the child stops itself, or it       *)
(* writes the error to the pipe and exits.                                *)
ChildSetup ==
    /\ child = "setup"
    /\ \/ child' = "stopped" /\ UNCHANGED <<cstatus, pipeMsg>>
       \/ child' = "exited" /\ cstatus' = "fail" /\ pipeMsg' = TRUE
    /\ ChildUnchanged

(* After SIGCONT: execve succeeds (the pipe closes on exec) or fails and  *)
(* the error goes to the pipe.                                            *)
ChildExec ==
    /\ child = "running"
    /\ \/ child' = "compiling" /\ UNCHANGED <<cstatus, pipeMsg>>
       \/ child' = "exited" /\ cstatus' = "fail" /\ pipeMsg' = TRUE
    /\ ChildUnchanged

(* The compiler exits with status 0 or not; it may also never exit.      *)
ChildExits ==
    /\ child = "compiling"
    /\ child' = "exited"
    /\ cstatus' \in {"ok", "fail"}
    /\ UNCHANGED pipeMsg
    /\ ChildUnchanged

Tick ==
    /\ timer \in {"armed", "fired"}
    /\ elapsed < MaxElapsed
    /\ elapsed' = elapsed + 1
    /\ UNCHANGED <<pc, tl, want, fds, child, cstatus, pipeMsg, timer,
                   pidReused, strayKill, returned, cerr>>

(* The Timer expires: SIGKILL to cpid, whatever cpid now is.             *)
TimerFires ==
    /\ timer = "armed"
    /\ elapsed >= tl
    /\ timer' = "fired"
    /\ SigKill
    /\ UNCHANGED <<pc, tl, want, fds, pipeMsg, elapsed, pidReused, returned, cerr>>

(* Once reaped, the pid may be given to a new process.                    *)
PidReuse ==
    /\ child = "reaped"
    /\ ~pidReused
    /\ pidReused' = TRUE
    /\ UNCHANGED <<pc, tl, want, fds, child, cstatus, pipeMsg, timer, elapsed,
                   strayKill, returned, cerr>>

Next ==
    \/ Parent
    \/ ChildSetup \/ ChildExec \/ ChildExits
    \/ Tick \/ TimerFires \/ PidReuse
    \/ Terminated

(* The parent thread, run_child's setup, execve, the clock and the       *)
(* kernel's timer make progress; the compiler need not terminate.         *)
Fairness ==
    /\ WF_vars(Parent)
    /\ WF_vars(ChildSetup)
    /\ WF_vars(ChildExec)
    /\ WF_vars(Tick)
    /\ WF_vars(TimerFires)

Spec == Init /\ [][Next]_vars /\ Fairness

-----------------------------------------------------------------------------
(* Properties                                                              *)

TypeOK ==
    /\ pc \in {"begin", "pipe", "fork", "waitReady", "arm", "waitExit", "reap",
               "stop", "done"}
    /\ tl \in TimeLimits /\ want \in BOOLEAN
    /\ fds \subseteq {"cef", "pipe0", "pipe1"}
    /\ child \in Alive \cup {"none", "exited", "reaped"}
    /\ cstatus \in {"none", "ok", "fail", "killed"}
    /\ timer \in {"none", "armed", "fired", "stopped"}
    /\ elapsed \in 0..MaxElapsed
    /\ returned \in {"none", "0", "2", "throw"}
    /\ cerr \in {"unset", "empty", "tle", "contents"}

(* However compile ends (return, or an exception from pipe, fork, the   *)
(* Timer, receive_error_message or stop_and_get_runtime), the compiler   *)
(* process it forked has been reaped: none is left stopped, running or   *)
(* as a zombie.  The kill-and-wait guard is what covers the exceptions  *)
(* between the ready-wait and the cancel.                                  *)
NoChildOutlivesCompile == pc = "done" => child \in {"none", "reaped"}

(* A compiler process that failed before running (run_child's setup, or *)
(* execve) wrote its error to the pipe; compile then never returns 0 or 2 *)
(* as if the compiler had run: receive_error_message throws that message, *)
(* whether the failure is seen by the ready-wait (the early return at the *)
(* si_code != CLD_STOPPED test) or after SIGCONT by the final wait.       *)
ChildErrorThrown == (pc = "done" /\ pipeMsg) => returned = "throw"

(* With a time limit, compile always ends, whatever the compiler does:   *)
(* the Timer kills a compiler that runs on.                               *)
TimeLimitedCompileEnds == tl # NoLimit => <>(pc = "done")

(* Whether or not a time limit is set, once the compiler process has    *)
(* exited (by itself, after a failed setup or exec, or killed), compile  *)
(* returns or throws: each of the three waits (ready, exit, reap) is    *)
(* satisfied by the exit, so the parent never blocks on a dead child.   *)
CompileEndsOnceCompilerExits == (child = "exited") ~> (pc = "done")

(* "Compilation time limit exceeded" is reported only for a compiler    *)
(* that the Timer killed, not one that failed on its own in time.         *)
TimeLimitReportedOnlyOnKill == cerr = "tle" => cstatus = "killed"

(* The Timer's SIGKILL only ever reaches the compiler it was set for.    *)
SigKillOnlyToOwnChild == ~strayKill

(* Every descriptor compile opens (cef, both pipe ends) is closed when  *)
(* it returns or throws.                                                  *)
DescriptorsReleased == pc = "done" => fds = {}

=============================================================================
