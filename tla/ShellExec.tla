----------------------------- MODULE ShellExec -----------------------------
(***************************************************************************)
(* One call of ShellExecutor.execute() (worker/executor/shell.py) against  *)
(* the processes of its command, which fork, exit, close the output pipe   *)
(* and move to other process groups as they like.                          *)
(*                                                                         *)
(* "posix" tracks the command by its process group; Windows by a job       *)
(* object ("job") or, when that could not be made, by the first process    *)
(* only ("nojob").  Whose a process is stays open until it is to be        *)
(* killed, since sudo and the like may change that at any time.            *)
(*                                                                         *)
(* The unit of time is 0.2 s.  The event loop is timely: time does not     *)
(* pass a deadline that is due.  What is ready at the very instant of a    *)
(* deadline may be seen before it or not.  Process ids are not reused      *)
(* while the call lasts.                                                   *)
(***************************************************************************)
EXTENDS Naturals

CONSTANTS
  Procs,     \* the processes a command may consist of
  Shell,     \* the first of them
  Deadline   \* command_timeout

ASSUME ShellAssumption ==
  /\ Shell \in Procs
  /\ Deadline \in Nat

Grace == 1   \* 0.2 s
Drain == 4   \* 0.8 s

VARIABLES
  platform,
  pc,        \* where execute() is suspended
  now, due,  \* the time, and the deadline of the current wait
  alive,     \* the live processes of the command
  born,      \* those that were ever started
  tracked,   \* the members of the process group, or of the job
  pipe,      \* the processes holding the write end of the output pipe
  spared,    \* history: those the kill was not permitted for, and their children
  status,    \* the exit status of the shell
  result     \* what execute() returned

shellVars ==
  <<platform, pc, now, due, alive, born, tracked, pipe, spared, status, result>>

Answer(success, code) == [success |-> success, code |-> code]

Violation == Answer(FALSE, "workspace_violation")
TimedOut == Answer(FALSE, "timeout")
Failed == Answer(FALSE, "none")
Ok == Answer(TRUE, "none")
NoAnswer == Answer(FALSE, "pending")

Pcs == {"start", "assign", "wait", "reap", "drain", "done", "raised"}

ShellTypeOK ==
  /\ platform \in {"posix", "job", "nojob"}
  /\ pc \in Pcs
  /\ now \in Nat /\ due \in Nat
  /\ alive \in SUBSET Procs /\ born \in SUBSET Procs
  /\ tracked \in SUBSET Procs /\ pipe \in SUBSET Procs /\ spared \in SUBSET Procs
  /\ status \in {"none", "zero", "nonzero", "killed"}
  /\ result \in {NoAnswer, Violation, TimedOut, Failed, Ok}

ShellInit ==
  /\ platform \in {"posix", "job", "nojob"}
  /\ pc = "start"
  /\ now = 0 /\ due = Deadline
  /\ alive = {} /\ born = {} /\ tracked = {} /\ pipe = {} /\ spared = {}
  /\ status = "none"
  /\ result = NoAnswer

-----------------------------------------------------------------------------
\* The executor.

\* cwd lies outside the workspace, or the process cannot be created.
Reject ==
  /\ pc = "start"
  /\ pc' = "done"
  /\ result' \in {Violation, Failed}
  /\ UNCHANGED <<platform, now, due, alive, born, tracked, pipe, spared, status>>

\* mkdir() raises, outside of the try statement.
Raise ==
  /\ pc = "start"
  /\ pc' = "raised"
  /\ UNCHANGED <<platform, now, due, alive, born, tracked, pipe, spared, status, result>>

\* The shell starts, on POSIX as the leader of a new session.
Spawn ==
  /\ pc = "start"
  /\ pc' = IF platform = "job" THEN "assign" ELSE "wait"
  /\ alive' = {Shell} /\ born' = {Shell} /\ pipe' = {Shell}
  /\ tracked' = IF platform = "posix" THEN {Shell} ELSE {}
  /\ UNCHANGED <<platform, now, due, spared, status, result>>

\* The shell is put into the job, but not what it started before; whether
\* AssignProcessToJobObject() succeeded is not looked at.
Assign ==
  /\ pc = "assign"
  /\ pc' = "wait"
  /\ tracked' \in {{}, alive \cap {Shell}}
  /\ UNCHANGED <<platform, now, due, alive, born, pipe, spared, status, result>>

\* Mutant: communicate() only waits for the shell.
MutCommunicated == Shell \notin alive

\* communicate() has read to the end of the pipe and reaped the shell.
Communicated == Shell \notin alive /\ alive \cap pipe = {}

\* Closing the handle of a job kills its members.
CloseJob == alive' = IF platform = "job" THEN alive \ tracked ELSE alive

\* Mutant: the exit status is taken for the error code.
MutReturn ==
  /\ pc = "wait"
  /\ Communicated
  /\ pc' = "done"
  /\ result' = Answer(status = "zero", status)
  /\ CloseJob
  /\ UNCHANGED <<platform, now, due, born, tracked, pipe, spared, status>>

\* communicate() ends in time.
Return ==
  /\ pc = "wait"
  /\ Communicated
  /\ pc' = "done"
  /\ result' = IF status = "zero" THEN Ok ELSE Failed
  /\ CloseJob
  /\ UNCHANGED <<platform, now, due, born, tracked, pipe, spared, status>>

\* Mutant: only the shell is killed.
MutVictims == alive \cap {Shell}

\* Whom killpg(), TerminateJobObject() or Popen.kill() is for.
Victims == alive \cap (IF platform = "nojob" THEN {Shell} ELSE tracked)

\* Whom it leaves alive: members of a process group that are another user's.
Denied == IF platform = "posix" THEN SUBSET Victims ELSE {{}}

\* The deadline of the command: it is killed.
Expire ==
  /\ pc = "wait"
  /\ now = due
  /\ spared' \in Denied
  /\ spared' # {} => spared' # tracked
  /\ pc' = IF platform = "posix" THEN "reap" ELSE "drain"
  /\ due' = now + Grace
  /\ alive' = alive \ (Victims \ spared')
  /\ status' = IF Shell \in Victims \ spared' THEN "killed" ELSE status
  /\ UNCHANGED <<platform, now, born, tracked, pipe, result>>

\* killpg() raises if it may not signal any member (one that has ended and
\* was not reaped may be signalled), which ends the call.
KillRefused ==
  /\ pc = "wait"
  /\ now = due
  /\ platform = "posix" /\ Victims # {}
  /\ spared' = Victims
  /\ pc' = "done" /\ result' = Failed
  /\ UNCHANGED <<platform, now, due, alive, born, tracked, pipe, status>>

\* Mutant: the second wait is as long as the command's.
MutReap ==
  /\ pc = "reap"
  /\ Shell \notin alive \/ now = due
  /\ pc' = "drain"
  /\ due' = now + Deadline
  /\ UNCHANGED <<platform, now, alive, born, tracked, pipe, spared, status, result>>

\* proc.wait() ends or times out; some versions of asyncio let it wait for
\* the end of the pipe too.
Reap ==
  /\ pc = "reap"
  /\ Shell \notin alive \/ now = due
  /\ pc' = "drain"
  /\ due' = now + Drain
  /\ UNCHANGED <<platform, now, alive, born, tracked, pipe, spared, status, result>>

\* Mutant: the output is read to its end, however long that takes.
MutGiveUp ==
  /\ pc = "drain"
  /\ Communicated
  /\ pc' = "done"
  /\ result' = TimedOut
  /\ CloseJob
  /\ UNCHANGED <<platform, now, due, born, tracked, pipe, spared, status>>

\* communicate() ends, or is given up, after the kill.
GiveUp ==
  /\ pc = "drain"
  /\ Communicated \/ now = due
  /\ pc' = "done"
  /\ result' = TimedOut
  /\ CloseJob
  /\ UNCHANGED <<platform, now, due, born, tracked, pipe, spared, status>>

-----------------------------------------------------------------------------
\* The command, which goes on when execute() has returned.

\* A child inherits the pipe and the group or job of its parent.
Fork(p, q) ==
  /\ p \in alive
  /\ q \notin born
  /\ alive' = alive \cup {q} /\ born' = born \cup {q}
  /\ tracked' = IF p \in tracked THEN tracked \cup {q} ELSE tracked
  /\ spared' = IF p \in spared THEN spared \cup {q} ELSE spared
  /\ pipe' = IF p \in pipe THEN pipe \cup {q} ELSE pipe
  /\ UNCHANGED <<platform, pc, now, due, status, result>>

\* setsid() or setpgid(), which the leader of a session cannot call; a job
\* without the breakaway limit cannot be left.
LeaveGroup(p) ==
  /\ platform = "posix"
  /\ p \in (alive \cap tracked) \ {Shell}
  /\ tracked' = tracked \ {p}
  /\ UNCHANGED <<platform, pc, now, due, alive, born, pipe, spared, status, result>>

ClosePipe(p) ==
  /\ p \in alive \cap pipe
  /\ pipe' = pipe \ {p}
  /\ UNCHANGED <<platform, pc, now, due, alive, born, tracked, spared, status, result>>

Exit(p) ==
  /\ p \in alive
  /\ alive' = alive \ {p}
  /\ IF p = Shell THEN status' \in {"zero", "nonzero"} ELSE UNCHANGED status
  /\ UNCHANGED <<platform, pc, now, due, born, tracked, pipe, result, spared>>

\* Time passes unless execute() is due.
Tick ==
  /\ pc \in {"wait", "reap", "drain"}
  /\ now < due
  /\ ~Communicated
  /\ now' = now + 1
  /\ UNCHANGED <<platform, pc, due, alive, born, tracked, pipe, spared, status, result>>

ShellNext ==
  \/ Reject \/ Raise \/ Spawn \/ Assign
  \/ Return \/ Expire \/ KillRefused \/ Reap \/ GiveUp
  \/ \E p \in Procs :
       \/ LeaveGroup(p) \/ ClosePipe(p) \/ Exit(p)
       \/ \E q \in Procs : Fork(p, q)
  \/ Tick

ShellSpec == ShellInit /\ [][ShellNext]_shellVars

-----------------------------------------------------------------------------
\* execute() is never suspended for more than a second beyond the deadline,
\* also when processes that left the group keep the pipe open.  The daemon
\* executes one task at a time: this is what keeps a command from blocking
\* the worker for ever.
AnsweredInTime == now <= Deadline + Grace + Drain

\* A timeout is reported when the command is dead.  Of those that stayed in
\* its group or job, whatever forked, exited or moved while the deadline
\* passed, none is left, except for processes of another user and their
\* children; without a job at least the shell is dead.  (docs/deploy.md says that
\* long-running commands are killed; those exceptions, and one that could not be
\* put into its job, are not.)
KilledOnTimeout ==
  result = TimedOut =>
    IF platform = "nojob" THEN Shell \notin alive
                          ELSE alive \cap tracked \subseteq spared

\* A command that is reported by its exit status has exited itself, and its
\* output is complete: nobody is left who could write more of it.  The only
\* other failure of a command that was started is a refused kill, at its
\* deadline.
OutputIsComplete ==
  result \in {Ok, Failed} /\ born # {} =>
    \/ /\ alive \cap pipe = {}
       /\ Shell \notin alive
       /\ status = IF result = Ok THEN "zero" ELSE "nonzero"
    \/ result = Failed /\ spared # {} /\ now = Deadline
=============================================================================
