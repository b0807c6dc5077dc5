----------------------------- MODULE Executors -----------------------------
(***************************************************************************)
(* One task in the hands of a worker: _handle_task() and _truncate()       *)
(* (worker/daemon.py) with the executors they call: the shell executor of  *)
(* module ShellExec, and those for files and system information            *)
(* (worker/executor/file.py, system_info.py).                              *)
(*                                                                         *)
(* Of the workspace only what lies at the task's own path is modelled.     *)
(* File operations block the event loop, so that nothing but the file      *)
(* system and the command of an earlier task runs beside them.             *)
(***************************************************************************)
EXTENDS ShellExec

VARIABLES
  task,      \* the type of the task
  within,    \* its path, or cwd, resolves to a place in the workspace
  entry,     \* what is at that path
  stage,     \* how far the task has come
  outcome,   \* what its executor returned
  bulk       \* the output: what it is like

handlingVars == <<within, entry, outcome, bulk>>
execVars == <<task, handlingVars, stage, shellVars>>

FileTasks == {"file_read", "file_write", "list_dir"}
TaskTypes == FileTasks \cup {"shell", "system_info"}

\* "cut": opened for writing and so far empty or incomplete;  "new": written.
FoundEntries == {"none", "file", "dir", "fifo"}
Entries == FoundEntries \cup {"cut", "new"}

(***************************************************************************)
(* "idle": not with the worker;  "exec": in an executor;  "write": the     *)
(* file is open for writing;  "cat", "free": waiting for that tool;        *)
(* "blocked": in open() or read() of a file that gives nothing;            *)
(* "truncate": in _truncate();  "report": the result is known;             *)
(* "escaped": an exception has left _handle_task().                        *)
(***************************************************************************)
Stages ==
  {"idle", "exec", "write", "cat", "free", "blocked", "truncate", "report",
   "escaped"}

\* "lossy": what was no UTF-8 is replaced;  "large": too large to be sent;
\* "undecodable": names that cannot be encoded again.
Bulks == {"fits", "lossy", "large", "undecodable"}

TooLarge == Answer(FALSE, "output_too_large")

ExecutorsTypeOK ==
  /\ ShellTypeOK
  /\ task \in TaskTypes \cup {"none"}
  /\ within \in BOOLEAN
  /\ entry \in Entries
  /\ stage \in Stages
  /\ outcome \in {NoAnswer, Violation, TimedOut, Failed, Ok, TooLarge}
  /\ bulk \in Bulks

ExecutorsInit ==
  /\ ShellInit
  /\ task = "none" /\ within = TRUE /\ entry = "none"
  /\ stage = "idle"
  /\ outcome = NoAnswer /\ bulk = "fits"

\* _handle_task() calls the executor of the type.
Handle ==
  /\ stage' = "exec"
  /\ within' \in IF task = "system_info" THEN {TRUE} ELSE BOOLEAN
  /\ entry' \in IF task \in FileTasks THEN FoundEntries ELSE {"none"}
  /\ entry' = "fifo" => platform = "posix"
  /\ UNCHANGED <<task, outcome, bulk, shellVars>>

Truncated == {"shell", "file_read", "list_dir"}

\* The executor returns, and for some types the output is looked at.
Gives(answer) ==
  /\ outcome' = answer
  /\ stage' = IF task \in Truncated THEN "truncate" ELSE "report"

GivesShort(answer) == Gives(answer) /\ bulk' = "fits"

-----------------------------------------------------------------------------
\* The shell executor; only a command that exited has output.
RunShell ==
  /\ stage = "exec" /\ task = "shell"
  /\ \/ Reject /\ (within <=> result' = Failed)
     \/ within /\ (Raise \/ Spawn)
     \/ Assign \/ Return \/ Expire \/ KillRefused \/ Reap \/ GiveUp
  /\ CASE pc' = "done" -> Gives(result')
       [] pc' = "raised" -> stage' = "escaped" /\ UNCHANGED outcome
       [] OTHER -> UNCHANGED <<stage, outcome>>
  /\ IF pc = "wait" /\ pc' = "done" /\ spared' = {}
       THEN bulk' \in {"fits", "lossy", "large"}
       ELSE UNCHANGED bulk
  /\ UNCHANGED <<task, within, entry>>

Clock == Tick /\ UNCHANGED <<task, handlingVars, stage>>

\* The processes of the command.
CommandRuns ==
  /\ \E p \in Procs :
       \/ LeaveGroup(p) \/ ClosePipe(p) \/ Exit(p)
       \/ \E q \in Procs : Fork(p, q)
  /\ UNCHANGED <<task, handlingVars, stage>>

FileStep(type) ==
  /\ stage = "exec" /\ task = type /\ within
  /\ UNCHANGED <<task, within, shellVars>>

\* The path leads out of the workspace.
PathEscapes ==
  /\ stage = "exec" /\ task \in FileTasks /\ ~within
  /\ GivesShort(Violation)
  /\ UNCHANGED <<task, within, entry, shellVars>>

\* Nothing there, a directory, no permission; or the content.
ReadFile ==
  /\ FileStep("file_read")
  /\ \/ entry = "fifo" /\ stage' = "blocked" /\ UNCHANGED <<outcome, bulk>>
     \/ entry # "fifo" /\ GivesShort(Failed)
     \/ entry = "file" /\ Gives(Ok) /\ bulk' \in {"fits", "lossy", "large"}
  /\ UNCHANGED entry

\* The parents are made and the file is opened, which empties it; there may
\* be a directory, a file in the place of a parent, or no permission.
OpenFile ==
  /\ FileStep("file_write")
  /\ \/ entry = "fifo" /\ stage' = "blocked" /\ UNCHANGED <<entry, outcome, bulk>>
     \/ entry # "fifo" /\ GivesShort(Failed) /\ UNCHANGED entry
     \/ /\ entry \in {"none", "file"}
        /\ stage' = "write" /\ entry' = "cut"
        /\ UNCHANGED <<outcome, bulk>>

\* The content is encoded, written and flushed, each of which may fail.
WriteFile ==
  /\ stage = "write"
  /\ \/ entry' = "new" /\ GivesShort(Ok)
     \/ entry' = "cut" /\ GivesShort(Failed)
  /\ UNCHANGED <<task, within, shellVars>>

\* The other side of the FIFO is opened and closed.
Unblock ==
  /\ stage = "blocked"
  /\ GivesShort(Ok) \/ GivesShort(Failed)
  /\ UNCHANGED <<task, within, entry, shellVars>>

\* Names come as the file system has them; an entry whose stat() raises, as
\* one that was removed meanwhile, fails the whole task.
ListDir ==
  /\ FileStep("list_dir")
  /\ \/ GivesShort(Failed)
     \/ entry = "dir" /\ Gives(Ok) /\ bulk' \in {"fits", "large", "undecodable"}
  /\ UNCHANGED entry

\* Two tools are run one after the other on Linux, which may fail for
\* themselves; whatever else raises makes the task fail.
SystemInfo ==
  /\ task = "system_info"
  /\ \/ stage = "exec" /\ platform = "posix" /\ stage' = "cat" /\ UNCHANGED <<outcome, bulk>>
     \/ stage = "cat" /\ stage' = "free" /\ UNCHANGED <<outcome, bulk>>
     \/ stage \in {"exec", "free"} /\ GivesShort(Ok)
     \/ stage \in {"exec", "cat", "free"} /\ GivesShort(Failed)
  /\ UNCHANGED <<task, within, entry, shellVars>>

\* _truncate(): what does not fit makes the task fail, and what cannot be
\* encoded raises.
Truncate ==
  /\ stage = "truncate"
  /\ stage' = IF bulk = "undecodable" THEN "escaped" ELSE "report"
  /\ outcome' = IF bulk = "large" THEN TooLarge ELSE outcome
  /\ UNCHANGED <<task, within, entry, bulk, shellVars>>

\* The steps of the daemon.
ExecutorStep ==
  \/ RunShell
  \/ PathEscapes \/ ReadFile \/ OpenFile \/ WriteFile \/ ListDir
  \/ SystemInfo
  \/ Truncate
=============================================================================
