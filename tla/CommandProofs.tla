--------------------------- MODULE CommandProofs ---------------------------
(***************************************************************************)
(* Proofs about a call of the client, for any deadline and any number of   *)
(* processes: the shell executor as module ShellExec has it, what exit     *)
(* status 0 stands for, and that a refused call leaves no trace.           *)
(***************************************************************************)
EXTENDS Command, TLAPS

-----------------------------------------------------------------------------
(* The executor of commands: module ShellExec. *)

\* Which wait the executor is in bounds its deadline.
InTime ==
  /\ now <= due
  /\ pc \notin {"reap", "drain", "done"} => due = Deadline
  /\ pc = "reap" => due <= Deadline + Grace
  /\ due <= Deadline + Grace + Drain

\* What the executor has done so far, and what became of the shell.
Progress ==
  /\ alive \subseteq born /\ tracked \subseteq born /\ pipe \subseteq born
  /\ pc \in {"start", "raised", "assign", "wait"} \/ platform # "posix" => spared = {}
  /\ pc \in {"start", "raised"} => born = {}
  /\ pc \in {"assign", "wait", "reap", "drain"} => Shell \in born
  /\ pc # "done" => result = NoAnswer
  /\ Shell \in born /\ Shell \notin alive => status # "none"
  /\ born # {} \/ result = TimedOut => Shell \in born
  /\ pc \in {"start", "assign", "wait"} => status # "killed"

\* What is tracked has been killed from the deadline on, or could not be.
Killed ==
  pc \in {"reap", "drain"} =>
    IF platform = "nojob" THEN Shell \notin alive
                          ELSE alive \cap tracked \subseteq spared

ShellInv ==
  ShellTypeOK /\ InTime /\ Progress /\ Killed /\ KilledOnTimeout /\ OutputIsComplete

\* The initial states satisfy the invariant.
LEMMA ShellInitInv == ShellInit => ShellInv
  BY ShellAssumption
  DEF ShellInit, ShellInv, ShellTypeOK, InTime, Progress, Killed,
      KilledOnTimeout, OutputIsComplete, Pcs, NoAnswer, TimedOut, Ok, Failed,
      Violation, Answer, Grace, Drain

\* Nobody who was killed comes back while the output is read.
LEMMA KilledStays ==
  ASSUME Killed, pc = "drain", UNCHANGED <<platform, tracked, spared>>,
         alive' \subseteq alive
  PROVE  KilledOnTimeout'
<1>1. CASE platform = "nojob"  BY <1>1 DEF Killed, KilledOnTimeout
<1>2. CASE platform # "nojob"  BY <1>2 DEF Killed, KilledOnTimeout
<1> QED  BY <1>1, <1>2

\* Every step of the executor preserves it.
LEMMA ExecutorStepInv ==
  ASSUME ShellInv,
         \/ Reject \/ Raise \/ Spawn \/ Assign \/ Return \/ Tick
         \/ Expire \/ KillRefused \/ Reap \/ GiveUp
  PROVE  ShellInv'
<1>8. CASE GiveUp
  <2>1. alive' = alive
    <3>1. CASE platform = "job"
      <4>1. alive \cap tracked = {}
        BY <1>8, <3>1 DEF GiveUp, ShellInv, Killed, Progress
      <4> QED
        BY <1>8, <3>1, <4>1 DEF GiveUp, CloseJob
    <3> QED
      BY <1>8, <3>1 DEF GiveUp, CloseJob
  <2>2. KilledOnTimeout'
    BY <1>8, <2>1, KilledStays DEF GiveUp, ShellInv
  <2>3. UNCHANGED <<platform, now, due, born, tracked, pipe, spared, status>>
    BY <1>8 DEF GiveUp
  <2>4. pc = "drain" /\ pc' = "done" /\ result' = TimedOut
    BY <1>8 DEF GiveUp
  <2> QED
    BY <2>1, <2>2, <2>3, <2>4
    DEF ShellInv, ShellTypeOK, InTime, Progress, Killed, OutputIsComplete, Pcs, TimedOut,
        Ok, Failed, NoAnswer, Answer
<1> USE ShellAssumption
    DEF ShellInv, ShellTypeOK, InTime, Progress, Killed, KilledOnTimeout,
        OutputIsComplete, Pcs, NoAnswer, TimedOut, Ok, Failed, Violation,
        Answer, Grace, Drain
<1>1. CASE Reject  BY <1>1 DEF Reject
<1>2. CASE Raise  BY <1>2 DEF Raise
<1>3. CASE Spawn  BY <1>3 DEF Spawn
<1>4. CASE Assign  BY <1>4 DEF Assign
<1>5. CASE Return  BY <1>5 DEF Return, Communicated, CloseJob
<1>6. CASE Expire  BY <1>6 DEF Expire, Victims, Denied
<1>10. CASE KillRefused  BY <1>10 DEF KillRefused, Victims
<1>7. CASE Reap  BY <1>7 DEF Reap
<1>9. CASE Tick  BY <1>9 DEF Tick
<1> QED  BY <1>1, <1>2, <1>3, <1>4, <1>5, <1>6, <1>7, <1>8, <1>9, <1>10

\* Whatever the processes of the command do preserves it.
LEMMA CommandStepInv ==
  ASSUME ShellInv, NEW p \in Procs, NEW q \in Procs,
         Fork(p, q) \/ LeaveGroup(p) \/ ClosePipe(p) \/ Exit(p)
  PROVE  ShellInv'
<1> USE ShellAssumption
    DEF ShellInv, ShellTypeOK, InTime, Progress, Killed, KilledOnTimeout,
        OutputIsComplete, Pcs, NoAnswer, TimedOut, Ok, Failed, Violation,
        Answer, Grace, Drain
<1>1. CASE Fork(p, q)  BY <1>1 DEF Fork
<1>2. CASE LeaveGroup(p)  BY <1>2 DEF LeaveGroup
<1>3. CASE ClosePipe(p)  BY <1>3 DEF ClosePipe
<1>4. CASE Exit(p)  BY <1>4 DEF Exit
<1> QED  BY <1>1, <1>2, <1>3, <1>4

\* The invariant is inductive.
LEMMA ShellStepInv == ShellInv /\ [ShellNext]_shellVars => ShellInv'
<1> SUFFICES ASSUME ShellInv, [ShellNext]_shellVars  PROVE ShellInv'
  OBVIOUS
<1>1. CASE UNCHANGED shellVars
  BY <1>1
  DEF shellVars, ShellInv, ShellTypeOK, InTime, Progress, Killed,
      KilledOnTimeout, OutputIsComplete
<1>2. CASE \E p \in Procs : \/ LeaveGroup(p) \/ ClosePipe(p) \/ Exit(p)
                            \/ \E q \in Procs : Fork(p, q)
  BY <1>2, CommandStepInv
<1>3. CASE \/ Reject \/ Raise \/ Spawn \/ Assign \/ Return \/ Tick
           \/ Expire \/ KillRefused \/ Reap \/ GiveUp
  BY <1>3, ExecutorStepInv
<1> QED  BY <1>1, <1>2, <1>3 DEF ShellNext

LEMMA ShellAlways == ShellSpec => []ShellInv
  BY ShellInitInv, ShellStepInv, PTL DEF ShellSpec

\* execute() is never suspended for more than a second beyond the deadline,
\* whatever the processes of the command do.
THEOREM ShellAnsweredInTime == ShellSpec => []AnsweredInTime
<1>1. ShellInv => AnsweredInTime
  BY ShellAssumption DEF ShellInv, ShellTypeOK, InTime, AnsweredInTime, Grace, Drain
<1> QED  BY <1>1, ShellAlways, PTL

\* After a timeout no process is left in the command's group or job that the
\* executor was permitted to kill.
THEOREM ShellKilledOnTimeout == ShellSpec => []KilledOnTimeout
<1>1. ShellInv => KilledOnTimeout  BY DEF ShellInv
<1> QED  BY <1>1, ShellAlways, PTL

\* A command reported by its exit status can write no more output, and only a
\* refused kill ends a started one in another way.
THEOREM ShellOutputIsComplete == ShellSpec => []OutputIsComplete
<1>1. ShellInv => OutputIsComplete  BY DEF ShellInv
<1> QED  BY <1>1, ShellAlways, PTL

-----------------------------------------------------------------------------
CommandOwnTypeOK ==
  /\ task \in TaskTypes \cup {"none"}
  /\ within \in BOOLEAN
  /\ entry \in Entries
  /\ stage \in Stages
  /\ outcome \in {NoAnswer, Violation, TimedOut, Failed, Ok, TooLarge}
  /\ bulk \in Bulks
  /\ cli \in {"ready", "asking", "exit0", "exit1"}
  /\ reachable \in BOOLEAN /\ token \in BOOLEAN /\ connected \in BOOLEAN
  /\ handler \in {"none", "waiting", "over"}
  /\ carried \in {"nothing", "task", "result", "lost", "known"}
  /\ reply \in {NoReply, AuthDenied, NodeOffline, WaitTimedOut} \cup ResultReplies

Ended == stage \in {"truncate", "report"}

\* Which tasks come through which stages, and what may lie at their path.
Stays ==
  /\ task = "none" => stage = "idle"
  /\ stage \in {"idle", "exec"} => entry \in FoundEntries
  /\ stage = "write" => task = "file_write"
  /\ stage = "blocked" => task \in {"file_read", "file_write"} /\ entry = "fifo"
  /\ stage \in {"cat", "free"} => task = "system_info"
  /\ stage = "truncate" => task \in Truncated

\* The processes are those of a shell task, and its outcome is the shell
\* executor's unless the output was too large.
Shells ==
  /\ born # {} => task = "shell" /\ stage # "idle"
  /\ result = Violation => born = {}
  /\ result = Ok => born # {}
  /\ Ended /\ task = "shell" => outcome \in {result, TooLarge}

\* What an outcome says about the workspace and the output.
Outcomes ==
  /\ Ended => outcome # NoAnswer
  /\ Ended /\ outcome = Violation => entry \in FoundEntries
  /\ Ended /\ outcome = Ok =>
       /\ task = "file_read" => entry \in {"file", "fifo"}
       /\ task = "file_write" => entry \in {"new", "fifo"}
       /\ task = "list_dir" => entry = "dir"
  /\ stage = "report" /\ outcome = Ok /\ task \in Truncated => bulk \in {"fits", "lossy"}
  /\ bulk = "lossy" => task \in {"file_read", "shell"}

\* How far the request, the task and its result can be apart.
Carrying ==
  /\ cli = "ready" => task = "none"
  /\ task = "none" => handler = "none" /\ cli # "asking"
  /\ handler = "none" => carried = "nothing" /\ stage = "idle"
  /\ handler # "over" => reply = NoReply
  /\ carried = "task" => stage = "idle"
  /\ carried \in {"result", "known"} => stage = "report"

\* What an answer tells about the task.
Answered ==
  /\ reply \in {AuthDenied, NodeOffline} => carried = "nothing" /\ stage = "idle"
  /\ reply \in ResultReplies => carried = "known" /\ reply = ResultReply(outcome)
  /\ cli = "exit0" => task = "none" \/ reply = ResultReply(Ok)

HandlingInv == Stays /\ Shells /\ Outcomes

CommandInv == ShellInv /\ CommandOwnTypeOK /\ HandlingInv /\ Carrying /\ Answered

\* The initial states satisfy the invariant.
LEMMA CommandInitInv == CommandInit => CommandInv
<1> SUFFICES ASSUME CommandInit PROVE CommandInv
  OBVIOUS
<1>1. ShellInv
  BY ShellInitInv DEF CommandInit, ExecutorsInit
<1>2. CommandOwnTypeOK
  BY DEF CommandInit, ExecutorsInit, CommandOwnTypeOK, Entries, FoundEntries, Stages, Bulks
<1>3. HandlingInv
  BY DEF CommandInit, ExecutorsInit, ShellInit, HandlingInv, Stays, Shells, Outcomes,
     FoundEntries, Ended, Violation, Ok, NoAnswer, Answer
<1>4. Carrying
  BY DEF CommandInit, ExecutorsInit, Carrying
<1>5. Answered
  BY DEF CommandInit, ExecutorsInit, Answered, NoReply, AuthDenied, NodeOffline,
     ResultReplies, ResultReply, Reply
<1> QED
  BY <1>1, <1>2, <1>3, <1>4, <1>5 DEF CommandInv

-----------------------------------------------------------------------------
\* Steps of client, master and network.
Outside ==
  \/ ListNodes \/ PrintReply \/ RequestFails \/ Vanish
  \/ DispatchSync \/ WaitTimesOut \/ ReportResult \/ AnswerResult \/ Lose
  \/ Post

\* They leave the task in the worker alone.
LEMMA OutsideOnly == Outside => UNCHANGED execVars
  BY DEF Outside, ListNodes, PrintReply, RequestFails, Vanish, DispatchSync, WaitTimesOut,
     ReportResult, AnswerResult, Lose, Post

\* Steps of the daemon that are not the shell executor's.
Inside ==
  \/ PathEscapes \/ ReadFile \/ OpenFile \/ WriteFile \/ ListDir \/ SystemInfo
  \/ Truncate \/ Unblock

\* They leave the shell executor alone.
LEMMA InsideOnly == Inside => UNCHANGED <<task, within, shellVars>>
  BY DEF Inside, PathEscapes, ReadFile, OpenFile, WriteFile, ListDir, SystemInfo, Truncate,
     Unblock, FileStep

\* Every step of a call is of one of these kinds.
LEMMA StepKinds ==
  ASSUME CommandNext
  PROVE  \/ \E name \in DOMAIN Alias \cup DOMAIN BuildTask : Invoke(name)
         \/ Outside
         \/ TakeTask
         \/ (Inside \/ RunShell \/ Clock \/ CommandRuns) /\ UNCHANGED commandVars
  BY DEF CommandNext, Outside, Inside, DaemonRuns, Elsewhere, ExecutorStep

\* What a step is to the shell executor.
LEMMA CommandIsShellStep == [CommandNext]_allVars => [ShellNext]_shellVars
<1> SUFFICES ASSUME [CommandNext]_allVars PROVE [ShellNext]_shellVars
  OBVIOUS
<1>1. CASE UNCHANGED allVars
  BY <1>1 DEF allVars, execVars
<1>2. ASSUME NEW name, Invoke(name) PROVE UNCHANGED shellVars
  BY <1>2 DEF Invoke
<1>3. CASE Outside
  BY <1>3, OutsideOnly DEF execVars
<1>4. CASE TakeTask
  BY <1>4 DEF TakeTask, Handle
<1>5. CASE Inside
  BY <1>5, InsideOnly
<1>6. CASE RunShell
  BY <1>6 DEF RunShell, ShellNext
<1>7. CASE Clock
  BY <1>7 DEF Clock, ShellNext
<1>8. CASE CommandRuns
  BY <1>8 DEF CommandRuns, ShellNext
<1> QED
  BY <1>1, <1>2, <1>3, <1>4, <1>5, <1>6, <1>7, <1>8, StepKinds

\* A call keeps the types.
LEMMA CommandStepTypes == CommandInv /\ [CommandNext]_allVars => CommandOwnTypeOK'
<1> SUFFICES ASSUME CommandInv, [CommandNext]_allVars PROVE CommandOwnTypeOK'
  OBVIOUS
<1> USE DEF CommandInv, CommandOwnTypeOK
<1>1. CASE UNCHANGED allVars
  BY <1>1 DEF allVars, execVars, handlingVars, commandVars
<1>2. ASSUME NEW name \in DOMAIN Alias \cup DOMAIN BuildTask, Invoke(name)
      PROVE  CommandOwnTypeOK'
  <2>1. task' \in TaskTypes
    BY <1>2 DEF Invoke, Alias, BuildTask, TaskTypes, FileTasks
  <2> QED
    BY <1>2, <2>1 DEF Invoke, handlingVars
<1>3. CASE Outside
  <2> USE DEF execVars, handlingVars
  <2>1. UNCHANGED <<task, within, entry, stage, outcome, bulk>>
    BY <1>3, OutsideOnly
  <2>2. /\ cli' \in {"ready", "asking", "exit0", "exit1"}
        /\ reachable' \in BOOLEAN /\ token' \in BOOLEAN /\ connected' \in BOOLEAN
    BY <1>3 DEF Outside, ListNodes, PrintReply, RequestFails, Vanish, DispatchSync, WaitTimesOut,
       ReportResult, AnswerResult, Lose, Post, ExitStatus
  <2>3. /\ handler' \in {"none", "waiting", "over"}
        /\ carried' \in {"nothing", "task", "result", "lost", "known"}
    BY <1>3 DEF Outside, ListNodes, PrintReply, RequestFails, Vanish, DispatchSync, Refuse,
       Accept, WaitTimesOut, ReportResult, AnswerResult, Lose, Post
  <2>4. reply' \in {NoReply, AuthDenied, NodeOffline, WaitTimedOut} \cup ResultReplies
    <3>1. carried = "known" => ResultReply(outcome) \in ResultReplies
      BY DEF Carrying, HandlingInv, Outcomes, Ended, ResultReplies
    <3>2. \/ reply' \in {reply, AuthDenied, NodeOffline, WaitTimedOut}
          \/ carried = "known" /\ reply' = ResultReply(outcome)
      BY <1>3 DEF Outside, ListNodes, PrintReply, RequestFails, Vanish, DispatchSync, Refuse,
         Accept, WaitTimesOut, ReportResult, AnswerResult, Lose, Post
    <3> QED
      BY <3>1, <3>2
  <2> QED
    BY <2>1, <2>2, <2>3, <2>4
<1>4. CASE TakeTask
  <2>1. within' \in BOOLEAN /\ entry' \in Entries
    BY <1>4 DEF TakeTask, Handle, Entries, FoundEntries
  <2> QED
    BY <1>4, <2>1 DEF TakeTask, Handle, Stages
<1>5. CASE Inside /\ UNCHANGED commandVars
  BY <1>5, InsideOnly
  DEF commandVars, Inside, PathEscapes, ReadFile, OpenFile, WriteFile, ListDir, SystemInfo,
      Truncate, Unblock, GivesShort, Gives, Entries, Stages, FoundEntries, Bulks
<1>6. CASE RunShell /\ UNCHANGED commandVars
  <2>1. result' \in {NoAnswer, Violation, TimedOut, Failed, Ok}
    BY CommandIsShellStep, ShellStepInv DEF ShellInv, ShellTypeOK
  <2> QED
    BY <1>6, <2>1 DEF commandVars, RunShell, Gives, Stages, Bulks
<1>7. CASE (Clock \/ CommandRuns) /\ UNCHANGED commandVars
  BY <1>7 DEF commandVars, Clock, CommandRuns, handlingVars
<1> QED
  BY <1>1, <1>2, <1>3, <1>4, <1>5, <1>6, <1>7, StepKinds

-----------------------------------------------------------------------------
\* The processes of a command, and time, do not touch the handling of a task.
LEMMA ProcessesHandling ==
  ASSUME CommandInv, Clock \/ CommandRuns
  PROVE  HandlingInv'
<1>1. UNCHANGED <<task, within, entry, outcome, bulk, stage, result>>
  BY DEF Clock, CommandRuns, handlingVars, Tick, LeaveGroup, ClosePipe, Exit, Fork
<1>2. born' # {} <=> born # {}
  <2>1. alive \subseteq born
    BY DEF CommandInv, ShellInv, Progress
  <2> QED
    BY <2>1 DEF Clock, CommandRuns, Tick, LeaveGroup, ClosePipe, Exit, Fork
<1> QED
  BY <1>1, <1>2 DEF CommandInv, HandlingInv, Stays, Shells, Outcomes, Ended

\* The executors other than the shell's.
LEMMA InsideHandling ==
  ASSUME CommandInv, Inside
  PROVE  HandlingInv'
<1> USE InsideOnly DEF CommandInv, HandlingInv, shellVars
<1> USE DEF Ended, Truncated, Gives, GivesShort, FoundEntries, FileStep,
        Answer, Ok, Failed, Violation, TooLarge, NoAnswer, TimedOut
<1>1. Stays'
  BY DEF Stays, Inside, PathEscapes, ReadFile, OpenFile, WriteFile, ListDir, SystemInfo,
     Truncate, Unblock, FileTasks
<1>2. Shells'
  BY DEF Shells, Stays, Inside, PathEscapes, ReadFile, OpenFile, WriteFile, ListDir,
     SystemInfo, Truncate, Unblock, FileTasks
<1>3. Outcomes'
  <2>1. CASE PathEscapes
    BY <2>1 DEF PathEscapes, Outcomes, Stays
  <2>2. CASE ReadFile
    BY <2>2 DEF ReadFile, Outcomes, Stays
  <2>3. CASE OpenFile
    BY <2>3 DEF OpenFile, Outcomes, Stays
  <2>4. CASE WriteFile
    BY <2>4 DEF WriteFile, Outcomes, Stays
  <2>5. CASE ListDir
    BY <2>5 DEF ListDir, Outcomes, Stays
  <2>6. CASE SystemInfo
    BY <2>6 DEF SystemInfo, Outcomes, Stays
  <2>7. CASE Truncate
    BY <2>7 DEF Truncate, Outcomes, Stays, CommandOwnTypeOK, Bulks
  <2>8. CASE Unblock
    BY <2>8 DEF Unblock, Outcomes, Stays
  <2> QED
    BY <2>1, <2>2, <2>3, <2>4, <2>5, <2>6, <2>7, <2>8 DEF Inside
<1> QED
  BY <1>1, <1>2, <1>3

\* The shell executor.
LEMMA ShellHandling ==
  ASSUME CommandInv, RunShell
  PROVE  HandlingInv'
<1> USE DEF CommandInv, HandlingInv, RunShell
<1>1. stage = "exec" /\ task = "shell" /\ UNCHANGED <<task, within, entry>>
  OBVIOUS
<1>2. \/ stage' = "exec" /\ pc' # "done" /\ UNCHANGED outcome
      \/ stage' = "escaped" /\ UNCHANGED outcome
      \/ stage' = "truncate" /\ pc' = "done" /\ outcome' = result'
  BY DEF Gives, Truncated
<1>3. pc' = "done" => result' # NoAnswer
  BY DEF Reject, Raise, Spawn, Assign, Return, Expire, KillRefused, Reap, GiveUp,
     CommandOwnTypeOK, Answer, Ok, Failed, Violation, TimedOut, NoAnswer
<1>4. /\ result' = Violation => born' = {}
      /\ result' = Ok => born' # {}
  BY DEF Reject, Raise, Spawn, Assign, Return, Expire, KillRefused, Reap, GiveUp,
     ShellInv, Progress, Answer, Ok, Failed, Violation, TimedOut, NoAnswer
<1> QED
  BY <1>1, <1>2, <1>3, <1>4 DEF Stays, Shells, Outcomes, Ended, Truncated

\* Handling of a task keeps what is known of it.
LEMMA HandlingStep == CommandInv /\ [CommandNext]_allVars => HandlingInv'
<1> SUFFICES ASSUME CommandInv, [CommandNext]_allVars PROVE HandlingInv'
  OBVIOUS
<1>1. CASE UNCHANGED execVars
  BY <1>1 DEF CommandInv, execVars, handlingVars, shellVars, HandlingInv, Stays, Shells,
     Outcomes, Ended
<1>2. ASSUME NEW name \in DOMAIN Alias \cup DOMAIN BuildTask, Invoke(name)
      PROVE  HandlingInv'
  <2>1. stage = "idle" /\ task = "none"
    BY <1>2 DEF Invoke, CommandInv, Carrying, HandlingInv, Stays
  <2>2. UNCHANGED <<stage, entry, outcome, bulk, born, result>>
    BY <1>2 DEF Invoke, handlingVars, shellVars
  <2>3. task' # "none"
    BY <1>2 DEF Invoke, Alias, BuildTask
  <2> QED
    BY <2>1, <2>2, <2>3 DEF CommandInv, HandlingInv, Stays, Shells, Outcomes, Ended
<1>3. CASE Outside
  BY <1>3, <1>1, OutsideOnly
<1>4. CASE TakeTask
  <2>1. stage = "idle" /\ task # "none"
    BY <1>4 DEF TakeTask, CommandInv, Carrying
  <2> QED
    BY <1>4, <2>1 DEF TakeTask, Handle, CommandInv, HandlingInv, Stays, Shells, Outcomes,
       Ended, FoundEntries, shellVars
<1>5. CASE UNCHANGED allVars
  BY <1>5, <1>1 DEF allVars
<1> QED
  BY <1>2, <1>3, <1>4, <1>5, StepKinds, ProcessesHandling, InsideHandling, ShellHandling

-----------------------------------------------------------------------------
\* The daemon neither starts a task again nor leaves the last stage.
LEMMA WorkerStages ==
  ASSUME CommandInv, Inside \/ RunShell \/ Clock \/ CommandRuns
  PROVE  /\ stage = "idle" <=> stage' = "idle"
         /\ stage = "report" => UNCHANGED <<stage, outcome>>
         /\ UNCHANGED task
<1>1. CASE Inside
  BY <1>1, InsideOnly
  DEF Inside, PathEscapes, ReadFile, OpenFile, WriteFile, ListDir, SystemInfo, Truncate,
      Unblock, FileStep, Gives, GivesShort
<1>2. CASE RunShell
  BY <1>2 DEF RunShell, Gives
<1>3. CASE Clock \/ CommandRuns
  BY <1>3 DEF Clock, CommandRuns, handlingVars
<1> QED
  BY <1>1, <1>2, <1>3

\* The request, the task and its result stay together.
LEMMA CarryingStep ==
  CommandInv /\ [CommandNext]_allVars => Carrying' /\ Answered'
<1> SUFFICES ASSUME CommandInv, [CommandNext]_allVars PROVE Carrying' /\ Answered'
  OBVIOUS
<1> USE DEF CommandInv, Carrying, Answered
<1>a. /\ NoReply \notin ResultReplies /\ AuthDenied \notin ResultReplies
      /\ NodeOffline \notin ResultReplies /\ WaitTimedOut \notin ResultReplies
      /\ NoReply \notin {AuthDenied, NodeOffline, WaitTimedOut}
      /\ WaitTimedOut \notin {AuthDenied, NodeOffline}
      /\ ResultReply(Ok) \in ResultReplies
  BY DEF ResultReplies, ResultReply, NoReply, AuthDenied, NodeOffline, WaitTimedOut, Reply,
     Violation, TimedOut, Failed, Ok, TooLarge, Answer
<1>1. CASE UNCHANGED allVars
  BY <1>1 DEF allVars, execVars, handlingVars, commandVars
<1>2. ASSUME NEW name \in DOMAIN Alias \cup DOMAIN BuildTask, Invoke(name)
      PROVE  Carrying' /\ Answered'
  <2>1. task' # "none"
    BY <1>2 DEF Invoke, Alias, BuildTask
  <2> QED
    BY <1>2, <2>1 DEF Invoke, handlingVars
<1>3. CASE Outside
  <2> USE OutsideOnly, <1>3, <1>a DEF execVars, handlingVars, CommandOwnTypeOK
  <2>1. CASE ListNodes
    BY <2>1 DEF ListNodes
  <2>2. CASE PrintReply
    <3>1. ExitStatus(reply) = "exit0" => reply = ResultReply(Ok)
      BY DEF ExitStatus, NoReply, AuthDenied, NodeOffline, WaitTimedOut, ResultReplies,
         ResultReply, Reply, Violation, TimedOut, Failed, Ok, TooLarge, Answer
    <3>2. ExitStatus(reply) \in {"exit0", "exit1"}
      BY DEF ExitStatus
    <3> QED
      BY <2>2, <3>1, <3>2 DEF PrintReply
  <2>3. CASE RequestFails \/ Vanish
    BY <2>3 DEF RequestFails, Vanish
  <2>4. CASE DispatchSync
    BY <2>4 DEF DispatchSync, Refuse, Accept
  <2>5. CASE WaitTimesOut
    BY <2>5 DEF WaitTimesOut
  <2>6. CASE ReportResult
    BY <2>6 DEF ReportResult
  <2>9. CASE AnswerResult
    <3>1. ResultReply(outcome) \notin {AuthDenied, NodeOffline}
      BY DEF ResultReply, AuthDenied, NodeOffline, Reply
    <3> QED
      BY <2>9, <3>1 DEF AnswerResult
  <2>7. CASE Lose
    BY <2>7 DEF Lose
  <2>8. CASE Post
    BY <2>8 DEF Post
  <2> QED
    BY <2>1, <2>2, <2>3, <2>4, <2>5, <2>6, <2>7, <2>8, <2>9 DEF Outside
<1>4. CASE TakeTask
  BY <1>4, <1>a DEF TakeTask, Handle
<1>5. CASE (Inside \/ RunShell \/ Clock \/ CommandRuns) /\ UNCHANGED commandVars
  BY <1>5, WorkerStages DEF commandVars
<1> QED
  BY <1>1, <1>2, <1>3, <1>4, <1>5, StepKinds

\* The invariant is inductive.
LEMMA CommandStepInvariant == CommandInv /\ [CommandNext]_allVars => CommandInv'
  BY CommandIsShellStep, ShellStepInv, CommandStepTypes, HandlingStep, CarryingStep
  DEF CommandInv

\* It always holds.
LEMMA CommandAlways == CommandSpec => []CommandInv
  BY CommandInitInv, CommandStepInvariant, PTL DEF CommandSpec

\* The shell executor of a call, whatever surrounds it, is the one of module
\* ShellExec.
THEOREM CommandImplementsShell == CommandSpec => ShellSpec
<1>1. CommandInit => ShellInit
  BY DEF CommandInit, ExecutorsInit
<1> QED
  BY <1>1, CommandIsShellStep, PTL DEF CommandSpec, ShellSpec

\* So what holds of the shell executor holds in a call: its deadline, the kill
\* and the complete output.
THEOREM CommandShellSafety ==
  CommandSpec => [](AnsweredInTime /\ KilledOnTimeout /\ OutputIsComplete)
  BY CommandImplementsShell, ShellAnsweredInTime, ShellKilledOnTimeout,
     ShellOutputIsComplete, PTL

\* Type correctness of client, master and worker.
THEOREM CommandTypeCorrect == CommandSpec => []CommandTypeOK
<1>1. CommandInv => CommandTypeOK
  BY DEF CommandInv, ShellInv, CommandOwnTypeOK, CommandTypeOK, ExecutorsTypeOK
<1> QED
  BY <1>1, CommandAlways, PTL

\* Exit status 0 of the client: the task was carried out completely, however
\* many processes the command had and whatever was lost or late.
THEOREM CommandExitZeroMeansDone == CommandSpec => []ExitZeroMeansDone
<1>1. CommandInv => ExitZeroMeansDone
  <2> SUFFICES ASSUME CommandInv, cli = "exit0" PROVE Done
    BY DEF ExitZeroMeansDone
  <2>1. CASE task = "none"
    BY <2>1 DEF Done
  <2>2. CASE reply = ResultReply(Ok)
    <3>1. reply \in ResultReplies
      BY <2>2 DEF ResultReplies
    <3>2. stage = "report" /\ ResultReply(outcome) = ResultReply(Ok)
      BY <2>2, <3>1 DEF CommandInv, Answered, Carrying
    <3>3. outcome = Ok
      BY <3>2 DEF CommandInv, CommandOwnTypeOK, ResultReply, Reply, NoAnswer, Violation,
         TimedOut, Failed, Ok, TooLarge, Answer
    <3>4. task = "shell" =>
            status = "zero" /\ Shell \notin alive /\ alive \cap pipe = {}
      BY <3>2, <3>3
      DEF CommandInv, HandlingInv, Shells, Ended, ShellInv, OutputIsComplete, Ok, Failed,
          TooLarge, Answer
    <3> QED
      BY <3>2, <3>3, <3>4
      DEF Done, CommandInv, CommandOwnTypeOK, TaskTypes, FileTasks, HandlingInv, Outcomes,
          Ended, Truncated
  <2> QED
    BY <2>1, <2>2 DEF CommandInv, Answered
<1> QED
  BY <1>1, CommandAlways, PTL

\* A refused call leaves no trace, at the time of the refusal and later.
THEOREM CommandRefusedUntouched == CommandSpec => []RefusedUntouched
<1>1. CommandInv => RefusedUntouched
  <2> SUFFICES ASSUME CommandInv,
                      reply.code \in {"auth_denied", "node_offline", "workspace_violation"}
               PROVE  born = {} /\ entry \notin {"cut", "new"} /\ stage \in {"idle", "report"}
    BY DEF RefusedUntouched
  <2>1. \/ reply \in {AuthDenied, NodeOffline}
        \/ reply = ResultReply(Violation)
    BY DEF CommandInv, CommandOwnTypeOK, NoReply, AuthDenied, NodeOffline, WaitTimedOut,
       ResultReplies, ResultReply, Reply, Violation, TimedOut, Failed, Ok, TooLarge, Answer
  <2>2. CASE reply \in {AuthDenied, NodeOffline}
    BY <2>2 DEF CommandInv, Answered, HandlingInv, Stays, Shells, FoundEntries
  <2>3. CASE reply = ResultReply(Violation)
    <3>1. stage = "report" /\ ResultReply(outcome) = ResultReply(Violation)
      BY <2>3 DEF CommandInv, Answered, Carrying, ResultReplies
    <3>2. outcome = Violation
      BY <3>1 DEF CommandInv, CommandOwnTypeOK, ResultReply, Reply, NoAnswer, Violation,
         TimedOut, Failed, Ok, TooLarge, Answer
    <3>3. born = {}
      BY <3>1, <3>2 DEF CommandInv, HandlingInv, Shells, Ended, Violation, TooLarge, Answer
    <3> QED
      BY <3>1, <3>2, <3>3 DEF CommandInv, HandlingInv, Outcomes, Ended, FoundEntries
  <2> QED
    BY <2>1, <2>2, <2>3
<1> QED
  BY <1>1, CommandAlways, PTL
-----------------------------------------------------------------------------
(***************************************************************************)
(* A call implements TaskService.  What the abstract service sees of it is *)
(* a function of five variables; each step of the call is one step of the  *)
(* service, or none.                                                       *)
(***************************************************************************)

Gave == IF stage = "report" THEN ResultReply(outcome) ELSE NoReply
Known == IF carried = "known" THEN ResultReply(outcome) ELSE NoReply
Place == IF handler = "none" THEN "nowhere" ELSE "target"
Asking == {t \in {"call"} : handler = "waiting"}
Told == IF Refused THEN NoReply ELSE reply

\* Functions of one call.
LEMMA OneCall ==
  /\ \A x : ThisCall(x)["call"] = x
  /\ \A x, y : [ThisCall(y) EXCEPT !["call"] = x] = ThisCall(x)
  /\ \A x : [t \in {"call"} |-> x] = ThisCall(x)
  BY DEF ThisCall

\* The replies are told apart, and a task that has ended has one.
LEMMA RepliesDiffer ==
  ASSUME CommandInv
  PROVE  /\ NoReply \notin {AuthDenied, NodeOffline, WaitTimedOut}
         /\ WaitTimedOut \notin {AuthDenied, NodeOffline}
         /\ ResultReply(outcome) \notin {NoReply, AuthDenied, NodeOffline}
         /\ stage = "report" => ResultReply(outcome) \in ResultReplies
<1>1. stage = "report" => outcome \in {Violation, TimedOut, Failed, Ok, TooLarge}
  BY DEF CommandInv, HandlingInv, Outcomes, Ended, CommandOwnTypeOK
<1>2. ResultReply(outcome) \notin {NoReply, AuthDenied, NodeOffline}
  BY DEF ResultReply, NoReply, AuthDenied, NodeOffline, Reply
<1> QED
  BY <1>1, <1>2 DEF ResultReplies, NoReply, AuthDenied, NodeOffline, WaitTimedOut, Reply

\* The stages of a call, one by one.
LEMMA CallStageIs ==
  ASSUME CommandInv
  PROVE  /\ handler = "none" => CallStage = "new" /\ ~Refused
         /\ handler # "none" /\ Refused => CallStage = "refused"
         /\ Accepted /\ stage = "idle" => CallStage = "accepted"
         /\ Accepted /\ stage \notin {"idle", "report"} => CallStage = "started"
         /\ Accepted /\ stage = "report" => CallStage = "ended"
         /\ stage # "idle" => Accepted
         /\ carried \in {"result", "known"} => Accepted /\ stage = "report"
         /\ handler = "waiting" => Accepted /\ reply = NoReply
         /\ handler = "none" => stage = "idle" /\ reply = NoReply /\ carried = "nothing"
         /\ Refused => stage = "idle" /\ carried = "nothing" /\ handler = "over"
<1>1. /\ handler = "none" => stage = "idle" /\ reply = NoReply /\ carried = "nothing"
      /\ handler = "waiting" => reply = NoReply
      /\ Refused => stage = "idle" /\ carried = "nothing"
      /\ handler \in {"none", "waiting", "over"}
      /\ carried \in {"result", "known"} => stage = "report"
  BY DEF CommandInv, Carrying, Answered, Refused, CommandOwnTypeOK
<1>2. reply = NoReply => ~Refused
  BY RepliesDiffer DEF Refused
<1>3. Refused => handler = "over"
  BY <1>1, <1>2
<1> QED
  BY <1>1, <1>2, <1>3 DEF CallStage, Accepted

\* Steps the service does not see.
LEMMA CallStutters ==
  ASSUME CommandInv, UNCHANGED <<handler, reply>>, carried = "known" <=> carried' = "known",
         stage' = stage, stage = "report" => outcome' = outcome
  PROVE  UNCHANGED Service!serviceVars
<1>1. CallStage' = CallStage
  BY DEF CallStage, Accepted, Refused
<1>2. carried = "known" => stage = "report"
  BY DEF CommandInv, Carrying
<1>3. Gave' = Gave /\ Known' = Known /\ Place' = Place /\ Asking' = Asking /\ Told' = Told
  BY <1>2 DEF Gave, Known, Place, Asking, Told, Refused
<1> QED
  BY <1>1, <1>3 DEF Service!serviceVars, ThisCall, Gave, Known, Place, Asking, Told

\* The request is refused, or accepted by a handler that waits.
LEMMA DispatchSubmits ==
  ASSUME CommandInv, CommandInv', DispatchSync
  PROVE  Service!ServiceNext
<1>1. /\ handler = "none" /\ stage = "idle" /\ stage' = "idle" /\ reply = NoReply
      /\ carried = "nothing"
  BY CallStageIs DEF DispatchSync, execVars
<1>2. CallStage = "new" /\ ~Refused
  BY <1>1, CallStageIs
<1>3. NoReply \notin {AuthDenied, NodeOffline}
  BY RepliesDiffer
<1>4. CASE reply' \in {AuthDenied, NodeOffline} /\ handler' = "over" /\ carried' = carried
  <2>1. Refused' /\ CallStage' = "refused"
    BY <1>4 DEF CallStage, Accepted, Refused
  <2>2. /\ Gave' = Gave /\ Known' = Known /\ Told' = Told /\ Asking' = Asking
        /\ Place = "nowhere" /\ Place' = "target"
    BY <1>1, <1>2, <1>4, <2>1 DEF Gave, Known, Told, Asking, Place
  <2>3. Service!Submit("call", "target", "refused")
    BY <1>2, <2>1, <2>2, OneCall DEF Service!Submit, Gave, Known, Told, Place
  <2>4. Service!Refuse("call", "target")
    BY <2>2, <2>3 DEF Service!Refuse, Asking
  <2> QED
    BY <2>4 DEF Service!ServiceNext
<1>5. CASE reply' = reply /\ handler' = "waiting" /\ carried' = "task"
  <2>1. ~Refused' /\ CallStage' = "accepted"
    BY <1>1, <1>3, <1>5 DEF CallStage, Accepted, Refused
  <2>2. /\ Gave' = Gave /\ Known' = Known /\ Told' = Told
        /\ Asking' = Asking \cup {"call"}
        /\ Place = "nowhere" /\ Place' = "target"
    BY <1>1, <1>2, <1>5, <2>1 DEF Gave, Known, Told, Asking, Place
  <2>3. Service!Submit("call", "target", "accepted")
    BY <1>2, <2>1, <2>2, OneCall DEF Service!Submit, Gave, Known, Told, Place
  <2>4. Service!Accept("call", "target")
    BY <2>2, <2>3 DEF Service!Accept, Asking
  <2> QED
    BY <2>4 DEF Service!ServiceNext
<1> QED
  BY <1>4, <1>5 DEF DispatchSync, Refuse, Accept

\* The handler answers once, with the timeout or with what is known.
LEMMA HandlerAnswers ==
  ASSUME CommandInv, WaitTimesOut \/ AnswerResult
  PROVE  Service!ServiceNext
<1>1. handler = "waiting" /\ handler' = "over" /\ UNCHANGED <<stage, outcome, carried>>
  BY DEF WaitTimesOut, AnswerResult, execVars, handlingVars
<1>2. Accepted /\ reply = NoReply /\ ~Refused
  BY <1>1, CallStageIs DEF Accepted
<1>3. ~Refused' /\ Told' = reply'
  BY RepliesDiffer DEF WaitTimesOut, AnswerResult, Refused, Told
<1>4. /\ CallStage' = CallStage /\ Gave' = Gave /\ Known' = Known /\ Place' = Place
      /\ Asking = {"call"} /\ Asking' = {}
  BY <1>1, <1>2, <1>3 DEF CallStage, Accepted, Gave, Known, Place, Asking
<1>5. Service!AnswerWith("call", reply')
  BY <1>3, <1>4, OneCall DEF Service!AnswerWith, Gave, Known, Place, Asking, Told
<1>6. CASE WaitTimesOut
  <2>1. Service!AnswerTimeout("call")
    BY <1>5, <1>6 DEF WaitTimesOut, Service!AnswerTimeout
  <2> QED
    BY <2>1 DEF Service!ServiceNext
<1>7. CASE AnswerResult
  <2>1. Known = reply' /\ Known # NoReply
    BY <1>7, RepliesDiffer DEF AnswerResult, Known
  <2>2. Service!AnswerResult("call")
    BY <1>5, <2>1, OneCall DEF Service!AnswerResult, Known
  <2> QED
    BY <2>2 DEF Service!ServiceNext
<1> QED
  BY <1>6, <1>7

\* The master learns what the worker made of the task.
LEMMA ReportTeaches ==
  ASSUME CommandInv, ReportResult
  PROVE  Service!ServiceNext
<1>1. /\ carried = "result" /\ carried' = "known"
      /\ UNCHANGED <<stage, outcome, handler, reply>>
  BY DEF ReportResult, execVars, handlingVars
<1>2. CallStage = "ended" /\ stage = "report"
  BY <1>1, CallStageIs
<1>3. /\ CallStage' = CallStage /\ Gave' = Gave /\ Place' = Place /\ Asking' = Asking
      /\ Told' = Told /\ Known' = Gave
  BY <1>1, <1>2 DEF CallStage, Accepted, Refused, Gave, Known, Place, Asking, Told
<1>4. Service!Learn("call")
  BY <1>2, <1>3, OneCall DEF Service!Learn, Gave, Known, Place, Asking, Told
<1> QED
  BY <1>4 DEF Service!ServiceNext

\* The daemon takes the task.
LEMMA TakeStarts ==
  ASSUME CommandInv, TakeTask
  PROVE  Service!ServiceNext
<1>1. /\ carried = "task" /\ carried' = "nothing" /\ stage' = "exec"
      /\ UNCHANGED <<outcome, handler, reply>>
  BY DEF TakeTask, Handle
<1>2. stage = "idle" /\ handler # "none" /\ ~Refused
  BY <1>1, CallStageIs DEF CommandInv, Carrying
<1>3. CallStage = "accepted" /\ CallStage' = "started"
  BY <1>1, <1>2 DEF CallStage, Accepted, Refused
<1>4. Gave' = Gave /\ Known' = Known /\ Place' = Place /\ Asking' = Asking /\ Told' = Told
  BY <1>1, <1>2 DEF Gave, Known, Place, Asking, Told, Refused
<1>5. Service!Start("call")
  BY <1>3, <1>4, OneCall DEF Service!Start, Gave, Known, Place, Asking, Told
<1> QED
  BY <1>5 DEF Service!ServiceNext

\* The daemon is done with the task: this is its outcome.
LEMMA ReportEnds ==
  ASSUME CommandInv, CommandInv', UNCHANGED commandVars,
         stage \notin {"idle", "report"}, stage' = "report"
  PROVE  Service!ServiceNext
<1>1. UNCHANGED <<handler, reply, carried>>
  BY DEF commandVars
<1>2. Accepted /\ CallStage = "started" /\ carried # "known"
  BY CallStageIs
<1>3. CallStage' = "ended"
  BY <1>1, <1>2 DEF CallStage, Accepted, Refused
<1>4. ResultReply(outcome)' \in ResultReplies
  <2>1. outcome' \in {Violation, TimedOut, Failed, Ok, TooLarge}
    BY DEF CommandInv, HandlingInv, Outcomes, Ended, CommandOwnTypeOK
  <2> QED
    BY <2>1 DEF ResultReplies
<1>5. /\ Gave' = ResultReply(outcome)' /\ Known' = Known /\ Place' = Place
      /\ Asking' = Asking /\ Told' = Told
  BY <1>1, <1>2 DEF Gave, Known, Place, Asking, Told, Refused
<1>6. PICK o \in ResultReplies : Gave' = o
  BY <1>4, <1>5
<1>7. Service!End("call", o)
  BY <1>2, <1>3, <1>5, <1>6, OneCall DEF Service!End, Gave, Known, Place, Asking, Told
<1> QED
  BY <1>7 DEF Service!ServiceNext

\* What a step is to the service.
LEMMA CallStepServes ==
  ASSUME CommandInv, CommandInv', [CommandNext]_allVars
  PROVE  [Service!ServiceNext]_(Service!serviceVars)
<1>1. CASE UNCHANGED allVars
  BY <1>1, CallStutters DEF allVars, execVars, handlingVars, commandVars
<1>2. ASSUME NEW name \in DOMAIN Alias \cup DOMAIN BuildTask, Invoke(name)
      PROVE  UNCHANGED Service!serviceVars
  BY <1>2, CallStutters DEF Invoke, handlingVars
<1>3. CASE ListNodes \/ PrintReply \/ RequestFails \/ Vanish \/ Lose \/ Post
  <2>1. /\ UNCHANGED <<handler, reply, stage, outcome>>
        /\ carried = "known" <=> carried' = "known"
    BY <1>3 DEF ListNodes, PrintReply, RequestFails, Vanish, Lose, Post, execVars, handlingVars
  <2> QED
    BY <2>1, CallStutters
<1>4. CASE DispatchSync
  BY <1>4, DispatchSubmits
<1>5. CASE WaitTimesOut \/ AnswerResult
  BY <1>5, HandlerAnswers
<1>6. CASE ReportResult
  BY <1>6, ReportTeaches
<1>7. CASE TakeTask
  BY <1>7, TakeStarts
<1>8. CASE (Inside \/ RunShell \/ Clock \/ CommandRuns) /\ UNCHANGED commandVars
  <2>1. /\ stage = "idle" <=> stage' = "idle"
        /\ stage = "report" => UNCHANGED <<stage, outcome>>
    BY <1>8, WorkerStages
  <2>2. CASE stage \notin {"idle", "report"} /\ stage' = "report"
    BY <1>8, <2>2, ReportEnds
  <2>3. CASE stage \in {"idle", "report"}
    BY <1>8, <2>1, <2>3, CallStutters DEF commandVars
  <2>4. CASE stage \notin {"idle", "report"} /\ stage' # "report"
    <3>1. Accepted /\ CallStage = "started" /\ carried # "known"
      BY <2>4, CallStageIs
    <3>2. UNCHANGED <<handler, reply, carried>>
      BY <1>8 DEF commandVars
    <3>3. CallStage' = CallStage
      BY <2>1, <2>4, <3>1, <3>2 DEF CallStage, Accepted, Refused
    <3>4. Gave' = Gave /\ Known' = Known /\ Place' = Place /\ Asking' = Asking /\ Told' = Told
      BY <2>4, <3>1, <3>2 DEF Gave, Known, Place, Asking, Told, Refused
    <3> QED
      BY <3>3, <3>4 DEF Service!serviceVars, Gave, Known, Place, Asking, Told, ThisCall
  <2> QED
    BY <2>2, <2>3, <2>4
<1> QED
  BY <1>1, <1>2, <1>3, <1>4, <1>5, <1>6, <1>7, <1>8, StepKinds DEF Outside

\* A call, with the executors and their processes, implements the abstract
\* service, for any deadline and number of processes.
THEOREM CommandImplementsService == CommandSpec => CallImplementsService
<1>1. CommandInit => Service!ServiceInit
  <2> SUFFICES ASSUME CommandInit PROVE Service!ServiceInit
    OBVIOUS
  <2>1. handler = "none" /\ reply = NoReply /\ carried = "nothing" /\ stage = "idle"
    BY DEF CommandInit, ExecutorsInit
  <2>2. CommandInv
    BY CommandInitInv
  <2>3. CallStage = "new" /\ ~Refused
    BY <2>1, <2>2, CallStageIs
  <2>4. /\ Gave = NoReply /\ Known = NoReply /\ Place = "nowhere" /\ Asking = {}
        /\ Told = NoReply
    BY <2>1, <2>3 DEF Gave, Known, Place, Asking, Told
  <2> QED
    BY <2>3, <2>4 DEF Service!ServiceInit, Gave, Known, Place, Asking, Told, ThisCall
<1> QED
  BY <1>1, CommandAlways, CallStepServes, PTL
  DEF CommandSpec, CallImplementsService, Service!ServiceSpec
=============================================================================
