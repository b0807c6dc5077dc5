------------------------------ MODULE Command ------------------------------
(***************************************************************************)
(* One call of the command line client (client/capown_client.py): from its *)
(* arguments over dispatch_sync on the master (master/api/tasks.py,        *)
(* master/auth.py) and the executors of the worker (module Executors) to   *)
(* its exit status.                                                        *)
(*                                                                         *)
(* Of the master and the network only that is kept which this call can     *)
(* see: module TaskFlow shows that a task is taken at most once and that   *)
(* the result is its own.  How long things take is left open, except       *)
(* within the shell executor.                                              *)
(***************************************************************************)
EXTENDS Executors

VARIABLES
  cli,        \* the client's process
  reachable,  \* the connection between client and master lives
  token,      \* the client has the master's client token
  connected,  \* the node has a queue in the broker
  handler,    \* the handler of the request
  carried,    \* where the task, or its result, is between the processes
  reply       \* the response

commandVars == <<cli, reachable, token, connected, handler, carried, reply>>
allVars == <<execVars, commandVars>>

Reply(http, st, code) == [http |-> http, status |-> st, code |-> code]

NoReply == Reply(0, "none", "none")
AuthDenied == Reply(401, "none", "auth_denied")
NodeOffline == Reply(503, "none", "node_offline")
WaitTimedOut == Reply(200, "timeout", "none")

\* TaskResult, as _handle_task() makes it.
ResultReply(answer) ==
  Reply(200, IF answer.success THEN "completed" ELSE "failed", answer.code)

ResultReplies ==
  {ResultReply(a) : a \in {Violation, TimedOut, Failed, Ok, TooLarge}}

CommandTypeOK ==
  /\ ExecutorsTypeOK
  /\ cli \in {"ready", "asking", "exit0", "exit1"}
  /\ reachable \in BOOLEAN /\ token \in BOOLEAN /\ connected \in BOOLEAN
  /\ handler \in {"none", "waiting", "over"}
  /\ carried \in {"nothing", "task", "result", "lost", "known"}
  /\ reply \in {NoReply, AuthDenied, NodeOffline, WaitTimedOut} \cup ResultReplies

CommandInit ==
  /\ ExecutorsInit
  /\ cli = "ready" /\ reachable = TRUE
  /\ token \in BOOLEAN /\ connected \in BOOLEAN
  /\ handler = "none" /\ carried = "nothing"
  /\ reply = NoReply

-----------------------------------------------------------------------------
\* The client.

Alias ==
  [run |-> "run_command", read |-> "read_file", write |-> "write_file",
   ls |-> "list_directory", info |-> "system_info"]

BuildTask ==
  [run_command |-> "shell", read_file |-> "file_read",
   write_file |-> "file_write", list_directory |-> "list_dir",
   system_info |-> "system_info"]

\* A subcommand, by its new or its old name, is mapped to a task type, and
\* the request is sent.
Invoke(name) ==
  /\ cli = "ready"
  /\ cli' = "asking"
  /\ task' = BuildTask[IF name \in DOMAIN Alias THEN Alias[name] ELSE name]
  /\ UNCHANGED <<handlingVars, stage, shellVars, reachable, token, connected,
                 handler, carried, reply>>

\* "nodes" and "list_nodes".
ListNodes ==
  /\ cli = "ready"
  /\ cli' \in {"exit0", "exit1"}
  /\ UNCHANGED <<execVars, reachable, token, connected, handler, carried, reply>>

\* Mutant: only a failed task makes the client fail.
MutExitStatus(r) == IF r.http # 200 \/ r.status = "failed" THEN "exit1" ELSE "exit0"

\* An HTTP error is raised, anything else printed by print_result(); every
\* response has a status.
ExitStatus(r) == IF r.http # 200 \/ r.status # "completed" THEN "exit1" ELSE "exit0"

PrintReply ==
  /\ cli = "asking" /\ reachable
  /\ reply # NoReply
  /\ cli' = ExitStatus(reply)
  /\ UNCHANGED <<execVars, reachable, token, connected, handler, carried, reply>>

\* The connection is refused, reset or closed: the client sees an exception.
RequestFails ==
  /\ cli = "asking"
  /\ cli' = "exit1"
  /\ UNCHANGED <<execVars, reachable, token, connected, handler, carried, reply>>

\* The master or the network goes away without a word.
Vanish ==
  /\ cli = "asking" /\ reachable
  /\ reachable' = FALSE
  /\ UNCHANGED <<execVars, cli, token, connected, handler, carried, reply>>

-----------------------------------------------------------------------------
\* The master.

Refuse(r) == reply' = r /\ handler' = "over" /\ UNCHANGED carried

Accept == handler' = "waiting" /\ carried' = "task" /\ UNCHANGED reply

\* Mutant: the token is looked at when the task is on its way.
MutDispatchSync ==
  /\ cli = "asking" /\ reachable
  /\ handler = "none"
  /\ \/ ~connected /\ Refuse(NodeOffline)
     \/ connected /\ token /\ Accept
     \/ /\ connected /\ ~token
        /\ reply' = AuthDenied /\ handler' = "over" /\ carried' = "task"
  /\ UNCHANGED <<execVars, cli, reachable, token, connected>>

\* dispatch_sync() up to its wait.
DispatchSync ==
  /\ cli = "asking" /\ reachable
  /\ handler = "none"
  /\ \/ ~token /\ Refuse(AuthDenied)
     \/ token /\ ~connected /\ Refuse(NodeOffline)
     \/ token /\ connected /\ Accept
  /\ UNCHANGED <<execVars, cli, reachable, token, connected>>

\* Mutant: only a task the worker has can time out.
MutWaitTimesOut ==
  /\ handler = "waiting"
  /\ stage # "idle"
  /\ handler' = "over" /\ reply' = WaitTimedOut
  /\ UNCHANGED <<execVars, cli, reachable, token, connected, carried>>

\* wait_result() gives up.
WaitTimesOut ==
  /\ handler = "waiting"
  /\ handler' = "over" /\ reply' = WaitTimedOut
  /\ UNCHANGED <<execVars, cli, reachable, token, connected, carried>>

\* POST /api/tasks/result: the result is kept, also when nobody waits.
ReportResult ==
  /\ carried = "result"
  /\ carried' = "known"
  /\ UNCHANGED <<execVars, cli, reachable, token, connected, handler, reply>>

\* Mutant: a result that comes after the timeout is answered as well.
MutAnswerResult ==
  /\ handler # "none" /\ carried = "known"
  /\ handler' = "over" /\ reply' = ResultReply(outcome)
  /\ UNCHANGED <<execVars, cli, reachable, token, connected, carried>>

\* The waiting handler resumes with the result, unless its timer was first.
AnswerResult ==
  /\ handler = "waiting" /\ carried = "known"
  /\ handler' = "over" /\ reply' = ResultReply(outcome)
  /\ UNCHANGED <<execVars, cli, reachable, token, connected, carried>>

\* A stream breaks with the task on it, or the POST does not arrive.
Lose ==
  /\ carried \in {"task", "result"}
  /\ carried' = "lost"
  /\ UNCHANGED <<execVars, cli, reachable, token, connected, handler, reply>>

-----------------------------------------------------------------------------
\* The worker.

TakeTask ==
  /\ carried = "task"
  /\ Handle
  /\ carried' = "nothing"
  /\ UNCHANGED <<cli, reachable, token, connected, handler, reply>>

Post ==
  /\ stage = "report" /\ carried = "nothing"
  /\ carried' = "result"
  /\ UNCHANGED <<execVars, cli, reachable, token, connected, handler, reply>>

Elsewhere == (CommandRuns \/ Unblock) /\ UNCHANGED commandVars

DaemonRuns == (ExecutorStep \/ Clock) /\ UNCHANGED commandVars

CommandNext ==
  \/ \E name \in DOMAIN Alias \cup DOMAIN BuildTask : Invoke(name)
  \/ ListNodes \/ PrintReply \/ RequestFails \/ Vanish
  \/ DispatchSync \/ WaitTimesOut \/ ReportResult \/ AnswerResult \/ Lose
  \/ TakeTask \/ DaemonRuns \/ Elsewhere \/ Post

\* The master's timer fires and its answer is printed.  The daemon runs and
\* the clock ticks; of the command nothing is assumed, nor of what is at the
\* other side of a FIFO.
CommandFairness ==
  /\ WF_allVars(DispatchSync) /\ WF_allVars(WaitTimesOut) /\ WF_allVars(PrintReply)
  /\ WF_allVars(DaemonRuns)

CommandSpec == CommandInit /\ [][CommandNext]_allVars /\ CommandFairness

-----------------------------------------------------------------------------
\* What each kind of task is for has happened, completely.
Done ==
  CASE task = "shell" -> status = "zero" /\ Shell \notin alive /\ alive \cap pipe = {}
    [] task = "file_read" -> entry \in {"file", "fifo"} /\ bulk \in {"fits", "lossy"}
    [] task = "file_write" -> entry \in {"new", "fifo"}
    [] task = "list_dir" -> entry = "dir" /\ bulk = "fits"
    [] task = "system_info" -> stage = "report"
    [] task = "none" -> TRUE

\* A script may rely on exit status 0 of the client: whatever was lost, late,
\* truncated or interrupted on the way, the command has exited with 0 and its
\* output is complete, the file was written, the content or listing is whole
\* (except that what is no UTF-8 is replaced).
ExitZeroMeansDone == cli = "exit0" => Done

\* Of a call that was refused, with auth_denied, node_offline or
\* workspace_violation, nothing was and nothing will be carried out.
RefusedUntouched ==
  reply.code \in {"auth_denied", "node_offline", "workspace_violation"}
    => born = {} /\ entry \notin {"cut", "new"} /\ stage \in {"idle", "report"}

\* The client comes back, whatever became of the task and of the worker,
\* unless its connection dies without a sign: no timeout is set on it.
CallEnds == (cli = "asking") ~> (cli \in {"exit0", "exit1"} \/ ~reachable)

\* A worker is done with every task it takes, whatever the command, the
\* processes it left behind and the workspace do, unless it opens a FIFO.
\* This is what the fairness of ExecDone in module TaskFlow stands for.
ExecutionEnds ==
  (stage = "exec") ~> (stage \in {"report", "escaped"} \/ entry = "fifo")

Refused == reply \in {AuthDenied, NodeOffline}

Accepted == handler # "none" /\ ~Refused

\* How far the task of this call has come, to an observer of all processes.
CallStage ==
  CASE handler = "none" -> "new"
    [] handler # "none" /\ Refused -> "refused"
    [] Accepted /\ stage = "idle" -> "accepted"
    [] Accepted /\ stage \notin {"idle", "report"} -> "started"
    [] Accepted /\ stage = "report" -> "ended"

\* f for this call: TaskService speaks of many.
ThisCall(f) == [t \in {"call"} |-> f]

Service == INSTANCE TaskService WITH
  Tasks <- {"call"},
  Nodes <- {"target"},
  Outcomes <- ResultReplies,
  NoNode <- "nowhere",
  NoOutcome <- NoReply,
  TimedOut <- WaitTimedOut,
  stage <- ThisCall(CallStage),
  place <- ThisCall(IF handler = "none" THEN "nowhere" ELSE "target"),
  gave <- ThisCall(IF stage = "report" THEN ResultReply(outcome) ELSE NoReply),
  known <- ThisCall(IF carried = "known" THEN ResultReply(outcome) ELSE NoReply),
  asking <- {t \in {"call"} : handler = "waiting"},
  answer <- ThisCall(IF Refused THEN NoReply ELSE reply)

\* A call implements the service that TaskFlow implements for many of them,
\* with real executions: whatever the command, the files and the size of the
\* output do, a task is started at most once and only if it was accepted, what
\* the master keeps is what the worker made of it, truncated or not, and the
\* handler answers once, with that or with the timeout.
CallImplementsService == Service!ServiceSpec

\* user_guide.md's error table: sync-wait timeouts have the code "timeout",
\* other failures "execution_failed", and error_code is absent "when the task
\* succeeds".
FailuresAreCoded == reply.status \in {"failed", "timeout"} => reply.code # "none"
=============================================================================
