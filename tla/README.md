# A TLA+ model of GaiaBridge (CapOwn)

TLA+ modules, TLC configurations and TLAPS proofs about the programs of this
repository.  This file says what the system consists of, which module models
which part of it, what each check shows and within which bounds, what is
proved, and what is left out.

## 1. The system

| Component | Source | State | Operations |
| --- | --- | --- | --- |
| Stream pool (`Broker`) | `master/broker.py` | `_queues`: node id -> `asyncio.Queue` | `connect`, `disconnect`, `is_connected`, `push`, `broadcast_ping` |
| Event streams | `master/api/nodes.py` `events` | one suspended `event_generator` per open `GET /api/events` | take an event, 30 s keep-alive, `finally` |
| Task router | `master/router.py`, `master/api/tasks.py` | `_pending`: task id -> future; `_results`: task id -> result | `dispatch`, `wait_result`, `submit_result`, `get_result` |
| Node registry | `master/registry.py` | SQLite table `nodes` | `register`, `heartbeat`, `mark_offline`, `sweep_stale`, reads |
| Sweeper | `master/app.py` | a sleeping task | every `heartbeat_timeout // 2` s: sweep, then ping all streams |
| Worker daemon | `worker/daemon.py` | the stream it reads, its text buffer | register, listen, split events, execute, report, reconnect |
| Result reporter | `worker/reporter.py` | none | one blocking POST, no retry |
| Executors | `worker/executor/` | none (file system, processes) | shell command with a deadline, file read/write/list, system information |
| Protocol | `shared/protocol.py` | none | records and enumerations |
| Configuration | `shared/config.py`, `client/config.py` | files, environment | precedence and defaults |
| Authentication | `master/auth.py`, `shared/auth.py` | the two tokens | a check at the head of each handler |
| Client CLI | `client/capown_client.py` | none | `list_nodes`, `dispatch_sync`, printing, exit status |
| Deployment script | `deploy.py` | files, containers, services of a host | deploy master, worker or both; build, stop, start |

**How they interact.**  A client POSTs a task to the master.  `Router.dispatch`
puts it in the queue of the target's stream and keeps a future for it.  The
generator of that stream takes it from the queue and sends it to the worker,
whose daemon executes one task after the other and POSTs each result.
`Router.submit_result` keeps the result and resolves the future a synchronous
call may be waiting for; an asynchronous client polls.  Independently, the
registry records when it last heard of a node.  Heartbeats are written when a
stream is opened and when its keep-alive timer fires, since the daemon never
calls `POST /api/nodes/heartbeat`; the sweeper marks old rows offline.
Dispatch consults the stream pool only, never the registry.

**What is hard.**

* *Concurrency in the master.*  One asyncio loop runs all handlers, the
  generators and the sweeper; they interleave at every `await` that suspends.
  Two generators of one node overlap whenever the worker reconnects before the
  server notices that the old stream is gone.
* *Timers.*  The deadline of a synchronous call races with the result and with
  the wakeup of the waiter.  The keep-alive timer races with the sweeper's
  pings and with tasks.
* *Failure.*  Streams break with events in flight, results get lost or arrive
  late, workers and the master restart; only the registry is persistent.
  Nothing is retried.
* *Order.*  Events of an old stream, still buffered, against those of a new one;
  chunks of a stream that end anywhere.
* *Deadlines inside deadlines.*  The client's wait, the worker's deadline for a
  command, the kill, the reaping and the draining of a pipe; and three places
  without a deadline: `urlopen()`, a file operation, a broken keep-alive.
* *Files that others write.*  The workspace and its FIFOs, configurations that
  are edited or deployed while services start.

**What makes each component correct.**  The pool: a registered queue is
drained, by a stream of its node.  The router: no lost wakeup, no leaked entry
of an answered call, no accepted task unaccounted for, every synchronous call
answered.  The whole path: at-most-once execution in order, true and stable
results, delivery when nothing fails, recovery after failures.  The registry:
"online" is never stale by more than a bound, and a connected node is online.
Executors: every task
ends, with one outcome, and a success is a complete one.  The shell executor: no
call outlives its deadline by more than a second, a timeout kills what may be
killed of the command, a reported exit comes with all output.  The client: exit status 0 can be relied
on.  Configuration: each setting comes from the first source that gives one.
Deployment: a reported success is complete whatever earlier deployments left
half done.

## 2. The modules

| Module | Models | Uses |
| --- | --- | --- |
| `Broker` | stream pool and event generators | |
| `Router` | task router and task handlers, master restarts | extends `Broker` |
| `TaskFlow` | master, workers and the network between them | extends `Router`, instantiates `TaskService` |
| `TaskService` | what a client may rely on (abstract) | |
| `Framing` | the bytes of an event stream and their split into events | instantiates `Channel` |
| `Channel` | what an event stream promises (abstract) | |
| `Registry` | the columns `status` and `last_heartbeat` | |
| `Presence` | everything that writes to the registry, with time | extends `Broker`, instantiates `Registry` |
| `ShellExec` | one shell command and its processes, with time | |
| `Executors` | one task in the worker: files, system information, output limit | extends `ShellExec` |
| `Command` | one call of the client, through the master to its exit status | extends `Executors`, instantiates `TaskService` |
| `Config` | choice, reading and deployment of configuration files | |
| `Deploy` | `deploy.py` run repeatedly on a Linux or Windows host | |
| `BrokerProofs`, `RouterProofs`, `TaskFlowProofs`, `PresenceProofs`, `CommandProofs`, `FramingProofs`, `ConfigProofs`, `DeployProofs` | proofs | extend the module and `TLAPS` |
| `MCTaskFlow`, `MCPresence` | instances for TLC | |

`TaskFlow` and `Command` look at the same path from two sides.  `TaskFlow` has many
tasks, streams and faults, and of an execution only its outcome; `Command` has
one call, and everything an execution may be.  `Framing` justifies the variable
`wire` of `TaskFlow`, a sequence of whole events; both `TaskFlow` and `Command`
implement `TaskService`; `ExecutionEnds` of `Command`
justifies the fairness `TaskFlow` assumes of an execution.

Definitions named `Mut...` stand before a definition of the model and are what a
plausible mistake would have made of it.  Nothing refers to them: they are there to
be put in the place of that definition, which must violate the property they
were written for.

### Atomicity

The master is one asyncio loop.  Code between two suspensions is one action.
Two `await`s do not suspend: `put()` on an `asyncio.Queue()`, which has no
maximum size, and `Queue.get()` when the queue is not empty.  So `dispatch()`,
including its `push()`, is atomic up to `asyncio.wait_for`, and the second
connection check inside `push()` (`router.py:30-32`) cannot fail: it is part of
`Dispatch` without a branch of its own.  `submit_result()` never suspends.

`asyncio.wait_for` is modelled as in Python 3.12, the version of
`master/Dockerfile`: the timer cancels the awaited future unless it is done,
and the waiter resumes in a later iteration of the loop.  Between the two a result
may arrive (`Expire`, `Store`, `WakeTimeout`); between a result and the waiter's
resumption the timer may fire (`Store`, `Expire`).  A `Queue.get()` cancelled
this way does not lose the event.

The master learns that a client is gone when it writes to it or when the server
reports the disconnection; sse-starlette then cancels the generator.
`NoticeGone` may therefore come arbitrarily late, also after the worker has
opened the next stream.  A queue is identified with the connection it was made
for, and a generator keeps its own queue when the pool's entry is replaced, as
`queue` in `events` does.

### State and actions against the code

* `Broker`: `queues` is `_queues`, `buf` the contents of the `asyncio.Queue`s,
  `owner` the `node_id` of a request, `gen` where its generator is suspended.
  `Take`, `Block`, `Timeout` and `Finish` are the paths through
  `event_generator`.
* `Router`: `pending` holds the keys of `_pending`, `fut` the futures,
  `results` is `_results`; `call` and `reply` follow the client's request through
  its handler.  Results come from workers that were sent the task and may come
  any number of times (`WorkerReports`); `TaskFlow` replaces this environment
  by worker daemons.
* `TaskFlow`: `wpc`, `wconn`, `wtask` are the position of a daemon in `run()`,
  its stream and its task; `wire` the events between generator and daemon;
  `posts` the results under way.  A daemon reads, executes and reports
  sequentially, because `report()` blocks.  `accepted`, `started` and `produced`
  are history variables.
* `Registry`, `Presence`: `age` counts from `last_heartbeat`; `idle`, `sweepAge`
  are the running timers.  `tasked` is a history variable.
* `ShellExec`: `pc` is where `execute()` is suspended, `due` the deadline of that
  wait; `alive`, `tracked`, `pipe` describe the processes.  `killpg()` reaches the
  members of the group it is permitted to signal (`Expire`) and raises if there
  are none (`KillRefused`): a command under sudo is another user's.  Which
  members those are stays open until the kill, and `spared` remembers them.
* `Executors`: `stage` is where `_handle_task()` is, `entry` what lies at the path
  of the task and what the task has made of it, `outcome` the `TaskResult`, `bulk`
  whether `_truncate()` will accept its output.  `OpenFile` and `WriteFile` are the
  two effects of `write_text()`; what is read is decoded with replacements, which
  `bulk` tells ("lossy"), and which nothing downstream looks at; `ReadFile` and `OpenFile` of a FIFO end in the
  stage "blocked", from which only the other side leads out (`Unblock`).
* `Command`: `cli` is the client's process, `handler` its request in the master,
  `carried` where the task or its result is between the processes, `reply` the
  response.  A result is stored (`ReportResult`) before the handler resumes with it
  (`AnswerResult`), and its timer may be first.  `DispatchSync` has the order of the checks in `tasks.py`;
  `ExitStatus` is `print_result()` and what `main()` makes of an exception.
* `Framing`: a line of a stream is one token and a line end two, `buffer` is the
  daemon's string.  `Split` is one pass of its `while`, `WantMore` its end,
  `Leave` an exception or the end of the stream, either of which discards the
  buffer.
* `Config`: `Choose` is `_default_path()` or the client's search, `Load` the reading
  and the conversions; between the two, files change (`Edit`, and `OpenToWrite`,
  `WriteFails`, `Deployed` of `_write_toml()`).  `Written` is what of an entered value
  can be read back: a quote makes the file malformed, a backslash escape another
  text.  `Deployed` starts the service, or leaves an active worker as it is, as
  `systemctl enable --now` does; `kept` is history and remembers the latter.
* `Deploy`: one value of `pc` for each effect on the host; `Abort` may come before
  any of them.  `enabled` and `service` are the systemd unit or, on Windows, the
  scheduled task, which is deleted and created again (`DeleteTask`, `CreateTask`)
  and which nothing restarts when the daemon dies (`ServiceDies`).  `config`, `app` and the like hold the number of the deployment
  that wrote them, so that "up to date" means "equal to `gen`".  `rootOwned` says
  which of the files made so far are root's: what a deployment under sudo makes
  (`Made`, `NewVenv`) is given to the user in three steps, each of which follows
  the links of the virtual environment instead of changing them (`Followed`), so
  that `interpreter`, the program they lead to, changes its owner.

### The abstract service

`TaskService` has no streams, queues or processes.  `TaskFlow` implements it under
the mapping in its `INSTANCE`: the stage of a task is read off `call`, `started`
and `produced`, what is known from `results`, whom to answer from `call`.
It says that a task passes its stages once, that a waiting client is answered at
most once, with the outcome or with the timeout, and that what can be fetched
is never replaced.  It promises nothing about progress; that is what the
liveness properties of `TaskFlow` are for.

`Command` implements the same service seen from one call on one node: the stage is
read off `handler` and `stage`, what the execution gave off `stage` and `outcome`,
what is known off `carried`, the answer off `reply`.

## 3. The runs

| Run | Bounds | States | Shows |
| --- | --- | --- | --- |
| `task_flow` | 2 nodes, 2 streams, 2 tasks, any 2 of 6 faults | 1 169 129 | at-most-once execution, order, true answers, nothing lost without a fault; the safety of router and pool; `TaskFlow` implements `TaskService` |
| `task_flow_live` | 1 node, 2 streams, 1 task, pings, any 2 faults | 26 394 | progress under fairness |
| `command` | one call; a shell with 2 descendants, deadline of 1 s | 1 215 005 | exit status 0 means done, refused means untouched, client and worker come to an end; deadline, kill, complete output; a call implements `TaskService` |
| `framing` | 2 tasks, 3 events | 26 311 | a stream implements `Channel`; an event that arrived is handled |
| `config` | 2 edits or deployments, any environment | 1 841 733 | precedence; what was entered is loaded |
| `presence` | 1 node, 2 streams, 1 task; 15 s units, timeout 90 s | 30 564 | freshness of "online" |
| `deploy` | 3 deployments, 3 kinds of invoker, Linux and Windows | 177 047 | complete and manageable deployments |
| `uncoded_failure`, `stale_disconnect`, `executor_raises`, `idle_node`, `prepared` | small | | the findings of section 5 |

**Why the bounds are enough.**  Every hazard of streams involves one old and one
new stream of a node, or two nodes: two streams are the least number for
either.  Two tasks are needed for order and for a waiter next to another.
Each anomaly of the protocol needs at most a fault and a second one while it is
being recovered from.  In `MaxQueue` only pings and `Push` are bounded, tasks of
`dispatch` are not, so `MaxQueue = 0` removes the pings, which the daemon drops
anyway; `task_flow_live` has them.  Pings matter as traffic that keeps timers
from firing, and that is `Presence`.  There `MaxAge` exceeds `Stale + SweepPeriod`,
so that a violation of the bound is representable, and a stream can be opened at
any time relative to sweeps.  Three deployments are what a success over the
remains of a failure over the remains of a success takes.  One outcome is enough
in `task_flow`, since `AnswersAreTrue` tells results apart by task and node and
"no outcome" from an outcome; which code an outcome carries passes through
unchanged.  `task_flow` and the proofs of section 6 speak of the same
specification: what two nodes and two tasks cannot show, the theorems do.

In `command` the clock ticks every 0.2 s, the period at which the executor polls,
so that a deadline of five units is one second: long enough for a command to
fork, detach and exit at every position relative to it.  A shell and two
descendants allow one process that is left in the group and one that is not.
In `framing` three events are a task, something between, and a task; cuts may
fall between any two tokens, so also within the separator.  In `config` two
writes are a deployment after an edit, an edit after a deployment, two
deployments, or one given up and one completed; each environment has both
variables unset, empty, or set, and every place may have a file.

`command` and `config` are run without deadlock checking: a call of the client
is over after its exit status, and `config` may stop with a file that is opened
for writing when its bound on writes is reached.

**Mutants.**  For every property of a passing run one mutant of the model violates
it, so none holds merely by the shape of the model.

## 4. Fairness

`TaskFlowFairness` assumes weak fairness of

* the loop's own work (`Send`, `WaiterStep`): asyncio runs what is ready, and a
  deadline of `wait_for` passes in finite time;
* `NoticeGone`: each stream is written to at least every 30 s, and a dead
  connection fails that write;
* the daemon (`Read`, `ReportReturns`, `StreamEnds`, opening a stream): its loop
  reconnects after `reconnect_interval` without giving up, and `urlopen()` of a
  report has a timeout (that it returns before the master has the result, since
  something between the two answers, is a fault and never needed for progress);
* `WorkerStart`: systemd has `Restart=always`, Docker `unless-stopped`.  The
  scheduled task of Windows has neither: there it takes the next logon;
* `ExecDone`: files and system information end by themselves, and for shell
  commands `ShellExec` shows the deadline (`AnsweredInTime`);
* `Deliver`: a result that is not lost arrives; losing it is the fault "post".

Faults, calls of clients and pings are not fair.  A daemon whose registration
fails dies and is started again; this is one `WorkerStart` here, as whether the
registration succeeded is not looked at by `run()`.  The fairness of `ExecDone`
is what `ExecutionEnds` of `Command` shows, except for a FIFO in the workspace.

`CommandFairness` assumes that an accepted request is handled, that the timer of
`wait_result()` fires, that the client prints the answer it has, and that the
daemon's own steps and the clock go on.  It assumes nothing of the command, of
the file system or of what is at the other side of a FIFO, and nothing of the
network: a lost result ends in a timeout, a silent connection is the exception
that `CallEnds` names.

`FramingFairness` assumes that bytes under way arrive, in chunks of any size, and
that the daemon goes on splitting and handling.

`Presence` and `ShellExec` assume timely loops: time does not pass something
that is due.  `Presence` and `Config` only state safety properties.

## 5. Findings

* **A reconnect may be undone by the old stream** (`stale_disconnect`).  The
  `finally` clause of a dropped stream calls `disconnect(node_id)` and pops
  whatever queue the node has.  If the worker reconnected before the drop was
  noticed, dispatch answers `node_offline` although the worker is connected, until
  the new stream breaks too.  Tasks already in the new queue are still
  delivered (`QueueDrains`).
* **An idle node goes offline** (`idle_node`).  The only heartbeats are those at the
  opening of a stream and at the keep-alive timer of 30 s without an event.  Every
  task and every ping of the sweeper restarts this timer.  With the default
  `heartbeat_timeout` of 60 the sweeper's period is 30 s as well.  It puts a ping
  into each queue and goes to sleep before the generators, which the ping has
  woken, send it and start their timers anew: its next period begins a little
  before theirs, and a connected worker to which nothing ever happens is swept
  when it ends.  The trace has the two due at the same instant and takes the
  sweeper first, which this order makes likely but does not guarantee.  With a
  longer timeout an idle node stays online
  (`QuietIsOnline`, with 90 s), and a node that gets a task every 30 s does not.
* **Most failures have no error code** (`uncoded_failure`).  A sync wait that times
  out is answered with HTTP 200, status "timeout" and no code; the 504 of
  `tasks.py` that has the code is out of reach.  A nonzero exit status and what
  an executor catches have no code either, where the guide lists
  `execution_failed`.  With the defaults the wait and the command have the same
  120 s, and the wait starts first, so that the code of the worker's own timeout
  comes too late.  The client's exit status is not affected (`ExitZeroMeansDone`).
* **A started task may never be reported** (`executor_raises`).  An exception that
  escapes an executor drops the stream, and nobody reports the task.
* **sudo does not see the running worker** (`prepared`).  `deploy.py` stops the
  service through root's service manager.  The same property fails where the
  invoker cannot query Docker and where the service waits for its restart; a
  service stopped for a container also stays enabled and returns with the next
  reboot.  On Windows the task is never seen to run: `deploy.py:347` compares a
  line with "status: running", and `schtasks` pads the names of its columns.  Two
  workers of one node id then replace each other's streams; in host mode
  `enable --now` leaves the old process, with its old configuration.

Two more, of which the models contain the behaviour, and which the properties
name as their exceptions.

* *A command of another user is not killed*, where `docs/deploy.md:84` says that
  long-running commands are killed automatically.  `killpg()` raises
  `PermissionError` when the command is sudo's, and beside it only
  `ProcessLookupError` is caught (`shell.py:202`): the call ends as a failure
  without a code and the command goes on (`KillRefused`, the second disjunct of
  `OutputIsComplete`).  A kill that reaches only some members of the group is
  reported as a timeout while the others go on (`spared` in `KilledOnTimeout`).  On
  Windows a command survives that could not be put into its job, or a child it
  had by then.
* *After sudo not everything is the user's*, where `deploy.py:743` speaks of
  "everything we wrote".  `os.chown()` follows links: those of the virtual
  environment stay root's, and the system's interpreter is given to the user.
  `~/.capown`, which is made on the way to `~/.capown/worker`, stays root's, so that a
  first master cannot be deployed without sudo any more.  What another host
  deployment has to write is the user's nevertheless (`UserCanManage`, which is
  about `Managed` and not about `WorkerFiles`): it makes nothing in `~/.capown`, and
  links are removed by whoever owns their directory.

Remarks that contradict no document.  `CAPOWN_CONFIG` hides the service's own
variable also when it is set to nothing.  The client's `ConfigParser` takes `%`
in a token for the start of a reference and fails, even if the environment
overrides the value.  A FIFO in the workspace stops the daemon, its stream
included.  `urlopen()` has no timeout.

## 6. Proofs

All theorems hold for any sets of nodes, streams, tasks, processes and outcomes,
any bounds, and rest only on the named assumptions of the modules (model
values differ from the values they stand beside; deadlines are numbers).

* **Broker.** `RegisteredQueueIsServed` is inductive with the typing of `queues`,
  `owner` and `gen`.
* **Router.** `RouterInv` adds `ResolvedIsPopped` to the properties: a future
  that holds a result has left `_pending`.  Without it a waiter that times out
  could pop an entry that another step still needs, and `WaiterReachable` would
  not survive `WakeTimeout`.  `QueuedOnce` needs `QueuedInv`, which speaks of
  positions: a task at a position of a queue was accepted, is for the owner of
  that queue, and is at no other position of any queue.  It is disturbed only by
  `Dispatch` (the task was idle, hence nowhere) and by actions that shorten or
  empty queues.
* **TaskFlow.** Each of its steps is a step of `RouterSpec` or leaves the router
  alone; the only step of the environment, `Deliver`, is a `WorkerReports`.  This
  gives `TaskFlowImplementsRouter`, and all theorems of the router hold in the
  composition (`TaskFlowRouterSafety`).  `FlowInv` adds where a task can be: at one
  place of all queues and wires together, or started, never both (`OnePlace`);
  what a worker that is executing or reporting knows (`Workers`); and that what
  is under way, kept or answered is what was produced (`Truth`).  `AtMostOnce` and
  `AnswersAreTrue` follow, and so does the refinement of `TaskService`: each step
  changes the stage of at most one task, and only to the next.  `StartedInOrder`
  needs a second invariant on top, `OrderInv`: whatever is ahead of another task on
  the way to their worker (in the queue of a stream, on its wire, started) was
  accepted earlier.  It holds across reconnects because a worker that leaves a
  stream drops everything that is still on it.  `NothingLost` needs `LossInv`: as
  long as nothing failed, the open streams are those that work and that their
  nodes' daemons read (`Connected`), so that a task is queued where it will be
  read; then each step hands a task on, from queue to wire, to the daemon, to a
  post, to the results (`AllKept`), and the steps that drop streams cannot come.
* **Presence.** `PresenceInv` bounds the ages.  Once the sweeper has run, an online
  row is at most the timeout older than the last sweep (`Fresh`).  At the stream of
  a connected node to which no task was sent, either the keep-alive timer has run since
  the last heartbeat, or it was restarted by the last ping (`Kept`), and an event
  that was just sent has restarted it (`JustSent`).  `OnlineIsFresh` and the typing,
  which includes that the bounded clocks never leave their range, hold for any
  periods.  `QuietIsOnline` rests on `WellTimed`: the keep-alive is shorter than the
  sweep period and no longer than the timeout.  The first half is what the
  default configuration does not have.
* **Shell** (in `CommandProofs`).  `ShellInv` bounds the deadline of each wait (`InTime`), says what has
  happened so far (`Progress`) and that the tracked processes which live on after
  the kill are spared ones (`Killed`): a fork needs a live parent in the group,
  and every such parent is spared, so that its child is.
* **Command.** Each step of a call is a step of `ShellSpec` or leaves the shell
  executor alone (`CommandImplementsShell`), so that `ShellInv` carries over.  Three
  things tie a call together: the processes are those of a shell task, and its
  outcome is theirs unless the output was too large (`Shells`); a stage belongs
  to a type of task and an outcome says what lies at its path (`Stays`,
  `Outcomes`); request, task and result are never in two places, and a result
  that is under way or known is that of a task in its last stage (`Carrying`,
  `Answered`).  `ExitZeroMeansDone` and `RefusedUntouched` follow, and so does the
  refinement of `TaskService`: five functions of the state are all the service sees
  of a call, and each step changes them as one of its actions or not at all.
* **Config.** A running process has settings made from the file it read
  (`Running`), and as long as a completed deployment stands, the path chosen, the
  file read and what was entered agree (`Launched`), unless the process is one the
  deployment left as it was; what a file holds of an entered value is a lemma of
  its own (`WrittenValues`).  Both properties then hold
  for any number of edits and deployments, where the run has two.
* **Deploy.** `DeployInv` lists for each step what the ones before it have achieved
  (`Achieved`) and which files an invoker other than root must own to have come
  so far (`Owned`); crashes, reboots and aborts touch neither.  Links, home and
  interpreter are outside of both: nothing a deployment writes depends on whose
  they are.

* **Framing.** The text under way is the buffer followed by the wire.  `StreamInv`
  says that it is a sequence of whole events, the last of which may be cut off
  (`Framed`; not while the stream is alive: `Complete`), and that its tasks were
  sent, stand in the order of sending, each once, with none missing between two
  others (`Sound`, `Ordered`, `Distinct`, `Convex`), the last of them being the last
  sent while the stream is alive (`Newest`).  From `Framed` the prover gets what the
  daemon relies on: the first separator of the buffer, if there is one, is that of
  the first event (`FirstSeparator`), the lines before it are all of this event
  (`FirstIsHandled`), and what follows them is framed again (`RestFramed`).  So a
  split takes the first task under way or none, a chunk takes none, and what is
  cut off is a tail: each step is an `Enqueue`, a `Dequeue` or a `Lose` of `Channel`,
  or stutters.  The lemmas about `Split`, `LastOf` and `InFlight` hold for texts of any
  length.  Where they need induction they take the least or greatest member of a
  set of positions, which exists by `NatLessThanWellFounded`.

Only model-checked: liveness, which is out of the prover's reach.

## 7. What is not modelled

* What messages contain beyond what the properties tell apart, descriptive
  columns of the registry, and what the client prints.
* `SSEEvent.serialize()`: no program calls it.
* Errors of SQLite: that `registry.heartbeat()` raises between `broker.connect()`
  and the start of the generator, or that it ends the sweeper.
* A proxy that delivers a worker's requests in another order than sent.
* Back-pressure of the transport: a generator's `yield` may block on a slow
  client.
* The tokens of a deployment: each deployment of the master makes new ones, and
  workers and clients of the old ones are refused.
* The prompts of `deploy.py`, and reuse of process ids.
* The smoke tests, which only drive the parts above.

## 8. Plan

1. `Deploy`: "Both" after a cancelled master (`deploy.py:1022`); tokens, so that a worker deployed before its master was
   deployed again is refused.
2. `Broker`, `Presence`: a `registry.heartbeat()` that raises, in a stream and in the
   sweeper.
