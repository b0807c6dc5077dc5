---------------------------- MODULE TaskService ----------------------------
(***************************************************************************)
(* What a client may rely on: the abstract specification of the service    *)
(* that module TaskFlow implements, without streams, queues, futures or    *)
(* worker processes.  A task is accepted or refused; it may be started,    *)
(* and end with one outcome; the service may learn that outcome and then   *)
(* answer a waiting client with it, but may also answer that the wait has  *)
(* timed out; and it may forget what it learnt and whom it has to answer.  *)
(* Nothing is promised about what must happen.                             *)
(***************************************************************************)
CONSTANTS
  Tasks, Nodes, Outcomes,
  NoNode,     \* the target of a task not yet submitted
  NoOutcome,  \* nothing happened, is known or was answered
  TimedOut    \* the answer when the wait has timed out

VARIABLES
  stage,   \* "new", "refused", "accepted", "started" or "ended"
  place,   \* the node a task is for
  gave,    \* the outcome of a task that ended
  known,   \* the outcome the service can tell
  asking,  \* the tasks whose clients wait for an answer
  answer   \* what such a client was answered

serviceVars == <<stage, place, gave, known, asking, answer>>

ServiceInit ==
  /\ stage = [t \in Tasks |-> "new"]
  /\ place = [t \in Tasks |-> NoNode]
  /\ gave = [t \in Tasks |-> NoOutcome]
  /\ known = [t \in Tasks |-> NoOutcome]
  /\ asking = {}
  /\ answer = [t \in Tasks |-> NoOutcome]

Submit(t, n, result) ==
  /\ stage[t] = "new"
  /\ stage' = [stage EXCEPT ![t] = result]
  /\ place' = [place EXCEPT ![t] = n]
  /\ UNCHANGED <<gave, known, answer>>

Refuse(t, n) == Submit(t, n, "refused") /\ UNCHANGED asking

Accept(t, n) == Submit(t, n, "accepted") /\ asking' \in {asking, asking \cup {t}}

Start(t) ==
  /\ stage[t] = "accepted"
  /\ stage' = [stage EXCEPT ![t] = "started"]
  /\ UNCHANGED <<place, gave, known, asking, answer>>

End(t, o) ==
  /\ stage[t] = "started"
  /\ stage' = [stage EXCEPT ![t] = "ended"]
  /\ gave' = [gave EXCEPT ![t] = o]
  /\ UNCHANGED <<place, known, asking, answer>>

Learn(t) ==
  /\ stage[t] = "ended"
  /\ known' = [known EXCEPT ![t] = gave[t]]
  /\ UNCHANGED <<stage, place, gave, asking, answer>>

AnswerWith(t, o) ==
  /\ t \in asking
  /\ asking' = asking \ {t}
  /\ answer' = [answer EXCEPT ![t] = o]
  /\ UNCHANGED <<stage, place, gave, known>>

AnswerResult(t) == known[t] # NoOutcome /\ AnswerWith(t, known[t])

AnswerTimeout(t) == AnswerWith(t, TimedOut)

Forget ==
  /\ known' = [t \in Tasks |-> NoOutcome]
  /\ asking' = {}
  /\ UNCHANGED <<stage, place, gave, answer>>

ServiceNext ==
  \/ \E t \in Tasks, n \in Nodes : Refuse(t, n) \/ Accept(t, n)
  \/ \E t \in Tasks, o \in Outcomes : End(t, o)
  \/ \E t \in Tasks :
       Start(t) \/ Learn(t) \/ AnswerResult(t) \/ AnswerTimeout(t)
  \/ Forget

ServiceSpec == ServiceInit /\ [][ServiceNext]_serviceVars
=============================================================================
