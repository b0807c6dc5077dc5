------------------------------ MODULE Registry ------------------------------
(***************************************************************************)
(* The node registry of the master (master/registry.py): one SQLite row    *)
(* per node, of which the status and the age of the last heartbeat matter. *)
(* Every method is one transaction.                                        *)
(***************************************************************************)
EXTENDS Naturals

CONSTANTS
  Nodes,    \* node ids
  Stale,    \* timeout_seconds, in units of the clock
  MaxAge    \* bound: ages are not counted beyond this one

VARIABLES
  status,   \* the status column, "absent" without a row
  age       \* the time since last_heartbeat was written

RegistryTypeOK ==
  /\ status \in [Nodes -> {"absent", "online", "offline"}]
  /\ age \in [Nodes -> 0..MaxAge]

RegistryInit ==
  /\ status = [n \in Nodes |-> "absent"]
  /\ age = [n \in Nodes |-> 0]

\* register(): inserts the row, or revives the one of a known node.
Register(n) ==
  /\ status' = [status EXCEPT ![n] = "online"]
  /\ age' = [age EXCEPT ![n] = 0]

\* heartbeat(): an UPDATE, which a node without a row does not get.
Heartbeat(n) ==
  IF status[n] = "absent" THEN UNCHANGED <<status, age>> ELSE Register(n)

\* Mutant: the arguments of the UPDATE are swapped.
MutMarkOffline(n) == status' = [status EXCEPT ![n] = n] /\ UNCHANGED age

\* mark_offline(): likewise an UPDATE.
MarkOffline(n) ==
  /\ status' = [status EXCEPT ![n] = IF @ = "absent" THEN @ ELSE "offline"]
  /\ UNCHANGED age

\* Mutant: the age is compared the wrong way round.
MutSweepStale ==
  /\ status' = [n \in Nodes |-> IF status[n] = "online" /\ age[n] < Stale
                                THEN "offline" ELSE status[n]]
  /\ UNCHANGED age

\* sweep_stale(): last_heartbeat < now - timeout_seconds.
SweepStale ==
  /\ status' = [n \in Nodes |-> IF status[n] = "online" /\ age[n] > Stale
                                THEN "offline" ELSE status[n]]
  /\ UNCHANGED age

\* Time passes.
GrowOlder ==
  /\ age' = [n \in Nodes |-> IF age[n] < MaxAge THEN age[n] + 1 ELSE MaxAge]
  /\ UNCHANGED status
=============================================================================
