------------------------------ MODULE Framing ------------------------------
(***************************************************************************)
(* The event stream as bytes: what sse-starlette makes of the events that  *)
(* event_generator (master/api/nodes.py) yields, the transport, which may  *)
(* deliver them in chunks cut anywhere, and the splitting of the chunks    *)
(* into events by the daemon (_listen_sse, _process_sse_event in           *)
(* worker/daemon.py).                                                      *)
(*                                                                         *)
(* A line is one token, since cutting within a line only delays its rest,  *)
(* and line ends are two.  json.dumps() writes ASCII, so that decoding     *)
(* each chunk by itself does not damage a character.                       *)
(***************************************************************************)
EXTENDS Naturals, Sequences, SequencesExt

CONSTANTS
  Tasks,      \* task events, by the data line that holds the task
  MaxEvents   \* bound: number of events sent on all streams together

Marks == {"event:task", "event:ping", "data:", ":comment", "CR", "LF"}

ASSUME FramingAssumption ==
  /\ Tasks \cap (Marks \cup {""}) = {}
  /\ MaxEvents \in Nat

VARIABLES
  alive,     \* the connection works
  wire,      \* tokens sent and not yet received
  buffer,    \* the text the daemon has received and not yet split
  pc,        \* where the daemon is
  count,     \* number of events sent
  put,       \* history: the tasks sent
  handled    \* history: the tasks _handle_task() was called with

framingVars == <<alive, wire, buffer, pc, count, put, handled>>

\* "read": in aiter_bytes();  "split": in the loop over the buffer;
\* "busy": in _handle_task();  "left": out of _listen_sse().
Pcs == {"read", "split", "busy", "left"}

Tokens == Tasks \cup Marks

FramingTypeOK ==
  /\ alive \in BOOLEAN
  /\ wire \in Seq(Tokens) /\ buffer \in Seq(Tokens)
  /\ pc \in Pcs
  /\ count \in 0..MaxEvents
  /\ put \in Seq(Tasks) /\ handled \in Seq(Tasks)

FramingInit ==
  /\ alive = TRUE /\ pc = "read"
  /\ wire = <<>> /\ buffer = <<>>
  /\ count = 0
  /\ put = <<>> /\ handled = <<>>

-----------------------------------------------------------------------------
EOL == <<"CR", "LF">>
Separator == EOL \o EOL

TaskEvent(t) == <<"event:task">> \o EOL \o <<t>> \o Separator

\* The keep-alive and the sweeper's ping; the comment is sse-starlette's own.
PingEvent == <<"event:ping">> \o EOL \o <<"data:">> \o Separator
CommentEvent == <<":comment">> \o Separator

SendTask(t) ==
  /\ alive
  /\ count < MaxEvents
  /\ t \notin ToSet(put)
  /\ wire' = wire \o TaskEvent(t)
  /\ count' = count + 1
  /\ put' = Append(put, t)
  /\ UNCHANGED <<alive, buffer, pc, handled>>

SendIdle ==
  /\ alive
  /\ count < MaxEvents
  /\ wire' \in {wire \o PingEvent, wire \o CommentEvent}
  /\ count' = count + 1
  /\ UNCHANGED <<alive, buffer, pc, put, handled>>

\* The connection breaks; what was sent last may not arrive.
Break ==
  /\ alive
  /\ alive' = FALSE
  /\ \E k \in 0..Len(wire) : wire' = SubSeq(wire, 1, k)
  /\ UNCHANGED <<buffer, pc, count, put, handled>>

-----------------------------------------------------------------------------
\* Mutant: a chunk is taken for a whole number of events.
MutReceive(k) ==
  /\ pc = "read"
  /\ buffer' = SubSeq(wire, 1, k)
  /\ wire' = SubSeq(wire, k + 1, Len(wire))
  /\ pc' = "split"
  /\ UNCHANGED <<alive, count, put, handled>>

\* The next chunk.
Receive(k) ==
  /\ pc = "read"
  /\ buffer' = buffer \o SubSeq(wire, 1, k)
  /\ wire' = SubSeq(wire, k + 1, Len(wire))
  /\ pc' = "split"
  /\ UNCHANGED <<alive, count, put, handled>>

SeparatorAt(s, i) == i + 3 <= Len(s) /\ SubSeq(s, i, i + 3) = Separator

\* Where separators begin in a text.
Ends(s) == {i \in 1..Len(s) : SeparatorAt(s, i)}

\* The value of the last line of a kind, which overrides the earlier ones.
LastOf(event, kind) ==
  LET lines == {i \in DOMAIN event : event[i] \in kind}
  IN IF lines = {} THEN "" ELSE event[Max(lines)]

EventType(event) == LastOf(event, {"event:task", "event:ping"})
Data(event) == LastOf(event, Tasks \cup {"data:"})

\* Mutant: an event without data is not dropped.
MutIgnored(event) == EventType(event) = "event:ping"

\* _process_sse_event() returns at once.
Ignored(event) == EventType(event) = "event:ping" \/ Data(event) \in {"", "data:"}

\* An event is split off the buffer and processed.
Split ==
  /\ pc = "split"
  /\ Ends(buffer) # {}
  /\ LET i == Min(Ends(buffer))
         event == SubSeq(buffer, 1, i - 1)
     IN /\ buffer' = SubSeq(buffer, i + 4, Len(buffer))
        /\ IF Ignored(event)
           THEN UNCHANGED <<pc, handled>>
           ELSE pc' = "busy" /\ handled' = Append(handled, Data(event))
  /\ UNCHANGED <<alive, wire, count, put>>

\* The buffer holds no complete event.
WantMore ==
  /\ pc = "split"
  /\ Ends(buffer) = {}
  /\ pc' = "read"
  /\ UNCHANGED <<alive, wire, buffer, count, put, handled>>

\* Mutant: the loop over the buffer is left after one task.
MutHandled ==
  /\ pc = "busy"
  /\ pc' = "read"
  /\ UNCHANGED <<alive, wire, buffer, count, put, handled>>

\* _handle_task() returns.
Handled ==
  /\ pc = "busy"
  /\ pc' = "split"
  /\ UNCHANGED <<alive, wire, buffer, count, put, handled>>

\* _handle_task() raises, or the stream has ended; the rest of the buffer
\* and of the stream is gone.
Leave ==
  /\ pc = "busy" \/ (pc = "read" /\ ~alive /\ wire = <<>>)
  /\ pc' = "left"
  /\ alive' = FALSE
  /\ wire' = <<>> /\ buffer' = <<>>
  /\ UNCHANGED <<count, put, handled>>

\* run() listens again; the buffer is a local variable of _listen_sse().
Listen ==
  /\ pc = "left"
  /\ pc' = "read"
  /\ alive' = TRUE
  /\ UNCHANGED <<wire, buffer, count, put, handled>>

FramingNext ==
  \/ \E t \in Tasks : SendTask(t)
  \/ SendIdle \/ Break
  \/ \E k \in 1..Len(wire) : Receive(k)
  \/ Split \/ WantMore \/ Handled \/ Leave \/ Listen

\* The transport delivers, and the daemon runs; neither chunks of any size
\* nor a working connection are promised.
FramingFairness ==
  /\ WF_framingVars(\E k \in 1..Len(wire) : Receive(k))
  /\ WF_framingVars(Split \/ WantMore)
  /\ WF_framingVars(Handled)

FramingSpec == FramingInit /\ [][FramingNext]_framingVars /\ FramingFairness

-----------------------------------------------------------------------------
Text == buffer \o wire

\* Which of the tasks that were sent lie completely between the two sides: a
\* data line is followed by the separator.
Whole ==
  {k \in 1..Len(put) : \E i \in 1..Len(Text) - 4 : Text[i] = put[k]}

\* Those from the oldest to the newest of them.
InFlight == IF Whole = {} THEN <<>> ELSE SubSeq(put, Min(Whole), Max(Whole))

Stream == INSTANCE Channel WITH sent <- put, queue <- InFlight, taken <- handled

\* However the bytes of the stream are cut into chunks, the daemon handles
\* the tasks in the order they were sent, each at most once and only if all
\* of its event arrived; what is lost is a tail of the stream.  This is what
\* module TaskFlow takes for granted of its variable wire.
ImplementsChannel == Stream!ChannelSpec

\* A task that has arrived completely, or will, is handled without another
\* event having to come, unless the stream is left before.
EventsAreHandled ==
  \A t \in Tasks :
    (t \in ToSet(InFlight)) ~> (t \in ToSet(handled) \/ ~alive)
=============================================================================
