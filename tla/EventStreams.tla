---------------------------- MODULE EventStreams ----------------------------
(***************************************************************************)
(* The change events of the core on their way to the controller:           *)
(* rw_core/core/device/event/event.go.  Senders put events on a channel of *)
(* bounded capacity.  Each ReceiveChangeEvents call (a stream) runs a loop *)
(* that takes them off and sends them on.  A new stream asks the one       *)
(* before it to leave through a second channel, which has room for one     *)
(* token and says nothing about who shall take it.  ReceivePacketsIn is    *)
(* the same code over its own channels.                                    *)
(***************************************************************************)
EXTENDS Naturals, Sequences

CONSTANTS Streams,    \* the streams the controller may open
          Frail,      \* those whose connection may break
          Capacity,   \* of the event channel, 100 in the code
          Ports,      \* the ports the events are about
          Values,     \* what an event says of a port
          None

ASSUME CapacityAssumption == Capacity \in Nat \ {0}
ASSUME NoneAssumption == None \notin Values

VARIABLES queue,      \* changeEventQueue
          token,      \* changeEventQueueDone holds a token
          tracker,    \* the method is in streamingTracker.calls
          stream,     \* where each stream is
          alive,      \* the streams whose connection works
          held,       \* the event each stream is about to send
          failed,     \* failedPacket of the tracker
          view        \* the ports as the controller knows them

streamVars == << queue, token, tracker, stream, alive, held, failed, view >>

\* SendChangeEvent and SendDeviceDeletionEvent: what is put on the channel.
PortEvent(kind, p, v) == [kind |-> kind, port |-> p, value |-> v]
PortEvents == [kind : {"add", "modify", "delete"}, port : Ports, value : Values]
Gone   == [kind |-> "gone"]
Events == PortEvents \cup {Gone}

StreamTypeOK ==
    /\ queue \in Seq(Events) /\ Len(queue) <= Capacity
    /\ token \in BOOLEAN /\ tracker \in BOOLEAN
    /\ stream \in [Streams -> {"off", "bailing", "flushing", "running", "sending", "over"}]
    /\ alive \subseteq Streams
    /\ held \in [Streams -> Events \cup {None}] /\ failed \in Events \cup {None}
    /\ view \in [Ports -> Values \cup {None}]

\* What the controller makes of an event.
Told(v, e) ==
    CASE e.kind = "gone" -> [p \in Ports |-> None]
      [] e.kind = "delete" -> [v EXCEPT ![e.port] = None]
      [] OTHER -> [v EXCEPT ![e.port] = e.value]

\* No stream has been opened, or one is running and those before it are over.
StreamInit ==
    /\ queue = << >> /\ token = FALSE /\ failed = None
    /\ held = [s \in Streams |-> None]
    /\ view \in [Ports -> Values \cup {None}]
    /\ \/ tracker = FALSE /\ stream = [s \in Streams |-> "off"] /\ alive = {}
       \/ \E t \in Streams, gone \in SUBSET Streams :
             /\ tracker = TRUE /\ alive = {t} /\ t \notin gone
             /\ stream = [s \in Streams |-> CASE s = t -> "running"
                                             [] s \in gone -> "over"
                                             [] OTHER -> "off"]

-----------------------------------------------------------------------------

\* A send blocks while the channel is full.
HasRoom == Len(queue) < Capacity
Send(e) == HasRoom /\ queue' = Append(queue, e)

SendEvent == /\ \E e \in Events : Send(e)
             /\ UNCHANGED << token, tracker, stream, alive, held, failed, view >>

\* ReceiveChangeEvents up to the mutex of getStreamingTracker.  The mutex is
\* held while the stream before is asked to leave.
Open(s) ==
    /\ stream[s] = "off"
    /\ \A t \in Streams : stream[t] # "bailing"
    /\ stream' = [stream EXCEPT ![s] = IF tracker THEN "bailing" ELSE "flushing"]
    /\ tracker' = TRUE
    /\ alive' = alive \cup {s}
    /\ UNCHANGED << queue, token, held, failed, view >>

\* done <- true: blocks while the last token has not been taken.
BailOther(s) ==
    /\ stream[s] = "bailing" /\ ~token
    /\ token' = TRUE
    /\ stream' = [stream EXCEPT ![s] = "flushing"]
    /\ UNCHANGED << queue, tracker, alive, held, failed, view >>

\* The event that failed last goes to the end of the queue.  It is not
\* forgotten: only a send that succeeds forgets it.
FlushFailedPackets(s) ==
    /\ stream[s] = "flushing"
    /\ IF failed = None THEN UNCHANGED queue ELSE Send(failed)
    /\ stream' = [stream EXCEPT ![s] = "running"]
    /\ UNCHANGED << token, tracker, alive, held, failed, view >>

\* The loop takes the next event ...
TakeEvent(s) ==
    /\ stream[s] = "running" /\ queue # << >>
    /\ queue' = Tail(queue)
    /\ held' = [held EXCEPT ![s] = Head(queue)]
    /\ stream' = [stream EXCEPT ![s] = "sending"]
    /\ UNCHANGED << token, tracker, alive, failed, view >>

\* ... and sends it, or keeps it as the one that failed last.
ReceiveChangeEvents(s) ==
    /\ stream[s] = "sending"
    /\ held' = [held EXCEPT ![s] = None]
    /\ stream' = [stream EXCEPT ![s] = "running"]
    /\ IF s \in alive THEN view' = Told(view, held[s]) /\ failed' = None
       ELSE failed' = held[s] /\ UNCHANGED view
    /\ UNCHANGED << queue, token, tracker, alive >>

\* Mutant: the channel is closed, so every loop finds the token.
BailOutOfClosed(s) ==
    /\ stream[s] = "running" /\ token
    /\ stream' = [stream EXCEPT ![s] = "over"]
    /\ UNCHANGED << queue, token, tracker, alive, held, failed, view >>

\* Any stream may take the token, the one that asked for it too.
BailOut(s) ==
    /\ stream[s] = "running" /\ token
    /\ token' = FALSE
    /\ stream' = [stream EXCEPT ![s] = "over"]
    /\ UNCHANGED << queue, tracker, alive, held, failed, view >>

\* The connection of a stream breaks.  Its loop finds out when it sends.
Break(s) ==
    /\ s \in alive \cap Frail
    /\ alive' = alive \ {s}
    /\ UNCHANGED << queue, token, tracker, stream, held, failed, view >>

\* What a stream does by itself.
Loop(s) == \/ BailOther(s) \/ FlushFailedPackets(s) \/ TakeEvent(s)
           \/ ReceiveChangeEvents(s) \/ BailOut(s)

Streaming(s) == Open(s) \/ Loop(s) \/ Break(s)

StreamNext == SendEvent \/ \E s \in Streams : Streaming(s)

StreamSpec == StreamInit /\ [][StreamNext]_streamVars

-----------------------------------------------------------------------------

Staying == {s \in Streams : stream[s] \in {"flushing", "running", "sending"}}

\* As long as there has been a stream, a loop keeps taking events: exactly one,
\* or two while the token of getStreamingTracker has not been taken.  Whichever
\* loop takes the token, one is left, and never two.
Readers ==
    tracker => IF token THEN \E s, t \in Streams : s # t /\ Staying = {s, t}
               ELSE \E s \in Streams : Staying = {s}

\* A stream that flushes into a full channel while no other loop reads.
FlushBlocked ==
    /\ failed # None /\ ~HasRoom
    /\ \A s \in Staying : stream[s] = "flushing"

=============================================================================
