------------------------- MODULE EventStreamsProofs -------------------------
(***************************************************************************)
(* For any number of streams and any capacity: the hand-over from one      *)
(* ReceiveChangeEvents loop to the next leaves exactly one loop behind.    *)
(***************************************************************************)
EXTENDS EventStreams, TLAPS

\* Where the streams can be, and that nobody asked anybody to leave before
\* there was a stream.  Readers is not inductive without it: the first stream
\* must find no other loop.
StreamsInv ==
    /\ stream \in [Streams -> {"off", "bailing", "flushing", "running", "sending", "over"}]
    /\ token \in BOOLEAN /\ tracker \in BOOLEAN
    /\ ~tracker => ~token /\ \A s \in Streams : stream[s] = "off"
    /\ Readers

\* NewManager and the first stream: no loop, or one.
LEMMA InitStreams == StreamInit => StreamsInv
<1> SUFFICES ASSUME StreamInit PROVE StreamsInv OBVIOUS
<1>1. CASE tracker = FALSE /\ stream = [s \in Streams |-> "off"]
  BY <1>1 DEF StreamInit, StreamsInv, Staying, Readers
<1>2. ASSUME NEW t \in Streams, NEW gone \in SUBSET Streams, tracker = TRUE, t \notin gone,
             stream = [s \in Streams |-> CASE s = t -> "running"
                                           [] s \in gone -> "over"
                                           [] OTHER -> "off"]
      PROVE  StreamsInv
  <2>1. \A s \in Streams : stream[s] = IF s = t THEN "running"
                                      ELSE IF s \in gone THEN "over" ELSE "off"
    BY <1>2
  <2>2. stream \in [Streams -> {"off", "bailing", "flushing", "running", "sending", "over"}]
    BY <1>2, <2>1
  <2>3. Staying = {t}
    BY <2>1 DEF Staying
  <2> QED BY <1>2, <2>2, <2>3 DEF StreamInit, StreamsInv, Readers
<1> QED BY <1>1, <1>2 DEF StreamInit

\* Every step of getStreamingTracker, flushFailedPackets and the loops keeps
\* the number of loops in line with the token.
LEMMA StepStreams == StreamsInv /\ [StreamNext]_streamVars => StreamsInv'
<1> SUFFICES ASSUME StreamsInv, [StreamNext]_streamVars PROVE StreamsInv' OBVIOUS
<1> USE DEF StreamsInv, Staying, Readers
<1>1. CASE SendEvent
  BY <1>1 DEF SendEvent
<1>2. ASSUME NEW s \in Streams, Open(s) PROVE StreamsInv'
  <2>1. CASE tracker
    <3>1. Staying' = Staying BY <1>2, <2>1 DEF Open
    <3> QED BY <1>2, <2>1, <3>1 DEF Open
  <2>2. CASE ~tracker
    <3>1. Staying' = {s} BY <1>2, <2>2 DEF Open
    <3> QED BY <1>2, <2>2, <3>1 DEF Open
  <2> QED BY <2>1, <2>2
<1>3. ASSUME NEW s \in Streams, BailOther(s) PROVE StreamsInv'
  <2>1. tracker BY <1>3 DEF BailOther
  <2>2. Staying' = Staying \cup {s} /\ s \notin Staying BY <1>3 DEF BailOther
  <2>3. \E t \in Streams : Staying = {t} BY <1>3, <2>1 DEF BailOther
  <2>4. \E a, b \in Streams : a # b /\ Staying' = {a, b} BY <2>2, <2>3
  <2> QED BY <1>3, <2>1, <2>4 DEF BailOther
<1>4. ASSUME NEW s \in Streams, FlushFailedPackets(s) PROVE StreamsInv'
  <2>1. Staying' = Staying BY <1>4 DEF FlushFailedPackets
  <2> QED BY <1>4, <2>1 DEF FlushFailedPackets
<1>5. ASSUME NEW s \in Streams, TakeEvent(s) PROVE StreamsInv'
  <2>1. Staying' = Staying BY <1>5 DEF TakeEvent
  <2> QED BY <1>5, <2>1 DEF TakeEvent
<1>6. ASSUME NEW s \in Streams, ReceiveChangeEvents(s) PROVE StreamsInv'
  <2>1. Staying' = Staying BY <1>6 DEF ReceiveChangeEvents
  <2> QED BY <1>6, <2>1 DEF ReceiveChangeEvents
<1>7. ASSUME NEW s \in Streams, BailOut(s) PROVE StreamsInv'
  <2>1. s \in Staying /\ Staying' = Staying \ {s} BY <1>7 DEF BailOut
  <2>2. tracker /\ \E a, b \in Streams : a # b /\ Staying = {a, b}
    BY <1>7, <2>1 DEF BailOut
  <2>3. \E t \in Streams : Staying' = {t}
    BY <2>1, <2>2
  <2> QED BY <1>7, <2>2, <2>3 DEF BailOut
<1>8. ASSUME NEW s \in Streams, Break(s) PROVE StreamsInv'
  BY <1>8 DEF Break
<1>9. CASE UNCHANGED streamVars
  BY <1>9 DEF streamVars
<1> QED BY <1>1, <1>2, <1>3, <1>4, <1>5, <1>6, <1>7, <1>8, <1>9
        DEF StreamNext, Streaming, Loop

\* However many streams the controller opens, and whichever loop takes the
\* token of getStreamingTracker, one loop goes on taking events and at most one
\* other is on its way out.
THEOREM ReadersHolds == StreamSpec => []Readers
<1>1. StreamsInv => Readers BY DEF StreamsInv
<1> QED BY <1>1, InitStreams, StepStreams, PTL DEF StreamSpec

=============================================================================
