------------------------ MODULE VisualizerRoleProofs ------------------------
(* Proofs about the visualizer role, for any room in the ring and any number  *)
(* of frames and boundaries.                                                  *)
EXTENDS VisualizerRole, SequenceTheorems, TLAPS

-----------------------------------------------------------------------------
(* Where a thread is tells what it has in hand.                               *)
NetOK ==
    /\ net.pc \in {"idle", "frame"} => net.event = "none"
    /\ net.pc \in {"clear", "marker"} => net.event \in {"START", "CLEAR"}
    /\ net.pc = "config" => net.event = "START"
    /\ net.pc = "end" => net.event = "END"
    /\ net.pc = "event" => net.event # "none"

DrainOK ==
    /\ drain.pc = "item" <=> drain.item # Nothing
    /\ drain.pc \in {"check", "receive", "item"} => drain.cmd = {}
    /\ drain.pc = "flush" => "FLUSH" \in drain.cmd /\ "STOP" \notin drain.cmd
    /\ drain.pc = "discard" => drain.cmd = {"CLEAR"}

(* No entry is of a boundary to come.                                         *)
NumberOK ==
    /\ drain.item.of <= boundary
    /\ \A i \in 1..Len(ring) : ring[i].of <= boundary

VisInv == TypeOK /\ NetOK /\ DrainOK /\ NumberOK

-----------------------------------------------------------------------------
(* The entries of the ring.                                                   *)
LEMMA EntryFacts ==
  /\ Marker \in Entries /\ Marker # Nothing /\ Marker.of = 0 /\ Nothing.of = 0
  /\ \A n : Marker # Frame(n) /\ Nothing # Frame(n) /\ Frame(n).of = n
  /\ \A n \in Nat : Frame(n) \in Entries
  /\ \A e \in Entries : e.of \in Nat /\ e # Nothing /\ (e = Marker \/ e = Frame(e.of))
  BY DEF Entries, Marker, Nothing, Frame

(* Taking the oldest entry moves the others up; a new one goes behind them.   *)
LEMMA RingTail ==
  ASSUME TypeOK, ring # <<>>
  PROVE  /\ Head(ring) \in Entries /\ Head(ring) = ring[1] /\ Len(ring) \in Nat /\ 1 \in 1..Len(ring)
         /\ Tail(ring) \in Seq(Entries) /\ Len(Tail(ring)) = Len(ring) - 1
         /\ Len(Tail(ring)) <= RingCap
         /\ \A i \in 1..Len(Tail(ring)) : i + 1 \in 1..Len(ring) /\ Tail(ring)[i] = ring[i + 1]
         /\ \A i \in 1..Len(ring) : i # 1 => i - 1 \in 1..Len(Tail(ring)) /\ Tail(ring)[i - 1] = ring[i]
  <1>1. ring \in Seq(Entries) /\ Len(ring) <= RingCap /\ RingCap \in Nat
    BY VisualizerAssumption DEF TypeOK
  <1>2. /\ Head(ring) \in Entries /\ Tail(ring) \in Seq(Entries)
        /\ Len(Tail(ring)) = Len(ring) - 1
        /\ \A i \in 1..Len(Tail(ring)) : Tail(ring)[i] = ring[i + 1]
    BY <1>1, HeadTailProperties
  <1>3. Len(ring) \in Nat /\ Len(ring) # 0 /\ Head(ring) = ring[1]
    BY <1>1, EmptySeq
  <1>. QED  BY <1>1, <1>2, <1>3

LEMMA RingAppend ==
  ASSUME TypeOK, Room, NEW e \in Entries
  PROVE  /\ Append(ring, e) \in Seq(Entries)
         /\ Len(ring) \in Nat /\ Len(Append(ring, e)) = Len(ring) + 1
         /\ Len(Append(ring, e)) <= RingCap
         /\ \A i \in 1..Len(ring) : i \in 1..Len(Append(ring, e)) /\ Append(ring, e)[i] = ring[i]
         /\ Append(ring, e)[Len(ring) + 1] = e
         /\ Len(ring) + 1 \in 1..Len(Append(ring, e))
         /\ \A i \in 1..Len(Append(ring, e)) : i \in 1..Len(ring) \/ i = Len(ring) + 1
  <1>1. ring \in Seq(Entries) /\ Len(ring) < RingCap /\ RingCap \in Nat /\ Len(ring) \in Nat
    BY VisualizerAssumption DEF TypeOK, Room
  <1>2. /\ Append(ring, e) \in Seq(Entries) /\ Len(Append(ring, e)) = Len(ring) + 1
        /\ \A i \in 1..Len(ring) : Append(ring, e)[i] = ring[i]
        /\ Append(ring, e)[Len(ring) + 1] = e
    BY <1>1, AppendProperties
  <1>. QED  BY <1>1, <1>2

LEMMA NoEntries == \A i \in 1..Len(<<>>) : FALSE
  OBVIOUS

(* The events of the listener, taken and appended in the same way.            *)
LEMMA EventTail ==
  ASSUME TypeOK, events # <<>>
  PROVE  /\ Head(events) \in {"START", "CLEAR", "END"} /\ Head(events) = events[1]
         /\ Len(events) \in Nat /\ 1 \in 1..Len(events)
         /\ Tail(events) \in Seq({"START", "CLEAR", "END"}) /\ Len(Tail(events)) = Len(events) - 1
         /\ \A i \in 1..Len(Tail(events)) : i + 1 \in 1..Len(events) /\ Tail(events)[i] = events[i + 1]
         /\ \A i \in 1..Len(events) : i # 1 => i - 1 \in 1..Len(Tail(events)) /\ Tail(events)[i - 1] = events[i]
  <1>1. events \in Seq({"START", "CLEAR", "END"})
    BY DEF TypeOK
  <1>2. /\ Head(events) \in {"START", "CLEAR", "END"} /\ Tail(events) \in Seq({"START", "CLEAR", "END"})
        /\ Len(Tail(events)) = Len(events) - 1
        /\ \A i \in 1..Len(Tail(events)) : Tail(events)[i] = events[i + 1]
    BY <1>1, HeadTailProperties
  <1>3. Len(events) \in Nat /\ Len(events) # 0 /\ Head(events) = events[1]
    BY <1>1, EmptySeq
  <1>. QED  BY <1>2, <1>3

LEMMA EventAppend ==
  ASSUME TypeOK, NEW e \in {"START", "CLEAR", "END"}
  PROVE  /\ Append(events, e) \in Seq({"START", "CLEAR", "END"})
         /\ Len(events) \in Nat /\ Len(Append(events, e)) = Len(events) + 1
         /\ \A i \in 1..Len(events) : i \in 1..Len(Append(events, e)) /\ Append(events, e)[i] = events[i]
         /\ Append(events, e)[Len(events) + 1] = e
         /\ Len(events) + 1 \in 1..Len(Append(events, e))
         /\ \A i \in 1..Len(Append(events, e)) : i \in 1..Len(events) \/ i = Len(events) + 1
  <1>1. events \in Seq({"START", "CLEAR", "END"}) /\ Len(events) \in Nat
    BY DEF TypeOK
  <1>2. /\ Append(events, e) \in Seq({"START", "CLEAR", "END"}) /\ Len(Append(events, e)) = Len(events) + 1
        /\ \A i \in 1..Len(events) : Append(events, e)[i] = events[i]
        /\ Append(events, e)[Len(events) + 1] = e
    BY <1>1, AppendProperties
  <1>. QED  BY <1>1, <1>2

-----------------------------------------------------------------------------
(* Types, and where the threads are.                                          *)
LEMMA VisInitInv == Init => VisInv
  <1>. SUFFICES ASSUME Init
               PROVE  VisInv
    OBVIOUS
  <1>1. <<>> \in Seq(Entries) /\ <<>> \in Seq({"START", "CLEAR", "END"}) /\ Len(<<>>) = 0
    OBVIOUS
  <1>2. TypeOK
    <2>1. /\ net \in [pc : NetPcs \union {"event"}, event : {"none", "START", "CLEAR", "END"}]
          /\ drain \in [pc : {"check", "flush", "discard", "receive", "item", "done"},
                        item : Entries \union {Nothing}, cmd : SUBSET Commands]
      BY DEF Init, NetPcs
    <2>2. /\ stream_active \in BOOLEAN /\ config \in Nat /\ frames \in Nat
          /\ main \in {"loop", "cleanup", "stopping"} /\ config_slot \in Nat /\ told \in Nat
          /\ boundary \in Nat /\ late \in Nat
      BY DEF Init
    <2>3. /\ flags \subseteq Commands /\ cases \subseteq Cases
          /\ lost \subseteq {"held", "flush", "discard"}
      BY DEF Init
    <2>4. /\ events \in Seq({"START", "CLEAR", "END"}) /\ ring \in Seq(Entries)
          /\ Len(ring) <= RingCap
      BY <1>1, VisualizerAssumption DEF Init
    <2>. QED  BY <2>1, <2>2, <2>3, <2>4 DEF TypeOK
  <1>3. NetOK /\ DrainOK
    BY DEF Init, NetOK, DrainOK, Nothing
  <1>4. NumberOK
    BY NoEntries, EntryFacts DEF Init, NumberOK
  <1>. QED  BY <1>2, <1>3, <1>4 DEF VisInv

LEMMA VisNetworkStep ==
  ASSUME VisInv, AdmitFrame \/ StreamStart \/ StreamClear \/ StreamEnd \/ NetStep
  PROVE  VisInv'
  <1>. USE DEF VisInv, NetPcs, Commands, Cases, Reads, netVars, mainVars, history
  <1>0. boundary \in Nat /\ boundary + 1 \in Nat /\ config + 1 \in Nat /\ frames + 1 \in Nat
    BY DEF TypeOK
  <1>1. CASE AdmitFrame
    BY <1>0, <1>1 DEF AdmitFrame, TypeOK, NetOK, DrainOK, NumberOK
  <1>2. CASE StreamStart \/ StreamClear \/ StreamEnd
    <2>1. /\ net' \in [pc : NetPcs \union {"event"}, event : {"none", "START", "CLEAR", "END"}]
          /\ cases' \subseteq Cases
          /\ stream_active' \in BOOLEAN /\ config' \in Nat
      <3>1. net' \in [pc : NetPcs \union {"event"}, event : {"none", "START", "CLEAR", "END"}]
        BY <1>2 DEF StreamStart, StreamClear, StreamEnd, Receive
      <3>2. cases' \subseteq Cases
        BY <1>2 DEF StreamStart, StreamClear, StreamEnd, Receive, TypeOK
      <3>3. stream_active' \in BOOLEAN /\ config' \in Nat
        BY <1>0, <1>2 DEF StreamStart, StreamClear, StreamEnd, TypeOK
      <3>. QED  BY <3>1, <3>2, <3>3
    <2>2. NetOK' /\ DrainOK' /\ NumberOK'
      BY <1>2 DEF StreamStart, StreamClear, StreamEnd, Receive, NetOK, DrainOK, NumberOK
    <2>3. UNCHANGED <<frames, mainVars, config_slot, events, ring, flags, drain, boundary, late, lost>>
      BY <1>2 DEF StreamStart, StreamClear, StreamEnd, Receive
    <2>. QED  BY <2>1, <2>2, <2>3 DEF TypeOK
  <1>3. CASE CommitFrame
    <2>1. CASE ~Room
      BY <1>3, <2>1 DEF CommitFrame, TypeOK, NetOK, DrainOK, NumberOK
    <2>2. CASE Room
      <3>1. Frame(boundary) \in Entries /\ Frame(boundary).of = boundary
        BY <1>0, EntryFacts
      <3>2. ring' = Append(ring, Frame(boundary))
        BY <1>3, <2>2 DEF CommitFrame
      <3>3. NumberOK'
        BY <1>0, <1>3, <2>2, <3>1, <3>2, RingAppend DEF CommitFrame, NumberOK
      <3>4. TypeOK' /\ NetOK' /\ DrainOK'
        BY <1>3, <2>2, <3>1, <3>2, RingAppend DEF CommitFrame, TypeOK, NetOK, DrainOK
      <3>. QED  BY <3>3, <3>4
    <2>. QED  BY <2>1, <2>2
  <1>4. CASE SignalClear
    <2>1. NumberOK'
      <3>1. drain.item.of \in Nat /\ \A i \in 1..Len(ring) : ring[i].of \in Nat
        BY EntryFacts DEF TypeOK
      <3>. QED  BY <1>0, <1>4, <3>1 DEF SignalClear, Boundary, NumberOK
    <2>. QED  BY <1>0, <1>4, <2>1 DEF SignalClear, Boundary, TypeOK, NetOK, DrainOK
  <1>5. CASE EnqueueMarker
    <2>1. Room /\ ring' = Append(ring, Marker) /\ Marker \in Entries /\ Marker.of = 0
      BY <1>5, EntryFacts DEF EnqueueMarker
    <2>2. NumberOK'
      BY <1>0, <1>5, <2>1, RingAppend DEF EnqueueMarker, NumberOK
    <2>3. ring' \in Seq(Entries) /\ Len(ring') <= RingCap
      BY <2>1, RingAppend
    <2>4. TypeOK'
      BY <1>5, <2>3 DEF EnqueueMarker, AfterMarker, TypeOK
    <2>5. NetOK' /\ DrainOK'
      BY <1>5 DEF EnqueueMarker, AfterMarker, NetOK, DrainOK, TypeOK
    <2>. QED  BY <2>2, <2>4, <2>5
  <1>6. CASE GiveUpMarker
    BY <1>6 DEF GiveUpMarker, AfterMarker, TypeOK, NetOK, DrainOK, NumberOK
  <1>7. CASE WriteConfig
    BY <1>7 DEF WriteConfig, TypeOK, NetOK, DrainOK, NumberOK
  <1>8. CASE FlushForEnd
    <2>1. NumberOK'
      <3>1. drain.item.of \in Nat /\ \A i \in 1..Len(ring) : ring[i].of \in Nat
        BY EntryFacts DEF TypeOK
      <3>. QED  BY <1>0, <1>8, <3>1 DEF FlushForEnd, Boundary, NumberOK
    <2>. QED  BY <1>0, <1>8, <2>1 DEF FlushForEnd, Boundary, TypeOK, NetOK, DrainOK
  <1>9. CASE EnqueueStreamEvent
    <2>1. net.event \in {"START", "CLEAR", "END"}
      BY <1>9 DEF EnqueueStreamEvent, TypeOK, NetOK
    <2>. QED  BY <1>9, <2>1, EventAppend DEF EnqueueStreamEvent, TypeOK, NetOK, DrainOK, NumberOK
  <1>. QED  BY <1>1, <1>2, <1>3, <1>4, <1>5, <1>6, <1>7, <1>8, <1>9 DEF NetStep

LEMMA VisMainStep ==
  ASSUME VisInv, MainStep \/ Cleanup \/ Stop
  PROVE  VisInv'
  <1>. USE DEF VisInv, NetPcs, Commands, Cases, netVars, mainVars, history
  <1>0. boundary \in Nat /\ boundary + 1 \in Nat
    BY DEF TypeOK
  <1>1. CASE HandleStreamRingEvent
    <2>1. events # <<>> /\ events' = Tail(events) /\ told' \in Nat /\ config_slot' \in Nat
      BY <1>1 DEF HandleStreamRingEvent, ToldBy, TypeOK
    <2>. QED  BY <1>1, <2>1, EventTail DEF HandleStreamRingEvent, TypeOK, NetOK, DrainOK, NumberOK
  <1>2. CASE Cleanup
    <2>1. NumberOK'
      <3>1. drain.item.of \in Nat /\ \A i \in 1..Len(ring) : ring[i].of \in Nat
        BY EntryFacts DEF TypeOK
      <3>. QED  BY <1>0, <1>2, <3>1 DEF Cleanup, Boundary, NumberOK
    <2>2. <<>> \in Seq({"START", "CLEAR", "END"})
      OBVIOUS
    <2>. QED  BY <1>0, <1>2, <2>1, <2>2 DEF Cleanup, Boundary, TypeOK, NetOK, DrainOK
  <1>3. CASE CleanupEnd
    BY <1>3, EventAppend DEF CleanupEnd, TypeOK, NetOK, DrainOK, NumberOK
  <1>4. CASE Stop
    BY <1>4 DEF Stop, TypeOK, NetOK, DrainOK, NumberOK
  <1>. QED  BY <1>1, <1>2, <1>3, <1>4 DEF MainStep

LEMMA VisDrainStep ==
  ASSUME VisInv, DrainStep
  PROVE  VisInv'
  <1>. USE DEF VisInv, Commands, Cases, netVars, mainVars, history
  <1>0. boundary \in Nat /\ Nothing.of = 0
    BY EntryFacts DEF TypeOK
  <1>1. CASE Check
    <2>1. /\ drain' = [drain EXCEPT !.pc = Obey(flags), !.cmd = flags]
          /\ Obey(flags) \in {"flush", "discard", "receive", "done"}
          /\ flags \subseteq Commands /\ drain.item = Nothing
      BY <1>1 DEF Check, Obey, TypeOK, DrainOK
    <2>2. TypeOK'
      BY <1>1, <2>1 DEF Check, TypeOK
    <2>3. DrainOK'
      BY <2>1 DEF Obey, TypeOK, DrainOK
    <2>. QED  BY <1>1, <2>1, <2>2, <2>3 DEF Check, TypeOK, NetOK, NumberOK
  <1>2. CASE Flush \/ Discard
    <2>1. CASE ring # <<>>
      <3>1. /\ ring' = Tail(ring)
            /\ \E how \in {"flush", "discard"} : Discarded(Head(ring), how)
            /\ drain' = drain \/ drain' = [drain EXCEPT !.cmd = {}, !.pc = "check"]
            /\ drain.pc \in {"flush", "discard"} /\ UNCHANGED boundary
        BY <1>2, <2>1 DEF Flush, Discard
      <3>2. lost' \subseteq {"held", "flush", "discard"}
        BY <3>1 DEF Discarded, TypeOK
      <3>3. NumberOK'
        <4>1. drain'.item = drain.item
          BY <3>1 DEF TypeOK
        <4>. QED  BY <2>1, <3>1, <4>1, RingTail DEF NumberOK
      <3>4. ring' \in Seq(Entries) /\ Len(ring') <= RingCap
        BY <2>1, <3>1, RingTail
      <3>5. TypeOK' /\ NetOK' /\ DrainOK'
        BY <1>2, <3>1, <3>2, <3>4 DEF Flush, Discard, TypeOK, NetOK, DrainOK
      <3>. QED  BY <3>3, <3>5
    <2>2. CASE ring = <<>>
      <3>1. PICK pc \in {"check", "discard"}, cmd \in {{}, {"CLEAR"}} :
                /\ drain' = [drain EXCEPT !.cmd = cmd, !.pc = pc]
                /\ pc = "check" => cmd = {}
                /\ pc = "discard" => cmd = {"CLEAR"}
        <4>1. CASE Flush
          <5>1. drain' = [drain EXCEPT !.cmd = @ \ {"FLUSH"},
                                       !.pc = IF "CLEAR" \in drain.cmd THEN "discard" ELSE "check"]
            BY <4>1, <2>2 DEF Flush
          <5>2. drain.cmd \subseteq {"FLUSH", "CLEAR"}
            BY <4>1 DEF Flush, TypeOK, DrainOK
          <5>3. drain.cmd \ {"FLUSH"} = IF "CLEAR" \in drain.cmd THEN {"CLEAR"} ELSE {}
            BY <5>2
          <5>. QED  BY <5>1, <5>3 DEF TypeOK
        <4>2. CASE Discard
          BY <4>2, <2>2 DEF Discard
        <4>. QED  BY <1>2, <4>1, <4>2
      <3>2. drain.item = Nothing
            /\ UNCHANGED <<netVars, mainVars, config_slot, events, ring, flags, boundary, late, lost, cases>>
        BY <1>2, <2>2 DEF Flush, Discard, DrainOK
      <3>3. TypeOK'
        BY <3>1, <3>2 DEF TypeOK
      <3>4. DrainOK' /\ NetOK' /\ NumberOK'
        BY <3>1, <3>2 DEF TypeOK, DrainOK, NetOK, NumberOK
      <3>. QED  BY <3>3, <3>4
    <2>. QED  BY <2>1, <2>2
  <1>3. CASE ReceiveEntry
    <2>1. ring # <<>> /\ ring' = Tail(ring)
          /\ drain' = [drain EXCEPT !.item = Head(ring), !.pc = "item"]
      BY <1>3 DEF ReceiveEntry
    <2>2. Head(ring) \in Entries /\ Head(ring) # Nothing
      BY <2>1, RingTail, EntryFacts
    <2>3. NumberOK'
      BY <1>3, <2>1, RingTail DEF ReceiveEntry, NumberOK, TypeOK
    <2>4. TypeOK' /\ NetOK' /\ DrainOK'
      BY <1>3, <2>1, <2>2, RingTail DEF ReceiveEntry, TypeOK, NetOK, DrainOK
    <2>. QED  BY <2>3, <2>4
  <1>4. CASE ReceiveTimeOut
    BY <1>4 DEF ReceiveTimeOut, TypeOK, NetOK, DrainOK, NumberOK
  <1>5. CASE DropEntry
    <2>1. /\ drain' = Back /\ cases' \subseteq Cases
          /\ UNCHANGED <<netVars, mainVars, config_slot, events, ring, flags, boundary, late, lost>>
      BY <1>5 DEF DropEntry, TypeOK
    <2>2. TypeOK'
      BY <2>1 DEF Back, TypeOK
    <2>. QED  BY <1>0, <2>1, <2>2 DEF Back, TypeOK, NetOK, DrainOK, NumberOK
  <1>6. CASE Interrupted
    <2>1. lost' \subseteq {"held", "flush", "discard"}
      BY <1>6 DEF Interrupted, Discarded, TypeOK
    <2>2. /\ drain' = [drain EXCEPT !.item = Nothing, !.cmd = flags, !.pc = Obey(flags)]
          /\ flags' = {} /\ flags \subseteq Commands /\ flags # {}
          /\ Obey(flags) \in {"flush", "discard", "receive", "done"}
          /\ UNCHANGED <<netVars, mainVars, config_slot, events, ring, boundary, late, cases>>
      BY <1>6 DEF Interrupted, Obey, TypeOK
    <2>3. TypeOK'
      BY <2>1, <2>2 DEF TypeOK
    <2>4. DrainOK'
      BY <2>2 DEF Obey, TypeOK, DrainOK
    <2>. QED  BY <1>0, <2>2, <2>3, <2>4 DEF TypeOK, NetOK, NumberOK
  <1>7. CASE Deliver
    <2>1. /\ drain' = Back
          /\ UNCHANGED <<netVars, mainVars, config_slot, events, ring, flags, boundary, lost, cases>>
      BY <1>7 DEF Deliver
    <2>2. late' \in Nat
      BY <1>7 DEF Deliver, TypeOK
    <2>3. TypeOK'
      BY <2>1, <2>2 DEF Back, TypeOK
    <2>. QED  BY <1>0, <2>1, <2>3 DEF Back, TypeOK, NetOK, DrainOK, NumberOK
  <1>. QED  BY <1>1, <1>2, <1>3, <1>4, <1>5, <1>6, <1>7 DEF DrainStep

(* A step is one of the network thread, of the main loop or of the drain      *)
(* thread, or none.                                                           *)
LEMMA VisSteps ==
  ASSUME [Next]_vars
  PROVE  \/ AdmitFrame \/ StreamStart \/ StreamClear \/ StreamEnd \/ NetStep
         \/ MainStep \/ Cleanup \/ Stop
         \/ DrainStep
         \/ UNCHANGED vars
  BY DEF Next

LEMMA VisNextInv == VisInv /\ [Next]_vars => VisInv'
  <1>. SUFFICES ASSUME VisInv, [Next]_vars
               PROVE  VisInv'
    OBVIOUS
  <1>1. CASE UNCHANGED vars
    BY <1>1 DEF vars, netVars, mainVars, history, VisInv, TypeOK, NetOK, DrainOK, NumberOK
  <1>. QED  BY <1>1, VisSteps, VisNetworkStep, VisMainStep, VisDrainStep

(* Every variable keeps its type and the ring its room, and each thread has   *)
(* in hand what its place says.                                               *)
THEOREM VisualizerInvariant == Spec => []VisInv
  <1>. QED  BY VisInitInv, VisNextInv, PTL DEF Spec

-----------------------------------------------------------------------------
(* What the listener is still to be told.                                     *)
Switches(event) == event \in {"START", "END"}

(* No start and no end waits in the inbox ring, or this is the last.          *)
Settled == \A i \in 1..Len(events) : ~Switches(events[i])
LastSwitch(i) ==
    /\ Switches(events[i])
    /\ \A j \in 1..Len(events) : i < j => ~Switches(events[j])

(* The one start on its way has its config in the slot, and the last start or *)
(* end on its way leaves the listener with the config in force; if there is   *)
(* none the listener knows of it.                                             *)
OnTheWay ==
    /\ main = "cleanup" => ~stream_active /\ net.pc = "idle" /\ events = <<>>
    /\ net.event = "START" => stream_active /\ config # 0
    /\ net.event = "END" => ~stream_active
    /\ net.pc = "event" /\ net.event = "START" =>
          config_slot = config /\ \A i \in 1..Len(events) : events[i] # "START"
    /\ \A i \in 1..Len(events) : events[i] = "START" =>
          /\ config_slot # 0
          /\ net.event # "START" => config_slot = config
          /\ \A j \in 1..Len(events) : events[j] = "START" => i = j
    /\ ~Switches(net.event) => \A i \in 1..Len(events) : LastSwitch(i) =>
          stream_active = (events[i] = "START")
    /\ ~Switches(net.event) /\ Settled /\ main # "cleanup" =>
          told = (IF stream_active THEN config ELSE 0)

AgreeInv == cases \intersect {"unread", "overtaken"} = {} => OnTheWay

LEMMA CasesGrow ==
  ASSUME VisInv, [Next]_vars
  PROVE  cases \subseteq cases'
  BY DEF Next, NetStep, DrainStep, MainStep, AdmitFrame, CommitFrame, StreamStart, StreamClear,
         StreamEnd, Receive, SignalClear, Boundary, EnqueueMarker, GiveUpMarker, WriteConfig,
         FlushForEnd, EnqueueStreamEvent, HandleStreamRingEvent, Cleanup, CleanupEnd, Stop,
         Check, Flush, Discard, ReceiveEntry, ReceiveTimeOut, DropEntry, Interrupted, Deliver,
         vars, history

(* The steps that leave the events, the slot and the listener alone.          *)
LEMMA AgreeAside ==
  ASSUME VisInv, OnTheWay,
         UNCHANGED <<stream_active, config, main, config_slot, events, told, net>>
         \/ AdmitFrame \/ CommitFrame \/ SignalClear \/ EnqueueMarker \/ GiveUpMarker
         \/ FlushForEnd \/ Stop
  PROVE  OnTheWay'
  <1>0. net = [pc |-> net.pc, event |-> net.event]
    BY DEF VisInv, TypeOK
  <1>1. /\ UNCHANGED <<stream_active, config, config_slot, events, told>>
        /\ net'.event = net.event
        /\ (main' = main) \/ (main # "cleanup" /\ main' # "cleanup")
        /\ main' = "cleanup" => net'.pc = "idle"
        /\ net'.pc = "event" /\ net.event = "START" => net.pc = "event"
    <2>1. CASE UNCHANGED <<stream_active, config, main, config_slot, events, told, net>>
      BY <2>1 DEF OnTheWay
    <2>2. CASE AdmitFrame
      BY <1>0, <2>2 DEF AdmitFrame, mainVars, OnTheWay
    <2>3. CASE CommitFrame \/ SignalClear \/ EnqueueMarker \/ GiveUpMarker \/ FlushForEnd
      BY <1>0, <2>3 DEF CommitFrame, SignalClear, Boundary, EnqueueMarker, GiveUpMarker, AfterMarker,
                        FlushForEnd, mainVars, OnTheWay, VisInv, NetOK
    <2>4. CASE Stop
      BY <2>4 DEF Stop, netVars, OnTheWay
    <2>. QED  BY <2>1, <2>2, <2>3, <2>4
  <1>. QED  BY <1>1 DEF OnTheWay, LastSwitch, Settled

LEMMA AgreeReceive ==
  ASSUME VisInv, OnTheWay, StreamStart \/ StreamClear \/ StreamEnd, "overtaken" \notin cases'
  PROVE  OnTheWay'
  <1>1. /\ UNCHANGED <<config_slot, events, main, told>> /\ net.event = "none"
        /\ main # "cleanup" /\ net'.pc # "event"
    BY DEF StreamStart, StreamClear, StreamEnd, Receive, Reads, VisInv, NetOK, mainVars
  <1>2. CASE StreamStart
    <2>1. stream_active' = TRUE /\ config' # 0 /\ net'.event = "START"
      BY <1>2 DEF StreamStart, Receive, VisInv, TypeOK
    <2>. QED  BY <1>1, <2>1 DEF OnTheWay, LastSwitch, Settled, Switches
  <1>3. CASE StreamClear
    <2>1. UNCHANGED <<stream_active, config>> /\ net'.event = "CLEAR"
      BY <1>3 DEF StreamClear, Receive
    <2>. QED  BY <1>1, <2>1 DEF OnTheWay, LastSwitch, Settled, Switches
  <1>4. CASE StreamEnd
    <2>1. stream_active' = FALSE /\ config' = config /\ net'.event = "END"
      BY <1>4 DEF StreamEnd, Receive
    <2>. QED  BY <1>1, <2>1 DEF OnTheWay, LastSwitch, Settled, Switches
  <1>. QED  BY <1>2, <1>3, <1>4

LEMMA AgreeWrite ==
  ASSUME VisInv, OnTheWay, WriteConfig, "unread" \notin cases'
  PROVE  OnTheWay'
  <1>1. /\ UNCHANGED <<stream_active, config, events, main, told>>
        /\ net.event = "START" /\ net'.event = "START" /\ config_slot' = config
        /\ net.pc = "config"
    BY DEF WriteConfig, VisInv, NetOK, TypeOK, mainVars
  <1>2. \A i \in 1..Len(events) : events[i] # "START"
    BY DEF WriteConfig
  <1>. QED  BY <1>1, <1>2 DEF OnTheWay, LastSwitch, Settled, Switches

LEMMA AgreeEnqueue ==
  ASSUME VisInv, OnTheWay, EnqueueStreamEvent
  PROVE  OnTheWay'
  <1>. DEFINE e == net.event
  <1>1. /\ UNCHANGED <<stream_active, config, config_slot, main, told>>
        /\ net.pc = "event" /\ net'.pc = "idle" /\ net'.event = "none"
        /\ e \in {"START", "CLEAR", "END"} /\ events' = Append(events, e)
    BY DEF EnqueueStreamEvent, VisInv, NetOK, TypeOK, mainVars
  <1>2. /\ Len(events) \in Nat /\ Len(events') = Len(events) + 1
        /\ \A i \in 1..Len(events) : i \in 1..Len(events') /\ events'[i] = events[i]
        /\ events'[Len(events) + 1] = e
        /\ Len(events) + 1 \in 1..Len(events')
        /\ \A i \in 1..Len(events') : i \in 1..Len(events) \/ i = Len(events) + 1
    BY <1>1, EventAppend DEF VisInv
  <1>. HIDE DEF e
  <1>3. main # "cleanup"
    BY <1>1 DEF OnTheWay
  <1>4. CASE e = "CLEAR"
    <2>0. ~Switches(e) /\ net.event = e
      BY <1>4 DEF Switches, e
    <2>1. \A i \in 1..Len(events') : events'[i] = "START" => i \in 1..Len(events) /\ events[i] = "START"
      BY <1>2, <1>4
    <2>2. \A i \in 1..Len(events') : LastSwitch(i)' => i \in 1..Len(events) /\ LastSwitch(i) /\ events'[i] = events[i]
      BY <1>2, <2>0 DEF LastSwitch
    <2>3. Settled' => Settled
      BY <1>2 DEF Settled
    <2>. QED  BY <1>1, <1>3, <1>4, <2>0, <2>1, <2>2, <2>3 DEF OnTheWay, Switches
  <1>5. CASE e \in {"START", "END"}
    <2>0. Switches(e) /\ net.event = e
      BY <1>5 DEF Switches, e
    <2>1. ~Settled'
      BY <1>2, <2>0 DEF Settled
    <2>2. \A i \in 1..Len(events') : LastSwitch(i)' => events'[i] = e
      <3>1. SUFFICES ASSUME NEW i \in 1..Len(events'), LastSwitch(i)', i \in 1..Len(events)
                     PROVE  FALSE
        BY <1>2
      <3>2. i < Len(events) + 1
        BY <1>2, <3>1
      <3>. QED  BY <1>2, <2>0, <3>1, <3>2 DEF LastSwitch
    <2>3. stream_active = (e = "START")
      BY <1>5, <2>0 DEF OnTheWay, VisInv, TypeOK
    <2>4. \A i \in 1..Len(events') : events'[i] = "START" =>
             /\ config_slot # 0 /\ config_slot = config
             /\ \A j \in 1..Len(events') : events'[j] = "START" => i = j
      <3>1. CASE e = "START"
        BY <1>1, <1>2, <2>0, <3>1 DEF OnTheWay
      <3>2. CASE e = "END"
        BY <1>2, <2>0, <3>2 DEF OnTheWay
      <3>. QED  BY <1>5, <3>1, <3>2
    <2>. QED  BY <1>1, <1>3, <2>1, <2>2, <2>3, <2>4 DEF OnTheWay
  <1>. QED  BY <1>1, <1>4, <1>5

LEMMA AgreeHandle ==
  ASSUME VisInv, OnTheWay, HandleStreamRingEvent
  PROVE  OnTheWay'
  <1>1. /\ UNCHANGED <<stream_active, config, net, main>>
        /\ main = "loop" /\ events # <<>> /\ events' = Tail(events)
        /\ told' = ToldBy(events[1])
        /\ config_slot' = (IF events[1] = "START" THEN 0 ELSE config_slot)
    BY EventTail DEF HandleStreamRingEvent, netVars, VisInv
  <1>2. /\ Len(events) \in Nat /\ Len(events') = Len(events) - 1
        /\ 1 \in 1..Len(events) /\ events[1] \in {"START", "CLEAR", "END"}
        /\ \A i \in 1..Len(events') : i + 1 \in 1..Len(events) /\ events'[i] = events[i + 1]
        /\ \A i \in 1..Len(events) : i # 1 => i - 1 \in 1..Len(events') /\ events'[i - 1] = events[i]
    BY <1>1, EventTail DEF VisInv
  <1>3. \A i \in 1..Len(events') : LastSwitch(i)' => LastSwitch(i + 1)
    <2>1. SUFFICES ASSUME NEW i \in 1..Len(events'), LastSwitch(i)',
                          NEW j \in 1..Len(events), i + 1 < j, Switches(events[j])
                   PROVE  FALSE
      BY <1>2 DEF LastSwitch
    <2>2. j - 1 \in 1..Len(events') /\ events'[j - 1] = events[j] /\ i < j - 1
      BY <1>2, <2>1
    <2>. QED  BY <2>1, <2>2 DEF LastSwitch
  <1>4. Settled' => Settled \/ LastSwitch(1)
    <2>1. SUFFICES ASSUME Settled'
                   PROVE  \A j \in 1..Len(events) : 1 < j => ~Switches(events[j])
      BY <1>2 DEF Settled, LastSwitch
    <2>. QED  BY <1>2, <2>1 DEF Settled
  <1>5. CASE events[1] = "START"
    <2>1. config_slot # 0 /\ told' = config_slot /\ config_slot' = 0
      BY <1>1, <1>2, <1>5 DEF OnTheWay, ToldBy
    <2>2. \A i \in 1..Len(events') : events'[i] # "START"
      <3>1. SUFFICES ASSUME NEW i \in 1..Len(events'), events[i + 1] = "START"
                     PROVE  FALSE
        BY <1>2
      <3>2. i + 1 = 1
        BY <1>2, <1>5, <3>1 DEF OnTheWay
      <3>. QED  BY <3>2, <1>2
    <2>3. ~Switches(net.event) /\ Settled' => told' = (IF stream_active THEN config ELSE 0)
      <3>1. SUFFICES ASSUME ~Switches(net.event), Settled'
                     PROVE  told' = (IF stream_active THEN config ELSE 0)
        OBVIOUS
      <3>2. LastSwitch(1) /\ net.event # "START"
        BY <1>2, <1>4, <1>5, <3>1 DEF Settled, Switches
      <3>. QED  BY <1>2, <1>5, <2>1, <3>1, <3>2 DEF OnTheWay
    <2>4. ~(net.pc = "event" /\ net.event = "START")
      BY <1>2, <1>5 DEF OnTheWay
    <2>. QED  BY <1>1, <1>2, <1>3, <2>2, <2>3, <2>4 DEF OnTheWay
  <1>6. CASE events[1] # "START"
    <2>1. config_slot' = config_slot /\ told' = (IF events[1] = "END" THEN 0 ELSE told)
      BY <1>1, <1>6 DEF ToldBy
    <2>2. \A i \in 1..Len(events') : events'[i] = "START" =>
             /\ config_slot # 0
             /\ net.event # "START" => config_slot = config
             /\ \A j \in 1..Len(events') : events'[j] = "START" => i = j
      <3>1. SUFFICES ASSUME NEW i \in 1..Len(events'), events[i + 1] = "START"
                     PROVE  /\ config_slot # 0
                            /\ net.event # "START" => config_slot = config
                            /\ \A j \in 1..Len(events') : events[j + 1] = "START" => i = j
        BY <1>2
      <3>2. \A j \in 1..Len(events') : events[j + 1] = "START" => i + 1 = j + 1
        BY <1>2, <3>1 DEF OnTheWay
      <3>. QED  BY <1>2, <3>1, <3>2 DEF OnTheWay
    <2>3. ~Switches(net.event) /\ Settled' => told' = (IF stream_active THEN config ELSE 0)
      <3>1. SUFFICES ASSUME ~Switches(net.event), Settled'
                     PROVE  told' = (IF stream_active THEN config ELSE 0)
        OBVIOUS
      <3>2. CASE events[1] = "END"
        <4>1. LastSwitch(1)
          BY <1>2, <1>4, <3>1, <3>2 DEF Settled, Switches
        <4>2. stream_active = FALSE
          BY <1>2, <3>1, <3>2, <4>1 DEF OnTheWay
        <4>. QED  BY <2>1, <3>2, <4>2
      <3>3. CASE events[1] = "CLEAR"
        <4>1. Settled
          BY <1>4, <3>1, <3>3 DEF LastSwitch, Switches
        <4>. QED  BY <1>1, <2>1, <3>1, <3>3, <4>1 DEF OnTheWay
      <3>. QED  BY <1>2, <1>6, <3>2, <3>3
    <2>4. net.pc = "event" /\ net.event = "START" => \A i \in 1..Len(events') : events'[i] # "START"
      BY <1>2 DEF OnTheWay
    <2>. QED  BY <1>1, <1>2, <1>3, <2>1, <2>2, <2>3, <2>4 DEF OnTheWay
  <1>. QED  BY <1>5, <1>6

LEMMA AgreeCleanup ==
  ASSUME VisInv, OnTheWay, Cleanup \/ CleanupEnd, "overtaken" \notin cases'
  PROVE  OnTheWay'
  <1>1. net' = net /\ net.pc = "idle" /\ net.event = "none" /\ config' = config
    BY DEF Cleanup, CleanupEnd, Boundary, VisInv, NetOK, netVars
  <1>2. CASE Cleanup
    <2>1. main' = "cleanup" /\ stream_active' = FALSE /\ events' = <<>>
      BY <1>2 DEF Cleanup
    <2>2. \A i \in 1..Len(events') : FALSE
      BY <2>1, NoEntries
    <2>. QED  BY <1>1, <2>1, <2>2 DEF OnTheWay
  <1>3. CASE CleanupEnd
    <2>1. /\ main' = "loop" /\ stream_active' = stream_active /\ ~stream_active
          /\ events' = <<"END">> /\ config_slot' = 0
      BY <1>3 DEF CleanupEnd, OnTheWay, netVars
    <2>2. /\ \A i \in 1..Len(events') : events'[i] = "END"
          /\ 1 \in 1..Len(events')
      BY <2>1
    <2>3. ~Settled'
      BY <2>2 DEF Settled, Switches
    <2>4. stream_active' = FALSE
      BY <2>1 DEF VisInv, TypeOK
    <2>5. \A i \in 1..Len(events') : events'[i] # "START"
      BY <2>2
    <2>. QED  BY <1>1, <2>1, <2>3, <2>4, <2>5 DEF OnTheWay
  <1>. QED  BY <1>2, <1>3

LEMMA AgreeStep ==
  ASSUME VisInv, AgreeInv, [Next]_vars
  PROVE  AgreeInv'
  <1>1. SUFFICES ASSUME cases' \intersect {"unread", "overtaken"} = {}
                 PROVE  OnTheWay'
    BY DEF AgreeInv
  <1>2. OnTheWay /\ "unread" \notin cases' /\ "overtaken" \notin cases'
    BY <1>1, CasesGrow DEF AgreeInv
  <1>3. CASE UNCHANGED vars \/ DrainStep
    <2>1. UNCHANGED <<stream_active, config, main, config_slot, events, told, net>>
      BY <1>3 DEF DrainStep, Check, Flush, Discard, ReceiveEntry, ReceiveTimeOut, DropEntry,
                  Interrupted, Deliver, netVars, mainVars, vars
    <2>. QED  BY <1>2, <2>1, AgreeAside
  <1>4. CASE AdmitFrame \/ StreamStart \/ StreamClear \/ StreamEnd \/ NetStep
    BY <1>2, <1>4, AgreeAside, AgreeReceive, AgreeWrite, AgreeEnqueue DEF NetStep
  <1>5. CASE MainStep \/ Cleanup \/ Stop
    BY <1>2, <1>5, AgreeAside, AgreeHandle, AgreeCleanup DEF MainStep
  <1>. QED  BY <1>3, <1>4, <1>5, VisSteps

LEMMA AgreeInit == Init => AgreeInv
  <1>. SUFFICES ASSUME Init
               PROVE  OnTheWay
    BY DEF AgreeInv
  <1>1. /\ events = <<>> /\ main = "loop" /\ told = 0 /\ stream_active = FALSE
        /\ net.pc = "idle" /\ net.event = "none"
    BY DEF Init
  <1>2. \A i \in 1..Len(events) : FALSE
    BY <1>1, NoEntries
  <1>. QED  BY <1>1, <1>2 DEF OnTheWay

(* When all events are handled, the listener of the visualizer knows of the   *)
(* config in force, or of none if no stream is active, unless a start came    *)
(* before the last was read, or a handler of the dead connection ran into     *)
(* cleanup(): visualizer_role.cpp:277-281.                                    *)
THEOREM VisualizerListenerAgrees == Spec => []ListenerAgrees
  <1>1. VisInv /\ AgreeInv => ListenerAgrees
    <2>1. SUFFICES ASSUME VisInv, OnTheWay, Quiet
                   PROVE  told = (IF stream_active THEN config ELSE 0)
      BY DEF AgreeInv, ListenerAgrees
    <2>2. ~Switches(net.event) /\ main # "cleanup"
      BY <2>1 DEF Quiet, VisInv, NetOK, Switches
    <2>3. Settled
      BY <2>1, NoEntries DEF Quiet, Settled
    <2>. QED  BY <2>1, <2>2, <2>3 DEF OnTheWay
  <1>2. VisInv /\ AgreeInv /\ [Next]_vars => VisInv' /\ AgreeInv'
    BY VisNextInv, AgreeStep
  <1>. QED  BY <1>1, <1>2, VisInitInv, AgreeInit, PTL DEF Spec

-----------------------------------------------------------------------------
(* A frame sent before the last boundary.                                     *)
Old(entry) == entry.kind = "frame" /\ entry.of < boundary

(* An old frame in the ring is going to be flushed, or to be discarded: there *)
(* is no marker before it.  Once one was delivered, the drain thread has no   *)
(* other in hand, and will take none before it has looked for commands.       *)
OldIsCutOff ==
    /\ \A i \in 1..Len(ring) : Old(ring[i]) =>
          \/ "FLUSH" \in flags \/ drain.pc \in {"flush", "done"}
          \/ /\ "CLEAR" \in flags \/ drain.pc = "discard"
             /\ \A j \in 1..Len(ring) : j < i => ring[j] # Marker
    /\ late > 0 =>
          /\ ~Old(drain.item)
          /\ drain.pc = "receive" => \A i \in 1..Len(ring) : ~Old(ring[i])
    /\ late <= 1

HonourInv == "overlap" \notin cases => OldIsCutOff

LEMMA OldFacts ==
  /\ ~Old(Marker) /\ ~Old(Nothing)
  /\ boundary \in Nat => ~Old(Frame(boundary))
  BY DEF Old, Marker, Nothing, Frame

(* The steps of the network thread and of the main loop: what they append is  *)
(* not old, and a new boundary comes with its command.                        *)
LEMMA HonourAside ==
  ASSUME VisInv, OldIsCutOff, UNCHANGED <<ring, drain, boundary, late>>, flags \subseteq flags'
  PROVE  OldIsCutOff'
  BY DEF OldIsCutOff, Old

LEMMA HonourAppend ==
  ASSUME VisInv, OldIsCutOff, Room, UNCHANGED <<drain, flags, boundary, late>>,
         NEW e \in Entries, ~Old(e), ring' = Append(ring, e)
  PROVE  OldIsCutOff'
  <1>1. /\ Len(ring) \in Nat /\ Len(ring') = Len(ring) + 1
        /\ \A i \in 1..Len(ring) : i \in 1..Len(ring') /\ ring'[i] = ring[i]
        /\ ring'[Len(ring) + 1] = e
        /\ \A i \in 1..Len(ring') : i \in 1..Len(ring) \/ i = Len(ring) + 1
    BY RingAppend DEF VisInv
  <1>2. \A i \in 1..Len(ring') : Old(ring[i])' =>
           /\ i \in 1..Len(ring) /\ Old(ring[i])
           /\ \A j \in 1..Len(ring') : j < i => j \in 1..Len(ring) /\ ring'[j] = ring[j]
    BY <1>1 DEF Old
  <1>3. \A i \in 1..Len(ring') : Old(ring[i])' =>
           \/ "FLUSH" \in flags \/ drain.pc \in {"flush", "done"}
           \/ /\ "CLEAR" \in flags \/ drain.pc = "discard"
              /\ \A j \in 1..Len(ring') : j < i => ring'[j] # Marker
    BY <1>2 DEF OldIsCutOff
  <1>4. late > 0 =>
           /\ ~Old(drain.item)
           /\ drain.pc = "receive" => \A i \in 1..Len(ring') : ~Old(ring[i])'
    BY <1>2 DEF OldIsCutOff
  <1>5. late <= 1
    BY DEF OldIsCutOff
  <1>. QED  BY <1>3, <1>4, <1>5 DEF OldIsCutOff, Old

LEMMA HonourBoundary ==
  ASSUME VisInv, UNCHANGED <<ring, drain>>, late' = 0,
         "FLUSH" \in flags' \/ ("CLEAR" \in flags' /\ \A i \in 1..Len(ring) : ring[i] # Marker)
  PROVE  OldIsCutOff'
  BY DEF OldIsCutOff

(* The steps of the drain thread.                                             *)
LEMMA HonourTake ==
  ASSUME VisInv, OldIsCutOff, Check \/ Interrupted
  PROVE  OldIsCutOff'
  <1>1. /\ drain'.item = Nothing /\ drain'.pc = Obey(flags)
        /\ drain.pc \in {"check", "item"}
        /\ UNCHANGED <<ring, boundary, late>>
    BY DEF Check, Interrupted, VisInv, TypeOK, DrainOK, history
  <1>2. \A i \in 1..Len(ring) : Old(ring[i]) =>
          \/ Obey(flags) \in {"flush", "done"}
          \/ /\ Obey(flags) = "discard"
             /\ \A j \in 1..Len(ring) : j < i => ring[j] # Marker
    BY <1>1 DEF OldIsCutOff, Obey
  <1>3. Obey(flags) = "receive" => \A i \in 1..Len(ring) : ~Old(ring[i])
    BY <1>2
  <1>. QED  BY <1>1, <1>2, <1>3, OldFacts DEF OldIsCutOff, Old

LEMMA HonourPop ==
  ASSUME VisInv, OldIsCutOff, Flush \/ Discard, ring # <<>>
  PROVE  OldIsCutOff'
  <1>1. /\ ring' = Tail(ring) /\ UNCHANGED <<flags, boundary, late>>
        /\ drain.item = Nothing /\ drain'.item = Nothing
        /\ \/ drain' = drain /\ (drain.pc = "flush" \/ ring[1] # Marker)
           \/ drain.pc = "discard" /\ drain'.pc = "check" /\ ring[1] = Marker
        /\ drain.pc \in {"flush", "discard"}
    BY RingTail DEF Flush, Discard, IsMarker, VisInv, TypeOK, DrainOK
  <1>2. /\ Len(ring) \in Nat /\ Len(ring') = Len(ring) - 1 /\ 1 \in 1..Len(ring)
        /\ \A i \in 1..Len(ring') : i + 1 \in 1..Len(ring) /\ ring'[i] = ring[i + 1]
    BY <1>1, RingTail DEF VisInv
  <1>3. \A i \in 1..Len(ring') : Old(ring[i])' =>
          \/ "FLUSH" \in flags' \/ drain'.pc \in {"flush", "done"}
          \/ /\ "CLEAR" \in flags' \/ drain'.pc = "discard"
             /\ \A j \in 1..Len(ring') : j < i => ring'[j] # Marker
    <2>1. SUFFICES ASSUME NEW i \in 1..Len(ring'), Old(ring[i])',
                          ~("FLUSH" \in flags), drain'.pc # "flush"
                   PROVE  /\ "CLEAR" \in flags' \/ drain'.pc = "discard"
                          /\ \A j \in 1..Len(ring') : j < i => ring'[j] # Marker
      BY <1>1
    <2>2. i + 1 \in 1..Len(ring) /\ Old(ring[i + 1]) /\ 1 < i + 1
      BY <1>1, <1>2, <2>1 DEF Old
    <2>3. drain.pc \notin {"flush", "done"}
      BY <1>1, <2>1
    <2>4. \A j \in 1..Len(ring) : j < i + 1 => ring[j] # Marker
      BY <2>1, <2>2, <2>3 DEF OldIsCutOff
    <2>5. ring[1] # Marker
      BY <1>2, <2>2, <2>4
    <2>6. drain' = drain /\ ("CLEAR" \in flags \/ drain.pc = "discard")
      BY <1>1, <2>1, <2>2, <2>3, <2>5 DEF OldIsCutOff
    <2>7. \A j \in 1..Len(ring') : j < i => ring'[j] # Marker
      BY <1>2, <2>4
    <2>. QED  BY <1>1, <2>6, <2>7
  <1>4. drain'.pc # "receive" /\ ~Old(drain.item)' /\ late' <= 1
    BY <1>1 DEF OldIsCutOff, Old, Nothing
  <1>. QED  BY <1>3, <1>4 DEF OldIsCutOff

LEMMA HonourEmpty ==
  ASSUME VisInv, OldIsCutOff, Flush \/ Discard \/ ReceiveTimeOut, ring = <<>>
  PROVE  OldIsCutOff'
  <1>1. /\ UNCHANGED <<ring, boundary, late>> /\ \A i \in 1..Len(ring') : FALSE
        /\ drain'.item = Nothing
    BY NoEntries DEF Flush, Discard, ReceiveTimeOut, VisInv, TypeOK, DrainOK, history
  <1>. QED  BY <1>1, OldFacts DEF OldIsCutOff, Old

LEMMA HonourReceive ==
  ASSUME VisInv, OldIsCutOff, ReceiveEntry
  PROVE  OldIsCutOff'
  <1>1. /\ ring # <<>> /\ ring' = Tail(ring) /\ UNCHANGED <<flags, boundary, late>>
        /\ drain.pc = "receive" /\ drain'.pc = "item" /\ drain'.item = ring[1]
    BY RingTail DEF ReceiveEntry, VisInv, TypeOK, history
  <1>2. /\ Len(ring) \in Nat /\ Len(ring') = Len(ring) - 1 /\ 1 \in 1..Len(ring)
        /\ \A i \in 1..Len(ring') : i + 1 \in 1..Len(ring) /\ ring'[i] = ring[i + 1]
    BY <1>1, RingTail DEF VisInv
  <1>3. \A i \in 1..Len(ring') : Old(ring[i])' =>
          \/ "FLUSH" \in flags'
          \/ "CLEAR" \in flags' /\ \A j \in 1..Len(ring') : j < i => ring'[j] # Marker
    <2>1. SUFFICES ASSUME NEW i \in 1..Len(ring'), Old(ring[i + 1]), "FLUSH" \notin flags
                   PROVE  "CLEAR" \in flags /\ \A j \in 1..Len(ring') : j < i => ring'[j] # Marker
      BY <1>1, <1>2 DEF Old
    <2>2. "CLEAR" \in flags /\ \A j \in 1..Len(ring) : j < i + 1 => ring[j] # Marker
      BY <1>1, <1>2, <2>1 DEF OldIsCutOff
    <2>. QED  BY <1>2, <2>2
  <1>4. late > 0 => ~Old(ring[1])
    BY <1>1, <1>2 DEF OldIsCutOff
  <1>. QED  BY <1>1, <1>3, <1>4 DEF OldIsCutOff, Old

LEMMA HonourGiveBack ==
  ASSUME VisInv, OldIsCutOff, DropEntry \/ Deliver
  PROVE  OldIsCutOff'
  <1>1. /\ UNCHANGED <<ring, flags, boundary>> /\ drain.pc = "item"
        /\ drain'.pc = "check" /\ drain'.item = Nothing
    BY DEF DropEntry, Deliver, Back, VisInv, TypeOK
  <1>2. late' <= 1
    <2>1. CASE DropEntry
      BY <2>1 DEF DropEntry, OldIsCutOff
    <2>2. CASE Deliver
      <3>1. drain.item \in Entries /\ drain.item # Marker
        BY <2>2 DEF Deliver, VisInv, TypeOK, DrainOK
      <3>2. Old(drain.item) <=> drain.item.of < boundary
        BY <3>1, EntryFacts DEF Old, Frame
      <3>3. late \in Nat
        BY DEF VisInv, TypeOK
      <3>. QED  BY <2>2, <3>2, <3>3 DEF Deliver, OldIsCutOff
    <2>. QED  BY <2>1, <2>2
  <1>. QED  BY <1>1, <1>2, OldFacts DEF OldIsCutOff, Old

LEMMA HonourStep ==
  ASSUME VisInv, HonourInv, [Next]_vars
  PROVE  HonourInv'
  <1>1. SUFFICES ASSUME "overlap" \notin cases'
                 PROVE  OldIsCutOff'
    BY DEF HonourInv
  <1>2. OldIsCutOff
    BY <1>1, CasesGrow DEF HonourInv
  <1>3. CASE \/ UNCHANGED vars \/ AdmitFrame \/ StreamStart \/ StreamClear \/ StreamEnd \/ GiveUpMarker
             \/ WriteConfig \/ EnqueueStreamEvent \/ MainStep \/ Stop
    <2>1. UNCHANGED <<ring, drain, boundary, late>> /\ flags \subseteq flags'
      BY <1>3 DEF vars, history, AdmitFrame, StreamStart, StreamClear, StreamEnd, Receive,
                  GiveUpMarker, WriteConfig, EnqueueStreamEvent, MainStep,
                  HandleStreamRingEvent, CleanupEnd, Stop
    <2>. QED  BY <1>2, <2>1, HonourAside
  <1>4. CASE CommitFrame
    <2>1. CASE Room
      BY <1>2, <1>4, <2>1, HonourAppend, OldFacts, EntryFacts DEF CommitFrame, history, VisInv, TypeOK
    <2>2. CASE ~Room
      BY <1>2, <1>4, <2>2, HonourAside DEF CommitFrame, history
    <2>. QED  BY <2>1, <2>2
  <1>5. CASE EnqueueMarker
    BY <1>2, <1>5, HonourAppend, OldFacts, EntryFacts DEF EnqueueMarker, history
  <1>6. CASE SignalClear \/ FlushForEnd \/ Cleanup
    BY <1>1, <1>6, HonourBoundary DEF SignalClear, FlushForEnd, Cleanup, Boundary, Overlaps
  <1>7. CASE DrainStep
    BY <1>2, <1>7, HonourTake, HonourPop, HonourEmpty, HonourReceive, HonourGiveBack
       DEF DrainStep, ReceiveTimeOut
  <1>. QED  BY <1>3, <1>4, <1>5, <1>6, <1>7, VisSteps DEF NetStep

LEMMA HonourInit == Init => HonourInv
  <1>. SUFFICES ASSUME Init
               PROVE  OldIsCutOff
    BY DEF HonourInv
  <1>. QED  BY NoEntries DEF Init, OldIsCutOff

(* At most one frame is delivered behind a boundary that it was sent before:  *)
(* BoundaryHonoured.                                                          *)
LEMMA HonourHolds ==
  ASSUME HonourInv
  PROVE  BoundaryHonoured
  BY DEF HonourInv, OldIsCutOff, BoundaryHonoured

-----------------------------------------------------------------------------
(* No frame that was sent behind the last boundary is in hand or in the ring; *)
(* none can come before the next boundary either; or all are behind a marker. *)
NoneNew == drain.item # Frame(boundary) /\ \A i \in 1..Len(ring) : ring[i] # Frame(boundary)
Closed == NoneNew /\ (~stream_active \/ net.pc = "clear")
NewBehindMarker ==
    \E j \in 1..Len(ring) :
        /\ ring[j] = Marker
        /\ \A i \in 1..Len(ring) : i <= j => ring[i] # Frame(boundary)

(* While a flush is pending or under way no frame can come; while a discard   *)
(* is, the frames that came are behind a marker, or the marker comes before   *)
(* them.  A marker that the drain thread has taken with the command pending   *)
(* is the hazard "blind" in the making.                                       *)
Pending == flags \union drain.cmd
NewIsKept ==
    /\ lost = {}
    /\ net.pc = "frame" => stream_active
    /\ net.pc = "end" => ~stream_active
    /\ main = "cleanup" => ~stream_active /\ net.pc = "idle"
    /\ drain.cmd # {} => "CLEAR" \notin flags
    /\ "FLUSH" \in Pending => Closed
    /\ "CLEAR" \in Pending =>
          /\ drain.item # Frame(boundary)
          /\ \/ drain.item = Marker \/ NewBehindMarker \/ Closed
             \/ net.pc = "marker" /\ NoneNew

SurviveInv == cases \intersect {"blind", "overtaken"} = {} => NewIsKept

(* The steps of the network thread and of the main loop that leave the ring   *)
(* and the boundary alone.                                                    *)
LEMMA KeptAside ==
  ASSUME VisInv, NewIsKept, UNCHANGED <<ring, drain, boundary, lost>>,
         flags \subseteq flags', flags' \subseteq flags \union {"STOP"}, net.pc = "marker" => net' = net,
         Closed => ~stream_active' \/ net'.pc = "clear",
         net'.pc = "frame" => stream_active', net'.pc = "end" => ~stream_active',
         main' = "cleanup" => ~stream_active' /\ net'.pc = "idle"
  PROVE  NewIsKept'
  <1>1. /\ "FLUSH" \in Pending' <=> "FLUSH" \in Pending
        /\ "CLEAR" \in Pending' <=> "CLEAR" \in Pending
        /\ "CLEAR" \in flags' <=> "CLEAR" \in flags
    BY DEF Pending
  <1>2. /\ NoneNew' <=> NoneNew
        /\ NewBehindMarker' <=> NewBehindMarker
    BY DEF NoneNew, NewBehindMarker
  <1>3. Closed => Closed'
    BY <1>2 DEF Closed
  <1>. QED  BY <1>1, <1>2, <1>3 DEF NewIsKept

(* An entry goes behind the others.                                           *)
LEMMA KeptAppend ==
  ASSUME VisInv, Room, NEW e \in Entries, ring' = Append(ring, e), UNCHANGED <<drain, boundary>>
  PROVE  /\ NewBehindMarker => NewBehindMarker'
         /\ NoneNew /\ e # Frame(boundary) => NoneNew'
         /\ NoneNew /\ e = Marker => NewBehindMarker'
  <1>1. /\ Len(ring) \in Nat /\ Len(ring') = Len(ring) + 1
        /\ \A i \in 1..Len(ring) : i \in 1..Len(ring') /\ ring'[i] = ring[i]
        /\ ring'[Len(ring) + 1] = e /\ Len(ring) + 1 \in 1..Len(ring')
        /\ \A i \in 1..Len(ring') : i \in 1..Len(ring) \/ i = Len(ring) + 1
    BY RingAppend DEF VisInv
  <1>2. NewBehindMarker => NewBehindMarker'
    <2>1. SUFFICES ASSUME NEW j \in 1..Len(ring), ring[j] = Marker,
                          \A i \in 1..Len(ring) : i <= j => ring[i] # Frame(boundary)
                   PROVE  NewBehindMarker'
      BY DEF NewBehindMarker
    <2>2. j \in 1..Len(ring') /\ ring'[j] = Marker
      BY <1>1, <2>1
    <2>3. \A i \in 1..Len(ring') : i <= j => ring'[i] # Frame(boundary)
      BY <1>1, <2>1
    <2>. QED  BY <2>2, <2>3 DEF NewBehindMarker
  <1>3. NoneNew /\ e # Frame(boundary) => NoneNew'
    BY <1>1 DEF NoneNew
  <1>4. NoneNew /\ e = Marker => NewBehindMarker'
    <2>1. SUFFICES ASSUME NoneNew, e = Marker
                   PROVE  \A i \in 1..Len(ring') : ring'[i] # Frame(boundary)
      BY <1>1 DEF NewBehindMarker
    <2>. QED  BY <1>1, <2>1, EntryFacts DEF NoneNew
  <1>. QED  BY <1>2, <1>3, <1>4

LEMMA KeptCommit ==
  ASSUME VisInv, NewIsKept, CommitFrame
  PROVE  NewIsKept'
  <1>1. /\ net.pc = "frame" /\ net'.pc = "idle" /\ stream_active /\ stream_active' /\ ~Closed
        /\ UNCHANGED <<drain, flags, boundary, lost, main>> /\ Pending' = Pending
        /\ main # "cleanup"
    BY DEF CommitFrame, history, mainVars, Pending, NewIsKept, Closed, VisInv, TypeOK
  <1>2. "FLUSH" \notin Pending /\ ("CLEAR" \in Pending => drain.item = Marker \/ NewBehindMarker)
    BY <1>1 DEF NewIsKept
  <1>3. NewBehindMarker => NewBehindMarker'
    <2>1. CASE Room
      <3>1. ring' = Append(ring, Frame(boundary)) /\ Frame(boundary) \in Entries
        BY <2>1, EntryFacts DEF CommitFrame, VisInv, TypeOK
      <3>. QED  BY <1>1, <2>1, <3>1, KeptAppend
    <2>2. CASE ~Room
      BY <1>1, <2>2 DEF CommitFrame, NewBehindMarker
    <2>. QED  BY <2>1, <2>2
  <1>. QED  BY <1>1, <1>2, <1>3 DEF NewIsKept

LEMMA KeptMarker ==
  ASSUME VisInv, NewIsKept, EnqueueMarker
  PROVE  NewIsKept'
  <1>1. /\ Room /\ ring' = Append(ring, Marker) /\ Marker \in Entries /\ Marker # Frame(boundary)
        /\ net.pc = "marker" /\ net'.pc \in {"config", "event"}
        /\ UNCHANGED <<drain, flags, boundary, lost, main, stream_active>> /\ Pending' = Pending
    BY EntryFacts DEF EnqueueMarker, AfterMarker, history, mainVars, Pending, VisInv, TypeOK
  <1>2. /\ NewBehindMarker => NewBehindMarker'
        /\ NoneNew => NoneNew' /\ NewBehindMarker'
    BY <1>1, KeptAppend
  <1>3. Closed => Closed'
    BY <1>1, <1>2 DEF Closed
  <1>. QED  BY <1>1, <1>2, <1>3 DEF NewIsKept

(* Nothing is new behind a boundary that just begins.                         *)
LEMMA KeptBoundary ==
  ASSUME VisInv, UNCHANGED <<ring, drain>>, boundary' = boundary + 1
  PROVE  NoneNew'
  <1>1. boundary \in Nat /\ Frame(boundary + 1).of = boundary + 1
    BY EntryFacts DEF VisInv, TypeOK
  <1>2. /\ drain.item.of <= boundary /\ \A i \in 1..Len(ring) : ring[i].of <= boundary
        /\ drain.item.of \in Nat /\ \A i \in 1..Len(ring) : ring[i].of \in Nat
    BY EntryFacts DEF VisInv, NumberOK, TypeOK
  <1>3. \A e : e.of \in Nat /\ e.of <= boundary => e # Frame(boundary + 1)
    BY <1>1
  <1>. QED  BY <1>2, <1>3 DEF NoneNew

LEMMA KeptSignal ==
  ASSUME VisInv, NewIsKept, SignalClear, "blind" \notin cases'
  PROVE  NewIsKept'
  <1>1. /\ "FLUSH" \notin flags /\ drain.cmd = {} /\ flags' = flags \union {"CLEAR"}
        /\ net.pc = "clear" /\ net'.pc = "marker" /\ boundary' = boundary + 1
        /\ UNCHANGED <<stream_active, ring, drain, lost, main>>
    BY DEF SignalClear, Boundary, Busy, mainVars, VisInv, TypeOK
  <1>2. NoneNew'
    BY <1>1, KeptBoundary
  <1>3. "FLUSH" \notin Pending' /\ drain'.item # Frame(boundary') /\ drain'.cmd = {}
    BY <1>1, <1>2 DEF Pending, NoneNew
  <1>. QED  BY <1>1, <1>2, <1>3 DEF NewIsKept

LEMMA KeptFlush ==
  ASSUME VisInv, NewIsKept, FlushForEnd \/ Cleanup, "overtaken" \notin cases'
  PROVE  NewIsKept'
  <1>1. /\ flags' = flags \union {"FLUSH"} /\ boundary' = boundary + 1
        /\ net'.pc \in {"idle", "event"} /\ ~stream_active'
        /\ main' = "cleanup" => net'.pc = "idle"
        /\ UNCHANGED <<ring, drain, lost>>
    BY DEF FlushForEnd, Cleanup, Boundary, mainVars, netVars, NewIsKept, VisInv, TypeOK
  <1>2. NoneNew' /\ Closed'
    BY <1>1, KeptBoundary DEF Closed
  <1>3. drain'.item # Frame(boundary') /\ ("CLEAR" \in flags' <=> "CLEAR" \in flags)
    BY <1>1, <1>2 DEF NoneNew
  <1>. QED  BY <1>1, <1>2, <1>3 DEF NewIsKept

(* The drain thread takes its commands: what is pending is pending still.     *)
LEMMA KeptTake ==
  ASSUME VisInv, NewIsKept, Check \/ Interrupted
  PROVE  NewIsKept'
  <1>1. /\ drain.cmd = {} /\ drain'.cmd = flags /\ flags' = {} /\ drain'.item = Nothing
        /\ drain.item # Marker /\ UNCHANGED <<net, stream_active, main, ring, boundary>>
    BY EntryFacts DEF Check, Interrupted, VisInv, TypeOK, DrainOK, history, netVars, mainVars
  <1>2. Pending' = Pending
    BY <1>1 DEF Pending
  <1>3. Nothing # Frame(boundary)
    BY EntryFacts
  <1>4. /\ NoneNew => NoneNew'
        /\ NewBehindMarker => NewBehindMarker'
    BY <1>1, <1>3 DEF NoneNew, NewBehindMarker
  <1>5. Closed => Closed'
    BY <1>1, <1>4 DEF Closed
  <1>6. lost' = lost
    <2>1. CASE Check
      BY <2>1 DEF Check, history
    <2>2. CASE Interrupted
      <3>1. CASE flags = {"STOP"}
        BY <2>2, <3>1 DEF Interrupted
      <3>2. CASE flags # {"STOP"}
        <4>1. "FLUSH" \in Pending \/ "CLEAR" \in Pending
          BY <2>2, <3>2 DEF Interrupted, Pending, VisInv, TypeOK, Commands
        <4>2. drain.item # Frame(boundary)
          BY <4>1 DEF NewIsKept, Closed, NoneNew
        <4>. QED  BY <2>2, <3>2, <4>2 DEF Interrupted, Discarded
      <3>. QED  BY <3>1, <3>2
    <2>. QED  BY <2>1, <2>2
  <1>. QED  BY <1>1, <1>2, <1>3, <1>4, <1>5, <1>6 DEF NewIsKept

(* The oldest entry goes: what is left is the same.                           *)
LEMMA KeptTail ==
  ASSUME VisInv, ring # <<>>, ring' = Tail(ring), boundary' = boundary,
         NoneNew \/ NewBehindMarker
  PROVE  /\ ring[1] # Frame(boundary)
         /\ NoneNew => \A i \in 1..Len(ring') : ring'[i] # Frame(boundary)
         /\ NewBehindMarker => ring[1] = Marker \/ NewBehindMarker'
  <1>1. /\ Len(ring) \in Nat /\ Len(ring') = Len(ring) - 1 /\ 1 \in 1..Len(ring)
        /\ \A i \in 1..Len(ring') : i + 1 \in 1..Len(ring) /\ ring'[i] = ring[i + 1]
        /\ \A i \in 1..Len(ring) : i # 1 => i - 1 \in 1..Len(ring') /\ ring'[i - 1] = ring[i]
    BY RingTail DEF VisInv
  <1>2. ring[1] # Frame(boundary)
    BY <1>1 DEF NoneNew, NewBehindMarker
  <1>3. NoneNew => \A i \in 1..Len(ring') : ring'[i] # Frame(boundary)
    BY <1>1 DEF NoneNew
  <1>4. NewBehindMarker => ring[1] = Marker \/ NewBehindMarker'
    <2>1. SUFFICES ASSUME NEW j \in 1..Len(ring), ring[j] = Marker, ring[1] # Marker,
                          \A i \in 1..Len(ring) : i <= j => ring[i] # Frame(boundary)
                   PROVE  NewBehindMarker'
      BY DEF NewBehindMarker
    <2>2. j # 1
      BY <2>1
    <2>3. j - 1 \in 1..Len(ring') /\ ring'[j - 1] = Marker
      BY <1>1, <2>1, <2>2
    <2>4. \A i \in 1..Len(ring') : i <= j - 1 => ring'[i] # Frame(boundary)
      BY <1>1, <2>1
    <2>. QED  BY <2>3, <2>4 DEF NewBehindMarker
  <1>. QED  BY <1>2, <1>3, <1>4

LEMMA KeptFlushPop ==
  ASSUME VisInv, NewIsKept, Flush, ring # <<>>
  PROVE  NewIsKept'
  <1>1. /\ ring' = Tail(ring) /\ Discarded(ring[1], "flush")
        /\ UNCHANGED <<drain, flags, boundary, net, stream_active, main>> /\ Pending' = Pending
        /\ "FLUSH" \in Pending
    BY RingTail DEF Flush, netVars, mainVars, Pending, VisInv, TypeOK, DrainOK
  <1>2. Closed /\ NoneNew
    BY <1>1 DEF NewIsKept, Closed
  <1>3. lost' = {} /\ NoneNew'
    BY <1>1, <1>2, KeptTail DEF Discarded, NewIsKept, NoneNew
  <1>4. Closed' /\ drain'.item # Frame(boundary)'
    BY <1>1, <1>2, <1>3 DEF Closed, NoneNew
  <1>. QED  BY <1>1, <1>3, <1>4 DEF NewIsKept

LEMMA KeptDiscardPop ==
  ASSUME VisInv, NewIsKept, Discard, ring # <<>>
  PROVE  NewIsKept'
  <1>1. /\ ring' = Tail(ring) /\ Discarded(ring[1], "discard")
        /\ UNCHANGED <<flags, boundary, net, stream_active, main>>
        /\ drain.cmd = {"CLEAR"} /\ drain.item = Nothing /\ drain'.item = Nothing
        /\ drain'.cmd = IF ring[1] = Marker THEN {} ELSE drain.cmd
    BY RingTail DEF Discard, IsMarker, netVars, mainVars, VisInv, TypeOK, DrainOK
  <1>2. /\ "CLEAR" \notin flags /\ drain.item # Marker
        /\ NewBehindMarker \/ Closed \/ (net.pc = "marker" /\ NoneNew)
    BY <1>1, EntryFacts DEF NewIsKept, Pending
  <1>3. /\ ring[1] # Frame(boundary)
        /\ NoneNew => \A i \in 1..Len(ring') : ring'[i] # Frame(boundary)
        /\ NewBehindMarker => ring[1] = Marker \/ NewBehindMarker'
    BY <1>1, <1>2, KeptTail DEF Closed
  <1>4. lost' = {}
    BY <1>1, <1>3 DEF Discarded, NewIsKept
  <1>5. /\ NoneNew => NoneNew'
        /\ Closed => Closed'
    BY <1>1, <1>3 DEF NoneNew, Closed
  <1>6. "FLUSH" \in Pending' => Closed'
    BY <1>1, <1>5 DEF Pending, NewIsKept
  <1>7. CASE ring[1] = Marker
    <2>1. "CLEAR" \notin Pending' /\ drain'.cmd = {}
      BY <1>1, <1>2, <1>7 DEF Pending
    <2>. QED  BY <1>1, <1>4, <1>6, <2>1 DEF NewIsKept
  <1>8. CASE ring[1] # Marker
    <2>1. drain'.item # Frame(boundary)'
      BY <1>1, EntryFacts
    <2>2. NewBehindMarker' \/ Closed' \/ (net'.pc = "marker" /\ NoneNew')
      BY <1>1, <1>2, <1>3, <1>5, <1>8
    <2>3. "CLEAR" \notin flags'
      BY <1>1, <1>2
    <2>. QED  BY <1>1, <1>4, <1>6, <2>1, <2>2, <2>3 DEF NewIsKept
  <1>. QED  BY <1>7, <1>8

LEMMA KeptEmpty ==
  ASSUME VisInv, NewIsKept, Flush \/ Discard \/ ReceiveTimeOut, ring = <<>>
  PROVE  NewIsKept'
  <1>1. /\ UNCHANGED <<ring, flags, boundary, lost, net, stream_active, main>>
        /\ drain'.item = drain.item /\ drain'.cmd \subseteq drain.cmd
    <2>1. drain = [pc |-> drain.pc, item |-> drain.item, cmd |-> drain.cmd]
      BY DEF VisInv, TypeOK
    <2>2. CASE Flush
      <3>1. drain' = [drain EXCEPT !.cmd = @ \ {"FLUSH"},
                                   !.pc = IF "CLEAR" \in drain.cmd THEN "discard" ELSE "check"]
        BY <2>2 DEF Flush
      <3>. QED  BY <2>1, <2>2, <3>1 DEF Flush, netVars, mainVars
    <2>3. CASE Discard
      <3>1. drain' = [drain EXCEPT !.cmd = {}, !.pc = "check"]
        BY <2>3 DEF Discard
      <3>. QED  BY <2>1, <2>3, <3>1 DEF Discard, netVars, mainVars
    <2>4. CASE ReceiveTimeOut
      BY <2>1, <2>4 DEF ReceiveTimeOut, history, netVars, mainVars
    <2>. QED  BY <2>2, <2>3, <2>4
  <1>2. /\ NoneNew => NoneNew'
        /\ Closed => Closed'
        /\ NewBehindMarker => NewBehindMarker'
    BY <1>1 DEF NoneNew, Closed, NewBehindMarker
  <1>3. /\ Pending' \subseteq Pending
        /\ drain'.cmd # {} => drain.cmd # {}
    BY <1>1 DEF Pending
  <1>. QED  BY <1>1, <1>2, <1>3 DEF NewIsKept

LEMMA KeptReceive ==
  ASSUME VisInv, NewIsKept, ReceiveEntry
  PROVE  NewIsKept'
  <1>1. /\ ring # <<>> /\ ring' = Tail(ring)
        /\ UNCHANGED <<flags, boundary, lost, net, stream_active, main>>
        /\ drain.item = Nothing /\ drain'.item = ring[1] /\ drain'.cmd = drain.cmd /\ Pending' = Pending
    BY RingTail DEF ReceiveEntry, history, netVars, mainVars, Pending, VisInv, TypeOK, DrainOK
  <1>2. NoneNew => NoneNew'
    BY <1>1, KeptTail DEF NoneNew
  <1>3. Closed => Closed'
    BY <1>1, <1>2 DEF Closed
  <1>4. "CLEAR" \in Pending =>
           /\ drain'.item # Frame(boundary)'
           /\ \/ drain'.item = Marker \/ NewBehindMarker' \/ Closed'
              \/ net'.pc = "marker" /\ NoneNew'
    <2>1. SUFFICES ASSUME "CLEAR" \in Pending
                   PROVE  /\ ring[1] # Frame(boundary)
                          /\ \/ ring[1] = Marker \/ NewBehindMarker' \/ Closed'
                             \/ net'.pc = "marker" /\ NoneNew'
      BY <1>1
    <2>2. NewBehindMarker \/ Closed \/ (net.pc = "marker" /\ NoneNew)
      BY <1>1, <2>1, EntryFacts DEF NewIsKept
    <2>3. NoneNew \/ NewBehindMarker
      BY <2>2 DEF Closed
    <2>. QED  BY <1>1, <1>2, <1>3, <2>2, <2>3, KeptTail
  <1>. QED  BY <1>1, <1>3, <1>4 DEF NewIsKept

(* Unless it is the marker that a pending command was to find.                *)
LEMMA KeptGiveBack ==
  ASSUME VisInv, NewIsKept, DropEntry \/ Deliver, "blind" \notin cases'
  PROVE  NewIsKept'
  <1>1. /\ UNCHANGED <<ring, flags, boundary, lost, net, stream_active, main>>
        /\ drain.cmd = {} /\ drain'.cmd = {} /\ drain'.item = Nothing /\ Pending' = Pending
    BY DEF DropEntry, Deliver, Back, netVars, mainVars, Pending, VisInv, TypeOK, DrainOK
  <1>2. "CLEAR" \in Pending => drain.item # Marker
    BY <1>1 DEF DropEntry, Deliver, Pending
  <1>3. Nothing # Frame(boundary)
    BY EntryFacts
  <1>4. /\ NoneNew => NoneNew'
        /\ NewBehindMarker => NewBehindMarker'
    BY <1>1, <1>3 DEF NoneNew, NewBehindMarker
  <1>5. Closed => Closed'
    BY <1>1, <1>4 DEF Closed
  <1>. QED  BY <1>1, <1>2, <1>3, <1>4, <1>5 DEF NewIsKept

LEMMA SurviveStep ==
  ASSUME VisInv, SurviveInv, [Next]_vars
  PROVE  SurviveInv'
  <1>1. SUFFICES ASSUME cases' \intersect {"blind", "overtaken"} = {}
                 PROVE  NewIsKept'
    BY DEF SurviveInv
  <1>2. NewIsKept /\ "blind" \notin cases' /\ "overtaken" \notin cases'
    BY <1>1, CasesGrow DEF SurviveInv
  <1>3. CASE UNCHANGED vars \/ HandleStreamRingEvent \/ CleanupEnd \/ Stop
    <2>1. /\ UNCHANGED <<ring, drain, boundary, lost, net, stream_active>>
          /\ flags \subseteq flags' /\ flags' \subseteq flags \union {"STOP"}
          /\ main' = main \/ main' # "cleanup"
      BY <1>3 DEF vars, history, netVars, mainVars, HandleStreamRingEvent, CleanupEnd, Stop
    <2>. QED  BY <1>2, <2>1, KeptAside DEF NewIsKept, Closed
  <1>4. CASE AdmitFrame
    <2>1. /\ UNCHANGED <<ring, drain, boundary, lost, flags, main, stream_active>> /\ stream_active
          /\ net.pc = "idle" /\ net'.pc = "frame"
      BY <1>4 DEF AdmitFrame, Reads, history, mainVars, VisInv, TypeOK
    <2>. QED  BY <1>2, <2>1, KeptAside DEF NewIsKept, Closed
  <1>5. CASE StreamStart \/ StreamClear \/ StreamEnd
    <2>1. /\ UNCHANGED <<ring, drain, boundary, lost, flags, main>>
          /\ main # "cleanup" /\ net.pc = "idle"
          /\ net'.pc = "clear" \/ (net'.pc = "end" /\ ~stream_active')
      BY <1>2, <1>5 DEF StreamStart, StreamClear, StreamEnd, Receive, Reads, mainVars
    <2>. QED  BY <1>2, <2>1, KeptAside
  <1>6. CASE WriteConfig \/ EnqueueStreamEvent
    <2>1. /\ UNCHANGED <<ring, drain, boundary, lost, flags, main, stream_active>>
          /\ net.pc \in {"config", "event"} /\ net'.pc \in {"event", "idle"}
      BY <1>6 DEF WriteConfig, EnqueueStreamEvent, history, mainVars, VisInv, TypeOK
    <2>. QED  BY <1>2, <2>1, KeptAside DEF NewIsKept, Closed
  <1>7. CASE CommitFrame \/ EnqueueMarker \/ SignalClear \/ FlushForEnd \/ Cleanup
    BY <1>2, <1>7, KeptCommit, KeptMarker, KeptSignal, KeptFlush
  <1>8. CASE GiveUpMarker
    BY <1>2, <1>8 DEF GiveUpMarker
  <1>9. CASE DrainStep
    BY <1>2, <1>9, KeptTake, KeptFlushPop, KeptDiscardPop, KeptEmpty, KeptReceive, KeptGiveBack
       DEF DrainStep, ReceiveTimeOut
  <1>. QED  BY <1>3, <1>4, <1>5, <1>6, <1>7, <1>8, <1>9, VisSteps DEF NetStep, MainStep

LEMMA SurviveInit == Init => SurviveInv
  <1>. SUFFICES ASSUME Init
               PROVE  NewIsKept
    BY DEF SurviveInv
  <1>1. lost = {} /\ net.pc = "idle" /\ main = "loop" /\ flags = {} /\ drain.cmd = {}
    BY DEF Init
  <1>. QED  BY <1>1 DEF NewIsKept, Pending

(* A boundary cuts off what was sent before it: at most the one frame that    *)
(* the drain thread holds is delivered behind it, unless its marker met       *)
(* another: visualizer_role.cpp:273-275, 563-564.                             *)
THEOREM VisualizerBoundaryHonoured == Spec => []BoundaryHonoured
  <1>1. VisInv /\ HonourInv /\ [Next]_vars => VisInv' /\ HonourInv'
    BY VisNextInv, HonourStep
  <1>. QED  BY <1>1, VisInitInv, HonourInit, HonourHolds, PTL DEF Spec

(* A boundary cuts off nothing of what was sent behind it, unless its marker  *)
(* was not found or a flush was under way: visualizer_role.cpp:295-299.       *)
THEOREM VisualizerNewSurvive == Spec => []NewSurvive
  <1>1. VisInv /\ SurviveInv /\ [Next]_vars => VisInv' /\ SurviveInv'
    BY VisNextInv, SurviveStep
  <1>2. SurviveInv => NewSurvive
    BY DEF SurviveInv, NewIsKept, NewSurvive
  <1>. QED  BY <1>1, <1>2, VisInitInv, SurviveInit, PTL DEF Spec

(* The two, in a ring that keeps to its room: BoundariesHold.                 *)
THEOREM VisualizerBoundariesHold == Spec => []BoundariesHold
  <1>1. VisInv /\ BoundaryHonoured /\ NewSurvive => BoundariesHold
    BY DEF VisInv, BoundariesHold
  <1>. QED  BY <1>1, VisualizerInvariant, VisualizerBoundaryHonoured, VisualizerNewSurvive, PTL
=============================================================================
