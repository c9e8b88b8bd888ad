--------------------------- MODULE VisualizerRole ---------------------------
(* The visualizer role: its network handlers, its drain thread, the lifecycle *)
(* events and the config slot that the main loop drains, and cleanup().       *)
(*                                                                            *)
(* Frames pass a ring to the drain thread, which delivers each at its time.   *)
(* A start, a clear, an end or the loss of the connection is a boundary:      *)
(* what is older must not be shown any more.  A start and a clear put a       *)
(* marker into the ring and ask the drain thread to discard up to it; an end  *)
(* and a cleanup ask it to empty the ring.  Each handler is several steps,    *)
(* which interleave with the other threads.                                   *)
(*                                                                            *)
(* A frame is the number of the boundary it was sent behind; a config is the  *)
(* number of its start.  History variables: "boundary" counts the boundaries  *)
(* that were asked for, "late" the frames delivered behind the last of them   *)
(* and sent before it, "lost" tells how frames were discarded that were sent  *)
(* behind it, and "cases" names the hazards the history went through.         *)
EXTENDS Naturals, Sequences

CONSTANTS
    RingCap,       \* the entries the ring has room for
    MaxFrames,     \* bounds the frames the server sends
    MaxBoundaries  \* bounds starts, ends, clears and teardowns

ASSUME VisualizerAssumption ==
    RingCap \in Nat \ {0} /\ MaxFrames \in Nat /\ MaxBoundaries \in Nat

VARIABLES
    stream_active,
    config,       \* spectrum_bin_count, tracks_downbeats, negotiated_types_mask
    net,          \* where the network thread is in its handler
    frames,       \* the frames sent so far
    main,         \* where the main loop is in cleanup()
    config_slot,  \* the config in the inbox slot, 0 for none
    events,       \* the VISUALIZER_STREAM events in the inbox ring
    told,         \* what the listener was last told: the config in force, 0 for none
    ring,
    flags,        \* event_flags
    drain,        \* where the drain thread is, the entry it borrowed, its command
    boundary, late, lost, cases

netVars == <<stream_active, config, net, frames>>
mainVars == <<main, told>>
history == <<boundary, late, lost, cases>>
vars == <<netVars, mainVars, config_slot, events, ring, flags, drain, history>>

Marker == [kind |-> "marker", of |-> 0]
Frame(n) == [kind |-> "frame", of |-> n]
Nothing == [kind |-> "none", of |-> 0]

Cases == {"overlap", "overtaken", "blind", "unread"}
NetPcs == {"idle", "frame", "start", "clear", "marker", "config", "end"}

Init ==
    /\ stream_active = FALSE /\ config = 0 /\ frames = 0
    /\ net = [pc |-> "idle", event |-> "none"]
    /\ main = "loop" /\ config_slot = 0 /\ events = <<>> /\ told = 0
    /\ ring = <<>> /\ flags = {}
    /\ drain = [pc |-> "check", item |-> Nothing, cmd |-> {}]
    /\ boundary = 0 /\ late = 0 /\ lost = {} /\ cases = {}

-----------------------------------------------------------------------------
(* Boundaries.                                                                *)

(* The drain thread gives the space of the entry it borrowed back after it    *)
(* has decoded it.                                                            *)
Room == Len(ring) + (IF drain.item = Nothing THEN 0 ELSE 1) < RingCap

(* A boundary begins when its command is set; the cases are those in which    *)
(* it meets an older one.                                                     *)
Boundary(command, met) ==
    /\ boundary' = boundary + 1 /\ late' = 0
    /\ flags' = flags \union {command}
    /\ cases' = cases \union met
    /\ UNCHANGED lost

Overlaps == "CLEAR" \in flags \/ \E i \in 1..Len(ring) : ring[i] = Marker
Busy == "FLUSH" \in flags \/ drain.cmd # {}

-----------------------------------------------------------------------------
(* The network thread.                                                        *)

(* A message is read, of any connection, until the client is destroyed.       *)
Reads == net.pc = "idle" /\ main # "stopping"

(* handle_binary(): admitted by the config in force ...                       *)
AdmitFrame ==
    /\ Reads /\ frames < MaxFrames /\ stream_active
    /\ frames' = frames + 1
    /\ net' = [net EXCEPT !.pc = "frame"]
    /\ UNCHANGED <<stream_active, config, mainVars, config_slot, events, ring, flags, drain, history>>

(* ... and put into the ring, or dropped when there is no room.               *)
CommitFrame ==
    /\ net.pc = "frame"
    /\ ring' = IF Room THEN Append(ring, Frame(boundary)) ELSE ring
    /\ net' = [net EXCEPT !.pc = "idle"]
    /\ UNCHANGED <<stream_active, config, frames, mainVars, config_slot, events, flags, drain, history>>

(* stream/start, /clear and /end.                                             *)
Receive(pc, event) ==
    /\ Reads /\ boundary < MaxBoundaries
    /\ net' = [pc |-> pc, event |-> event]
    /\ cases' = cases \union {x \in {"overtaken"} : main = "cleanup"}
    /\ UNCHANGED <<frames, mainVars, config_slot, events, ring, flags, drain, boundary, late, lost>>

StreamStart ==
    /\ Receive("clear", "START")
    /\ config' = config + 1 /\ stream_active' = TRUE

StreamClear ==
    /\ Receive("clear", "CLEAR")
    /\ UNCHANGED <<config, stream_active>>

StreamEnd ==
    /\ Receive("end", "END")
    /\ stream_active' = FALSE
    /\ UNCHANGED config

(* signal_clear_marker(): the command first ...                               *)
SignalClear ==
    /\ net.pc = "clear"
    /\ Boundary("CLEAR", {x \in {"overlap"} : Overlaps} \union {x \in {"blind"} : Busy})
    /\ net' = [net EXCEPT !.pc = "marker"]
    /\ UNCHANGED <<stream_active, config, frames, mainVars, config_slot, events, ring, drain>>

AfterMarker == IF net.event = "START" THEN "config" ELSE "event"

(* ... then the marker, as soon as there is room for it ...                   *)
EnqueueMarker ==
    /\ net.pc = "marker" /\ Room
    /\ ring' = Append(ring, Marker)
    /\ net' = [net EXCEPT !.pc = AfterMarker]
    /\ UNCHANGED <<stream_active, config, frames, mainVars, config_slot, events, flags, drain, history>>

(* ... or none if that takes too long.                                        *)
GiveUpMarker ==
    /\ net.pc = "marker" /\ ~Room
    /\ net' = [net EXCEPT !.pc = AfterMarker]
    /\ cases' = cases \union {"blind"}
    /\ UNCHANGED <<stream_active, config, frames, mainVars, config_slot, events, ring, flags, drain, boundary, late, lost>>

(* The config of a start, for the main loop.                                  *)
WriteConfig ==
    /\ net.pc = "config"
    /\ config_slot' = config
    /\ net' = [net EXCEPT !.pc = "event"]
    /\ cases' = cases \union {x \in {"unread"} : config_slot # 0 \/ "START" \in {events[i] : i \in 1..Len(events)}}
    /\ UNCHANGED <<stream_active, config, frames, mainVars, events, ring, flags, drain, boundary, late, lost>>

FlushForEnd ==
    /\ net.pc = "end"
    /\ Boundary("FLUSH", {})
    /\ net' = [net EXCEPT !.pc = "event"]
    /\ UNCHANGED <<stream_active, config, frames, mainVars, config_slot, events, ring, drain>>

EnqueueStreamEvent ==
    /\ net.pc = "event"
    /\ events' = Append(events, net.event)
    /\ net' = [pc |-> "idle", event |-> "none"]
    /\ UNCHANGED <<stream_active, config, frames, mainVars, config_slot, ring, flags, drain, history>>

-----------------------------------------------------------------------------
(* The main loop.                                                             *)

(* Mutant: the end of a stream is not passed on.                              *)
EndLeavesTold(event) == IF event = "START" /\ config_slot # 0 THEN config_slot ELSE told

(* What the listener knows after an event: a start is told of only with the   *)
(* config that the slot holds.                                                *)
ToldBy(event) ==
    IF event = "START" /\ config_slot # 0 THEN config_slot
    ELSE IF event = "END" THEN 0 ELSE told

HandleStreamRingEvent ==
    /\ main = "loop" /\ events # <<>>
    /\ events' = Tail(events)
    /\ told' = ToldBy(Head(events))
    /\ config_slot' = IF Head(events) = "START" THEN 0 ELSE config_slot
    /\ UNCHANGED <<netVars, main, ring, flags, drain, history>>

(* cleanup_connection_state() empties the inbox ring; cleanup() ends the      *)
(* stream.  A handler of the dead connection may be on its way.               *)
Cleanup ==
    /\ main = "loop" /\ boundary < MaxBoundaries
    /\ main' = "cleanup"
    /\ events' = <<>>
    /\ stream_active' = FALSE
    /\ Boundary("FLUSH", {x \in {"overtaken"} : net.pc # "idle"})
    /\ UNCHANGED <<config, net, frames, told, config_slot, ring, drain>>

CleanupEnd ==
    /\ main = "cleanup"
    /\ main' = "loop"
    /\ config_slot' = 0
    /\ events' = Append(events, "END")
    /\ cases' = cases \union {x \in {"overtaken"} : net.pc # "idle"}
    /\ UNCHANGED <<netVars, told, ring, flags, drain, boundary, late, lost>>

(* stop(), with the connections already gone.                                 *)
Stop ==
    /\ main = "loop" /\ net.pc = "idle"
    /\ main' = "stopping"
    /\ flags' = flags \union {"STOP"}
    /\ UNCHANGED <<netVars, told, config_slot, events, ring, drain, history>>

-----------------------------------------------------------------------------
(* The drain thread.                                                          *)

(* Where it goes with a command: flush, then discard.                         *)
Obey(cmd) ==
    IF "STOP" \in cmd THEN "done"
    ELSE IF "FLUSH" \in cmd THEN "flush"
    ELSE IF "CLEAR" \in cmd THEN "discard" ELSE "receive"

(* A frame discarded by command is lost if it was sent behind the boundary.   *)
Discarded(item, how) == lost' = lost \union {x \in {how} : item = Frame(boundary)}

(* flags.wait(): takes the commands.                                          *)
Check ==
    /\ drain.pc = "check"
    /\ flags' = {}
    /\ drain' = [drain EXCEPT !.pc = Obey(flags), !.cmd = flags]
    /\ UNCHANGED <<netVars, mainVars, config_slot, events, ring, history>>

(* flush_ring_buffer(): until the ring is empty.                              *)
Flush ==
    /\ drain.pc = "flush"
    /\ IF ring # <<>>
       THEN /\ ring' = Tail(ring) /\ Discarded(Head(ring), "flush") /\ UNCHANGED drain
       ELSE /\ drain' = [drain EXCEPT !.cmd = @ \ {"FLUSH"},
                                      !.pc = IF "CLEAR" \in drain.cmd THEN "discard" ELSE "check"]
            /\ UNCHANGED <<ring, lost>>
    /\ UNCHANGED <<netVars, mainVars, config_slot, events, flags, boundary, late, cases>>

(* Mutant: the marker is not recognised.                                      *)
NeverMarker(item) == FALSE

IsMarker(item) == item = Marker

(* discard_to_clear_marker(): up to the first marker, or the end.             *)
Discard ==
    /\ drain.pc = "discard"
    /\ IF ring # <<>>
       THEN /\ ring' = Tail(ring) /\ Discarded(Head(ring), "discard")
            /\ drain' = IF IsMarker(Head(ring)) THEN [drain EXCEPT !.cmd = {}, !.pc = "check"] ELSE drain
       ELSE /\ drain' = [drain EXCEPT !.cmd = {}, !.pc = "check"]
            /\ UNCHANGED <<ring, lost>>
    /\ UNCHANGED <<netVars, mainVars, config_slot, events, flags, boundary, late, cases>>

ReceiveEntry ==
    /\ drain.pc = "receive" /\ ring # <<>>
    /\ ring' = Tail(ring)
    /\ drain' = [drain EXCEPT !.item = Head(ring), !.pc = "item"]
    /\ UNCHANGED <<netVars, mainVars, config_slot, events, flags, history>>

ReceiveTimeOut ==
    /\ drain.pc = "receive" /\ ring = <<>>
    /\ drain' = [drain EXCEPT !.pc = "check"]
    /\ UNCHANGED <<netVars, mainVars, config_slot, events, ring, flags, history>>

Back == [drain EXCEPT !.item = Nothing, !.cmd = {}, !.pc = "check"]

(* A marker is dropped; so is a frame without a client time, and a frame      *)
(* that is too old.  A marker that a command was to find leaves the command   *)
(* to discard blindly.                                                        *)
DropEntry ==
    /\ drain.pc = "item"
    /\ drain' = Back
    /\ cases' = cases \union {x \in {"blind"} : drain.item = Marker /\ "CLEAR" \in flags}
    /\ UNCHANGED <<netVars, mainVars, config_slot, events, ring, flags, boundary, late, lost>>

(* Mutant: a stop does not end the sleep until a frame is due.                *)
StopIsNoReason ==
    /\ drain.pc = "item" /\ drain.item # Marker /\ flags # {}
    /\ flags' = {}
    /\ IF flags = {"STOP"} THEN UNCHANGED lost ELSE Discarded(drain.item, "held")
    /\ drain' = [drain EXCEPT !.item = Nothing, !.cmd = flags \ {"STOP"},
                              !.pc = IF flags = {"STOP"} THEN "check" ELSE Obey(flags \ {"STOP"})]
    /\ UNCHANGED <<netVars, mainVars, config_slot, events, ring, boundary, late, cases>>

(* A command ends the sleep until the frame is due: it takes the frame with   *)
(* it.                                                                        *)
Interrupted ==
    /\ drain.pc = "item" /\ drain.item # Marker /\ flags # {}
    /\ flags' = {}
    /\ IF flags = {"STOP"} THEN UNCHANGED lost ELSE Discarded(drain.item, "held")
    /\ drain' = [drain EXCEPT !.item = Nothing, !.cmd = flags, !.pc = Obey(flags)]
    /\ UNCHANGED <<netVars, mainVars, config_slot, events, ring, boundary, late, cases>>

(* The frame is due, at once or after the sleep: it is decoded with the       *)
(* config in force, given back, and told, whatever is commanded meanwhile.    *)
Deliver ==
    /\ drain.pc = "item" /\ drain.item # Marker
    /\ late' = IF drain.item.of < boundary THEN late + 1 ELSE late
    /\ drain' = Back
    /\ UNCHANGED <<netVars, mainVars, config_slot, events, ring, flags, boundary, lost, cases>>

-----------------------------------------------------------------------------

NetStep ==
    \/ CommitFrame \/ SignalClear \/ EnqueueMarker \/ GiveUpMarker
    \/ WriteConfig \/ FlushForEnd \/ EnqueueStreamEvent

DrainStep ==
    \/ Check \/ Flush \/ Discard \/ ReceiveEntry \/ ReceiveTimeOut
    \/ DropEntry \/ Interrupted \/ Deliver

MainStep == HandleStreamRingEvent \/ CleanupEnd

Next ==
    \/ AdmitFrame \/ StreamStart \/ StreamClear \/ StreamEnd \/ NetStep
    \/ MainStep \/ Cleanup \/ Stop
    \/ DrainStep

Spec == Init /\ [][Next]_vars

(* Each thread runs; a server sends finitely often.                           *)
FairSpec == Spec /\ WF_vars(NetStep) /\ WF_vars(DrainStep) /\ WF_vars(MainStep)

-----------------------------------------------------------------------------
(* Properties.                                                                *)

Entries == [kind : {"frame"}, of : Nat] \union {Marker}
Commands == {"STOP", "FLUSH", "CLEAR"}

(* Every variable has its type; the ring is never over its room:              *)
(* visualizer_role_impl.h:127-145.                                            *)
TypeOK ==
    /\ stream_active \in BOOLEAN /\ config \in Nat /\ frames \in Nat
    /\ net \in [pc : NetPcs \union {"event"}, event : {"none", "START", "CLEAR", "END"}]
    /\ main \in {"loop", "cleanup", "stopping"}
    /\ config_slot \in Nat /\ told \in Nat
    /\ events \in Seq({"START", "CLEAR", "END"})
    /\ ring \in Seq(Entries) /\ flags \subseteq Commands
    /\ drain \in [pc : {"check", "flush", "discard", "receive", "item", "done"},
                  item : Entries \union {Nothing}, cmd : SUBSET Commands]
    /\ Len(ring) <= RingCap
    /\ boundary \in Nat /\ late \in Nat /\ lost \subseteq {"held", "flush", "discard"} /\ cases \subseteq Cases

(* At most one frame, the one that the drain thread holds, is delivered       *)
(* behind a boundary that it was sent before, unless a start or a clear met   *)
(* another whose marker was not found yet: visualizer_role.cpp:273-275,       *)
(* 563-564.                                                                   *)
BoundaryHonoured == late <= 1 \/ "overlap" \in cases

(* No frame that was sent behind a boundary is discarded with what was sent   *)
(* before it, unless its marker was not found or a flush was under way:       *)
(* visualizer_role.cpp:295-299.                                               *)
NewSurvive == lost # {} => cases \intersect {"blind", "overtaken"} # {}

(* A boundary cuts off what was sent before it, and nothing of what was sent  *)
(* behind it, in a ring that keeps to its room.                               *)
BoundariesHold == TypeOK /\ BoundaryHonoured /\ NewSurvive

Quiet == net.pc = "idle" /\ main = "loop" /\ events = <<>>

(* When all events are handled, the listener knows of the config in force,    *)
(* or of none if no stream is active, unless a start came before the last     *)
(* was read, or from the dead connection: visualizer_role.cpp:277-281.        *)
ListenerAgrees ==
    Quiet => \/ told = (IF stream_active THEN config ELSE 0)
             \/ cases \intersect {"unread", "overtaken"} # {}

(* visualizer_role.cpp:277-279: a consumer that takes the START event         *)
(* observes its config, whatever was read before.                             *)
StartObservesConfig ==
    Quiet /\ "overtaken" \notin cases => told = (IF stream_active THEN config ELSE 0)

(* visualizer_role.cpp:457-460: discarding up to the marker preserves the     *)
(* frames that were enqueued after the clear.                                 *)
MarkerPreserves == "discard" \in lost => "overtaken" \in cases

(* What is asked of the drain thread it does, and it ends when it is asked    *)
(* to, whether it sleeps, receives or discards: visualizer_role.cpp:182-193.  *)
StopEnds == main = "stopping" ~> drain.pc = "done"
=============================================================================
