---------------------------- MODULE ArtworkRole ----------------------------
(**************************************************************************   *)
(* The artwork role (artwork_role.cpp) between its three threads:             *)
(*  - the network thread copies an image into one of the two buffers of its   *)
(*    slot and notifies the decode thread; stream messages bump the epoch     *)
(*    that makes older notifications stale;                                   *)
(*  - the decode thread claims a notification, has the listener decode the    *)
(*    image in place, and hands the display over to the main loop;            *)
(*  - the main loop holds displays until their deadline, clears on the end    *)
(*    of a stream, and cleans up behind a lost connection.                    *)
(*                                                                            *)
(* A slot in Gated has require_frame_done: the listener acknowledges every    *)
(* delivery with frame_done(), and until then newer ones are parked.          *)
(*                                                                            *)
(* A payload is an image or a per-channel clear, numbered in the order the    *)
(* server sends them.  An image's number is the content of the buffer it is   *)
(* written to and the buffer's generation.  Deadlines pass at any moment.     *)
(**************************************************************************   *)
EXTENDS Naturals, Sequences

CONSTANTS
    Slots,        \* configured channels
    Gated,        \* those with require_frame_done
    None,         \* nothing
    QueueCap,     \* capacity of notify_queue
    InboxCap,     \* Inbox::EVENT_CAPACITY
    Sends,        \* what the server may send, by stream and payload: sets of [slot, clear]
    MaxStreams, MaxPayloads, MaxDrops,  \* streams, payloads of each, and teardowns
    Rapid         \* the messages that need not wait until the role has settled

ASSUME ArtworkAssumption ==
    /\ Gated \subseteq Slots /\ None \notin Slots
    /\ QueueCap \in Nat \ {0} /\ InboxCap \in Nat \ {0}
    /\ MaxStreams \in Nat \ {0} /\ MaxPayloads \in Nat /\ MaxDrops \in Nat /\ Rapid \subseteq {"start", "restart"}
ASSUME SendsAssumption ==
    Sends \in [1..MaxStreams -> [1..MaxPayloads -> SUBSET [slot : Slots, clear : BOOLEAN]]]

VARIABLES
    up,           \* TRUE while messages of the server are dispatched
    streaming,    \* TRUE while the server believes a stream is active
    stream,       \* the last stream the server started
    sent,         \* the payloads sent
    drops,        \* connections torn down
    npc, message, \* where the network thread is in a handler, and the payload it handles
    active,       \* stream_active
    epoch,        \* stream_epoch
    buffer,       \* per slot and buffer: the image in it, 0 at first
    writeIdx,     \* write_idx
    draining,     \* drain_buf_idx while drain_active, else None
    ack, parked,  \* ack_state; parked notification or None
    queue,        \* notify_queue
    dpc, notif,   \* where the decode thread is, and the notification it has in hand
    display,      \* display_slot: per slot the pending display or None
    events,       \* ARTWORK_STREAM events on the inbox ring: the streams they end
    mpc, visit,   \* where the main loop is, and the held slots it has still to visit
    held,         \* held_display_*: per slot the display that waits for its deadline, or None
    stale,        \* those of them whose epoch is not the current_epoch drain_events() read
    decoded,      \* per slot: the image the listener decoded last, None once displayed
    shown,        \* per slot: the payload last presented, None after a clear of the stream
    over          \* the last stream the main loop cleared for

serverVars == <<up, streaming, stream, sent, drops>>
netVars == <<npc, message>>
buffers == <<buffer, writeIdx, draining>>
gates == <<ack, parked>>
decodeVars == <<dpc, notif, decoded>>
mainVars == <<mpc, visit, stale, held, shown, over>>
vars == <<serverVars, netVars, active, epoch, buffers, gates, queue, decodeVars, display, events, mainVars>>

SlotAckState == {"IDLE", "DECODE_DELIVERED", "PRESENTED"}
Payload == [slot : Slots, clear : BOOLEAN, n : 1..MaxPayloads, stream : 1..MaxStreams]
Notification == [payload : Payload, buf : 0..1, epoch : Nat]
Display == [payload : Payload, epoch : Nat]
Recheck == None      \* ARTWORK_RECHECK_SLOT

(* The values each variable ranges over, and the two queues never beyond      *)
(* their capacity.                                                            *)
TypeOK ==
    /\ up \in BOOLEAN /\ streaming \in BOOLEAN
    /\ stream \in 0..MaxStreams /\ sent \in 0..MaxPayloads /\ drops \in 0..MaxDrops
    /\ npc \in {"none", "write", "notify", "start", "resetDisplay", "resetGates", "end", "pushEvent"}
    /\ message \in Payload \cup {None}
    /\ active \in BOOLEAN /\ epoch \in Nat
    /\ buffer \in [Slots -> [0..1 -> 0..MaxPayloads]]
    /\ writeIdx \in [Slots -> 0..1] /\ draining \in [Slots -> 0..1 \cup {None}]
    /\ ack \in [Slots -> SlotAckState] /\ parked \in [Slots -> Notification \cup {None}]
    /\ queue \in Seq(Notification \cup {Recheck}) /\ Len(queue) <= QueueCap
    /\ dpc \in {"sweep", "receive", "process", "decode", "handoff", "merge"}
    /\ notif \in Notification \cup {None}
    /\ display \in [Slots -> Display \cup {None}]
    /\ events \in Seq(0..MaxStreams) /\ Len(events) <= InboxCap
    /\ mpc \in {"loop", "gates", "callback", "snapshot", "visit", "cleanup"}
    /\ visit \subseteq Slots /\ stale \subseteq visit
    /\ held \in [Slots -> Display \cup {None}]
    /\ decoded \in [Slots -> Payload \cup {None}]
    /\ shown \in [Slots -> Payload \cup {None}] /\ over \in 0..MaxStreams

Nothing == [s \in Slots |-> None]

Init ==
    /\ up = TRUE /\ streaming = FALSE /\ stream = 0 /\ sent = 0 /\ drops = 0
    /\ npc = "none" /\ message = None /\ active = FALSE /\ epoch = 0
    /\ buffer = [s \in Slots |-> [i \in 0..1 |-> 0]]
    /\ writeIdx = [s \in Slots |-> 0] /\ draining = Nothing
    /\ ack = [s \in Slots |-> "IDLE"] /\ parked = Nothing
    /\ queue = <<>> /\ dpc = "sweep" /\ notif = None
    /\ display = Nothing /\ events = <<>>
    /\ mpc = "loop" /\ visit = {} /\ stale = {} /\ held = Nothing
    /\ decoded = Nothing /\ shown = Nothing /\ over = 0

-----------------------------------------------------------------------------
(* Pacing: a start that is not in Rapid comes only when nothing is left of    *)
(* the stream before: the main loop has heard of its end, no notification is  *)
(* queued or processed and no display waits.                                  *)
Settled ==
    /\ events = <<>> /\ mpc = "loop"
    /\ queue = <<>> /\ dpc \in {"sweep", "receive"}
    /\ \A s \in Slots : parked[s] = None /\ display[s] = None /\ held[s] = None
Paced(kind) == kind \in Rapid \/ Settled

(* queue.send(..., 0) drops what does not fit, and so does push_event().      *)
Send(note) == queue' = IF Len(queue) < QueueCap THEN Append(queue, note) ELSE queue
PushEvent == events' = IF Len(events) < InboxCap THEN Append(events, stream) ELSE events

(* wake_drain_thread(), when there is something to wake it for.               *)
WakeFor(s) == IF parked[s] # None THEN Send(Recheck) ELSE UNCHANGED queue

-----------------------------------------------------------------------------
(* The network thread.  A handler begins only while messages are dispatched;  *)
(* once begun it runs to its end, whatever the main loop does meanwhile.      *)

(* handle_binary(): a clear has nothing to stage.                             *)
Binary(s, clear) ==
    /\ up /\ streaming /\ npc = "none" /\ sent < MaxPayloads
    /\ [slot |-> s, clear |-> clear] \in Sends[stream][sent + 1]
    /\ sent' = sent + 1
    /\ IF active
       THEN /\ message' = [slot |-> s, clear |-> clear, n |-> sent + 1, stream |-> stream]
            /\ npc' = IF clear THEN "notify" ELSE "write"
       ELSE UNCHANGED netVars
    /\ UNCHANGED <<up, streaming, stream, drops, active, epoch, buffers, gates, queue, decodeVars,
                   display, events, mainVars>>

(* Mutant: the buffer is chosen without a look at the decode thread.          *)
WriteNextBuffer ==
    LET s == message.slot
    IN  /\ npc = "write"
        /\ buffer' = [buffer EXCEPT ![s][writeIdx[s]] = message.n]
        /\ writeIdx' = [writeIdx EXCEPT ![s] = 1 - @]
        /\ npc' = "notify"
        /\ UNCHANGED <<serverVars, message, active, epoch, draining, gates, queue, decodeVars,
                       display, events, mainVars>>

(* The image goes to the other buffer when the decode thread reads this one.  *)
WriteBuffer ==
    LET s == message.slot
        i == IF draining[s] = writeIdx[s] THEN 1 - writeIdx[s] ELSE writeIdx[s]
    IN  /\ npc = "write"
        /\ buffer' = [buffer EXCEPT ![s][i] = message.n]
        /\ writeIdx' = [writeIdx EXCEPT ![s] = 1 - i]
        /\ npc' = "notify"
        /\ UNCHANGED <<serverVars, message, active, epoch, draining, gates, queue, decodeVars,
                       display, events, mainVars>>

FailToAllocate ==
    /\ npc = "write"
    /\ npc' = "none" /\ message' = None
    /\ UNCHANGED <<serverVars, active, epoch, buffers, gates, queue, decodeVars, display, events, mainVars>>

(* The epoch is read only now.  The buffer written is the one that is not     *)
(* next; nothing else writes writeIdx.                                        *)
Notify ==
    /\ npc = "notify"
    /\ Send([payload |-> message, epoch |-> epoch,
             buf |-> IF message.clear THEN 0 ELSE 1 - writeIdx[message.slot]])
    /\ npc' = "none" /\ message' = None
    /\ UNCHANGED <<serverVars, active, epoch, buffers, gates, decodeVars, display, events, mainVars>>

(* A stream message is on its way to its handler: the server has moved on.    *)
Announce(kind) ==
    /\ up /\ npc = "none"
    /\ \/ /\ kind = "start" /\ stream < MaxStreams
          /\ IF streaming THEN "restart" \in Rapid ELSE Paced("start")
          /\ streaming' = TRUE /\ stream' = stream + 1
       \/ /\ kind = "end" /\ streaming
          /\ streaming' = FALSE /\ UNCHANGED stream
    /\ npc' = kind
    /\ UNCHANGED <<up, sent, drops, message, active, epoch, buffers, gates, queue, decodeVars, display,
                   events, mainVars>>

(* handle_stream_start(), also for a stream that replaces another.            *)
StreamStart ==
    /\ npc = "start"
    /\ active' = TRUE /\ epoch' = epoch + 1
    /\ npc' = "resetDisplay"
    /\ UNCHANGED <<serverVars, message, buffers, gates, queue, decodeVars, display, events, mainVars>>

ResetDisplay ==
    /\ npc = "resetDisplay"
    /\ display' = Nothing /\ npc' = "resetGates"
    /\ UNCHANGED <<serverVars, message, active, epoch, buffers, gates, queue, decodeVars, events, mainVars>>

ResetGates ==
    /\ npc = "resetGates"
    /\ parked' = Nothing
    /\ ack' = [s \in Slots |-> IF ack[s] = "DECODE_DELIVERED" THEN "IDLE" ELSE ack[s]]
    /\ npc' = "none"
    /\ UNCHANGED <<serverVars, message, active, epoch, buffers, queue, decodeVars, display, events, mainVars>>

(* Mutant: the end of a stream leaves the epoch alone.                        *)
StreamEndInEpoch ==
    /\ npc = "end"
    /\ active' = FALSE /\ npc' = "pushEvent"
    /\ UNCHANGED <<serverVars, message, epoch, buffers, gates, queue, decodeVars, display, events, mainVars>>

(* handle_stream_end(), and handle_stream_clear(), which differs in the code  *)
(* of an event both handle alike.                                             *)
StreamEnd ==
    /\ npc = "end"
    /\ active' = FALSE /\ epoch' = epoch + 1
    /\ npc' = "pushEvent"
    /\ UNCHANGED <<serverVars, message, buffers, gates, queue, decodeVars, display, events, mainVars>>

EnqueueStreamEvent ==
    /\ npc = "pushEvent"
    /\ PushEvent /\ npc' = "none"
    /\ UNCHANGED <<serverVars, message, active, epoch, buffers, gates, queue, decodeVars, display, mainVars>>

FinishHandler ==
    \/ WriteBuffer \/ FailToAllocate \/ Notify
    \/ StreamStart \/ ResetDisplay \/ ResetGates \/ StreamEnd \/ EnqueueStreamEvent
Network ==
    \/ FinishHandler
    \/ \E kind \in {"start", "end"} : Announce(kind)
    \/ \E s \in Slots, clear \in BOOLEAN : Binary(s, clear)

-----------------------------------------------------------------------------
(* The decode thread.                                                         *)

(* A parked notification whose gate has opened comes before the queue.        *)
Replayable(s) == parked[s] # None /\ ack[s] = "IDLE"
Sweep ==
    /\ dpc = "sweep"
    /\ \/ \E s \in Slots :
            /\ Replayable(s)
            /\ notif' = parked[s] /\ parked' = [parked EXCEPT ![s] = None]
            /\ dpc' = "process"
       \/ /\ \A s \in Slots : ~Replayable(s)
          /\ dpc' = "receive" /\ UNCHANGED <<notif, parked>>
    /\ UNCHANGED <<serverVars, netVars, active, epoch, buffers, ack, queue, decoded, display, events, mainVars>>

(* A recheck, or 100 ms without a notification, leads back to the sweep.      *)
Receive ==
    /\ dpc = "receive"
    /\ IF queue = <<>> THEN dpc' = "sweep" /\ UNCHANGED <<notif, queue>>
       ELSE /\ queue' = Tail(queue)
            /\ IF Head(queue) = Recheck THEN dpc' = "sweep" /\ UNCHANGED notif
               ELSE dpc' = "process" /\ notif' = Head(queue)
    /\ UNCHANGED <<serverVars, netVars, active, epoch, buffers, gates, decoded, display, events, mainVars>>

(* process_notification().  A notification is stale when its stream is over   *)
(* or its buffer was written again.                                           *)
Current(note) ==
    /\ note.epoch = epoch
    /\ ~note.payload.clear => buffer[note.payload.slot][note.buf] = note.payload.n

Closed(s) == s \in Gated /\ ack[s] # "IDLE"

SkipStale ==
    /\ dpc = "process" /\ ~Current(notif)
    /\ dpc' = "sweep" /\ notif' = None
    /\ UNCHANGED <<serverVars, netVars, active, epoch, buffers, gates, queue, decoded, display, events, mainVars>>

Park ==
    LET s == notif.payload.slot
    IN  /\ dpc = "process" /\ Current(notif) /\ Closed(s)
        /\ parked' = [parked EXCEPT ![s] = notif]
        /\ dpc' = "sweep" /\ notif' = None
        /\ UNCHANGED <<serverVars, netVars, active, epoch, buffers, ack, queue, decoded, display, events, mainVars>>

(* Mutant: a clear passes the gate without closing it.                        *)
ClaimImage ==
    LET s == notif.payload.slot
    IN  /\ dpc = "process" /\ Current(notif) /\ ~Closed(s)
        /\ IF notif.payload.clear
           THEN dpc' = "handoff" /\ UNCHANGED <<ack, draining, decoded>>
           ELSE /\ ack' = IF s \in Gated THEN [ack EXCEPT ![s] = "DECODE_DELIVERED"] ELSE ack
                /\ draining' = [draining EXCEPT ![s] = notif.buf]
                /\ decoded' = [decoded EXCEPT ![s] = notif.payload]
                /\ dpc' = "decode"
        /\ UNCHANGED <<serverVars, netVars, active, epoch, buffer, writeIdx, parked, queue, notif,
                       display, events, mainVars>>

Claim ==
    LET s == notif.payload.slot
    IN  /\ dpc = "process" /\ Current(notif) /\ ~Closed(s)
        /\ ack' = IF s \in Gated THEN [ack EXCEPT ![s] = "DECODE_DELIVERED"] ELSE ack
        /\ IF notif.payload.clear
           THEN dpc' = "handoff" /\ UNCHANGED <<draining, decoded>>
           ELSE /\ draining' = [draining EXCEPT ![s] = notif.buf]
                /\ decoded' = [decoded EXCEPT ![s] = notif.payload]
                /\ dpc' = "decode"
        /\ UNCHANGED <<serverVars, netVars, active, epoch, buffer, writeIdx, parked, queue, notif,
                       display, events, mainVars>>

(* on_image_decode() returns.                                                 *)
Decoded ==
    /\ dpc = "decode"
    /\ draining' = [draining EXCEPT ![notif.payload.slot] = None]
    /\ dpc' = "handoff"
    /\ UNCHANGED <<serverVars, netVars, active, epoch, buffer, writeIdx, gates, queue, notif, decoded,
                   display, events, mainVars>>

Handoff ==
    /\ dpc = "handoff"
    /\ IF active THEN dpc' = "merge" /\ UNCHANGED notif ELSE dpc' = "sweep" /\ notif' = None
    /\ UNCHANGED <<serverVars, netVars, active, epoch, buffers, gates, queue, decoded, display, events, mainVars>>

(* merge_artwork_display_update() of one slot.                                *)
Merge ==
    /\ dpc = "merge"
    /\ display' = [display EXCEPT ![notif.payload.slot] = [payload |-> notif.payload, epoch |-> notif.epoch]]
    /\ dpc' = "sweep" /\ notif' = None
    /\ UNCHANGED <<serverVars, netVars, active, epoch, buffers, gates, queue, decoded, events, mainVars>>

DecodeThread == Sweep \/ Receive \/ SkipStale \/ Park \/ Claim \/ Decoded \/ Handoff \/ Merge

-----------------------------------------------------------------------------
(* The main loop.                                                             *)

(* handle_stream_ring_event(): what waits to be displayed is cancelled, every *)
(* slot is cleared, and the clear of a gated slot owes an acknowledgement.    *)
(* drain_events() may run first when the event came after the tick's poll.    *)
HandleStreamEvent ==
    /\ mpc = "loop" /\ events # <<>>
    /\ events' = Tail(events) /\ over' = Head(events)
    /\ held' = Nothing /\ display' = Nothing
    /\ mpc' = "gates"
    /\ UNCHANGED <<serverVars, netVars, active, epoch, buffers, gates, queue, decodeVars, visit, stale, shown>>

ClearSlots ==
    /\ mpc = "gates"
    /\ parked' = Nothing
    /\ ack' = [s \in Slots |-> IF s \in Gated THEN "PRESENTED" ELSE ack[s]]
    /\ shown' = Nothing
    /\ mpc' = "loop"
    /\ UNCHANGED <<serverVars, netVars, active, epoch, buffers, queue, decodeVars, display, events,
                   visit, stale, held, over>>

(* Mutant: the displays taken replace the held ones of every slot.            *)
TakeWholeUpdate ==
    /\ mpc = "loop"
    /\ \E s \in Slots : display[s] # None \/ held[s] # None
    /\ held' = IF display # Nothing THEN display ELSE held
    /\ display' = Nothing /\ mpc' = "snapshot"
    /\ UNCHANGED <<serverVars, netVars, active, epoch, buffers, gates, queue, decodeVars, events,
                   visit, stale, shown, over>>

(* drain_events(): pending displays are folded into the held ones.            *)
TakeDisplay ==
    /\ mpc = "loop"
    /\ \E s \in Slots : display[s] # None \/ held[s] # None
    /\ held' = [s \in Slots |-> IF display[s] # None THEN display[s] ELSE held[s]]
    /\ display' = Nothing
    /\ mpc' = "snapshot"
    /\ UNCHANGED <<serverVars, netVars, active, epoch, buffers, gates, queue, decodeVars, events,
                   visit, stale, shown, over>>

Snapshot ==
    /\ mpc = "snapshot"
    /\ visit' = {s \in Slots : held[s] # None}
    /\ stale' = {s \in visit' : held[s].epoch # epoch}
    /\ mpc' = "visit"
    /\ UNCHANGED <<serverVars, netVars, active, epoch, buffers, gates, queue, decodeVars, display, events,
                   held, shown, over>>

(* A held slot is visited: it is dropped with the stream it was decoded for,  *)
(* stays until its deadline, or is presented.                                 *)
Visit(s) ==
    /\ mpc = "visit" /\ s \in visit
    /\ visit' = visit \ {s} /\ stale' = stale \ {s}

NextVisit == mpc' = IF visit' = {} THEN "loop" ELSE "visit"

DropHeld(s) ==
    /\ Visit(s) /\ s \in stale
    /\ held' = [held EXCEPT ![s] = None]
    /\ IF s \in Gated
       THEN /\ ack' = IF ack[s] = "DECODE_DELIVERED" THEN [ack EXCEPT ![s] = "IDLE"] ELSE ack
            /\ WakeFor(s)
       ELSE UNCHANGED <<ack, queue>>
    /\ NextVisit
    /\ UNCHANGED <<serverVars, netVars, active, epoch, buffers, parked, decodeVars, display, events,
                   shown, over>>

NotDue(s) ==
    /\ Visit(s) /\ s \notin stale
    /\ NextVisit
    /\ UNCHANGED <<serverVars, netVars, active, epoch, buffers, gates, queue, decodeVars, display, events,
                   held, shown, over>>

Present(s) ==
    /\ Visit(s) /\ s \notin stale
    /\ held' = [held EXCEPT ![s] = None]
    /\ ack' = IF s \in Gated THEN [ack EXCEPT ![s] = "PRESENTED"] ELSE ack
    /\ shown' = [shown EXCEPT ![s] = held[s].payload]
    /\ decoded' = IF decoded[s] = held[s].payload THEN [decoded EXCEPT ![s] = None] ELSE decoded
    /\ mpc' = IF visit' = {} THEN "loop" ELSE "callback"
    /\ UNCHANGED <<serverVars, netVars, active, epoch, buffers, parked, queue, dpc, notif, display, events,
                   over>>

Return ==
    /\ mpc = "callback"
    /\ mpc' = "visit"
    /\ UNCHANGED <<serverVars, netVars, active, epoch, buffers, gates, queue, decodeVars, display, events,
                   visit, stale, held, shown, over>>

(* cleanup() behind a connection that is gone, on the main loop or within a   *)
(* callback: reset_events() has emptied the inbox ring just before.           *)
DropConnection ==
    /\ up /\ drops < MaxDrops /\ mpc \in {"loop", "callback"}
    /\ up' = FALSE /\ streaming' = FALSE /\ drops' = drops + 1
    /\ active' = FALSE /\ epoch' = epoch + 1
    /\ events' = <<>> /\ held' = Nothing /\ display' = Nothing
    /\ visit' = {} /\ stale' = {} /\ mpc' = "cleanup"
    /\ UNCHANGED <<stream, sent, netVars, buffers, gates, queue, decodeVars, shown, over>>

CleanupPush ==
    /\ mpc = "cleanup"
    /\ PushEvent /\ mpc' = "loop"
    /\ UNCHANGED <<serverVars, netVars, active, epoch, buffers, gates, queue, decodeVars, display,
                   visit, stale, held, shown, over>>

Reconnect ==
    /\ ~up /\ mpc = "loop" /\ npc = "none"
    /\ up' = TRUE
    /\ UNCHANGED <<streaming, stream, sent, drops, netVars, active, epoch, buffers, gates, queue, decodeVars,
                   display, events, mainVars>>

(* frame_done(), from the main loop's thread or from within a callback.  The  *)
(* listener keeps its contract: once for every display and every clear it was *)
(* given.  (The code also takes one while a delivery is DECODE_DELIVERED.)    *)
FrameDone(s) ==
    /\ mpc \in {"loop", "callback"}
    /\ ack[s] = "PRESENTED"
    /\ ack' = [ack EXCEPT ![s] = "IDLE"]
    /\ WakeFor(s)
    /\ UNCHANGED <<serverVars, netVars, active, epoch, buffers, parked, decodeVars, display, events, mainVars>>

MainLoop ==
    \/ HandleStreamEvent \/ ClearSlots \/ TakeDisplay \/ Snapshot \/ Return \/ CleanupPush
    \/ \E s \in Slots : DropHeld(s) \/ NotDue(s) \/ Present(s)
Application == DropConnection \/ Reconnect \/ \E s \in Slots : FrameDone(s)

-----------------------------------------------------------------------------
Next == Network \/ DecodeThread \/ MainLoop \/ Application

Spec == Init /\ [][Next]_vars

(* A handler that has begun is finished, the two other threads keep running,  *)
(* the event that a tick's poll has missed is seen by the next, deadlines     *)
(* come, and the listener acknowledges what it owes.                          *)
Fairness ==
    /\ WF_vars(FinishHandler) /\ WF_vars(DecodeThread) /\ WF_vars(MainLoop)
    /\ SF_vars(HandleStreamEvent)
    /\ \A s \in Slots : SF_vars(Present(s)) /\ SF_vars(FrameDone(s))

FairSpec == Spec /\ Fairness

-----------------------------------------------------------------------------
(* The image being decoded is the one the notification names, whole: the      *)
(* network thread never writes into the buffer the decode thread reads.       *)
NoTornImage ==
    dpc = "decode" => buffer[notif.payload.slot][notif.buf] = notif.payload.n

(* At most one delivery of a gated slot is un-acknowledged: while one is      *)
(* decoded or handed over, none waits for its display (artwork_role.h).       *)
Live(d) == d # None /\ d.epoch = epoch
OneInFlight ==
    \A s \in Gated :
        /\ Live(display[s]) /\ Live(held[s]) => FALSE
        /\ dpc \in {"decode", "handoff", "merge"} /\ notif.payload.slot = s /\ notif.epoch = epoch /\ active
              => ~Live(display[s]) /\ ~Live(held[s]) /\ ack[s] # "IDLE"

(* What a gated slot will display is what its listener decoded last: the      *)
(* listener has not been handed another image for the slot in between.        *)
DisplaysDecoded ==
    \A s \in Gated :
        Live(held[s]) /\ ~held[s].payload.clear => decoded[s] = held[s].payload

(* Nothing of a stream is presented any more once the listener was given the  *)
(* clears of the stream's end, or of a later stream's                         *)
(* (handle_stream_ring_event()).                                              *)
NothingAfterEnd ==
    mpc # "gates" => \A s \in Slots : shown[s] # None => shown[s].stream > over

(* What the listener was given to decode is displayed in the end, or a later  *)
(* image or clear is in its place, or its stream ends.                        *)
Overtaken(s) == shown[s] # None /\ shown[s].stream = stream /\ shown[s].n > decoded[s].n
DisplayKeepsUp ==
    \A s \in Slots :
        []<>(~streaming \/ decoded[s] = None \/ decoded[s].stream # stream \/ Overtaken(s))

(* The payloads of a gated slot are presented in the order of the server: one *)
(* that was parked is not presented behind a later one.                       *)
PresentedInOrder ==
    [][\A s \in Gated :
          shown[s] # None /\ shown'[s] # None => shown'[s].n >= shown[s].n]_vars

(* A parked payload does not stay parked: the gate of its slot opens again.   *)
GateOpens == \A s \in Gated : parked[s] # None ~> parked[s] = None

(* Nothing that was taken in is stuck: what is decoded comes to be shown, and *)
(* what is parked gets its turn.                                              *)
NothingIsStuck == DisplayKeepsUp /\ GateOpens
=============================================================================
