------------------------- MODULE ArtworkRoleProofs -------------------------
(* Proofs about the artwork role, for any slots, gated or not, any capacity   *)
(* of its queues and any number of streams, payloads and teardowns.           *)
EXTENDS ArtworkRole, SequenceTheorems, TLAPS

-----------------------------------------------------------------------------
(* What a thread in the middle of its work has in hand.                       *)
Working == {"process", "decode", "handoff", "merge"}
InHand ==
    /\ dpc \in Working => notif \in Notification
    /\ npc \in {"write", "notify"} => message \in Payload
    /\ npc = "write" => ~message.clear
    /\ streaming => stream # 0
    /\ visit # {} => mpc \in {"visit", "callback"}
    /\ \A s \in visit : held[s] # None

(* The buffer being decoded is marked, and still holds its image.             *)
DecodeGuarded ==
    dpc = "decode" =>
        /\ draining[notif.payload.slot] = notif.buf
        /\ buffer[notif.payload.slot][notif.buf] = notif.payload.n

ArtInv == TypeOK /\ InHand /\ DecodeGuarded

-----------------------------------------------------------------------------
(* The states of the streams.                                                 *)
Starting == npc \in {"start", "resetDisplay", "resetGates"}

(* Nothing is on its way from the server to the listener.                     *)
NothingDelivered ==
    /\ queue = <<>> /\ dpc \in {"sweep", "receive"} /\ visit = {}
    /\ \A s \in Slots : parked[s] = None /\ display[s] = None /\ held[s] = None

(* No end of a stream is on its way to the listener either.                   *)
Calm == events = <<>> /\ mpc \notin {"gates", "cleanup"}

(* When every start is paced, a stream starts with nothing on its way, and    *)
(* no end is handled while one is active.                                     *)
Phases ==
    /\ Starting => NothingDelivered
    /\ npc \in {"end", "pushEvent"} => ~streaming
    /\ npc = "pushEvent" => ~active
    /\ streaming => Calm
    /\ active /\ npc \in {"write", "notify"} => streaming
    /\ active => NothingDelivered \/ (Calm /\ (streaming \/ npc = "end"))

(* What is on its way while a stream is active was sent in it, and what was   *)
(* delivered is out of date once it is not.                                   *)
Epochs ==
    /\ \A i \in 1..Len(queue) : queue[i] # Recheck =>
          queue[i].epoch <= epoch /\ (active => queue[i].epoch = epoch)
    /\ dpc \in Working => notif.epoch <= epoch /\ (active => notif.epoch = epoch)
    /\ dpc = "merge" /\ ~active => notif.epoch < epoch
    /\ \A s \in Slots :
          /\ parked[s] # None => parked[s].epoch <= epoch /\ (active => parked[s].epoch = epoch)
          /\ display[s] # None => IF active THEN display[s].epoch = epoch ELSE display[s].epoch < epoch
          /\ held[s] # None => IF active THEN held[s].epoch = epoch ELSE held[s].epoch < epoch
    /\ active => stale = {}

(* The one delivery of a gated slot that is not presented yet is with the     *)
(* decode thread, waits to be taken, or is held for its deadline.             *)
Decoding(s) == dpc \in {"decode", "handoff", "merge"} /\ notif.payload.slot = s
OneDelivery ==
    active => \A s \in Gated :
        /\ Decoding(s) \/ display[s] # None \/ held[s] # None => ack[s] = "DECODE_DELIVERED"
        /\ Decoding(s) => display[s] = None /\ held[s] = None
        /\ display[s] # None => held[s] = None
        /\ Decoding(s) /\ ~notif.payload.clear => decoded[s] = notif.payload
        /\ display[s] # None => display[s].payload.clear \/ decoded[s] = display[s].payload
        /\ held[s] # None => held[s].payload.clear \/ decoded[s] = held[s].payload

GateInv == Phases /\ Epochs /\ OneDelivery

-----------------------------------------------------------------------------
(* Payloads, notifications and displays.                                      *)
LEMMA PayloadFields ==
  ASSUME NEW p \in Payload
  PROVE  /\ p.slot \in Slots /\ p.clear \in BOOLEAN
         /\ p.n \in 0..MaxPayloads /\ p.stream \in 0..MaxStreams
  <1>1. MaxPayloads \in Nat /\ MaxStreams \in Nat
    BY ArtworkAssumption
  <1>. QED  BY <1>1 DEF Payload

LEMMA NotificationFields ==
  ASSUME NEW note \in Notification
  PROVE  /\ note.payload \in Payload /\ note.buf \in 0..1 /\ note.epoch \in Nat
         /\ [payload |-> note.payload, epoch |-> note.epoch] \in Display
  BY DEF Notification, Display

LEMMA DisplayFields ==
  ASSUME NEW d \in Display
  PROVE  d.payload \in Payload /\ d.epoch \in Nat
  BY DEF Display

LEMMA MakeNotification ==
  ASSUME NEW p \in Payload, NEW b \in 0..1, NEW e \in Nat
  PROVE  [payload |-> p, epoch |-> e, buf |-> b] \in Notification
  BY DEF Notification

(* The bounded queues stay bounded sequences.                                 *)
LEMMA BoundedAppend ==
  ASSUME NEW S, NEW q \in Seq(S), NEW e \in S, NEW cap \in Nat, Len(q) <= cap
  PROVE  LET r == IF Len(q) < cap THEN Append(q, e) ELSE q
         IN  r \in Seq(S) /\ Len(r) <= cap
  <1>1. CASE Len(q) < cap
    <2>1. Append(q, e) \in Seq(S) /\ Len(Append(q, e)) = Len(q) + 1 /\ Len(q) \in Nat
      BY AppendProperties
    <2>. QED  BY <1>1, <2>1
  <1>2. CASE ~(Len(q) < cap)
    BY <1>2
  <1>. QED  BY <1>1, <1>2

LEMMA SendOK ==
  ASSUME TypeOK, NEW note \in Notification \cup {Recheck}, Send(note)
  PROVE  queue' \in Seq(Notification \cup {Recheck}) /\ Len(queue') <= QueueCap
  <1>1. /\ queue \in Seq(Notification \cup {Recheck})
        /\ Len(queue) <= QueueCap /\ QueueCap \in Nat
    BY ArtworkAssumption DEF TypeOK
  <1>. QED  BY <1>1, BoundedAppend DEF Send

LEMMA WakeOK ==
  ASSUME TypeOK, NEW s \in Slots, WakeFor(s)
  PROVE  queue' \in Seq(Notification \cup {Recheck}) /\ Len(queue') <= QueueCap
  <1>1. CASE parked[s] # None
    BY <1>1, SendOK DEF WakeFor
  <1>2. CASE parked[s] = None
    BY <1>2 DEF WakeFor, TypeOK
  <1>. QED  BY <1>1, <1>2

LEMMA PushEventOK ==
  ASSUME TypeOK, PushEvent
  PROVE  events' \in Seq(0..MaxStreams) /\ Len(events') <= InboxCap
  <1>1. /\ events \in Seq(0..MaxStreams) /\ stream \in 0..MaxStreams
        /\ Len(events) <= InboxCap /\ InboxCap \in Nat
    BY ArtworkAssumption DEF TypeOK
  <1>. QED  BY <1>1, BoundedAppend DEF PushEvent

LEMMA TailOK ==
  ASSUME TypeOK
  PROVE  /\ queue # <<>> => /\ Head(queue) \in Notification \cup {Recheck}
                            /\ Tail(queue) \in Seq(Notification \cup {Recheck})
                            /\ Len(Tail(queue)) <= QueueCap
         /\ events # <<>> => /\ Head(events) \in 0..MaxStreams
                             /\ Tail(events) \in Seq(0..MaxStreams)
                             /\ Len(Tail(events)) <= InboxCap
  BY HeadTailProperties, ArtworkAssumption DEF TypeOK

(* What the network thread sends carries the payload and the epoch of that    *)
(* moment.                                                                    *)
LEMMA NotifyOK ==
  ASSUME ArtInv, Notify
  PROVE  \E note \in Notification : note.epoch = epoch /\ note.payload = message /\ Send(note)
  <1>1. message \in Payload /\ message.slot \in Slots /\ epoch \in Nat
    BY PayloadFields DEF Notify, ArtInv, TypeOK, InHand
  <1>2. writeIdx[message.slot] \in {0, 1}
    BY <1>1 DEF ArtInv, TypeOK
  <1>3. (IF message.clear THEN 0 ELSE 1 - writeIdx[message.slot]) \in 0..1
    BY <1>2
  <1>. QED  BY <1>1, <1>3, MakeNotification DEF Notify

LEMMA NetworkStep ==
  ASSUME ArtInv, Network
  PROVE  ArtInv'
  <1>. USE ArtworkAssumption DEF ArtInv, TypeOK, InHand, DecodeGuarded, Working, Nothing,
           serverVars, netVars, buffers, gates, decodeVars, mainVars, SlotAckState
  <1>1. CASE WriteBuffer
    <2>. DEFINE s == message.slot
                i == IF draining[s] = writeIdx[s] THEN 1 - writeIdx[s] ELSE writeIdx[s]
    <2>0. s \in Slots /\ message.n \in 0..MaxPayloads /\ i \in 0..1 /\ i # draining[s]
      BY <1>1, PayloadFields DEF WriteBuffer
    <2>4. /\ buffer' = [buffer EXCEPT ![s][i] = message.n]
          /\ writeIdx' = [writeIdx EXCEPT ![s] = 1 - i]
      BY <1>1 DEF WriteBuffer
    <2>. HIDE DEF s, i
    <2>5. /\ buffer' \in [Slots -> [0..1 -> 0..MaxPayloads]]
          /\ writeIdx' \in [Slots -> 0..1]
      BY <2>0, <2>4
    <2>1. TypeOK'
      BY <1>1, <2>5 DEF WriteBuffer
    <2>2. InHand'
      BY <1>1 DEF WriteBuffer
    <2>3. DecodeGuarded'
      <3>1. SUFFICES ASSUME dpc = "decode"
                     PROVE  /\ draining[notif.payload.slot] = notif.buf
                            /\ buffer'[notif.payload.slot][notif.buf] = notif.payload.n
        BY <1>1 DEF WriteBuffer
      <3>2. notif \in Notification /\ notif.payload.slot \in Slots /\ notif.buf \in 0..1
        BY <3>1, NotificationFields, PayloadFields
      <3>. QED  BY <3>1, <3>2, <2>0, <2>4
    <2>. QED  BY <2>1, <2>2, <2>3
  <1>2. CASE FailToAllocate
    <2>1. TypeOK'
      BY <1>2 DEF FailToAllocate
    <2>2. InHand'
      BY <1>2 DEF FailToAllocate
    <2>3. DecodeGuarded'
      BY <1>2 DEF FailToAllocate
    <2>. QED  BY <2>1, <2>2, <2>3
  <1>3. CASE Notify
    <2>0. PICK note \in Notification : note.epoch = epoch /\ note.payload = message /\ Send(note)
      BY <1>3, NotifyOK
    <2>1. TypeOK'
      BY <1>3, <2>0, SendOK DEF Notify
    <2>2. InHand'
      BY <1>3, SendOK DEF Notify
    <2>3. DecodeGuarded'
      BY <1>3, SendOK DEF Notify
    <2>. QED  BY <2>1, <2>2, <2>3
  <1>4. CASE StreamStart
    <2>1. TypeOK'
      BY <1>4 DEF StreamStart
    <2>2. InHand'
      BY <1>4 DEF StreamStart
    <2>3. DecodeGuarded'
      BY <1>4 DEF StreamStart
    <2>. QED  BY <2>1, <2>2, <2>3
  <1>5. CASE ResetDisplay
    <2>1. TypeOK'
      BY <1>5 DEF ResetDisplay
    <2>2. InHand'
      BY <1>5 DEF ResetDisplay
    <2>3. DecodeGuarded'
      BY <1>5 DEF ResetDisplay
    <2>. QED  BY <2>1, <2>2, <2>3
  <1>6. CASE ResetGates
    <2>0. ack' \in [Slots -> SlotAckState] /\ parked' \in [Slots -> Notification \cup {None}]
      BY <1>6 DEF ResetGates
    <2>1. TypeOK'
      BY <1>6, <2>0 DEF ResetGates
    <2>2. InHand'
      BY <1>6 DEF ResetGates
    <2>3. DecodeGuarded'
      BY <1>6 DEF ResetGates
    <2>. QED  BY <2>1, <2>2, <2>3
  <1>7. CASE StreamEnd
    <2>0. epoch' \in Nat
      BY <1>7 DEF StreamEnd
    <2>1. TypeOK'
      BY <1>7, <2>0 DEF StreamEnd
    <2>2. InHand'
      BY <1>7 DEF StreamEnd
    <2>3. DecodeGuarded'
      BY <1>7 DEF StreamEnd
    <2>. QED  BY <2>1, <2>2, <2>3
  <1>8. CASE EnqueueStreamEvent
    <2>0. events' \in Seq(0..MaxStreams) /\ Len(events') <= InboxCap
      BY <1>8, PushEventOK DEF EnqueueStreamEvent
    <2>1. TypeOK'
      BY <1>8, <2>0 DEF EnqueueStreamEvent
    <2>2. InHand'
      BY <1>8, PushEventOK DEF EnqueueStreamEvent
    <2>3. DecodeGuarded'
      BY <1>8, PushEventOK DEF EnqueueStreamEvent
    <2>. QED  BY <2>1, <2>2, <2>3
  <1>9. ASSUME NEW kind \in {"start", "end"}, Announce(kind)
        PROVE  ArtInv'
    <2>0. streaming' \in BOOLEAN /\ stream' \in 0..MaxStreams /\ npc' \in {"start", "end"}
      <3>1. CASE kind = "start"
        BY <1>9, <3>1 DEF Announce
      <3>2. CASE kind = "end"
        BY <1>9, <3>2 DEF Announce
      <3>. QED  BY <3>1, <3>2
    <2>1. TypeOK'
      BY <1>9, <2>0 DEF Announce
    <2>2. InHand'
      BY <1>9 DEF Announce
    <2>3. DecodeGuarded'
      BY <1>9 DEF Announce
    <2>. QED  BY <2>1, <2>2, <2>3
  <1>10. ASSUME NEW s \in Slots, NEW clear \in BOOLEAN, Binary(s, clear)
         PROVE  ArtInv'
    <2>0. [slot |-> s, clear |-> clear, n |-> sent + 1, stream |-> stream] \in Payload
          /\ sent + 1 \in 0..MaxPayloads
      <3>1. sent + 1 \in 1..MaxPayloads /\ stream \in 1..MaxStreams
        <4>1. MaxPayloads \in Nat /\ MaxStreams \in Nat
          OBVIOUS
        <4>. QED  BY <1>10, <4>1 DEF Binary
      <3>. QED  BY <3>1 DEF Payload
    <2>1. TypeOK'
      BY <1>10, <2>0 DEF Binary
    <2>2. InHand'
      BY <1>10, <2>0 DEF Binary
    <2>3. DecodeGuarded'
      BY <1>10 DEF Binary
    <2>. QED  BY <2>1, <2>2, <2>3
  <1>. HIDE DEF ArtInv, TypeOK, InHand, DecodeGuarded
  <1>. QED  BY <1>1, <1>2, <1>3, <1>4, <1>5, <1>6, <1>7, <1>8, <1>9, <1>10 DEF Network, FinishHandler

LEMMA DecodeStep ==
  ASSUME ArtInv, DecodeThread
  PROVE  ArtInv'
  <1>. USE ArtworkAssumption DEF ArtInv, TypeOK, InHand, DecodeGuarded, Working, Nothing,
           serverVars, netVars, buffers, gates, decodeVars, mainVars, SlotAckState
  <1>1. CASE Sweep
    <2>0. /\ notif' \in Notification \cup {None} /\ parked' \in [Slots -> Notification \cup {None}]
          /\ dpc' \in {"process", "receive"} /\ dpc' = "process" => notif' \in Notification
      <3>1. CASE \E s \in Slots : /\ Replayable(s)
                                  /\ notif' = parked[s] /\ parked' = [parked EXCEPT ![s] = None]
                                  /\ dpc' = "process"
        BY <3>1 DEF Replayable
      <3>2. CASE dpc' = "receive" /\ UNCHANGED <<notif, parked>>
        BY <3>2
      <3>. QED  BY <1>1, <3>1, <3>2 DEF Sweep
    <2>1. TypeOK'
      BY <1>1, <2>0 DEF Sweep
    <2>2. InHand'
      BY <1>1, <2>0 DEF Sweep
    <2>3. DecodeGuarded'
      BY <1>1 DEF Sweep
    <2>. QED  BY <2>1, <2>2, <2>3
  <1>2. CASE Receive
    <2>0. /\ queue' \in Seq(Notification \cup {Recheck}) /\ Len(queue') <= QueueCap
          /\ notif' \in Notification \cup {None}
          /\ dpc' \in {"process", "sweep"} /\ dpc' = "process" => notif' \in Notification
      BY <1>2, TailOK DEF Receive, Recheck
    <2>1. TypeOK'
      BY <1>2, <2>0, TailOK DEF Receive
    <2>2. InHand'
      BY <1>2, <2>0, TailOK DEF Receive
    <2>3. DecodeGuarded'
      BY <1>2, TailOK DEF Receive
    <2>. QED  BY <2>1, <2>2, <2>3
  <1>3. CASE SkipStale
    <2>1. TypeOK'
      BY <1>3 DEF SkipStale
    <2>2. InHand'
      BY <1>3 DEF SkipStale
    <2>3. DecodeGuarded'
      BY <1>3 DEF SkipStale
    <2>. QED  BY <2>1, <2>2, <2>3
  <1>4. CASE Park
    <2>1. TypeOK'
      BY <1>4 DEF Park
    <2>2. InHand'
      BY <1>4 DEF Park
    <2>3. DecodeGuarded'
      BY <1>4 DEF Park
    <2>. QED  BY <2>1, <2>2, <2>3
  <1>5. CASE Claim
    <2>0. /\ notif \in Notification /\ notif.payload \in Payload
          /\ notif.payload.slot \in Slots /\ notif.buf \in 0..1
      BY <1>5, NotificationFields, PayloadFields DEF Claim
    <2>4. /\ ack' \in [Slots -> SlotAckState] /\ draining' \in [Slots -> 0..1 \cup {None}]
          /\ decoded' \in [Slots -> Payload \cup {None}] /\ dpc' \in {"handoff", "decode"}
      BY <1>5, <2>0 DEF Claim
    <2>1. TypeOK'
      BY <1>5, <2>4 DEF Claim
    <2>2. InHand'
      BY <1>5 DEF Claim
    <2>3. DecodeGuarded'
      BY <1>5, <2>0 DEF Claim, Current
    <2>. QED  BY <2>1, <2>2, <2>3
  <1>6. CASE Decoded
    <2>1. TypeOK'
      BY <1>6 DEF Decoded
    <2>2. InHand'
      BY <1>6 DEF Decoded
    <2>3. DecodeGuarded'
      BY <1>6 DEF Decoded
    <2>. QED  BY <2>1, <2>2, <2>3
  <1>7. CASE Handoff
    <2>1. TypeOK'
      BY <1>7 DEF Handoff
    <2>2. InHand'
      BY <1>7 DEF Handoff
    <2>3. DecodeGuarded'
      BY <1>7 DEF Handoff
    <2>. QED  BY <2>1, <2>2, <2>3
  <1>8. CASE Merge
    <2>0. /\ notif \in Notification /\ notif.payload.slot \in Slots
          /\ [payload |-> notif.payload, epoch |-> notif.epoch] \in Display
      BY <1>8, NotificationFields, PayloadFields DEF Merge
    <2>1. TypeOK'
      BY <1>8, <2>0 DEF Merge
    <2>2. InHand'
      BY <1>8 DEF Merge
    <2>3. DecodeGuarded'
      BY <1>8 DEF Merge
    <2>. QED  BY <2>1, <2>2, <2>3
  <1>. QED  BY <1>1, <1>2, <1>3, <1>4, <1>5, <1>6, <1>7, <1>8 DEF DecodeThread

LEMMA MainStep ==
  ASSUME ArtInv, MainLoop \/ Application
  PROVE  ArtInv'
  <1>. USE ArtworkAssumption DEF ArtInv, TypeOK, InHand, DecodeGuarded, Working, Nothing,
           serverVars, netVars, buffers, gates, decodeVars, mainVars, SlotAckState
  <1>1. CASE HandleStreamEvent
    <2>0. /\ events' \in Seq(0..MaxStreams) /\ Len(events') <= InboxCap
          /\ over' \in 0..MaxStreams
      BY <1>1, TailOK DEF HandleStreamEvent
    <2>1. TypeOK'
      BY <1>1, <2>0 DEF HandleStreamEvent
    <2>2. InHand'
      BY <1>1, TailOK DEF HandleStreamEvent
    <2>3. DecodeGuarded'
      BY <1>1, TailOK DEF HandleStreamEvent
    <2>. QED  BY <2>1, <2>2, <2>3
  <1>2. CASE ClearSlots
    <2>1. TypeOK'
      BY <1>2 DEF ClearSlots
    <2>2. InHand'
      BY <1>2 DEF ClearSlots
    <2>3. DecodeGuarded'
      BY <1>2 DEF ClearSlots
    <2>. QED  BY <2>1, <2>2, <2>3
  <1>3. CASE TakeDisplay
    <2>1. TypeOK'
      BY <1>3 DEF TakeDisplay
    <2>2. InHand'
      BY <1>3 DEF TakeDisplay
    <2>3. DecodeGuarded'
      BY <1>3 DEF TakeDisplay
    <2>. QED  BY <2>1, <2>2, <2>3
  <1>4. CASE Snapshot
    <2>1. TypeOK'
      BY <1>4 DEF Snapshot
    <2>2. InHand'
      BY <1>4 DEF Snapshot
    <2>3. DecodeGuarded'
      BY <1>4 DEF Snapshot
    <2>. QED  BY <2>1, <2>2, <2>3
  <1>5. CASE Return
    <2>1. TypeOK'
      BY <1>5 DEF Return
    <2>2. InHand'
      BY <1>5 DEF Return
    <2>3. DecodeGuarded'
      BY <1>5 DEF Return
    <2>. QED  BY <2>1, <2>2, <2>3
  <1>6. CASE CleanupPush
    <2>0. events' \in Seq(0..MaxStreams) /\ Len(events') <= InboxCap
      BY <1>6, PushEventOK DEF CleanupPush
    <2>1. TypeOK'
      BY <1>6, <2>0 DEF CleanupPush
    <2>2. InHand'
      BY <1>6, PushEventOK DEF CleanupPush
    <2>3. DecodeGuarded'
      BY <1>6, PushEventOK DEF CleanupPush
    <2>. QED  BY <2>1, <2>2, <2>3
  <1>7. CASE DropConnection
    <2>0. drops' \in 0..MaxDrops /\ epoch' \in Nat /\ events' \in Seq(0..MaxStreams) /\ Len(events') <= InboxCap
      BY <1>7 DEF DropConnection
    <2>1. TypeOK'
      BY <1>7, <2>0 DEF DropConnection
    <2>2. InHand'
      BY <1>7 DEF DropConnection
    <2>3. DecodeGuarded'
      BY <1>7 DEF DropConnection
    <2>. QED  BY <2>1, <2>2, <2>3
  <1>8. CASE Reconnect
    <2>1. TypeOK'
      BY <1>8 DEF Reconnect
    <2>2. InHand'
      BY <1>8 DEF Reconnect
    <2>3. DecodeGuarded'
      BY <1>8 DEF Reconnect
    <2>. QED  BY <2>1, <2>2, <2>3
  <1>9. ASSUME NEW s \in Slots, DropHeld(s)
        PROVE  ArtInv'
    <2>0. /\ queue' \in Seq(Notification \cup {Recheck}) /\ Len(queue') <= QueueCap
          /\ ack' \in [Slots -> SlotAckState]
      <3>1. CASE s \in Gated
        <4>1. queue' \in Seq(Notification \cup {Recheck}) /\ Len(queue') <= QueueCap
          BY <1>9, <3>1, WakeOK DEF DropHeld
        <4>2. ack' \in [Slots -> SlotAckState]
          BY <1>9, <3>1 DEF DropHeld
        <4>. QED  BY <4>1, <4>2
      <3>2. CASE s \notin Gated
        BY <1>9, <3>2 DEF DropHeld
      <3>. QED  BY <3>1, <3>2
    <2>1. TypeOK'
      BY <1>9, <2>0 DEF DropHeld, Visit, NextVisit
    <2>2. InHand'
      BY <1>9 DEF DropHeld, Visit, NextVisit
    <2>3. DecodeGuarded'
      BY <1>9 DEF DropHeld, Visit
    <2>. QED  BY <2>1, <2>2, <2>3
  <1>10. ASSUME NEW s \in Slots, NotDue(s)
        PROVE  ArtInv'
    <2>1. TypeOK'
      BY <1>10 DEF NotDue, Visit, NextVisit
    <2>2. InHand'
      BY <1>10 DEF NotDue, Visit, NextVisit
    <2>3. DecodeGuarded'
      BY <1>10 DEF NotDue, Visit
    <2>. QED  BY <2>1, <2>2, <2>3
  <1>11. ASSUME NEW s \in Slots, Present(s)
        PROVE  ArtInv'
    <2>0. /\ held[s] \in Display /\ held[s].payload \in Payload
          /\ ack' \in [Slots -> SlotAckState]
      BY <1>11, DisplayFields DEF Present, Visit
    <2>1. TypeOK'
      BY <1>11, <2>0 DEF Present, Visit, NextVisit
    <2>2. InHand'
      BY <1>11 DEF Present, Visit, NextVisit
    <2>3. DecodeGuarded'
      BY <1>11 DEF Present, Visit
    <2>. QED  BY <2>1, <2>2, <2>3
  <1>12. ASSUME NEW s \in Slots, FrameDone(s)
        PROVE  ArtInv'
    <2>1. TypeOK'
      BY <1>12, WakeOK DEF FrameDone
    <2>2. InHand'
      BY <1>12 DEF FrameDone
    <2>3. DecodeGuarded'
      BY <1>12 DEF FrameDone
    <2>. QED  BY <2>1, <2>2, <2>3
  <1>. QED  BY <1>1, <1>2, <1>3, <1>4, <1>5, <1>6, <1>7, <1>8, <1>9, <1>10, <1>11, <1>12 DEF MainLoop, Application

LEMMA ArtInitOK == Init => ArtInv
  <1>. USE ArtworkAssumption
  <1>1. ASSUME Init PROVE TypeOK
    <2>1. MaxPayloads \in Nat
      OBVIOUS
    <2>2. /\ buffer \in [Slots -> [0..1 -> 0..MaxPayloads]]
          /\ writeIdx \in [Slots -> 0..1] /\ draining \in [Slots -> 0..1 \cup {None}]
      BY <1>1, <2>1 DEF Init, Nothing
    <2>3. /\ queue \in Seq(Notification \cup {Recheck}) /\ Len(queue) <= QueueCap
          /\ events \in Seq(0..MaxStreams) /\ Len(events) <= InboxCap
      BY <1>1 DEF Init
    <2>4. /\ stream \in 0..MaxStreams /\ sent \in 0..MaxPayloads /\ drops \in 0..MaxDrops
          /\ epoch \in Nat /\ over \in 0..MaxStreams
      BY <1>1, <2>1 DEF Init
    <2>5. /\ ack \in [Slots -> SlotAckState] /\ parked \in [Slots -> Notification \cup {None}]
          /\ display \in [Slots -> Display \cup {None}] /\ held \in [Slots -> Display \cup {None}]
          /\ decoded \in [Slots -> Payload \cup {None}] /\ shown \in [Slots -> Payload \cup {None}]
      BY <1>1 DEF Init, Nothing, SlotAckState
    <2>. QED  BY <1>1, <2>2, <2>3, <2>4, <2>5 DEF Init, TypeOK
  <1>2. ASSUME Init PROVE InHand /\ DecodeGuarded
    BY <1>2 DEF Init, InHand, DecodeGuarded, Working
  <1>. QED  BY <1>1, <1>2 DEF ArtInv

(* The inductive invariant of the buffers.                                    *)
THEOREM ArtworkInvariant == Spec => []ArtInv
  <1>1. ArtInv /\ [Next]_vars => ArtInv'
    <2>1. ASSUME ArtInv, UNCHANGED vars
          PROVE  ArtInv'
      BY <2>1 DEF ArtInv, TypeOK, InHand, DecodeGuarded, vars, serverVars, netVars, buffers, gates,
                  decodeVars, mainVars
    <2>. QED  BY <2>1, NetworkStep, DecodeStep, MainStep DEF Next
  <1>. QED  BY <1>1, ArtInitOK, PTL DEF Spec

(* Every reachable state of the role is well typed, its queues bounded        *)
(* (notify_queue and the inbox ring).                                         *)
THEOREM ArtworkTypeOK == Spec => []TypeOK
  BY ArtworkInvariant, PTL DEF ArtInv

(* The image being decoded stays whole under every interleaving of            *)
(* handle_binary() with the decode thread.                                    *)
THEOREM ArtworkNoTornImage == Spec => []NoTornImage
  <1>1. ArtInv => NoTornImage
    BY DEF ArtInv, DecodeGuarded, NoTornImage
  <1>. QED  BY <1>1, ArtworkInvariant, PTL

-----------------------------------------------------------------------------
(* The gates, when every start is paced.                                      *)
LEMMA PhasesStep ==
  ASSUME Rapid = {}, ArtInv, Phases, Next
  PROVE  Phases'
  <1>. USE DEF Phases, NothingDelivered, Calm, Starting
  <1>. USE DEF serverVars, netVars, buffers, gates, decodeVars, mainVars
  <1>1. CASE WriteBuffer
    BY <1>1 DEF WriteBuffer
  <1>2. CASE FailToAllocate
    BY <1>2 DEF FailToAllocate
  <1>3. CASE Notify
    BY <1>3 DEF Notify
  <1>4. CASE StreamStart
    BY <1>4 DEF StreamStart
  <1>5. CASE ResetDisplay
    BY <1>5 DEF ResetDisplay, Nothing
  <1>6. CASE ResetGates
    BY <1>6 DEF ResetGates, Nothing
  <1>7. CASE StreamEnd
    BY <1>7 DEF StreamEnd
  <1>8. CASE EnqueueStreamEvent
    BY <1>8 DEF EnqueueStreamEvent
  <1>9. CASE Sweep
    BY <1>9 DEF Sweep, Replayable
  <1>10. CASE Receive
    BY <1>10 DEF Receive
  <1>11. CASE SkipStale
    BY <1>11 DEF SkipStale
  <1>12. CASE Park
    BY <1>12 DEF Park
  <1>13. CASE Claim
    BY <1>13 DEF Claim
  <1>14. CASE Decoded
    BY <1>14 DEF Decoded
  <1>15. CASE Handoff
    BY <1>15 DEF Handoff
  <1>16. CASE Merge
    BY <1>16 DEF Merge
  <1>17. CASE HandleStreamEvent
    BY <1>17 DEF HandleStreamEvent, Nothing
  <1>18. CASE ClearSlots
    BY <1>18 DEF ClearSlots, Nothing
  <1>19. CASE TakeDisplay
    BY <1>19 DEF TakeDisplay
  <1>20. CASE Snapshot
    BY <1>20 DEF Snapshot
  <1>21. CASE Return
    BY <1>21 DEF Return
  <1>22. CASE CleanupPush
    BY <1>22 DEF CleanupPush
  <1>23. CASE DropConnection
    BY <1>23 DEF DropConnection, Nothing
  <1>24. CASE Reconnect
    BY <1>24 DEF Reconnect
  <1>25. ASSUME NEW kind \in {"start", "end"}, Announce(kind)
         PROVE  Phases'
    BY <1>25 DEF Announce, Paced, Settled, ArtInv, InHand
  <1>26. ASSUME NEW s \in Slots, NEW clear \in BOOLEAN, Binary(s, clear)
         PROVE  Phases'
    BY <1>26 DEF Binary
  <1>27. ASSUME NEW s \in Slots, DropHeld(s) \/ NotDue(s) \/ Present(s)
         PROVE  Phases'
    BY <1>27 DEF DropHeld, NotDue, Present, Visit, NextVisit, WakeFor
  <1>28. ASSUME NEW s \in Slots, FrameDone(s)
         PROVE  Phases'
    BY <1>28 DEF FrameDone, WakeFor
  <1>. QED
    <2>. HIDE DEF Phases
    <2>. QED  BY <1>1, <1>2, <1>3, <1>4, <1>5, <1>6, <1>7, <1>8, <1>9, <1>10, <1>11, <1>12, <1>13, <1>14, <1>15, <1>16, <1>17, <1>18, <1>19, <1>20, <1>21, <1>22, <1>23, <1>24, <1>25, <1>26, <1>27, <1>28
           DEF Next, Network, FinishHandler, DecodeThread, MainLoop, Application

(* The epochs that travel are numbers.                                        *)
LEMMA EpochTypes ==
  ASSUME ArtInv
  PROVE  /\ epoch \in Nat /\ Len(queue) \in Nat
         /\ \A i \in 1..Len(queue) : queue[i] # Recheck => queue[i].epoch \in Nat
         /\ dpc \in Working => notif.epoch \in Nat /\ notif.payload.slot \in Slots
         /\ \A s \in Slots : /\ parked[s] # None => parked[s].epoch \in Nat
                             /\ display[s] # None => display[s].epoch \in Nat
                             /\ held[s] # None => held[s].epoch \in Nat
  <1>1. queue \in Seq(Notification \cup {Recheck}) /\ epoch \in Nat
    BY DEF ArtInv, TypeOK
  <1>2. \A i \in 1..Len(queue) : queue[i] \in Notification \cup {Recheck}
    BY <1>1, ElementOfSeq
  <1>3. dpc \in Working => notif \in Notification
    BY DEF ArtInv, InHand
  <1>4. \A s \in Slots : /\ parked[s] \in Notification \cup {None}
                        /\ display[s] \in Display \cup {None}
                        /\ held[s] \in Display \cup {None}
    BY DEF ArtInv, TypeOK
  <1>5. Len(queue) \in Nat
    BY <1>1, LenProperties
  <1>. QED  BY <1>1, <1>2, <1>3, <1>4, <1>5, NotificationFields, PayloadFields, DisplayFields

(* Sending adds the notification, receiving drops the first.                  *)
LEMMA QueueElements ==
  ASSUME ArtInv
  PROVE  /\ \A note \in Notification \cup {Recheck} : Send(note) =>
               \A i \in 1..Len(queue') :
                  queue'[i] = note \/ (i \in 1..Len(queue) /\ queue'[i] = queue[i])
         /\ queue # <<>> /\ queue' = Tail(queue) =>
               \A i \in 1..Len(queue') : i + 1 \in 1..Len(queue) /\ queue'[i] = queue[i + 1]
  <1>1. queue \in Seq(Notification \cup {Recheck}) /\ Len(queue) \in Nat
    BY LenProperties DEF ArtInv, TypeOK
  <1>2. ASSUME NEW note \in Notification \cup {Recheck}, Send(note)
        PROVE  \A i \in 1..Len(queue') :
                  queue'[i] = note \/ (i \in 1..Len(queue) /\ queue'[i] = queue[i])
    <2>1. CASE queue' = queue
      BY <2>1, <1>1
    <2>2. CASE queue' = Append(queue, note)
      <3>1. /\ Len(queue') = Len(queue) + 1 /\ queue'[Len(queue) + 1] = note
            /\ \A i \in 1..Len(queue) : queue'[i] = queue[i]
        BY <1>1, <1>2, <2>2, AppendProperties
      <3>. QED  BY <1>1, <3>1
    <2>. QED  BY <1>2, <2>1, <2>2 DEF Send
  <1>3. ASSUME queue # <<>>, queue' = Tail(queue)
        PROVE  \A i \in 1..Len(queue') : i + 1 \in 1..Len(queue) /\ queue'[i] = queue[i + 1]
    <2>1. /\ Len(queue') = Len(queue) - 1
          /\ \A i \in 1..Len(queue') : queue'[i] = queue[i + 1]
      BY <1>1, <1>3, HeadTailProperties
    <2>. QED  BY <1>1, <2>1
  <1>. QED  BY <1>2, <1>3

(* Waking the decode thread adds nothing but a recheck.                       *)
LEMMA WakeElements ==
  ASSUME ArtInv, NEW s \in Slots, WakeFor(s)
  PROVE  \A i \in 1..Len(queue') :
            queue'[i] = Recheck \/ (i \in 1..Len(queue) /\ queue'[i] = queue[i])
  BY QueueElements DEF WakeFor

LEMMA EpochsStep ==
  ASSUME ArtInv, Phases, Epochs, Next
  PROVE  Epochs'
  <1>. USE EpochTypes DEF Epochs, Working
  <1>. USE DEF serverVars, netVars, buffers, gates, decodeVars, mainVars
  <1>0. /\ parked \in [Slots -> Notification \cup {None}]
        /\ display \in [Slots -> Display \cup {None}] /\ held \in [Slots -> Display \cup {None}]
    BY DEF ArtInv, TypeOK
  <1>1. CASE WriteBuffer
    BY <1>1 DEF WriteBuffer
  <1>2. CASE FailToAllocate
    BY <1>2 DEF FailToAllocate
  <1>3. CASE Notify
    <2>1. PICK note \in Notification : note.epoch = epoch /\ note.payload = message /\ Send(note)
      BY <1>3, NotifyOK
    <2>2. \A i \in 1..Len(queue') :
             queue'[i] = note \/ (i \in 1..Len(queue) /\ queue'[i] = queue[i])
      BY <2>1, QueueElements
    <2>. QED  BY <1>3, <2>1, <2>2 DEF Notify
  <1>4. CASE StreamStart
    BY <1>4 DEF StreamStart, Phases, Starting, NothingDelivered, ArtInv, TypeOK
  <1>5. CASE ResetDisplay
    BY <1>5 DEF ResetDisplay, Nothing
  <1>6. CASE ResetGates
    BY <1>6 DEF ResetGates, Nothing
  <1>7. CASE StreamEnd
    BY <1>7 DEF StreamEnd
  <1>8. CASE EnqueueStreamEvent
    BY <1>8 DEF EnqueueStreamEvent
  <1>9. CASE Sweep
    <2>1. CASE \E s \in Slots : /\ Replayable(s)
                                /\ notif' = parked[s] /\ parked' = [parked EXCEPT ![s] = None]
                                /\ dpc' = "process"
      BY <1>0, <1>9, <2>1 DEF Sweep, Replayable
    <2>2. CASE dpc' = "receive" /\ UNCHANGED <<notif, parked>>
      BY <1>9, <2>2 DEF Sweep
    <2>. QED  BY <1>9, <2>1, <2>2 DEF Sweep
  <1>10. CASE Receive
    <2>1. CASE queue = <<>>
      BY <1>10, <2>1 DEF Receive
    <2>2. CASE queue # <<>>
      <3>1. /\ queue' = Tail(queue) /\ Head(queue) = queue[1] /\ 1 \in 1..Len(queue)
            /\ \A i \in 1..Len(queue') : i + 1 \in 1..Len(queue) /\ queue'[i] = queue[i + 1]
        BY <1>10, <2>2, QueueElements DEF Receive
      <3>. QED  BY <1>10, <2>2, <3>1 DEF Receive
    <2>. QED  BY <2>1, <2>2
  <1>11. CASE SkipStale
    BY <1>11 DEF SkipStale
  <1>12. CASE Park
    BY <1>0, <1>12 DEF Park
  <1>13. CASE Claim
    BY <1>13 DEF Claim
  <1>14. CASE Decoded
    BY <1>14 DEF Decoded
  <1>15. CASE Handoff
    BY <1>15 DEF Handoff
  <1>16. CASE Merge
    BY <1>0, <1>16 DEF Merge
  <1>17. CASE HandleStreamEvent
    BY <1>17 DEF HandleStreamEvent, Nothing
  <1>18. CASE ClearSlots
    BY <1>18 DEF ClearSlots, Nothing
  <1>19. CASE TakeDisplay
    BY <1>0, <1>19 DEF TakeDisplay, Nothing
  <1>20. CASE Snapshot
    BY <1>20 DEF Snapshot
  <1>21. CASE Return
    BY <1>21 DEF Return
  <1>22. CASE CleanupPush
    BY <1>22 DEF CleanupPush
  <1>23. CASE DropConnection
    BY <1>23 DEF DropConnection, Nothing
  <1>24. CASE Reconnect
    BY <1>24 DEF Reconnect
  <1>25. ASSUME NEW kind \in {"start", "end"}, Announce(kind)
         PROVE  Epochs'
    BY <1>25 DEF Announce
  <1>26. ASSUME NEW s \in Slots, NEW clear \in BOOLEAN, Binary(s, clear)
         PROVE  Epochs'
    BY <1>26 DEF Binary
  <1>27. ASSUME NEW s \in Slots, DropHeld(s)
         PROVE  Epochs'
    BY <1>0, <1>27, WakeElements DEF DropHeld, Visit
  <1>28. ASSUME NEW s \in Slots, NotDue(s) \/ Present(s)
         PROVE  Epochs'
    BY <1>0, <1>28 DEF NotDue, Present, Visit
  <1>29. ASSUME NEW s \in Slots, FrameDone(s)
         PROVE  Epochs'
    BY <1>29, WakeElements DEF FrameDone
  <1>. QED
    <2>. HIDE DEF Epochs
    <2>. QED  BY <1>1, <1>2, <1>3, <1>4, <1>5, <1>6, <1>7, <1>8, <1>9, <1>10, <1>11, <1>12, <1>13, <1>14, <1>15, <1>16, <1>17, <1>18, <1>19, <1>20, <1>21, <1>22, <1>23, <1>24, <1>25, <1>26, <1>27, <1>28, <1>29
           DEF Next, Network, FinishHandler, DecodeThread, MainLoop, Application

(* A gated slot's gate is closed for as long as a delivery is on its way.     *)
LEMMA OneDeliveryStep ==
  ASSUME ArtInv, Phases, Epochs, OneDelivery, Next
  PROVE  OneDelivery'
  <1>. USE ArtworkAssumption DEF OneDelivery, Decoding
  <1>. USE DEF serverVars, netVars, buffers, gates, decodeVars, mainVars
  <1>0. /\ display \in [Slots -> Display \cup {None}] /\ held \in [Slots -> Display \cup {None}]
        /\ ack \in [Slots -> SlotAckState] /\ decoded \in [Slots -> Payload \cup {None}]
        /\ dpc \in Working => notif \in Notification /\ notif.payload.slot \in Slots
    BY EpochTypes DEF ArtInv, TypeOK, InHand
  <1>1. CASE WriteBuffer
    BY <1>1 DEF WriteBuffer
  <1>2. CASE FailToAllocate
    BY <1>2 DEF FailToAllocate
  <1>3. CASE Notify
    BY <1>3 DEF Notify
  <1>4. CASE StreamStart
    BY <1>4 DEF StreamStart, Phases, Starting, NothingDelivered
  <1>5. CASE ResetDisplay
    BY <1>5 DEF ResetDisplay, Nothing
  <1>6. CASE ResetGates
    BY <1>6 DEF ResetGates, Phases, Starting, NothingDelivered
  <1>7. CASE StreamEnd
    BY <1>7 DEF StreamEnd
  <1>8. CASE EnqueueStreamEvent
    BY <1>8 DEF EnqueueStreamEvent
  <1>9. CASE Sweep
    BY <1>9 DEF Sweep
  <1>10. CASE Receive
    BY <1>10 DEF Receive
  <1>11. CASE SkipStale
    BY <1>11 DEF SkipStale
  <1>12. CASE Park
    BY <1>12 DEF Park
  <1>13. CASE Claim
    BY <1>0, <1>13 DEF Claim, Closed, Working
  <1>14. CASE Decoded
    BY <1>14 DEF Decoded
  <1>15. CASE Handoff
    BY <1>15 DEF Handoff
  <1>16. CASE Merge
    BY <1>0, <1>16 DEF Merge, Working
  <1>17. CASE HandleStreamEvent
    BY <1>17 DEF HandleStreamEvent, Nothing
  <1>18. CASE ClearSlots
    BY <1>18 DEF ClearSlots, Phases, Calm, NothingDelivered
  <1>19. CASE TakeDisplay
    BY <1>0, <1>19 DEF TakeDisplay, Nothing
  <1>20. CASE Snapshot
    BY <1>20 DEF Snapshot
  <1>21. CASE Return
    BY <1>21 DEF Return
  <1>22. CASE CleanupPush
    BY <1>22 DEF CleanupPush
  <1>23. CASE DropConnection
    BY <1>23 DEF DropConnection, Nothing
  <1>24. CASE Reconnect
    BY <1>24 DEF Reconnect
  <1>25. ASSUME NEW kind \in {"start", "end"}, Announce(kind)
         PROVE  OneDelivery'
    BY <1>25 DEF Announce
  <1>26. ASSUME NEW s \in Slots, NEW clear \in BOOLEAN, Binary(s, clear)
         PROVE  OneDelivery'
    BY <1>26 DEF Binary
  <1>27. ASSUME NEW s \in Slots, DropHeld(s)
         PROVE  OneDelivery'
    BY <1>27 DEF DropHeld, Visit, Epochs
  <1>28. ASSUME NEW s \in Slots, NotDue(s)
         PROVE  OneDelivery'
    BY <1>28 DEF NotDue, Visit
  <1>29. ASSUME NEW s \in Slots, Present(s)
         PROVE  OneDelivery'
    <2>1. held[s] # None
      BY <1>29 DEF Present, Visit, ArtInv, InHand
    <2>. QED  BY <1>0, <1>29, <2>1 DEF Present, Visit
  <1>30. ASSUME NEW s \in Slots, FrameDone(s)
         PROVE  OneDelivery'
    BY <1>0, <1>30 DEF FrameDone
  <1>. QED
    <2>. HIDE DEF OneDelivery
    <2>. QED  BY <1>1, <1>2, <1>3, <1>4, <1>5, <1>6, <1>7, <1>8, <1>9, <1>10, <1>11, <1>12, <1>13, <1>14, <1>15, <1>16, <1>17, <1>18, <1>19, <1>20, <1>21, <1>22, <1>23, <1>24, <1>25, <1>26, <1>27, <1>28, <1>29, <1>30
           DEF Next, Network, FinishHandler, DecodeThread, MainLoop, Application

(* The inductive invariant of the gates.                                      *)
THEOREM GateInvariant ==
  ASSUME Rapid = {}
  PROVE  Spec => []GateInv
  <1>1. Init => GateInv
    BY DEF Init, GateInv, Phases, Starting, NothingDelivered, Calm, Epochs, Working, OneDelivery, Nothing
  <1>2. ArtInv /\ GateInv /\ [Next]_vars => GateInv'
    <2>1. ASSUME GateInv, UNCHANGED vars
          PROVE  GateInv'
      BY <2>1 DEF GateInv, Phases, Starting, NothingDelivered, Calm, Epochs, Working, OneDelivery, Decoding,
                  vars, serverVars, netVars, buffers, gates, decodeVars, mainVars
    <2>. QED  BY <2>1, PhasesStep, EpochsStep, OneDeliveryStep DEF GateInv
  <1>. QED  BY <1>1, <1>2, ArtworkInvariant, PTL DEF Spec

(* When every start is paced, a gated slot never has two deliveries under     *)
(* way, and a delivery under way keeps its gate closed (artwork_role.h:42).   *)
THEOREM ArtworkOneInFlight ==
  ASSUME Rapid = {}
  PROVE  Spec => []OneInFlight
  <1>1. ArtInv /\ GateInv => OneInFlight
    <2>. SUFFICES ASSUME ArtInv, GateInv, NEW s \in Gated
                  PROVE  /\ Live(display[s]) /\ Live(held[s]) => FALSE
                         /\ dpc \in {"decode", "handoff", "merge"} /\ notif.payload.slot = s
                               /\ notif.epoch = epoch /\ active
                               => ~Live(display[s]) /\ ~Live(held[s]) /\ ack[s] # "IDLE"
      BY DEF OneInFlight
    <2>1. s \in Slots
      BY ArtworkAssumption
    <2>2. CASE active
      BY <2>1, <2>2 DEF GateInv, OneDelivery, Decoding, Live
    <2>3. CASE ~active
      BY <2>1, <2>3, EpochTypes DEF GateInv, Epochs, Live
    <2>. QED  BY <2>2, <2>3
  <1>. QED  BY <1>1, ArtworkInvariant, GateInvariant, PTL

(* When every start is paced, what a gated slot displays is what its listener *)
(* decoded last.                                                              *)
THEOREM ArtworkDisplaysDecoded ==
  ASSUME Rapid = {}
  PROVE  Spec => []DisplaysDecoded
  <1>1. ArtInv /\ GateInv => DisplaysDecoded
    <2>. SUFFICES ASSUME ArtInv, GateInv, NEW s \in Gated, Live(held[s]), ~held[s].payload.clear
                  PROVE  decoded[s] = held[s].payload
      BY DEF DisplaysDecoded
    <2>1. s \in Slots
      BY ArtworkAssumption
    <2>2. active
      BY <2>1, EpochTypes DEF GateInv, Epochs, Live
    <2>. QED  BY <2>1, <2>2 DEF GateInv, OneDelivery, Live
  <1>. QED  BY <1>1, ArtworkInvariant, GateInvariant, PTL

-----------------------------------------------------------------------------
(* The clears of a stream's end, however starts and ends are paced.           *)

(* What is on its way to the listener.                                        *)
Items ==
    (({queue[i] : i \in 1..Len(queue)} \cup {parked[s] : s \in Slots} \cup {display[s] : s \in Slots}
         \cup {held[s] : s \in Slots}) \ {None})
    \cup (IF dpc \in Working THEN {notif} ELSE {})

(* A stream that comes after those the listener was given the clears of, and  *)
(* after those whose end is still on the inbox ring.                          *)
Ahead(n, last, ends) == n > last /\ \A i \in 1..Len(ends) : n > ends[i]

(* An end that is handled, or waits to be, is that of a stream the server has *)
(* left; one that is about to be pushed finds no stream active.               *)
EndsBehind ==
    /\ over <= stream /\ \A i \in 1..Len(events) : events[i] <= stream
    /\ streaming => up /\ Ahead(stream, over, events)
    /\ mpc = "cleanup" => ~up
    /\ npc \in {"end", "pushEvent"} => ~streaming
    /\ npc = "pushEvent" => ~active

(* What carries the epoch of an active stream belongs to a stream that is not *)
(* over, and so does the payload being written.                               *)
Timely(d) == d.epoch <= epoch /\ (active /\ d.epoch = epoch => up /\ Ahead(d.payload.stream, over, events))
OfOpenStream ==
    /\ \A d \in Items : Timely(d)
    /\ active /\ npc \in {"write", "notify"} => up /\ Ahead(message.stream, over, events)

(* While no stream is active, no display carries the current epoch, and none  *)
(* is about to be merged that does.                                           *)
OutOfDate ==
    ~active => /\ dpc = "merge" => notif.epoch < epoch
               /\ \A s \in Slots : /\ display[s] # None => display[s].epoch < epoch
                                   /\ held[s] # None => held[s].epoch < epoch

VisitsAhead == \A s \in visit \ stale : held[s].payload.stream > over

EndInv == EndsBehind /\ OfOpenStream /\ OutOfDate /\ VisitsAhead /\ NothingAfterEnd

-----------------------------------------------------------------------------
(* A notification or a display that is on its way, its epoch and its stream.  *)
LEMMA ItemFields ==
  ASSUME ArtInv
  PROVE  /\ \A d \in Items : d.epoch \in Nat /\ d.payload.stream \in Nat
         /\ epoch \in Nat /\ stream \in Nat /\ over \in Nat
         /\ events \in Seq(0..MaxStreams) /\ Len(events) \in Nat
         /\ \A i \in 1..Len(events) : events[i] \in Nat
         /\ npc \in {"write", "notify"} => message.stream \in Nat
  <1>0. MaxStreams \in Nat
    BY ArtworkAssumption
  <1>1. Items \subseteq Notification \cup Display
    <2>1. \A i \in 1..Len(queue) : queue[i] \in Notification \cup {None}
      BY ElementOfSeq DEF ArtInv, TypeOK, Recheck
    <2>2. \A s \in Slots : /\ parked[s] \in Notification \cup {None}
                           /\ display[s] \in Display \cup {None} /\ held[s] \in Display \cup {None}
      BY DEF ArtInv, TypeOK
    <2>3. dpc \in Working => notif \in Notification
      BY DEF ArtInv, InHand
    <2>. QED  BY <2>1, <2>2, <2>3 DEF Items
  <1>2. \A d \in Notification \cup Display : d.epoch \in Nat /\ d.payload \in Payload
    BY NotificationFields, DisplayFields
  <1>3. \A p \in Payload : p.stream \in Nat
    BY <1>0, PayloadFields
  <1>4. /\ epoch \in Nat /\ stream \in Nat /\ over \in Nat
        /\ events \in Seq(0..MaxStreams) /\ Len(events) \in Nat
        /\ npc \in {"write", "notify"} => message \in Payload
    BY <1>0, LenProperties DEF ArtInv, TypeOK, InHand
  <1>5. \A i \in 1..Len(events) : events[i] \in Nat
    BY <1>0, <1>4, ElementOfSeq
  <1>. QED  BY <1>1, <1>2, <1>3, <1>4, <1>5

(* The names of what is on its way.                                           *)
LEMMA ItemNames ==
  /\ \A i \in 1..Len(queue) : queue[i] # None => queue[i] \in Items
  /\ \A s \in Slots : /\ parked[s] # None => parked[s] \in Items
                      /\ display[s] # None => display[s] \in Items
                      /\ held[s] # None => held[s] \in Items
  /\ dpc \in Working => notif \in Items
  BY DEF Items

(* Nothing comes from nowhere: what is on its way after a step was before it, *)
(* as a notification or as the display made of one, or it is what the network *)
(* thread sends in the current epoch.                                         *)
Descends(d) == \E m \in Items : d.payload = m.payload /\ d.epoch = m.epoch
Sent(d) == npc = "notify" /\ d.payload = message /\ d.epoch = epoch
LEMMA ItemsDescend ==
  ASSUME ArtInv, Next
  PROVE  \A d \in Items' : Descends(d) \/ Sent(d)
  <1>. USE DEF serverVars, netVars, buffers, gates, decodeVars, mainVars
  <1>0. /\ parked \in [Slots -> Notification \cup {None}]
        /\ display \in [Slots -> Display \cup {None}] /\ held \in [Slots -> Display \cup {None}]
        /\ dpc \in Working => notif.payload.slot \in Slots
    BY EpochTypes DEF ArtInv, TypeOK
  <1>1. ASSUME NEW i \in 1..Len(queue'), queue'[i] # None
        PROVE  Descends(queue'[i]) \/ Sent(queue'[i])
    <2>1. \/ queue' = queue \/ Notify \/ Receive \/ \E s \in Slots : WakeFor(s)
      BY DEF Next, Network, FinishHandler, DecodeThread, MainLoop, Application, WriteBuffer, FailToAllocate,
         StreamStart, ResetDisplay, ResetGates, StreamEnd, EnqueueStreamEvent, Announce, Binary, Sweep, SkipStale,
         Park, Claim, Decoded, Handoff, Merge, HandleStreamEvent, ClearSlots, TakeDisplay, Snapshot, DropHeld,
         NotDue, Present, Return, DropConnection, CleanupPush, Reconnect, FrameDone
    <2>2. CASE queue' = queue
      BY <1>1, <2>2, ItemNames DEF Descends
    <2>3. CASE Notify
      <3>1. PICK note \in Notification : note.epoch = epoch /\ note.payload = message /\ Send(note)
        BY <2>3, NotifyOK
      <3>2. queue'[i] = note \/ (i \in 1..Len(queue) /\ queue'[i] = queue[i])
        BY <1>1, <3>1, QueueElements
      <3>3. queue'[i] = note => Sent(queue'[i])
        BY <2>3, <3>1 DEF Notify, Sent
      <3>4. i \in 1..Len(queue) /\ queue'[i] = queue[i] => Descends(queue'[i])
        BY <1>1, ItemNames DEF Descends
      <3>. QED  BY <3>2, <3>3, <3>4
    <2>4. CASE Receive
      <3>1. CASE queue = <<>>
        BY <1>1, <2>4, <3>1, ItemNames DEF Receive, Descends
      <3>2. CASE queue # <<>>
        <4>1. i + 1 \in 1..Len(queue) /\ queue'[i] = queue[i + 1]
          BY <1>1, <2>4, <3>2, QueueElements DEF Receive
        <4>. QED  BY <1>1, <4>1, ItemNames DEF Descends
      <3>. QED  BY <3>1, <3>2
    <2>5. CASE \E s \in Slots : WakeFor(s)
      BY <1>1, <2>5, WakeElements, ItemNames DEF Descends, Recheck
    <2>. QED  BY <2>1, <2>2, <2>3, <2>4, <2>5
  <1>2. ASSUME NEW s \in Slots, parked'[s] # None
        PROVE  Descends(parked'[s])
    <2>1. \/ parked' = parked \/ parked' = Nothing
          \/ \E r \in Slots : parked' = [parked EXCEPT ![r] = None]
          \/ dpc = "process" /\ parked' = [parked EXCEPT ![notif.payload.slot] = notif]
      BY DEF Next, Network, FinishHandler, DecodeThread, MainLoop, Application, WriteBuffer, FailToAllocate, Notify,
         StreamStart, ResetDisplay, ResetGates, StreamEnd, EnqueueStreamEvent, Announce, Binary, Sweep, Receive, SkipStale,
         Park, Claim, Decoded, Handoff, Merge, HandleStreamEvent, ClearSlots, TakeDisplay, Snapshot, DropHeld,
         NotDue, Present, Return, DropConnection, CleanupPush, Reconnect, FrameDone
    <2>2. parked'[s] = parked[s] \/ (dpc \in Working /\ parked'[s] = notif)
      BY <1>0, <1>2, <2>1 DEF Nothing, Working
    <2>. QED  BY <1>2, <2>2, ItemNames DEF Descends
  <1>3. ASSUME NEW s \in Slots, display'[s] # None
        PROVE  Descends(display'[s])
    <2>1. \/ display' = display \/ display' = Nothing
          \/ /\ dpc = "merge"
             /\ display' = [display EXCEPT ![notif.payload.slot] = [payload |-> notif.payload, epoch |-> notif.epoch]]
      BY DEF Next, Network, FinishHandler, DecodeThread, MainLoop, Application, WriteBuffer, FailToAllocate, Notify,
         StreamStart, ResetDisplay, ResetGates, StreamEnd, EnqueueStreamEvent, Announce, Binary, Sweep, Receive, SkipStale,
         Park, Claim, Decoded, Handoff, Merge, HandleStreamEvent, ClearSlots, TakeDisplay, Snapshot, DropHeld,
         NotDue, Present, Return, DropConnection, CleanupPush, Reconnect, FrameDone
    <2>2. \/ display'[s] = display[s]
          \/ dpc \in Working /\ display'[s].payload = notif.payload /\ display'[s].epoch = notif.epoch
      BY <1>0, <1>3, <2>1 DEF Nothing, Working
    <2>. QED  BY <1>3, <2>2, ItemNames DEF Descends
  <1>4. ASSUME NEW s \in Slots, held'[s] # None
        PROVE  Descends(held'[s])
    <2>1. \/ held' = held \/ held' = Nothing
          \/ \E r \in Slots : held' = [held EXCEPT ![r] = None]
          \/ held' = [r \in Slots |-> IF display[r] # None THEN display[r] ELSE held[r]]
      BY DEF Next, Network, FinishHandler, DecodeThread, MainLoop, Application, WriteBuffer, FailToAllocate, Notify,
         StreamStart, ResetDisplay, ResetGates, StreamEnd, EnqueueStreamEvent, Announce, Binary, Sweep, Receive, SkipStale,
         Park, Claim, Decoded, Handoff, Merge, HandleStreamEvent, ClearSlots, TakeDisplay, Snapshot, DropHeld,
         NotDue, Present, Return, DropConnection, CleanupPush, Reconnect, FrameDone
    <2>2. held'[s] = held[s] \/ held'[s] = display[s]
      BY <1>0, <1>4, <2>1 DEF Nothing
    <2>. QED  BY <1>4, <2>2, ItemNames DEF Descends
  <1>5. ASSUME dpc' \in Working
        PROVE  Descends(notif')
    <2>1. \/ dpc \in Working /\ notif' = notif
          \/ dpc' \in {"sweep", "receive"}
          \/ \E s \in Slots : parked[s] # None /\ notif' = parked[s]
          \/ queue # <<>> /\ Head(queue) # Recheck /\ notif' = Head(queue)
      BY <1>5 DEF Next, Network, FinishHandler, DecodeThread, MainLoop, Application, WriteBuffer, FailToAllocate, Notify,
         StreamStart, ResetDisplay, ResetGates, StreamEnd, EnqueueStreamEvent, Announce, Binary, Sweep, Replayable,
         Receive, SkipStale, Working,
         Park, Claim, Decoded, Handoff, Merge, HandleStreamEvent, ClearSlots, TakeDisplay, Snapshot, DropHeld,
         NotDue, Present, Return, DropConnection, CleanupPush, Reconnect, FrameDone
    <2>2. queue # <<>> => Head(queue) = queue[1] /\ 1 \in 1..Len(queue)
      BY EpochTypes DEF ArtInv, TypeOK
    <2>. QED  BY <1>5, <2>1, <2>2, ItemNames DEF Descends, Recheck, Working
  <1>. QED  BY <1>1, <1>2, <1>3, <1>4, <1>5 DEF Items

(* The steps that have to do with the end of a stream, and all the others.    *)
Ending == StreamStart \/ StreamEnd \/ EnqueueStreamEvent \/ HandleStreamEvent \/ DropConnection \/ CleanupPush \/ Reconnect
LEMMA QuietStep ==
  ASSUME Next, ~Ending, ~ \E kind \in {"start", "end"} : Announce(kind)
  PROVE  /\ UNCHANGED <<up, streaming, stream, active, epoch, events, over>>
         /\ npc' \in {"end", "pushEvent"} => npc' = npc
         /\ mpc' = "cleanup" => mpc = "cleanup"
         /\ npc' \in {"write", "notify"} =>
               \/ npc \in {"write", "notify"} /\ message' = message
               \/ streaming /\ active /\ message'.stream = stream
  <1>. USE DEF serverVars, netVars, buffers, gates, decodeVars, mainVars
  <1>1. CASE WriteBuffer \/ FailToAllocate \/ Notify \/ ResetDisplay \/ ResetGates
    BY <1>1 DEF WriteBuffer, FailToAllocate, Notify, ResetDisplay, ResetGates
  <1>2. CASE \E s \in Slots, clear \in BOOLEAN : Binary(s, clear)
    BY <1>2 DEF Binary
  <1>3. CASE DecodeThread
    BY <1>3 DEF DecodeThread, Sweep, Receive, SkipStale, Park, Claim, Decoded, Handoff, Merge
  <1>4. CASE ClearSlots \/ TakeDisplay \/ Snapshot \/ Return
    BY <1>4 DEF ClearSlots, TakeDisplay, Snapshot, Return
  <1>5. CASE \E s \in Slots : DropHeld(s) \/ NotDue(s) \/ Present(s) \/ FrameDone(s)
    BY <1>5 DEF DropHeld, NotDue, Present, FrameDone, NextVisit
  <1>. QED
    BY <1>1, <1>2, <1>3, <1>4, <1>5 DEF Next, Network, FinishHandler, MainLoop, Application, Ending

(* What is on the inbox ring after a step.                                    *)
LEMMA EventElements ==
  ASSUME ArtInv
  PROVE  /\ PushEvent => \A i \in 1..Len(events') :
                            events'[i] = stream \/ (i \in 1..Len(events) /\ events'[i] = events[i])
         /\ events # <<>> => /\ 1 \in 1..Len(events) /\ Head(events) = events[1]
                             /\ events' = Tail(events) => \A i \in 1..Len(events') :
                                   i + 1 \in 1..Len(events) /\ events'[i] = events[i + 1]
  <1>1. events \in Seq(0..MaxStreams) /\ Len(events) \in Nat
    BY LenProperties DEF ArtInv, TypeOK
  <1>2. ASSUME PushEvent
        PROVE  \A i \in 1..Len(events') :
                  events'[i] = stream \/ (i \in 1..Len(events) /\ events'[i] = events[i])
    <2>1. stream \in 0..MaxStreams
      BY DEF ArtInv, TypeOK
    <2>2. CASE events' = events
      BY <2>2
    <2>3. CASE events' = Append(events, stream)
      <3>1. /\ Len(events') = Len(events) + 1 /\ events'[Len(events) + 1] = stream
            /\ \A i \in 1..Len(events) : events'[i] = events[i]
        BY <1>1, <2>1, <2>3, AppendProperties
      <3>. QED  BY <1>1, <3>1
    <2>. QED  BY <1>2, <2>2, <2>3 DEF PushEvent
  <1>3. ASSUME events # <<>>
        PROVE  /\ 1 \in 1..Len(events) /\ Head(events) = events[1]
               /\ events' = Tail(events) => \A i \in 1..Len(events') :
                     i + 1 \in 1..Len(events) /\ events'[i] = events[i + 1]
    <2>1. 1 \in 1..Len(events) /\ Head(events) = events[1]
      BY <1>1, <1>3
    <2>2. ASSUME events' = Tail(events)
          PROVE  \A i \in 1..Len(events') : i + 1 \in 1..Len(events) /\ events'[i] = events[i + 1]
      <3>1. /\ Len(events') = Len(events) - 1
            /\ \A i \in 1..Len(events') : events'[i] = events[i + 1]
        BY <1>1, <1>3, <2>2, HeadTailProperties
      <3>. QED  BY <1>1, <3>1
    <2>. QED  BY <2>1, <2>2
  <1>. QED  BY <1>2, <1>3

(* A stream that is ahead stays ahead when an end is handled.                 *)
LEMMA AheadOfHandled ==
  ASSUME ArtInv, HandleStreamEvent, NEW n, Ahead(n, over, events)
  PROVE  Ahead(n, over', events')
  BY EventElements DEF HandleStreamEvent, Ahead

(* What is timely stays so: an epoch ends before its stream does.             *)
LEMMA StillTimely ==
  ASSUME ArtInv, EndsBehind, Next, NEW d, d.epoch \in Nat, Timely(d)
  PROVE  Timely(d)'
  <1>. USE ItemFields DEF Timely
  <1>1. CASE StreamStart
    BY <1>1 DEF StreamStart
  <1>2. CASE StreamEnd
    BY <1>2 DEF StreamEnd
  <1>3. CASE EnqueueStreamEvent
    BY <1>3 DEF EnqueueStreamEvent, EndsBehind
  <1>4. CASE HandleStreamEvent
    BY <1>4, AheadOfHandled DEF HandleStreamEvent, serverVars
  <1>5. CASE DropConnection
    BY <1>5 DEF DropConnection
  <1>6. CASE CleanupPush
    BY <1>6 DEF CleanupPush, EndsBehind, serverVars
  <1>7. CASE Reconnect
    BY <1>7 DEF Reconnect, mainVars
  <1>8. CASE \E kind \in {"start", "end"} : Announce(kind)
    BY <1>8 DEF Announce, mainVars
  <1>9. CASE ~Ending /\ ~ \E kind \in {"start", "end"} : Announce(kind)
    BY <1>9, QuietStep
  <1>. QED  BY <1>1, <1>2, <1>3, <1>4, <1>5, <1>6, <1>7, <1>8, <1>9 DEF Ending

LEMMA EndsBehindStep ==
  ASSUME ArtInv, EndsBehind, Next
  PROVE  EndsBehind'
  <1>. USE ItemFields DEF EndsBehind
  <1>1. CASE StreamStart
    BY <1>1 DEF StreamStart, serverVars, mainVars
  <1>2. CASE StreamEnd
    BY <1>2 DEF StreamEnd, serverVars, mainVars
  <1>3. CASE EnqueueStreamEvent
    BY <1>3, EventElements DEF EnqueueStreamEvent, serverVars, mainVars
  <1>4. CASE HandleStreamEvent
    <2>1. over' <= stream /\ \A i \in 1..Len(events') : events'[i] <= stream
      BY <1>4, EventElements DEF HandleStreamEvent
    <2>2. streaming => Ahead(stream, over', events')
      BY <1>4, AheadOfHandled
    <2>. QED  BY <1>4, <2>1, <2>2 DEF HandleStreamEvent, serverVars, netVars
  <1>5. CASE DropConnection
    BY <1>5 DEF DropConnection, netVars
  <1>6. CASE CleanupPush
    BY <1>6, EventElements DEF CleanupPush, serverVars, netVars
  <1>7. CASE Reconnect
    BY <1>7 DEF Reconnect, netVars, mainVars
  <1>8. ASSUME NEW kind \in {"start", "end"}, Announce(kind)
        PROVE  EndsBehind'
    <2>1. CASE kind = "start"
      <3>1. stream' = stream + 1 /\ Ahead(stream + 1, over, events)
        BY <1>8, <2>1 DEF Announce, Ahead
      <3>. QED  BY <1>8, <2>1, <3>1 DEF Announce, mainVars
    <2>2. CASE kind = "end"
      BY <1>8, <2>2 DEF Announce, mainVars
    <2>. QED  BY <2>1, <2>2
  <1>9. CASE ~Ending /\ ~ \E kind \in {"start", "end"} : Announce(kind)
    BY <1>9, QuietStep
  <1>. QED
    <2>. HIDE DEF EndsBehind
    <2>. QED  BY <1>1, <1>2, <1>3, <1>4, <1>5, <1>6, <1>7, <1>8, <1>9 DEF Ending

LEMMA OfOpenStreamStep ==
  ASSUME ArtInv, EndsBehind, OfOpenStream, Next
  PROVE  OfOpenStream'
  <1>1. ASSUME NEW d \in Items'
        PROVE  Timely(d)'
    <2>1. d.epoch \in Nat /\ Timely(d)
      <3>1. CASE Descends(d)
        BY <3>1, ItemFields DEF Descends, OfOpenStream, Timely
      <3>2. CASE Sent(d)
        BY <3>2, ItemFields DEF Sent, OfOpenStream, Timely
      <3>. QED  BY <3>1, <3>2, ItemsDescend
    <2>. QED  BY <2>1, StillTimely
  <1>2. active' /\ npc' \in {"write", "notify"} => up' /\ Ahead(message'.stream, over', events')
    <2>1. CASE StreamStart \/ StreamEnd \/ EnqueueStreamEvent \/ DropConnection
      BY <2>1 DEF StreamStart, StreamEnd, EnqueueStreamEvent, DropConnection
    <2>2. CASE HandleStreamEvent
      BY <2>2, AheadOfHandled DEF HandleStreamEvent, OfOpenStream, serverVars, netVars
    <2>3. CASE CleanupPush
      BY <2>3 DEF CleanupPush, OfOpenStream, EndsBehind, serverVars, netVars
    <2>4. CASE Reconnect
      BY <2>4 DEF Reconnect, OfOpenStream, netVars, mainVars
    <2>5. CASE \E kind \in {"start", "end"} : Announce(kind)
      BY <2>5 DEF Announce
    <2>6. CASE ~Ending /\ ~ \E kind \in {"start", "end"} : Announce(kind)
      BY <2>6, QuietStep DEF OfOpenStream, EndsBehind
    <2>. QED  BY <2>1, <2>2, <2>3, <2>4, <2>5, <2>6 DEF Ending
  <1>. QED  BY <1>1, <1>2 DEF OfOpenStream

LEMMA OutOfDateStep ==
  ASSUME ArtInv, OfOpenStream, OutOfDate, Next
  PROVE  OutOfDate'
  <1>. USE ItemFields DEF OutOfDate
  <1>0. /\ display \in [Slots -> Display \cup {None}] /\ held \in [Slots -> Display \cup {None}]
        /\ dpc \in Working => notif.epoch <= epoch /\ notif.epoch \in Nat /\ notif.payload.slot \in Slots
        /\ \A s \in Slots : /\ display[s] # None => display[s].epoch <= epoch /\ display[s].epoch \in Nat
                            /\ held[s] # None => held[s].epoch <= epoch /\ held[s].epoch \in Nat
    BY ItemNames, EpochTypes DEF ArtInv, TypeOK, OfOpenStream, Timely
  <1>1. CASE StreamStart
    BY <1>1 DEF StreamStart
  <1>2. CASE StreamEnd \/ DropConnection
    BY <1>0, <1>2 DEF StreamEnd, DropConnection, Nothing, Working, mainVars, decodeVars
  <1>3. CASE Merge
    BY <1>0, <1>3 DEF Merge, Working, mainVars
  <1>4. CASE TakeDisplay
    BY <1>0, <1>4 DEF TakeDisplay, Nothing, Working, decodeVars
  <1>5. CASE HandleStreamEvent \/ ResetDisplay
    BY <1>0, <1>5 DEF HandleStreamEvent, ResetDisplay, Nothing, decodeVars, mainVars
  <1>6. CASE Handoff
    BY <1>0, <1>6 DEF Handoff, mainVars
  <1>7. CASE \E s \in Slots : DropHeld(s) \/ Present(s)
    BY <1>0, <1>7 DEF DropHeld, Present, decodeVars
  <1>8. ASSUME /\ UNCHANGED <<active, epoch, display, held, notif>>
               /\ dpc' = "merge" => dpc = "merge"
        PROVE  OutOfDate'
    BY <1>8
  <1>. HIDE DEF OutOfDate
  <1>. USE DEF serverVars, netVars, buffers, gates, decodeVars, mainVars
  <1>9. CASE \/ WriteBuffer \/ FailToAllocate \/ Notify \/ ResetGates \/ EnqueueStreamEvent
             \/ \E kind \in {"start", "end"} : Announce(kind)
             \/ \E s \in Slots, clear \in BOOLEAN : Binary(s, clear)
    BY <1>8, <1>9 DEF WriteBuffer, FailToAllocate, Notify, ResetGates, EnqueueStreamEvent, Announce, Binary
  <1>10. CASE Sweep \/ Receive \/ SkipStale \/ Park \/ Claim \/ Decoded
    <2>1. dpc' # "merge" /\ UNCHANGED <<active, epoch, display, held>>
      BY <1>10 DEF Sweep, Receive, SkipStale, Park, Claim, Decoded
    <2>. QED  BY <2>1 DEF OutOfDate
  <1>11. CASE \/ ClearSlots \/ Snapshot \/ Return \/ CleanupPush \/ Reconnect
              \/ \E s \in Slots : NotDue(s) \/ FrameDone(s)
    BY <1>8, <1>11 DEF ClearSlots, Snapshot, Return, CleanupPush, Reconnect, NotDue, FrameDone
  <1>. QED
    BY <1>1, <1>2, <1>3, <1>4, <1>5, <1>6, <1>7, <1>9, <1>10, <1>11
       DEF Next, Network, FinishHandler, DecodeThread, MainLoop, Application

(* The displays a visit finds in date when it begins are those of a stream    *)
(* that is not over, and remain so to its end.                                *)
LEMMA VisitsAheadStep ==
  ASSUME ArtInv, OfOpenStream, OutOfDate, VisitsAhead, Next
  PROVE  VisitsAhead'
  <1>0. held \in [Slots -> Display \cup {None}] /\ visit \subseteq Slots /\ (mpc = "loop" => visit = {})
    BY DEF ArtInv, TypeOK, InHand
  <1>. USE DEF serverVars, netVars, buffers, gates, decodeVars, mainVars
  <1>1. CASE Snapshot
    <2>1. ASSUME NEW s \in visit' \ stale'
          PROVE  held'[s].payload.stream > over'
      <3>1. s \in Slots /\ held[s] # None /\ held[s].epoch = epoch /\ held' = held /\ over' = over
        BY <1>1, <2>1 DEF Snapshot
      <3>2. active
        BY <3>1, ItemFields DEF OutOfDate
      <3>3. Timely(held[s])
        BY <3>1, ItemNames DEF OfOpenStream
      <3>. QED  BY <3>1, <3>2, <3>3 DEF Timely, Ahead
    <2>. QED  BY <2>1 DEF VisitsAhead
  <1>2. CASE HandleStreamEvent \/ TakeDisplay \/ DropConnection
    <2>1. visit' = {}
      BY <1>0, <1>2 DEF HandleStreamEvent, TakeDisplay, DropConnection
    <2>. QED  BY <2>1 DEF VisitsAhead
  <1>3. ASSUME NEW s \in Slots, DropHeld(s) \/ NotDue(s) \/ Present(s)
        PROVE  VisitsAhead'
    <2>1. /\ visit' = visit \ {s} /\ stale' = stale \ {s} /\ over' = over
          /\ held' = held \/ held' = [held EXCEPT ![s] = None]
      BY <1>3 DEF DropHeld, NotDue, Present, Visit
    <2>. QED  BY <1>0, <2>1 DEF VisitsAhead
  <1>4. CASE UNCHANGED <<visit, stale, held, over>>
    BY <1>4 DEF VisitsAhead
  <1>5. CASE Network \/ DecodeThread \/ ClearSlots \/ Return \/ CleanupPush \/ Reconnect \/ \E s \in Slots : FrameDone(s)
    <2>1. CASE Network
      BY <1>4, <2>1 DEF Network, FinishHandler, WriteBuffer, FailToAllocate, Notify, StreamStart, ResetDisplay, ResetGates,
         StreamEnd, EnqueueStreamEvent, Announce, Binary
    <2>2. CASE DecodeThread
      BY <1>4, <2>2 DEF DecodeThread, Sweep, Receive, SkipStale, Park, Claim, Decoded, Handoff, Merge
    <2>3. CASE ClearSlots \/ Return \/ CleanupPush \/ Reconnect \/ \E s \in Slots : FrameDone(s)
      BY <1>4, <2>3 DEF ClearSlots, Return, CleanupPush, Reconnect, FrameDone
    <2>. QED  BY <1>5, <2>1, <2>2, <2>3
  <1>. QED  BY <1>1, <1>2, <1>3, <1>5 DEF Next, MainLoop, Application

LEMMA NothingAfterEndStep ==
  ASSUME ArtInv, VisitsAhead, NothingAfterEnd, Next
  PROVE  NothingAfterEnd'
  <1>0. shown \in [Slots -> Payload \cup {None}]
    BY DEF ArtInv, TypeOK
  <1>. USE DEF serverVars, netVars, buffers, gates, decodeVars, mainVars
  <1>1. CASE HandleStreamEvent
    BY <1>1 DEF HandleStreamEvent, NothingAfterEnd
  <1>2. CASE ClearSlots
    BY <1>2 DEF ClearSlots, NothingAfterEnd, Nothing
  <1>3. ASSUME NEW s \in Slots, Present(s)
        PROVE  NothingAfterEnd'
    <2>1. /\ s \in visit \ stale /\ mpc = "visit" /\ over' = over
          /\ shown' = [shown EXCEPT ![s] = held[s].payload]
      BY <1>3 DEF Present, Visit
    <2>2. held[s].payload.stream > over
      BY <2>1 DEF VisitsAhead
    <2>. QED  BY <1>0, <2>1, <2>2 DEF NothingAfterEnd
  <1>4. CASE UNCHANGED <<shown, over>> /\ (mpc = "gates" => mpc' = "gates")
    BY <1>4 DEF NothingAfterEnd
  <1>5. CASE Network
    BY <1>4, <1>5 DEF Network, FinishHandler, WriteBuffer, FailToAllocate, Notify, StreamStart, ResetDisplay, ResetGates,
       StreamEnd, EnqueueStreamEvent, Announce, Binary
  <1>6. CASE DecodeThread
    BY <1>4, <1>6 DEF DecodeThread, Sweep, Receive, SkipStale, Park, Claim, Decoded, Handoff, Merge
  <1>7. CASE TakeDisplay \/ Snapshot \/ Return \/ CleanupPush \/ DropConnection \/ Reconnect
    BY <1>4, <1>7 DEF TakeDisplay, Snapshot, Return, CleanupPush, DropConnection, Reconnect
  <1>8. CASE \E s \in Slots : DropHeld(s) \/ NotDue(s) \/ FrameDone(s)
    BY <1>4, <1>8 DEF DropHeld, NotDue, FrameDone, Visit
  <1>. QED  BY <1>1, <1>2, <1>3, <1>5, <1>6, <1>7, <1>8 DEF Next, MainLoop, Application

(* The inductive invariant behind the theorem below.                          *)
THEOREM EndInvariant == Spec => []EndInv
  <1>1. Init => EndInv
    <2>. SUFFICES ASSUME Init PROVE EndInv
      OBVIOUS
    <2>1. Items = {}
      BY DEF Init, Items, Nothing, Working
    <2>2. 1..Len(events) = {} /\ ~active /\ ~streaming /\ over <= stream
      BY DEF Init
    <2>3. EndsBehind /\ OfOpenStream
      BY <2>1, <2>2 DEF Init, EndsBehind, OfOpenStream
    <2>4. OutOfDate /\ VisitsAhead /\ NothingAfterEnd
      BY DEF Init, OutOfDate, VisitsAhead, NothingAfterEnd, Nothing
    <2>. QED  BY <2>3, <2>4 DEF EndInv
  <1>2. ArtInv /\ EndInv /\ [Next]_vars => EndInv'
    <2>1. ASSUME EndInv, UNCHANGED vars
          PROVE  EndInv'
      BY <2>1 DEF EndInv, EndsBehind, OfOpenStream, Items, Timely, OutOfDate, VisitsAhead, NothingAfterEnd,
                  vars, serverVars, netVars, buffers, gates, decodeVars, mainVars
    <2>. QED
      BY <2>1, EndsBehindStep, OfOpenStreamStep, OutOfDateStep, VisitsAheadStep, NothingAfterEndStep DEF EndInv
  <1>. QED  BY <1>1, <1>2, ArtworkInvariant, PTL DEF Spec

(* However the server paces its streams, and whenever a connection is lost,   *)
(* nothing of a stream is displayed once the listener was given the clears of *)
(* its end: handle_stream_ring_event() cancels what waits, and the epoch      *)
(* makes stale what the decode thread hands over later.                       *)
THEOREM ArtworkNothingAfterEnd == Spec => []NothingAfterEnd
  <1>1. EndInv => NothingAfterEnd
    BY DEF EndInv
  <1>. QED  BY <1>1, EndInvariant, PTL
=============================================================================
