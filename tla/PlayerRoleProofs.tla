-------------------------- MODULE PlayerRoleProofs --------------------------
(* Proofs about the sync thread in any environment that SyncTask allows, and    *)
(* about the player role, which implements such an environment: for any set of  *)
(* tags, any capacity of the queues and of the ring buffer, and any number of   *)
(* streams, seeks and teardowns.  What needs a paced server assumes so.         *)
EXTENDS PlayerRole, SequenceTheorems, TLAPS

(* The sync thread.                                                             *)
(* What the three state properties and the type invariant need of each          *)
(* other is nothing more than their conjunction.                                *)
Inv == TypeOK /\ BorrowDiscipline /\ DecodesIntoEmpty /\ RunningBit

-----------------------------------------------------------------------------
(* A chunk is never mistaken for the absence of one.                            *)
LEMMA ChunkIsSome == NoChunk \notin Chunk
  BY SyncTaskAssumption DEF Chunk, NoChunk, Kinds

(* The operations on the ring buffer keep it a bounded sequence of chunks.      *)
LEMMA RingOps ==
  ASSUME NEW r \in Seq(Chunk), Len(r) <= RingCap
  PROVE  /\ r # <<>> => /\ Head(r) \in Chunk
                        /\ Tail(r) \in Seq(Chunk)
                        /\ Len(Tail(r)) <= RingCap
         /\ \A c \in Chunk : Len(r) < RingCap =>
               /\ Append(r, c) \in Seq(Chunk)
               /\ Len(Append(r, c)) <= RingCap
               /\ r # <<>> => Append(r, c) # <<>> /\ Head(Append(r, c)) = Head(r)
  <1>1. ASSUME r # <<>>
        PROVE  Head(r) \in Chunk /\ Tail(r) \in Seq(Chunk) /\ Len(Tail(r)) <= RingCap
    <2>1. Len(r) \in Nat /\ RingCap \in Nat
      BY SyncTaskAssumption
    <2>2. Head(r) \in Chunk /\ Tail(r) \in Seq(Chunk) /\ Len(Tail(r)) = Len(r) - 1
      BY <1>1, HeadTailProperties
    <2>. QED  BY <2>1, <2>2
  <1>2. ASSUME NEW c \in Chunk, Len(r) < RingCap
        PROVE  /\ Append(r, c) \in Seq(Chunk)
               /\ Len(Append(r, c)) <= RingCap
               /\ r # <<>> => Append(r, c) # <<>> /\ Head(Append(r, c)) = Head(r)
    BY <1>2, AppendProperties, SyncTaskAssumption
  <1>. QED  BY <1>1, <1>2

LEMMA ReturnOK ==
  ASSUME TypeOK, BorrowDiscipline, ReturnEntry
  PROVE  /\ ring' \in Seq(Chunk) /\ Len(ring') <= RingCap
         /\ entry' = NoChunk /\ lent' = FALSE
  BY RingOps DEF TypeOK, BorrowDiscipline, ReturnEntry

LEMMA ReceiveOK ==
  ASSUME TypeOK, ReceiveInto
  PROVE  /\ ring # <<>> /\ ring' = ring
         /\ lent' = TRUE /\ entry' = Head(ring)
         /\ entry' \in Chunk /\ entry' # NoChunk
  BY RingOps, ChunkIsSome DEF TypeOK, ReceiveInto

LEMMA PopOK ==
  ASSUME TypeOK, ReceiveAndReturn
  PROVE  /\ ring' \in Seq(Chunk) /\ Len(ring') <= RingCap
         /\ entry' = entry /\ lent' = lent
  BY RingOps DEF TypeOK, ReceiveAndReturn


LEMMA EntryOK ==
  ASSUME TypeOK, entry.kind \in Kinds
  PROVE  entry # NoChunk /\ entry.tag \in Tags
  BY SyncTaskAssumption DEF TypeOK, Chunk, NoChunk, Kinds

-----------------------------------------------------------------------------
(* One step of the thread, action by action.                                    *)
LEMMA ThreadStep ==
  ASSUME Inv, ThreadEntry
  PROVE  Inv'
  <1>. USE SyncTaskAssumption DEF Inv, TypeOK, BorrowDiscipline, DecodesIntoEmpty, RunningBit,
           Locations, Idling, Active, SyncTaskState, Goto, Decoded, EventGroupBits, Commands, Kinds
  <1>1. CASE EnterIdle
    <2>1. TypeOK'
      BY <1>1 DEF EnterIdle, Emptied
    <2>2. BorrowDiscipline'
      BY <1>1 DEF EnterIdle, Emptied
    <2>3. DecodesIntoEmpty'
      BY <1>1 DEF EnterIdle, Emptied
    <2>4. RunningBit'
      BY <1>1 DEF EnterIdle, Emptied
    <2>. QED  BY <2>1, <2>2, <2>3, <2>4
  <1>2. CASE WaitTest
    BY <1>2 DEF WaitTest
  <1>3. CASE WaitReceive
    BY <1>3, ReceiveOK, PopOK DEF WaitReceive
  <1>4. CASE Woke
    BY <1>4 DEF Woke
  <1>5. CASE NoHeader
    BY <1>5 DEF NoHeader
  <1>6. CASE Drain
    BY <1>6, ReceiveOK, PopOK DEF Drain
  <1>7. CASE AckWait
    BY <1>7 DEF AckWait
  <1>8. CASE Acked
    BY <1>8, ReturnOK DEF Acked
  <1>9. CASE Activate
    BY <1>9 DEF Activate
  <1>10. CASE SetRunning
    BY <1>10 DEF SetRunning
  <1>11. CASE DecodeFirstHeader
    <2>1. TypeOK'
      BY <1>11, ReturnOK, EntryOK DEF DecodeFirstHeader, DecodeHeader
    <2>2. BorrowDiscipline'
      BY <1>11, ReturnOK, EntryOK DEF DecodeFirstHeader, DecodeHeader
    <2>3. DecodesIntoEmpty'
      BY <1>11, ReturnOK, EntryOK DEF DecodeFirstHeader, DecodeHeader
    <2>4. RunningBit'
      BY <1>11, ReturnOK, EntryOK DEF DecodeFirstHeader, DecodeHeader
    <2>. QED  BY <2>1, <2>2, <2>3, <2>4
  <1>12. CASE InnerLeave
    BY <1>12 DEF InnerLeave
  <1>13. CASE DiscardEntry
    BY <1>13, ReturnOK DEF DiscardEntry
  <1>14. CASE Flush
    BY <1>14, PopOK DEF Flush
  <1>15. CASE Apply
    BY <1>15 DEF Apply, ApplyStreamClear, Emptied
  <1>16. CASE InitialSync
    BY <1>16 DEF InitialSync, Step
  <1>17. CASE LoadChunk
    BY <1>17 DEF LoadChunk, Step
  <1>18. CASE LoadReceive
    <2>1. CASE ring = <<>> /\ Goto("inner") /\ UNCHANGED <<ring, lent, entry>>
      <3>1. TypeOK'
        BY <1>18, <2>1 DEF LoadReceive
      <3>2. BorrowDiscipline'
        BY <1>18, <2>1 DEF LoadReceive
      <3>3. DecodesIntoEmpty'
        BY <1>18, <2>1 DEF LoadReceive
      <3>4. RunningBit'
        BY <1>18, <2>1 DEF LoadReceive
      <3>. QED  BY <3>1, <3>2, <3>3, <3>4
    <2>2. CASE ReceiveInto /\ Goto("decode")
      <3>1. TypeOK'
        BY <1>18, <2>2, ReceiveOK DEF LoadReceive
      <3>2. BorrowDiscipline'
        BY <1>18, <2>2, ReceiveOK DEF LoadReceive
      <3>3. DecodesIntoEmpty'
        BY <1>18, <2>2, ReceiveOK DEF LoadReceive
      <3>4. RunningBit'
        BY <1>18, <2>2, ReceiveOK DEF LoadReceive
      <3>. QED  BY <3>1, <3>2, <3>3, <3>4
    <2>. QED  BY <1>18, <2>1, <2>2 DEF LoadReceive
  <1>19. CASE DecodeMarker
    BY <1>19, ReturnOK DEF DecodeMarker, Decoding, ApplyStreamClear, Emptied
  <1>20. CASE DecodeNewHeader
    <2>1. TypeOK'
      BY <1>20, ReturnOK, EntryOK DEF DecodeNewHeader, Decoding, DecodeHeader
    <2>2. BorrowDiscipline'
      BY <1>20, ReturnOK, EntryOK DEF DecodeNewHeader, Decoding, DecodeHeader
    <2>3. DecodesIntoEmpty'
      BY <1>20, ReturnOK, EntryOK DEF DecodeNewHeader, Decoding, DecodeHeader
    <2>4. RunningBit'
      BY <1>20, ReturnOK, EntryOK DEF DecodeNewHeader, Decoding, DecodeHeader
    <2>. QED  BY <2>1, <2>2, <2>3, <2>4
  <1>21. CASE SkipAudio
    <2>1. TypeOK'
      BY <1>21, ReturnOK DEF SkipAudio, Decoding
    <2>2. BorrowDiscipline'
      BY <1>21, ReturnOK DEF SkipAudio, Decoding
    <2>3. DecodesIntoEmpty'
      BY <1>21, ReturnOK DEF SkipAudio, Decoding
    <2>4. RunningBit'
      BY <1>21, ReturnOK DEF SkipAudio, Decoding
    <2>. QED  BY <2>1, <2>2, <2>3, <2>4
  <1>22. CASE DecodeAudio
    <2>1. TypeOK'
      BY <1>22, ReturnOK, EntryOK DEF DecodeAudio, Decoding
    <2>2. BorrowDiscipline'
      BY <1>22, ReturnOK, EntryOK DEF DecodeAudio, Decoding
    <2>3. DecodesIntoEmpty'
      BY <1>22, ReturnOK, EntryOK DEF DecodeAudio, Decoding
    <2>4. RunningBit'
      BY <1>22, ReturnOK, EntryOK DEF DecodeAudio, Decoding
    <2>. QED  BY <2>1, <2>2, <2>3, <2>4
  <1>23. CASE DecodeIntoNull
    <2>1. CASE Goto("crashed") /\ UNCHANGED <<ring, lent, entry>>
      <3>1. TypeOK'
        BY <1>23, <2>1 DEF DecodeIntoNull, Decoding
      <3>2. BorrowDiscipline'
        BY <1>23, <2>1 DEF DecodeIntoNull, Decoding
      <3>3. DecodesIntoEmpty'
        BY <1>23, <2>1 DEF DecodeIntoNull, Decoding
      <3>4. RunningBit'
        BY <1>23, <2>1 DEF DecodeIntoNull, Decoding
      <3>. QED  BY <3>1, <3>2, <3>3, <3>4
    <2>2. CASE Goto("inner") /\ ReturnEntry
      <3>1. TypeOK'
        BY <1>23, <2>2, ReturnOK DEF DecodeIntoNull, Decoding
      <3>2. BorrowDiscipline'
        BY <1>23, <2>2, ReturnOK DEF DecodeIntoNull, Decoding
      <3>3. DecodesIntoEmpty'
        BY <1>23, <2>2, ReturnOK DEF DecodeIntoNull, Decoding
      <3>4. RunningBit'
        BY <1>23, <2>2, ReturnOK DEF DecodeIntoNull, Decoding
      <3>. QED  BY <3>1, <3>2, <3>3, <3>4
    <2>. QED  BY <1>23, <2>1, <2>2 DEF DecodeIntoNull
  <1>24. CASE SynchronizeAudio
    BY <1>24 DEF SynchronizeAudio, Step
  <1>25. CASE TransferAudio
    BY <1>25 DEF TransferAudio, Step
  <1>26. CASE Leave
    BY <1>26, ReturnOK DEF Leave
  <1>27. CASE Stopped
    BY <1>27 DEF Stopped
  <1>. QED
    BY <1>1, <1>2, <1>3, <1>4, <1>5, <1>6, <1>7, <1>8, <1>9, <1>10, <1>11, <1>12, <1>13, <1>14, <1>15, <1>16, <1>17, <1>18, <1>19, <1>20, <1>21, <1>22, <1>23, <1>24, <1>25, <1>26, <1>27
    DEF ThreadEntry

-----------------------------------------------------------------------------
(* The other threads disturb nothing: the bits they set are commands, and a     *)
(* chunk written behind the one on loan leaves it the oldest.                   *)
LEMMA SignalStep ==
  ASSUME Inv, NEW bit \in Commands, Signal(bit)
  PROVE  Inv'
  <1>1. TypeOK'
    BY DEF Inv, TypeOK, Signal, svars, Commands, EventGroupBits
  <1>2. BorrowDiscipline' /\ DecodesIntoEmpty'
    BY DEF Inv, BorrowDiscipline, DecodesIntoEmpty, Signal, svars, Decoded
  <1>3. RunningBit'
    BY DEF Inv, RunningBit, Signal, svars, Commands
  <1>. QED  BY <1>1, <1>2, <1>3 DEF Inv

LEMMA WriteStep ==
  ASSUME Inv, NEW chunk \in Chunk, WriteChunk(chunk)
  PROVE  Inv'
  <1>1. TypeOK'
    BY RingOps DEF Inv, TypeOK, WriteChunk, svars
  <1>2. BorrowDiscipline'
    BY RingOps DEF Inv, TypeOK, BorrowDiscipline, WriteChunk, svars
  <1>3. DecodesIntoEmpty' /\ RunningBit'
    BY DEF Inv, DecodesIntoEmpty, RunningBit, WriteChunk, svars, Decoded
  <1>. QED  BY <1>1, <1>2, <1>3 DEF Inv

LEMMA InitInv == Init => Inv
  <1>. SUFFICES ASSUME Init PROVE Inv
    OBVIOUS
  <1>1. ring \in Seq(Chunk) /\ Len(ring) <= RingCap
    BY SyncTaskAssumption DEF Init
  <1>2. TypeOK
    BY <1>1 DEF Init, TypeOK, Locations, Idling, SyncTaskState
  <1>3. BorrowDiscipline /\ DecodesIntoEmpty /\ RunningBit
    BY SyncTaskAssumption DEF Init, BorrowDiscipline, DecodesIntoEmpty, RunningBit, Idling, Active, Decoded
  <1>. QED  BY <1>2, <1>3 DEF Inv

LEMMA NextInv == Inv /\ [Next]_vars => Inv'
  <1>. SUFFICES ASSUME Inv, [Next]_vars PROVE Inv'
    OBVIOUS
  <1>1. CASE ThreadEntry
    BY <1>1, ThreadStep
  <1>2. CASE Environment
    BY <1>2, SignalStep, WriteStep DEF Environment
  <1>3. CASE UNCHANGED vars
    BY <1>3 DEF vars, Inv, TypeOK, BorrowDiscipline, DecodesIntoEmpty, RunningBit, Decoded
  <1>. QED  BY <1>1, <1>2, <1>3 DEF Next

(* The invariant, for every environment.                                        *)
THEOREM SyncTaskInvariant == Spec => []Inv
  BY InitInv, NextInv, PTL DEF Spec

(* The variables keep their types; in particular the ring buffer never holds    *)
(* more than it can.                                                            *)
THEOREM SyncTaskTypeOK == Spec => []TypeOK
  BY SyncTaskInvariant, PTL DEF Inv

(* No chunk of the ring buffer is received twice or leaked, whatever the other  *)
(* threads signal and write, and whenever (sync_task.cpp:446-457, 639-727).     *)
THEOREM SyncTaskBorrows == Spec => []BorrowDiscipline
  BY SyncTaskInvariant, PTL DEF Inv

(* The branch of decode_chunk() for audio that waits already is never taken     *)
(* (sync_task.cpp:539-542).                                                     *)
THEOREM SyncTaskDecodesIntoEmpty == Spec => []DecodesIntoEmpty
  BY SyncTaskInvariant, PTL DEF Inv

(* is_running() tells the active state from the idle one (sync_task.h:139-149). *)
THEOREM SyncTaskRunningBit == Spec => []RunningBit
  BY SyncTaskInvariant, PTL DEF Inv

-----------------------------------------------------------------------------
(* CodecHasBuffer rests on the invariant only for the type of the chunk on      *)
(* loan: a header's tag is not one of the empty buffers.                        *)
LEMMA CodecStep == Inv /\ CodecHasBuffer /\ [Next]_vars => CodecHasBuffer'
  <1>. SUFFICES ASSUME Inv, CodecHasBuffer, [Next]_vars, ~AllocFails PROVE CodecHasBuffer'
    BY DEF CodecHasBuffer
  <1>. USE SyncTaskAssumption DEF CodecHasBuffer
  <1>1. CASE EnterIdle
    BY <1>1 DEF EnterIdle, Goto, Emptied
  <1>2. CASE DecodeFirstHeader \/ DecodeNewHeader
    BY <1>2 DEF DecodeFirstHeader, DecodeNewHeader, DecodeHeader, Goto
  <1>3. CASE Apply \/ DecodeMarker
    BY <1>3 DEF Apply, DecodeMarker, ApplyStreamClear, Emptied, Goto
  <1>4. CASE DecodeAudio
    <2>1. dbuf' \in Tags
      BY <1>4, EntryOK DEF Inv, DecodeAudio, Kinds
    <2>. QED  BY <1>4, <2>1 DEF DecodeAudio, Goto
  <1>5. CASE SynchronizeAudio \/ TransferAudio
    BY <1>5 DEF SynchronizeAudio, TransferAudio, Step
  <1>6. CASE DecodeIntoNull
    BY <1>6 DEF DecodeIntoNull
  <1>7. CASE UNCHANGED <<codec, dbuf>> /\ spc' # "crashed"
    BY <1>7
  <1>8. ASSUME \/ WaitTest \/ WaitReceive \/ Woke \/ NoHeader \/ Drain \/ AckWait \/ Acked
               \/ Activate \/ SetRunning \/ InnerLeave \/ DiscardEntry \/ Flush
        PROVE  UNCHANGED <<codec, dbuf>> /\ spc' # "crashed"
    BY <1>8 DEF WaitTest, WaitReceive, Woke, NoHeader, Drain, AckWait, Acked, Activate,
                SetRunning, InnerLeave, DiscardEntry, Flush, Goto
  <1>9. ASSUME \/ InitialSync \/ LoadChunk \/ LoadReceive \/ SkipAudio \/ Leave \/ Stopped
               \/ Environment \/ UNCHANGED vars
        PROVE  UNCHANGED <<codec, dbuf>> /\ spc' # "crashed"
    BY <1>9 DEF InitialSync, LoadChunk, LoadReceive, SkipAudio, Leave, Stopped, Step, Goto,
                Environment, Signal, WriteChunk, svars, vars
  <1>. QED
    BY <1>1, <1>2, <1>3, <1>4, <1>5, <1>6, <1>7, <1>8, <1>9 DEF Next, ThreadEntry

(* Where no allocation fails, no audio is decoded without a buffer              *)
(* (sync_task.cpp:604-607).                                                     *)
THEOREM SyncTaskCodecHasBuffer == Spec => []CodecHasBuffer
  <1>1. Init => CodecHasBuffer
    BY DEF Init, CodecHasBuffer
  <1>. QED  BY <1>1, CodecStep, SyncTaskInvariant, PTL DEF Spec

(* Whatever the other threads do, audio is decoded into an allocated buffer     *)
(* with nothing in it (sync_task.cpp:677-700, 869-890).                         *)
THEOREM SyncTaskDecodeBuffer == Spec => []DecodeBufferReady
  BY SyncTaskDecodesIntoEmpty, SyncTaskCodecHasBuffer, PTL DEF DecodeBufferReady

-----------------------------------------------------------------------------
(* The player role.                                                             *)
(* A message about a stream follows the start of one.                           *)
HasStream == streaming \/ npc # "none" => stream # 0

(* A STREAM_START names a stream, whether it waits in the inbox ring or in      *)
(* awaiting_sync_idle_events.                                                   *)
Named(events) == \A i \in 1..Len(events) : events[i].type = "STREAM_START" => events[i].stream # 0
StartsNamed == Named(inbox) /\ Named(awaiting)

(* HighPerfForStream between two passes of the main loop rests on what holds    *)
(* inside one: only a teardown that has not come to its end holds the request   *)
(* for a stream the listener was told is over.                                  *)
HighPerfHeld == highPerf => heard # 0 \/ mpc \in {"signalEnd", "reset", "finish"}

PlayerInv == Inv /\ PlayerTypeOK /\ HasStream /\ StartsNamed /\ HighPerfHeld

-----------------------------------------------------------------------------
(* A chunk the network thread writes is tagged with a stream and a seek of      *)
(* the server's.                                                                *)
LEMMA ServerChunk ==
  ASSUME NEW k \in Kinds, NEW n \in 1..MaxStreams, NEW s \in 0..MaxSeeks
  PROVE  [kind |-> k, tag |-> <<n, s>>] \in Chunk
  <1>1. <<n, s>> \in Tags
    BY PlayerAssumption
  <1>. QED  BY <1>1 DEF Chunk

(* What the main loop and the network thread do with a queue of events.         *)
LEMMA EventQueue ==
  ASSUME NEW q \in Seq(Event), Named(q)
  PROVE  /\ \A e \in Event : (e.type = "STREAM_START" => e.stream # 0)
               => Append(q, e) \in Seq(Event) /\ Named(Append(q, e)) /\ Len(Append(q, e)) = Len(q) + 1
         /\ q # <<>> => /\ Head(q) \in Event
                        /\ Head(q).type = "STREAM_START" => Head(q).stream # 0
                        /\ Tail(q) \in Seq(Event) /\ Named(Tail(q))
         /\ \A r \in Seq(Event) : Named(r) => q \o r \in Seq(Event) /\ Named(q \o r)
  <1>1. ASSUME NEW e \in Event, e.type = "STREAM_START" => e.stream # 0
        PROVE  Append(q, e) \in Seq(Event) /\ Named(Append(q, e)) /\ Len(Append(q, e)) = Len(q) + 1
    BY <1>1, AppendProperties DEF Named
  <1>2. ASSUME q # <<>>
        PROVE  /\ Head(q) \in Event
               /\ Head(q).type = "STREAM_START" => Head(q).stream # 0
               /\ Tail(q) \in Seq(Event) /\ Named(Tail(q))
    BY <1>2, HeadTailProperties DEF Named
  <1>3. ASSUME NEW r \in Seq(Event), Named(r)
        PROVE  q \o r \in Seq(Event) /\ Named(q \o r)
    BY <1>3, ConcatProperties DEF Named
  <1>. QED  BY <1>1, <1>2, <1>3

LEMMA PushOK ==
  ASSUME PlayerTypeOK, StartsNamed, NEW e \in Event,
         e.type = "STREAM_START" => e.stream # 0, Push(e)
  PROVE  inbox' \in Seq(Event) /\ Len(inbox') <= InboxCap /\ Named(inbox')
  BY EventQueue, PlayerAssumption DEF PlayerTypeOK, StartsNamed, Push

-----------------------------------------------------------------------------
(* Every step of the closed system is one the open sync thread allows: its      *)
(* own, a bit set, a chunk written, or nothing it can see.                      *)
LEMMA PlayerStepIsOpenStep ==
  ASSUME PlayerTypeOK, HasStream, [PlayerNext]_pvars
  PROVE  [Next]_vars
  <1>. USE PlayerAssumption
  <1>1. CASE SyncThread
    BY <1>1 DEF SyncThread, Next
  <1>2. CASE Network
    <2>1. CASE StreamStart
      <3>1. stream + 1 \in 1..MaxStreams /\ 0 \in 0..MaxSeeks
        BY <2>1 DEF StreamStart, PlayerTypeOK
      <3>2. [kind |-> "header", tag |-> <<stream + 1, 0>>] \in Chunk
        BY <3>1, ServerChunk DEF Kinds
      <3>. QED  BY <2>1, <3>2 DEF StreamStart, Next, Environment
    <2>2. CASE WriteMarker
      <3>1. CASE WriteChunk([kind |-> "marker", tag |-> <<stream, seek>>])
        <4>1. stream \in 1..MaxStreams /\ seek \in 0..MaxSeeks
          BY <2>2 DEF WriteMarker, PlayerTypeOK, HasStream
        <4>2. [kind |-> "marker", tag |-> <<stream, seek>>] \in Chunk
          BY <4>1, ServerChunk DEF Kinds
        <4>. QED  BY <3>1, <4>2 DEF Next, Environment
      <3>. QED  BY <2>2, <3>1 DEF WriteMarker
    <2>3. CASE Binary
      <3>1. stream \in 1..MaxStreams /\ seek \in 0..MaxSeeks
        BY <2>3 DEF Binary, PlayerTypeOK, HasStream
      <3>2. [kind |-> "audio", tag |-> <<stream, seek>>] \in Chunk
        BY <3>1, ServerChunk DEF Kinds
      <3>. QED  BY <2>3, <3>2 DEF Binary, Next, Environment
    <2>4. CASE StreamStartFails \/ StreamEnd \/ StreamClear
      BY <2>4 DEF StreamStartFails, StreamEnd, StreamClear, Next, Environment, Commands
    <2>5. CASE WriteParams \/ PushStart \/ PushEnd
      BY <2>5 DEF WriteParams, PushStart, PushEnd
    <2>. QED  BY <1>2, <2>1, <2>2, <2>3, <2>4, <2>5 DEF Network
  <1>3. CASE OnStreamStart \/ CleanupSignal \/ Stop
    BY <1>3 DEF OnStreamStart, CleanupSignal, Stop, Next, Environment, Commands
  <1>4. CASE TakeEvents \/ Snapshot \/ LeaveEvents \/ OnStreamEnd \/ CleanupReset \/ CleanupFinish \/ Join
    BY <1>4 DEF TakeEvents, Snapshot, LeaveEvents, OnStreamEnd, CleanupReset, CleanupFinish, Join
  <1>5. CASE DropConnection \/ TeardownInStart \/ TeardownInEnd \/ Reconnect
    BY <1>5 DEF DropConnection, TeardownInStart, TeardownInEnd, Reconnect
  <1>6. CASE UNCHANGED pvars
    BY <1>6 DEF pvars
  <1>. QED
    BY <1>1, <1>2, <1>3, <1>4, <1>5, <1>6 DEF PlayerNext, Main, Application

(* What PlayerTypeOK says of the variables that are not SyncTask's, the truth   *)
(* values apart from the rest.                                                  *)
TruthValuesOK ==
    /\ up \in BOOLEAN /\ streaming \in BOOLEAN /\ syncIdle \in BOOLEAN
    /\ highPerf \in BOOLEAN /\ markerLost \in BOOLEAN
OwnTypeOK ==
    /\ stream \in 0..MaxStreams /\ seek \in 0..MaxSeeks /\ sent \in 0..MaxAudio /\ drops \in 0..MaxDrops
    /\ npc \in {"none", "params", "pushStart", "pushEnd", "marker"}
    /\ params \in 0..MaxStreams
    /\ inbox \in Seq(Event) /\ Len(inbox) <= InboxCap
    /\ mpc \in {"loop", "snapshot", "events", "signalEnd", "reset", "finish", "join", "gone"}
    /\ awaiting \in Seq(Event)
    /\ current \in 0..MaxStreams /\ heard \in 0..MaxStreams
    /\ running \in 0..MaxStreams /\ cleared \in 0..MaxSeeks

Own == TruthValuesOK /\ OwnTypeOK /\ HasStream /\ StartsNamed /\ HighPerfHeld

LEMMA NetworkStep ==
  ASSUME PlayerInv, Network
  PROVE  Own'
  <1>. USE PlayerAssumption
       DEF PlayerInv, PlayerTypeOK, Own, TruthValuesOK, OwnTypeOK, HasStream, HighPerfHeld,
           mainVars, serverVars, ghosts, netVars, Begin
  <1>1. CASE StreamStart
    BY <1>1 DEF StreamStart, StartsNamed
  <1>2. CASE StreamStartFails
    BY <1>2 DEF StreamStartFails, StartsNamed
  <1>3. CASE WriteParams
    BY <1>3 DEF WriteParams, StartsNamed
  <1>4. CASE PushStart
    <2>1. [type |-> "STREAM_START", stream |-> stream] \in Event /\ stream # 0
      BY <1>4 DEF PushStart, Event
    <2>2. inbox' \in Seq(Event) /\ Len(inbox') <= InboxCap /\ Named(inbox')
      BY <1>4, <2>1, PushOK DEF PushStart
    <2>. QED  BY <1>4, <2>2 DEF PushStart, StartsNamed
  <1>5. CASE StreamEnd
    BY <1>5 DEF StreamEnd, StartsNamed
  <1>6. CASE PushEnd
    <2>1. [type |-> "STREAM_END", stream |-> stream] \in Event
      BY <1>6 DEF PushEnd, Event
    <2>2. inbox' \in Seq(Event) /\ Len(inbox') <= InboxCap /\ Named(inbox')
      BY <1>6, <2>1, PushOK DEF PushEnd
    <2>. QED  BY <1>6, <2>2 DEF PushEnd, StartsNamed
  <1>7. CASE StreamClear
    BY <1>7 DEF StreamClear, StartsNamed
  <1>8. CASE WriteMarker
    BY <1>8 DEF WriteMarker, StartsNamed
  <1>9. CASE Binary
    BY <1>9 DEF Binary, StartsNamed
  <1>. QED
    BY <1>1, <1>2, <1>3, <1>4, <1>5, <1>6, <1>7, <1>8, <1>9 DEF Network

LEMMA HearStartOK ==
  ASSUME PlayerInv, HearStart
  PROVE  /\ heard' \in Streams /\ current' \in 0..MaxStreams /\ params' = 0
         /\ Tail(awaiting) \in Seq(Event) /\ Named(Tail(awaiting))
  <1>1. /\ Head(awaiting) \in Event /\ Head(awaiting).stream # 0
        /\ Tail(awaiting) \in Seq(Event) /\ Named(Tail(awaiting))
    BY EventQueue DEF PlayerInv, PlayerTypeOK, StartsNamed, HearStart
  <1>. QED  BY <1>1, PlayerAssumption DEF HearStart, Event, Streams, PlayerInv, PlayerTypeOK

LEMMA MainStep ==
  ASSUME PlayerInv, Main \/ Application
  PROVE  Own'
  <1>. USE PlayerAssumption
       DEF PlayerInv, PlayerTypeOK, Own, TruthValuesOK, OwnTypeOK, HasStream, HighPerfHeld,
           mainVars, serverVars, ghosts, netVars, Teardown
  <1>0. <<>> \in Seq(Event) /\ Len(<<>>) <= InboxCap /\ Named(<<>>)
    BY DEF Named
  <1>1. CASE TakeEvents
    <2>1. awaiting \o inbox \in Seq(Event) /\ Named(awaiting \o inbox)
      BY EventQueue DEF StartsNamed
    <2>. QED  BY <1>0, <1>1, <2>1 DEF TakeEvents, StartsNamed
  <1>2. CASE Snapshot
    BY <1>2 DEF Snapshot, StartsNamed
  <1>3. CASE LeaveEvents
    BY <1>3 DEF LeaveEvents, StartsNamed
  <1>4. CASE OnStreamEnd
    <2>1. Tail(awaiting) \in Seq(Event) /\ Named(Tail(awaiting))
      BY <1>4, EventQueue DEF OnStreamEnd, StartsNamed
    <2>2. TruthValuesOK' /\ HasStream' /\ HighPerfHeld'
      BY <1>4, <2>1 DEF OnStreamEnd, StartsNamed
    <2>3. OwnTypeOK'
      BY <1>4, <2>1 DEF OnStreamEnd, StartsNamed
    <2>4. StartsNamed'
      BY <1>4, <2>1 DEF OnStreamEnd, StartsNamed
    <2>. QED  BY <2>2, <2>3, <2>4
  <1>5. CASE OnStreamStart
    <2>1. TruthValuesOK' /\ HasStream'
      BY <1>5 DEF OnStreamStart, HearStart
    <2>2. OwnTypeOK' /\ HighPerfHeld'
      BY <1>5, HearStartOK DEF OnStreamStart, HearStart, Streams
    <2>3. StartsNamed'
      BY <1>5, HearStartOK DEF OnStreamStart, StartsNamed
    <2>. QED  BY <2>1, <2>2, <2>3
  <1>6. CASE CleanupSignal \/ CleanupReset
    <2>1. CASE CleanupSignal
      BY <2>1 DEF CleanupSignal, StartsNamed
    <2>2. CASE CleanupReset
      BY <2>2 DEF CleanupReset, StartsNamed
    <2>. QED  BY <1>6, <2>1, <2>2
  <1>7. CASE CleanupFinish
    <2>1. [type |-> "STREAM_END", stream |-> 0] \in Event
      BY DEF Event
    <2>2. inbox' \in Seq(Event) /\ Len(inbox') <= InboxCap /\ Named(inbox')
      BY <1>7, <2>1, PushOK DEF CleanupFinish
    <2>. QED  BY <1>0, <1>7, <2>2 DEF CleanupFinish, StartsNamed
  <1>8. CASE Join
    BY <1>8 DEF Join, StartsNamed
  <1>9. CASE DropConnection
    <2>1. TruthValuesOK' /\ HasStream' /\ HighPerfHeld'
      BY <1>0, <1>9 DEF DropConnection, StartsNamed
    <2>2. OwnTypeOK'
      BY <1>0, <1>9 DEF DropConnection, StartsNamed
    <2>3. StartsNamed'
      BY <1>0, <1>9 DEF DropConnection, StartsNamed
    <2>. QED  BY <2>1, <2>2, <2>3
  <1>10. CASE TeardownInStart
    <2>1. TruthValuesOK' /\ HasStream' /\ HighPerfHeld'
      BY <1>0, <1>10, HearStartOK DEF TeardownInStart, HearStart, StartsNamed, Streams
    <2>2. OwnTypeOK'
      BY <1>0, <1>10, HearStartOK DEF TeardownInStart, HearStart, StartsNamed, Streams
    <2>3. StartsNamed'
      BY <1>0, <1>10, HearStartOK DEF TeardownInStart, HearStart, StartsNamed, Streams
    <2>. QED  BY <2>1, <2>2, <2>3
  <1>11. CASE TeardownInEnd
    <2>1. TruthValuesOK' /\ HasStream' /\ HighPerfHeld'
      BY <1>0, <1>11 DEF TeardownInEnd, StartsNamed
    <2>2. OwnTypeOK'
      BY <1>0, <1>11 DEF TeardownInEnd, StartsNamed
    <2>3. StartsNamed'
      BY <1>0, <1>11 DEF TeardownInEnd, StartsNamed
    <2>. QED  BY <2>1, <2>2, <2>3
  <1>12. CASE Reconnect
    BY <1>12 DEF Reconnect, StartsNamed
  <1>13. CASE Stop
    BY <1>13 DEF Stop, StartsNamed
  <1>. QED
    BY <1>1, <1>2, <1>3, <1>4, <1>5, <1>6, <1>7, <1>8, <1>9, <1>10, <1>11, <1>12, <1>13
       DEF Main, Application

LEMMA SyncThreadStep ==
  ASSUME PlayerInv, SyncThread
  PROVE  Own'
  <1>1. ASSUME entry.kind = "header" PROVE StreamOf(entry.tag) \in 0..MaxStreams
    <2>1. entry.tag \in (1..MaxStreams) \X (0..MaxSeeks)
      BY <1>1, EntryOK, PlayerAssumption DEF Kinds, PlayerInv, PlayerTypeOK
    <2>. QED  BY <2>1 DEF StreamOf
  <1>2. running' \in 0..MaxStreams
    BY <1>1, PlayerAssumption DEF SyncThread, PlayerInv, PlayerTypeOK
  <1>. QED
    BY <1>2 DEF SyncThread, PlayerInv, PlayerTypeOK, Own, TruthValuesOK, OwnTypeOK, HasStream, StartsNamed,
                HighPerfHeld, mainVars, serverVars, netVars

-----------------------------------------------------------------------------
LEMMA PlayerInitInv == PlayerInit => PlayerInv
  <1>. SUFFICES ASSUME PlayerInit PROVE PlayerInv
    OBVIOUS
  <1>1. Inv
    BY InitInv DEF PlayerInit
  <1>2. <<>> \in Seq(Event) /\ Len(<<>>) <= InboxCap /\ Named(<<>>)
    BY PlayerAssumption DEF Named
  <1>3. TruthValuesOK /\ HasStream /\ HighPerfHeld /\ StartsNamed
    BY <1>2 DEF PlayerInit, TruthValuesOK, HasStream, HighPerfHeld, StartsNamed
  <1>4. OwnTypeOK
    BY <1>2, PlayerAssumption DEF PlayerInit, OwnTypeOK
  <1>. QED
    BY <1>1, <1>3, <1>4 DEF PlayerInv, Inv, PlayerTypeOK, TruthValuesOK, OwnTypeOK

LEMMA PlayerNextInv == PlayerInv /\ [PlayerNext]_pvars => PlayerInv'
  <1>. SUFFICES ASSUME PlayerInv, [PlayerNext]_pvars PROVE PlayerInv'
    OBVIOUS
  <1>1. Inv'
    BY PlayerStepIsOpenStep, NextInv DEF PlayerInv
  <1>2. Own'
    <2>1. CASE UNCHANGED pvars
      BY <2>1 DEF pvars, playerVars, mainVars, serverVars, netVars, ghosts, PlayerInv, PlayerTypeOK,
                  Own, TruthValuesOK, OwnTypeOK, HasStream, StartsNamed, HighPerfHeld
    <2>. QED  BY <2>1, NetworkStep, MainStep, SyncThreadStep DEF PlayerNext
  <1>. QED
    BY <1>1, <1>2 DEF PlayerInv, Inv, PlayerTypeOK, Own, TruthValuesOK, OwnTypeOK

(* The invariant of the closed system.                                          *)
THEOREM PlayerInvariant == PlayerSpec => []PlayerInv
  BY PlayerInitInv, PlayerNextInv, PTL DEF PlayerSpec

(* The player role keeps its variables in their types; the inbox ring never     *)
(* holds more than its capacity.                                                *)
THEOREM PlayerRoleTypeOK == PlayerSpec => []PlayerTypeOK
  BY PlayerInvariant, PTL DEF PlayerInv

(* With the network thread and the main loop around it, the sync thread does    *)
(* nothing that SyncTask does not allow: what is proved of SyncTask in an       *)
(* open environment holds in the player.                                        *)
THEOREM PlayerImplementsSyncTask == PlayerSpec => Spec
  <1>1. PlayerInit => Init
    BY DEF PlayerInit
  <1>2. PlayerInv /\ [PlayerNext]_pvars => [Next]_vars
    BY PlayerStepIsOpenStep DEF PlayerInv
  <1>. QED  BY <1>1, <1>2, PlayerInvariant, PTL DEF PlayerSpec, Spec

(* In the player, too, no chunk is received twice or leaked.                    *)
THEOREM PlayerBorrows == PlayerSpec => []BorrowDiscipline
  BY PlayerImplementsSyncTask, SyncTaskBorrows, PTL

(* High performance networking is held between two passes of the main loop      *)
(* only for a stream the listener knows of (player_role.cpp:428-499, 501-529).  *)
THEOREM PlayerHighPerf == PlayerSpec => []HighPerfForStream
  <1>1. PlayerInv => HighPerfForStream
    BY DEF PlayerInv, HighPerfHeld, HighPerfForStream
  <1>. QED  BY <1>1, PlayerInvariant, PTL

-----------------------------------------------------------------------------
(* Seeks.  A chunk of audio is the current stream's, and of its last seek.      *)
OfStream(chunk) == chunk.kind = "audio" /\ StreamOf(chunk.tag) = stream
Fresh(chunk) == OfStream(chunk) /\ SeekOf(chunk.tag) = seek

(* No chunk is ahead of the server.                                             *)
TagsInOrder ==
    \A i \in 1..Len(ring) :
        /\ StreamOf(ring[i].tag) <= stream
        /\ OfStream(ring[i]) => SeekOf(ring[i].tag) <= seek

(* The bit of a clear is not wiped before the flush is over.                    *)
FlushSees == spc = "flush" => "COMMAND_STREAM_CLEAR" \in flags

(* While a clear is pending there is no audio sent after the last seek, as long *)
(* as its marker is still to be written; and once that is written there is a    *)
(* marker, its own or that of an earlier seek, ahead of such audio.             *)
NoFreshYet == npc = "marker" => \A i \in 1..Len(ring) : ~Fresh(ring[i])
InStream == {"activate", "running", "header", "inner", "load", "decode", "flush"}
MarkerAhead ==
    "COMMAND_STREAM_CLEAR" \in flags /\ spc \in InStream /\ ~markerLost /\ npc # "marker" =>
        \E m \in 1..Len(ring) : ring[m].kind = "marker" /\ \A j \in 1..m-1 : ~Fresh(ring[j])

KeepInv == TagsInOrder /\ FlushSees /\ NoFreshYet /\ MarkerAhead

(* Behind a marker there is audio of the last seek only: a seek waits until the *)
(* one before is over.                                                          *)
MarkerDivides ==
    seek # 0 =>
        \A i, j \in 1..Len(ring) : i < j /\ ring[i].kind = "marker" /\ ring[j].kind = "audio" => Fresh(ring[j])

(* No audio in the ring buffer is from before the last seek that was applied,   *)
(* nor, when one is about to be applied, from before that one; a flush that is  *)
(* cut short by COMMAND_STOP leaves such audio and the thread decodes no more.  *)
StopsSoon == "COMMAND_STOP" \in flags /\ spc \in {"apply", "inner", "leave", "stopped", "done"}
KeptAudio ==
    /\ cleared <= seek
    /\ StopsSoon \/ \A i \in 1..Len(ring) : OfStream(ring[i]) => cleared <= SeekOf(ring[i].tag)
FlushedAudio ==
    spc = "apply" =>
        StopsSoon \/ \A i \in 1..Len(ring) : OfStream(ring[i]) => seek <= SeekOf(ring[i].tag)

SeekInv == MarkerDivides /\ KeptAudio /\ FlushedAudio /\ SeekIsExact

(* A tag tells a stream and a seek.                                             *)
LEMMA TagParts ==
  /\ \A t \in Tags : StreamOf(t) \in Nat /\ SeekOf(t) \in Nat
  /\ \A n, s \in Nat : StreamOf(<<n, s>>) = n /\ SeekOf(<<n, s>>) = s
  BY PlayerAssumption DEF StreamOf, SeekOf

LEMMA RingIndices ==
  ASSUME TypeOK
  PROVE  /\ Len(ring) \in Nat
         /\ \A i \in 1..Len(ring) : ring[i] \in Chunk /\ ring[i].tag \in Tags
         /\ ring # <<>> => 1 \in 1..Len(ring) /\ Head(ring) = ring[1]
         /\ ring' = Tail(ring) /\ ring # <<>> =>
               /\ Len(ring') \in Nat
               /\ \A i \in 1..Len(ring') : i + 1 \in 1..Len(ring) /\ ring'[i] = ring[i + 1]
  <1>1. Len(ring) \in Nat /\ \A i \in 1..Len(ring) : ring[i] \in Chunk
    BY DEF TypeOK
  <1>2. ring # <<>> => 1 \in 1..Len(ring) /\ Head(ring) = ring[1]
    BY DEF TypeOK
  <1>3. ASSUME ring' = Tail(ring), ring # <<>>
        PROVE  Len(ring') \in Nat /\ \A i \in 1..Len(ring') : i + 1 \in 1..Len(ring) /\ ring'[i] = ring[i + 1]
    BY <1>1, <1>3, HeadTailProperties DEF TypeOK
  <1>. QED  BY <1>1, <1>2, <1>3 DEF Chunk

LEMMA WrittenChunk ==
  ASSUME TypeOK, NEW c \in Chunk, WriteChunk(c)
  PROVE  /\ Len(ring) \in Nat /\ Len(ring') = Len(ring) + 1
         /\ \A i \in 1..Len(ring) : i \in 1..Len(ring') /\ ring'[i] = ring[i]
         /\ \A i \in 1..Len(ring') : \/ i \in 1..Len(ring) /\ ring'[i] = ring[i]
                                     \/ i = Len(ring) + 1 /\ ring'[i] = c
  <1>1. /\ Len(ring) \in Nat /\ Len(ring') = Len(ring) + 1
        /\ \A i \in 1..Len(ring) : ring'[i] = ring[i]
        /\ ring'[Len(ring) + 1] = c
    BY AppendProperties DEF TypeOK, WriteChunk
  <1>2. \A i \in 1..Len(ring') : i \in 1..Len(ring) \/ i = Len(ring) + 1
    BY <1>1
  <1>. QED  BY <1>1, <1>2

-----------------------------------------------------------------------------
(* What a step of the sync thread does to the ring buffer: it takes at most     *)
(* the oldest chunk.                                                            *)
Taken == ring' = ring \/ (ring # <<>> /\ ring' = Tail(ring))

LEMMA ReturnTakes ==
  ASSUME BorrowDiscipline, ReturnEntry
  PROVE  Taken /\ (entry # NoChunk => ring # <<>> /\ entry = Head(ring) /\ ring' = Tail(ring))
  BY DEF BorrowDiscipline, ReturnEntry, Taken

LEMMA ThreadTakes ==
  ASSUME BorrowDiscipline, ThreadEntry
  PROVE  Taken
  <1>1. ASSUME ReceiveInto \/ ReceiveAndReturn
        PROVE  Taken
    BY <1>1 DEF ReceiveInto, ReceiveAndReturn, Taken
  <1>2. CASE EnterIdle \/ WaitTest \/ Woke \/ NoHeader \/ AckWait \/ Activate \/ SetRunning \/ InnerLeave
    BY <1>2 DEF EnterIdle, WaitTest, Woke, NoHeader, AckWait, Activate, SetRunning, InnerLeave, Taken
  <1>3. CASE WaitReceive \/ Drain \/ LoadReceive \/ Flush
    BY <1>1, <1>3 DEF WaitReceive, Drain, LoadReceive, Flush, Taken
  <1>4. CASE Acked \/ DecodeFirstHeader \/ DiscardEntry \/ Leave
    BY <1>4, ReturnTakes DEF Acked, DecodeFirstHeader, DiscardEntry, Leave, Taken
  <1>5. CASE DecodeMarker \/ DecodeNewHeader \/ SkipAudio \/ DecodeAudio \/ DecodeIntoNull
    BY <1>5, ReturnTakes DEF DecodeMarker, DecodeNewHeader, SkipAudio, DecodeAudio, DecodeIntoNull, Taken
  <1>6. CASE Apply \/ InitialSync \/ LoadChunk \/ SynchronizeAudio \/ TransferAudio \/ Stopped
    BY <1>6 DEF Apply, InitialSync, LoadChunk, SynchronizeAudio, TransferAudio, Stopped, Taken
  <1>. QED
    BY <1>2, <1>3, <1>4, <1>5, <1>6 DEF ThreadEntry

-----------------------------------------------------------------------------
(* What a step that leaves the ring buffer and the sync thread alone does to    *)
(* what the two invariants speak of, and which steps are of this kind.          *)
Elsewhere ==
    /\ UNCHANGED <<ring, spc, dbuf, stream, seek, cleared, markerLost>>
    /\ flags \subseteq flags'
    /\ "COMMAND_STREAM_CLEAR" \in flags' => "COMMAND_STREAM_CLEAR" \in flags
    /\ npc' = npc \/ (npc # "marker" /\ npc' # "marker")

LEMMA SeekSteps ==
  ASSUME [PlayerNext]_pvars
  PROVE  SyncThread \/ StreamStart \/ StreamStartFails \/ StreamClear \/ WriteMarker \/ Binary \/ Elsewhere
  <1>. USE DEF Elsewhere, mainVars, serverVars, netVars, ghosts, Signal, svars, vars
  <1>1. CASE WriteParams \/ PushStart \/ StreamEnd \/ PushEnd
    BY <1>1 DEF WriteParams, PushStart, StreamEnd, PushEnd, Begin
  <1>2. CASE TakeEvents \/ Snapshot \/ LeaveEvents \/ OnStreamEnd \/ CleanupReset \/ CleanupFinish \/ Join
    BY <1>2 DEF TakeEvents, Snapshot, LeaveEvents, OnStreamEnd, CleanupReset, CleanupFinish, Join
  <1>3. CASE OnStreamStart \/ CleanupSignal
    BY <1>3 DEF OnStreamStart, HearStart, CleanupSignal
  <1>4. CASE DropConnection \/ TeardownInEnd
    BY <1>4 DEF DropConnection, TeardownInEnd, Teardown
  <1>5. CASE TeardownInStart \/ Reconnect \/ Stop
    BY <1>5 DEF TeardownInStart, HearStart, Reconnect, Stop
  <1>6. CASE UNCHANGED pvars
    BY <1>6 DEF pvars, playerVars
  <1>. QED
    BY <1>1, <1>2, <1>3, <1>4, <1>5, <1>6 DEF PlayerNext, Network, Main, Application

(* A new stream has no audio yet.                                               *)
LEMMA NewStreamRing ==
  ASSUME PlayerInv, TagsInOrder, StreamStart \/ StreamStartFails
  PROVE  /\ stream' = stream + 1 /\ seek' = 0 /\ cleared' = 0 /\ npc = "none" /\ npc' # "marker"
         /\ UNCHANGED <<spc, dbuf, markerLost>>
         /\ flags \subseteq flags' /\ ("COMMAND_STREAM_CLEAR" \in flags' => "COMMAND_STREAM_CLEAR" \in flags)
         /\ Len(ring) \in Nat
         /\ \A i \in 1..Len(ring) : i \in 1..Len(ring') /\ ring'[i] = ring[i]
         /\ \A i \in 1..Len(ring') : /\ StreamOf(ring'[i].tag) \in Nat /\ SeekOf(ring'[i].tag) \in Nat
                                     /\ StreamOf(ring'[i].tag) <= stream'
                                     /\ ring'[i].kind = "audio" => StreamOf(ring'[i].tag) # stream'
  <1>1. /\ TypeOK /\ stream \in Nat /\ seek \in Nat /\ Len(ring) \in Nat
        /\ \A i \in 1..Len(ring) : ring[i].tag \in Tags
    BY PlayerAssumption, RingIndices DEF PlayerInv, PlayerTypeOK
  <1>2. /\ stream' = stream + 1 /\ seek' = 0 /\ cleared' = 0 /\ npc = "none" /\ npc' # "marker"
        /\ UNCHANGED <<spc, dbuf, markerLost>>
        /\ flags \subseteq flags' /\ ("COMMAND_STREAM_CLEAR" \in flags' => "COMMAND_STREAM_CLEAR" \in flags)
    BY DEF StreamStart, StreamStartFails, Begin, WriteChunk, Signal, svars
  <1>3. /\ \A i \in 1..Len(ring) : i \in 1..Len(ring') /\ ring'[i] = ring[i]
        /\ \A i \in 1..Len(ring') : \/ i \in 1..Len(ring) /\ ring'[i] = ring[i]
                                    \/ ring'[i] = [kind |-> "header", tag |-> <<stream + 1, 0>>]
    <2>1. CASE StreamStart
      <3>1. stream + 1 \in 1..MaxStreams /\ 0 \in 0..MaxSeeks
        BY <2>1, PlayerAssumption DEF StreamStart, PlayerInv, PlayerTypeOK
      <3>2. [kind |-> "header", tag |-> <<stream + 1, 0>>] \in Chunk
        BY <3>1, ServerChunk DEF Kinds
      <3>. QED  BY <1>1, <2>1, <3>2, WrittenChunk DEF StreamStart
    <2>2. CASE StreamStartFails
      BY <2>2 DEF StreamStartFails, Signal
    <2>. QED  BY <2>1, <2>2
  <1>4. ASSUME NEW i \in 1..Len(ring)
        PROVE  /\ StreamOf(ring[i].tag) \in Nat /\ SeekOf(ring[i].tag) \in Nat
               /\ StreamOf(ring[i].tag) <= stream
    BY <1>1, TagParts DEF TagsInOrder
  <1>5. StreamOf(<<stream + 1, 0>>) = stream + 1 /\ SeekOf(<<stream + 1, 0>>) = 0
    BY <1>1, TagParts
  <1>6. ASSUME NEW i \in 1..Len(ring')
        PROVE  /\ StreamOf(ring'[i].tag) \in Nat /\ SeekOf(ring'[i].tag) \in Nat
               /\ StreamOf(ring'[i].tag) <= stream'
               /\ ring'[i].kind = "audio" => StreamOf(ring'[i].tag) # stream'
    <2>1. CASE i \in 1..Len(ring) /\ ring'[i] = ring[i]
      BY <1>1, <1>2, <1>4, <2>1
    <2>2. CASE ring'[i] = [kind |-> "header", tag |-> <<stream + 1, 0>>]
      BY <1>1, <1>2, <1>5, <2>2
    <2>. QED  BY <1>3, <2>1, <2>2
  <1>. QED  BY <1>1, <1>2, <1>3, <1>6

(* A chunk of the current stream and seek, written behind all others.           *)
LEMMA ServerWrites ==
  ASSUME PlayerInv, stream # 0, NEW kind \in Kinds, WriteChunk([kind |-> kind, tag |-> <<stream, seek>>])
  PROVE  /\ stream \in Nat /\ seek \in Nat /\ Len(ring) \in Nat /\ Len(ring') = Len(ring) + 1
         /\ \A i \in 1..Len(ring) : i \in 1..Len(ring') /\ ring'[i] = ring[i]
         /\ \A i \in 1..Len(ring') :
               \/ i \in 1..Len(ring) /\ ring'[i] = ring[i]
               \/ /\ i = Len(ring) + 1 /\ ring'[i].kind = kind
                  /\ StreamOf(ring'[i].tag) = stream /\ SeekOf(ring'[i].tag) = seek
  <1>1. TypeOK /\ stream \in 1..MaxStreams /\ seek \in 0..MaxSeeks /\ stream \in Nat /\ seek \in Nat
    BY PlayerAssumption DEF PlayerInv, PlayerTypeOK
  <1>2. [kind |-> kind, tag |-> <<stream, seek>>] \in Chunk
    BY <1>1, ServerChunk
  <1>3. StreamOf(<<stream, seek>>) = stream /\ SeekOf(<<stream, seek>>) = seek
    BY <1>1, TagParts
  <1>. QED  BY <1>1, <1>2, <1>3, WrittenChunk

-----------------------------------------------------------------------------
(* A seek keeps what is sent after it, however fast seeks follow each other.    *)
LEMMA InStreamTakes ==
  ASSUME TypeOK, BorrowDiscipline, ThreadEntry, spc' \in InStream, "COMMAND_STREAM_CLEAR" \in flags'
  PROVE  /\ spc \in InStream /\ "COMMAND_STREAM_CLEAR" \in flags
         /\ ring' = ring \/ (ring # <<>> /\ ring' = Tail(ring) /\ Head(ring).kind # "marker")
  <1>. USE DEF InStream, Goto, Leaving, Seeking
  <1>1. CASE EnterIdle \/ WaitTest \/ WaitReceive \/ Woke \/ NoHeader \/ Drain \/ AckWait \/ Acked
    BY <1>1 DEF EnterIdle, WaitTest, WaitReceive, Woke, NoHeader, Drain, AckWait, Acked
  <1>7. CASE Activate \/ SetRunning
    BY <1>7 DEF Activate, SetRunning
  <1>8. CASE DecodeFirstHeader
    <2>1. spc = "header" /\ ReturnEntry /\ entry.kind = "header" /\ flags' = flags
      BY <1>8 DEF DecodeFirstHeader, DecodeHeader
    <2>2. CASE entry = NoChunk
      BY <2>1, <2>2 DEF ReturnEntry
    <2>3. CASE entry # NoChunk
      BY <2>1, <2>3, ReturnTakes
    <2>. QED  BY <2>1, <2>2, <2>3
  <1>2. CASE InnerLeave \/ Apply \/ Leave \/ Stopped \/ DecodeMarker
    BY <1>2 DEF InnerLeave, Apply, Leave, Stopped, DecodeMarker, ApplyStreamClear
  <1>3. CASE InitialSync \/ LoadChunk \/ SynchronizeAudio \/ TransferAudio
    BY <1>3 DEF InitialSync, LoadChunk, SynchronizeAudio, TransferAudio, Step
  <1>4. CASE LoadReceive \/ Flush
    BY <1>4 DEF LoadReceive, Flush, ReceiveInto, ReceiveAndReturn
  <1>5. CASE DiscardEntry
    <2>1. entry.kind # "marker"
      BY <1>5 DEF DiscardEntry
    <2>. QED  BY <1>5, <2>1, ReturnTakes DEF DiscardEntry, Taken, ReturnEntry
  <1>6. CASE DecodeNewHeader \/ SkipAudio \/ DecodeAudio \/ DecodeIntoNull
    <2>1. entry.kind # "marker" /\ spc = "decode" /\ flags' \in {flags, flags \cup {"TASK_ERROR", "COMMAND_STOP"}}
      BY <1>6 DEF DecodeNewHeader, SkipAudio, DecodeAudio, DecodeIntoNull, Decoding, DecodeHeader
    <2>2. ReturnEntry
      BY <1>6 DEF DecodeNewHeader, SkipAudio, DecodeAudio, DecodeIntoNull
    <2>3. ring' = ring \/ (ring # <<>> /\ ring' = Tail(ring) /\ Head(ring).kind # "marker")
      <3>1. CASE entry = NoChunk
        BY <2>2, <3>1 DEF ReturnEntry
      <3>2. CASE entry # NoChunk
        BY <2>1, <2>2, <3>2, ReturnTakes
      <3>. QED  BY <3>1, <3>2
    <2>. QED  BY <2>1, <2>3
  <1>. QED
    BY <1>1, <1>2, <1>3, <1>4, <1>5, <1>6, <1>7, <1>8 DEF ThreadEntry

LEMMA FlushStep ==
  ASSUME ThreadEntry, FlushSees
  PROVE  FlushSees'
  <1>. USE DEF FlushSees, Goto, Leaving, Seeking
  <1>1. CASE EnterIdle \/ WaitTest \/ WaitReceive \/ Woke \/ NoHeader \/ Drain \/ AckWait \/ Acked \/ Activate \/ SetRunning \/ DecodeFirstHeader
    BY <1>1 DEF EnterIdle, WaitTest, WaitReceive, Woke, NoHeader, Drain, AckWait, Acked, Activate, SetRunning, DecodeFirstHeader
  <1>2. CASE InnerLeave \/ DiscardEntry \/ Flush \/ Apply \/ InitialSync \/ LoadChunk \/ LoadReceive
    BY <1>2 DEF InnerLeave, DiscardEntry, Flush, Apply, InitialSync, LoadChunk, LoadReceive, Step
  <1>3. CASE DecodeMarker \/ DecodeNewHeader \/ SkipAudio \/ DecodeAudio \/ DecodeIntoNull \/ SynchronizeAudio \/ TransferAudio \/ Leave \/ Stopped
    BY <1>3 DEF DecodeMarker, DecodeNewHeader, SkipAudio, DecodeAudio, DecodeIntoNull, SynchronizeAudio, TransferAudio, Leave, Stopped, Decoding, Step
  <1>. QED
    BY <1>1, <1>2, <1>3 DEF ThreadEntry

LEMMA SyncThreadKeeps ==
  ASSUME PlayerInv, KeepInv, SyncThread
  PROVE  KeepInv'
  <1>1. /\ TypeOK /\ BorrowDiscipline /\ ThreadEntry
        /\ UNCHANGED <<stream, seek, npc, markerLost>>
    BY DEF PlayerInv, PlayerTypeOK, Inv, SyncThread, serverVars, netVars
  <1>2. /\ \A c : OfStream(c)' <=> OfStream(c)
        /\ \A c : Fresh(c)' <=> Fresh(c)
    BY <1>1 DEF OfStream, Fresh
  <1>3. \A i \in 1..Len(ring') : \E k \in 1..Len(ring) : ring'[i] = ring[k]
    BY <1>1, ThreadTakes, RingIndices DEF Taken
  <1>4. TagsInOrder' /\ NoFreshYet'
    BY <1>1, <1>2, <1>3 DEF KeepInv, TagsInOrder, NoFreshYet
  <1>5. FlushSees'
    BY <1>1, FlushStep DEF KeepInv
  <1>6. MarkerAhead'
    <2>1. SUFFICES ASSUME "COMMAND_STREAM_CLEAR" \in flags', spc' \in InStream, ~markerLost, npc # "marker"
                   PROVE  \E m \in 1..Len(ring') : ring'[m].kind = "marker" /\ \A j \in 1..m-1 : ~Fresh(ring'[j])
      BY <1>1, <1>2 DEF MarkerAhead
    <2>2. /\ spc \in InStream /\ "COMMAND_STREAM_CLEAR" \in flags
          /\ ring' = ring \/ (ring # <<>> /\ ring' = Tail(ring) /\ Head(ring).kind # "marker")
      BY <1>1, <2>1, InStreamTakes
    <2>3. PICK m \in 1..Len(ring) : ring[m].kind = "marker" /\ \A j \in 1..m-1 : ~Fresh(ring[j])
      BY <2>1, <2>2 DEF KeepInv, MarkerAhead
    <2>4. CASE ring' = ring
      BY <2>3, <2>4
    <2>5. CASE ring # <<>> /\ ring' = Tail(ring) /\ Head(ring).kind # "marker"
      <3>1. m # 1 /\ Len(ring') = Len(ring) - 1 /\ Len(ring) \in Nat
        BY <1>1, <2>3, <2>5, RingIndices, HeadTailProperties DEF TypeOK
      <3>2. m - 1 \in 1..Len(ring') /\ ring'[m - 1] = ring[m]
        BY <1>1, <2>5, <3>1, RingIndices
      <3>3. \A j \in 1..(m - 1) - 1 : j + 1 \in 1..m-1 /\ ring'[j] = ring[j + 1]
        BY <1>1, <2>5, <3>1, RingIndices
      <3>. QED  BY <2>3, <3>2, <3>3
    <2>. QED  BY <2>2, <2>4, <2>5
  <1>. QED  BY <1>4, <1>5, <1>6 DEF KeepInv

LEMMA ElsewhereKeeps ==
  ASSUME KeepInv, Elsewhere
  PROVE  KeepInv'
  <1>. USE DEF Elsewhere, OfStream, Fresh
  <1>1. TagsInOrder' /\ NoFreshYet'
    BY DEF KeepInv, TagsInOrder, NoFreshYet
  <1>2. FlushSees' /\ MarkerAhead'
    BY DEF KeepInv, FlushSees, MarkerAhead
  <1>. QED  BY <1>1, <1>2 DEF KeepInv

LEMMA NewStreamKeeps ==
  ASSUME PlayerInv, KeepInv, StreamStart \/ StreamStartFails
  PROVE  KeepInv'
  <1>1. TagsInOrder
    BY DEF KeepInv
  <1>2. TagsInOrder' /\ NoFreshYet' /\ FlushSees'
    BY <1>1, NewStreamRing DEF KeepInv, TagsInOrder, NoFreshYet, FlushSees, OfStream
  <1>3. MarkerAhead'
    <2>1. SUFFICES ASSUME "COMMAND_STREAM_CLEAR" \in flags', spc' \in InStream, ~markerLost', npc' # "marker"
                   PROVE  \E m \in 1..Len(ring') : ring'[m].kind = "marker" /\ \A j \in 1..m-1 : ~Fresh(ring[j])'
      BY DEF MarkerAhead
    <2>2. PICK m \in 1..Len(ring) : ring[m].kind = "marker"
      BY <1>1, <2>1, NewStreamRing DEF KeepInv, MarkerAhead
    <2>3. m \in 1..Len(ring') /\ ring'[m].kind = "marker" /\ \A j \in 1..m-1 : j \in 1..Len(ring')
      BY <1>1, <2>2, NewStreamRing
    <2>. QED  BY <1>1, <2>3, NewStreamRing DEF Fresh, OfStream
  <1>. QED  BY <1>2, <1>3 DEF KeepInv

(* There is no audio of a seek that has just come.                              *)
LEMMA StreamClearKeeps ==
  ASSUME PlayerInv, KeepInv, StreamClear
  PROVE  KeepInv'
  <1>1. /\ TypeOK /\ stream \in Nat /\ seek \in Nat /\ Len(ring) \in Nat
        /\ \A i \in 1..Len(ring) : ring[i].tag \in Tags
    BY PlayerAssumption, RingIndices DEF PlayerInv, PlayerTypeOK
  <1>2. /\ flags' = flags \cup {"COMMAND_STREAM_CLEAR"} /\ seek' = seek + 1 /\ npc' = "marker"
        /\ UNCHANGED <<ring, spc, stream>>
    BY DEF StreamClear, Signal, svars, ghosts
  <1>3. \A i \in 1..Len(ring) : /\ SeekOf(ring[i].tag) \in Nat
                                /\ OfStream(ring[i]) => SeekOf(ring[i].tag) <= seek
    BY <1>1, TagParts DEF KeepInv, TagsInOrder
  <1>4. TagsInOrder' /\ NoFreshYet'
    BY <1>1, <1>2, <1>3 DEF KeepInv, TagsInOrder, NoFreshYet, OfStream, Fresh
  <1>5. FlushSees' /\ MarkerAhead'
    BY <1>2 DEF KeepInv, FlushSees, MarkerAhead
  <1>. QED  BY <1>4, <1>5 DEF KeepInv

LEMMA WriteMarkerKeeps ==
  ASSUME PlayerInv, KeepInv, WriteMarker
  PROVE  KeepInv'
  <1>1. npc = "marker" /\ npc' = "none" /\ UNCHANGED <<flags, spc, stream, seek>>
    BY DEF WriteMarker, WriteChunk, serverVars, vars, svars
  <1>2. FlushSees' /\ NoFreshYet'
    BY <1>1 DEF KeepInv, FlushSees, NoFreshYet
  <1>3. CASE UNCHANGED vars /\ markerLost' = TRUE
    <2>1. TagsInOrder' /\ MarkerAhead'
      BY <1>1, <1>3 DEF KeepInv, TagsInOrder, MarkerAhead, OfStream, vars
    <2>. QED  BY <1>2, <2>1 DEF KeepInv
  <1>4. CASE WriteChunk([kind |-> "marker", tag |-> <<stream, seek>>])
    <2>1. stream # 0
      BY <1>1 DEF PlayerInv, HasStream
    <2>2. "marker" \in Kinds
      BY DEF Kinds
    <2>3. TagsInOrder'
      BY <1>1, <1>4, <2>1, <2>2, ServerWrites DEF KeepInv, TagsInOrder, OfStream
    <2>4. /\ Len(ring) \in Nat /\ Len(ring) + 1 \in 1..Len(ring') /\ ring'[Len(ring) + 1].kind = "marker"
          /\ \A i \in 1..Len(ring) : ring'[i] = ring[i]
      BY <1>4, <2>1, <2>2, ServerWrites
    <2>5. \A j \in 1..(Len(ring) + 1) - 1 : ~Fresh(ring'[j])
      BY <1>1, <2>4 DEF KeepInv, NoFreshYet
    <2>6. MarkerAhead'
      BY <1>1, <2>4, <2>5 DEF MarkerAhead, Fresh, OfStream
    <2>. QED  BY <1>2, <2>3, <2>6 DEF KeepInv
  <1>. QED  BY <1>3, <1>4 DEF WriteMarker

LEMMA BinaryKeeps ==
  ASSUME PlayerInv, KeepInv, Binary
  PROVE  KeepInv'
  <1>1. npc = "none" /\ npc' = npc /\ UNCHANGED <<flags, spc, stream, seek, markerLost>>
    BY DEF Binary, Begin, WriteChunk, netVars, ghosts, svars
  <1>2. stream # 0 /\ "audio" \in Kinds /\ WriteChunk([kind |-> "audio", tag |-> <<stream, seek>>])
    BY DEF PlayerInv, HasStream, Kinds, Binary
  <1>3. FlushSees' /\ NoFreshYet'
    BY <1>1 DEF KeepInv, FlushSees, NoFreshYet
  <1>4. TagsInOrder'
    BY <1>1, <1>2, ServerWrites DEF KeepInv, TagsInOrder, OfStream
  <1>5. MarkerAhead'
    <2>1. SUFFICES ASSUME "COMMAND_STREAM_CLEAR" \in flags, spc \in InStream, ~markerLost
                   PROVE  \E m \in 1..Len(ring') : ring'[m].kind = "marker" /\ \A j \in 1..m-1 : ~Fresh(ring'[j])
      BY <1>1 DEF MarkerAhead, Fresh, OfStream
    <2>2. PICK m \in 1..Len(ring) : ring[m].kind = "marker" /\ \A j \in 1..m-1 : ~Fresh(ring[j])
      BY <1>1, <2>1 DEF KeepInv, MarkerAhead
    <2>3. m \in 1..Len(ring') /\ ring'[m].kind = "marker" /\ \A j \in 1..m-1 : j \in 1..Len(ring) /\ ring'[j] = ring[j]
      BY <1>2, <2>2, ServerWrites
    <2>. QED  BY <2>2, <2>3
  <1>. QED  BY <1>3, <1>4, <1>5 DEF KeepInv

LEMMA KeepInitInv == PlayerInit => KeepInv
  <1>. SUFFICES ASSUME PlayerInit PROVE KeepInv
    OBVIOUS
  <1>1. Len(ring) = 0 /\ flags = {} /\ spc = "top" /\ npc = "none"
    BY DEF PlayerInit, Init
  <1>. QED  BY <1>1 DEF KeepInv, TagsInOrder, FlushSees, NoFreshYet, MarkerAhead

(* The invariant behind PlayerSeekKeepsNewAudio: it needs no pacing.            *)
THEOREM PlayerKeepInvariant == PlayerSpec => []KeepInv
  <1>1. PlayerInv /\ KeepInv /\ [PlayerNext]_pvars => KeepInv'
    BY SeekSteps, SyncThreadKeeps, NewStreamKeeps, StreamClearKeeps, WriteMarkerKeeps, BinaryKeeps, ElsewhereKeeps
  <1>. QED  BY <1>1, KeepInitInv, PlayerInvariant, PTL DEF PlayerSpec

(* A seek never discards what the server sent behind it, unless its marker was  *)
(* lost (sync_task.cpp:729-767), whatever comes before it or behind it: another *)
(* seek that the same flush serves, a restart, an end, a teardown.              *)
THEOREM PlayerSeekKeepsNewAudio == PlayerSpec => SeekKeepsNewAudio
  <1>1. ASSUME PlayerInv, KeepInv, spc = "flush", ring # <<>>, ~markerLost
        PROVE  Head(ring).kind = "audio" => Head(ring).tag # <<stream, seek>>
    <2>1. stream \in Nat /\ seek \in Nat /\ TypeOK
      BY <1>1, PlayerAssumption DEF PlayerInv, PlayerTypeOK
    <2>2. 1 \in 1..Len(ring) /\ Head(ring) = ring[1] /\ Len(ring) \in Nat
      BY <1>1, <2>1, RingIndices
    <2>3. Head(ring).kind = "audio" => ~Fresh(ring[1])
      <3>1. CASE npc = "marker"
        BY <1>1, <2>2, <3>1 DEF KeepInv, NoFreshYet
      <3>2. CASE npc # "marker"
        <4>1. PICK m \in 1..Len(ring) : ring[m].kind = "marker" /\ \A j \in 1..m-1 : ~Fresh(ring[j])
          BY <1>1, <3>2 DEF KeepInv, MarkerAhead, FlushSees, InStream
        <4>2. Head(ring).kind = "audio" => m # 1
          BY <2>2, <4>1
        <4>. QED  BY <2>2, <4>1, <4>2
      <3>. QED  BY <3>1, <3>2
    <2>. QED  BY <2>1, <2>2, <2>3, TagParts DEF Fresh, OfStream
  <1>2. PlayerInv /\ KeepInv =>
          [(spc = "flush" /\ ring # <<>> /\ ring' = Tail(ring) /\ Head(ring).kind = "audio" /\ ~markerLost)
              => Head(ring).tag # <<stream, seek>>]_pvars
    BY <1>1
  <1>. QED  BY <1>2, PlayerKeepInvariant, PlayerInvariant, PTL DEF SeekKeepsNewAudio

-----------------------------------------------------------------------------

(* A seek is exact.                                                             *)
(* Where the sync thread can have come from.                                    *)
LEMMA StopsForGood ==
  ASSUME ThreadEntry, StopsSoon
  PROVE  StopsSoon'
  <1>. USE DEF StopsSoon, Goto, Leaving
  <1>1. CASE EnterIdle \/ WaitTest \/ WaitReceive \/ Woke \/ NoHeader \/ Drain \/ AckWait \/ Acked \/ Activate \/ SetRunning \/ DecodeFirstHeader
    BY <1>1 DEF EnterIdle, WaitTest, WaitReceive, Woke, NoHeader, Drain, AckWait, Acked, Activate, SetRunning, DecodeFirstHeader
  <1>2. CASE InnerLeave \/ DiscardEntry \/ Flush \/ Apply \/ InitialSync \/ LoadChunk \/ LoadReceive
    BY <1>2 DEF InnerLeave, DiscardEntry, Flush, Apply, InitialSync, LoadChunk, LoadReceive, ApplyStreamClear, Step
  <1>3. CASE DecodeMarker \/ DecodeNewHeader \/ SkipAudio \/ DecodeAudio \/ DecodeIntoNull \/ SynchronizeAudio \/ TransferAudio \/ Leave \/ Stopped
    BY <1>3 DEF DecodeMarker, DecodeNewHeader, SkipAudio, DecodeAudio, DecodeIntoNull, SynchronizeAudio, TransferAudio, Leave, Stopped, Decoding, Step
  <1>. QED
    BY <1>1, <1>2, <1>3 DEF ThreadEntry

LEMMA ToApply ==
  ASSUME TypeOK, BorrowDiscipline, ThreadEntry, spc' = "apply"
  PROVE  \/ ring # <<>> /\ Head(ring).kind = "marker" /\ ring' = Tail(ring)
         \/ ring' = <<>>
         \/ StopsSoon'
  <1>. USE DEF StopsSoon, Goto, Leaving
  <1>1. CASE EnterIdle \/ WaitTest \/ WaitReceive \/ Woke \/ NoHeader \/ Drain \/ AckWait \/ Acked \/ Activate \/ SetRunning \/ DecodeFirstHeader
    BY <1>1 DEF EnterIdle, WaitTest, WaitReceive, Woke, NoHeader, Drain, AckWait, Acked, Activate, SetRunning, DecodeFirstHeader
  <1>2. CASE InnerLeave \/ Apply \/ InitialSync \/ LoadChunk \/ LoadReceive
    BY <1>2 DEF InnerLeave, Apply, InitialSync, LoadChunk, LoadReceive, Step
  <1>3. CASE DiscardEntry
    <2>1. entry.kind = "marker"
      BY <1>3 DEF DiscardEntry
    <2>2. entry # NoChunk
      BY <2>1, SyncTaskAssumption DEF NoChunk
    <2>. QED  BY <1>3, <2>1, <2>2, ReturnTakes DEF DiscardEntry
  <1>4. CASE Flush
    BY <1>4 DEF Flush, ReceiveAndReturn
  <1>5. CASE DecodeMarker \/ DecodeNewHeader \/ SkipAudio \/ DecodeAudio \/ DecodeIntoNull \/ SynchronizeAudio \/ TransferAudio \/ Leave \/ Stopped
    BY <1>5 DEF DecodeMarker, DecodeNewHeader, SkipAudio, DecodeAudio, DecodeIntoNull, SynchronizeAudio, TransferAudio, Leave, Stopped, Decoding, Step
  <1>. QED
    BY <1>1, <1>2, <1>3, <1>4, <1>5 DEF ThreadEntry

LEMMA ToDecoded ==
  ASSUME TypeOK, ThreadEntry, dbuf' \in Tags
  PROVE  /\ spc # "apply" /\ ~(spc = "decode" /\ entry.kind = "marker")
         /\ dbuf' = dbuf \/ (spc = "decode" /\ entry.kind = "audio" /\ dbuf' = entry.tag)
  <1>. USE SyncTaskAssumption DEF Emptied
  <1>1. CASE EnterIdle \/ WaitTest \/ WaitReceive \/ Woke \/ NoHeader \/ Drain \/ AckWait \/ Acked \/ Activate \/ SetRunning
    BY <1>1 DEF EnterIdle, WaitTest, WaitReceive, Woke, NoHeader, Drain, AckWait, Acked, Activate, SetRunning
  <1>2. CASE DecodeFirstHeader \/ DecodeNewHeader
    BY <1>2 DEF DecodeFirstHeader, DecodeNewHeader, DecodeHeader, Decoding
  <1>3. CASE InnerLeave \/ DiscardEntry \/ Flush \/ Apply \/ InitialSync \/ LoadChunk \/ LoadReceive
    BY <1>3 DEF InnerLeave, DiscardEntry, Flush, Apply, InitialSync, LoadChunk, LoadReceive, ApplyStreamClear, Step
  <1>4. CASE DecodeMarker \/ SkipAudio \/ DecodeAudio \/ DecodeIntoNull \/ SynchronizeAudio \/ TransferAudio \/ Leave \/ Stopped
    BY <1>4 DEF DecodeMarker, SkipAudio, DecodeAudio, DecodeIntoNull, SynchronizeAudio, TransferAudio, Leave, Stopped, Decoding, Step, ApplyStreamClear
  <1>. QED
    BY <1>1, <1>2, <1>3, <1>4 DEF ThreadEntry

LEMMA SyncThreadSeek ==
  ASSUME PlayerInv, SeekInv, SyncThread
  PROVE  SeekInv'
  <1>1. /\ TypeOK /\ BorrowDiscipline /\ ThreadEntry
        /\ UNCHANGED <<stream, seek>>
        /\ cleared' = IF spc = "apply" \/ (spc = "decode" /\ entry.kind = "marker") THEN seek ELSE cleared
        /\ stream \in Nat /\ seek \in Nat /\ cleared \in Nat
    BY PlayerAssumption DEF PlayerInv, PlayerTypeOK, Inv, SyncThread, serverVars, netVars
  <1>2. /\ \A c : OfStream(c)' <=> OfStream(c)
        /\ \A c : Fresh(c)' <=> Fresh(c)
    BY <1>1 DEF OfStream, Fresh
  <1>3. MarkerDivides'
    <2>1. SUFFICES ASSUME seek # 0, NEW i \in 1..Len(ring'), NEW j \in 1..Len(ring'), i < j,
                         ring'[i].kind = "marker", ring'[j].kind = "audio"
                  PROVE  Fresh(ring'[j])
      BY <1>1, <1>2 DEF MarkerDivides
    <2>2. CASE ring' = ring
      BY <2>1, <2>2 DEF SeekInv, MarkerDivides
    <2>3. CASE ring # <<>> /\ ring' = Tail(ring)
      <3>1. /\ i \in Nat /\ i + 1 \in 1..Len(ring) /\ ring'[i] = ring[i + 1]
            /\ j \in Nat /\ j + 1 \in 1..Len(ring) /\ ring'[j] = ring[j + 1]
        BY <1>1, <2>3, RingIndices
      <3>2. i + 1 < j + 1
        BY <2>1, <3>1
      <3>. QED  BY <2>1, <3>1, <3>2 DEF SeekInv, MarkerDivides
    <2>. QED  BY <1>1, <2>2, <2>3, ThreadTakes DEF Taken
  <1>4. KeptAudio'
    <2>1. CASE cleared' = cleared
      <3>1. cleared' <= seek'
        BY <1>1, <2>1 DEF SeekInv, KeptAudio
      <3>2. StopsSoon => StopsSoon'
        BY <1>1, StopsForGood
      <3>3. ASSUME ~StopsSoon
            PROVE  \A i \in 1..Len(ring') : OfStream(ring'[i]) => cleared' <= SeekOf(ring'[i].tag)
        <4>1. \A i \in 1..Len(ring) : OfStream(ring[i]) => cleared <= SeekOf(ring[i].tag)
          BY <3>3 DEF SeekInv, KeptAudio
        <4>2. \A i \in 1..Len(ring') : \E k \in 1..Len(ring) : ring'[i] = ring[k]
          BY <1>1, ThreadTakes, RingIndices DEF Taken
        <4>3. ASSUME NEW i \in 1..Len(ring'), OfStream(ring'[i])
              PROVE  cleared <= SeekOf(ring'[i].tag)
          <5>1. PICK k \in 1..Len(ring) : ring'[i] = ring[k]
            BY <4>2
          <5>. QED  BY <4>1, <4>3, <5>1
        <4>. QED  BY <2>1, <4>3
      <3>. QED  BY <1>1, <1>2, <3>1, <3>2, <3>3 DEF KeptAudio
    <2>2. CASE spc = "apply"
      <3>1. cleared' = seek
        BY <1>1, <2>2
      <3>2. ring' = ring
        BY <1>1, <2>2 DEF ThreadEntry, EnterIdle, WaitTest, WaitReceive, Woke, NoHeader, Drain, AckWait, Acked,
             Activate, SetRunning, DecodeFirstHeader, InnerLeave, DiscardEntry, Flush, Apply, InitialSync, LoadChunk,
             LoadReceive, DecodeMarker, DecodeNewHeader, SkipAudio, DecodeAudio, DecodeIntoNull, SynchronizeAudio,
             TransferAudio, Leave, Stopped, Step, Decoding
      <3>3. StopsSoon => StopsSoon'
        BY <1>1, StopsForGood
      <3>. QED
        BY <1>1, <1>2, <2>2, <3>1, <3>2, <3>3 DEF SeekInv, FlushedAudio, KeptAudio
    <2>3. CASE spc = "decode" /\ entry.kind = "marker"
      <3>1. cleared' = seek
        BY <1>1, <2>3
      <3>2. entry # NoChunk
        BY <2>3, SyncTaskAssumption DEF NoChunk
      <3>3. ring # <<>> /\ ring[1].kind = "marker"
        BY <1>1, <2>3, <3>2, RingIndices DEF BorrowDiscipline
      <3>4. DecodeMarker
        BY <1>1, <2>3 DEF ThreadEntry, EnterIdle, WaitTest, WaitReceive, Woke, NoHeader, Drain, AckWait, Acked,
             Activate, SetRunning, DecodeFirstHeader, InnerLeave, DiscardEntry, Flush, Apply, InitialSync, LoadChunk,
             LoadReceive, DecodeNewHeader, DecodeHeader, SkipAudio, DecodeAudio, DecodeIntoNull, SynchronizeAudio,
             TransferAudio, Leave, Stopped, Step
      <3>5. ring' = Tail(ring)
        BY <1>1, <3>2, <3>4, ReturnTakes DEF DecodeMarker
      <3>6. ASSUME NEW i \in 1..Len(ring'), OfStream(ring'[i])
            PROVE  seek <= SeekOf(ring'[i].tag)
        <4>1. 1 \in 1..Len(ring) /\ i + 1 \in 1..Len(ring) /\ ring'[i] = ring[i + 1] /\ 1 < i + 1
          BY <1>1, <3>3, <3>5, RingIndices
        <4>2. ring[i + 1].kind = "audio" /\ SeekOf(ring[i + 1].tag) \in Nat
          BY <1>1, <3>6, <4>1, RingIndices, TagParts DEF OfStream
        <4>3. seek = 0 \/ Fresh(ring[i + 1])
          BY <3>3, <4>1, <4>2 DEF SeekInv, MarkerDivides
        <4>. QED  BY <1>1, <4>1, <4>2, <4>3 DEF Fresh
      <3>. QED  BY <1>1, <1>2, <3>1, <3>6 DEF KeptAudio
    <2>. QED  BY <1>1, <2>1, <2>2, <2>3
  <1>5. FlushedAudio'
    <2>1. SUFFICES ASSUME spc' = "apply", ~StopsSoon', NEW i \in 1..Len(ring'), OfStream(ring'[i])
                   PROVE  seek <= SeekOf(ring'[i].tag)
      BY <1>1, <1>2 DEF FlushedAudio
    <2>2. ring # <<>> /\ Head(ring).kind = "marker" /\ ring' = Tail(ring)
      <3>1. Len(<<>>) = 0
        OBVIOUS
      <3>. QED  BY <1>1, <2>1, <3>1, ToApply
    <2>3. 1 \in 1..Len(ring) /\ ring[1].kind = "marker" /\ i + 1 \in 1..Len(ring) /\ ring'[i] = ring[i + 1] /\ 1 < i + 1
      BY <1>1, <2>2, RingIndices
    <2>4. ring[i + 1].kind = "audio" /\ SeekOf(ring[i + 1].tag) \in Nat
      BY <1>1, <2>1, <2>3, RingIndices, TagParts DEF OfStream
    <2>5. seek = 0 \/ Fresh(ring[i + 1])
      BY <2>3, <2>4 DEF SeekInv, MarkerDivides
    <2>. QED  BY <1>1, <2>3, <2>4, <2>5 DEF Fresh
  <1>6. SeekIsExact'
    <2>1. SUFFICES ASSUME dbuf' \in Tags, StreamOf(dbuf') = stream
                   PROVE  SeekOf(dbuf') >= cleared'
      BY <1>1 DEF SeekIsExact
    <2>2. cleared' = cleared /\ (dbuf' = dbuf \/ (spc = "decode" /\ entry.kind = "audio" /\ dbuf' = entry.tag))
      BY <1>1, <2>1, ToDecoded
    <2>3. CASE dbuf' = dbuf
      BY <2>1, <2>2, <2>3 DEF SeekInv, SeekIsExact
    <2>4. CASE spc = "decode" /\ entry.kind = "audio" /\ dbuf' = entry.tag
      <3>1. entry # NoChunk
        BY <2>4, SyncTaskAssumption DEF NoChunk
      <3>2. 1 \in 1..Len(ring) /\ entry = ring[1]
        BY <1>1, <3>1, RingIndices DEF BorrowDiscipline
      <3>3. OfStream(ring[1]) /\ ~StopsSoon
        BY <2>1, <2>4, <3>2 DEF OfStream, StopsSoon
      <3>4. cleared <= SeekOf(entry.tag) /\ SeekOf(entry.tag) \in Nat
        BY <1>1, <3>2, <3>3, RingIndices, TagParts DEF SeekInv, KeptAudio
      <3>. QED  BY <1>1, <2>2, <2>4, <3>4
    <2>. QED  BY <2>2, <2>3, <2>4
  <1>. QED
    BY <1>3, <1>4, <1>5, <1>6 DEF SeekInv

LEMMA ElsewhereSeek ==
  ASSUME SeekInv, Elsewhere
  PROVE  SeekInv'
  <1>. USE DEF Elsewhere, OfStream, Fresh
  <1>1. MarkerDivides' /\ SeekIsExact'
    BY DEF SeekInv, MarkerDivides, SeekIsExact
  <1>2. KeptAudio' /\ FlushedAudio'
    BY DEF SeekInv, KeptAudio, FlushedAudio, StopsSoon
  <1>. QED  BY <1>1, <1>2 DEF SeekInv

LEMMA NewStreamSeek ==
  ASSUME PlayerInv, TagsInOrder, StreamStart \/ StreamStartFails
  PROVE  SeekInv'
  <1>1. MarkerDivides' /\ KeptAudio' /\ FlushedAudio'
    BY NewStreamRing DEF MarkerDivides, KeptAudio, FlushedAudio, OfStream
  <1>2. SeekIsExact'
    BY NewStreamRing, TagParts DEF SeekIsExact
  <1>. QED  BY <1>1, <1>2 DEF SeekInv

(* A clear comes when the one before is over: there is no marker in the ring    *)
(* buffer, and the sync thread is at none of the places a clear disturbs.       *)
LEMMA StreamClearSeek ==
  ASSUME PlayerInv, SeekInv, StreamClear, "clear" \notin Rapid
  PROVE  SeekInv'
  <1>1. stream \in Nat /\ seek \in Nat /\ cleared \in Nat
    BY PlayerAssumption DEF PlayerInv, PlayerTypeOK
  <1>2. /\ flags' = flags \cup {"COMMAND_STREAM_CLEAR"} /\ seek' = seek + 1
        /\ UNCHANGED <<ring, spc, dbuf, stream, cleared>>
    BY DEF StreamClear, Signal, svars, ghosts
  <1>3. spc # "apply" /\ \A i \in 1..Len(ring) : ring[i].kind = "audio"
    BY DEF StreamClear, Paced, Settled
  <1>4. MarkerDivides' /\ FlushedAudio' /\ SeekIsExact'
    BY <1>2, <1>3 DEF SeekInv, MarkerDivides, FlushedAudio, SeekIsExact
  <1>5. KeptAudio'
    BY <1>1, <1>2 DEF SeekInv, KeptAudio, StopsSoon, OfStream
  <1>. QED  BY <1>4, <1>5 DEF SeekInv

LEMMA WriteMarkerSeek ==
  ASSUME PlayerInv, SeekInv, WriteMarker
  PROVE  SeekInv'
  <1>1. npc = "marker" /\ UNCHANGED <<flags, spc, dbuf, stream, seek, cleared>>
    BY DEF WriteMarker, WriteChunk, serverVars, vars, svars
  <1>2. SeekIsExact'
    BY <1>1 DEF SeekInv, SeekIsExact
  <1>3. CASE UNCHANGED vars
    <2>1. ring' = ring
      BY <1>3 DEF vars
    <2>2. MarkerDivides' /\ KeptAudio' /\ FlushedAudio'
      BY <1>1, <2>1 DEF SeekInv, MarkerDivides, KeptAudio, FlushedAudio, StopsSoon, OfStream, Fresh
    <2>. QED  BY <1>2, <2>2 DEF SeekInv
  <1>4. CASE WriteChunk([kind |-> "marker", tag |-> <<stream, seek>>])
    <2>1. /\ Len(ring) \in Nat
          /\ \A i \in 1..Len(ring') : \/ i \in 1..Len(ring) /\ ring'[i] = ring[i]
                                      \/ i = Len(ring) + 1 /\ ring'[i].kind = "marker"
      BY <1>1, <1>4, ServerWrites DEF PlayerInv, HasStream, Kinds
    <2>2. MarkerDivides'
      BY <1>1, <2>1 DEF SeekInv, MarkerDivides, Fresh, OfStream
    <2>3. KeptAudio' /\ FlushedAudio'
      BY <1>1, <2>1 DEF SeekInv, KeptAudio, FlushedAudio, StopsSoon, OfStream
    <2>. QED  BY <1>2, <2>2, <2>3 DEF SeekInv
  <1>. QED  BY <1>3, <1>4 DEF WriteMarker

LEMMA BinarySeek ==
  ASSUME PlayerInv, SeekInv, Binary
  PROVE  SeekInv'
  <1>1. UNCHANGED <<flags, spc, dbuf, stream, seek, cleared>>
    BY DEF Binary, Begin, WriteChunk, netVars, ghosts, svars
  <1>2. /\ stream \in Nat /\ seek \in Nat /\ cleared \in Nat /\ Len(ring) \in Nat
        /\ \A i \in 1..Len(ring') :
              \/ i \in 1..Len(ring) /\ ring'[i] = ring[i]
              \/ /\ i = Len(ring) + 1 /\ ring'[i].kind = "audio"
                 /\ StreamOf(ring'[i].tag) = stream /\ SeekOf(ring'[i].tag) = seek
    BY PlayerAssumption, ServerWrites DEF PlayerInv, PlayerTypeOK, HasStream, Kinds, Binary
  <1>3. MarkerDivides'
    <2>1. SUFFICES ASSUME seek # 0, NEW i \in 1..Len(ring'), NEW j \in 1..Len(ring'), i < j,
                         ring'[i].kind = "marker", ring'[j].kind = "audio"
                  PROVE  Fresh(ring'[j])
      BY <1>1 DEF MarkerDivides, Fresh, OfStream
    <2>2. CASE j = Len(ring) + 1
      BY <1>2, <2>1, <2>2 DEF Fresh, OfStream
    <2>3. CASE j \in 1..Len(ring)
      <3>1. i \in 1..Len(ring) /\ ring'[i] = ring[i] /\ ring'[j] = ring[j]
        BY <1>2, <2>1, <2>3
      <3>. QED  BY <2>1, <2>3, <3>1 DEF SeekInv, MarkerDivides
    <2>. QED  BY <1>2, <2>2, <2>3
  <1>4. KeptAudio'
    BY <1>1, <1>2 DEF SeekInv, KeptAudio, StopsSoon, OfStream
  <1>5. FlushedAudio'
    <2>1. SUFFICES ASSUME spc = "apply", ~StopsSoon, NEW i \in 1..Len(ring'), OfStream(ring'[i])
                   PROVE  seek <= SeekOf(ring'[i].tag)
      BY <1>1 DEF FlushedAudio, StopsSoon, OfStream
    <2>2. CASE i \in 1..Len(ring) /\ ring'[i] = ring[i]
      BY <2>1, <2>2 DEF SeekInv, FlushedAudio
    <2>3. CASE SeekOf(ring'[i].tag) = seek
      BY <1>2, <2>3
    <2>. QED  BY <1>2, <2>2, <2>3
  <1>6. SeekIsExact'
    BY <1>1 DEF SeekInv, SeekIsExact
  <1>. QED  BY <1>3, <1>4, <1>5, <1>6 DEF SeekInv

LEMMA SeekInitInv == PlayerInit => SeekInv
  <1>. SUFFICES ASSUME PlayerInit PROVE SeekInv
    OBVIOUS
  <1>1. Len(ring) = 0 /\ spc = "top" /\ seek = 0 /\ cleared = 0 /\ dbuf = NullBuffer
    BY DEF PlayerInit, Init
  <1>. QED  BY <1>1, SyncTaskAssumption DEF SeekInv, MarkerDivides, KeptAudio, FlushedAudio, SeekIsExact

(* The invariant behind PlayerSeekIsExact, as long as a seek waits until the    *)
(* sync thread has settled; starts, ends and teardowns need not.  (Of two seeks *)
(* in a row one flush may wipe the bit of both, at the marker of the first.)    *)
THEOREM PlayerSeekInvariant == ASSUME "clear" \notin Rapid PROVE PlayerSpec => []SeekInv
  <1>1. PlayerInv /\ KeepInv /\ SeekInv /\ [PlayerNext]_pvars => SeekInv'
    <2>1. KeepInv => TagsInOrder
      BY DEF KeepInv
    <2>. QED
      BY <2>1, SeekSteps, SyncThreadSeek, NewStreamSeek, StreamClearSeek, WriteMarkerSeek, BinarySeek, ElsewhereSeek
  <1>. QED  BY <1>1, SeekInitInv, PlayerInvariant, PlayerKeepInvariant, PTL DEF PlayerSpec

(* Once the bit of a seek has been wiped no audio from before it waits to be    *)
(* sent, wherever its marker was met (player_role.cpp:300-330,                  *)
(* sync_task.cpp:729-767).                                                      *)
THEOREM PlayerSeekIsExact == ASSUME "clear" \notin Rapid PROVE PlayerSpec => []SeekIsExact
  <1>1. SeekInv => SeekIsExact
    BY DEF SeekInv
  <1>. QED  BY <1>1, PlayerSeekInvariant, PTL

-----------------------------------------------------------------------------
(* Decoders.  Where the decoder matters, and where it no longer does, because   *)
(* the thread is on its way out of the stream without loading another chunk.    *)
InPlay == {"inner", "load", "decode", "flush", "apply"}
EndsNow == "COMMAND_STREAM_END" \in flags /\ spc \in {"inner", "flush", "apply"}

(* A header of stream n, at or behind place i of the ring buffer; and chunk j   *)
(* has a header of its own stream ahead of it.                                  *)
HeaderFrom(i, n) == \E k \in i..Len(ring) : ring[k].kind = "header" /\ StreamOf(ring[k].tag) = n
Headed(i, j) == \E k \in i..Len(ring) : k < j /\ ring[k].kind = "header" /\ StreamOf(ring[k].tag) = StreamOf(ring[j].tag)

(* Audio behind a header is of its stream or of that of a later header, also    *)
(* the audio that the server sends next.                                        *)
HeadersDivide ==
    \A i, j \in 1..Len(ring) : i < j /\ ring[i].kind = "header" /\ ring[j].kind = "audio" => Headed(i, j)
LastHeader ==
    streaming => \A i \in 1..Len(ring) : ring[i].kind = "header" => HeaderFrom(i, stream)

(* The decoder is of the stream of the audio in the ring buffer, or a header of *)
(* that stream comes first.                                                     *)
OwnDecoder ==
    spc \in InPlay /\ codec # None /\ ~EndsNow =>
        \A j \in 1..Len(ring) : ring[j].kind = "audio" => StreamOf(codec) = StreamOf(ring[j].tag) \/ Headed(1, j)
CurrentDecoder ==
    spc \in InPlay /\ codec # None /\ ~EndsNow /\ streaming => StreamOf(codec) = stream \/ HeaderFrom(1, stream)

(* A flush meets no header, unless the stream it is in is over.                 *)
NoClear == MaxSeeks = 0 => "COMMAND_STREAM_CLEAR" \notin flags
ClearEnds ==
    "COMMAND_STREAM_CLEAR" \in flags /\ ~streaming => "COMMAND_STREAM_END" \in flags \/ mpc = "signalEnd"
DownEnds == mpc = "signalEnd" => ~up
HeaderEnds ==
    "COMMAND_STREAM_CLEAR" \in flags /\ spc \in InStream /\ "COMMAND_STREAM_END" \notin flags =>
        \A i \in 1..Len(ring) : ring[i].kind # "header"

OwnInv == /\ HeadersDivide /\ LastHeader /\ OwnDecoder /\ CurrentDecoder
          /\ NoClear /\ ClearEnds /\ DownEnds /\ HeaderEnds

(* No seeks, or seeks that wait until the sync thread has settled in a session  *)
(* without restarts; and no start that fails.                                   *)
HeadersSafe == ~Refusals /\ (MaxSeeks = 0 \/ Rapid \cap {"clear", "restart"} = {})

(* What the thread leaves of the ring buffer is its end.                        *)
LEMMA TakenRing ==
  ASSUME TypeOK, Taken
  PROVE  \E d \in {0, 1} :
            /\ ring' = ring => d = 0
            /\ Len(ring) \in Nat /\ Len(ring') \in Nat
            /\ \A i \in 1..Len(ring') : i \in Nat /\ i + d \in 1..Len(ring) /\ ring'[i] = ring[i + d]
            /\ \A k \in 1..Len(ring) : k > d => k - d \in 1..Len(ring') /\ ring'[k - d] = ring[k]
            /\ d = 1 => ring # <<>> /\ ring' = Tail(ring)
  <1>1. CASE ring' = ring
    <2>1. Len(ring) \in Nat
      BY RingIndices
    <2>. QED  BY <1>1, <2>1
  <1>2. CASE ring' # ring /\ ring # <<>> /\ ring' = Tail(ring)
    <2>1. Len(ring') = Len(ring) - 1 /\ Len(ring) \in Nat
      BY <1>2, HeadTailProperties DEF TypeOK
    <2>2. \A i \in 1..Len(ring') : i \in Nat /\ i + 1 \in 1..Len(ring) /\ ring'[i] = ring[i + 1]
      <3>1. \A i \in 1..Len(ring') : i + 1 \in 1..Len(ring) /\ ring'[i] = ring[i + 1]
        BY <1>2, RingIndices
      <3>2. \A i \in 1..Len(ring') : i \in Nat
        OBVIOUS
      <3>. QED  BY <3>1, <3>2
    <2>3. \A k \in 1..Len(ring) : k > 1 => k - 1 \in 1..Len(ring') /\ ring'[k - 1] = ring[k]
      BY <2>1, <2>2
    <2>4. Len(ring') \in Nat
      BY <1>2, RingIndices
    <2>. WITNESS 1 \in {0, 1}
    <2>. QED  BY <1>2, <2>1, <2>2, <2>3, <2>4, Zenon
  <1>. QED  BY <1>1, <1>2 DEF Taken

(* A step of the thread into a place where the decoder matters either sets it   *)
(* up anew, with the header at the head of the ring buffer, or keeps it and     *)
(* takes no header, but in a flush.                                             *)
LEMMA IntoPlay ==
  ASSUME TypeOK, BorrowDiscipline, ThreadEntry, spc' \in InPlay, codec' # None
  PROVE  \/ /\ ring # <<>> /\ Head(ring).kind = "header" /\ codec' = Head(ring).tag
            /\ ring' = Tail(ring)
         \/ /\ codec' = codec /\ spc \in InPlay
            /\ EndsNow => EndsNow'
            /\ \/ ring' = ring
               \/ /\ ring # <<>> /\ ring' = Tail(ring)
                  /\ \/ Head(ring).kind # "header"
                     \/ spc = "flush" /\ ("COMMAND_STREAM_END" \in flags => EndsNow')
  <1>. USE DEF InPlay, EndsNow, Goto, Leaving
  <1>1. CASE EnterIdle \/ WaitTest \/ WaitReceive \/ Woke \/ NoHeader \/ Drain \/ AckWait \/ Acked \/ Activate \/ SetRunning
    BY <1>1 DEF EnterIdle, WaitTest, WaitReceive, Woke, NoHeader, Drain, AckWait, Acked, Activate, SetRunning
  <1>2. CASE InnerLeave \/ Leave \/ Stopped
    BY <1>2 DEF InnerLeave, Leave, Stopped
  <1>3. CASE Apply \/ InitialSync \/ LoadChunk \/ SynchronizeAudio \/ TransferAudio
    BY <1>3 DEF Apply, ApplyStreamClear, InitialSync, LoadChunk, SynchronizeAudio, TransferAudio, Step
  <1>4. CASE LoadReceive
    BY <1>4 DEF LoadReceive, ReceiveInto
  <1>5. CASE Flush
    BY <1>5 DEF Flush, ReceiveAndReturn
  <1>6. CASE DiscardEntry
    <2>1. entry = NoChunk
      BY <1>6 DEF DiscardEntry, BorrowDiscipline
    <2>. QED  BY <1>6, <2>1 DEF DiscardEntry, ReturnEntry
  <1>7. CASE DecodeFirstHeader \/ DecodeNewHeader
    <2>1. entry.kind = "header" /\ codec' \in {None, entry.tag} /\ ReturnEntry
      BY <1>7 DEF DecodeFirstHeader, DecodeNewHeader, DecodeHeader
    <2>2. entry # NoChunk
      BY <2>1, SyncTaskAssumption DEF NoChunk
    <2>. QED  BY <2>1, <2>2, ReturnTakes
  <1>8. CASE DecodeMarker \/ SkipAudio \/ DecodeAudio \/ DecodeIntoNull
    <2>1. /\ entry.kind # "header" /\ codec' = codec /\ spc = "decode"
          /\ ring' = ring \/ ReturnEntry
      BY <1>8 DEF DecodeMarker, SkipAudio, DecodeAudio, DecodeIntoNull, Decoding
    <2>2. ring' = ring \/ (ring # <<>> /\ ring' = Tail(ring) /\ Head(ring).kind # "header")
      <3>1. CASE entry = NoChunk
        BY <2>1, <3>1 DEF ReturnEntry
      <3>2. CASE entry # NoChunk
        BY <2>1, <3>2, ReturnTakes
      <3>. QED  BY <3>1, <3>2
    <2>. QED  BY <2>1, <2>2
  <1>. QED
    BY <1>1, <1>2, <1>3, <1>4, <1>5, <1>6, <1>7, <1>8 DEF ThreadEntry

(* A clear that is pending stays so together with an end that is.               *)
LEMMA ThreadBits ==
  ASSUME ThreadEntry, "COMMAND_STREAM_CLEAR" \in flags'
  PROVE  "COMMAND_STREAM_CLEAR" \in flags /\ ("COMMAND_STREAM_END" \in flags => "COMMAND_STREAM_END" \in flags')
  <1>1. CASE EnterIdle \/ WaitTest \/ WaitReceive \/ Woke \/ NoHeader \/ Drain \/ AckWait \/ Acked \/ Activate \/ SetRunning \/ DecodeFirstHeader
    BY <1>1 DEF EnterIdle, WaitTest, WaitReceive, Woke, NoHeader, Drain, AckWait, Acked, Activate, SetRunning, DecodeFirstHeader
  <1>2. CASE InnerLeave \/ DiscardEntry \/ Flush \/ Apply \/ InitialSync \/ LoadChunk \/ LoadReceive
    BY <1>2 DEF InnerLeave, DiscardEntry, Flush, Apply, InitialSync, LoadChunk, LoadReceive, ApplyStreamClear
  <1>3. CASE DecodeMarker \/ DecodeNewHeader \/ SkipAudio \/ DecodeAudio \/ DecodeIntoNull \/ SynchronizeAudio \/ TransferAudio \/ Leave \/ Stopped
    BY <1>3 DEF DecodeMarker, DecodeNewHeader, SkipAudio, DecodeAudio, DecodeIntoNull, SynchronizeAudio, TransferAudio, Leave, Stopped, ApplyStreamClear
  <1>. QED  BY <1>1, <1>2, <1>3 DEF ThreadEntry

LEMMA SyncThreadOwn ==
  ASSUME PlayerInv, FlushSees, OwnInv, SyncThread
  PROVE  OwnInv'
  <1>1. /\ TypeOK /\ BorrowDiscipline /\ ThreadEntry
        /\ UNCHANGED <<streaming, stream, up, mpc>>
    BY DEF PlayerInv, PlayerTypeOK, Inv, SyncThread, serverVars, mainVars
  <1>2. PICK d \in {0, 1} :
            /\ ring' = ring => d = 0
            /\ Len(ring) \in Nat /\ Len(ring') \in Nat
            /\ \A i \in 1..Len(ring') : i \in Nat /\ i + d \in 1..Len(ring) /\ ring'[i] = ring[i + d]
            /\ \A k \in 1..Len(ring) : k > d => k - d \in 1..Len(ring') /\ ring'[k - d] = ring[k]
            /\ d = 1 => ring # <<>> /\ ring' = Tail(ring)
    BY <1>1, ThreadTakes, TakenRing
  <1>3. ASSUME NEW i \in 1..Len(ring'), NEW j \in 1..Len(ring'), Headed(i + d, j + d)
        PROVE  Headed(i, j)'
    <2>1. PICK k \in (i + d)..Len(ring) : /\ k < j + d /\ ring[k].kind = "header"
                                          /\ StreamOf(ring[k].tag) = StreamOf(ring[j + d].tag)
      BY <1>3 DEF Headed
    <2>2. k \in 1..Len(ring) /\ k > d /\ k - d \in i..Len(ring') /\ k - d < j /\ ring'[k - d] = ring[k] /\ ring'[j] = ring[j + d]
      BY <1>2, <2>1
    <2>. QED  BY <2>1, <2>2 DEF Headed
  <1>4. ASSUME NEW i \in 1..Len(ring'), NEW n, HeaderFrom(i + d, n)
        PROVE  \E k \in i..Len(ring') : ring'[k].kind = "header" /\ StreamOf(ring'[k].tag) = n
    <2>1. PICK k \in (i + d)..Len(ring) : ring[k].kind = "header" /\ StreamOf(ring[k].tag) = n
      BY <1>4 DEF HeaderFrom
    <2>2. k \in 1..Len(ring) /\ k > d /\ k - d \in i..Len(ring') /\ ring'[k - d] = ring[k]
      BY <1>2, <2>1
    <2>. QED  BY <2>1, <2>2
  <1>5. HeadersDivide'
    <2>1. SUFFICES ASSUME NEW i \in 1..Len(ring'), NEW j \in 1..Len(ring'), i < j,
                          ring'[i].kind = "header", ring'[j].kind = "audio"
                   PROVE  Headed(i, j)'
      BY DEF HeadersDivide
    <2>2. i + d \in 1..Len(ring) /\ j + d \in 1..Len(ring) /\ i + d < j + d /\ ring[i + d] = ring'[i] /\ ring[j + d] = ring'[j]
      BY <1>2, <2>1
    <2>3. Headed(i + d, j + d)
      BY <2>1, <2>2 DEF OwnInv, HeadersDivide
    <2>. QED  BY <1>3, <2>3
  <1>6. LastHeader'
    <2>1. SUFFICES ASSUME streaming, NEW i \in 1..Len(ring'), ring'[i].kind = "header"
                   PROVE  \E k \in i..Len(ring') : ring'[k].kind = "header" /\ StreamOf(ring'[k].tag) = stream
      BY <1>1 DEF LastHeader, HeaderFrom
    <2>2. HeaderFrom(i + d, stream)
      BY <1>2, <2>1 DEF OwnInv, LastHeader
    <2>. QED  BY <1>4, <2>2
  <1>7. ASSUME spc' \in InPlay, codec' # None, ~EndsNow'
        PROVE  /\ \A j \in 1..Len(ring') : ring'[j].kind = "audio" => StreamOf(codec') = StreamOf(ring'[j].tag) \/ Headed(1, j)'
               /\ streaming => \/ StreamOf(codec') = stream
                               \/ \E k \in 1..Len(ring') : ring'[k].kind = "header" /\ StreamOf(ring'[k].tag) = stream
    <2>1. CASE ring # <<>> /\ Head(ring).kind = "header" /\ codec' = Head(ring).tag /\ ring' = Tail(ring)
      <3>1. d = 1 /\ 1 \in 1..Len(ring) /\ ring[1].kind = "header" /\ codec' = ring[1].tag
        <4>1. Len(ring') = Len(ring) - 1 /\ Len(ring) \in Nat
          BY <1>1, <2>1, HeadTailProperties DEF TypeOK
        <4>2. ring' # ring
          BY <4>1
        <4>3. d # 0
          <5>1. ASSUME d = 0 PROVE FALSE
            <6>1. \A k \in 1..Len(ring) : k - 0 \in 1..Len(ring')
              BY <1>2, <5>1
            <6>2. Len(ring) \in 1..Len(ring)
              BY <1>1, <2>1, RingIndices
            <6>. QED  BY <4>1, <6>1, <6>2
          <5>. QED  BY <5>1
        <4>. QED  BY <1>1, <2>1, <4>3, RingIndices
      <3>2. ASSUME NEW j \in 1..Len(ring'), ring'[j].kind = "audio", StreamOf(codec') # StreamOf(ring'[j].tag)
            PROVE  Headed(1, j)'
        <4>1. j + 1 \in 1..Len(ring) /\ 1 < j + 1 /\ ring'[j] = ring[j + 1]
          BY <1>2, <3>1
        <4>2. PICK k \in 1..Len(ring) : k < j + 1 /\ ring[k].kind = "header" /\ StreamOf(ring[k].tag) = StreamOf(ring[j + 1].tag)
          BY <3>1, <3>2, <4>1 DEF OwnInv, HeadersDivide, Headed
        <4>3. k # 1
          BY <3>1, <3>2, <4>1, <4>2
        <4>4. k - 1 \in 1..Len(ring') /\ k - 1 < j /\ ring'[k - 1] = ring[k]
          BY <1>2, <3>1, <4>2, <4>3
        <4>. QED  BY <4>1, <4>2, <4>4 DEF Headed
      <3>3. ASSUME streaming, StreamOf(codec') # stream
            PROVE  \E k \in 1..Len(ring') : ring'[k].kind = "header" /\ StreamOf(ring'[k].tag) = stream
        <4>1. PICK k \in 1..Len(ring) : ring[k].kind = "header" /\ StreamOf(ring[k].tag) = stream
          BY <3>1, <3>3 DEF OwnInv, LastHeader, HeaderFrom
        <4>2. k # 1
          BY <3>1, <3>3, <4>1
        <4>3. k - 1 \in 1..Len(ring') /\ ring'[k - 1] = ring[k]
          BY <1>2, <3>1, <4>1, <4>2
        <4>. QED  BY <4>1, <4>3
      <3>. QED  BY <3>2, <3>3
    <2>2. CASE /\ codec' = codec /\ spc \in InPlay
               /\ EndsNow => EndsNow'
               /\ \/ ring' = ring
                  \/ /\ ring # <<>> /\ ring' = Tail(ring)
                     /\ \/ Head(ring).kind # "header"
                        \/ spc = "flush" /\ ("COMMAND_STREAM_END" \in flags => EndsNow')
      <3>1. codec # None /\ ~EndsNow /\ spc \in InPlay
        BY <1>7, <2>2
      <3>2. d = 1 => 1 \in 1..Len(ring) /\ ring[1].kind # "header"
        <4>1. ASSUME d = 1, spc = "flush"
              PROVE  ring[1].kind # "header"
          <5>1. "COMMAND_STREAM_CLEAR" \in flags /\ spc \in InStream /\ "COMMAND_STREAM_END" \notin flags
            BY <3>1, <4>1 DEF FlushSees, InStream, EndsNow
          <5>2. 1 \in 1..Len(ring)
            BY <1>1, <1>2, <4>1, RingIndices
          <5>. QED  BY <5>1, <5>2 DEF OwnInv, HeaderEnds
        <4>. QED  BY <1>1, <1>2, <2>2, <4>1, RingIndices
      <3>3. ASSUME NEW j \in 1..Len(ring'), ring'[j].kind = "audio", StreamOf(codec') # StreamOf(ring'[j].tag)
            PROVE  Headed(1, j)'
        <4>1. j + d \in 1..Len(ring) /\ ring'[j] = ring[j + d]
          BY <1>2
        <4>2. PICK k \in 1..Len(ring) : k < j + d /\ ring[k].kind = "header" /\ StreamOf(ring[k].tag) = StreamOf(ring[j + d].tag)
          BY <2>2, <3>1, <3>3, <4>1 DEF OwnInv, OwnDecoder, Headed
        <4>3. k > d
          BY <3>2, <4>2
        <4>4. k - d \in 1..Len(ring') /\ k - d < j /\ ring'[k - d] = ring[k]
          BY <1>2, <4>2, <4>3
        <4>. QED  BY <4>1, <4>2, <4>4 DEF Headed
      <3>4. ASSUME streaming, StreamOf(codec') # stream
            PROVE  \E k \in 1..Len(ring') : ring'[k].kind = "header" /\ StreamOf(ring'[k].tag) = stream
        <4>1. PICK k \in 1..Len(ring) : ring[k].kind = "header" /\ StreamOf(ring[k].tag) = stream
          BY <2>2, <3>1, <3>4 DEF OwnInv, CurrentDecoder, HeaderFrom
        <4>2. k > d
          BY <3>2, <4>1
        <4>3. k - d \in 1..Len(ring') /\ ring'[k - d] = ring[k]
          BY <1>2, <4>1, <4>2
        <4>. QED  BY <4>1, <4>3
      <3>. QED  BY <3>3, <3>4
    <2>. QED  BY <1>1, <1>7, <2>1, <2>2, IntoPlay
  <1>8. OwnDecoder' /\ CurrentDecoder'
    BY <1>1, <1>7 DEF OwnDecoder, CurrentDecoder, HeaderFrom
  <1>9. NoClear' /\ ClearEnds' /\ DownEnds'
    BY <1>1, ThreadBits DEF OwnInv, NoClear, ClearEnds, DownEnds
  <1>10. HeaderEnds'
    <2>1. SUFFICES ASSUME "COMMAND_STREAM_CLEAR" \in flags', spc' \in InStream, "COMMAND_STREAM_END" \notin flags',
                          NEW i \in 1..Len(ring')
                   PROVE  ring'[i].kind # "header"
      BY DEF HeaderEnds
    <2>2. "COMMAND_STREAM_CLEAR" \in flags /\ spc \in InStream /\ "COMMAND_STREAM_END" \notin flags
      BY <1>1, <2>1, InStreamTakes, ThreadBits
    <2>. QED  BY <1>2, <2>2 DEF OwnInv, HeaderEnds
  <1>. QED  BY <1>5, <1>6, <1>8, <1>9, <1>10 DEF OwnInv

(* A chunk that is written behind all others.                                   *)
LEMMA HeadedStays ==
  ASSUME Len(ring) \in Nat, Len(ring') = Len(ring) + 1, \A i \in 1..Len(ring) : ring'[i] = ring[i]
  PROVE  /\ \A i, j \in 1..Len(ring) : Headed(i, j) => Headed(i, j)'
         /\ \A n : \A i \in 1..Len(ring) : HeaderFrom(i, n) =>
               \E k \in i..Len(ring') : ring'[k].kind = "header" /\ StreamOf(ring'[k].tag) = n
  <1>1. ASSUME NEW i \in 1..Len(ring), NEW j \in 1..Len(ring), Headed(i, j)
        PROVE  Headed(i, j)'
    <2>1. PICK k \in i..Len(ring) : k < j /\ ring[k].kind = "header" /\ StreamOf(ring[k].tag) = StreamOf(ring[j].tag)
      BY <1>1 DEF Headed
    <2>2. k \in i..Len(ring') /\ ring'[k] = ring[k] /\ ring'[j] = ring[j]
      BY <2>1
    <2>. QED  BY <2>1, <2>2 DEF Headed
  <1>2. ASSUME NEW i \in 1..Len(ring), NEW n, HeaderFrom(i, n)
        PROVE  \E k \in i..Len(ring') : ring'[k].kind = "header" /\ StreamOf(ring'[k].tag) = n
    <2>1. PICK k \in i..Len(ring) : ring[k].kind = "header" /\ StreamOf(ring[k].tag) = n
      BY <1>2 DEF HeaderFrom
    <2>. QED  BY <2>1
  <1>. QED  BY <1>1, <1>2

LEMMA StreamStartOwn ==
  ASSUME PlayerInv, OwnInv, StreamStart, HeadersSafe
  PROVE  OwnInv'
  <1>1. /\ TypeOK /\ stream \in Nat
        /\ stream + 1 \in 1..MaxStreams /\ 0 \in 0..MaxSeeks
    BY PlayerAssumption DEF PlayerInv, PlayerTypeOK, StreamStart
  <1>2. /\ up /\ stream' = stream + 1 /\ streaming' = TRUE
        /\ UNCHANGED <<flags, spc, codec, up, mpc>>
        /\ streaming => "restart" \in Rapid
    BY DEF StreamStart, Begin, WriteChunk, svars, mainVars
  <1>3. [kind |-> "header", tag |-> <<stream + 1, 0>>] \in Chunk
    BY <1>1, ServerChunk DEF Kinds
  <1>4. StreamOf(<<stream + 1, 0>>) = stream + 1
    BY <1>1, TagParts
  <1>5. /\ Len(ring) \in Nat /\ Len(ring') = Len(ring) + 1
        /\ \A i \in 1..Len(ring) : ring'[i] = ring[i]
        /\ \A i \in 1..Len(ring') : i \in 1..Len(ring) \/ i = Len(ring) + 1
        /\ ring'[Len(ring) + 1].kind = "header" /\ StreamOf(ring'[Len(ring) + 1].tag) = stream'
    BY <1>1, <1>2, <1>3, <1>4, WrittenChunk DEF StreamStart
  <1>6. \A i \in 1..Len(ring') : HeaderFrom(i, stream)'
    BY <1>5 DEF HeaderFrom
  <1>7. LastHeader' /\ CurrentDecoder'
    BY <1>5, <1>6 DEF LastHeader, CurrentDecoder
  <1>8. HeadersDivide'
    BY <1>5, HeadedStays DEF OwnInv, HeadersDivide
  <1>9. OwnDecoder'
    <2>1. SUFFICES ASSUME spc \in InPlay, codec # None, ~EndsNow, NEW j \in 1..Len(ring'), ring'[j].kind = "audio",
                          StreamOf(codec) # StreamOf(ring'[j].tag)
                   PROVE  Headed(1, j)'
      BY <1>2 DEF OwnDecoder, EndsNow
    <2>2. j \in 1..Len(ring) /\ 1 \in 1..Len(ring) /\ ring'[j] = ring[j]
      BY <1>5, <2>1
    <2>. QED  BY <1>5, <2>1, <2>2, HeadedStays DEF OwnInv, OwnDecoder
  <1>10. NoClear' /\ ClearEnds' /\ DownEnds'
    BY <1>2 DEF OwnInv, NoClear, ClearEnds, DownEnds
  <1>11. HeaderEnds'
    <2>1. "COMMAND_STREAM_CLEAR" \notin flags \/ "COMMAND_STREAM_END" \in flags
      BY <1>2 DEF OwnInv, NoClear, ClearEnds, DownEnds, HeadersSafe
    <2>. QED  BY <1>2, <2>1 DEF HeaderEnds
  <1>. QED  BY <1>7, <1>8, <1>9, <1>10, <1>11 DEF OwnInv

(* Audio, or a marker, of the stream that goes on.                              *)
LEMMA WrittenOwn ==
  ASSUME PlayerInv, OwnInv, stream # 0, NEW kind \in {"audio", "marker"},
         WriteChunk([kind |-> kind, tag |-> <<stream, seek>>]), kind = "audio" => streaming,
         UNCHANGED <<streaming, stream, up, mpc>>
  PROVE  OwnInv'
  <1>1. UNCHANGED <<flags, spc, codec>>
    BY DEF WriteChunk, svars
  <1>2. /\ stream \in Nat /\ Len(ring) \in Nat /\ Len(ring') = Len(ring) + 1
        /\ \A i \in 1..Len(ring) : ring'[i] = ring[i]
        /\ \A i \in 1..Len(ring') : \/ i \in 1..Len(ring)
                                    \/ i = Len(ring) + 1 /\ ring'[i].kind = kind /\ StreamOf(ring'[i].tag) = stream
    <2>1. kind \in Kinds
      BY DEF Kinds
    <2>. QED  BY <2>1, ServerWrites
  <1>3. HeadersDivide'
    <2>1. SUFFICES ASSUME NEW i \in 1..Len(ring'), NEW j \in 1..Len(ring'), i < j,
                          ring'[i].kind = "header", ring'[j].kind = "audio"
                   PROVE  Headed(i, j)'
      BY DEF HeadersDivide
    <2>2. i \in 1..Len(ring) /\ ring'[i] = ring[i]
      BY <1>2, <2>1
    <2>3. CASE j \in 1..Len(ring)
      BY <1>2, <2>1, <2>2, <2>3, HeadedStays DEF OwnInv, HeadersDivide
    <2>4. CASE j = Len(ring) + 1
      <3>1. streaming /\ StreamOf(ring'[j].tag) = stream
        BY <1>2, <2>1, <2>4
      <3>2. PICK k \in i..Len(ring) : ring[k].kind = "header" /\ StreamOf(ring[k].tag) = stream
        BY <2>1, <2>2, <3>1 DEF OwnInv, LastHeader, HeaderFrom
      <3>3. k \in i..Len(ring') /\ k < j /\ ring'[k] = ring[k]
        BY <1>2, <2>2, <2>4, <3>2
      <3>. QED  BY <3>1, <3>2, <3>3 DEF Headed
    <2>. QED  BY <1>2, <2>3, <2>4
  <1>4. LastHeader'
    <2>1. SUFFICES ASSUME streaming, NEW i \in 1..Len(ring'), ring'[i].kind = "header"
                   PROVE  \E k \in i..Len(ring') : ring'[k].kind = "header" /\ StreamOf(ring'[k].tag) = stream
      BY DEF LastHeader, HeaderFrom
    <2>2. i \in 1..Len(ring) /\ ring'[i] = ring[i]
      BY <1>2, <2>1
    <2>. QED  BY <1>2, <2>1, <2>2, HeadedStays DEF OwnInv, LastHeader
  <1>5. ASSUME spc \in InPlay, codec # None, ~EndsNow, streaming, StreamOf(codec) # stream
        PROVE  \E k \in 1..Len(ring) : k \in 1..Len(ring') /\ ring'[k].kind = "header" /\ StreamOf(ring'[k].tag) = stream
    BY <1>2, <1>5 DEF OwnInv, CurrentDecoder, HeaderFrom
  <1>6. CurrentDecoder'
    BY <1>1, <1>5 DEF CurrentDecoder, HeaderFrom, EndsNow
  <1>7. OwnDecoder'
    <2>1. SUFFICES ASSUME spc \in InPlay, codec # None, ~EndsNow, NEW j \in 1..Len(ring'), ring'[j].kind = "audio",
                          StreamOf(codec) # StreamOf(ring'[j].tag)
                   PROVE  Headed(1, j)'
      BY <1>1 DEF OwnDecoder, EndsNow
    <2>2. CASE j \in 1..Len(ring)
      <3>1. Headed(1, j) /\ 1 \in 1..Len(ring)
        BY <1>2, <2>1, <2>2 DEF OwnInv, OwnDecoder
      <3>. QED  BY <1>2, <2>2, <3>1, HeadedStays
    <2>3. CASE j = Len(ring) + 1
      <3>1. streaming /\ StreamOf(ring'[j].tag) = stream
        BY <1>2, <2>1, <2>3
      <3>2. PICK k \in 1..Len(ring) : k \in 1..Len(ring') /\ ring'[k].kind = "header" /\ StreamOf(ring'[k].tag) = stream
        BY <1>5, <2>1, <3>1
      <3>. QED  BY <1>2, <2>3, <3>1, <3>2 DEF Headed
    <2>. QED  BY <1>2, <2>2, <2>3
  <1>8. NoClear' /\ ClearEnds' /\ DownEnds'
    BY <1>1 DEF OwnInv, NoClear, ClearEnds, DownEnds
  <1>9. HeaderEnds'
    BY <1>1, <1>2 DEF OwnInv, HeaderEnds
  <1>. QED  BY <1>3, <1>4, <1>6, <1>7, <1>8, <1>9 DEF OwnInv

(* A clear comes when no header waits.                                          *)
LEMMA StreamClearOwn ==
  ASSUME PlayerInv, OwnInv, StreamClear, HeadersSafe
  PROVE  OwnInv'
  <1>1. /\ flags' = flags \cup {"COMMAND_STREAM_CLEAR"} /\ streaming
        /\ UNCHANGED <<ring, spc, codec, streaming, stream, up, mpc>>
    BY DEF StreamClear, Signal, svars, mainVars
  <1>2. MaxSeeks # 0
    BY PlayerAssumption DEF StreamClear, PlayerInv, PlayerTypeOK
  <1>3. \A i \in 1..Len(ring) : ring[i].kind = "audio"
    BY <1>2 DEF StreamClear, Paced, Settled, HeadersSafe
  <1>4. HeadersDivide' /\ LastHeader'
    BY <1>1 DEF OwnInv, HeadersDivide, LastHeader, Headed, HeaderFrom
  <1>5. OwnDecoder' /\ CurrentDecoder'
    BY <1>1 DEF OwnInv, OwnDecoder, CurrentDecoder, EndsNow, Headed, HeaderFrom
  <1>6. NoClear' /\ ClearEnds' /\ DownEnds' /\ HeaderEnds'
    BY <1>1, <1>2, <1>3 DEF OwnInv, NoClear, ClearEnds, DownEnds, HeaderEnds
  <1>. QED  BY <1>4, <1>5, <1>6 DEF OwnInv

(* The steps that leave the ring buffer and the sync thread alone, and when     *)
(* they end the stream tell the thread, or are about to.                        *)
Beside ==
    /\ UNCHANGED <<ring, spc, codec, stream>>
    /\ flags \subseteq flags'
    /\ "COMMAND_STREAM_CLEAR" \in flags' => "COMMAND_STREAM_CLEAR" \in flags
    /\ streaming' => streaming
    /\ streaming => streaming' \/ "COMMAND_STREAM_END" \in flags' \/ mpc' = "signalEnd"
    /\ mpc = "signalEnd" => mpc' = "signalEnd" \/ "COMMAND_STREAM_END" \in flags'
    /\ mpc' = "signalEnd" => ~up' \/ (mpc = "signalEnd" /\ up' = up)

LEMMA OwnSteps ==
  ASSUME [PlayerNext]_pvars, ~Refusals
  PROVE  SyncThread \/ StreamStart \/ StreamClear \/ WriteMarker \/ Binary \/ Beside
  <1>. USE DEF Beside, mainVars, serverVars, netVars, ghosts, Signal, svars, vars
  <1>1. CASE WriteParams \/ PushStart \/ StreamEnd \/ PushEnd
    BY <1>1 DEF WriteParams, PushStart, StreamEnd, PushEnd
  <1>2. CASE TakeEvents \/ Snapshot \/ LeaveEvents \/ OnStreamEnd \/ CleanupReset \/ CleanupFinish \/ Join
    BY <1>2 DEF TakeEvents, Snapshot, LeaveEvents, OnStreamEnd, CleanupReset, CleanupFinish, Join
  <1>3. CASE OnStreamStart \/ CleanupSignal
    BY <1>3 DEF OnStreamStart, HearStart, CleanupSignal
  <1>4. CASE DropConnection \/ TeardownInEnd
    BY <1>4 DEF DropConnection, TeardownInEnd, Teardown
  <1>5. CASE TeardownInStart
    BY <1>5 DEF TeardownInStart, HearStart, Teardown
  <1>6. CASE Reconnect \/ Stop
    BY <1>6 DEF Reconnect, Stop
  <1>7. CASE UNCHANGED pvars
    BY <1>7 DEF pvars, playerVars
  <1>8. ~StreamStartFails
    BY DEF StreamStartFails
  <1>. QED
    BY <1>1, <1>2, <1>3, <1>4, <1>5, <1>6, <1>7, <1>8 DEF PlayerNext, Network, Main, Application

LEMMA BesideOwn ==
  ASSUME OwnInv, Beside
  PROVE  OwnInv'
  <1>. USE DEF Beside
  <1>1. HeadersDivide' /\ LastHeader'
    BY DEF OwnInv, HeadersDivide, LastHeader, Headed, HeaderFrom
  <1>2. EndsNow => EndsNow'
    BY DEF EndsNow
  <1>3. OwnDecoder' /\ CurrentDecoder'
    BY <1>2 DEF OwnInv, OwnDecoder, CurrentDecoder, Headed, HeaderFrom
  <1>4. NoClear' /\ ClearEnds' /\ DownEnds' /\ HeaderEnds'
    BY DEF OwnInv, NoClear, ClearEnds, DownEnds, HeaderEnds
  <1>. QED  BY <1>1, <1>3, <1>4 DEF OwnInv

LEMMA OwnInitInv == PlayerInit => OwnInv
  <1>. SUFFICES ASSUME PlayerInit PROVE OwnInv
    OBVIOUS
  <1>1. Len(ring) = 0 /\ flags = {} /\ spc = "top" /\ mpc = "loop"
    BY DEF PlayerInit, Init
  <1>. QED
    BY <1>1 DEF OwnInv, HeadersDivide, LastHeader, OwnDecoder, CurrentDecoder, InPlay, NoClear, ClearEnds, DownEnds, HeaderEnds

LEMMA OwnNextInv ==
  ASSUME HeadersSafe, PlayerInv, FlushSees, OwnInv, [PlayerNext]_pvars
  PROVE  OwnInv'
  <1>1. CASE WriteMarker
    <2>1. stream # 0 /\ UNCHANGED <<streaming, stream, up, mpc>>
      BY <1>1 DEF WriteMarker, PlayerInv, HasStream, serverVars, mainVars
    <2>2. CASE UNCHANGED vars
      <3>1. Beside
        BY <2>1, <2>2 DEF Beside, vars, svars
      <3>. QED  BY <3>1, BesideOwn
    <2>3. CASE WriteChunk([kind |-> "marker", tag |-> <<stream, seek>>])
      BY <2>1, <2>3, WrittenOwn
    <2>. QED  BY <1>1, <2>2, <2>3 DEF WriteMarker
  <1>2. CASE Binary
    <2>1. /\ stream # 0 /\ UNCHANGED <<streaming, stream, up, mpc>> /\ streaming
          /\ WriteChunk([kind |-> "audio", tag |-> <<stream, seek>>])
      BY <1>2 DEF Binary, PlayerInv, HasStream, mainVars
    <2>. QED  BY <2>1, WrittenOwn
  <1>3. ~Refusals
    BY DEF HeadersSafe
  <1>. QED
    BY <1>1, <1>2, <1>3, OwnSteps, SyncThreadOwn, StreamStartOwn, StreamClearOwn, BesideOwn

(* The invariant behind PlayerDecodesOwnAudio.                                  *)
THEOREM PlayerOwnInvariant == ASSUME HeadersSafe PROVE PlayerSpec => []OwnInv
  <1>1. KeepInv => FlushSees
    BY DEF KeepInv
  <1>2. PlayerInv /\ KeepInv /\ OwnInv /\ [PlayerNext]_pvars => OwnInv'
    BY <1>1, OwnNextInv
  <1>. QED  BY <1>2, OwnInitInv, PlayerInvariant, PlayerKeepInvariant, PTL DEF PlayerSpec

(* No decoder is fed with audio of another stream, in whatever order the        *)
(* headers, audio, commands and teardowns of several streams meet in the ring   *)
(* buffer and the bits (sync_task.cpp:440-470, 869-905), as long as a flush     *)
(* cannot eat the header of a stream that goes on.                              *)
THEOREM PlayerDecodesOwnAudio == ASSUME HeadersSafe PROVE PlayerSpec => []DecodesOwnAudio
  <1>1. ASSUME PlayerInv, OwnInv, spc = "decode", entry.kind = "audio", codec # None
        PROVE  StreamOf(entry.tag) = StreamOf(codec)
    <2>1. TypeOK /\ BorrowDiscipline
      BY <1>1 DEF PlayerInv, Inv
    <2>2. entry # NoChunk
      BY <1>1, SyncTaskAssumption DEF NoChunk
    <2>3. 1 \in 1..Len(ring) /\ entry = ring[1]
      BY <2>1, <2>2, RingIndices DEF BorrowDiscipline
    <2>4. ~Headed(1, 1)
      BY DEF Headed
    <2>. QED  BY <1>1, <2>3, <2>4 DEF OwnInv, OwnDecoder, InPlay, EndsNow
  <1>2. PlayerInv /\ OwnInv => DecodesOwnAudio
    BY <1>1 DEF DecodesOwnAudio
  <1>. QED  BY <1>2, PlayerOwnInvariant, PlayerInvariant, PTL

-----------------------------------------------------------------------------

(* Streams.  A start waits to be heard from the moment its header is in the     *)
(* ring buffer.                                                                 *)
Starts(events) == \E i \in 1..Len(events) : events[i].type = "STREAM_START"
Ends(events) == \E i \in 1..Len(events) : events[i].type = "STREAM_END"
StartQueued == Starts(awaiting) \/ Starts(inbox)
EndQueued == Ends(awaiting) \/ Ends(inbox)
TearingDown == mpc \in {"signalEnd", "reset", "finish"}
HeaderIn == \E i \in 1..Len(ring) : ring[i].kind = "header"
Announcing == npc \in {"params", "pushStart"} \/ (StartQueued /\ ~TearingDown)

(* The sync thread has been told to begin, or has begun, and has not set up     *)
(* the decoder yet.                                                             *)
Turns == {"COMMAND_STREAM_END", "COMMAND_STREAM_CLEAR"}
Armed ==
    \/ "COMMAND_START" \in flags
    \/ spc \in {"activate", "running", "header"}
    \/ spc = "acked" /\ flags \cap Turns = {}

HeardInOrder == heard <= stream /\ (heard # 0 => current = heard)

(* Nothing is sent while the connection is down; a teardown has emptied the     *)
(* inbox ring.                                                                  *)
DownIsQuiet ==
    /\ ~up => npc = "none" /\ ~streaming
    /\ TearingDown => ~up /\ inbox = <<>>

(* There is one header at most, the current stream's, and it is returned        *)
(* before anything is decoded.                                                  *)
OneHeader ==
    /\ \A i \in 1..Len(ring) : ring[i].kind = "header" => ring[i].tag = <<stream, 0>>
    /\ \A i, j \in 1..Len(ring) : ring[i].kind = "header" /\ ring[j].kind = "header" => i = j
HeaderWaits ==
    /\ HeaderIn => spc \in Idling \cup {"header", "stopped", "done"}
    /\ spc \in {"ack", "acked", "activate", "running", "header"} => entry # NoChunk
    /\ spc \in {"woke", "ack", "acked", "activate", "running", "header"} /\ entry # NoChunk => entry.kind = "header"

(* One start at most is queued, the current stream's, and it is the last of     *)
(* the events.                                                                  *)
StartIsLast ==
    /\ \A i \in 1..Len(awaiting) :
          awaiting[i].type = "STREAM_START" => i = Len(awaiting) /\ inbox = <<>> /\ awaiting[i].stream = stream
    /\ \A i \in 1..Len(inbox) :
          inbox[i].type = "STREAM_START" => i = Len(inbox) /\ inbox[i].stream = stream

(* While a start is announced, and until it has been taken up, the sync thread  *)
(* waits with the header or for it.                                             *)
Waiting == {"wait", "recv", "woke", "ack", "stopped", "done"}
Held == spc = "woke" => entry # NoChunk \/ "COMMAND_STOP" \in flags
AnnouncedFirst ==
    /\ Announcing =>
         /\ HeaderIn /\ up /\ streaming /\ heard # stream
         /\ flags \cap Commands \subseteq {"COMMAND_STOP"}
         /\ spc \in Waiting /\ Held
    /\ npc # "none" => ~StartQueued
    /\ npc = "pushStart" \/ (StartQueued /\ ~TearingDown) => params = stream
ArmedIsHeard ==
    Armed =>
      /\ HeaderIn /\ streaming /\ up /\ heard = stream
      /\ npc = "none" /\ awaiting = <<>> /\ inbox = <<>>
      /\ mpc # "snapshot" /\ (mpc = "events" => ~syncIdle)
      /\ flags \cap Turns = {}
      /\ "COMMAND_START" \in flags => spc \in Waiting \cup {"acked", "activate"}
      /\ Held

(* The stream that is decoded is the current one, it is the one heard of last,  *)
(* and sync_idle was not taken before it began.                                 *)
ActiveIsHeard ==
    /\ spc \notin Active => running = 0
    /\ spc \in Active =>
         /\ running = stream /\ heard = stream
         /\ mpc = "events" => ~syncIdle
         /\ streaming \/ "COMMAND_STREAM_END" \in flags \/ mpc = "signalEnd"

(* The listener will be told of the end of a stream that is over.               *)
OverIsTold ==
    heard # 0 /\ (~streaming \/ heard # stream) => EndQueued \/ npc = "pushEnd" \/ TearingDown

PacedInv ==
    /\ HeardInOrder /\ DownIsQuiet /\ OneHeader /\ HeaderWaits /\ StartIsLast
    /\ AnnouncedFirst /\ ArmedIsHeard /\ ActiveIsHeard /\ OverIsTold

-----------------------------------------------------------------------------
(* What a message that is paced finds.                                          *)
LEMMA SettledHasNoHeader ==
  ASSUME TypeOK, Settled
  PROVE  /\ ~HeaderIn /\ npc = "none" /\ flags \cap Commands = {}
         /\ spc \in {"wait", "recv", "inner", "load", "decode"}
  BY DEF Settled, HeaderIn, TypeOK

LEMMA SettledIsQuiet ==
  ASSUME PlayerInv, PacedInv, Settled
  PROVE  /\ ~HeaderIn /\ ~Announcing /\ ~Armed /\ npc = "none"
         /\ flags \cap Commands = {} /\ "COMMAND_START" \notin flags /\ "COMMAND_STREAM_END" \notin flags
         /\ spc \in {"wait", "recv", "inner", "load", "decode"}
         /\ ~TearingDown => ~StartQueued
         /\ ~TearingDown /\ ~streaming => spc \in {"wait", "recv"}
         /\ spc \in {"wait", "recv"} => running = 0
  <1>1. /\ ~HeaderIn /\ npc = "none" /\ flags \cap Commands = {}
        /\ spc \in {"wait", "recv", "inner", "load", "decode"}
    BY SettledHasNoHeader DEF PlayerInv, Inv
  <1>2. "COMMAND_START" \notin flags /\ "COMMAND_STREAM_END" \notin flags
    BY <1>1 DEF Commands
  <1>3. ~Announcing /\ ~Armed
    BY <1>1 DEF PacedInv, AnnouncedFirst, ArmedIsHeard
  <1>4. ~TearingDown /\ ~streaming => spc \in {"wait", "recv"}
    BY <1>1, <1>2 DEF PacedInv, ActiveIsHeard, Active, TearingDown
  <1>5. spc \in {"wait", "recv"} => running = 0
    BY DEF PacedInv, ActiveIsHeard, Active
  <1>. QED  BY <1>1, <1>2, <1>3, <1>4, <1>5 DEF Announcing

(* A queue and what is done with it.                                            *)
LEMMA QueueKinds ==
  ASSUME NEW q \in Seq(Event)
  PROVE  /\ Len(q) \in Nat
         /\ \A i \in 1..Len(q) : q[i] \in Event /\ (q[i].type = "STREAM_START" \/ q[i].type = "STREAM_END")
         /\ q = <<>> => ~Starts(q) /\ ~Ends(q)
         /\ q # <<>> => /\ 1 \in 1..Len(q) /\ Head(q) = q[1]
                        /\ Starts(q) \/ Ends(q)
                        /\ Head(q).type = "STREAM_START" => Starts(q)
                        /\ Head(q).type = "STREAM_END" => Ends(q)
                        /\ Starts(Tail(q)) => Starts(q)
         /\ \A e \in Event : /\ Starts(Append(q, e)) <=> Starts(q) \/ e.type = "STREAM_START"
                             /\ Ends(Append(q, e)) <=> Ends(q) \/ e.type = "STREAM_END"
         /\ \A r \in Seq(Event) : /\ Starts(q \o r) <=> Starts(q) \/ Starts(r)
                                  /\ Ends(q \o r) <=> Ends(q) \/ Ends(r)
  <1>1. /\ Len(q) \in Nat
        /\ \A i \in 1..Len(q) : q[i] \in Event /\ (q[i].type = "STREAM_START" \/ q[i].type = "STREAM_END")
        /\ q = <<>> => ~Starts(q) /\ ~Ends(q)
    <2>1. Len(q) \in Nat /\ \A i \in 1..Len(q) : q[i] \in Event
      OBVIOUS
    <2>2. \A e \in Event : e.type = "STREAM_START" \/ e.type = "STREAM_END"
      BY DEF Event
    <2>3. q = <<>> => ~Starts(q) /\ ~Ends(q)
      BY DEF Starts, Ends
    <2>. QED  BY <2>1, <2>2, <2>3
  <1>2. ASSUME q # <<>>
        PROVE  /\ 1 \in 1..Len(q) /\ Head(q) = q[1]
               /\ Starts(q) \/ Ends(q)
               /\ Head(q).type = "STREAM_START" => Starts(q)
               /\ Head(q).type = "STREAM_END" => Ends(q)
               /\ Starts(Tail(q)) => Starts(q)
    <2>1. 1 \in 1..Len(q) /\ Head(q) = q[1]
      BY <1>2
    <2>2. \A i \in 1..Len(Tail(q)) : i + 1 \in 1..Len(q) /\ Tail(q)[i] = q[i + 1]
      BY <1>1, <1>2, HeadTailProperties
    <2>. QED  BY <1>1, <2>1, <2>2 DEF Starts, Ends
  <1>3. ASSUME NEW e \in Event
        PROVE  /\ Starts(Append(q, e)) <=> Starts(q) \/ e.type = "STREAM_START"
               /\ Ends(Append(q, e)) <=> Ends(q) \/ e.type = "STREAM_END"
    <2>1. /\ Len(Append(q, e)) = Len(q) + 1
          /\ \A i \in 1..Len(q) : Append(q, e)[i] = q[i]
          /\ Append(q, e)[Len(q) + 1] = e
      BY AppendProperties
    <2>2. \A i : i \in 1..Len(Append(q, e)) <=> i \in 1..Len(q) \/ i = Len(q) + 1
      BY <1>1, <2>1
    <2>. QED  BY <2>1, <2>2 DEF Starts, Ends
  <1>4. ASSUME NEW r \in Seq(Event)
        PROVE  /\ Starts(q \o r) <=> Starts(q) \/ Starts(r)
               /\ Ends(q \o r) <=> Ends(q) \/ Ends(r)
    <2>1. /\ Len(q \o r) = Len(q) + Len(r) /\ Len(r) \in Nat
          /\ \A i \in 1..Len(q) : i \in 1..Len(q \o r) /\ (q \o r)[i] = q[i]
          /\ \A i \in 1..Len(r) : Len(q) + i \in 1..Len(q \o r) /\ (q \o r)[Len(q) + i] = r[i]
      BY <1>1, ConcatProperties
    <2>2. \A i \in 1..Len(q \o r) : \/ i \in 1..Len(q) /\ (q \o r)[i] = q[i]
                                    \/ i - Len(q) \in 1..Len(r) /\ (q \o r)[i] = r[i - Len(q)]
      BY <1>1, <2>1, ConcatProperties
    <2>3. ASSUME NEW t, t \in {"STREAM_START", "STREAM_END"}
          PROVE  (\E i \in 1..Len(q \o r) : (q \o r)[i].type = t)
                    <=> (\E i \in 1..Len(q) : q[i].type = t) \/ (\E i \in 1..Len(r) : r[i].type = t)
      <3>1. ASSUME NEW i \in 1..Len(q \o r), (q \o r)[i].type = t
            PROVE  (\E k \in 1..Len(q) : q[k].type = t) \/ (\E k \in 1..Len(r) : r[k].type = t)
        BY <2>2, <3>1
      <3>2. ASSUME NEW i \in 1..Len(q), q[i].type = t
            PROVE  \E k \in 1..Len(q \o r) : (q \o r)[k].type = t
        BY <2>1, <3>2
      <3>3. ASSUME NEW i \in 1..Len(r), r[i].type = t
            PROVE  \E k \in 1..Len(q \o r) : (q \o r)[k].type = t
        BY <2>1, <3>3
      <3>. QED  BY <3>1, <3>2, <3>3
    <2>. QED  BY <2>3 DEF Starts, Ends
  <1>. QED  BY <1>1, <1>2, <1>3, <1>4
-----------------------------------------------------------------------------
(* The sync thread takes the header in its own time: it keeps it from the       *)
(* moment it is received until it has become active.                            *)
EntryFromRing ==
  /\ entry # NoChunk => ring # <<>> /\ entry = ring[1] /\ 1 \in 1..Len(ring)
  /\ entry.kind = "header" => entry # NoChunk
LEMMA EntryIsFirst ==
  ASSUME PlayerInv
  PROVE  EntryFromRing
  BY RingIndices, SyncTaskAssumption DEF PlayerInv, Inv, BorrowDiscipline, NoChunk, EntryFromRing

LEMMA FewerHeaders ==
  ASSUME TypeOK, Taken
  PROVE  /\ HeaderIn' => HeaderIn
         /\ OneHeader /\ stream' = stream => OneHeader'
         /\ OneHeader /\ ring # <<>> /\ ring' = Tail(ring) /\ ring[1].kind = "header" => ~HeaderIn'
         /\ ring # <<>> /\ ring' = Tail(ring) /\ ring[1].kind # "header" /\ HeaderIn => HeaderIn'
  <1>1. CASE ring' = ring
    BY <1>1, RingIndices, HeadTailProperties DEF HeaderIn, OneHeader, TypeOK
  <1>2. CASE ring # <<>> /\ ring' = Tail(ring)
    <2>1. /\ Len(ring) \in Nat /\ 1 \in 1..Len(ring) /\ Len(ring') = Len(ring) - 1
          /\ \A i \in 1..Len(ring') : i \in Nat /\ i + 1 \in 1..Len(ring) /\ i + 1 # 1 /\ ring'[i] = ring[i + 1]
          /\ \A i \in 1..Len(ring) : i # 1 => i - 1 \in 1..Len(ring') /\ ring'[i - 1] = ring[i]
      BY <1>2, RingIndices, HeadTailProperties DEF TypeOK
    <2>2. HeaderIn' => HeaderIn
      BY <2>1 DEF HeaderIn
    <2>3. OneHeader /\ stream' = stream => OneHeader'
      <3>1. ASSUME OneHeader, NEW i \in 1..Len(ring'), NEW j \in 1..Len(ring'),
                   ring'[i].kind = "header", ring'[j].kind = "header"
            PROVE  i = j /\ ring'[i].tag = <<stream, 0>>
        <4>1. i + 1 = j + 1 /\ ring[i + 1].tag = <<stream, 0>>
          BY <2>1, <3>1 DEF OneHeader
        <4>. QED  BY <2>1, <4>1
      <3>. QED  BY <3>1 DEF OneHeader
    <2>4. OneHeader /\ ring[1].kind = "header" => ~HeaderIn'
      BY <2>1 DEF HeaderIn, OneHeader
    <2>5. ring[1].kind # "header" /\ HeaderIn => HeaderIn'
      BY <2>1 DEF HeaderIn
    <2>. QED  BY <2>2, <2>3, <2>4, <2>5
  <1>. QED  BY <1>1, <1>2 DEF Taken

(* The header leaves the ring buffer on the way back to idle, or for good.      *)
LEMMA HeaderStays ==
  ASSUME PlayerInv, PacedInv, ThreadEntry, HeaderIn
  PROVE  \/ HeaderIn' /\ spc \notin Active /\ spc' \in Idling \cup {"header", "stopped", "done"}
         \/ spc = "acked" /\ flags \cap Turns # {} /\ spc' = "top"
         \/ spc = "header" /\ spc' = "inner" /\ ~HeaderIn'
  <1>1. /\ TypeOK /\ BorrowDiscipline /\ OneHeader /\ HeaderWaits /\ EntryFromRing /\ Taken
        /\ spc \in Idling \cup {"header", "stopped", "done"}
    BY EntryIsFirst, ThreadTakes DEF PlayerInv, Inv, PacedInv, HeaderWaits
  <1>2. ring' = ring => HeaderIn'
    BY DEF HeaderIn
  <1>. USE DEF Goto, Idling, Active
  <1>3. CASE EnterIdle \/ WaitTest \/ Woke \/ NoHeader \/ AckWait \/ Activate \/ SetRunning \/ Stopped
    BY <1>1, <1>2, <1>3 DEF EnterIdle, WaitTest, Woke, NoHeader, AckWait, Activate, SetRunning, Stopped
  <1>4. CASE WaitReceive
    BY <1>1, <1>2, <1>4, FewerHeaders, RingIndices DEF WaitReceive, ReceiveInto, ReceiveAndReturn
  <1>5. CASE Drain
    BY <1>1, <1>2, <1>5, FewerHeaders, RingIndices DEF Drain, ReceiveInto, ReceiveAndReturn
  <1>6. CASE Acked
    BY <1>1, <1>2, <1>6 DEF Acked, Turns
  <1>7. CASE DecodeFirstHeader
    <2>1. ring # <<>> /\ ring' = Tail(ring) /\ ring[1].kind = "header"
      BY <1>1, <1>7 DEF DecodeFirstHeader, HeaderWaits, ReturnEntry, EntryFromRing
    <2>. QED  BY <1>1, <1>7, <2>1, FewerHeaders DEF DecodeFirstHeader
  <1>8. CASE \/ InnerLeave \/ DiscardEntry \/ Flush \/ Apply \/ InitialSync \/ LoadChunk \/ LoadReceive
             \/ DecodeMarker \/ DecodeNewHeader \/ SkipAudio \/ DecodeAudio \/ DecodeIntoNull
             \/ SynchronizeAudio \/ TransferAudio \/ Leave
    <2>1. spc \in {"inner", "load", "decode", "flush", "apply", "leave"}
      BY <1>8 DEF InnerLeave, DiscardEntry, Flush, Apply, InitialSync, LoadChunk, LoadReceive, DecodeMarker,
         DecodeNewHeader, SkipAudio, DecodeAudio, DecodeIntoNull, SynchronizeAudio, TransferAudio, Leave, Step, Decoding
    <2>. QED  BY <1>1, <2>1
  <1>. QED  BY <1>3, <1>4, <1>5, <1>6, <1>7, <1>8 DEF ThreadEntry
LEMMA ThreadHeaderWaits ==
  ASSUME PlayerInv, PacedInv, ThreadEntry
  PROVE  HeaderWaits'
  <1>1. /\ TypeOK /\ BorrowDiscipline /\ HeaderWaits /\ EntryFromRing
    BY EntryIsFirst DEF PlayerInv, Inv, PacedInv
  <1>2. HeaderIn' => spc' \in Idling \cup {"header", "stopped", "done"}
    BY <1>1, FewerHeaders, ThreadTakes, HeaderStays DEF Idling
  <1>3. /\ spc' \in {"ack", "acked", "activate", "running", "header"} => entry' # NoChunk
        /\ spc' \in {"woke", "ack", "acked", "activate", "running", "header"} /\ entry' # NoChunk => entry'.kind = "header"
    <2>. USE DEF HeaderWaits, Goto
    <2>1. CASE WaitReceive
      <3>1. CASE ring # <<>> /\ Head(ring).kind = "header" /\ ReceiveInto /\ Goto("woke")
        BY <3>1 DEF ReceiveInto
      <3>. QED  BY <2>1, <3>1 DEF WaitReceive
    <2>2. CASE Drain
      <3>1. CASE ring # <<>> /\ Head(ring).kind = "header" /\ ReceiveInto /\ Goto("ack")
        BY <1>1, <3>1, ReceiveOK DEF ReceiveInto
      <3>. QED  BY <2>2, <3>1 DEF Drain
    <2>3. CASE WaitTest
      BY <1>1, <2>3 DEF WaitTest, BorrowDiscipline
    <2>4. CASE EnterIdle \/ Woke \/ NoHeader \/ AckWait \/ Acked \/ Activate \/ SetRunning
      BY <1>1, <2>4 DEF EnterIdle, Woke, NoHeader, AckWait, Acked, Activate, SetRunning
    <2>5. ASSUME \/ DecodeFirstHeader \/ Stopped \/ InnerLeave \/ DiscardEntry \/ Flush \/ Apply \/ InitialSync \/ LoadChunk \/ LoadReceive
                 \/ DecodeMarker \/ DecodeNewHeader \/ SkipAudio \/ DecodeAudio \/ DecodeIntoNull
                 \/ SynchronizeAudio \/ TransferAudio \/ Leave
          PROVE  spc' \notin {"woke", "ack", "acked", "activate", "running", "header"}
      BY <2>5 DEF DecodeFirstHeader, Stopped, InnerLeave, DiscardEntry, Flush, Apply, InitialSync, LoadChunk, LoadReceive,
         DecodeMarker, DecodeNewHeader, SkipAudio, DecodeAudio, DecodeIntoNull, SynchronizeAudio, TransferAudio,
         Leave, Step, Decoding
    <2>. QED  BY <2>1, <2>2, <2>3, <2>4, <2>5 DEF ThreadEntry
  <1>. QED  BY <1>2, <1>3 DEF HeaderWaits

(* A thread that waits, with no command but COMMAND_STOP and COMMAND_START,     *)
(* goes on to wait or is stopped; once it has COMMAND_START it becomes active.  *)
LEMMA WaitingGoesOn ==
  ASSUME PlayerInv, PacedInv, ThreadEntry, HeaderIn, Held, spc \in Waiting,
         flags \cap Turns = {}
  PROVE  /\ HeaderIn' /\ Held' /\ flags' \cap Commands = flags \cap Commands
         /\ spc' \in Waiting \cup {"acked"}
         /\ spc' = "acked" => "COMMAND_START" \in flags
  <1>1. /\ TypeOK /\ BorrowDiscipline /\ HeaderWaits /\ EntryFromRing
    BY EntryIsFirst DEF PlayerInv, Inv, PacedInv
  <1>2. HeaderIn'
    BY HeaderStays DEF Waiting
  <1>3. /\ Held' /\ flags' \cap Commands = flags \cap Commands
        /\ spc' \in Waiting \cup {"acked"}
        /\ spc' = "acked" => "COMMAND_START" \in flags
    <2>. USE DEF Held, Waiting, Goto, Turns, Commands
    <2>1. CASE WaitTest
      BY <1>1, <2>1 DEF WaitTest
    <2>2. CASE WaitReceive
      <3>1. CASE ring # <<>> /\ Head(ring).kind = "header" /\ ReceiveInto /\ Goto("woke")
        BY <1>1, <2>2, <3>1, ReceiveOK DEF WaitReceive
      <3>. QED  BY <2>2, <3>1 DEF WaitReceive
    <2>3. CASE Woke
      BY <2>3 DEF Woke
    <2>4. CASE AckWait
      BY <2>4 DEF AckWait
    <2>5. CASE Stopped
      BY <2>5 DEF Stopped
    <2>6. spc \in {"wait", "recv", "woke", "ack", "stopped", "done"}
      OBVIOUS
    <2>7. ~(EnterIdle \/ NoHeader \/ Drain \/ Acked \/ Activate \/ SetRunning \/ DecodeFirstHeader
            \/ InnerLeave \/ DiscardEntry \/ Flush \/ Apply \/ InitialSync \/ LoadChunk \/ LoadReceive)
      BY <2>6 DEF EnterIdle, NoHeader, Drain, Acked, Activate, SetRunning, DecodeFirstHeader,
         InnerLeave, DiscardEntry, Flush, Apply, InitialSync, LoadChunk, LoadReceive, Step
    <2>8. ~(DecodeMarker \/ DecodeNewHeader \/ SkipAudio \/ DecodeAudio \/ DecodeIntoNull
            \/ SynchronizeAudio \/ TransferAudio \/ Leave)
      BY <2>6 DEF DecodeMarker, DecodeNewHeader, SkipAudio, DecodeAudio, DecodeIntoNull, SynchronizeAudio, TransferAudio,
         Leave, Step, Decoding
    <2>. QED  BY <2>1, <2>2, <2>3, <2>4, <2>5, <2>7, <2>8 DEF ThreadEntry
  <1>. QED  BY <1>2, <1>3

(* It is armed only by what arms it: no step of its own gives it a start.       *)
LEMMA ThreadArmed ==
  ASSUME PlayerInv, PacedInv, ThreadEntry, Armed'
  PROVE  /\ Armed /\ HeaderIn' /\ flags' \cap Turns = {} /\ Held'
         /\ "COMMAND_START" \in flags' => spc' \in Waiting \cup {"acked", "activate"}
  <1>0. HeaderWaits /\ ArmedIsHeard
    BY DEF PacedInv
  <1>. USE DEF Goto
  <1>1. CASE EnterIdle \/ NoHeader \/ Drain
    BY <1>0, <1>1 DEF EnterIdle, NoHeader, Drain, Armed, ArmedIsHeard, Waiting, ReceiveInto, ReceiveAndReturn
  <1>2. CASE WaitTest \/ WaitReceive \/ Woke \/ Stopped
    <2>1. Armed /\ spc \in Waiting
      BY <1>2 DEF WaitTest, WaitReceive, Woke, Stopped, Armed, Waiting
    <2>. QED  BY <1>0, <2>1, WaitingGoesOn DEF ArmedIsHeard, Turns, Commands
  <1>3. CASE AckWait
    <2>1. Armed /\ spc \in Waiting
      BY <1>3 DEF AckWait, Armed, Waiting, Commands, Turns
    <2>. QED  BY <1>0, <2>1, WaitingGoesOn DEF ArmedIsHeard, Turns, Commands
  <1>4. CASE Acked
    <2>1. spc = "acked" /\ flags' = flags
      BY <1>4 DEF Acked
    <2>2. Armed
      BY <1>4, <2>1 DEF Acked, Armed, Turns
    <2>3. flags \cap Turns = {}
      BY <1>0, <2>2 DEF ArmedIsHeard
    <2>4. spc' = "activate" /\ ring' = ring
      BY <1>4, <2>3 DEF Acked, Turns
    <2>. QED  BY <1>0, <2>1, <2>2, <2>3, <2>4 DEF ArmedIsHeard, HeaderIn, Held
  <1>5. CASE Activate \/ SetRunning
    <2>1. /\ spc \in {"activate", "running"} /\ ring' = ring /\ spc' \in {"running", "header"}
          /\ flags' \cap Turns \subseteq flags /\ ("COMMAND_START" \in flags' => spc = "running" /\ "COMMAND_START" \in flags)
      BY <1>5 DEF Activate, SetRunning, Turns
    <2>2. Armed
      BY <2>1 DEF Armed
    <2>3. "COMMAND_START" \notin flags'
      BY <1>0, <2>1, <2>2 DEF ArmedIsHeard, Waiting
    <2>. QED  BY <1>0, <2>1, <2>2, <2>3 DEF ArmedIsHeard, HeaderIn, Held
  <1>6. CASE \/ DecodeFirstHeader \/ InnerLeave \/ DiscardEntry \/ Flush \/ Apply \/ InitialSync \/ LoadChunk \/ LoadReceive
             \/ DecodeMarker \/ DecodeNewHeader \/ SkipAudio \/ DecodeAudio \/ DecodeIntoNull
             \/ SynchronizeAudio \/ TransferAudio \/ Leave
    <2>1. /\ spc \in Active /\ ("COMMAND_START" \in flags' => "COMMAND_START" \in flags)
      BY <1>6 DEF DecodeFirstHeader, InnerLeave, DiscardEntry, Flush, Apply, InitialSync, LoadChunk, LoadReceive,
         DecodeMarker, DecodeNewHeader, SkipAudio, DecodeAudio, DecodeIntoNull, SynchronizeAudio, TransferAudio,
         Leave, Step, Decoding, ApplyStreamClear, Active
    <2>2. spc' \notin {"acked", "activate", "running", "header"}
      BY <1>6 DEF DecodeFirstHeader, InnerLeave, DiscardEntry, Flush, Apply, InitialSync, LoadChunk, LoadReceive,
         DecodeMarker, DecodeNewHeader, SkipAudio, DecodeAudio, DecodeIntoNull, SynchronizeAudio, TransferAudio,
         Leave, Step, Decoding
    <2>3. "COMMAND_START" \in flags
      BY <2>1, <2>2 DEF Armed
    <2>. QED  BY <1>0, <2>1, <2>3 DEF ArmedIsHeard, Armed, Waiting, Active
  <1>. QED  BY <1>1, <1>2, <1>3, <1>4, <1>5, <1>6 DEF ThreadEntry
LEMMA SyncThreadPaced ==
  ASSUME PlayerInv, PacedInv, SyncThread
  PROVE  PacedInv'
  <1>1. /\ ThreadEntry /\ TypeOK /\ OneHeader /\ HeaderWaits /\ EntryFromRing
        /\ UNCHANGED <<up, streaming, stream, npc, params, inbox, mpc, awaiting, syncIdle, current, heard>>
        /\ stream \in Nat
    BY EntryIsFirst, PlayerAssumption DEF PlayerInv, PlayerTypeOK, Inv, PacedInv, SyncThread, serverVars, netVars, mainVars
  <1>2. /\ (StartQueued' <=> StartQueued) /\ (EndQueued' <=> EndQueued) /\ (TearingDown' <=> TearingDown)
        /\ (Announcing' <=> Announcing)
    BY <1>1 DEF StartQueued, EndQueued, TearingDown, Announcing, Starts, Ends
  <1>3. HeardInOrder' /\ DownIsQuiet' /\ StartIsLast' /\ OverIsTold'
    <2>1. HeardInOrder' /\ DownIsQuiet'
      BY <1>1, <1>2 DEF PacedInv, HeardInOrder, DownIsQuiet
    <2>2. StartIsLast'
      BY <1>1 DEF PacedInv, StartIsLast
    <2>3. OverIsTold'
      BY <1>1, <1>2 DEF PacedInv, OverIsTold
    <2>. QED  BY <2>1, <2>2, <2>3
  <1>4. OneHeader' /\ HeaderWaits'
    BY <1>1, ThreadTakes, FewerHeaders, ThreadHeaderWaits DEF PlayerInv, Inv
  <1>5. AnnouncedFirst'
    <2>1. ASSUME Announcing
          PROVE  HeaderIn' /\ Held' /\ flags' \cap Commands = flags \cap Commands /\ spc' \in Waiting
      <3>1. /\ HeaderIn /\ Held /\ spc \in Waiting /\ flags \cap Commands \subseteq {"COMMAND_STOP"}
        BY <2>1 DEF PacedInv, AnnouncedFirst
      <3>2. flags \cap Turns = {} /\ "COMMAND_START" \notin flags
        BY <3>1 DEF Turns, Commands
      <3>. QED  BY <1>1, <3>1, <3>2, WaitingGoesOn
    <2>. QED  BY <1>1, <1>2, <2>1 DEF PacedInv, AnnouncedFirst
  <1>6. ArmedIsHeard'
    BY <1>1, <1>2, ThreadArmed DEF PacedInv, ArmedIsHeard
  <1>7. ActiveIsHeard'
    <2>1. spc' \notin Active => running' = 0
      BY <1>1 DEF SyncThread
    <2>2. CASE spc \in Active /\ spc' \in Active
      <3>1. running' = running \/ (entry.kind = "header" /\ running' = StreamOf(entry.tag))
        BY <2>2 DEF SyncThread
      <3>2. entry.kind = "header" => StreamOf(entry.tag) = stream
        BY <1>1, TagParts DEF EntryFromRing, OneHeader, StreamOf
      <3>3. "COMMAND_STREAM_END" \in flags => "COMMAND_STREAM_END" \in flags'
        BY <1>1, <2>2 DEF Active, ThreadEntry, EnterIdle, WaitTest, WaitReceive, Woke, NoHeader, Drain, AckWait, Acked, Activate,
          SetRunning, DecodeFirstHeader, InnerLeave, DiscardEntry, Flush, Apply, InitialSync, LoadChunk, LoadReceive,
          DecodeMarker, DecodeNewHeader, SkipAudio, DecodeAudio, DecodeIntoNull, SynchronizeAudio, TransferAudio, Leave, Stopped,
          Step, Decoding, ApplyStreamClear
      <3>. QED  BY <1>1, <2>1, <2>2, <3>1, <3>2, <3>3 DEF PacedInv, ActiveIsHeard
    <2>3. CASE spc \notin Active /\ spc' \in Active
      <3>1. SetRunning
        BY <1>1, <2>3 DEF Active, ThreadEntry, EnterIdle, WaitTest, WaitReceive, Woke, NoHeader, Drain, AckWait, Acked, Activate,
          DecodeFirstHeader, InnerLeave, DiscardEntry, Flush, Apply, InitialSync, LoadChunk, LoadReceive,
          DecodeMarker, DecodeNewHeader, SkipAudio, DecodeAudio, DecodeIntoNull, SynchronizeAudio, TransferAudio, Leave, Stopped,
          Step, Decoding, Goto
      <3>2. spc = "running"
        BY <3>1 DEF SetRunning
      <3>3. entry.kind = "header" /\ StreamOf(entry.tag) = stream
        BY <1>1, <3>2, TagParts DEF HeaderWaits, EntryFromRing, OneHeader, StreamOf
      <3>4. running' = stream
        BY <2>3, <3>3 DEF SyncThread
      <3>5. Armed
        BY <3>2 DEF Armed
      <3>. QED  BY <1>1, <2>1, <2>3, <3>4, <3>5 DEF PacedInv, ActiveIsHeard, ArmedIsHeard
    <2>. QED  BY <2>1, <2>2, <2>3 DEF ActiveIsHeard
  <1>. QED  BY <1>3, <1>4, <1>5, <1>6, <1>7 DEF PacedInv
-----------------------------------------------------------------------------
(* The network thread.                                                          *)
LEMMA SameRing ==
  ASSUME UNCHANGED <<ring, stream>>
  PROVE  (HeaderIn' <=> HeaderIn) /\ (OneHeader => OneHeader')
  BY DEF HeaderIn, OneHeader

LEMMA SameQueues ==
  ASSUME UNCHANGED <<awaiting, inbox>>
  PROVE  /\ (StartQueued' <=> StartQueued) /\ (EndQueued' <=> EndQueued)
         /\ stream' = stream \/ ~StartQueued => (StartIsLast => StartIsLast')
  BY DEF StartQueued, EndQueued, Starts, Ends, StartIsLast

LEMMA HeaderWritten ==
  ASSUME TypeOK, ~HeaderIn, NEW c \in Chunk, WriteChunk(c), c.kind = "header", c.tag = <<stream', 0>>
  PROVE  HeaderIn' /\ OneHeader'
  <1>1. /\ Len(ring) \in Nat /\ Len(ring) + 1 \in 1..Len(ring') /\ ring'[Len(ring) + 1] = c
        /\ \A i \in 1..Len(ring') : ring'[i].kind = "header" => i = Len(ring) + 1 /\ ring'[i] = c
    <2>1. /\ Len(ring) \in Nat /\ Len(ring') = Len(ring) + 1
          /\ \A i \in 1..Len(ring) : i \in 1..Len(ring') /\ ring'[i] = ring[i] /\ ring[i].kind # "header"
          /\ \A i \in 1..Len(ring') : \/ i \in 1..Len(ring) /\ ring'[i] = ring[i]
                                      \/ i = Len(ring) + 1 /\ ring'[i] = c
      BY WrittenChunk DEF HeaderIn
    <2>2. Len(ring) + 1 \in 1..Len(ring') /\ Len(ring) + 1 \notin 1..Len(ring)
      BY <2>1
    <2>. QED  BY <2>1, <2>2
  <1>. QED  BY <1>1 DEF HeaderIn, OneHeader

LEMMA OtherWritten ==
  ASSUME TypeOK, NEW c \in Chunk, WriteChunk(c), c.kind # "header", stream' = stream
  PROVE  (HeaderIn' <=> HeaderIn) /\ (OneHeader => OneHeader')
  <1>1. /\ \A i \in 1..Len(ring) : i \in 1..Len(ring') /\ ring'[i] = ring[i]
        /\ \A i \in 1..Len(ring') : ring'[i].kind = "header" => i \in 1..Len(ring) /\ ring'[i] = ring[i]
    BY WrittenChunk
  <1>. QED  BY <1>1 DEF HeaderIn, OneHeader

LEMMA StartFinds ==
  ASSUME PlayerInv, PacedInv, Rapid = {}, StreamStart \/ StreamStartFails
  PROVE  /\ Settled /\ ~streaming /\ up /\ npc = "none" /\ ~TearingDown /\ ~StartQueued
         /\ spc \in {"wait", "recv"} /\ running = 0 /\ ~HeaderIn
         /\ flags \cap Commands = {} /\ entry = NoChunk
         /\ stream' = stream + 1 /\ streaming' = TRUE /\ stream \in Nat /\ heard <= stream /\ heard \in Nat
         /\ heard # 0 => EndQueued
  <1>1. Settled /\ ~streaming /\ up /\ npc = "none" /\ stream' = stream + 1 /\ streaming' = TRUE
    BY DEF StreamStart, StreamStartFails, Begin, Paced
  <1>2. ~TearingDown
    BY <1>1 DEF PacedInv, DownIsQuiet
  <1>3. stream \in Nat /\ heard \in Nat /\ heard <= stream
    BY PlayerAssumption DEF PlayerInv, PlayerTypeOK, PacedInv, HeardInOrder
  <1>4. spc \in {"wait", "recv"} /\ running = 0 /\ ~HeaderIn /\ ~StartQueued /\ flags \cap Commands = {}
    BY <1>1, <1>2, SettledIsQuiet
  <1>5. entry = NoChunk
    BY <1>4 DEF PlayerInv, Inv, BorrowDiscipline
  <1>6. heard # 0 => EndQueued
    BY <1>1, <1>2 DEF PacedInv, OverIsTold
  <1>. QED  BY <1>1, <1>2, <1>3, <1>4, <1>5, <1>6

LEMMA StreamStartPaced ==
  ASSUME PlayerInv, PacedInv, Rapid = {}, StreamStart
  PROVE  PacedInv'
  <1>1. /\ ~streaming /\ up /\ npc = "none" /\ ~TearingDown /\ ~StartQueued
        /\ spc \in {"wait", "recv"} /\ running = 0 /\ ~HeaderIn
        /\ flags \cap Commands = {} /\ entry = NoChunk
        /\ stream' = stream + 1 /\ streaming' = TRUE /\ stream \in Nat /\ heard <= stream /\ heard \in Nat
        /\ heard # 0 => EndQueued
    BY StartFinds
  <1>2. /\ npc' = "params"
        /\ UNCHANGED <<up, flags, spc, entry, running, params, inbox, mpc, awaiting, syncIdle, current, heard>>
    BY DEF StreamStart, WriteChunk, svars, mainVars
  <1>3. HeaderIn' /\ OneHeader'
    <2>1. stream + 1 \in 1..MaxStreams /\ 0 \in 0..MaxSeeks
      BY PlayerAssumption DEF StreamStart, PlayerInv, PlayerTypeOK
    <2>2. [kind |-> "header", tag |-> <<stream + 1, 0>>] \in Chunk
      BY <2>1, ServerChunk DEF Kinds
    <2>. QED  BY <1>1, <2>2, HeaderWritten DEF StreamStart, PlayerInv, Inv
  <1>4. ~StartQueued' /\ (EndQueued' <=> EndQueued) /\ StartIsLast' /\ (TearingDown' <=> TearingDown)
    BY <1>1, <1>2, SameQueues DEF PacedInv, TearingDown
  <1>5. HeardInOrder' /\ DownIsQuiet' /\ OverIsTold'
    BY <1>1, <1>2, <1>4 DEF PacedInv, HeardInOrder, DownIsQuiet, OverIsTold
  <1>6. HeaderWaits'
    BY <1>1, <1>2 DEF HeaderWaits, Idling
  <1>7. AnnouncedFirst'
    <2>1. heard' # stream' /\ spc' \in Waiting /\ Held' /\ flags' \cap Commands \subseteq {"COMMAND_STOP"}
      BY <1>1, <1>2 DEF Waiting, Held
    <2>. QED  BY <1>1, <1>2, <1>3, <1>4, <2>1 DEF AnnouncedFirst
  <1>8. ArmedIsHeard' /\ ActiveIsHeard'
    BY <1>1, <1>2 DEF ArmedIsHeard, Armed, ActiveIsHeard, Active, Commands
  <1>. QED  BY <1>3, <1>4, <1>5, <1>6, <1>7, <1>8 DEF PacedInv

LEMMA StreamStartFailsPaced ==
  ASSUME PlayerInv, PacedInv, Rapid = {}, StreamStartFails
  PROVE  PacedInv'
  <1>1. /\ ~streaming /\ up /\ npc = "none" /\ ~TearingDown /\ ~StartQueued
        /\ spc \in {"wait", "recv"} /\ running = 0 /\ ~HeaderIn
        /\ flags \cap Commands = {} /\ entry = NoChunk
        /\ stream' = stream + 1 /\ streaming' = TRUE /\ stream \in Nat /\ heard <= stream /\ heard \in Nat
        /\ heard # 0 => EndQueued
    BY StartFinds
  <1>2. /\ npc' = "pushEnd" /\ flags' = flags \cup {"COMMAND_STREAM_END"}
        /\ UNCHANGED <<ring, up, spc, entry, running, params, inbox, mpc, awaiting, syncIdle, current, heard>>
    BY DEF StreamStartFails, Signal, svars, mainVars
  <1>3. ~HeaderIn' /\ OneHeader'
    BY <1>1, <1>2 DEF HeaderIn, OneHeader
  <1>4. ~StartQueued' /\ (EndQueued' <=> EndQueued) /\ StartIsLast' /\ (TearingDown' <=> TearingDown)
    BY <1>1, <1>2, SameQueues DEF PacedInv, TearingDown
  <1>5. HeardInOrder' /\ DownIsQuiet' /\ OverIsTold'
    BY <1>1, <1>2, <1>4 DEF PacedInv, HeardInOrder, DownIsQuiet, OverIsTold
  <1>6. HeaderWaits'
    BY <1>1, <1>2 DEF HeaderWaits, Idling
  <1>7. AnnouncedFirst'
    BY <1>1, <1>2, <1>4 DEF AnnouncedFirst, Announcing
  <1>8. ArmedIsHeard' /\ ActiveIsHeard'
    BY <1>1, <1>2 DEF ArmedIsHeard, Armed, ActiveIsHeard, Active, Commands
  <1>. QED  BY <1>3, <1>4, <1>5, <1>6, <1>7, <1>8 DEF PacedInv

LEMMA WriteParamsPaced ==
  ASSUME PlayerInv, PacedInv, WriteParams
  PROVE  PacedInv'
  <1>1. /\ npc = "params" /\ npc' = "pushStart" /\ params' = stream
        /\ UNCHANGED <<vars, up, streaming, stream, inbox, mpc, awaiting, syncIdle, current, heard, running>>
    BY DEF WriteParams, serverVars, mainVars, ghosts
  <1>2. UNCHANGED <<flags, ring, spc, entry>>
    BY <1>1 DEF vars
  <1>3. /\ (HeaderIn' <=> HeaderIn) /\ OneHeader' /\ (StartQueued' <=> StartQueued) /\ (EndQueued' <=> EndQueued)
        /\ StartIsLast' /\ (TearingDown' <=> TearingDown)
    BY <1>1, <1>2, SameRing, SameQueues DEF PacedInv, TearingDown
  <1>4. HeardInOrder' /\ DownIsQuiet' /\ OverIsTold' /\ HeaderWaits'
    BY <1>1, <1>2, <1>3 DEF PacedInv, HeardInOrder, DownIsQuiet, OverIsTold, HeaderWaits
  <1>5. AnnouncedFirst'
    BY <1>1, <1>2, <1>3 DEF PacedInv, AnnouncedFirst, Announcing, Held
  <1>6. ArmedIsHeard' /\ ActiveIsHeard'
    BY <1>1, <1>2, <1>3 DEF PacedInv, ArmedIsHeard, Armed, ActiveIsHeard, Held
  <1>. QED  BY <1>3, <1>4, <1>5, <1>6 DEF PacedInv

(* The event finds room behind no other start, or it is dropped.                *)
LEMMA PushStartPaced ==
  ASSUME PlayerInv, PacedInv, PushStart
  PROVE  PacedInv'
  <1>0. [type |-> "STREAM_START", stream |-> stream] \in Event /\ inbox \in Seq(Event) /\ awaiting \in Seq(Event)
    BY DEF PlayerInv, PlayerTypeOK, Event
  <1>1. /\ npc = "pushStart" /\ npc' = "none"
        /\ inbox' = inbox \/ inbox' = Append(inbox, [type |-> "STREAM_START", stream |-> stream])
        /\ UNCHANGED <<vars, up, streaming, stream, params, mpc, awaiting, syncIdle, current, heard, running>>
    BY DEF PushStart, Push, serverVars, mainVars, ghosts
  <1>2. UNCHANGED <<flags, ring, spc, entry>>
    BY <1>1 DEF vars
  <1>3. (HeaderIn' <=> HeaderIn) /\ OneHeader' /\ (TearingDown' <=> TearingDown)
    BY <1>1, <1>2, SameRing DEF PacedInv, TearingDown
  <1>4. EndQueued' <=> EndQueued
    <2>1. Ends(Append(inbox, [type |-> "STREAM_START", stream |-> stream])) <=> Ends(inbox)
      BY <1>0, QueueKinds
    <2>2. Ends(inbox)' <=> Ends(inbox)
      BY <1>1, <2>1 DEF Ends
    <2>3. Ends(awaiting)' <=> Ends(awaiting)
      BY <1>1 DEF Ends
    <2>. QED  BY <2>2, <2>3 DEF EndQueued
  <1>5. Announcing /\ ~StartQueued /\ params = stream /\ ~Armed
    BY <1>1 DEF Announcing, PacedInv, AnnouncedFirst, ArmedIsHeard
  <1>6. HeardInOrder' /\ OverIsTold' /\ HeaderWaits'
    BY <1>1, <1>2, <1>3, <1>4 DEF PacedInv, HeardInOrder, OverIsTold, HeaderWaits
  <1>7. DownIsQuiet'
    BY <1>1, <1>3 DEF PacedInv, DownIsQuiet
  <1>8. StartIsLast'
    <2>1. \A i \in 1..Len(awaiting) : awaiting[i].type # "STREAM_START"
      BY <1>5 DEF StartQueued, Starts
    <2>2. \A i \in 1..Len(inbox) : inbox[i].type # "STREAM_START"
      BY <1>5 DEF StartQueued, Starts
    <2>3. \A i \in 1..Len(inbox') : inbox'[i].type = "STREAM_START" => i = Len(inbox') /\ inbox'[i].stream = stream
      <3>1. CASE inbox' = inbox
        BY <2>2, <3>1
      <3>2. CASE inbox' = Append(inbox, [type |-> "STREAM_START", stream |-> stream])
        <4>1. /\ Len(inbox) \in Nat /\ Len(inbox') = Len(inbox) + 1
              /\ \A i \in 1..Len(inbox) : inbox'[i] = inbox[i]
              /\ inbox'[Len(inbox) + 1] = [type |-> "STREAM_START", stream |-> stream]
          BY <1>0, <3>2, AppendProperties
        <4>2. \A i \in 1..Len(inbox') : i \in 1..Len(inbox) \/ i = Len(inbox')
          BY <4>1
        <4>. QED  BY <2>2, <4>1, <4>2
      <3>. QED  BY <1>1, <3>1, <3>2
    <2>. QED  BY <1>1, <2>1, <2>3 DEF StartIsLast
  <1>9. AnnouncedFirst'
    BY <1>1, <1>2, <1>3, <1>5 DEF PacedInv, AnnouncedFirst, Announcing, Held
  <1>10. ArmedIsHeard' /\ ActiveIsHeard'
    BY <1>1, <1>2, <1>5 DEF PacedInv, ArmedIsHeard, Armed, ActiveIsHeard
  <1>. QED  BY <1>3, <1>6, <1>7, <1>8, <1>9, <1>10 DEF PacedInv

LEMMA StreamEndPaced ==
  ASSUME PlayerInv, PacedInv, Rapid = {}, StreamEnd
  PROVE  PacedInv'
  <1>1. /\ Settled /\ up /\ npc = "none" /\ npc' = "pushEnd" /\ streaming' = FALSE
        /\ flags' = flags \cup {"COMMAND_STREAM_END"}
        /\ UNCHANGED <<ring, spc, entry, up, stream, params, inbox, mpc, awaiting, syncIdle, current, heard, running>>
    BY DEF StreamEnd, Begin, Paced, Signal, svars, mainVars, ghosts
  <1>2. ~HeaderIn /\ ~Armed /\ ~TearingDown /\ ~StartQueued /\ spc \in {"wait", "recv", "inner", "load", "decode"}
    BY <1>1, SettledIsQuiet DEF PacedInv, DownIsQuiet
  <1>3. /\ ~HeaderIn' /\ OneHeader' /\ ~StartQueued' /\ (EndQueued' <=> EndQueued)
        /\ StartIsLast' /\ ~TearingDown'
    BY <1>1, <1>2, SameRing, SameQueues DEF PacedInv, TearingDown
  <1>4. HeardInOrder' /\ DownIsQuiet' /\ OverIsTold' /\ HeaderWaits'
    BY <1>1, <1>2, <1>3 DEF PacedInv, HeardInOrder, DownIsQuiet, OverIsTold, HeaderWaits
  <1>5. AnnouncedFirst'
    BY <1>1, <1>3 DEF AnnouncedFirst, Announcing
  <1>6. ArmedIsHeard' /\ ActiveIsHeard'
    BY <1>1, <1>2, <1>3 DEF PacedInv, ArmedIsHeard, Armed, ActiveIsHeard
  <1>. QED  BY <1>3, <1>4, <1>5, <1>6 DEF PacedInv

(* A STREAM_END that finds no room is not needed: the inbox ring is full of     *)
(* nothing else.                                                                *)
LEMMA PushEndPaced ==
  ASSUME PlayerInv, PacedInv, PushEnd
  PROVE  PacedInv'
  <1>0. [type |-> "STREAM_END", stream |-> stream] \in Event /\ inbox \in Seq(Event) /\ awaiting \in Seq(Event)
    BY DEF PlayerInv, PlayerTypeOK, Event
  <1>1. /\ npc = "pushEnd" /\ npc' = "none" /\ up
        /\ Push([type |-> "STREAM_END", stream |-> stream])
        /\ UNCHANGED <<vars, up, streaming, stream, params, mpc, awaiting, syncIdle, current, heard, running>>
    BY DEF PushEnd, serverVars, mainVars, ghosts, PacedInv, DownIsQuiet
  <1>2. UNCHANGED <<flags, ring, spc, entry>>
    BY <1>1 DEF vars
  <1>3. (HeaderIn' <=> HeaderIn) /\ OneHeader' /\ (TearingDown' <=> TearingDown)
    BY <1>1, <1>2, SameRing DEF PacedInv, TearingDown
  <1>4. ~StartQueued /\ ~TearingDown /\ ~Armed
    BY <1>1 DEF PacedInv, AnnouncedFirst, DownIsQuiet, ArmedIsHeard
  <1>5. ~StartQueued' /\ EndQueued'
    <2>1. CASE Len(inbox) < InboxCap
      BY <1>0, <1>1, <1>4, <2>1, QueueKinds DEF Push, StartQueued, EndQueued
    <2>2. CASE ~(Len(inbox) < InboxCap)
      <3>1. inbox' = inbox /\ inbox # <<>>
        BY <1>0, <1>1, <2>2, PlayerAssumption DEF Push
      <3>2. Ends(inbox) /\ ~Starts(inbox) /\ ~Starts(awaiting)
        BY <1>0, <1>4, <3>1, QueueKinds DEF StartQueued
      <3>. QED  BY <1>1, <3>1, <3>2 DEF StartQueued, EndQueued, Starts, Ends
    <2>. QED  BY <2>1, <2>2
  <1>6. StartIsLast'
    BY <1>5 DEF StartIsLast, StartQueued, Starts
  <1>7. HeardInOrder' /\ DownIsQuiet' /\ OverIsTold' /\ HeaderWaits'
    BY <1>1, <1>2, <1>3, <1>4, <1>5 DEF PacedInv, HeardInOrder, DownIsQuiet, OverIsTold, HeaderWaits
  <1>8. AnnouncedFirst'
    BY <1>1, <1>5 DEF AnnouncedFirst, Announcing
  <1>9. ArmedIsHeard' /\ ActiveIsHeard'
    BY <1>1, <1>2, <1>4 DEF PacedInv, ArmedIsHeard, Armed, ActiveIsHeard
  <1>. QED  BY <1>3, <1>6, <1>7, <1>8, <1>9 DEF PacedInv

LEMMA StreamClearPaced ==
  ASSUME PlayerInv, PacedInv, Rapid = {}, StreamClear
  PROVE  PacedInv'
  <1>1. /\ Settled /\ up /\ npc = "none" /\ npc' = "marker"
        /\ flags' = flags \cup {"COMMAND_STREAM_CLEAR"}
        /\ UNCHANGED <<ring, spc, entry, up, streaming, stream, params, inbox, mpc, awaiting, syncIdle, current, heard, running>>
    BY DEF StreamClear, Begin, Paced, Signal, svars, mainVars, ghosts
  <1>2. ~HeaderIn /\ ~Armed /\ ~TearingDown /\ ~StartQueued /\ spc \in {"wait", "recv", "inner", "load", "decode"}
    BY <1>1, SettledIsQuiet DEF PacedInv, DownIsQuiet
  <1>3. /\ ~HeaderIn' /\ OneHeader' /\ ~StartQueued' /\ (EndQueued' <=> EndQueued)
        /\ StartIsLast' /\ ~TearingDown'
    BY <1>1, <1>2, SameRing, SameQueues DEF PacedInv, TearingDown
  <1>4. HeardInOrder' /\ DownIsQuiet' /\ OverIsTold' /\ HeaderWaits'
    BY <1>1, <1>2, <1>3 DEF PacedInv, HeardInOrder, DownIsQuiet, OverIsTold, HeaderWaits
  <1>5. AnnouncedFirst'
    BY <1>1, <1>3 DEF AnnouncedFirst, Announcing
  <1>6. ArmedIsHeard' /\ ActiveIsHeard'
    BY <1>1, <1>2, <1>3 DEF PacedInv, ArmedIsHeard, Armed, ActiveIsHeard
  <1>. QED  BY <1>3, <1>4, <1>5, <1>6 DEF PacedInv

(* Markers and audio, or nothing, behind whatever waits.                        *)
LEMMA WrittenPaced ==
  ASSUME PlayerInv, PacedInv, WriteMarker \/ Binary
  PROVE  PacedInv'
  <1>1. /\ npc \notin {"params", "pushStart", "pushEnd"} /\ npc' = "none" /\ (Armed => npc = "none")
        /\ UNCHANGED <<flags, spc, entry, up, streaming, stream, params, inbox, mpc, awaiting, syncIdle, current, heard, running>>
    BY DEF WriteMarker, Binary, Begin, WriteChunk, vars, svars, netVars, serverVars, mainVars, ghosts, PacedInv, ArmedIsHeard
  <1>2. (HeaderIn' <=> HeaderIn) /\ OneHeader'
    <2>1. CASE ring' = ring
      BY <1>1, <2>1, SameRing DEF PacedInv
    <2>2. CASE ring' # ring
      <3>1. PICK k \in {"marker", "audio"} : WriteChunk([kind |-> k, tag |-> <<stream, seek>>])
        BY <2>2 DEF WriteMarker, Binary, vars
      <3>2. stream \in 1..MaxStreams /\ seek \in 0..MaxSeeks
        BY PlayerAssumption DEF PlayerInv, PlayerTypeOK, HasStream, WriteMarker, Binary
      <3>3. [kind |-> k, tag |-> <<stream, seek>>] \in Chunk
        BY <3>2, ServerChunk DEF Kinds
      <3>. QED  BY <1>1, <3>1, <3>3, OtherWritten DEF PlayerInv, Inv, PacedInv
    <2>. QED  BY <2>1, <2>2
  <1>3. /\ (StartQueued' <=> StartQueued) /\ (EndQueued' <=> EndQueued) /\ StartIsLast' /\ (TearingDown' <=> TearingDown)
    BY <1>1, SameQueues DEF PacedInv, TearingDown
  <1>4. HeardInOrder' /\ DownIsQuiet' /\ OverIsTold' /\ HeaderWaits'
    BY <1>1, <1>2, <1>3 DEF PacedInv, HeardInOrder, DownIsQuiet, OverIsTold, HeaderWaits
  <1>5. AnnouncedFirst'
    BY <1>1, <1>2, <1>3 DEF PacedInv, AnnouncedFirst, Announcing, Held
  <1>6. ArmedIsHeard' /\ ActiveIsHeard'
    BY <1>1, <1>2, <1>3 DEF PacedInv, ArmedIsHeard, Armed, ActiveIsHeard, Held
  <1>. QED  BY <1>2, <1>3, <1>4, <1>5, <1>6 DEF PacedInv

LEMMA NetworkPaced ==
  ASSUME PlayerInv, PacedInv, Rapid = {}, Network
  PROVE  PacedInv'
  BY StreamStartPaced, StreamStartFailsPaced, WriteParamsPaced, PushStartPaced, StreamEndPaced, PushEndPaced,
     StreamClearPaced, WrittenPaced DEF Network
-----------------------------------------------------------------------------
(* The main loop, and what the application makes it do.                         *)
LEMMA SameThread ==
  ASSUME UNCHANGED <<ring, spc, entry, stream>>
  PROVE  /\ HeaderIn' <=> HeaderIn
         /\ OneHeader => OneHeader'
         /\ HeaderWaits => HeaderWaits'
  BY DEF HeaderIn, OneHeader, HeaderWaits

LEMMA MainQueues ==
  ASSUME PlayerInv
  PROVE  /\ awaiting \in Seq(Event) /\ inbox \in Seq(Event) /\ stream \in Nat
         /\ streaming \/ npc # "none" => stream # 0
  BY PlayerAssumption DEF PlayerInv, PlayerTypeOK, HasStream

LEMMA NothingQueued == Len(<<>>) = 0 /\ 1..Len(<<>>) = {} /\ ~Starts(<<>>) /\ ~Ends(<<>>)
  <1>1. Len(<<>>) = 0 /\ 1..Len(<<>>) = {}
    OBVIOUS
  <1>. QED  BY <1>1 DEF Starts, Ends

LEMMA TakeEventsPaced ==
  ASSUME PlayerInv, PacedInv, TakeEvents
  PROVE  PacedInv'
  <1>1. /\ mpc = "loop" /\ mpc' = "snapshot" /\ awaiting' = awaiting \o inbox /\ inbox' = <<>>
        /\ awaiting # <<>> \/ inbox # <<>>
        /\ UNCHANGED <<flags, ring, spc, entry, up, streaming, stream, npc, params, syncIdle, current, heard, running>>
    BY DEF TakeEvents, vars, serverVars, netVars, ghosts
  <1>2. ~Armed
    BY <1>1 DEF PacedInv, ArmedIsHeard
  <1>3. (HeaderIn' <=> HeaderIn) /\ OneHeader' /\ HeaderWaits' /\ ~TearingDown /\ ~TearingDown'
    BY <1>1, SameThread DEF PacedInv, TearingDown
  <1>4. (StartQueued' <=> StartQueued) /\ (EndQueued' <=> EndQueued)
    <2>1. /\ Starts(awaiting \o inbox) <=> Starts(awaiting) \/ Starts(inbox)
          /\ Ends(awaiting \o inbox) <=> Ends(awaiting) \/ Ends(inbox)
      BY MainQueues, QueueKinds
    <2>2. ~Starts(<<>>) /\ ~Ends(<<>>)
      BY NothingQueued
    <2>3. /\ Starts(awaiting)' <=> Starts(awaiting \o inbox)
          /\ Ends(awaiting)' <=> Ends(awaiting \o inbox)
      BY <1>1 DEF Starts, Ends
    <2>4. ~Starts(inbox)' /\ ~Ends(inbox)'
      BY <1>1, <2>2 DEF Starts, Ends
    <2>. QED  BY <2>1, <2>3, <2>4 DEF StartQueued, EndQueued
  <1>5. StartIsLast'
    <2>1. /\ Len(awaiting) \in Nat /\ Len(inbox) \in Nat /\ Len(awaiting') = Len(awaiting) + Len(inbox)
          /\ \A i \in 1..Len(awaiting) : awaiting'[i] = awaiting[i]
          /\ \A i \in 1..Len(inbox) : awaiting'[Len(awaiting) + i] = inbox[i]
      BY <1>1, MainQueues, ConcatProperties
    <2>2. ASSUME NEW i \in 1..Len(awaiting'), awaiting'[i].type = "STREAM_START"
          PROVE  i = Len(awaiting') /\ awaiting'[i].stream = stream
      <3>1. CASE i \in 1..Len(awaiting)
        <4>1. i = Len(awaiting) /\ inbox = <<>> /\ awaiting[i].stream = stream
          BY <2>1, <2>2, <3>1 DEF PacedInv, StartIsLast
        <4>. QED  BY <2>1, <3>1, <4>1
      <3>2. CASE i \notin 1..Len(awaiting)
        <4>1. PICK k \in 1..Len(inbox) : i = Len(awaiting) + k
          <5>1. i - Len(awaiting) \in 1..Len(inbox) /\ i = Len(awaiting) + (i - Len(awaiting))
            BY <2>1, <3>2
          <5>. QED  BY <5>1
        <4>2. inbox[k].type = "STREAM_START" /\ awaiting'[i] = inbox[k]
          BY <2>1, <2>2, <4>1
        <4>3. k = Len(inbox) /\ inbox[k].stream = stream
          BY <4>2 DEF PacedInv, StartIsLast
        <4>. QED  BY <2>1, <4>1, <4>2, <4>3
      <3>. QED  BY <3>1, <3>2
    <2>. QED  BY <1>1, <2>2 DEF StartIsLast
  <1>6. HeardInOrder' /\ DownIsQuiet' /\ OverIsTold'
    BY <1>1, <1>3, <1>4 DEF PacedInv, HeardInOrder, DownIsQuiet, OverIsTold
  <1>7. AnnouncedFirst'
    BY <1>1, <1>3, <1>4 DEF PacedInv, AnnouncedFirst, Announcing, Held
  <1>8. ArmedIsHeard' /\ ActiveIsHeard'
    BY <1>1, <1>2 DEF PacedInv, ArmedIsHeard, Armed, ActiveIsHeard
  <1>. QED  BY <1>3, <1>5, <1>6, <1>7, <1>8 DEF PacedInv

(* The snapshot of an active thread says that it runs; that of a thread about   *)
(* to become active is never taken.                                             *)
LEMMA SnapshotPaced ==
  ASSUME PlayerInv, PacedInv, Snapshot
  PROVE  PacedInv'
  <1>1. /\ mpc = "snapshot" /\ mpc' = "events"
        /\ UNCHANGED <<flags, ring, spc, entry, up, streaming, stream, npc, params, inbox, awaiting, current, heard, running>>
    BY DEF Snapshot, vars, serverVars, netVars, ghosts
  <1>2. ~Armed
    BY <1>1 DEF PacedInv, ArmedIsHeard
  <1>3. (HeaderIn' <=> HeaderIn) /\ OneHeader' /\ HeaderWaits' /\ ~TearingDown /\ ~TearingDown'
    BY <1>1, SameThread DEF PacedInv, TearingDown
  <1>4. (StartQueued' <=> StartQueued) /\ (EndQueued' <=> EndQueued) /\ StartIsLast'
    BY <1>1, SameQueues DEF PacedInv
  <1>5. spc \in Active => ~syncIdle'
    BY DEF Snapshot, PlayerInv, Inv, RunningBit
  <1>6. HeardInOrder' /\ DownIsQuiet' /\ OverIsTold'
    BY <1>1, <1>3, <1>4 DEF PacedInv, HeardInOrder, DownIsQuiet, OverIsTold
  <1>7. AnnouncedFirst'
    BY <1>1, <1>3, <1>4 DEF PacedInv, AnnouncedFirst, Announcing, Held
  <1>8. ArmedIsHeard' /\ ActiveIsHeard'
    BY <1>1, <1>2, <1>5 DEF PacedInv, ArmedIsHeard, Armed, ActiveIsHeard
  <1>. QED  BY <1>3, <1>4, <1>6, <1>7, <1>8 DEF PacedInv

LEMMA LeavingPaced ==
  ASSUME PlayerInv, PacedInv, LeaveEvents \/ Join
  PROVE  PacedInv'
  <1>1. /\ mpc \in {"events", "join"} /\ mpc' \in {"loop", "gone"}
        /\ UNCHANGED <<flags, ring, spc, entry, up, streaming, stream, npc, params, inbox, awaiting, syncIdle, current, heard, running>>
    BY DEF LeaveEvents, Join, vars, serverVars, netVars, ghosts
  <1>2. (HeaderIn' <=> HeaderIn) /\ OneHeader' /\ HeaderWaits' /\ ~TearingDown /\ ~TearingDown'
    BY <1>1, SameThread DEF PacedInv, TearingDown
  <1>3. (StartQueued' <=> StartQueued) /\ (EndQueued' <=> EndQueued) /\ StartIsLast'
    BY <1>1, SameQueues DEF PacedInv
  <1>4. HeardInOrder' /\ DownIsQuiet' /\ OverIsTold'
    BY <1>1, <1>2, <1>3 DEF PacedInv, HeardInOrder, DownIsQuiet, OverIsTold
  <1>5. AnnouncedFirst'
    BY <1>1, <1>2, <1>3 DEF PacedInv, AnnouncedFirst, Announcing, Held
  <1>6. ArmedIsHeard' /\ ActiveIsHeard'
    BY <1>1, <1>2 DEF PacedInv, ArmedIsHeard, Armed, ActiveIsHeard, Held
  <1>. QED  BY <1>2, <1>3, <1>4, <1>5, <1>6 DEF PacedInv

(* on_stream_end() finds a sync thread that is idle and not about to begin.     *)
LEMMA OnStreamEndPaced ==
  ASSUME PlayerInv, PacedInv, OnStreamEnd
  PROVE  PacedInv'
  <1>1. /\ mpc = "events" /\ syncIdle /\ awaiting # <<>> /\ awaiting' = Tail(awaiting) /\ heard' = 0
        /\ UNCHANGED <<flags, ring, spc, entry, up, streaming, stream, npc, params, inbox, mpc, current, running>>
    BY DEF OnStreamEnd, vars, serverVars, netVars, ghosts
  <1>2. ~Armed /\ spc \notin Active
    BY <1>1 DEF PacedInv, ArmedIsHeard, ActiveIsHeard
  <1>3. (HeaderIn' <=> HeaderIn) /\ OneHeader' /\ HeaderWaits' /\ ~TearingDown /\ ~TearingDown'
    BY <1>1, SameThread DEF PacedInv, TearingDown
  <1>4. StartQueued' => StartQueued
    <2>1. Starts(Tail(awaiting)) => Starts(awaiting)
      BY <1>1, MainQueues, QueueKinds
    <2>. QED  BY <1>1, <2>1 DEF StartQueued, Starts
  <1>5. StartIsLast'
    <2>1. /\ Len(awaiting) \in Nat /\ Len(awaiting') = Len(awaiting) - 1
          /\ \A i \in 1..Len(awaiting') : i \in Nat /\ i + 1 \in 1..Len(awaiting) /\ awaiting'[i] = awaiting[i + 1]
      BY <1>1, MainQueues, HeadTailProperties
    <2>2. ASSUME NEW i \in 1..Len(awaiting'), awaiting'[i].type = "STREAM_START"
          PROVE  i = Len(awaiting') /\ inbox = <<>> /\ awaiting'[i].stream = stream
      <3>1. i + 1 = Len(awaiting) /\ inbox = <<>> /\ awaiting[i + 1].stream = stream
        BY <2>1, <2>2 DEF PacedInv, StartIsLast
      <3>. QED  BY <2>1, <3>1
    <2>. QED  BY <1>1, <2>2 DEF PacedInv, StartIsLast
  <1>6. HeardInOrder' /\ DownIsQuiet' /\ OverIsTold'
    BY <1>1, <1>3, MainQueues DEF PacedInv, HeardInOrder, DownIsQuiet, OverIsTold
  <1>7. AnnouncedFirst'
    <2>1. Announcing' => Announcing
      BY <1>1, <1>3, <1>4 DEF Announcing
    <2>2. Announcing' => heard' # stream'
      BY <1>1, <2>1, MainQueues DEF PacedInv, AnnouncedFirst
    <2>. QED  BY <1>1, <1>3, <1>4, <2>1, <2>2 DEF PacedInv, AnnouncedFirst, Held
  <1>8. ArmedIsHeard' /\ ActiveIsHeard'
    BY <1>1, <1>2 DEF PacedInv, ArmedIsHeard, Armed, ActiveIsHeard
  <1>. QED  BY <1>3, <1>5, <1>6, <1>7, <1>8 DEF PacedInv

(* on_stream_start() is called for the current stream, its parameters are in    *)
(* the slot, nothing else is queued, the sync thread waits, and the stream      *)
(* before it, if the listener heard of one, was ended.                          *)
LEMMA StartHeard ==
  ASSUME PlayerInv, PacedInv, HearStart
  PROVE  /\ heard' = stream /\ current' = stream /\ params' = 0 /\ stream # 0 /\ heard = 0
         /\ mpc = "events" /\ HeaderIn /\ up /\ streaming /\ npc = "none"
         /\ Tail(awaiting) = <<>> /\ inbox = <<>> /\ ~EndQueued
         /\ flags \cap Commands \subseteq {"COMMAND_STOP"} /\ spc \in Waiting /\ Held /\ ~Armed
         /\ UNCHANGED <<npc, stream, running>>
  <1>1. /\ mpc = "events" /\ awaiting # <<>> /\ Head(awaiting).type = "STREAM_START"
        /\ heard' = Head(awaiting).stream /\ current' = IF params = 0 THEN current ELSE params
        /\ params' = 0 /\ UNCHANGED <<npc, stream, running>>
    BY DEF HearStart, ghosts
  <1>2. StartQueued /\ ~TearingDown /\ 1 \in 1..Len(awaiting) /\ Head(awaiting) = awaiting[1]
    BY <1>1, MainQueues, QueueKinds DEF StartQueued, TearingDown
  <1>3. 1 = Len(awaiting) /\ inbox = <<>> /\ awaiting[1].stream = stream
    BY <1>1, <1>2 DEF PacedInv, StartIsLast
  <1>4. Tail(awaiting) = <<>>
    <2>1. Tail(awaiting) \in Seq(Event) /\ Len(Tail(awaiting)) = 0
      BY <1>1, <1>3, MainQueues, HeadTailProperties
    <2>. QED  BY <2>1, EmptySeq
  <1>5. /\ HeaderIn /\ up /\ streaming /\ heard # stream /\ params = stream /\ npc = "none"
        /\ flags \cap Commands \subseteq {"COMMAND_STOP"} /\ spc \in Waiting /\ Held
    BY <1>2 DEF PacedInv, AnnouncedFirst, Announcing
  <1>6. ~EndQueued
    <2>1. ASSUME NEW i \in 1..Len(awaiting) PROVE awaiting[i].type = "STREAM_START"
      <3>0. Len(awaiting) = 1
        BY <1>3
      <3>1. i = 1
        BY <2>1, <3>0
      <3>. QED  BY <1>1, <1>2, <3>1
    <2>2. \A i \in 1..Len(awaiting) : awaiting[i].type # "STREAM_END"
      BY <2>1
    <2>3. ~Ends(inbox)
      BY <1>3, NothingQueued
    <2>. QED  BY <2>2, <2>3 DEF EndQueued, Ends
  <1>7. heard = 0
    BY <1>2, <1>5, <1>6 DEF PacedInv, OverIsTold
  <1>8. ~Armed
    BY <1>1 DEF PacedInv, ArmedIsHeard
  <1>. QED  BY <1>1, <1>2, <1>3, <1>4, <1>5, <1>6, <1>7, <1>8, MainQueues

LEMMA OnStreamStartPaced ==
  ASSUME PlayerInv, PacedInv, OnStreamStart
  PROVE  PacedInv'
  <1>1. /\ HearStart /\ flags' = flags \cup {"COMMAND_START"} /\ awaiting' = Tail(awaiting) /\ ~syncIdle'
        /\ UNCHANGED <<ring, spc, entry, up, streaming, inbox, mpc>>
    BY DEF OnStreamStart, Signal, svars
  <1>2. /\ heard' = stream /\ current' = stream /\ stream # 0
        /\ mpc = "events" /\ HeaderIn /\ up /\ streaming /\ npc = "none"
        /\ Tail(awaiting) = <<>> /\ inbox = <<>>
        /\ flags \cap Commands \subseteq {"COMMAND_STOP"} /\ spc \in Waiting /\ Held
        /\ UNCHANGED <<npc, stream, running>>
    BY <1>1, StartHeard
  <1>3. HeaderIn' /\ OneHeader' /\ HeaderWaits' /\ ~TearingDown'
    BY <1>1, <1>2, SameThread DEF PacedInv, TearingDown
  <1>4. ~StartQueued' /\ StartIsLast'
    <2>1. awaiting' = <<>> /\ inbox' = <<>> /\ 1..Len(<<>>) = {}
      BY <1>1, <1>2, NothingQueued
    <2>. QED  BY <2>1 DEF StartQueued, Starts, StartIsLast
  <1>5. HeardInOrder' /\ DownIsQuiet' /\ OverIsTold'
    BY <1>1, <1>2, <1>3, MainQueues DEF HeardInOrder, DownIsQuiet, OverIsTold
  <1>6. AnnouncedFirst'
    BY <1>2, <1>4 DEF AnnouncedFirst, Announcing
  <1>7. ArmedIsHeard'
    <2>1. flags' \cap Turns = {} /\ Held'
      BY <1>1, <1>2 DEF Turns, Commands, Held
    <2>. QED  BY <1>1, <1>2, <1>3, <2>1 DEF ArmedIsHeard
  <1>8. ActiveIsHeard'
    BY <1>1, <1>2 DEF PacedInv, ActiveIsHeard, Waiting, Active
  <1>. QED  BY <1>3, <1>4, <1>5, <1>6, <1>7, <1>8 DEF PacedInv

(* cleanup(): a connection that is down is not told anything, and the sync      *)
(* thread of the stream it tore down is told to end.                            *)
LEMMA CleanupPaced ==
  ASSUME PlayerInv, PacedInv, CleanupSignal \/ CleanupReset
  PROVE  PacedInv'
  <1>1. /\ TearingDown /\ mpc' \in {"reset", "finish"}
        /\ mpc = "signalEnd" => "COMMAND_STREAM_END" \in flags'
        /\ flags' = flags \/ flags' = flags \cup {"COMMAND_STREAM_END"}
        /\ UNCHANGED <<ring, spc, entry, up, streaming, stream, npc, inbox, awaiting, syncIdle, current, heard, running>>
    BY DEF CleanupSignal, CleanupReset, Signal, TearingDown, vars, svars, serverVars, netVars, ghosts
  <1>2. ~up /\ npc = "none" /\ ~streaming /\ inbox = <<>> /\ TearingDown'
    BY <1>1 DEF PacedInv, DownIsQuiet, TearingDown
  <1>3. ~Armed /\ ~Announcing' /\ ~Armed'
    <2>1. ~Armed
      BY <1>2 DEF PacedInv, ArmedIsHeard
    <2>2. Armed' => Armed
      BY <1>1 DEF Armed, Turns
    <2>. QED  BY <1>1, <1>2, <2>1, <2>2 DEF Announcing
  <1>4. OneHeader' /\ HeaderWaits'
    BY <1>1, SameThread DEF PacedInv
  <1>5. StartIsLast'
    BY <1>1, SameQueues DEF PacedInv
  <1>6. HeardInOrder' /\ DownIsQuiet' /\ OverIsTold'
    BY <1>1, <1>2 DEF PacedInv, HeardInOrder, DownIsQuiet, OverIsTold
  <1>7. AnnouncedFirst'
    BY <1>1, <1>2, <1>3 DEF AnnouncedFirst
  <1>8. ArmedIsHeard'
    BY <1>3 DEF ArmedIsHeard
  <1>9. ActiveIsHeard'
    <2>1. "COMMAND_STREAM_END" \in flags => "COMMAND_STREAM_END" \in flags'
      BY <1>1
    <2>. QED  BY <1>1, <1>2, <2>1 DEF PacedInv, ActiveIsHeard
  <1>. QED  BY <1>4, <1>5, <1>6, <1>7, <1>8, <1>9 DEF PacedInv

(* Its STREAM_END finds room: the inbox ring has been emptied.                  *)
LEMMA CleanupFinishPaced ==
  ASSUME PlayerInv, PacedInv, CleanupFinish
  PROVE  PacedInv'
  <1>1. /\ mpc = "finish" /\ mpc' = "loop" /\ awaiting' = <<>> /\ Push([type |-> "STREAM_END", stream |-> 0])
        /\ UNCHANGED <<flags, ring, spc, entry, up, streaming, stream, npc, params, syncIdle, current, heard, running>>
    BY DEF CleanupFinish, vars, serverVars, netVars, ghosts
  <1>2. ~up /\ npc = "none" /\ ~streaming /\ inbox = <<>> /\ ~TearingDown'
    BY <1>1 DEF PacedInv, DownIsQuiet, TearingDown
  <1>3. EndQueued' /\ ~StartQueued'
    <2>1. [type |-> "STREAM_END", stream |-> 0] \in Event /\ inbox \in Seq(Event)
      BY MainQueues, PlayerAssumption DEF Event
    <2>2. inbox' = Append(inbox, [type |-> "STREAM_END", stream |-> 0])
      BY <1>1, <1>2, NothingQueued, PlayerAssumption DEF Push
    <2>3. /\ Ends(Append(inbox, [type |-> "STREAM_END", stream |-> 0]))
          /\ ~Starts(Append(inbox, [type |-> "STREAM_END", stream |-> 0]))
      <3>. DEFINE e == [type |-> "STREAM_END", stream |-> 0]
      <3>2. e \in Event /\ e.type = "STREAM_END" /\ e.type # "STREAM_START"
        BY <2>1
      <3>. HIDE DEF e
      <3>3. (Ends(Append(inbox, e)) <=> Ends(inbox) \/ e.type = "STREAM_END")
            /\ (Starts(Append(inbox, e)) <=> Starts(inbox) \/ e.type = "STREAM_START")
        BY <2>1, <3>2, QueueKinds
      <3>4. ~Starts(inbox)
        BY <1>2, NothingQueued
      <3>5. Ends(Append(inbox, e)) /\ ~Starts(Append(inbox, e))
        BY <3>2, <3>3, <3>4
      <3>. QED  BY <3>5 DEF e
    <2>4. Ends(inbox)' /\ ~Starts(inbox)'
      BY <2>2, <2>3 DEF Starts, Ends
    <2>5. ~Starts(awaiting)'
      BY <1>1, NothingQueued DEF Starts
    <2>. QED  BY <2>4, <2>5 DEF StartQueued, EndQueued
  <1>4. ~Armed /\ ~Announcing' /\ ~Armed'
    BY <1>1, <1>2, <1>3 DEF PacedInv, ArmedIsHeard, Armed, Announcing
  <1>5. OneHeader' /\ HeaderWaits'
    BY <1>1, SameThread DEF PacedInv
  <1>6. StartIsLast'
    BY <1>3 DEF StartIsLast, StartQueued, Starts
  <1>7. HeardInOrder' /\ DownIsQuiet' /\ OverIsTold'
    BY <1>1, <1>2, <1>3 DEF PacedInv, HeardInOrder, DownIsQuiet, OverIsTold
  <1>8. AnnouncedFirst'
    BY <1>1, <1>2, <1>3, <1>4 DEF AnnouncedFirst
  <1>9. ArmedIsHeard' /\ ActiveIsHeard'
    BY <1>1, <1>4 DEF PacedInv, ArmedIsHeard, ActiveIsHeard
  <1>. QED  BY <1>5, <1>6, <1>7, <1>8, <1>9 DEF PacedInv

(* A teardown, whoever asks for it, finds no handler under way and no sync      *)
(* thread about to begin.                                                       *)
LEMMA TeardownPaced ==
  ASSUME PlayerInv, PacedInv, Rapid = {}, DropConnection \/ TeardownInStart \/ TeardownInEnd
  PROVE  PacedInv'
  <1>1. /\ npc = "none" /\ ~up' /\ ~streaming' /\ inbox' = <<>> /\ mpc' = "signalEnd" /\ TearingDown'
        /\ UNCHANGED <<flags, ring, spc, entry, stream, npc, awaiting, running>>
    BY DEF DropConnection, TeardownInStart, TeardownInEnd, HearStart, Teardown, TearingDown, vars, netVars, ghosts
  <1>2. /\ ~Armed
        /\ (heard' = heard /\ current' = current) \/ heard' = 0 \/ (heard' = stream /\ current' = stream)
    <2>1. CASE DropConnection
      <3>1. Settled /\ heard' = heard /\ current' = current
        BY <2>1 DEF DropConnection, Paced
      <3>2. ~Armed
        BY <3>1, SettledIsQuiet
      <3>. QED  BY <3>1, <3>2
    <2>2. CASE TeardownInStart
      BY <2>2, StartHeard DEF TeardownInStart
    <2>3. CASE TeardownInEnd
      <3>1. awaiting # <<>> /\ heard' = 0
        BY <2>3 DEF TeardownInEnd
      <3>2. ~Armed
        BY <3>1 DEF PacedInv, ArmedIsHeard
      <3>. QED  BY <3>1, <3>2
    <2>. QED  BY <2>1, <2>2, <2>3
  <1>3. HeardInOrder'
    <2>1. stream \in Nat /\ 0 <= stream /\ stream <= stream
      BY MainQueues
    <2>. QED  BY <1>1, <1>2, <2>1 DEF PacedInv, HeardInOrder
  <1>4. OneHeader' /\ HeaderWaits'
    BY <1>1, SameThread DEF PacedInv
  <1>5. StartIsLast'
    BY <1>1, NothingQueued DEF PacedInv, StartIsLast
  <1>6. ~Announcing' /\ ~Armed'
    BY <1>1, <1>2 DEF Announcing, Armed
  <1>7. DownIsQuiet' /\ OverIsTold'
    BY <1>1 DEF DownIsQuiet, OverIsTold
  <1>8. AnnouncedFirst' /\ ArmedIsHeard'
    BY <1>1, <1>6 DEF AnnouncedFirst, ArmedIsHeard
  <1>9. ActiveIsHeard'
    <2>1. spc \notin Active => running = 0
      BY DEF PacedInv, ActiveIsHeard
    <2>2. CASE spc \notin Active
      BY <1>1, <2>1, <2>2 DEF ActiveIsHeard
    <2>3. CASE spc \in Active
      <3>1. DropConnection
        <4>1. TeardownInStart => spc \in Waiting
          BY StartHeard DEF TeardownInStart
        <4>2. TeardownInEnd => spc \notin Active
          BY DEF TeardownInEnd, PacedInv, ActiveIsHeard
        <4>. QED  BY <2>3, <4>1, <4>2 DEF Waiting, Active
      <3>2. UNCHANGED <<heard, syncIdle>>
        BY <3>1 DEF DropConnection
      <3>. QED  BY <1>1, <2>3, <3>2 DEF PacedInv, ActiveIsHeard
    <2>. QED  BY <2>2, <2>3
  <1>. QED  BY <1>3, <1>4, <1>5, <1>7, <1>8, <1>9 DEF PacedInv

LEMMA ReconnectPaced ==
  ASSUME PlayerInv, PacedInv, Reconnect
  PROVE  PacedInv'
  <1>1. /\ mpc = "loop" /\ ~up /\ up'
        /\ UNCHANGED <<flags, ring, spc, entry, streaming, stream, npc, params, inbox, mpc, awaiting, syncIdle,
                       current, heard, running>>
    BY DEF Reconnect, vars, netVars, mainVars, ghosts
  <1>2. npc = "none" /\ ~streaming /\ ~Armed /\ ~Announcing
    BY <1>1 DEF PacedInv, DownIsQuiet, ArmedIsHeard, AnnouncedFirst
  <1>3. OneHeader' /\ HeaderWaits'
    BY <1>1, SameThread DEF PacedInv
  <1>4. (StartQueued' <=> StartQueued) /\ (EndQueued' <=> EndQueued) /\ StartIsLast'
    BY <1>1, SameQueues DEF PacedInv
  <1>5. ~Announcing' /\ ~Armed' /\ (TearingDown' <=> TearingDown)
    BY <1>1, <1>2, <1>4 DEF Announcing, Armed, TearingDown
  <1>6. HeardInOrder' /\ DownIsQuiet' /\ OverIsTold'
    BY <1>1, <1>2, <1>4, <1>5 DEF PacedInv, HeardInOrder, DownIsQuiet, OverIsTold, TearingDown
  <1>7. AnnouncedFirst'
    BY <1>1, <1>2, <1>4, <1>5 DEF PacedInv, AnnouncedFirst, Announcing
  <1>8. ArmedIsHeard' /\ ActiveIsHeard'
    BY <1>1, <1>5 DEF PacedInv, ArmedIsHeard, ActiveIsHeard
  <1>. QED  BY <1>3, <1>4, <1>6, <1>7, <1>8 DEF PacedInv

LEMMA StopPaced ==
  ASSUME PlayerInv, PacedInv, Stop
  PROVE  PacedInv'
  <1>1. /\ mpc = "loop" /\ mpc' = "join" /\ flags' = flags \cup {"COMMAND_STOP"}
        /\ UNCHANGED <<ring, spc, entry, up, streaming, stream, npc, params, inbox, awaiting, syncIdle,
                       current, heard, running>>
    BY DEF Stop, Signal, svars, serverVars, netVars, ghosts
  <1>2. (HeaderIn' <=> HeaderIn) /\ OneHeader' /\ HeaderWaits' /\ ~TearingDown /\ ~TearingDown'
    BY <1>1, SameThread DEF PacedInv, TearingDown
  <1>3. (StartQueued' <=> StartQueued) /\ (EndQueued' <=> EndQueued) /\ StartIsLast'
    BY <1>1, SameQueues DEF PacedInv
  <1>4. /\ flags' \cap Turns = flags \cap Turns /\ Held'
        /\ "COMMAND_START" \in flags' <=> "COMMAND_START" \in flags
        /\ "COMMAND_STREAM_END" \in flags' <=> "COMMAND_STREAM_END" \in flags
        /\ flags \cap Commands \subseteq {"COMMAND_STOP"} => flags' \cap Commands \subseteq {"COMMAND_STOP"}
    BY <1>1 DEF Turns, Held, Commands
  <1>5. HeardInOrder' /\ DownIsQuiet' /\ OverIsTold'
    BY <1>1, <1>2, <1>3 DEF PacedInv, HeardInOrder, DownIsQuiet, OverIsTold
  <1>6. AnnouncedFirst'
    BY <1>1, <1>2, <1>3, <1>4 DEF PacedInv, AnnouncedFirst, Announcing
  <1>7. ArmedIsHeard'
    <2>1. Armed' <=> Armed
      BY <1>1, <1>4 DEF Armed
    <2>. QED  BY <1>1, <1>2, <1>4, <2>1 DEF PacedInv, ArmedIsHeard
  <1>8. ActiveIsHeard'
    BY <1>1, <1>4 DEF PacedInv, ActiveIsHeard
  <1>. QED  BY <1>2, <1>3, <1>5, <1>6, <1>7, <1>8 DEF PacedInv

-----------------------------------------------------------------------------
LEMMA PacedInitInv == PlayerInit => PacedInv
  <1>. SUFFICES ASSUME PlayerInit PROVE PacedInv
    OBVIOUS
  <1>1. ring = <<>> /\ flags = {} /\ spc = "top" /\ entry = NoChunk
    BY DEF PlayerInit, Init
  <1>2. ~HeaderIn /\ OneHeader /\ ~StartQueued /\ StartIsLast
    BY <1>1, NothingQueued DEF PlayerInit, HeaderIn, OneHeader, StartQueued, StartIsLast
  <1>3. ~Announcing /\ ~Armed
    BY <1>1, <1>2 DEF PlayerInit, Announcing, Armed
  <1>4. HeardInOrder /\ DownIsQuiet /\ OverIsTold
    BY DEF PlayerInit, HeardInOrder, DownIsQuiet, OverIsTold, TearingDown
  <1>5. HeaderWaits /\ ActiveIsHeard
    BY <1>1, <1>2 DEF PlayerInit, HeaderWaits, ActiveIsHeard, Active
  <1>6. AnnouncedFirst /\ ArmedIsHeard
    BY <1>2, <1>3 DEF PlayerInit, AnnouncedFirst, ArmedIsHeard
  <1>. QED  BY <1>2, <1>4, <1>5, <1>6 DEF PacedInv

LEMMA PacedNextInv ==
  ASSUME Rapid = {}, PlayerInv, PacedInv, [PlayerNext]_pvars
  PROVE  PacedInv'
  <1>1. CASE UNCHANGED pvars
    BY <1>1, SameThread, SameQueues
       DEF pvars, vars, playerVars, serverVars, netVars, mainVars, ghosts, PacedInv, HeardInOrder, DownIsQuiet,
           TearingDown, AnnouncedFirst, Announcing, Held, ArmedIsHeard, Armed, ActiveIsHeard, OverIsTold
  <1>2. CASE Network
    BY <1>2, NetworkPaced
  <1>3. CASE Main
    BY <1>3, TakeEventsPaced, SnapshotPaced, LeavingPaced, OnStreamEndPaced, OnStreamStartPaced,
       CleanupPaced, CleanupFinishPaced DEF Main
  <1>4. CASE Application
    BY <1>4, TeardownPaced, ReconnectPaced, StopPaced DEF Application
  <1>5. CASE SyncThread
    BY <1>5, SyncThreadPaced
  <1>. QED  BY <1>1, <1>2, <1>3, <1>4, <1>5 DEF PlayerNext

(* When every message waits until the sync thread has settled, whatever is      *)
(* refused and whatever the callbacks do: the invariant behind the two          *)
(* theorems below.                                                              *)
THEOREM PlayerPacedInvariant == ASSUME Rapid = {} PROVE PlayerSpec => []PacedInv
  <1>1. PlayerInv /\ PacedInv /\ [PlayerNext]_pvars => PacedInv'
    BY PacedNextInv
  <1>. QED  BY <1>1, PacedInitInv, PlayerInvariant, PTL DEF PlayerSpec

(* The sync thread plays the stream the listener heard of last, and no other,   *)
(* and its parameters are those of that stream (sync_task.cpp:806-894,          *)
(* player_role.cpp:428-499).                                                    *)
THEOREM PlayerPlaysWhatWasHeard == ASSUME Rapid = {} PROVE PlayerSpec => []PlaysWhatWasHeard
  <1>1. PacedInv => PlaysWhatWasHeard
    BY DEF PacedInv, ActiveIsHeard, HeardInOrder, PlaysWhatWasHeard
  <1>. QED  BY <1>1, PlayerPacedInvariant, PTL

(* What a step does to the stream that is heard of and to the one that plays.   *)
LEMMA LifecycleStep ==
  ASSUME Rapid = {}, PlayerInv, PacedInv, PacedInv', [PlayerNext]_pvars
  PROVE  [Lifecycle!LNext]_(Lifecycle!lvars)
  <1>. USE DEF Lifecycle!LNext, Lifecycle!lvars, Lifecycle!OnStart, Lifecycle!Play, Lifecycle!Idle, Lifecycle!OnEnd
  <1>1. CASE SyncThread
    <2>1. heard' = heard
      BY <1>1 DEF SyncThread, mainVars
    <2>2. /\ running' = 0 \/ (running' = stream' /\ heard' = stream')
          /\ running = 0 \/ (running = stream /\ heard = stream)
      BY DEF PacedInv, ActiveIsHeard
    <2>3. CASE running' = running
      BY <2>1, <2>3
    <2>4. CASE running' # running /\ running = 0
      BY <2>1, <2>2, <2>4
    <2>5. CASE running' # running /\ running # 0
      <3>1. stream' = stream
        BY <1>1 DEF SyncThread, serverVars
      <3>. QED  BY <2>1, <2>2, <2>5, <3>1
    <2>. QED  BY <2>3, <2>4, <2>5
  <1>2. CASE OnStreamStart \/ TeardownInStart
    <2>1. HearStart
      BY <1>2 DEF OnStreamStart, TeardownInStart
    <2>2. heard = 0 /\ heard' = stream /\ running' = running /\ running = 0
      BY <2>1, StartHeard DEF PacedInv, ActiveIsHeard, Waiting, Active
    <2>3. stream \in 1..MaxStreams
      BY <2>1, StartHeard, PlayerAssumption DEF PlayerInv, PlayerTypeOK
    <2>. QED  BY <2>2, <2>3
  <1>3. CASE OnStreamEnd \/ TeardownInEnd
    <2>1. mpc = "events" /\ syncIdle /\ heard' = 0 /\ running' = running
      BY <1>3 DEF OnStreamEnd, TeardownInEnd, ghosts
    <2>2. running = 0
      BY <2>1 DEF PacedInv, ActiveIsHeard
    <2>. QED  BY <2>1, <2>2
  <1>4. CASE \/ Network \/ TakeEvents \/ Snapshot \/ LeaveEvents \/ CleanupSignal \/ CleanupReset \/ CleanupFinish \/ Join
             \/ DropConnection \/ Reconnect \/ Stop \/ UNCHANGED pvars
    <2>1. UNCHANGED <<heard, running>>
      BY <1>4 DEF Network, StreamStart, StreamStartFails, WriteParams, PushStart, StreamEnd, PushEnd, StreamClear,
         WriteMarker, Binary, TakeEvents, Snapshot, LeaveEvents, CleanupSignal, CleanupReset, CleanupFinish, Join,
         DropConnection, Reconnect, Stop, pvars, playerVars, mainVars, ghosts
    <2>. QED  BY <2>1
  <1>. QED  BY <1>1, <1>2, <1>3, <1>4 DEF PlayerNext, Main, Application

(* The callbacks come in pairs and a stream is decoded only between the two     *)
(* of its own: the player implements StreamLifecycle, step by step.             *)
THEOREM PlayerImplementsLifecycle == ASSUME Rapid = {} PROVE PlayerSpec => ImplementsLifecycle
  <1>1. PlayerInit => Lifecycle!LInit
    BY DEF PlayerInit, Lifecycle!LInit
  <1>2. PlayerInv /\ PacedInv /\ PacedInv' /\ [PlayerNext]_pvars => [Lifecycle!LNext]_(Lifecycle!lvars)
    BY LifecycleStep
  <1>. QED
    BY <1>1, <1>2, PlayerInvariant, PlayerPacedInvariant, PTL DEF PlayerSpec, ImplementsLifecycle, Lifecycle!LSpec
=============================================================================
