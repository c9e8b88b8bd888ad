----------------------------- MODULE PlayerRole -----------------------------
(**************************************************************************    *)
(* The player role between its three threads (player_role.cpp,                 *)
(* sync_task.cpp, and the parts of client.cpp and connection_manager.cpp       *)
(* that call it):                                                              *)
(*  - the network thread handles the server's stream messages: it writes       *)
(*    chunks into the ring buffer, sets command bits and pushes lifecycle      *)
(*    events onto the inbox ring, each a step of its own;                      *)
(*  - the main loop takes the events, holds a STREAM_END back until the sync   *)
(*    thread is idle, calls the listener, acknowledges a start, and tears      *)
(*    the connection down;                                                     *)
(*  - the sync thread is SyncTask.                                             *)
(*                                                                             *)
(* Streams are numbered in the order the server starts them, a tag is a        *)
(* stream and the number of seeks before the chunk was sent.  `heard' and      *)
(* `running' are the two ends the design keeps together: the stream the        *)
(* listener has been told about and the one the sync thread plays.             *)
(**************************************************************************    *)
EXTENDS SyncTask

CONSTANTS
    MaxStreams,  \* streams the server starts
    MaxSeeks,    \* stream/clear messages of a stream
    MaxAudio,    \* audio chunks of a stream
    MaxDrops,    \* connections that are torn down
    InboxCap,    \* Inbox::EVENT_CAPACITY
    Rapid,       \* the messages that need not wait until the sync thread has settled
    Refusals,    \* TRUE when a stream start may be refused
    Reentrant    \* TRUE when a listener callback may tear the connection down

Messages == {"start", "restart", "end", "clear", "drop"}

ASSUME PlayerAssumption ==
    /\ MaxStreams \in Nat \ {0} /\ MaxSeeks \in Nat /\ MaxAudio \in Nat /\ MaxDrops \in Nat
    /\ InboxCap \in Nat \ {0}
    /\ Tags = (1..MaxStreams) \X (0..MaxSeeks)
    /\ Rapid \subseteq Messages
    /\ Refusals \in BOOLEAN /\ Reentrant \in BOOLEAN

VARIABLES
    up,          \* TRUE while messages of the server are dispatched
    streaming,   \* TRUE while the server believes a stream is active
    stream,      \* the last stream the server started
    seek,        \* the seeks in it
    sent,        \* the audio chunks sent in it
    drops,       \* connections torn down so far
    npc,         \* where the network thread is in a handler
    params,      \* stream_params_slot: the stream it describes, 0 when empty
    inbox,       \* PLAYER_STREAM events on the inbox ring
    mpc,         \* where the main loop is
    awaiting,    \* awaiting_sync_idle_events
    syncIdle,    \* sync_idle
    current,     \* current_stream_params: the stream it describes
    heard,       \* stream_active, and the stream on_stream_start() was called for; 0 if none
    highPerf,    \* high_performance_requested_for_playback
    markerLost,  \* TRUE when the marker of the last seek could not be written
    running,     \* the stream the sync thread is active for, 0 if idle
    cleared      \* the seek that the last stream clear was applied for

serverVars == <<up, streaming, stream, seek, sent, drops>>
netVars == <<npc, params>>
mainVars == <<mpc, awaiting, syncIdle, current, heard, highPerf>>
ghosts == <<running, cleared, markerLost>>
playerVars == <<serverVars, netVars, inbox, mainVars, ghosts>>
pvars == <<vars, playerVars>>

Streams == 1..MaxStreams
StreamOf(tag) == tag[1]
SeekOf(tag) == tag[2]

Event == [type : {"STREAM_START", "STREAM_END"}, stream : 0..MaxStreams]

PlayerTypeOK ==
    /\ TypeOK
    /\ up \in BOOLEAN /\ streaming \in BOOLEAN
    /\ stream \in 0..MaxStreams /\ seek \in 0..MaxSeeks /\ sent \in 0..MaxAudio /\ drops \in 0..MaxDrops
    /\ npc \in {"none", "params", "pushStart", "pushEnd", "marker"}
    /\ params \in 0..MaxStreams
    /\ inbox \in Seq(Event) /\ Len(inbox) <= InboxCap
    /\ mpc \in {"loop", "snapshot", "events", "signalEnd", "reset", "finish", "join", "gone"}
    /\ awaiting \in Seq(Event)
    /\ syncIdle \in BOOLEAN
    /\ current \in 0..MaxStreams /\ heard \in 0..MaxStreams
    /\ highPerf \in BOOLEAN
    /\ running \in 0..MaxStreams /\ cleared \in 0..MaxSeeks /\ markerLost \in BOOLEAN

PlayerInit ==
    /\ Init
    /\ up = TRUE /\ streaming = FALSE /\ stream = 0 /\ seek = 0 /\ sent = 0 /\ drops = 0
    /\ npc = "none" /\ params = 0 /\ inbox = <<>>
    /\ mpc = "loop" /\ awaiting = <<>> /\ syncIdle = TRUE
    /\ current = 0 /\ heard = 0 /\ highPerf = FALSE
    /\ running = 0 /\ cleared = 0 /\ markerLost = FALSE

-----------------------------------------------------------------------------
(* Pacing.  A message that is not in Rapid comes only when the sync thread     *)
(* has nothing left to do of the previous ones: it has taken every command,    *)
(* header and marker, and waits for the next.  The main loop may lag behind:   *)
(* events of the previous stream may still wait in the inbox.                  *)
Settled ==
    /\ npc = "none"
    /\ flags \cap Commands = {}
    /\ spc \in {"wait", "recv", "inner", "load", "decode"}
    /\ \A i \in DOMAIN ring : ring[i].kind = "audio"

Paced(message) == message \in Rapid \/ Settled

-----------------------------------------------------------------------------
(* The network thread.  A handler begins only while messages are dispatched;   *)
(* once begun it runs to its end, whatever the main loop does meanwhile.       *)

Begin == up /\ npc = "none" /\ mpc # "gone"

(* push_event() on a full ring drops the event.                                *)
Push(event) ==
    inbox' = IF Len(inbox) < InboxCap THEN Append(inbox, event) ELSE inbox

(* handle_stream_start(): the codec header goes into the ring buffer first.    *)
StreamStart ==
    /\ Begin /\ stream < MaxStreams
    /\ Paced(IF streaming THEN "restart" ELSE "start")
    /\ streaming => "restart" \in Rapid
    /\ WriteChunk([kind |-> "header", tag |-> <<stream + 1, 0>>])
    /\ stream' = stream + 1 /\ streaming' = TRUE
    /\ seek' = 0 /\ sent' = 0 /\ cleared' = 0
    /\ npc' = "params"
    /\ UNCHANGED <<up, drops, params, inbox, mainVars, running, markerLost>>

(* It could not be sent, or the message lacks parameters: the stream is        *)
(* ended, whatever was playing.                                                *)
StreamStartFails ==
    /\ Refusals /\ Begin /\ stream < MaxStreams
    /\ Paced(IF streaming THEN "restart" ELSE "start")
    /\ streaming => "restart" \in Rapid
    /\ Signal("COMMAND_STREAM_END")
    /\ stream' = stream + 1 /\ streaming' = TRUE
    /\ seek' = 0 /\ sent' = 0 /\ cleared' = 0
    /\ npc' = "pushEnd"
    /\ UNCHANGED <<up, drops, params, inbox, mainVars, running, markerLost>>

WriteParams ==
    /\ npc = "params"
    /\ params' = stream /\ npc' = "pushStart"
    /\ UNCHANGED <<vars, serverVars, inbox, mainVars, ghosts>>

PushStart ==
    /\ npc = "pushStart"
    /\ Push([type |-> "STREAM_START", stream |-> stream]) /\ npc' = "none"
    /\ UNCHANGED <<vars, serverVars, params, mainVars, ghosts>>

(* handle_stream_end().                                                        *)
StreamEnd ==
    /\ Begin /\ streaming /\ Paced("end")
    /\ Signal("COMMAND_STREAM_END")
    /\ streaming' = FALSE /\ npc' = "pushEnd"
    /\ UNCHANGED <<up, stream, seek, sent, drops, params, inbox, mainVars, ghosts>>

PushEnd ==
    /\ npc = "pushEnd"
    /\ Push([type |-> "STREAM_END", stream |-> stream]) /\ npc' = "none"
    /\ UNCHANGED <<vars, serverVars, params, mainVars, ghosts>>

(* handle_stream_clear(): the bit, then the marker, which is lost when the     *)
(* ring buffer stays full.                                                     *)
StreamClear ==
    /\ Begin /\ streaming /\ seek < MaxSeeks /\ Paced("clear")
    /\ Signal("COMMAND_STREAM_CLEAR")
    /\ seek' = seek + 1 /\ npc' = "marker"
    /\ UNCHANGED <<up, streaming, stream, sent, drops, params, inbox, mainVars, ghosts>>

WriteMarker ==
    /\ npc = "marker"
    /\ \/ /\ WriteChunk([kind |-> "marker", tag |-> <<stream, seek>>])
          /\ markerLost' = FALSE
       \/ /\ Len(ring) = RingCap /\ UNCHANGED vars
          /\ markerLost' = TRUE
    /\ npc' = "none"
    /\ UNCHANGED <<serverVars, params, inbox, mainVars, running, cleared>>

(* handle_binary(): audio that finds no room is dropped.                       *)
Binary ==
    /\ Begin /\ streaming /\ sent < MaxAudio
    /\ WriteChunk([kind |-> "audio", tag |-> <<stream, seek>>])
    /\ sent' = sent + 1
    /\ UNCHANGED <<up, streaming, stream, seek, drops, netVars, inbox, mainVars, ghosts>>

Network ==
    \/ StreamStart \/ StreamStartFails \/ WriteParams \/ PushStart
    \/ StreamEnd \/ PushEnd \/ StreamClear \/ WriteMarker \/ Binary

-----------------------------------------------------------------------------
(* The main loop.                                                              *)

(* The drain of the inbox ring in SendspinClient::loop(): every event goes     *)
(* to awaiting_sync_idle_events.                                               *)
TakeEvents ==
    /\ mpc = "loop" /\ (inbox # <<>> \/ awaiting # <<>>)
    /\ awaiting' = awaiting \o inbox /\ inbox' = <<>>
    /\ mpc' = "snapshot"
    /\ UNCHANGED <<vars, serverVars, netVars, syncIdle, current, heard, highPerf, ghosts>>

(* drain_events() asks once whether the sync thread is idle.                   *)
Snapshot ==
    /\ mpc = "snapshot"
    /\ syncIdle' = ("TASK_RUNNING" \notin flags)
    /\ mpc' = "events"
    /\ UNCHANGED <<vars, serverVars, netVars, inbox, awaiting, current, heard, highPerf, ghosts>>

(* Nothing left, or a STREAM_END that has to wait for the sync thread.         *)
LeaveEvents ==
    /\ mpc = "events"
    /\ awaiting # <<>> => Head(awaiting).type = "STREAM_END" /\ ~syncIdle
    /\ mpc' = "loop"
    /\ UNCHANGED <<vars, serverVars, netVars, inbox, awaiting, syncIdle, current, heard, highPerf, ghosts>>

(* Mutant: on_stream_end() does not wait for the sync thread.                  *)
OnStreamEndAtOnce ==
    /\ mpc = "events" /\ awaiting # <<>>
    /\ Head(awaiting).type = "STREAM_END"
    /\ awaiting' = Tail(awaiting)
    /\ heard' = 0 /\ highPerf' = FALSE
    /\ UNCHANGED <<vars, serverVars, netVars, inbox, mpc, syncIdle, current, ghosts>>

(* on_stream_end() is called for an active stream only.                        *)
OnStreamEnd ==
    /\ mpc = "events" /\ awaiting # <<>>
    /\ Head(awaiting).type = "STREAM_END" /\ syncIdle
    /\ awaiting' = Tail(awaiting)
    /\ heard' = 0 /\ highPerf' = FALSE
    /\ UNCHANGED <<vars, serverVars, netVars, inbox, mpc, syncIdle, current, ghosts>>

(* A STREAM_START: the request for high performance, the parameters, the       *)
(* callback.                                                                   *)
HearStart ==
    /\ mpc = "events" /\ awaiting # <<>> /\ Head(awaiting).type = "STREAM_START"
    /\ heard' = Head(awaiting).stream
    /\ current' = IF params = 0 THEN current ELSE params
    /\ params' = 0
    /\ UNCHANGED <<npc, stream, seek, sent, ghosts>>

(* Mutant: the start is not acknowledged.                                      *)
OnStreamStartUnacknowledged ==
    /\ HearStart
    /\ awaiting' = Tail(awaiting) /\ highPerf' = TRUE /\ syncIdle' = FALSE
    /\ UNCHANGED <<vars, inbox, mpc, up, streaming, drops>>

(* The callback returns: the sync thread may begin, and the snapshot is        *)
(* taken back.                                                                 *)
OnStreamStart ==
    /\ HearStart
    /\ Signal("COMMAND_START")
    /\ awaiting' = Tail(awaiting) /\ highPerf' = TRUE /\ syncIdle' = FALSE
    /\ UNCHANGED <<inbox, mpc, up, streaming, drops>>

(* drop_connection() of the current connection, up to reset_events(): its      *)
(* messages are not dispatched any more and the inbox ring is emptied.  A      *)
(* handler that is under way goes on, when Rapid lets a teardown meet one.     *)
Teardown ==
    /\ drops < MaxDrops /\ up
    /\ npc = "none" \/ "drop" \in Rapid
    /\ drops' = drops + 1 /\ up' = FALSE /\ streaming' = FALSE
    /\ inbox' = <<>> /\ mpc' = "signalEnd"

DropConnection ==
    /\ mpc = "loop" /\ Paced("drop")
    /\ Teardown
    /\ UNCHANGED <<vars, stream, seek, sent, netVars, awaiting, syncIdle, current, heard, highPerf, ghosts>>

(* Mutant: the start is acknowledged although the stream was torn down.        *)
TeardownInStartAcknowledged ==
    /\ Reentrant
    /\ HearStart /\ highPerf' = TRUE
    /\ Teardown
    /\ Signal("COMMAND_START")
    /\ UNCHANGED <<awaiting, syncIdle>>

(* The same from within a callback, when the listener calls connect_to() and   *)
(* finds the transport of the current connection lost: cleanup_generation      *)
(* makes drain_events() abandon the batch, the start is not acknowledged ...   *)
TeardownInStart ==
    /\ Reentrant
    /\ HearStart /\ highPerf' = TRUE
    /\ Teardown
    /\ UNCHANGED <<vars, awaiting, syncIdle>>

(* ... and the stream that ended stays ended.                                  *)
TeardownInEnd ==
    /\ Reentrant
    /\ mpc = "events" /\ awaiting # <<>>
    /\ Head(awaiting).type = "STREAM_END" /\ syncIdle /\ heard # 0
    /\ heard' = 0
    /\ Teardown
    /\ UNCHANGED <<vars, stream, seek, sent, netVars, awaiting, syncIdle, current, highPerf, ghosts>>

(* Mutant: the stream is cleared, not ended.                                   *)
CleanupSignalsClear ==
    /\ mpc = "signalEnd"
    /\ Signal("COMMAND_STREAM_CLEAR")
    /\ mpc' = "reset"
    /\ UNCHANGED <<serverVars, netVars, inbox, awaiting, syncIdle, current, heard, highPerf, ghosts>>

(* cleanup(), one action per object it shares with another thread.             *)
CleanupSignal ==
    /\ mpc = "signalEnd"
    /\ Signal("COMMAND_STREAM_END")
    /\ mpc' = "reset"
    /\ UNCHANGED <<serverVars, netVars, inbox, awaiting, syncIdle, current, heard, highPerf, ghosts>>

CleanupReset ==
    /\ mpc = "reset"
    /\ params' = 0 /\ mpc' = "finish"
    /\ UNCHANGED <<vars, serverVars, npc, inbox, awaiting, syncIdle, current, heard, highPerf, ghosts>>

(* Mutant: no STREAM_END is left for the listener.                             *)
CleanupFinishSilently ==
    /\ mpc = "finish"
    /\ awaiting' = <<>> /\ highPerf' = FALSE
    /\ mpc' = "loop"
    /\ UNCHANGED <<vars, serverVars, netVars, inbox, syncIdle, current, heard, ghosts>>

(* Mutant: high performance networking is not released.                        *)
CleanupFinishHolding ==
    /\ mpc = "finish"
    /\ Push([type |-> "STREAM_END", stream |-> 0])
    /\ awaiting' = <<>> /\ mpc' = "loop"
    /\ UNCHANGED <<vars, serverVars, netVars, syncIdle, current, heard, highPerf, ghosts>>

CleanupFinish ==
    /\ mpc = "finish"
    /\ Push([type |-> "STREAM_END", stream |-> 0])
    /\ awaiting' = <<>> /\ highPerf' = FALSE
    /\ mpc' = "loop"
    /\ UNCHANGED <<vars, serverVars, netVars, syncIdle, current, heard, ghosts>>

(* Another connection is promoted.                                             *)
Reconnect ==
    /\ mpc = "loop" /\ ~up /\ Paced("drop")
    /\ up' = TRUE
    /\ UNCHANGED <<vars, streaming, stream, seek, sent, drops, netVars, inbox, mainVars, ghosts>>

(* ~SendspinClient() resets player_ while the network threads still run:       *)
(* SyncTask::stop() sets COMMAND_STOP and joins the thread.                    *)
Stop ==
    /\ mpc = "loop"
    /\ Signal("COMMAND_STOP")
    /\ mpc' = "join"
    /\ UNCHANGED <<serverVars, netVars, inbox, awaiting, syncIdle, current, heard, highPerf, ghosts>>

Join ==
    /\ mpc = "join" /\ spc = "done"
    /\ mpc' = "gone"
    /\ UNCHANGED <<vars, serverVars, netVars, inbox, awaiting, syncIdle, current, heard, highPerf, ghosts>>

Main ==
    \/ TakeEvents \/ Snapshot \/ LeaveEvents \/ OnStreamEnd \/ OnStreamStart
    \/ CleanupSignal \/ CleanupReset \/ CleanupFinish \/ Join
Application == DropConnection \/ TeardownInStart \/ TeardownInEnd \/ Reconnect \/ Stop

-----------------------------------------------------------------------------
(* The sync thread, and what is remembered of it: the stream of the header     *)
(* it became active with or took inside a stream, and the seek whose bit it    *)
(* has wiped.                                                                  *)
SyncThread ==
    /\ ThreadEntry
    /\ running' = IF spc' \notin Active THEN 0
                  ELSE IF entry.kind = "header" THEN StreamOf(entry.tag)
                  ELSE running
    /\ cleared' = IF spc = "apply" \/ (spc = "decode" /\ entry.kind = "marker")
                  THEN seek ELSE cleared
    /\ UNCHANGED <<markerLost, serverVars, netVars, inbox, mainVars>>

PlayerNext == Network \/ Main \/ Application \/ SyncThread

PlayerSpec == PlayerInit /\ [][PlayerNext]_pvars

(* A handler that has begun is finished, the main loop keeps running and so    *)
(* does the sync thread.  The server owes nothing: it may never send again.    *)
FinishHandler == WriteParams \/ PushStart \/ PushEnd \/ WriteMarker

Fairness ==
    /\ WF_pvars(FinishHandler)
    /\ WF_pvars(Main)
    /\ WF_pvars(SyncThread)

FairSpec == PlayerSpec /\ Fairness

-----------------------------------------------------------------------------
(* The listener's contract.                                                    *)

Lifecycle == INSTANCE StreamLifecycle WITH playing <- running

(* PlayerRole implements StreamLifecycle: the callbacks come in pairs, a       *)
(* stream is decoded only after its on_stream_start(), and on_stream_end()     *)
(* only after the sync thread is idle again (player_role.cpp:428-482).         *)
ImplementsLifecycle == Lifecycle!LSpec

-----------------------------------------------------------------------------
(* Safety.                                                                     *)

(* The sync thread is in its active state only for the stream the listener     *)
(* heard of last, teardowns from within a callback included (a start that      *)
(* cleanup() has overtaken does not arm it), and current_stream_params         *)
(* describes that stream, although it travels in a slot of its own.            *)
PlaysWhatWasHeard ==
    /\ running # 0 => heard = running
    /\ heard # 0 => current = heard

(* A seek is exact: once its bit has been wiped no audio from before it waits  *)
(* to be sent, although the marker may be written after the ring buffer was    *)
(* emptied, or be met before the bit is seen.                                  *)
SeekIsExact ==
    dbuf \in Tags /\ StreamOf(dbuf) = stream => SeekOf(dbuf) >= cleared

(* A seek loses nothing: the flush of the ring buffer stops short of audio     *)
(* sent after it, unless the marker could not be written.                      *)
SeekKeepsNewAudio ==
    [][(spc = "flush" /\ ring # <<>> /\ ring' = Tail(ring) /\ Head(ring).kind = "audio"
            /\ ~markerLost)
          => Head(ring).tag # <<stream, seek>>]_pvars

(* High performance networking is never held for a stream the listener does    *)
(* not know of, whatever callbacks and teardowns come in between (between two  *)
(* passes of the main loop: a teardown inside on_stream_end() releases later). *)
HighPerfForStream == highPerf /\ mpc = "loop" => heard # 0

(* No decoder is set up for one stream and fed with audio of another.          *)
DecodesOwnAudio ==
    (spc = "decode" /\ entry.kind = "audio" /\ codec # None)
        => StreamOf(entry.tag) = StreamOf(codec)

-----------------------------------------------------------------------------
(* Liveness.                                                                   *)

Stopping == mpc \in {"join", "gone"}

(* A stream whose start the network thread announces is played and heard of,   *)
(* unless the server ends it or the connection goes first.                     *)
StartedStreamPlays ==
    \A n \in Streams :
        (npc = "pushStart" /\ stream = n) ~>
            ((running = n /\ heard = n) \/ stream # n \/ ~streaming \/ Stopping)

(* A stream the listener heard of, and that is over, is ended for it too.      *)
EndIsHeard ==
    \A n \in Streams :
        (heard = n /\ (~streaming \/ stream # n)) ~> (heard # n \/ Stopping)

(* After a teardown the sync thread goes back to idle.                         *)
TeardownStopsPlayback == (~up /\ running # 0) ~> (up \/ running = 0)

(* The destructor's join returns.                                              *)
StopReturns == mpc = "join" ~> mpc = "gone"

TeardownsEnd == TeardownStopsPlayback /\ StopReturns

=============================================================================
