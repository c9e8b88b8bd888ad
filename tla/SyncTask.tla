------------------------------ MODULE SyncTask ------------------------------
(**************************************************************************     *)
(* The sync thread of the player: SyncTask::thread_entry() and every            *)
(* function it calls (src/src/sendspin/sync_task.cpp).  Its outer loop          *)
(* idles until a codec header arrives in the ring buffer, waits for the         *)
(* main loop to acknowledge the start, runs the four-state inner loop, and      *)
(* goes back to idle when it is told to.                                        *)
(*                                                                              *)
(* The other threads are an open environment here: at any moment any of         *)
(* them may set one of the command bits or write a chunk into the ring          *)
(* buffer.  PlayerRole.tla closes the system with the network thread and        *)
(* the main loop.                                                               *)
(*                                                                              *)
(* Time is abstracted: whether priming is over, whether a chunk is late,        *)
(* whether a hard sync holds the decoded audio back, are choices.  A chunk      *)
(* is its kind and a tag that tells where it comes from.                        *)
(**************************************************************************     *)
EXTENDS Naturals, Sequences

CONSTANTS
    Tags,        \* what tells chunks apart: the stream (and the seek) they belong to
    None,        \* no chunk, no codec
    NullBuffer, EmptyBuffer,  \* the decode buffer before it is allocated, and with nothing in it
    RingCap,     \* chunks the encoded ring buffer holds
    AllocFails   \* TRUE when TransferBuffer::create()/reallocate() may fail

ASSUME SyncTaskAssumption ==
    /\ {None, NullBuffer, EmptyBuffer} \cap Tags = {}
    /\ NullBuffer # EmptyBuffer
    /\ None \notin {"header", "audio", "marker"}
    /\ RingCap \in Nat \ {0}
    /\ AllocFails \in BOOLEAN

VARIABLES
    flags,       \* the set of bits set in event_flags_
    ring,        \* encoded_ring_buffer_: chunks committed and not yet returned, oldest first
    lent,        \* TRUE while the oldest chunk is out on loan (received, not returned)
    spc,         \* where the sync thread is
    st,          \* sync_state
    entry,       \* sync_context.encoded_entry
    codec,       \* the header the decoder was set up with, None when UNSUPPORTED
    dbuf         \* sync_context.decode_buffer: NullBuffer, EmptyBuffer, or the tag of the audio in it

svars == <<spc, st, entry, codec, dbuf>>
vars == <<flags, ring, lent, spc, st, entry, codec, dbuf>>

Commands == {"COMMAND_STOP", "COMMAND_STREAM_END", "COMMAND_STREAM_CLEAR", "COMMAND_START"}
EventGroupBits == Commands \cup {"TASK_RUNNING", "TASK_STOPPED", "TASK_ERROR", "TASK_IDLE"}

Kinds == {"header", "audio", "marker"}
Chunk == [kind : Kinds, tag : Tags]
NoChunk == [kind |-> None, tag |-> None]

SyncTaskState == {"INITIAL_SYNC", "LOAD_CHUNK", "SYNCHRONIZE_AUDIO", "TRANSFER_AUDIO"}

(* Where the thread can be.  "top" is the test of the outer loop and the        *)
(* entry into idle, "wait" and "recv" are wait_for_codec_header(), "woke"       *)
(* and "noheader" what follows it, "drain" is drain_ring_buffer(), "ack"        *)
(* and "acked" the wait for COMMAND_START, "activate", "running" and            *)
(* "header" the start of the active state, "inner", "load" and "decode" the     *)
(* inner loop, "flush" and "apply" discard_to_clear_marker(), "leave" the       *)
(* code after the inner loop, "crashed" a null dereference.                     *)
Idling == {"top", "wait", "recv", "woke", "noheader", "drain", "ack", "acked", "activate", "running"}
Active == {"header", "inner", "load", "decode", "flush", "apply", "leave"}
Locations == Idling \cup Active \cup {"stopped", "done", "crashed"}

TypeOK ==
    /\ flags \subseteq EventGroupBits
    /\ ring \in Seq(Chunk) /\ Len(ring) <= RingCap
    /\ lent \in BOOLEAN
    /\ spc \in Locations
    /\ st \in SyncTaskState
    /\ entry \in Chunk \cup {NoChunk}
    /\ codec \in Tags \cup {None}
    /\ dbuf \in Tags \cup {NullBuffer, EmptyBuffer}

Init ==
    /\ flags = {} /\ ring = <<>> /\ lent = FALSE
    /\ spc = "top" /\ st = "INITIAL_SYNC"
    /\ entry = NoChunk /\ codec = None /\ dbuf = NullBuffer

-----------------------------------------------------------------------------
(* The ring buffer as the thread uses it.                                       *)

Goto(pc) == spc' = pc

(* receive_chunk() lends the oldest chunk out; it stays in the ring.            *)
ReceiveInto ==
    /\ ring # <<>>
    /\ lent' = TRUE /\ entry' = Head(ring)
    /\ UNCHANGED ring

(* return_chunk() frees the chunk on loan, when there is one.                   *)
ReturnEntry ==
    /\ entry' = NoChunk /\ lent' = FALSE
    /\ ring' = IF entry = NoChunk THEN ring ELSE Tail(ring)

(* A chunk received and returned at once.                                       *)
ReceiveAndReturn ==
    /\ ring # <<>>
    /\ ring' = Tail(ring)
    /\ UNCHANGED <<lent, entry>>

(* decrease_buffer_length() by all there is.                                    *)
Emptied == IF dbuf = NullBuffer THEN NullBuffer ELSE EmptyBuffer

-----------------------------------------------------------------------------
(* Idle.                                                                        *)

(* The outer loop's test and the entry into idle: every command but STOP is     *)
(* wiped, reset_context() forgets entry, codec and decoded audio.               *)
EnterIdle ==
    /\ spc = "top"
    /\ IF "COMMAND_STOP" \in flags
       THEN Goto("stopped") /\ UNCHANGED <<flags, ring, lent, st, entry, codec, dbuf>>
       ELSE /\ flags' = (flags \ {"TASK_RUNNING", "COMMAND_STREAM_END",
                                  "COMMAND_STREAM_CLEAR", "COMMAND_START"}) \cup {"TASK_IDLE"}
            /\ entry' = NoChunk /\ codec' = None /\ dbuf' = Emptied
            /\ Goto("wait")
            /\ UNCHANGED <<ring, lent, st>>

(* wait_for_codec_header(): the test of its loop ...                            *)
WaitTest ==
    /\ spc = "wait"
    /\ Goto(IF flags \cap {"COMMAND_STOP", "COMMAND_STREAM_END", "COMMAND_STREAM_CLEAR"} = {}
            THEN "recv" ELSE "woke")
    /\ UNCHANGED <<flags, ring, lent, st, entry, codec, dbuf>>

(* ... and its body: keep a header, discard anything else, or time out.  A      *)
(* command bit set meanwhile does not end a receive.                            *)
WaitReceive ==
    /\ spc = "recv"
    /\ \/ /\ ring = <<>>
          /\ Goto("wait") /\ UNCHANGED <<ring, lent, entry>>
       \/ /\ ring # <<>> /\ Head(ring).kind = "header"
          /\ ReceiveInto /\ Goto("woke")
       \/ /\ ring # <<>> /\ Head(ring).kind # "header"
          /\ ReceiveAndReturn /\ Goto("wait")
    /\ UNCHANGED <<flags, st, codec, dbuf>>

(* COMMAND_STOP is tested after the wait; a thread that stops here may still    *)
(* have a header out on loan.                                                   *)
Woke ==
    /\ spc = "woke"
    /\ Goto(IF "COMMAND_STOP" \in flags THEN "stopped"
            ELSE IF entry # NoChunk THEN "ack" ELSE "noheader")
    /\ UNCHANGED <<flags, ring, lent, st, entry, codec, dbuf>>

(* Woken without a header: only a clear drains the ring buffer.                 *)
NoHeader ==
    /\ spc = "noheader"
    /\ Goto(IF "COMMAND_STREAM_CLEAR" \in flags THEN "drain" ELSE "top")
    /\ UNCHANGED <<flags, ring, lent, st, entry, codec, dbuf>>

(* drain_ring_buffer(), one receive a step: it stops at a header, and keeps it. *)
Drain ==
    /\ spc = "drain"
    /\ \/ /\ ring = <<>>
          /\ Goto("top") /\ UNCHANGED <<ring, lent, entry>>
       \/ /\ ring # <<>> /\ Head(ring).kind = "header"
          /\ ReceiveInto /\ Goto("ack")
       \/ /\ ring # <<>> /\ Head(ring).kind # "header"
          /\ ReceiveAndReturn /\ Goto("drain")
    /\ UNCHANGED <<flags, st, codec, dbuf>>

(* The wait for the main loop's acknowledgement, and the test for STOP.         *)
AckWait ==
    /\ spc = "ack"
    /\ flags \cap Commands # {}
    /\ Goto(IF "COMMAND_STOP" \in flags THEN "stopped" ELSE "acked")
    /\ UNCHANGED <<flags, ring, lent, st, entry, codec, dbuf>>

(* Mutant: the header is not returned on the way back to idle.                  *)
AckedKeepingHeader ==
    /\ spc = "acked"
    /\ Goto(IF flags \cap {"COMMAND_STREAM_END", "COMMAND_STREAM_CLEAR"} # {}
            THEN "top" ELSE "activate")
    /\ UNCHANGED <<flags, ring, lent, st, entry, codec, dbuf>>

(* An end or a clear that is set sends the header back and the thread to idle.  *)
Acked ==
    /\ spc = "acked"
    /\ IF flags \cap {"COMMAND_STREAM_END", "COMMAND_STREAM_CLEAR"} # {}
       THEN ReturnEntry /\ Goto("top")
       ELSE Goto("activate") /\ UNCHANGED <<ring, lent, entry>>
    /\ UNCHANGED <<flags, st, codec, dbuf>>

-----------------------------------------------------------------------------
(* Active.                                                                      *)

Activate ==
    /\ spc = "activate"
    /\ flags' = flags \ {"TASK_IDLE", "COMMAND_START"}
    /\ Goto("running")
    /\ UNCHANGED <<ring, lent, st, entry, codec, dbuf>>

SetRunning ==
    /\ spc = "running"
    /\ flags' = flags \cup {"TASK_RUNNING"}
    /\ Goto("header")
    /\ UNCHANGED <<ring, lent, st, entry, codec, dbuf>>

(* decode_chunk() on a codec header: the decoder is set up anew, or the         *)
(* header is refused; then the decode buffer is made or grown, or is not.       *)
DecodeHeader(allocated) ==
    /\ entry.kind = "header"
    /\ \/ /\ allocated /\ codec' = None /\ UNCHANGED dbuf
       \/ /\ allocated /\ codec' = entry.tag
          /\ dbuf' = IF dbuf = NullBuffer THEN EmptyBuffer ELSE dbuf
       \/ /\ ~allocated /\ AllocFails /\ codec' = entry.tag /\ UNCHANGED dbuf

(* The header the stream starts with: the result of decode_chunk() is not       *)
(* looked at.                                                                   *)
DecodeFirstHeader ==
    /\ spc = "header"
    /\ \E allocated \in BOOLEAN : DecodeHeader(allocated)
    /\ ReturnEntry
    /\ st' = "INITIAL_SYNC" /\ Goto("inner")
    /\ UNCHANGED flags

(* The test at the head of the inner loop.                                      *)
Leaving == flags \cap {"COMMAND_STOP", "COMMAND_STREAM_END"} # {}
Seeking == "COMMAND_STREAM_CLEAR" \in flags

InnerLeave ==
    /\ spc = "inner" /\ Leaving
    /\ Goto("leave")
    /\ UNCHANGED <<flags, ring, lent, st, entry, codec, dbuf>>

(* discard_to_clear_marker(): the chunk on loan goes back first; a marker on    *)
(* loan is the boundary.                                                        *)
DiscardEntry ==
    /\ spc = "inner" /\ ~Leaving /\ Seeking
    /\ Goto(IF entry.kind = "marker" THEN "apply" ELSE "flush")
    /\ ReturnEntry
    /\ UNCHANGED <<flags, st, codec, dbuf>>

(* Mutant: the flush does not stop at the marker.                               *)
FlushPastMarker ==
    /\ spc = "flush"
    /\ \/ ring = <<>> /\ Goto("apply") /\ UNCHANGED <<ring, lent, entry>>
       \/ ReceiveAndReturn /\ Goto("flush")
    /\ UNCHANGED <<flags, st, codec, dbuf>>

(* Its loop, one receive a step: whatever is there goes, up to and including    *)
(* a marker, or until the ring buffer is empty or STOP is set.                  *)
Flush ==
    /\ spc = "flush"
    /\ \/ /\ "COMMAND_STOP" \in flags \/ ring = <<>>
          /\ Goto("apply") /\ UNCHANGED <<ring, lent, entry>>
       \/ /\ "COMMAND_STOP" \notin flags
          /\ ReceiveAndReturn
          /\ Goto(IF Head(ring).kind = "marker" THEN "apply" ELSE "flush")
    /\ UNCHANGED <<flags, st, codec, dbuf>>

(* Mutant: decoded audio survives a seek.                                       *)
ClearKeepingAudio ==
    /\ UNCHANGED dbuf
    /\ flags' = flags \ {"COMMAND_STREAM_CLEAR"}

(* apply_stream_clear(): decoded audio goes, the codec stays, and the bit is    *)
(* cleared even when it was set again since it was read.                        *)
ApplyStreamClear ==
    /\ dbuf' = Emptied
    /\ flags' = flags \ {"COMMAND_STREAM_CLEAR"}

Apply ==
    /\ spc = "apply"
    /\ ApplyStreamClear
    /\ st' = "INITIAL_SYNC" /\ Goto("inner")
    /\ UNCHANGED <<ring, lent, entry, codec>>

Step(state) == spc = "inner" /\ ~Leaving /\ ~Seeking /\ st = state

(* handle_initial_sync(): priming goes on, or it is over.                       *)
InitialSync ==
    /\ Step("INITIAL_SYNC")
    /\ st' = "LOAD_CHUNK"
    /\ UNCHANGED <<flags, ring, lent, spc, entry, codec, dbuf>>

(* handle_load_chunk(): nothing is loaded before time is synced; then           *)
(* load_next_chunk() receives a chunk, unless one is on loan already.           *)
LoadChunk ==
    /\ Step("LOAD_CHUNK")
    /\ Goto(IF entry = NoChunk THEN "load" ELSE "decode")
    /\ UNCHANGED <<flags, ring, lent, st, entry, codec, dbuf>>

(* An empty ring buffer ends the attempt; while aligning, silence is sent to    *)
(* the sink, which changes nothing here.                                        *)
LoadReceive ==
    /\ spc = "load"
    /\ \/ ring = <<>> /\ Goto("inner") /\ UNCHANGED <<ring, lent, entry>>
       \/ ReceiveInto /\ Goto("decode")
    /\ UNCHANGED <<flags, st, codec, dbuf>>

(* decode_chunk() from handle_load_chunk(), one action per kind of chunk and    *)
(* outcome.  Its branch for a chunk that finds decoded audio waiting is never   *)
(* taken: DecodesIntoEmpty says so.                                             *)
Decoding == spc = "decode"
Decoded == dbuf \in Tags

DecodeMarker ==
    /\ Decoding /\ entry.kind = "marker"
    /\ ReturnEntry /\ ApplyStreamClear
    /\ Goto("inner")
    /\ UNCHANGED <<st, codec>>

(* A header inside a stream; a failed allocation stops the thread for good.     *)
DecodeNewHeader ==
    /\ Decoding /\ ~Decoded
    /\ \E allocated \in BOOLEAN :
          /\ DecodeHeader(allocated)
          /\ flags' = IF allocated THEN flags ELSE flags \cup {"TASK_ERROR", "COMMAND_STOP"}
    /\ ReturnEntry /\ Goto("inner")
    /\ UNCHANGED st

(* Audio with no codec, too late to be played, or that cannot be decoded.       *)
SkipAudio ==
    /\ Decoding /\ entry.kind = "audio" /\ ~Decoded
    /\ codec # None => dbuf # NullBuffer
    /\ ReturnEntry /\ Goto("inner")
    /\ UNCHANGED <<flags, st, codec, dbuf>>

DecodeAudio ==
    /\ Decoding /\ entry.kind = "audio" /\ dbuf = EmptyBuffer /\ codec # None
    /\ dbuf' = entry.tag
    /\ ReturnEntry
    /\ st' = "SYNCHRONIZE_AUDIO" /\ Goto("inner")
    /\ UNCHANGED <<flags, codec>>

(* A codec without a buffer to decode into: a late chunk is skipped before      *)
(* the buffer is touched, any other dereferences null.                          *)
DecodeIntoNull ==
    /\ Decoding /\ entry.kind = "audio" /\ dbuf = NullBuffer /\ codec # None
    /\ \/ Goto("crashed") /\ UNCHANGED <<ring, lent, entry>>
       \/ Goto("inner") /\ ReturnEntry
    /\ UNCHANGED <<flags, st, codec, dbuf>>

(* handle_synchronize_audio(): the chunk is late as a whole and dropped, or     *)
(* there is something to send, silence or the audio.                            *)
SynchronizeAudio ==
    /\ Step("SYNCHRONIZE_AUDIO")
    /\ \/ st' = "LOAD_CHUNK" /\ dbuf' = EmptyBuffer
       \/ st' = "TRANSFER_AUDIO" /\ UNCHANGED dbuf
    /\ UNCHANGED <<flags, ring, lent, spc, entry, codec>>

(* handle_transfer_audio(): the audio has all been sent, or silence went out    *)
(* before it and it is synchronized again; until then the state is the same.    *)
TransferAudio ==
    /\ Step("TRANSFER_AUDIO")
    /\ \/ st' = "LOAD_CHUNK" /\ dbuf' = EmptyBuffer
       \/ st' = "SYNCHRONIZE_AUDIO" /\ UNCHANGED dbuf
    /\ UNCHANGED <<flags, ring, lent, spc, entry, codec>>

(* After the inner loop: the chunk on loan goes back.                           *)
Leave ==
    /\ spc = "leave"
    /\ ReturnEntry
    /\ Goto(IF "COMMAND_STOP" \in flags THEN "stopped" ELSE "top")
    /\ UNCHANGED <<flags, st, codec, dbuf>>

(* The end of the thread.  TASK_RUNNING is not cleared.                         *)
Stopped ==
    /\ spc = "stopped"
    /\ flags' = flags \cup {"TASK_STOPPED"}
    /\ Goto("done")
    /\ UNCHANGED <<ring, lent, st, entry, codec, dbuf>>

ThreadEntry ==
    \/ EnterIdle \/ WaitTest \/ WaitReceive \/ Woke \/ NoHeader \/ Drain
    \/ AckWait \/ Acked \/ Activate \/ SetRunning \/ DecodeFirstHeader
    \/ InnerLeave \/ DiscardEntry \/ Flush \/ Apply
    \/ InitialSync \/ LoadChunk \/ LoadReceive
    \/ DecodeMarker \/ DecodeNewHeader \/ SkipAudio \/ DecodeAudio
    \/ DecodeIntoNull \/ SynchronizeAudio \/ TransferAudio
    \/ Leave \/ Stopped

-----------------------------------------------------------------------------
(* The other threads.  signal_stream_end(), signal_stream_clear(),              *)
(* signal_stream_start() and the first half of stop() each set one bit.         *)
Signal(bit) ==
    /\ flags' = flags \cup {bit}
    /\ UNCHANGED <<ring, lent, svars>>

(* write_audio_chunk() when there is room.                                      *)
WriteChunk(chunk) ==
    /\ Len(ring) < RingCap
    /\ ring' = Append(ring, chunk)
    /\ UNCHANGED <<flags, lent, svars>>

Environment ==
    \/ \E bit \in Commands : Signal(bit)
    \/ \E chunk \in Chunk : WriteChunk(chunk)

Next == ThreadEntry \/ Environment

Spec == Init /\ [][Next]_vars

-----------------------------------------------------------------------------
(* What holds whatever the other threads do.                                    *)

(* The host ring buffer hands the same memory out again to a reader that        *)
(* receives twice, and a reader that forgets a chunk leaks its room for good.   *)
(* So: a chunk is on loan exactly while encoded_entry points at it, it is the   *)
(* oldest in the ring, and every receive and every reset_context() finds none   *)
(* on loan.                                                                     *)
BorrowDiscipline ==
    /\ lent <=> entry # NoChunk
    /\ lent => ring # <<>> /\ entry = Head(ring)
    /\ spc \in {"top", "wait", "recv", "noheader", "drain", "inner", "load", "flush", "apply"}
          => ~lent

(* decode_chunk() never meets a chunk while decoded audio is waiting (the       *)
(* audio would be sent with the timestamp of another chunk), across seeks and   *)
(* restarts: audio waits only in the states that send it or throw it away.      *)
DecodesIntoEmpty ==
    Decoded =>
        /\ spc \in {"inner", "flush", "apply", "leave", "top", "stopped", "done"}
        /\ spc = "inner" => st \in {"SYNCHRONIZE_AUDIO", "TRANSFER_AUDIO"}

(* is_running() answers TRUE while the thread is in its active state and FALSE  *)
(* from its entry into idle until it is active again; while it waits for a      *)
(* header or for the acknowledgement TASK_IDLE is set.                          *)
RunningBit ==
    /\ spc \in Active => "TASK_RUNNING" \in flags
    /\ spc \in Idling \ {"top"} => "TASK_RUNNING" \notin flags
    /\ spc \in Active \cup {"running"} => "TASK_IDLE" \notin flags
    /\ spc \in Idling \ {"top", "running"} => "TASK_IDLE" \in flags

(* A decoder that is set up has a buffer to decode into, as long as no          *)
(* allocation fails.                                                            *)
CodecHasBuffer ==
    ~AllocFails => (codec # None => dbuf # NullBuffer) /\ spc # "crashed"

(* What decode_chunk() meets is an allocated buffer with nothing in it, after   *)
(* every path through the loops (sync_task.cpp:677-700, 869-890).               *)
DecodeBufferReady == DecodesIntoEmpty /\ CodecHasBuffer

=============================================================================
