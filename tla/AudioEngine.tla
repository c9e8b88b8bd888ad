---------------------------- MODULE AudioEngine ----------------------------
(* The audio engine of the iOS application: the lock-free ring between the   *)
(* sync thread, which writes decoded samples, and the render callback of the *)
(* audio unit, which reads them; and the unit's life, which two threads      *)
(* drive: the main loop at the start and the end of a stream, and the sync   *)
(* thread when it writes to an engine that is not running.                   *)
(*                                                                           *)
(* Loads and stores of one atomic variable are steps of their own.  Copying  *)
(* is one step with the load before it.  A sample is the position it was     *)
(* written at.  Keep-alive is on, as it is unless the user turns it off.     *)
(*                                                                           *)
(* History variables: "output" is what a callback rendered last, "cleared"   *)
(* the position of the last clear, "raced" whether that clear met a callback *)
(* that was reading.                                                         *)
EXTENDS Integers, Sequences, FiniteSets

CONSTANTS
    Capacity,   \* capacity_, in frames
    Priming,    \* the frames of the jitter buffer
    Lengths,    \* the frames of a write
    Frames,     \* the frames that a callback asks for
    MaxWritten, \* bounds the frames written
    MaxRead,    \* bounds the frames read, which may be more than were written
    MaxStreams, \* bounds the streams
    MaxUnits,   \* bounds the audio units created
    InBand      \* whether a server changes the format within a stream

ASSUME AudioAssumption ==
    /\ Capacity \in Nat \ {0} /\ Priming \in Nat \ {0} /\ Frames \in Nat \ {0}
    /\ Lengths \subseteq 1..Capacity /\ InBand \in BOOLEAN
    /\ MaxWritten \in Nat /\ MaxRead \in Nat /\ MaxStreams \in Nat /\ MaxUnits \in Nat \ {0}

VARIABLES
    buffer, write_pos, read_pos, primed,
    audioUnit,   \* _audioUnit, 0 for NULL
    running,     \* the units whose output is started
    made,        \* the units created so far
    isRunning,
    starter,     \* where the main loop and the sync thread are in start()
    streaming,   \* the sync thread has a stream
    streams,
    writer, loop, render,
    output, cleared, raced

ringVars == <<buffer, write_pos, read_pos, primed>>
unitVars == <<audioUnit, running, made, isRunning, starter>>
streamVars == <<streaming, streams>>
history == <<output, cleared, raced>>
vars == <<ringVars, unitVars, streamVars, writer, loop, render, history>>

Units == 1..MaxUnits
Threads == {"loop", "sync"}
NoWrite == [pc |-> "idle", r |-> 0, w |-> 0, n |-> 0]
NoRead == [pc |-> "idle", w |-> 0, r |-> 0, n |-> 0]

Init ==
    /\ buffer = [i \in 0..Capacity - 1 |-> 0]
    /\ write_pos = 0 /\ read_pos = 0 /\ primed = FALSE
    /\ audioUnit = 1 /\ running = {1} /\ made = 1 /\ isRunning = TRUE
    /\ starter = [t \in Threads |-> "none"]
    /\ streaming = FALSE /\ streams = 0
    /\ writer = NoWrite
    /\ loop = [pc |-> "idle", w |-> 0]
    /\ render = [u \in Units |-> NoRead]
    /\ output = <<>> /\ cleared = 0 /\ raced = FALSE

Smaller(m, n) == IF m < n THEN m ELSE n

-----------------------------------------------------------------------------
(* The ring: write(), of the sync thread.                                    *)

WriteAudioData ==
    /\ writer.pc = "idle" /\ streaming /\ write_pos < MaxWritten
    /\ writer' = [writer EXCEPT !.pc = "write"]
    /\ starter' = [starter EXCEPT !["sync"] = IF isRunning THEN "none" ELSE "check"]
    /\ UNCHANGED <<ringVars, audioUnit, running, made, isRunning, streamVars, loop, render, history>>

(* The ring holds seconds: a callback that began is over before it is full.  *)
Timely(m) == (\E u \in Units : render[u].pc # "idle") => write_pos + m - read_pos < Capacity

(* A size_t: a negative difference is larger than anything asked for.        *)
AsSize(d) == IF d < 0 THEN Capacity + Frames + Priming ELSE d

(* Mutant: the writer fills one frame more than there is room for.           *)
RoomAndOne == AsSize(Capacity + 1 - (write_pos - read_pos))

Room == AsSize(Capacity - (write_pos - read_pos))

(* What fits is written; nothing when the ring is full.                      *)
Write(n) ==
    LET m == Smaller(n, Room) IN
    /\ writer.pc = "write" /\ starter["sync"] = "none"
    /\ Timely(m)
    /\ IF m = 0
       THEN /\ writer' = [writer EXCEPT !.pc = "idle"]
            /\ UNCHANGED buffer
       ELSE /\ writer' = [pc |-> "publish", r |-> read_pos, w |-> write_pos + m, n |-> m]
            /\ buffer' = [i \in DOMAIN buffer |->
                             IF \E k \in 1..m : (write_pos + k - 1) % Capacity = i
                             THEN CHOOSE p \in write_pos..(write_pos + m - 1) : p % Capacity = i
                             ELSE buffer[i]]
    /\ UNCHANGED <<write_pos, read_pos, primed, unitVars, streamVars, loop, render, history>>

(* Mutant: only what this write brought is compared with the buffer.         *)
EnoughAtOnce == writer.n >= Priming

(* The jitter buffer is full, by what the writer saw.                        *)
Enough == AsSize(writer.w - writer.r) >= Priming

Publish ==
    /\ writer.pc = "publish"
    /\ write_pos' = writer.w
    /\ writer' = [writer EXCEPT !.pc = "prime"]
    /\ UNCHANGED <<buffer, read_pos, primed, unitVars, streamVars, loop, render, history>>

Prime ==
    /\ writer.pc = "prime"
    /\ primed' = (primed \/ Enough)
    /\ writer' = NoWrite
    /\ UNCHANGED <<buffer, write_pos, read_pos, unitVars, streamVars, loop, render, history>>

-----------------------------------------------------------------------------
(* The ring: read(), of the render callback of a unit.                       *)

Render(u) ==
    /\ u \in running /\ render[u].pc = "idle" /\ primed /\ read_pos < MaxRead
    /\ render' = [render EXCEPT ![u].pc = "load"]
    /\ UNCHANGED <<ringVars, unitVars, streamVars, writer, loop, history>>

LoadWritePos(u) ==
    /\ render[u].pc = "load"
    /\ render' = [render EXCEPT ![u].pc = "copy", ![u].w = write_pos]
    /\ UNCHANGED <<ringVars, unitVars, streamVars, writer, loop, history>>

Available(u) == AsSize(render[u].w - read_pos)

ToRead(u) == Smaller(Frames, Available(u))

Copy(u) ==
    LET n == ToRead(u) IN
    /\ render[u].pc = "copy"
    /\ render' = [render EXCEPT ![u].pc = IF n = 0 THEN "dry" ELSE "store", ![u].r = read_pos, ![u].n = n]
    /\ output' = IF n = 0 THEN output ELSE [k \in 1..n |-> buffer[(read_pos + k - 1) % Capacity]]
    /\ UNCHANGED <<ringVars, unitVars, streamVars, writer, loop, cleared, raced>>

StoreReadPos(u) ==
    /\ render[u].pc = "store"
    /\ read_pos' = render[u].r + render[u].n
    /\ render' = [render EXCEPT ![u] = NoRead]
    /\ UNCHANGED <<buffer, write_pos, primed, unitVars, streamVars, writer, loop, history>>

RunDry(u) ==
    /\ render[u].pc = "dry"
    /\ primed' = FALSE
    /\ render' = [render EXCEPT ![u] = NoRead]
    /\ UNCHANGED <<buffer, write_pos, read_pos, unitVars, streamVars, writer, loop, history>>

-----------------------------------------------------------------------------
(* The ring: clear(), of the main loop, when the sync thread is idle.        *)

StreamEnd ==
    /\ loop.pc = "idle" /\ streaming /\ writer.pc = "idle"
    /\ streaming' = FALSE
    /\ loop' = [loop EXCEPT !.pc = "unprime"]
    /\ UNCHANGED <<ringVars, unitVars, streams, writer, render, history>>

Unprime ==
    /\ loop.pc = "unprime"
    /\ primed' = FALSE
    /\ loop' = [pc |-> "clear", w |-> write_pos]
    /\ UNCHANGED <<buffer, write_pos, read_pos, unitVars, streamVars, writer, render, history>>

(* Mutant: one frame survives the clear.                                     *)
ClearOneShort ==
    /\ loop.pc = "clear"
    /\ read_pos' = (IF loop.w > read_pos THEN loop.w - 1 ELSE loop.w)
    /\ cleared' = loop.w
    /\ raced' = \E u \in Units : render[u].pc # "idle"
    /\ loop' = [pc |-> "idle", w |-> 0]
    /\ UNCHANGED <<buffer, write_pos, primed, unitVars, streamVars, writer, render, output>>

Clear ==
    /\ loop.pc = "clear"
    /\ read_pos' = loop.w
    /\ cleared' = loop.w
    /\ raced' = \E u \in Units : render[u].pc # "idle"
    /\ loop' = [pc |-> "idle", w |-> 0]
    /\ UNCHANGED <<buffer, write_pos, primed, unitVars, streamVars, writer, render, output>>

-----------------------------------------------------------------------------
(* The unit: configureSampleRate, start and initAudioUnit.                   *)

(* on_stream_start(), with the format of before or another.                  *)
StreamStart(changed) ==
    /\ loop.pc = "idle" /\ streams < MaxStreams
    /\ streaming => InBand
    /\ streams' = streams + 1
    /\ loop' = [loop EXCEPT !.pc = IF changed \/ audioUnit = 0 THEN "dispose" ELSE "start"]
    /\ starter' = [starter EXCEPT !["loop"] = IF changed \/ audioUnit = 0 THEN "none" ELSE "check"]
    /\ UNCHANGED <<ringVars, audioUnit, running, made, isRunning, streaming, writer, render, history>>

(* AudioOutputUnitStop() waits for the callback to return.                   *)
Dispose ==
    /\ loop.pc = "dispose"
    /\ audioUnit # 0 => render[audioUnit].pc = "idle"
    /\ running' = running \ {audioUnit}
    /\ audioUnit' = 0
    /\ isRunning' = FALSE
    /\ loop' = [loop EXCEPT !.pc = "start"]
    /\ starter' = [starter EXCEPT !["loop"] = "init"]
    /\ UNCHANGED <<ringVars, made, streamVars, writer, render, history>>

(* start(): done if the engine runs.                                         *)
CheckRunning(t) ==
    /\ starter[t] = "check"
    /\ starter' = [starter EXCEPT ![t] = IF isRunning THEN "none" ELSE IF audioUnit = 0 THEN "init" ELSE "begin"]
    /\ UNCHANGED <<ringVars, audioUnit, running, made, isRunning, streamVars, writer, loop, render, history>>

(* The main loop creates the unit in configureSampleRate, and start() is to  *)
(* come; the sync thread creates it in start().                              *)
AfterInit(t) == IF t = "loop" THEN "check" ELSE "begin"

(* initAudioUnit: a thread that finds no unit creates one.                   *)
CheckUnit(t) ==
    /\ starter[t] = "init"
    /\ starter' = [starter EXCEPT ![t] = IF audioUnit = 0 THEN "create" ELSE AfterInit(t)]
    /\ UNCHANGED <<ringVars, audioUnit, running, made, isRunning, streamVars, writer, loop, render, history>>

(* AudioComponentInstanceNew() and what initialises the unit.                *)
Create(t) ==
    /\ starter[t] = "create" /\ made < MaxUnits
    /\ made' = made + 1 /\ audioUnit' = made + 1
    /\ starter' = [starter EXCEPT ![t] = AfterInit(t)]
    /\ UNCHANGED <<ringVars, running, isRunning, streamVars, writer, loop, render, history>>

(* Mutant: the unit is not started.                                          *)
BeginWithoutRunning(t) ==
    /\ starter[t] = "begin"
    /\ isRunning' = (isRunning \/ audioUnit # 0)
    /\ starter' = [starter EXCEPT ![t] = "none"]
    /\ UNCHANGED <<ringVars, audioUnit, running, made, streamVars, writer, loop, render, history>>

(* AudioOutputUnitStart() fails for NULL.                                    *)
Begin(t) ==
    /\ starter[t] = "begin"
    /\ running' = running \union ({audioUnit} \ {0})
    /\ isRunning' = (isRunning \/ audioUnit # 0)
    /\ starter' = [starter EXCEPT ![t] = "none"]
    /\ UNCHANGED <<ringVars, audioUnit, made, streamVars, writer, loop, render, history>>

(* signal_stream_start(): the sync thread may write.                         *)
SignalStreamStart ==
    /\ loop.pc = "start" /\ starter["loop"] = "none"
    /\ streaming' = TRUE
    /\ loop' = [loop EXCEPT !.pc = "idle"]
    /\ UNCHANGED <<ringVars, unitVars, streams, writer, render, history>>

-----------------------------------------------------------------------------

SyncStep == WriteAudioData \/ (\E n \in Lengths : Write(n)) \/ Publish \/ Prime
RenderStep(u) == Render(u) \/ LoadWritePos(u) \/ Copy(u) \/ StoreReadPos(u) \/ RunDry(u)
LoopStep == Unprime \/ Clear \/ Dispose \/ SignalStreamStart
StartStep(t) == CheckRunning(t) \/ CheckUnit(t) \/ Create(t) \/ Begin(t)

Next ==
    \/ SyncStep \/ LoopStep \/ StreamEnd
    \/ \E changed \in BOOLEAN : StreamStart(changed)
    \/ \E t \in Threads : StartStep(t)
    \/ \E u \in Units : RenderStep(u)

Spec == Init /\ [][Next]_vars

(* Every thread runs, and the callback of a running unit is called again and *)
(* again.                                                                    *)
FairSpec ==
    /\ Spec
    /\ WF_vars(SyncStep) /\ WF_vars(LoopStep)
    /\ \A t \in Threads : WF_vars(StartStep(t))
    /\ \A u \in Units : WF_vars(RenderStep(u))

-----------------------------------------------------------------------------
(* Properties.                                                               *)

(* Every variable has its type: AudioEngine.mm:98-117.                       *)
TypeOK ==
    /\ buffer \in [0..Capacity - 1 -> Nat]
    /\ write_pos \in Nat /\ read_pos \in Nat /\ primed \in BOOLEAN
    /\ audioUnit \in Units \union {0} /\ running \subseteq Units /\ made \in Units
    /\ isRunning \in BOOLEAN
    /\ starter \in [Threads -> {"none", "check", "init", "create", "begin"}]
    /\ streaming \in BOOLEAN /\ streams \in 0..MaxStreams
    /\ writer \in [pc : {"idle", "write", "publish", "prime"}, r : Nat, w : Nat, n : Nat]
    /\ loop \in [pc : {"idle", "unprime", "clear", "dispose", "start"}, w : Nat]
    /\ render \in [Units -> [pc : {"idle", "load", "copy", "store", "dry"}, w : Nat, r : Nat, n : 0..Frames]]
    /\ output \in Seq(Nat) /\ cleared \in Nat /\ raced \in BOOLEAN

(* A callback renders what follows on what was rendered last, in the order   *)
(* it was written, also around the end of the array and while write() fills  *)
(* the ring, and nothing that was cleared, unless the clear came while a     *)
(* callback was reading; the next clear that does not repairs that:          *)
(* AudioEngine.mm:31-91.                                                     *)
Rendered == \E u \in Units : render[u].pc = "copy" /\ render'[u].pc = "store"
Ordered(seq) == \A i, j \in DOMAIN seq : i < j => seq[i] < seq[j]
RenderedInOrder ==
    [][Rendered /\ ~raced => /\ Ordered(output') /\ Head(output') >= cleared
                            /\ \A i \in DOMAIN output : output[i] < Head(output')]_vars

(* Neither position overtakes the other, so that no difference of the two    *)
(* wraps around: AudioEngine.mm:37, 67.                                      *)
NeverOvertaken == ~raced => read_pos <= write_pos /\ write_pos - read_pos <= Capacity

PositionsHold == TypeOK /\ NeverOvertaken

(* AudioEngine.mm:25, README.md:17: a ring that needs no lock.  The position *)
(* of its consumer does not pass that of its producer.                       *)
ReaderStaysBehind == read_pos <= write_pos

(* A stream that goes on to write is heard: the ring is not left silent,     *)
(* full or not, unless a clear met a callback that was reading, whose late   *)
(* stores can leave it full and unprimed: AudioEngine.mm:51-53, 60-71.       *)
PrimingEnds ==
    streaming /\ ~primed ~> primed \/ ~streaming \/ raced \/ write_pos >= MaxWritten

(* When no thread is starting it, the engine that says it runs has its unit  *)
(* started: AudioEngine.mm:333-351.                                          *)
RunsItsUnit ==
    isRunning /\ (\A t \in Threads : starter[t] = "none") => running = {audioUnit}

(* AudioEngine.mm:25: one consumer.  No two units call back at a time.       *)
SingleConsumer == Cardinality(running) <= 1
=============================================================================
