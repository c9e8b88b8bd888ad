-------------------------- MODULE AudioEngineProofs --------------------------
(* What TLAPS proves of AudioEngine, for any capacity, jitter buffer, length *)
(* of writes and of reads, for servers that end a stream before they start   *)
(* the next (InBand = FALSE).                                                *)
(*                                                                           *)
(* The main loop and the sync thread then take turns, so one thread at a     *)
(* time starts the unit, one unit runs, and one callback reads.  What a      *)
(* callback or a write loaded stays true until it stores, because a clear is *)
(* the only other thread that moves the position of the reader.              *)
EXTENDS AudioEngine, TLAPS

(* The main loop works on the unit and the ring when no stream is written.   *)
Turns ==
    /\ loop.pc # "idle" => ~streaming
    /\ ~streaming => writer.pc = "idle"
    /\ writer.pc # "write" => starter["sync"] = "none"
    /\ starter["loop"] # "none" => loop.pc = "start"

(* The unit that runs is the one the engine has, and it alone calls back.    *)
OneUnit ==
    /\ running = IF isRunning THEN {audioUnit} ELSE {}
    /\ isRunning => audioUnit # 0
    /\ \A t \in Threads :
          /\ starter[t] \in {"init", "create", "begin"} => ~isRunning
          /\ starter[t] = "begin" => audioUnit # 0
    /\ \A u \in Units : render[u].pc # "idle" => u \in running

(* What a callback and a write loaded still holds when they store.           *)
Loaded ==
    /\ \A u \in Units :
          /\ render[u].pc = "copy" => read_pos <= render[u].w /\ render[u].w <= write_pos
          /\ render[u].pc = "store" => render[u].r = read_pos /\ render[u].r + render[u].n <= write_pos
    /\ writer.pc = "publish" => write_pos <= writer.w /\ writer.w - read_pos <= Capacity

RingHolds == ~raced => NeverOvertaken /\ Loaded

EngineInv ==
    /\ TypeOK /\ Turns /\ OneUnit /\ RingHolds
    /\ loop.pc = "clear" => loop.w = write_pos

-----------------------------------------------------------------------------
(* The ring's arithmetic.                                                    *)

LEMMA AsSizeIsNat ==
    ASSUME NEW d \in Int
    PROVE  AsSize(d) \in Nat /\ (d >= 0 => AsSize(d) = d)
BY AudioAssumption DEF AsSize

LEMMA SmallerIsLeast ==
    ASSUME NEW m \in Nat, NEW n \in Nat
    PROVE  /\ Smaller(m, n) \in Nat /\ Smaller(m, n) <= m /\ Smaller(m, n) <= n
           /\ Smaller(m, n) = m \/ Smaller(m, n) = n
BY DEF Smaller

(* A position has a place in the array.                                      *)
LEMMA PlaceInBuffer ==
    ASSUME NEW p \in Nat
    PROVE  p % Capacity \in 0..Capacity - 1
BY AudioAssumption

-----------------------------------------------------------------------------
(* Types.                                                                    *)

ReadState == [pc : {"idle", "load", "copy", "store", "dry"}, w : Nat, r : Nat, n : 0..Frames]

LEMMA ReadStateNumbers ==
    ASSUME TypeOK, NEW u \in Units
    PROVE  /\ render[u].w \in Nat /\ render[u].r \in Nat /\ render[u].n \in Nat
           /\ write_pos \in Nat /\ read_pos \in Nat /\ Capacity \in Nat /\ Frames \in Nat
           /\ writer.w \in Nat /\ writer.r \in Nat /\ writer.n \in Nat
<1>1. render[u] \in ReadState
  BY DEF TypeOK, ReadState
<1>2. render[u].w \in Nat /\ render[u].r \in Nat /\ render[u].n \in 0..Frames
  BY <1>1 DEF ReadState
<1>3. writer.w \in Nat /\ writer.r \in Nat /\ writer.n \in Nat
  BY DEF TypeOK
<1>4. Frames \in Nat /\ Capacity \in Nat /\ write_pos \in Nat /\ read_pos \in Nat
  BY AudioAssumption DEF TypeOK
<1> QED
  BY <1>2, <1>3, <1>4

LEMMA NoReadState ==
    NoRead \in ReadState
BY AudioAssumption DEF NoRead, ReadState

LEMMA TypeOKInit ==
    Init => TypeOK
<1> SUFFICES ASSUME Init PROVE TypeOK
  OBVIOUS
<1>1. 1 \in Units /\ output \in Seq(Nat)
  BY AudioAssumption DEF Init, Units
<1> QED
  BY <1>1, AudioAssumption DEF Init, TypeOK, NoWrite, NoRead

LEMMA TypeOKSync ==
    ASSUME TypeOK, SyncStep
    PROVE  TypeOK'
<1>1. CASE WriteAudioData
  BY <1>1 DEF TypeOK, WriteAudioData, ringVars, streamVars, history, Threads
<1>2. CASE Publish
  BY <1>2 DEF TypeOK, Publish, unitVars, streamVars, history
<1>3. CASE Prime
  BY <1>3 DEF TypeOK, Prime, unitVars, streamVars, history, NoWrite
<1>4. ASSUME NEW n \in Lengths, Write(n)
      PROVE  TypeOK'
  <2> DEFINE m == Smaller(n, Room)
  <2>1. n \in Nat /\ Room \in Nat
    <3>1. Capacity - (write_pos - read_pos) \in Int /\ n \in 1..Capacity
      BY AudioAssumption DEF TypeOK
    <3> QED
      BY <3>1, AsSizeIsNat DEF Room
  <2>2. m \in Nat
    BY <2>1, SmallerIsLeast
  <2>3. UNCHANGED <<write_pos, read_pos, primed, unitVars, streamVars, loop, render, history>>
    BY <1>4 DEF Write
  <2>4. CASE m = 0
    BY <1>4, <2>3, <2>4 DEF TypeOK, Write, unitVars, streamVars, history
  <2>5. CASE m # 0
    <3>1. writer' = [pc |-> "publish", r |-> read_pos, w |-> write_pos + m, n |-> m]
      BY <1>4, <2>5 DEF Write
    <3>2. buffer' = [i \in DOMAIN buffer |->
                        IF \E k \in 1..m : (write_pos + k - 1) % Capacity = i
                        THEN CHOOSE p \in write_pos..(write_pos + m - 1) : p % Capacity = i
                        ELSE buffer[i]]
      BY <1>4, <2>5 DEF Write
    <3>3. ASSUME NEW i \in 0..Capacity - 1, NEW k \in 1..m, (write_pos + k - 1) % Capacity = i
          PROVE  (CHOOSE p \in write_pos..(write_pos + m - 1) : p % Capacity = i) \in Nat
      <4>1. write_pos + k - 1 \in write_pos..(write_pos + m - 1) /\ write_pos \in Nat
        BY <2>2 DEF TypeOK
      <4>2. \E p \in write_pos..(write_pos + m - 1) : p % Capacity = i
        BY <3>3, <4>1
      <4> DEFINE q == CHOOSE p \in write_pos..(write_pos + m - 1) : p % Capacity = i
      <4>3. q \in write_pos..(write_pos + m - 1)
        BY <4>2
      <4> QED
        BY <2>2, <4>1, <4>3
    <3>4. DOMAIN buffer = 0..Capacity - 1 /\ \A i \in 0..Capacity - 1 : buffer[i] \in Nat
      BY DEF TypeOK
    <3>5. buffer' \in [0..Capacity - 1 -> Nat]
      BY <3>2, <3>3, <3>4
    <3>6. writer' \in [pc : {"idle", "write", "publish", "prime"}, r : Nat, w : Nat, n : Nat]
      BY <2>2, <3>1 DEF TypeOK
    <3> QED
      BY <2>3, <3>5, <3>6 DEF TypeOK, unitVars, streamVars, history
  <2> QED
    BY <2>4, <2>5
<1> QED
  BY <1>1, <1>2, <1>3, <1>4 DEF SyncStep

LEMMA TypeOKRender ==
    ASSUME TypeOK, NEW u \in Units, RenderStep(u)
    PROVE  TypeOK'
<1>1. CASE Render(u)
  <2>1. render' \in [Units -> ReadState]
    BY <1>1 DEF TypeOK, Render, ReadState
  <2> QED
    BY <1>1, <2>1 DEF TypeOK, ReadState, Render, ringVars, unitVars, streamVars, history
<1>2. CASE LoadWritePos(u)
  <2>1. render' \in [Units -> ReadState]
    BY <1>2 DEF TypeOK, LoadWritePos, ReadState
  <2> QED
    BY <1>2, <2>1 DEF TypeOK, ReadState, LoadWritePos, ringVars, unitVars, streamVars, history
<1>3. CASE StoreReadPos(u)
  <2>1. render' \in [Units -> ReadState]
    BY <1>3, NoReadState DEF TypeOK, StoreReadPos, ReadState
  <2>2. read_pos' \in Nat
    BY <1>3 DEF TypeOK, StoreReadPos
  <2> QED
    BY <1>3, <2>1, <2>2 DEF TypeOK, ReadState, StoreReadPos, unitVars, streamVars, history
<1>4. CASE RunDry(u)
  <2>1. render' \in [Units -> ReadState]
    BY <1>4, NoReadState DEF TypeOK, RunDry, ReadState
  <2> QED
    BY <1>4, <2>1 DEF TypeOK, ReadState, RunDry, unitVars, streamVars, history
<1>5. CASE Copy(u)
  <2> DEFINE n == ToRead(u)
  <2>1. read_pos \in Nat /\ render[u].w \in Nat /\ Frames \in Nat
    BY AudioAssumption DEF TypeOK
  <2>2. n \in Nat /\ n <= Frames
    BY <2>1, AsSizeIsNat, SmallerIsLeast DEF ToRead, Available
  <2>3. /\ render' = [render EXCEPT ![u].pc = IF n = 0 THEN "dry" ELSE "store", ![u].r = read_pos, ![u].n = n]
        /\ output' = IF n = 0 THEN output ELSE [k \in 1..n |-> buffer[(read_pos + k - 1) % Capacity]]
        /\ UNCHANGED <<ringVars, unitVars, streamVars, writer, loop, cleared, raced>>
    BY <1>5 DEF Copy
  <2>4. \A k \in 1..n : buffer[(read_pos + k - 1) % Capacity] \in Nat
    <3> TAKE k \in 1..n
    <3>1. read_pos + k - 1 \in Nat
      BY <2>1, <2>2
    <3> QED
      BY <3>1, PlaceInBuffer DEF TypeOK
  <2> HIDE DEF n
  <2>5. output' \in Seq(Nat)
    <3>1. [k \in 1..n |-> buffer[(read_pos + k - 1) % Capacity]] \in Seq(Nat)
      BY <2>2, <2>4
    <3> QED
      BY <2>3, <3>1 DEF TypeOK
  <2>6. render' \in [Units -> ReadState]
    <3>1. n \in 0..Frames /\ render \in [Units -> ReadState]
      BY <2>1, <2>2 DEF TypeOK, ReadState
    <3>2. [render[u] EXCEPT !.pc = IF n = 0 THEN "dry" ELSE "store", !.r = read_pos, !.n = n] \in ReadState
      BY <2>1, <3>1 DEF ReadState
    <3>3. render' = [render EXCEPT ![u] =
                       [render[u] EXCEPT !.pc = IF n = 0 THEN "dry" ELSE "store", !.r = read_pos, !.n = n]]
      BY <2>3, <3>1 DEF ReadState
    <3> QED
      BY <3>1, <3>2, <3>3
  <2> QED
    BY <2>3, <2>5, <2>6 DEF TypeOK, ReadState, ringVars, unitVars, streamVars
<1> QED
  BY <1>1, <1>2, <1>3, <1>4, <1>5 DEF RenderStep

LEMMA TypeOKLoop ==
    ASSUME TypeOK, LoopStep \/ StreamEnd \/ (\E changed \in BOOLEAN : StreamStart(changed))
    PROVE  TypeOK'
<1>1. CASE Unprime
  BY <1>1 DEF TypeOK, Unprime, unitVars, streamVars, history
<1>2. CASE Clear
  BY <1>2 DEF TypeOK, Clear, unitVars, streamVars
<1>3. CASE Dispose
  BY <1>3 DEF TypeOK, Dispose, ringVars, streamVars, history, Threads
<1>4. CASE SignalStreamStart
  BY <1>4 DEF TypeOK, SignalStreamStart, ringVars, unitVars, history
<1>5. CASE StreamEnd
  BY <1>5 DEF TypeOK, StreamEnd, ringVars, unitVars, history
<1>6. ASSUME NEW changed \in BOOLEAN, StreamStart(changed)
      PROVE  TypeOK'
  <2>1. streams' \in 0..MaxStreams
    <3>1. streams' = streams + 1 /\ streams < MaxStreams
      BY <1>6 DEF StreamStart
    <3> QED
      BY <3>1, AudioAssumption DEF TypeOK
  <2>2. loop' \in [pc : {"idle", "unprime", "clear", "dispose", "start"}, w : Nat]
    BY <1>6 DEF TypeOK, StreamStart
  <2>3. starter' \in [Threads -> {"none", "check", "init", "create", "begin"}]
    BY <1>6 DEF TypeOK, StreamStart, Threads
  <2> QED
    BY <1>6, <2>1, <2>2, <2>3 DEF TypeOK, StreamStart, ringVars, history
<1> QED
  BY <1>1, <1>2, <1>3, <1>4, <1>5, <1>6 DEF LoopStep

LEMMA TypeOKStart ==
    ASSUME TypeOK, NEW t \in Threads, StartStep(t)
    PROVE  TypeOK'
<1>1. CASE CheckRunning(t)
  BY <1>1 DEF TypeOK, CheckRunning, ringVars, streamVars, history
<1>2. CASE CheckUnit(t)
  BY <1>2 DEF TypeOK, CheckUnit, AfterInit, ringVars, streamVars, history
<1>3. CASE Create(t)
  <2>1. made' \in Units /\ audioUnit' \in Units \union {0}
    BY <1>3, AudioAssumption DEF TypeOK, Create, Units
  <2>2. starter' \in [Threads -> {"none", "check", "init", "create", "begin"}]
    BY <1>3 DEF TypeOK, Create, AfterInit
  <2> QED
    BY <1>3, <2>1, <2>2 DEF TypeOK, Create, ringVars, streamVars, history
<1>4. CASE Begin(t)
  BY <1>4 DEF TypeOK, Begin, ringVars, streamVars, history
<1> QED
  BY <1>1, <1>2, <1>3, <1>4 DEF StartStep

LEMMA TypeOKNext ==
    TypeOK /\ [Next]_vars => TypeOK'
<1> SUFFICES ASSUME TypeOK, [Next]_vars PROVE TypeOK'
  OBVIOUS
<1>1. CASE UNCHANGED vars
  BY <1>1 DEF TypeOK, vars, ringVars, unitVars, streamVars, history
<1> QED
  BY <1>1, TypeOKSync, TypeOKRender, TypeOKLoop, TypeOKStart DEF Next

-----------------------------------------------------------------------------
(* Who does what.                                                            *)

(* The parts of the invariant that a step of the ring leaves alone.          *)
LEMMA RenderKeepsTurns ==
    ASSUME Turns, NEW u \in Units, RenderStep(u)
    PROVE  Turns'
<1>1. UNCHANGED <<loop, streaming, writer, starter>>
  BY DEF RenderStep, Render, LoadWritePos, Copy, StoreReadPos, RunDry, unitVars, streamVars
<1> QED
  BY <1>1 DEF Turns

LEMMA TurnsStep ==
    ASSUME TypeOK, ~InBand, Turns, Next
    PROVE  Turns'
<1>1. CASE WriteAudioData
  BY <1>1 DEF Turns, TypeOK, Threads, WriteAudioData, streamVars
<1>2. ASSUME NEW n \in Lengths, Write(n)
      PROVE  Turns'
  <2>1. UNCHANGED <<loop, streaming, starter>> /\ writer.pc = "write" /\ starter["sync"] = "none"
    BY <1>2 DEF Write, unitVars, streamVars
  <2>2. streaming
    BY <2>1 DEF Turns
  <2> QED
    BY <2>1, <2>2 DEF Turns
<1>3. CASE Publish
  BY <1>3 DEF Turns, TypeOK, Publish, unitVars, streamVars
<1>4. CASE Prime
  <2>1. UNCHANGED <<loop, streaming, starter>> /\ writer.pc = "prime" /\ writer'.pc = "idle"
    BY <1>4 DEF Prime, NoWrite, unitVars, streamVars
  <2> QED
    BY <2>1 DEF Turns
<1>5. CASE Unprime
  BY <1>5 DEF Turns, TypeOK, Unprime, unitVars, streamVars
<1>6. CASE Clear
  BY <1>6 DEF Turns, TypeOK, Clear, unitVars, streamVars
<1>7. CASE Dispose
  BY <1>7 DEF Turns, TypeOK, Threads, Dispose, streamVars
<1>8. CASE SignalStreamStart
  BY <1>8 DEF Turns, TypeOK, SignalStreamStart, unitVars
<1>9. CASE StreamEnd
  BY <1>9 DEF Turns, TypeOK, StreamEnd, unitVars
<1>10. ASSUME NEW changed \in BOOLEAN, StreamStart(changed)
       PROVE  Turns'
  BY <1>10 DEF Turns, TypeOK, Threads, StreamStart
<1>11. ASSUME NEW t \in Threads, StartStep(t)
       PROVE  Turns'
  <2>1. UNCHANGED <<loop, streaming, writer>> /\ starter[t] # "none"
    BY <1>11 DEF StartStep, CheckRunning, CheckUnit, Create, Begin, streamVars
  <2>2. \A s \in Threads : s # t => starter'[s] = starter[s]
    BY <1>11 DEF TypeOK, StartStep, CheckRunning, CheckUnit, Create, Begin
  <2> QED
    BY <2>1, <2>2 DEF Turns, Threads
<1> QED
  BY <1>1, <1>2, <1>3, <1>4, <1>5, <1>6, <1>7, <1>8, <1>9, <1>10, <1>11, RenderKeepsTurns
  DEF Next, SyncStep, LoopStep

(* One thread at a time starts the unit, so none is started beside another,  *)
(* and none is disposed of that a callback still runs for.                   *)
LEMMA OneUnitStep ==
    ASSUME TypeOK, ~InBand, Turns, OneUnit, Next
    PROVE  OneUnit'
<1>1. CASE SyncStep
  <2>1. /\ UNCHANGED <<running, isRunning, audioUnit, render>>
        /\ \A t \in Threads : starter'[t] = starter[t] \/ starter'[t] \in {"none", "check"}
    BY <1>1 DEF TypeOK, SyncStep, WriteAudioData, Write, Publish, Prime, unitVars, Threads
  <2> QED
    BY <2>1 DEF OneUnit
<1>2. CASE Unprime \/ Clear \/ SignalStreamStart \/ StreamEnd
  <2>1. UNCHANGED <<running, isRunning, audioUnit, render, starter>>
    BY <1>2 DEF Unprime, Clear, SignalStreamStart, StreamEnd, unitVars
  <2> QED
    BY <2>1 DEF OneUnit
<1>3. CASE Dispose
  <2>1. /\ running' = {} /\ audioUnit' = 0 /\ isRunning' = FALSE /\ render' = render
        /\ starter' = [starter EXCEPT !["loop"] = "init"]
        /\ \A u \in Units : render[u].pc = "idle"
    BY <1>3 DEF OneUnit, Dispose
  <2>2. starter["sync"] = "none"
    BY <1>3 DEF Turns, Dispose
  <2>3. \A t \in Threads : starter'[t] \in {"none", "init"}
    BY <2>1, <2>2 DEF TypeOK, Threads
  <2> QED
    BY <2>1, <2>3 DEF OneUnit
<1>4. ASSUME NEW changed \in BOOLEAN, StreamStart(changed)
      PROVE  OneUnit'
  <2>1. /\ UNCHANGED <<running, isRunning, audioUnit, render>>
        /\ \A t \in Threads : starter'[t] = starter[t] \/ starter'[t] \in {"none", "check"}
    BY <1>4 DEF TypeOK, StreamStart, Threads
  <2> QED
    BY <2>1 DEF OneUnit
<1>5. ASSUME NEW t \in Threads, StartStep(t)
      PROVE  OneUnit'
  <2>1. starter[t] # "none" /\ \A s \in Threads : s # t => starter[s] = "none" /\ starter'[s] = "none"
    BY <1>5 DEF TypeOK, Turns, Threads, StartStep, CheckRunning, CheckUnit, Create, Begin
  <2>2. render' = render
    BY <1>5 DEF StartStep, CheckRunning, CheckUnit, Create, Begin
  <2>3. CASE CheckRunning(t)
    BY <2>1, <2>2, <2>3 DEF TypeOK, OneUnit, CheckRunning
  <2>4. CASE CheckUnit(t)
    BY <2>1, <2>2, <2>4 DEF TypeOK, OneUnit, CheckUnit, AfterInit
  <2>5. CASE Create(t)
    BY <2>1, <2>2, <2>5 DEF TypeOK, OneUnit, Create, AfterInit, Units
  <2>6. CASE Begin(t)
    <3>1. audioUnit # 0 /\ running = {} /\ ~isRunning
      BY <2>6 DEF OneUnit, Begin
    <3>2. running' = {audioUnit} /\ isRunning' = TRUE /\ audioUnit' = audioUnit /\ starter'[t] = "none"
      BY <2>6, <3>1 DEF TypeOK, Begin
    <3> QED
      BY <2>1, <2>2, <3>1, <3>2 DEF OneUnit
  <2> QED
    BY <1>5, <2>3, <2>4, <2>5, <2>6 DEF StartStep
<1>6. ASSUME NEW u \in Units, RenderStep(u)
      PROVE  OneUnit'
  <2>1. UNCHANGED <<running, isRunning, audioUnit, starter>>
    BY <1>6 DEF RenderStep, Render, LoadWritePos, Copy, StoreReadPos, RunDry, unitVars
  <2>2. u \in running
    BY <1>6 DEF OneUnit, RenderStep, Render, LoadWritePos, Copy, StoreReadPos, RunDry
  <2>3. \A v \in Units : v # u => render'[v] = render[v]
    BY <1>6 DEF TypeOK, RenderStep, Render, LoadWritePos, Copy, StoreReadPos, RunDry
  <2> QED
    BY <2>1, <2>2, <2>3 DEF OneUnit
<1> QED
  BY <1>1, <1>2, <1>3, <1>4, <1>5, <1>6 DEF Next, LoopStep

(* Only one callback reads.                                                  *)
LEMMA OneReader ==
    ASSUME TypeOK, OneUnit, NEW u \in Units, NEW v \in Units,
           render[u].pc # "idle", render[v].pc # "idle"
    PROVE  u = v
BY DEF OneUnit

-----------------------------------------------------------------------------
(* The positions.                                                            *)

LEMMA SyncKeepsRing ==
    ASSUME TypeOK, RingHolds, SyncStep
    PROVE  RingHolds'
<1> SUFFICES ASSUME ~raced PROVE NeverOvertaken' /\ Loaded'
  BY DEF RingHolds, SyncStep, WriteAudioData, Write, Publish, Prime, history
<1>1. NeverOvertaken /\ Loaded /\ raced' = raced /\ render' = render /\ read_pos' = read_pos
  BY DEF RingHolds, SyncStep, WriteAudioData, Write, Publish, Prime, history, ringVars
<1>2. CASE WriteAudioData \/ Prime
  <2>1. write_pos' = write_pos /\ writer'.pc # "publish"
    BY <1>2 DEF TypeOK, WriteAudioData, Prime, NoWrite, ringVars
  <2> QED
    BY <1>1, <2>1 DEF NeverOvertaken, Loaded
<1>3. ASSUME NEW n \in Lengths, Write(n)
      PROVE  NeverOvertaken' /\ Loaded'
  <2> DEFINE m == Smaller(n, Room)
  <2>1. write_pos \in Nat /\ read_pos \in Nat /\ Capacity \in Nat /\ n \in Nat
    BY AudioAssumption DEF TypeOK
  <2>2. Room = Capacity - (write_pos - read_pos) /\ Room \in Nat
    BY <1>1, <2>1, AsSizeIsNat DEF NeverOvertaken, Room
  <2>3. m \in Nat /\ m <= Room
    BY <2>1, <2>2, SmallerIsLeast
  <2>4. write_pos' = write_pos
    BY <1>3 DEF Write
  <2>5. writer'.pc = "publish" => writer'.w = write_pos + m
    BY <1>3 DEF TypeOK, Write
  <2> HIDE DEF m
  <2> QED
    BY <1>1, <2>1, <2>2, <2>3, <2>4, <2>5 DEF NeverOvertaken, Loaded
<1>4. CASE Publish
  <2>1. /\ write_pos' = writer.w /\ writer'.pc = "prime"
        /\ write_pos <= writer.w /\ writer.w - read_pos <= Capacity
    BY <1>1, <1>4 DEF TypeOK, Publish, Loaded
  <2>2. write_pos \in Nat /\ read_pos \in Nat /\ Capacity \in Nat /\ writer.w \in Nat
    BY AudioAssumption DEF TypeOK
  <2>3. \A u \in Units : render[u].w \in Nat /\ render[u].r \in Nat /\ render[u].n \in Nat
    BY ReadStateNumbers
  <2> QED
    BY <1>1, <2>1, <2>2, <2>3 DEF NeverOvertaken, Loaded
<1> QED
  BY <1>2, <1>3, <1>4 DEF SyncStep

LEMMA RenderKeepsRing ==
    ASSUME TypeOK, OneUnit, RingHolds, NEW u \in Units, RenderStep(u)
    PROVE  RingHolds'
<1> SUFFICES ASSUME ~raced PROVE NeverOvertaken' /\ Loaded'
  BY DEF RingHolds, RenderStep, Render, LoadWritePos, Copy, StoreReadPos, RunDry, history
<1>1. NeverOvertaken /\ Loaded /\ raced' = raced /\ write_pos' = write_pos /\ writer' = writer
  BY DEF RingHolds, RenderStep, Render, LoadWritePos, Copy, StoreReadPos, RunDry, history, ringVars
<1>2. /\ write_pos \in Nat /\ read_pos \in Nat /\ Capacity \in Nat /\ Frames \in Nat
      /\ writer.w \in Nat /\ render[u].w \in Nat /\ render[u].r \in Nat /\ render[u].n \in Nat
  BY ReadStateNumbers
<1>3. \A v \in Units : v # u => render'[v] = render[v]
  BY DEF TypeOK, RenderStep, Render, LoadWritePos, Copy, StoreReadPos, RunDry
<1>4. CASE Render(u) \/ RunDry(u)
  <2>1. render'[u].pc \in {"idle", "load"} /\ read_pos' = read_pos
    BY <1>4 DEF TypeOK, Render, RunDry, NoRead, ringVars
  <2> QED
    BY <1>1, <1>3, <2>1 DEF NeverOvertaken, Loaded
<1>5. CASE LoadWritePos(u)
  <2>1. render'[u].pc = "copy" /\ render'[u].w = write_pos /\ read_pos' = read_pos
    BY <1>5 DEF TypeOK, LoadWritePos, ringVars
  <2> QED
    BY <1>1, <1>2, <1>3, <2>1 DEF NeverOvertaken, Loaded
<1>6. CASE Copy(u)
  <2> DEFINE n == ToRead(u)
  <2>1. read_pos <= render[u].w /\ render[u].w <= write_pos
    BY <1>1, <1>6 DEF Loaded, Copy
  <2>2. Available(u) = render[u].w - read_pos /\ Available(u) \in Nat
    BY <1>2, <2>1, AsSizeIsNat DEF Available
  <2>3. n \in Nat /\ n <= Available(u)
    BY <1>2, <2>2, SmallerIsLeast DEF ToRead
  <2>4. /\ render'[u].pc = IF n = 0 THEN "dry" ELSE "store"
        /\ render'[u].r = read_pos /\ render'[u].n = n /\ read_pos' = read_pos
    BY <1>6 DEF TypeOK, Copy, ringVars
  <2> HIDE DEF n
  <2> QED
    BY <1>1, <1>2, <1>3, <2>1, <2>2, <2>3, <2>4 DEF NeverOvertaken, Loaded
<1>7. CASE StoreReadPos(u)
  <2>1. render[u].pc = "store" /\ read_pos' = render[u].r + render[u].n /\ render'[u].pc = "idle"
    BY <1>7 DEF TypeOK, StoreReadPos, NoRead
  <2>2. render[u].r = read_pos /\ render[u].r + render[u].n <= write_pos
    BY <1>1, <2>1 DEF Loaded
  <2>3. \A v \in Units : render'[v].pc = "idle"
    BY <1>3, <2>1, OneReader
  <2> QED
    BY <1>1, <1>2, <2>1, <2>2, <2>3 DEF NeverOvertaken, Loaded
<1> QED
  BY <1>4, <1>5, <1>6, <1>7 DEF RenderStep

(* A clear that meets no callback brings the positions together.             *)
LEMMA ClearKeepsRing ==
    ASSUME TypeOK, Turns, Clear, loop.w = write_pos
    PROVE  RingHolds'
<1> SUFFICES ASSUME ~raced' PROVE NeverOvertaken' /\ Loaded'
  BY DEF RingHolds
<1>1. /\ read_pos' = write_pos /\ write_pos' = write_pos /\ writer' = writer /\ render' = render
      /\ \A u \in Units : render[u].pc = "idle"
  BY DEF Clear
<1>2. writer.pc = "idle"
  BY DEF Turns, Clear
<1>3. write_pos \in Nat /\ Capacity \in Nat
  BY AudioAssumption DEF TypeOK
<1> QED
  BY <1>1, <1>2, <1>3 DEF NeverOvertaken, Loaded

LEMMA EngineInvNext ==
    ASSUME ~InBand, EngineInv, [Next]_vars
    PROVE  EngineInv'
<1> USE DEF EngineInv
<1>1. CASE UNCHANGED vars
  BY <1>1, TypeOKNext DEF vars, ringVars, unitVars, streamVars, history, Turns, OneUnit, RingHolds,
                          NeverOvertaken, Loaded
<1>2. CASE Next
  <2>1. TypeOK' /\ Turns' /\ OneUnit'
    BY <1>2, TypeOKNext, TurnsStep, OneUnitStep
  <2>2. CASE SyncStep
    <3>1. writer.pc # "idle" \/ streaming
      BY <2>2 DEF SyncStep, WriteAudioData, Write, Publish, Prime
    <3>2. loop.pc = "idle" /\ loop' = loop
      BY <2>2, <3>1 DEF Turns, SyncStep, WriteAudioData, Write, Publish, Prime
    <3> QED
      BY <2>1, <2>2, <3>2, SyncKeepsRing
  <2>3. ASSUME NEW u \in Units, RenderStep(u)
        PROVE  EngineInv'
    <3>1. UNCHANGED <<loop, write_pos>>
      BY <2>3 DEF RenderStep, Render, LoadWritePos, Copy, StoreReadPos, RunDry, ringVars
    <3> QED
      BY <2>1, <2>3, <3>1, RenderKeepsRing
  <2>4. CASE Clear
    <3>1. loop'.pc = "idle" /\ loop.pc = "clear"
      BY <2>4 DEF Clear
    <3> QED
      BY <2>1, <2>4, <3>1, ClearKeepsRing
  <2>5. CASE \/ Unprime \/ Dispose \/ SignalStreamStart \/ StreamEnd
             \/ \E changed \in BOOLEAN : StreamStart(changed)
             \/ \E t \in Threads : StartStep(t)
    <3>1. UNCHANGED <<write_pos, read_pos, writer, render, raced>>
      BY <2>5 DEF Unprime, Dispose, SignalStreamStart, StreamEnd, StreamStart, StartStep, CheckRunning,
                  CheckUnit, Create, Begin, ringVars, history
    <3>2. loop'.pc = "clear" => loop'.w = write_pos
      BY <2>5 DEF TypeOK, Unprime, Dispose, SignalStreamStart, StreamEnd, StreamStart, StartStep,
                  CheckRunning, CheckUnit, Create, Begin
    <3>3. RingHolds'
      BY <3>1 DEF RingHolds, NeverOvertaken, Loaded
    <3> QED
      BY <2>1, <3>1, <3>2, <3>3
  <2> QED
    BY <1>2, <2>2, <2>3, <2>4, <2>5 DEF Next, LoopStep
<1> QED
  BY <1>1, <1>2

LEMMA EngineInvInit ==
    Init => EngineInv
<1> SUFFICES ASSUME Init PROVE EngineInv
  OBVIOUS
<1> QED
  BY TypeOKInit, AudioAssumption DEF Init, EngineInv, Turns, OneUnit, RingHolds, NeverOvertaken, Loaded,
      NoWrite, NoRead, Threads

-----------------------------------------------------------------------------
(* The theorems.                                                             *)

(* The invariant of the engine and its ring.                                 *)
THEOREM AudioEngineInvariant ==
    ASSUME ~InBand
    PROVE  Spec => []EngineInv
BY EngineInvInit, EngineInvNext, PTL DEF Spec

(* However the writes, the callbacks and the clears interleave, neither      *)
(* position of the ring overtakes the other, until a clear meets a callback  *)
(* that reads: AudioEngine.mm:31-91.                                         *)
THEOREM AudioEnginePositions ==
    ASSUME ~InBand
    PROVE  Spec => []PositionsHold
<1>1. EngineInv => PositionsHold
  BY DEF EngineInv, RingHolds, PositionsHold, NeverOvertaken
<1> QED
  BY <1>1, AudioEngineInvariant, PTL

(* The engine that says it runs has its one unit started, whichever of the   *)
(* two threads started it: AudioEngine.mm:333-351.                           *)
THEOREM AudioEngineRunsItsUnit ==
    ASSUME ~InBand
    PROVE  Spec => []RunsItsUnit
<1>1. EngineInv => RunsItsUnit
  BY DEF EngineInv, OneUnit, RunsItsUnit
<1> QED
  BY <1>1, AudioEngineInvariant, PTL

-----------------------------------------------------------------------------
(* What is heard.                                                            *)

(* The end of what the array holds, published or not.                        *)
Top == IF writer.pc = "publish" THEN writer.w ELSE write_pos

(* Nothing is read or primed before something was written.                   *)
Sounded ==
    /\ writer.pc = "publish" => write_pos < writer.w
    /\ primed \/ writer.pc = "prime" \/ output # <<>> => write_pos > 0
    /\ \A u \in Units : render[u].pc # "idle" => write_pos > 0

(* Every sample was written, but the zeros that the array begins with.       *)
Written ==
    /\ \A i \in 0..Capacity - 1 : buffer[i] = 0 \/ buffer[i] < Top
    /\ \A k \in 1..Len(output) : output[k] = 0 \/ output[k] < Top

(* What was not read yet is in its place.                                    *)
InPlace == \A p \in Nat : read_pos <= p /\ p < Top => buffer[p % Capacity] = p

(* What was rendered lies behind the reader, or is about to.                 *)
Behind ==
    \A k \in 1..Len(output) :
        \/ output[k] < read_pos
        \/ \E u \in Units : render[u].pc = "store" /\ output[k] < render[u].r + render[u].n

OrderInv ==
    /\ Sounded /\ Written
    /\ ~raced => InPlace /\ Behind /\ cleared <= read_pos

(* Multiples of a number lie that number apart.                              *)
LEMMA MultiplesApart ==
    ASSUME NEW c \in Nat \ {0}, NEW q \in Int, NEW r \in Int, q < r
    PROVE  c * q + c <= c * r
<1> DEFINE d == r - q
<1>1. c * r = c * q + c * d
  OBVIOUS
<1>2. d \in Int /\ d >= 1
  OBVIOUS
<1> HIDE DEF d
<1>3. c * d >= c * 1
  BY <1>2
<1> QED
  BY <1>1, <1>2, <1>3

LEMMA DivisionAndRest ==
    ASSUME NEW c \in Nat, c > 0, NEW a \in Nat
    PROVE  a % c = a - c * (a \div c) /\ a \div c \in Int
BY SMT

(* Two positions less than the capacity apart have places of their own.      *)
LEMMA PlacesApart ==
    ASSUME NEW a \in Nat, NEW b \in Nat, a <= b, b < a + Capacity, a % Capacity = b % Capacity
    PROVE  a = b
<1> DEFINE q == a \div Capacity
           r == b \div Capacity
<1>1. /\ Capacity \in Nat \ {0} /\ q \in Int /\ r \in Int
      /\ a % Capacity = a - Capacity * q /\ b % Capacity = b - Capacity * r
  BY AudioAssumption, DivisionAndRest
<1> HIDE DEF q, r
<1>2. Capacity * q \in Int /\ Capacity * r \in Int
  BY <1>1
<1>3. b - a = Capacity * r - Capacity * q
  BY <1>1, <1>2
<1>4. ~(q < r) /\ ~(r < q)
  BY <1>1, <1>2, <1>3, MultiplesApart
<1>5. q = r
  BY <1>1, <1>4
<1> QED
  BY <1>1, <1>3, <1>5

(* A write puts its frames in their places and leaves what was not read yet. *)
LEMMA WriteFills ==
    ASSUME TypeOK, NEW n \in Lengths, Write(n)
    PROVE  \E m \in Nat :
              /\ m <= Capacity
              /\ NeverOvertaken /\ ~raced => m <= Capacity - (write_pos - read_pos)
              /\ IF m = 0 THEN buffer' = buffer /\ writer'.pc = "idle"
                          ELSE writer'.pc = "publish" /\ writer'.w = write_pos + m
              /\ \A i \in 0..Capacity - 1 :
                    buffer'[i] = buffer[i] \/ buffer'[i] \in write_pos..(write_pos + m - 1)
              /\ \A p \in write_pos..(write_pos + m - 1) : buffer'[p % Capacity] = p
              /\ \A p \in Nat : p < write_pos /\ write_pos + m <= p + Capacity =>
                    buffer'[p % Capacity] = buffer[p % Capacity]
<1> DEFINE m == Smaller(n, Room)
           new(i) == CHOOSE p \in write_pos..(write_pos + m - 1) : p % Capacity = i
<1>1. /\ n \in Nat /\ n <= Capacity /\ Room \in Nat /\ write_pos \in Nat /\ read_pos \in Nat
      /\ Capacity \in Nat \ {0}
  <2>1. Capacity - (write_pos - read_pos) \in Int /\ n \in 1..Capacity /\ write_pos \in Nat /\ read_pos \in Nat
    BY AudioAssumption DEF TypeOK
  <2> QED
    BY <2>1, AsSizeIsNat, AudioAssumption DEF Room
<1>2. m \in Nat /\ m <= n /\ m <= Room
  BY <1>1, SmallerIsLeast
<1>3. NeverOvertaken /\ ~raced => Room = Capacity - (write_pos - read_pos)
  BY <1>1, AsSizeIsNat DEF NeverOvertaken, Room
<1>4. CASE m = 0
  <2>1. buffer' = buffer /\ writer'.pc = "idle"
    BY <1>4 DEF TypeOK, Write
  <2> HIDE DEF m
  <2>2. /\ m \in Nat /\ m <= Capacity /\ (NeverOvertaken /\ ~raced => m <= Capacity - (write_pos - read_pos))
        /\ write_pos..(write_pos + m - 1) = {}
    BY <1>1, <1>2, <1>3, <1>4
  <2> QED
    BY <1>4, <2>1, <2>2
<1>5. CASE m # 0
  <2>1. /\ writer' = [pc |-> "publish", r |-> read_pos, w |-> write_pos + m, n |-> m]
        /\ buffer' = [i \in DOMAIN buffer |->
                         IF \E k \in 1..m : (write_pos + k - 1) % Capacity = i THEN new(i) ELSE buffer[i]]
    BY <1>5 DEF Write
  <2>2. DOMAIN buffer = 0..Capacity - 1
    BY DEF TypeOK
  <2> HIDE DEF m
  <2>3. ASSUME NEW i \in 0..Capacity - 1, NEW k \in 1..m, (write_pos + k - 1) % Capacity = i
        PROVE  new(i) \in write_pos..(write_pos + m - 1) /\ new(i) % Capacity = i
    <3>1. write_pos + k - 1 \in write_pos..(write_pos + m - 1)
      BY <1>1, <1>2
    <3>2. \E p \in write_pos..(write_pos + m - 1) : p % Capacity = i
      BY <2>3, <3>1
    <3> QED
      BY <3>2
  <2>4. \A i \in 0..Capacity - 1 :
           buffer'[i] = buffer[i] \/ buffer'[i] \in write_pos..(write_pos + m - 1)
    BY <2>1, <2>2, <2>3
  <2>5. ASSUME NEW p \in write_pos..(write_pos + m - 1)
        PROVE  buffer'[p % Capacity] = p
    <3> DEFINE i == p % Capacity
               k == p - write_pos + 1
    <3>1. p \in Nat /\ i \in 0..Capacity - 1 /\ k \in 1..m /\ write_pos + k - 1 = p
      BY <1>1, <1>2, PlaceInBuffer
    <3>2. new(i) \in write_pos..(write_pos + m - 1) /\ new(i) % Capacity = i
      BY <2>3, <3>1
    <3>3. buffer'[i] = new(i)
      BY <2>1, <2>2, <3>1
    <3> HIDE DEF new
    <3>4. new(i) \in Nat /\ new(i) < p + Capacity /\ p < new(i) + Capacity
      BY <1>1, <1>2, <3>2
    <3>5. new(i) = p
      BY <3>1, <3>2, <3>4, PlacesApart
    <3> QED
      BY <3>3, <3>5
  <2>6. ASSUME NEW p \in Nat, p < write_pos, write_pos + m <= p + Capacity
        PROVE  buffer'[p % Capacity] = buffer[p % Capacity]
    <3>1. p % Capacity \in 0..Capacity - 1
      BY PlaceInBuffer
    <3>2. ~ \E k \in 1..m : (write_pos + k - 1) % Capacity = p % Capacity
      <4> SUFFICES ASSUME NEW k \in 1..m, (write_pos + k - 1) % Capacity = p % Capacity PROVE FALSE
        OBVIOUS
      <4> DEFINE q == write_pos + k - 1
      <4>1. q \in Nat /\ p < q /\ q < p + Capacity
        BY <1>1, <1>2, <2>6
      <4>2. p = q
        BY <4>1, PlacesApart
      <4> QED
        BY <4>1, <4>2
    <3> QED
      BY <2>1, <2>2, <3>1, <3>2
  <2>7. writer'.pc = "publish" /\ writer'.w = write_pos + m
    BY <2>1
  <2>8. m \in Nat /\ m <= Capacity /\ (NeverOvertaken /\ ~raced => m <= Capacity - (write_pos - read_pos))
    BY <1>1, <1>2, <1>3
  <2> QED
    BY <1>5, <2>4, <2>5, <2>6, <2>7, <2>8
<1> QED
  BY <1>4, <1>5

(* The steps that leave the samples alone.                                   *)
LEMMA OrderKept ==
    ASSUME OrderInv, UNCHANGED <<buffer, read_pos, output, cleared, raced>>, Top' = Top, Sounded',
           \A u \in Units : render[u].pc = "store" =>
              render'[u].pc = "store" /\ render'[u].r = render[u].r /\ render'[u].n = render[u].n
    PROVE  OrderInv'
<1>1. Written'
  BY DEF OrderInv, Written
<1>2. ~raced => InPlace' /\ Behind'
  BY DEF OrderInv, InPlace, Behind
<1> QED
  BY <1>1, <1>2 DEF OrderInv

LEMMA TopIsNat ==
    ASSUME TypeOK
    PROVE  /\ Top \in Nat /\ write_pos \in Nat /\ read_pos \in Nat /\ cleared \in Nat /\ Capacity \in Nat \ {0}
           /\ output \in Seq(Nat) /\ Len(output) \in Nat
           /\ \A k \in 1..Len(output) : output[k] \in Nat
           /\ \A i \in 0..Capacity - 1 : buffer[i] \in Nat
<1>1. Top \in Nat /\ write_pos \in Nat /\ read_pos \in Nat /\ cleared \in Nat /\ Capacity \in Nat \ {0}
  BY AudioAssumption DEF TypeOK, Top
<1>2. output \in Seq(Nat)
  BY DEF TypeOK
<1>3. Len(output) \in Nat /\ \A k \in 1..Len(output) : output[k] \in Nat
  BY <1>2
<1>4. \A i \in 0..Capacity - 1 : buffer[i] \in Nat
  BY DEF TypeOK
<1> QED
  BY <1>1, <1>2, <1>3, <1>4

LEMMA SyncKeepsOrder ==
    ASSUME EngineInv, OrderInv, SyncStep
    PROVE  OrderInv'
<1> USE DEF EngineInv
<1>1. CASE WriteAudioData
  <2>1. /\ UNCHANGED <<buffer, write_pos, read_pos, primed, output, cleared, raced, render>>
        /\ writer.pc = "idle" /\ writer'.pc = "write"
    BY <1>1 DEF TypeOK, WriteAudioData, ringVars, history
  <2>2. Sounded' /\ Top' = Top
    BY <2>1 DEF OrderInv, Sounded, Top
  <2> QED
    BY <2>1, <2>2, OrderKept
<1>2. CASE Publish
  <2>1. /\ UNCHANGED <<buffer, read_pos, primed, output, cleared, raced, render>>
        /\ writer.pc = "publish" /\ writer'.pc = "prime" /\ write_pos' = writer.w
    BY <1>2 DEF TypeOK, Publish, history
  <2>2. write_pos \in Nat /\ writer.w \in Nat /\ write_pos < writer.w
    BY <2>1 DEF TypeOK, OrderInv, Sounded
  <2>3. Sounded' /\ Top' = Top
    BY <2>1, <2>2 DEF OrderInv, Sounded, Top
  <2> QED
    BY <2>1, <2>3, OrderKept
<1>3. CASE Prime
  <2>1. /\ UNCHANGED <<buffer, write_pos, read_pos, output, cleared, raced, render>>
        /\ writer.pc = "prime" /\ writer'.pc = "idle"
    BY <1>3 DEF Prime, NoWrite, history
  <2>2. Sounded' /\ Top' = Top
    BY <2>1 DEF OrderInv, Sounded, Top
  <2> QED
    BY <2>1, <2>2, OrderKept
<1>4. ASSUME NEW n \in Lengths, Write(n)
      PROVE  OrderInv'
  <2>1. UNCHANGED <<write_pos, read_pos, primed, output, cleared, raced, render>> /\ writer.pc = "write"
    BY <1>4 DEF Write, history
  <2>2. PICK m \in Nat :
              /\ m <= Capacity
              /\ NeverOvertaken /\ ~raced => m <= Capacity - (write_pos - read_pos)
              /\ IF m = 0 THEN buffer' = buffer /\ writer'.pc = "idle"
                          ELSE writer'.pc = "publish" /\ writer'.w = write_pos + m
              /\ \A i \in 0..Capacity - 1 :
                    buffer'[i] = buffer[i] \/ buffer'[i] \in write_pos..(write_pos + m - 1)
              /\ \A p \in write_pos..(write_pos + m - 1) : buffer'[p % Capacity] = p
              /\ \A p \in Nat : p < write_pos /\ write_pos + m <= p + Capacity =>
                    buffer'[p % Capacity] = buffer[p % Capacity]
    BY <1>4, WriteFills
  <2>3. Top = write_pos /\ Top' = write_pos + m /\ write_pos \in Nat /\ read_pos \in Nat /\ Capacity \in Nat \ {0}
    BY <2>1, <2>2, TopIsNat DEF Top
  <2>4. Sounded'
    BY <2>1, <2>2, <2>3 DEF OrderInv, Sounded
  <2>5. Written'
    <3>1. \A i \in 0..Capacity - 1 : buffer'[i] = 0 \/ buffer'[i] < Top'
      <4> TAKE i \in 0..Capacity - 1
      <4>1. buffer[i] \in Nat /\ (buffer[i] = 0 \/ buffer[i] < Top)
        BY TopIsNat DEF OrderInv, Written
      <4> QED
        BY <2>2, <2>3, <4>1
    <3>2. \A k \in 1..Len(output) : output[k] = 0 \/ output[k] < Top'
      BY <2>3, TopIsNat DEF OrderInv, Written
    <3> QED
      BY <2>1, <3>1, <3>2 DEF Written
  <2>6. ~raced => InPlace'
    <3> SUFFICES ASSUME ~raced, NEW p \in Nat, read_pos <= p, p < write_pos + m
                 PROVE  buffer'[p % Capacity] = p
      BY <2>1, <2>3 DEF InPlace
    <3>1. CASE p < write_pos
      <4>1. buffer[p % Capacity] = p
        BY <2>3, <3>1 DEF OrderInv, InPlace
      <4>2. write_pos + m <= p + Capacity
        BY <2>2, <2>3 DEF RingHolds
      <4> QED
        BY <2>2, <3>1, <4>1, <4>2
    <3>2. CASE ~(p < write_pos)
      <4>1. p \in write_pos..(write_pos + m - 1)
        BY <2>3, <3>2
      <4> QED
        BY <2>2, <4>1
    <3> QED
      BY <3>1, <3>2
  <2>7. ~raced => Behind' /\ cleared' <= read_pos'
    BY <2>1 DEF OrderInv, Behind
  <2> QED
    BY <2>1, <2>4, <2>5, <2>6, <2>7 DEF OrderInv
<1> QED
  BY <1>1, <1>2, <1>3, <1>4 DEF SyncStep

(* What a callback copies is what follows on the position of the reader.     *)
LEMMA CopiesInOrder ==
    ASSUME EngineInv, OrderInv, ~raced, NEW u \in Units, Copy(u), ToRead(u) # 0
    PROVE  /\ ToRead(u) \in Nat /\ read_pos + ToRead(u) <= write_pos
           /\ output' = [k \in 1..ToRead(u) |-> read_pos + k - 1]
           /\ \A k \in 1..Len(output) : output[k] < read_pos
<1> USE DEF EngineInv
<1> DEFINE n == ToRead(u)
<1>1. NeverOvertaken /\ Loaded /\ InPlace /\ Behind
  BY DEF RingHolds, OrderInv
<1>2. render[u].pc = "copy" /\ read_pos <= render[u].w /\ render[u].w <= write_pos
  BY <1>1 DEF Loaded, Copy
<1>3. /\ write_pos \in Nat /\ read_pos \in Nat /\ Frames \in Nat /\ render[u].w \in Nat
  BY ReadStateNumbers
<1>4. n \in Nat /\ read_pos + n <= write_pos
  <2>1. Available(u) = render[u].w - read_pos /\ Available(u) \in Nat
    BY <1>2, <1>3, AsSizeIsNat DEF Available
  <2>2. n \in Nat /\ n <= Available(u)
    BY <1>3, <2>1, SmallerIsLeast DEF ToRead
  <2> QED
    BY <1>2, <1>3, <2>1, <2>2
<1>5. output' = [k \in 1..n |-> buffer[(read_pos + k - 1) % Capacity]]
  BY DEF Copy
<1> HIDE DEF n
<1>6. \A k \in 1..n : buffer[(read_pos + k - 1) % Capacity] = read_pos + k - 1
  <2> TAKE k \in 1..n
  <2>1. writer.w \in Nat /\ (writer.pc = "publish" => write_pos < writer.w)
    BY DEF TypeOK, OrderInv, Sounded
  <2>2. read_pos + k - 1 \in Nat /\ read_pos <= read_pos + k - 1 /\ read_pos + k - 1 < Top
    BY <1>3, <1>4, <2>1 DEF Top
  <2> QED
    BY <1>1, <2>2 DEF InPlace
<1>7. \A v \in Units : render[v].pc # "store"
  BY <1>2, OneReader
<1>8. \A k \in 1..Len(output) : output[k] < read_pos
  BY <1>1, <1>7 DEF Behind
<1> QED
  BY <1>4, <1>5, <1>6, <1>8 DEF n

LEMMA RenderKeepsOrder ==
    ASSUME EngineInv, OrderInv, NEW u \in Units, RenderStep(u)
    PROVE  OrderInv'
<1> USE DEF EngineInv
<1>1. /\ UNCHANGED <<buffer, write_pos, writer, cleared, raced>> /\ Top' = Top
      /\ \A v \in Units : v # u => render'[v] = render[v]
  BY DEF TypeOK, RenderStep, Render, LoadWritePos, Copy, StoreReadPos, RunDry, ringVars, history, Top
<1>2. CASE Render(u) \/ LoadWritePos(u) \/ RunDry(u)
  <2>1. /\ UNCHANGED <<read_pos, output>> /\ render[u].pc # "store"
        /\ primed' => primed
        /\ primed \/ render[u].pc # "idle"
    BY <1>2 DEF Render, LoadWritePos, RunDry, ringVars, history
  <2>2. Sounded'
    BY <1>1, <2>1 DEF OrderInv, Sounded
  <2> QED
    BY <1>1, <2>1, <2>2, OrderKept
<1>3. CASE StoreReadPos(u)
  <2>1. /\ render[u].pc = "store" /\ read_pos' = render[u].r + render[u].n /\ render'[u].pc = "idle"
        /\ UNCHANGED <<output, primed>>
    BY <1>3 DEF TypeOK, StoreReadPos, NoRead, history
  <2>2. Sounded' /\ Written'
    BY <1>1, <2>1 DEF OrderInv, Sounded, Written
  <2>3. ASSUME ~raced
        PROVE  InPlace' /\ Behind' /\ cleared' <= read_pos'
    <3>1. render[u].r = read_pos /\ render[u].n \in Nat /\ read_pos \in Nat /\ cleared \in Nat
      BY <2>1, <2>3, ReadStateNumbers, TopIsNat DEF RingHolds, Loaded
    <3>2. read_pos' = read_pos + render[u].n
      BY <2>1, <3>1
    <3>3. \A v \in Units : render[v].pc = "store" => v = u
      BY <2>1, OneReader
    <3>4. \A k \in 1..Len(output) : output[k] < read_pos'
      <4> TAKE k \in 1..Len(output)
      <4>1. output[k] \in Nat /\ (output[k] < read_pos \/ output[k] < render[u].r + render[u].n)
        BY <2>3, <3>3, TopIsNat DEF OrderInv, Behind
      <4> QED
        BY <3>1, <3>2, <4>1
    <3>5. InPlace'
      BY <1>1, <2>3, <3>1, <3>2 DEF OrderInv, InPlace
    <3> QED
      BY <1>1, <2>1, <2>3, <3>1, <3>2, <3>4, <3>5 DEF OrderInv, Behind
  <2> QED
    BY <1>1, <2>2, <2>3 DEF OrderInv
<1>4. CASE Copy(u)
  <2> DEFINE n == ToRead(u)
  <2>1. /\ render[u].pc = "copy" /\ UNCHANGED <<read_pos, primed>>
        /\ render'[u].pc = IF n = 0 THEN "dry" ELSE "store"
        /\ render'[u].r = read_pos /\ render'[u].n = n
        /\ output' = IF n = 0 THEN output ELSE [k \in 1..n |-> buffer[(read_pos + k - 1) % Capacity]]
    BY <1>4 DEF TypeOK, Copy, ringVars
  <2>2. n \in Nat /\ read_pos \in Nat /\ write_pos > 0
    <3>1. Available(u) \in Nat /\ Frames \in Nat
      BY ReadStateNumbers, AsSizeIsNat DEF Available
    <3> QED
      BY <2>1, <3>1, SmallerIsLeast, TopIsNat DEF ToRead, OrderInv, Sounded
  <2>3. Sounded'
    BY <1>1, <2>1, <2>2 DEF OrderInv, Sounded
  <2>4. CASE n = 0
    <3>1. output' = output
      BY <2>1, <2>4
    <3> QED
      BY <1>1, <2>1, <2>3, <3>1, OrderKept
  <2>5. CASE n # 0
    <3>1. Len(output') = n /\ \A k \in 1..n : output'[k] = buffer[(read_pos + k - 1) % Capacity]
      BY <2>1, <2>2, <2>5
    <3>2. \A k \in 1..n : (read_pos + k - 1) % Capacity \in 0..Capacity - 1
      <4> TAKE k \in 1..n
      <4>1. read_pos + k - 1 \in Nat
        BY <2>2
      <4> QED
        BY <4>1, PlaceInBuffer
    <3>3. Written'
      BY <1>1, <3>1, <3>2 DEF OrderInv, Written
    <3>4. ASSUME ~raced
          PROVE  InPlace' /\ Behind' /\ cleared' <= read_pos'
      <4>1. \A k \in 1..n : output'[k] = read_pos + k - 1
        BY <1>4, <2>5, <3>4, CopiesInOrder
      <4>2. \A k \in 1..Len(output') : output'[k] < render'[u].r + render'[u].n
        BY <2>1, <2>2, <3>1, <4>1
      <4>3. render'[u].pc = "store"
        BY <2>1, <2>5
      <4>4. Behind'
        BY <4>2, <4>3 DEF Behind
      <4> QED
        BY <1>1, <2>1, <3>4, <4>4 DEF OrderInv, InPlace
    <3> QED
      BY <1>1, <2>3, <3>3, <3>4 DEF OrderInv
  <2> QED
    BY <2>4, <2>5
<1> QED
  BY <1>2, <1>3, <1>4 DEF RenderStep

LEMMA ClearKeepsOrder ==
    ASSUME EngineInv, OrderInv, Clear
    PROVE  OrderInv'
<1> USE DEF EngineInv
<1>1. /\ read_pos' = write_pos /\ cleared' = write_pos
      /\ UNCHANGED <<buffer, write_pos, primed, writer, render, output>>
  BY DEF Clear
<1>2. writer.pc = "idle" /\ Top = write_pos /\ Top' = write_pos /\ write_pos \in Nat
  BY <1>1, TopIsNat DEF Turns, Clear, Top
<1>3. Sounded' /\ Written'
  BY <1>1, <1>2 DEF OrderInv, Sounded, Written
<1>4. InPlace'
  BY <1>1, <1>2 DEF InPlace
<1>5. Behind'
  <2> SUFFICES ASSUME NEW k \in 1..Len(output) PROVE output[k] < write_pos
    BY <1>1 DEF Behind
  <2>1. output # <<>> /\ output[k] \in Nat
    BY TopIsNat
  <2>2. write_pos > 0
    BY <2>1 DEF OrderInv, Sounded
  <2> QED
    BY <1>2, <2>1, <2>2 DEF OrderInv, Written
<1> QED
  BY <1>1, <1>2, <1>3, <1>4, <1>5 DEF OrderInv

LEMMA OrderInvNext ==
    ASSUME EngineInv, OrderInv, [Next]_vars
    PROVE  OrderInv'
<1>1. CASE UNCHANGED vars
  <2>1. /\ UNCHANGED <<buffer, write_pos, read_pos, primed, output, cleared, raced, writer, render>>
        /\ Top' = Top
    BY <1>1 DEF vars, ringVars, history, Top
  <2> QED
    BY <2>1, OrderKept DEF OrderInv, Sounded
<1>2. CASE SyncStep
  BY <1>2, SyncKeepsOrder
<1>3. CASE \E u \in Units : RenderStep(u)
  BY <1>3, RenderKeepsOrder
<1>4. CASE Clear
  BY <1>4, ClearKeepsOrder
<1>5. CASE \/ Unprime \/ Dispose \/ SignalStreamStart \/ StreamEnd
           \/ \E changed \in BOOLEAN : StreamStart(changed)
           \/ \E t \in Threads : StartStep(t)
  <2>1. UNCHANGED <<buffer, write_pos, read_pos, output, cleared, raced, writer, render>> /\ (primed' => primed)
    BY <1>5 DEF Unprime, Dispose, SignalStreamStart, StreamEnd, StreamStart, StartStep, CheckRunning,
                CheckUnit, Create, Begin, ringVars, history
  <2>2. Top' = Top /\ Sounded'
    BY <2>1 DEF OrderInv, Sounded, Top
  <2> QED
    BY <2>1, <2>2, OrderKept
<1> QED
  BY <1>1, <1>2, <1>3, <1>4, <1>5 DEF Next, LoopStep

LEMMA OrderInvInit ==
    Init => OrderInv
<1> SUFFICES ASSUME Init PROVE OrderInv
  OBVIOUS
<1>1. output = <<>> /\ Top = 0 /\ read_pos = 0 /\ cleared = 0 /\ \A u \in Units : render[u].pc = "idle"
  BY DEF Init, NoWrite, NoRead, Top
<1>2. Sounded
  BY <1>1 DEF Init, Sounded, NoWrite
<1>3. Written /\ InPlace /\ Behind
  BY <1>1 DEF Init, Written, InPlace, Behind
<1> QED
  BY <1>1, <1>2, <1>3 DEF OrderInv

LEMMA RendersInOrder ==
    ASSUME EngineInv, OrderInv, [Next]_vars, Rendered, ~raced
    PROVE  /\ Ordered(output') /\ Head(output') >= cleared
           /\ \A i \in DOMAIN output : output[i] < Head(output')
<1>1. PICK u \in Units : render[u].pc = "copy" /\ render'[u].pc = "store"
  BY DEF Rendered
<1>2. \E v \in Units : RenderStep(v)
  BY <1>1 DEF Next, vars, SyncStep, WriteAudioData, Write, Publish, Prime, LoopStep, Unprime, Clear, Dispose,
              SignalStreamStart, StreamEnd, StreamStart, StartStep, CheckRunning, CheckUnit, Create, Begin
<1>3. \A v \in Units : RenderStep(v) => v = u
  BY <1>1 DEF EngineInv, TypeOK, RenderStep, Render, LoadWritePos, Copy, StoreReadPos, RunDry
<1>4. Copy(u)
  BY <1>1, <1>2, <1>3 DEF EngineInv, TypeOK, RenderStep, Render, LoadWritePos, StoreReadPos, RunDry
<1> DEFINE n == ToRead(u)
<1>5. n # 0
  BY <1>1, <1>4 DEF EngineInv, TypeOK, Copy
<1>6. /\ n \in Nat /\ output' = [k \in 1..n |-> read_pos + k - 1]
      /\ \A k \in 1..Len(output) : output[k] < read_pos
  BY <1>4, <1>5, CopiesInOrder
<1>7. read_pos \in Nat /\ cleared <= read_pos /\ DOMAIN output = 1..Len(output)
  BY TopIsNat DEF EngineInv, OrderInv
<1> HIDE DEF n
<1>8. Head(output') = read_pos /\ DOMAIN output' = 1..n
  BY <1>5, <1>6, <1>7
<1>9. Ordered(output')
  BY <1>6, <1>7, <1>8 DEF Ordered
<1> QED
  BY <1>6, <1>7, <1>8, <1>9

(* For any capacity and any lengths of the writes and the reads, around the  *)
(* end of the array and while write() fills the ring: a callback renders     *)
(* what follows on what was rendered, in the order it was written, and       *)
(* nothing that was cleared, until a clear meets a callback that reads:      *)
(* AudioEngine.mm:31-91.                                                     *)
THEOREM AudioEngineRendersInOrder ==
    ASSUME ~InBand
    PROVE  Spec => RenderedInOrder
<1>1. Init => EngineInv /\ OrderInv
  BY EngineInvInit, OrderInvInit
<1>2. EngineInv /\ OrderInv /\ [Next]_vars => EngineInv' /\ OrderInv'
  BY EngineInvNext, OrderInvNext
<1>3. EngineInv /\ OrderInv /\ [Next]_vars =>
         [Rendered /\ ~raced => /\ Ordered(output') /\ Head(output') >= cleared
                                /\ \A i \in DOMAIN output : output[i] < Head(output')]_vars
  BY RendersInOrder
<1> QED
  BY <1>1, <1>2, <1>3, PTL DEF Spec, RenderedInOrder
=============================================================================
