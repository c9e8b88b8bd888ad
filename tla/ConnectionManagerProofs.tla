---------------------- MODULE ConnectionManagerProofs ----------------------
(* Proofs about the connection manager, for any connections, any capacity of  *)
(* the nursery and any number of attempts.                                    *)
EXTENDS ConnectionManager, FiniteSetTheorems, TLAPS

-----------------------------------------------------------------------------
(* What the helpers do to the variables they change.                          *)

LEMMA ForgetOK ==
  ASSUME TypeOK, NEW entries \in SUBSET Conns, NEW drop \in BOOLEAN, NEW goodbyes,
         drop => current # None, Forget(entries, drop, goodbyes)
  PROVE  /\ dispatch' \subseteq Conns /\ deferred' \subseteq Release /\ fed' \subseteq Conns
         /\ Leaving(entries, drop) \subseteq Conns
  <1>1. Leaving(entries, drop) \subseteq Conns
    BY DEF TypeOK, Leaving
  <1>2. \A c \in Conns : [conn |-> c, goodbye |-> c \in goodbyes] \in Release
    BY DEF Release
  <1>. QED  BY <1>1, <1>2 DEF TypeOK, Forget

LEMMA DisarmOK ==
  ASSUME TypeOK, NEW conns, Disarm(conns)
  PROVE  retry' \in [Conns -> 0..Attempts]
  BY ConnAssumption DEF TypeOK, Disarm

LEMMA StoppedOK ==
  ASSUME TypeOK, NEW conns \in SUBSET Conns, NEW ended, Stopped(conns, ended)
  PROVE  /\ transport' \in [Conns -> Transport]
         /\ helloSent' \subseteq Conns /\ serverHello' \subseteq Conns /\ lost' \subseteq Conns
  BY DEF TypeOK, Stopped, Transport

LEMMA TransportsTypeOK ==
  ASSUME TypeOK, Transports
  PROVE  TypeOK'
  <1>. PICK c \in Conns :
           \/ NewConnection(c) \/ Open(c) \/ FailToOpen(c) \/ Shut(c) \/ Close(c)
           \/ FailToReceive(c) \/ ServerHello(c) \/ RoleMessage(c)
    BY DEF Transports
  <1>. USE ConnAssumption DEF TypeOK, loopVars, appVars, transportVars, managed
  <1>1. CASE NewConnection(c)
    <2>1. [conn |-> c, goodbye |-> TRUE] \in Release
      BY DEF Release
    <2>2. CASE Admit(c)
      BY <1>1, <2>2 DEF NewConnection, Admit, Transport
    <2>3. CASE TurnAway(c)
      BY <1>1, <2>1, <2>3 DEF NewConnection, TurnAway, Transport
    <2>. QED  BY <1>1, <2>2, <2>3 DEF NewConnection
  <1>2. CASE Open(c)
    BY <1>2 DEF Open, Transport
  <1>3. CASE FailToOpen(c)
    BY <1>3 DEF FailToOpen, Transport
  <1>4. CASE Shut(c)
    BY <1>4 DEF Shut, Transport
  <1>5. CASE Close(c)
    BY <1>5 DEF Close, Transport
  <1>6. CASE FailToReceive(c)
    BY <1>6 DEF FailToReceive, Transport
  <1>7. CASE ServerHello(c)
    BY <1>7 DEF ServerHello
  <1>8. CASE RoleMessage(c)
    BY <1>8 DEF RoleMessage
  <1>. QED  BY <1>1, <1>2, <1>3, <1>4, <1>5, <1>6, <1>7, <1>8

LEMMA PerformReleaseTypeOK ==
  ASSUME TypeOK, NEW t \in Threads, PerformRelease(t)
  PROVE  TypeOK'
  <1>. PICK r \in releasing[t] :
           /\ releasing' = [releasing EXCEPT ![t] = @ \ {r}]
           /\ Stopped(IF r.goodbye THEN {r.conn} ELSE {}, {r.conn})
           /\ playback' = playback \ {r.conn} /\ told' = told \ {r.conn}
    BY DEF PerformRelease
  <1>1. (IF r.goodbye THEN {r.conn} ELSE {}) \in SUBSET Conns
    BY DEF TypeOK, Release
  <1>2. /\ transport' \in [Conns -> Transport]
        /\ helloSent' \subseteq Conns /\ serverHello' \subseteq Conns /\ lost' \subseteq Conns
    BY <1>1, StoppedOK
  <1>. QED  BY <1>2 DEF TypeOK, PerformRelease, managed, loopVars, appVars

LEMMA TakeReleasesOK ==
  ASSUME TypeOK, NEW t \in Threads, TakeReleases(t)
  PROVE  releasing' \in [Threads -> SUBSET Release] /\ deferred' \subseteq Release
  BY DEF TypeOK, TakeReleases

LEMMA FlushesTypeOK ==
  ASSUME TypeOK, Flushes
  PROVE  TypeOK'
  <1>1. CASE PerformRelease("net")
    BY <1>1, PerformReleaseTypeOK DEF Threads
  <1>2. ASSUME NEW c \in Inbound, FlushNew(c)
        PROVE  TypeOK'
    <2>1. releasing' \in [Threads -> SUBSET Release] /\ deferred' \subseteq Release
      BY <1>2, TakeReleasesOK DEF FlushNew, Threads
    <2>. QED  BY <1>2, <2>1 DEF TypeOK, FlushNew, transportVars, managed, loopVars, appVars
  <1>. QED  BY <1>1, <1>2 DEF Flushes

LEMMA ScanTypeOK ==
  ASSUME TypeOK, NEW c \in Conns, Scan(c)
  PROVE  TypeOK'
  <1>. USE DEF transportVars, managed, appVars
  <1>1. CASE LeaveInNursery(c)
    BY <1>1 DEF TypeOK, Scan, LeaveInNursery
  <1>2. CASE Promote(c)
    <2>1. Forget({}, current # None, {current}) /\ Disarm({c, current})
      BY <1>2 DEF Promote
    <2>2. dispatch' \subseteq Conns /\ deferred' \subseteq Release /\ fed' \subseteq Conns
      BY <2>1, ForgetOK
    <2>3. retry' \in [Conns -> 0..Attempts]
      BY <2>1, DisarmOK
    <2>. QED  BY <1>2, <2>2, <2>3 DEF TypeOK, Scan, Promote
  <1>3. CASE Refuse(c)
    <2>1. dispatch' \subseteq Conns /\ deferred' \subseteq Release /\ fed' \subseteq Conns
      BY <1>3, ForgetOK DEF Refuse
    <2>2. retry' \in [Conns -> 0..Attempts]
      BY <1>3, DisarmOK DEF Refuse
    <2>. QED  BY <1>3, <2>1, <2>2 DEF TypeOK, Scan, Refuse
  <1>. QED  BY <1>1, <1>2, <1>3 DEF Scan

LEMMA HelloTimerTypeOK ==
  ASSUME TypeOK, NEW c \in Conns, HelloTimer(c)
  PROVE  TypeOK'
  <1>1. retry' \in [Conns -> 0..Attempts] /\ helloSent' \subseteq Conns
    <2>1. CASE NotDue(c)
      BY <2>1 DEF TypeOK, NotDue
    <2>2. CASE GiveUp(c)
      BY <2>2, DisarmOK DEF TypeOK, GiveUp
    <2>3. CASE SendHello(c)
      BY <2>3, DisarmOK DEF TypeOK, SendHello
    <2>4. CASE RetryHello(c)
      <3>1. retry[c] > 0
        BY DEF HelloTimer
      <3>. QED  BY <2>4, <3>1, ConnAssumption DEF TypeOK, RetryHello
    <2>. QED  BY <2>1, <2>2, <2>3, <2>4 DEF HelloTimer
  <1>. QED  BY <1>1 DEF TypeOK, HelloTimer, appVars

LEMMA LoopTypeOK ==
  ASSUME TypeOK, Loop
  PROVE  TypeOK'
  <1>1. CASE ProcessEvents
    <2>1. (nursery \cap lost) \in SUBSET Conns /\ (current \in lost) \in BOOLEAN
      BY DEF TypeOK
    <2>2. current \in lost => current # None
      BY ConnAssumption DEF TypeOK
    <2>3. Forget(nursery \cap lost, current \in lost, {})
      BY <1>1 DEF ProcessEvents, DropLost
    <2>4. dispatch' \subseteq Conns /\ deferred' \subseteq Release /\ fed' \subseteq Conns
      BY <2>1, <2>2, <2>3, ForgetOK
    <2>5. retry' \in [Conns -> 0..Attempts]
      BY <1>1, ConnAssumption DEF TypeOK, ProcessEvents, DropLost
    <2>. QED
      BY <1>1, <2>4, <2>5 DEF TypeOK, ProcessEvents, DropLost, StartPass, transportVars, appVars
  <1>2. CASE LoopSwap
    <2>1. releasing' \in [Threads -> SUBSET Release] /\ deferred' \subseteq Release
      BY <1>2, TakeReleasesOK DEF LoopSwap, Threads
    <2>. QED
      BY <1>2, <2>1 DEF TypeOK, LoopSwap, AfterFlush, transportVars, managed, appVars
  <1>3. CASE LoopReleased
    BY <1>3 DEF TypeOK, LoopReleased, AfterFlush, transportVars, managed, appVars
  <1>4. ASSUME NEW overdue \in SUBSET nursery, Reap(overdue)
        PROVE  TypeOK'
    <2>1. overdue \in SUBSET Conns
      BY DEF TypeOK
    <2>2. Forget(overdue, FALSE, overdue) /\ Disarm(overdue)
      BY <1>4 DEF Reap, Released
    <2>3. dispatch' \subseteq Conns /\ deferred' \subseteq Release /\ fed' \subseteq Conns
      BY <2>1, <2>2, ForgetOK
    <2>4. retry' \in [Conns -> 0..Attempts]
      BY <2>2, DisarmOK
    <2>. QED  BY <1>4, <2>3, <2>4 DEF TypeOK, Reap, Released, transportVars, appVars
  <1>5. CASE PerformRelease("loop")
    BY <1>5, PerformReleaseTypeOK DEF Threads
  <1>6. ASSUME NEW c \in Conns, Scan(c) \/ HelloTimer(c)
        PROVE  TypeOK'
    BY <1>6, ScanTypeOK, HelloTimerTypeOK
  <1>. QED  BY <1>1, <1>2, <1>3, <1>4, <1>5, <1>6 DEF Loop

LEMMA ConnectToTypeOK ==
  ASSUME TypeOK, NEW c \in Conns, ConnectTo(c)
  PROVE  TypeOK'
  <1>. DEFINE dead == current # None /\ ~Connected(current)
              previous == nursery \cap Outbound
  <1>1. Leaving(previous, dead) \subseteq Conns
    BY DEF TypeOK, Leaving
  <1>2. Disarm(Leaving(previous, dead))
    BY DEF ConnectTo
  <1>3. retry' \in [Conns -> 0..Attempts]
    BY <1>2, DisarmOK
  <1>4. \A d \in Conns : [conn |-> d, goodbye |-> d \in previous] \in Release
    BY DEF Release
  <1>5. deferred' = deferred \cup {[conn |-> d, goodbye |-> d \in previous] : d \in Leaving(previous, dead)}
    BY DEF ConnectTo
  <1>6. deferred' \subseteq Release
    BY <1>1, <1>4, <1>5 DEF TypeOK
  <1>7. dispatch' = (dispatch \ Leaving(previous, dead)) \cup {c}
    BY DEF ConnectTo
  <1>8. current' \in Conns \cup {None} /\ fed' \subseteq Conns
    BY DEF TypeOK, ConnectTo
  <1>9. transport' \in [Conns -> Transport] /\ nursery' \subseteq Conns /\ appAt' = "swap"
    BY DEF TypeOK, ConnectTo, Transport
  <1>10. UNCHANGED <<helloSent, serverHello, playback, opened, lost, lastPlayed, loopVars, farewells,
                     flushers, releasing, told, crashed>>
    BY DEF ConnectTo
  <1>. HIDE DEF dead, previous
  <1>. QED  BY <1>3, <1>6, <1>7, <1>8, <1>9, <1>10 DEF TypeOK, loopVars

LEMMA ApplicationTypeOK ==
  ASSUME TypeOK, Application \/ AppReturns
  PROVE  TypeOK'
  <1>1. CASE Disconnect
    <2>. DEFINE silent == {c \in nursery : ~Connected(c)}
    <2>1. Forget(silent, FALSE, {}) /\ Disarm(silent)
      BY <1>1 DEF Disconnect, Collect
    <2>2. silent \in SUBSET Conns
      BY DEF TypeOK
    <2>3. dispatch' \subseteq Conns /\ deferred' \subseteq Release /\ fed' \subseteq Conns
      BY <2>1, <2>2, ForgetOK
    <2>4. retry' \in [Conns -> 0..Attempts]
      BY <2>1, DisarmOK
    <2>5. nursery' \subseteq Conns /\ farewells' \subseteq Conns /\ appAt' = "swap"
      BY <1>1 DEF TypeOK, Disconnect, Collect, Managed
    <2>. QED  BY <1>1, <2>3, <2>4, <2>5 DEF TypeOK, Disconnect, Collect, transportVars, loopVars
  <1>2. ASSUME NEW c \in Conns, ConnectTo(c)
        PROVE  TypeOK'
    BY <1>2, ConnectToTypeOK
  <1>3. CASE AppSwap
    <2>1. releasing' \in [Threads -> SUBSET Release] /\ deferred' \subseteq Release
      BY <1>3, TakeReleasesOK DEF AppSwap, Threads
    <2>. QED
      BY <1>3, <2>1 DEF TypeOK, AppSwap, AppAfterFlush, transportVars, managed, loopVars
  <1>4. CASE PerformRelease("app")
    BY <1>4, PerformReleaseTypeOK DEF Threads
  <1>5. CASE AppReleased
    BY <1>5 DEF TypeOK, AppReleased, AppAfterFlush, transportVars, managed, loopVars
  <1>6. ASSUME NEW c \in Conns, SayGoodbye(c)
        PROVE  TypeOK'
    <2>1. {c} \in SUBSET Conns /\ Stopped({c}, {})
      BY <1>6 DEF SayGoodbye
    <2>2. /\ transport' \in [Conns -> Transport]
          /\ helloSent' \subseteq Conns /\ serverHello' \subseteq Conns /\ lost' \subseteq Conns
      BY <2>1, StoppedOK
    <2>. QED  BY <1>6, <2>2 DEF TypeOK, SayGoodbye, managed, loopVars
  <1>. QED  BY <1>1, <1>2, <1>3, <1>4, <1>5, <1>6 DEF Application, AppReturns

LEMMA TypeOKStep ==
  ASSUME TypeOK, [Next]_vars
  PROVE  TypeOK'
  <1>1. CASE Remember
    BY <1>1, ConnAssumption DEF TypeOK, Remember, transportVars, managed, loopVars, appVars
  <1>2. CASE UNCHANGED vars
    BY <1>2 DEF TypeOK, vars, transportVars, managed, loopVars, appVars
  <1>. QED
    BY <1>1, <1>2, TransportsTypeOK, FlushesTypeOK, LoopTypeOK, ApplicationTypeOK DEF Next

-----------------------------------------------------------------------------
(* What is managed: timers and dispatch belong to it.                         *)

LEMMA NurseryStep ==
  ASSUME TypeOK, RetriesAreNursed, OnlyManagedDispatch, [Next]_vars
  PROVE  RetriesAreNursed' /\ OnlyManagedDispatch'
  <1>. USE ConnAssumption DEF RetriesAreNursed, OnlyManagedDispatch, Managed, managed
  <1>1. ASSUME NEW c \in Conns, NewConnection(c)
        PROVE  RetriesAreNursed' /\ OnlyManagedDispatch'
    BY <1>1 DEF TypeOK, NewConnection, Admit, TurnAway
  <1>2. ASSUME NEW c \in Conns, FailToReceive(c)
        PROVE  RetriesAreNursed' /\ OnlyManagedDispatch'
    BY <1>2 DEF FailToReceive
  <1>3. CASE ProcessEvents
    BY <1>3 DEF TypeOK, ProcessEvents, DropLost, Forget, Leaving
  <1>4. ASSUME NEW c \in Conns, Scan(c)
        PROVE  RetriesAreNursed' /\ OnlyManagedDispatch'
    BY <1>4 DEF TypeOK, Scan, LeaveInNursery, Promote, Refuse, Forget, Leaving, Disarm
  <1>5. ASSUME NEW c \in Conns, HelloTimer(c)
        PROVE  RetriesAreNursed' /\ OnlyManagedDispatch'
    BY <1>5 DEF TypeOK, HelloTimer, NotDue, GiveUp, SendHello, RetryHello, Disarm
  <1>6. ASSUME NEW overdue \in SUBSET nursery, Reap(overdue)
        PROVE  RetriesAreNursed' /\ OnlyManagedDispatch'
    BY <1>6 DEF TypeOK, Reap, Released, Forget, Leaving, Disarm
  <1>7. ASSUME NEW c \in Conns, ConnectTo(c)
        PROVE  RetriesAreNursed' /\ OnlyManagedDispatch'
    BY <1>7 DEF TypeOK, ConnectTo, Leaving, Disarm
  <1>8. CASE Disconnect
    BY <1>8 DEF TypeOK, Disconnect, Collect, Forget, Leaving, Disarm
  <1>9. CASE Transports
    <2>1. PICK c \in Conns :
           \/ NewConnection(c) \/ Open(c) \/ FailToOpen(c) \/ Shut(c) \/ Close(c)
           \/ FailToReceive(c) \/ ServerHello(c) \/ RoleMessage(c)
      BY <1>9 DEF Transports
    <2>2. CASE Open(c) \/ FailToOpen(c) \/ Shut(c) \/ Close(c) \/ ServerHello(c)
      BY <2>2 DEF Open, FailToOpen, Shut, Close, ServerHello
    <2>3. CASE RoleMessage(c)
      BY <2>3 DEF RoleMessage
    <2>. QED  BY <1>1, <1>2, <2>1, <2>2, <2>3
  <1>10. CASE Flushes \/ Remember \/ AppReturns \/ UNCHANGED vars
    BY <1>10 DEF Flushes, AppReturns, Remember, PerformRelease, FlushNew, AppSwap, AppReleased,
                 SayGoodbye, vars
  <1>11. CASE Loop
    BY <1>3, <1>4, <1>5, <1>6, <1>11 DEF Loop, PerformRelease, LoopSwap, LoopReleased
  <1>. QED  BY <1>7, <1>8, <1>9, <1>10, <1>11 DEF Next, Application

-----------------------------------------------------------------------------
(* Where a connection is.                                                     *)

(* A connection that is not there yet is known to nobody.                     *)
Fresh == \A c \in Conns : transport[c] = "none" =>
            /\ c \notin Managed \cup told
            /\ \A r \in Releases : r.conn # c

(* The promotion scan has still to visit members of the nursery only.         *)
ScanOfNursery == loopAt = "scan" => work \subseteq nursery

Places == OnePlace /\ Fresh /\ ScanOfNursery

(* Connections that leave management are queued once, next to those that      *)
(* were queued before.                                                        *)
LEMMA QueuedOnce ==
  ASSUME TypeOK, OnePlace, NEW leaving \in SUBSET Conns, NEW goodbyes,
         \A r \in Releases : r.conn \notin leaving,
         deferred' = deferred \cup {[conn |-> c, goodbye |-> c \in goodbyes] : c \in leaving},
         UNCHANGED releasing,
         \A c \in Managed' : c \notin leaving /\ \A r \in Releases : r.conn # c,
         current' \notin nursery'
  PROVE  OnePlace'
  <1>. DEFINE new == {[conn |-> c, goodbye |-> c \in goodbyes] : c \in leaving}
  <1>1. \A r \in new : r.conn \in leaving
    OBVIOUS
  <1>2. \A r, s \in new : r.conn = s.conn => r = s
    OBVIOUS
  <1>3. Releases' = Releases \cup new
    BY DEF Releases
  <1>4. \A t \in Threads : releasing[t] \subseteq Releases
    BY DEF Releases
  <1>5. \A r \in Releases' : r.conn \notin Managed'
    BY <1>1, <1>3
  <1>6. \A r, s \in Releases' : r.conn = s.conn => r = s
    BY <1>1, <1>2, <1>3 DEF OnePlace
  <1>7. \A r \in deferred', t \in Threads : r \notin releasing'[t]
    BY <1>1, <1>4 DEF OnePlace
  <1>. HIDE DEF new
  <1>. QED  BY <1>5, <1>6, <1>7 DEF OnePlace

(* A flush moves the queue to a thread.                                       *)
LEMMA TakenOnce ==
  ASSUME TypeOK, OnePlace, NEW t \in Threads, TakeReleases(t), UNCHANGED <<nursery, current>>
  PROVE  OnePlace' /\ Releases' = Releases
  <1>1. \A u \in Threads : releasing'[u] = IF u = t THEN releasing[u] \cup deferred ELSE releasing[u]
    BY DEF TypeOK, TakeReleases
  <1>2. Releases' = Releases
    BY <1>1 DEF TakeReleases, Releases
  <1>. QED  BY <1>1, <1>2 DEF OnePlace, TakeReleases, Managed

(* A release that was performed is gone.                                      *)
LEMMA PerformedOnce ==
  ASSUME TypeOK, Places, NEW t \in Threads, PerformRelease(t)
  PROVE  Places'
  <1>. PICK r \in releasing[t] :
           /\ releasing' = [releasing EXCEPT ![t] = @ \ {r}]
           /\ Stopped(IF r.goodbye THEN {r.conn} ELSE {}, {r.conn})
           /\ told' = told \ {r.conn}
    BY DEF PerformRelease
  <1>1. UNCHANGED <<nursery, current, deferred, loopAt, work>>
    BY DEF PerformRelease, managed, loopVars
  <1>2. \A u \in Threads : releasing'[u] \subseteq releasing[u]
    BY DEF TypeOK
  <1>3. Releases' \subseteq Releases
    BY <1>1, <1>2 DEF Releases
  <1>4. \A c \in Conns : transport'[c] = "none" => transport[c] = "none"
    BY DEF TypeOK, Stopped
  <1>5. OnePlace'
    BY <1>1, <1>2, <1>3 DEF Places, OnePlace, Managed
  <1>. QED  BY <1>1, <1>3, <1>4, <1>5 DEF Places, Fresh, ScanOfNursery, Managed

LEMMA NewConnectionPlaces ==
  ASSUME TypeOK, Places, NEW c \in Conns, NewConnection(c)
  PROVE  Places'
  <1>1. transport[c] = "none" /\ transport' = [transport EXCEPT ![c] = "open"] /\ loopAt # "scan"
    BY DEF NewConnection, Unlocked
  <1>2. UNCHANGED <<current, releasing, told, loopAt, work>>
    BY DEF NewConnection, loopVars
  <1>3. c \notin Managed /\ \A r \in Releases : r.conn # c
    BY <1>1 DEF Places, Fresh
  <1>4. CASE Admit(c)
    <2>1. UNCHANGED Releases /\ Managed' \subseteq Managed \cup {c}
      BY <1>2, <1>4 DEF Admit, Releases, Managed
    <2>2. current' \notin nursery'
      BY <1>2, <1>3, <1>4, ConnAssumption DEF Places, OnePlace, Managed, Admit
    <2>3. \A r \in Releases' : r.conn \notin Managed'
      BY <1>3, <2>1 DEF Places, OnePlace
    <2>4. OnePlace'
      <3>1. UNCHANGED <<deferred, releasing, Releases>>
        BY <1>2, <1>4, <2>1 DEF Admit
      <3>2. OnePlace
        BY DEF Places
      <3>. QED  BY <2>2, <2>3, <3>1, <3>2 DEF OnePlace
    <2>. QED  BY <1>1, <1>2, <2>1, <2>4 DEF TypeOK, Places, Fresh, ScanOfNursery
  <1>5. CASE TurnAway(c)
    <2>1. deferred' = deferred \cup {[conn |-> d, goodbye |-> d \in {c}] : d \in {c}}
      BY <1>5 DEF TurnAway
    <2>2. UNCHANGED Managed
      BY <1>2, <1>5 DEF TurnAway, Managed
    <2>3. OnePlace'
      <3>1. \A r \in Releases : r.conn \notin {c}
        BY <1>3
      <3>2. \A d \in Managed' : d \notin {c} /\ \A r \in Releases : r.conn # d
        BY <1>3, <2>2 DEF Places, OnePlace
      <3>3. current' \notin nursery' /\ {c} \in SUBSET Conns
        BY <1>2, <1>5 DEF TurnAway, Places, OnePlace
      <3>. QED  BY <1>2, <2>1, <3>1, <3>2, <3>3, QueuedOnce DEF Places
    <2>4. Releases' = Releases \cup {[conn |-> c, goodbye |-> TRUE]}
      BY <1>2, <1>5 DEF TurnAway, Releases
    <2>. QED  BY <1>1, <1>2, <2>2, <2>3, <2>4 DEF TypeOK, Places, Fresh, ScanOfNursery
  <1>. QED  BY <1>4, <1>5 DEF NewConnection

(* Managed connections leave, and those that stay or become current were      *)
(* managed before.                                                            *)
LEMMA LeftPlaces ==
  ASSUME TypeOK, Places, NEW leaving \in SUBSET Managed, NEW goodbyes,
         deferred' = deferred \cup {[conn |-> c, goodbye |-> c \in goodbyes] : c \in leaving},
         UNCHANGED <<transport, releasing>>,
         Managed' \subseteq Managed \ leaving, current' \notin nursery',
         told' \subseteq told \cup Managed, ScanOfNursery'
  PROVE  Places'
  <1>1. leaving \subseteq Conns
    BY DEF TypeOK, Managed
  <1>2. \A r \in Releases : r.conn \notin leaving
    BY DEF Places, OnePlace
  <1>3. \A c \in Managed' : c \notin leaving /\ \A r \in Releases : r.conn # c
    BY DEF Places, OnePlace
  <1>4. OnePlace'
    BY <1>1, <1>2, <1>3, QueuedOnce DEF Places
  <1>5. \A r \in Releases' : r \in Releases \/ r.conn \in leaving
    BY DEF Releases
  <1>. QED  BY <1>4, <1>5 DEF Places, Fresh

LEMMA ScanPlaces ==
  ASSUME TypeOK, Places, NEW c \in Conns, Scan(c)
  PROVE  Places'
  <1>1. c \in nursery /\ work' = work \ {c} /\ work \subseteq nursery
    BY DEF Scan, Places, ScanOfNursery
  <1>2. UNCHANGED <<transport, releasing>>
    BY DEF Scan, transportVars
  <1>3. c # None /\ c # current
    BY <1>1, ConnAssumption DEF Places, OnePlace
  <1>4. CASE LeaveInNursery(c)
    BY <1>1, <1>2, <1>4 DEF LeaveInNursery, managed, Places, OnePlace, Fresh, ScanOfNursery, Releases, Managed
  <1>5. CASE Promote(c)
    <2>. DEFINE leaving == Leaving({}, current # None)
    <2>1. leaving \in SUBSET Managed
      BY DEF Leaving, Managed
    <2>2. deferred' = deferred \cup {[conn |-> d, goodbye |-> d \in {current}] : d \in leaving}
      BY <1>5 DEF Promote, Forget
    <2>3. Managed' \subseteq Managed \ leaving
      BY <1>1, <1>3, <1>5 DEF Promote, Managed, Leaving, Places, OnePlace
    <2>4. current' \notin nursery' /\ told' \subseteq told \cup Managed /\ ScanOfNursery'
      BY <1>1, <1>5 DEF Promote, Managed, ScanOfNursery
    <2>. QED  BY <1>2, <2>1, <2>2, <2>3, <2>4, LeftPlaces
  <1>6. CASE Refuse(c)
    <2>1. deferred' = deferred \cup {[conn |-> d, goodbye |-> d \in {c}] : d \in {c}}
      BY <1>6 DEF Refuse, Forget, Leaving
    <2>2. {c} \in SUBSET Managed
      BY <1>1 DEF Managed
    <2>3. Managed' \subseteq Managed \ {c} /\ current' \notin nursery'
      BY <1>3, <1>6 DEF Refuse, Managed, Places, OnePlace
    <2>4. told' \subseteq told \cup Managed /\ ScanOfNursery'
      BY <1>1, <1>6 DEF Refuse, ScanOfNursery
    <2>. QED  BY <1>2, <2>1, <2>2, <2>3, <2>4, LeftPlaces
  <1>. QED  BY <1>4, <1>5, <1>6 DEF Scan

LEMMA LoopPlaces ==
  ASSUME TypeOK, Places, Loop
  PROVE  Places'
  <1>1. CASE ProcessEvents
    <2>. DEFINE leaving == Leaving(nursery \cap lost, current \in lost)
    <2>1. leaving \in SUBSET Managed
      BY ConnAssumption DEF TypeOK, Leaving, Managed
    <2>2. deferred' = deferred \cup {[conn |-> c, goodbye |-> c \in {}] : c \in leaving}
      BY <1>1 DEF ProcessEvents, DropLost, Forget
    <2>3. Managed' \subseteq Managed \ leaving /\ current' \notin nursery'
      BY <1>1, ConnAssumption DEF TypeOK, ProcessEvents, DropLost, Managed, Leaving, Places, OnePlace
    <2>4. UNCHANGED <<transport, releasing, told>> /\ ScanOfNursery'
      BY <1>1 DEF ProcessEvents, DropLost, StartPass, transportVars, ScanOfNursery
    <2>. HIDE DEF leaving
    <2>. QED  BY <2>1, <2>2, <2>3, <2>4, LeftPlaces
  <1>2. CASE LoopSwap
    <2>1. OnePlace' /\ Releases' = Releases
      BY <1>2, TakenOnce DEF LoopSwap, managed, Places, Threads
    <2>. QED
      BY <1>2, <2>1 DEF LoopSwap, AfterFlush, managed, transportVars, Places, Fresh, ScanOfNursery, Managed
  <1>3. CASE LoopReleased
    BY <1>3 DEF LoopReleased, AfterFlush, managed, transportVars, Places, OnePlace, Fresh, ScanOfNursery,
                Managed, Releases
  <1>4. ASSUME NEW overdue \in SUBSET nursery, Reap(overdue)
        PROVE  Places'
    <2>1. deferred' = deferred \cup {[conn |-> c, goodbye |-> c \in overdue] : c \in overdue}
      BY <1>4 DEF Reap, Released, Forget, Leaving
    <2>2. overdue \in SUBSET Managed
      BY DEF Managed
    <2>3. Managed' \subseteq Managed \ overdue /\ current' \notin nursery'
      BY <1>4 DEF Reap, Released, Managed, Places, OnePlace
    <2>4. UNCHANGED <<transport, releasing, told>> /\ ScanOfNursery'
      BY <1>4 DEF Reap, Released, transportVars, ScanOfNursery
    <2>. QED  BY <2>1, <2>2, <2>3, <2>4, LeftPlaces
  <1>5. CASE PerformRelease("loop")
    BY <1>5, PerformedOnce DEF Threads
  <1>6. ASSUME NEW c \in Conns, HelloTimer(c)
        PROVE  Places'
    BY <1>6 DEF HelloTimer, Places, OnePlace, Fresh, ScanOfNursery, Managed, Releases
  <1>. QED  BY <1>1, <1>2, <1>3, <1>4, <1>5, <1>6, ScanPlaces DEF Loop

LEMMA ApplicationPlaces ==
  ASSUME TypeOK, Places, Application \/ AppReturns
  PROVE  Places'
  <1>1. CASE Disconnect
    <2>. DEFINE silent == {c \in nursery : ~Connected(c)}
    <2>1. deferred' = deferred \cup {[conn |-> c, goodbye |-> c \in {}] : c \in silent}
      BY <1>1 DEF Disconnect, Collect, Forget, Leaving
    <2>2. silent \in SUBSET Managed /\ loopAt # "scan"
      BY <1>1 DEF Managed, Disconnect, Collect, Calls, Unlocked
    <2>3. Managed' \subseteq Managed \ silent /\ current' \notin nursery'
      BY <1>1 DEF Disconnect, Collect, Managed, Places, OnePlace
    <2>4. UNCHANGED <<transport, releasing, told>> /\ ScanOfNursery'
      BY <1>1, <2>2 DEF Disconnect, Collect, transportVars, loopVars, ScanOfNursery
    <2>. HIDE DEF silent
    <2>. QED  BY <2>1, <2>2, <2>3, <2>4, LeftPlaces
  <1>2. ASSUME NEW c \in Conns, ConnectTo(c)
        PROVE  Places'
    <2>. DEFINE dead == current # None /\ ~Connected(current)
                previous == nursery \cap Outbound
                leaving == Leaving(previous, dead)
    <2>1. deferred' = deferred \cup {[conn |-> d, goodbye |-> d \in previous] : d \in leaving}
      BY <1>2 DEF ConnectTo
    <2>2. transport[c] = "none" /\ c \in Outbound /\ loopAt # "scan"
      BY <1>2 DEF ConnectTo, Calls, Unlocked
    <2>3. c \notin Managed /\ \A r \in Releases : r.conn # c
      BY <2>2 DEF Places, Fresh
    <2>4. leaving \subseteq Managed
      BY DEF Leaving, Managed
    <2>5. Managed' \subseteq (Managed \ leaving) \cup {c} /\ current' \notin nursery'
      <3>1. nursery' = (nursery \ Outbound) \cup {c} /\ current' = IF dead THEN None ELSE current
        BY <1>2 DEF ConnectTo
      <3>2. leaving = (nursery \cap Outbound) \cup IF dead THEN {current} ELSE {}
        BY DEF Leaving
      <3>3. current \notin nursery /\ c # None /\ None \notin nursery
        BY ConnAssumption DEF TypeOK, Places, OnePlace
      <3>4. current' \notin nursery'
        BY <2>3, <3>1, <3>3 DEF Managed
      <3>. HIDE DEF dead, leaving
      <3>. QED  BY <3>1, <3>2, <3>3, <3>4 DEF Managed
    <2>6. UNCHANGED <<releasing, told, loopAt>> /\ transport' = [transport EXCEPT ![c] = "connecting"]
      BY <1>2 DEF ConnectTo, loopVars
    <2>. HIDE DEF dead, previous, leaving
    <2>7. leaving \in SUBSET Conns /\ \A r \in Releases : r.conn \notin leaving
      BY <2>4 DEF TypeOK, Managed, Places, OnePlace
    <2>8. \A d \in Managed' : d \notin leaving /\ \A r \in Releases : r.conn # d
      BY <2>3, <2>4, <2>5 DEF Places, OnePlace
    <2>9. OnePlace'
      BY <2>1, <2>5, <2>6, <2>7, <2>8, QueuedOnce DEF Places
    <2>10. \A r \in Releases' : r \in Releases \/ r.conn \in leaving
      BY <2>1, <2>6 DEF Releases
    <2>. QED
      BY <2>2, <2>4, <2>5, <2>6, <2>9, <2>10 DEF TypeOK, Places, Fresh, ScanOfNursery
  <1>3. CASE AppSwap
    <2>1. OnePlace' /\ Releases' = Releases
      BY <1>3, TakenOnce DEF AppSwap, managed, Places, Threads
    <2>. QED
      BY <1>3, <2>1 DEF AppSwap, managed, transportVars, loopVars, Places, Fresh, ScanOfNursery, Managed
  <1>4. CASE PerformRelease("app")
    BY <1>4, PerformedOnce DEF Threads
  <1>5. CASE AppReleased
    BY <1>5 DEF AppReleased, managed, transportVars, loopVars, Places, OnePlace, Fresh, ScanOfNursery,
                Managed, Releases
  <1>6. ASSUME NEW c \in Conns, SayGoodbye(c)
        PROVE  Places'
    <2>1. \A d \in Conns : transport'[d] = "none" => transport[d] = "none"
      BY <1>6 DEF TypeOK, SayGoodbye, Stopped
    <2>2. UNCHANGED <<managed, deferred, releasing, told, loopVars>>
      BY <1>6 DEF SayGoodbye
    <2>. QED
      BY <2>1, <2>2 DEF managed, loopVars, Places, OnePlace, Fresh, ScanOfNursery, Managed, Releases
  <1>. QED  BY <1>1, <1>2, <1>3, <1>4, <1>5, <1>6 DEF Application, AppReturns

LEMMA PlacesStep ==
  ASSUME TypeOK, Places, [Next]_vars
  PROVE  Places'
  <1>1. CASE Transports
    <2>1. PICK c \in Conns :
           \/ NewConnection(c) \/ Open(c) \/ FailToOpen(c) \/ Shut(c) \/ Close(c)
           \/ FailToReceive(c) \/ ServerHello(c) \/ RoleMessage(c)
      BY <1>1 DEF Transports
    <2>2. CASE Open(c) \/ FailToOpen(c) \/ Shut(c) \/ Close(c) \/ FailToReceive(c)
      <3>1. \A d \in Conns : transport'[d] = "none" => transport[d] = "none"
        BY <2>2 DEF TypeOK, Open, FailToOpen, Shut, Close, FailToReceive
      <3>2. UNCHANGED <<current, nursery, deferred, releasing, told, loopAt, work>>
        BY <2>2 DEF Open, FailToOpen, Shut, Close, FailToReceive, managed, loopVars
      <3>. QED  BY <3>1, <3>2 DEF Places, OnePlace, Fresh, ScanOfNursery, Managed, Releases
    <2>3. CASE ServerHello(c) \/ RoleMessage(c)
      BY <2>3 DEF ServerHello, RoleMessage, transportVars, managed, loopVars, Places, OnePlace, Fresh,
                  ScanOfNursery, Managed, Releases
    <2>. QED  BY <2>1, <2>2, <2>3, NewConnectionPlaces
  <1>2. ASSUME NEW c \in Inbound, FlushNew(c)
        PROVE  Places'
    <2>1. OnePlace' /\ Releases' = Releases
      BY <1>2, TakenOnce DEF FlushNew, managed, Places, Threads
    <2>. QED
      BY <1>2, <2>1 DEF FlushNew, managed, transportVars, loopVars, Places, Fresh, ScanOfNursery, Managed
  <1>3. CASE PerformRelease("net")
    BY <1>3, PerformedOnce DEF Threads
  <1>4. CASE Remember \/ UNCHANGED vars
    BY <1>4 DEF Remember, vars, managed, transportVars, loopVars, Places, OnePlace, Fresh, ScanOfNursery,
                Managed, Releases
  <1>. QED
    BY <1>1, <1>2, <1>3, <1>4, LoopPlaces, ApplicationPlaces DEF Next, Flushes

-----------------------------------------------------------------------------
(* The size of the nursery.                                                   *)

LEMMA SmallerNursery ==
  ASSUME TypeOK, NurseryBounded, nursery' \subseteq nursery
  PROVE  NurseryBounded'
  <1>1. /\ IsFiniteSet(nursery \cap Inbound) /\ IsFiniteSet(nursery \cap Outbound)
        /\ Cardinality(nursery \cap Inbound) \in Nat /\ Cardinality(nursery \cap Outbound) \in Nat
    BY FS_Subset, FS_CardinalityType, ConnAssumption
  <1>2. /\ nursery' \cap Inbound \in SUBSET (nursery \cap Inbound)
        /\ nursery' \cap Outbound \in SUBSET (nursery \cap Outbound)
    OBVIOUS
  <1>3. IsFiniteSet(nursery' \cap Inbound) /\ Cardinality(nursery' \cap Inbound) <= Cardinality(nursery \cap Inbound)
    BY <1>1, <1>2, FS_Subset
  <1>4. IsFiniteSet(nursery' \cap Outbound) /\ Cardinality(nursery' \cap Outbound) <= Cardinality(nursery \cap Outbound)
    BY <1>1, <1>2, FS_Subset
  <1>5. Cardinality(nursery' \cap Inbound) \in Nat /\ Cardinality(nursery' \cap Outbound) \in Nat
    BY <1>3, <1>4, FS_CardinalityType
  <1>. QED  BY <1>1, <1>3, <1>4, <1>5, ConnAssumption DEF NurseryBounded

LEMMA BoundedStep ==
  ASSUME TypeOK, NurseryBounded, [Next]_vars
  PROVE  NurseryBounded'
  <1>1. ASSUME NEW c \in Conns, NewConnection(c)
        PROVE  NurseryBounded'
    <2>1. c \in Inbound /\ c \notin Outbound
      BY <1>1, ConnAssumption DEF NewConnection
    <2>2. CASE Admit(c)
      <3>1. IsFiniteSet(nursery \cap Inbound) /\ Cardinality(nursery \cap Inbound) \in Nat
        BY FS_Subset, FS_CardinalityType, ConnAssumption
      <3>2. /\ nursery' \cap Inbound = (nursery \cap Inbound) \cup {c}
            /\ nursery' \cap Outbound = nursery \cap Outbound
        BY <2>1, <2>2 DEF Admit
      <3>3. Cardinality(nursery' \cap Inbound) <= Cardinality(nursery \cap Inbound) + 1
        BY <3>1, <3>2, FS_AddElement
      <3>4. Cardinality(nursery' \cap Inbound) \in Nat
        BY <3>1, <3>2, FS_AddElement, FS_CardinalityType
      <3>5. Cardinality(nursery' \cap Outbound) <= 1
        BY <3>2 DEF NurseryBounded
      <3>6. Cardinality(nursery \cap Inbound) < Capacity
        BY <2>2 DEF Admit
      <3>. QED
        BY <3>1, <3>3, <3>4, <3>5, <3>6, ConnAssumption DEF NurseryBounded
    <2>3. CASE TurnAway(c)
      BY <2>3, SmallerNursery DEF TurnAway
    <2>. QED  BY <1>1, <2>2, <2>3 DEF NewConnection
  <1>2. ASSUME NEW c \in Conns, ConnectTo(c)
        PROVE  NurseryBounded'
    <2>1. c \in Outbound /\ nursery' = (nursery \ Outbound) \cup {c}
      BY <1>2 DEF ConnectTo
    <2>2. nursery' \cap Inbound = nursery \cap Inbound /\ nursery' \cap Outbound = {c}
      BY <2>1, ConnAssumption
    <2>. QED  BY <2>2, FS_Singleton DEF NurseryBounded
  <1>3. CASE Transports
    <2>1. PICK c \in Conns :
           \/ NewConnection(c) \/ Open(c) \/ FailToOpen(c) \/ Shut(c) \/ Close(c)
           \/ FailToReceive(c) \/ ServerHello(c) \/ RoleMessage(c)
      BY <1>3 DEF Transports
    <2>2. CASE \/ Open(c) \/ FailToOpen(c) \/ Shut(c) \/ Close(c) \/ FailToReceive(c)
               \/ ServerHello(c) \/ RoleMessage(c)
      BY <2>2, SmallerNursery DEF Open, FailToOpen, Shut, Close, FailToReceive, ServerHello, RoleMessage,
                                  managed
    <2>. QED  BY <1>1, <2>1, <2>2
  <1>4. CASE Flushes \/ Remember \/ AppReturns \/ UNCHANGED vars
    BY <1>4, SmallerNursery DEF Flushes, AppReturns, Remember, PerformRelease, FlushNew, AppSwap,
                                AppReleased, SayGoodbye, vars, managed
  <1>5. CASE Loop
    <2>1. nursery' \subseteq nursery
      BY <1>5 DEF Loop, ProcessEvents, DropLost, LoopSwap, LoopReleased, Reap, Released, PerformRelease,
                  Scan, LeaveInNursery, Promote, Refuse, HelloTimer, managed
    <2>. QED  BY <2>1, SmallerNursery
  <1>6. CASE Disconnect
    BY <1>6, SmallerNursery DEF Disconnect, Collect
  <1>. QED  BY <1>2, <1>3, <1>4, <1>5, <1>6 DEF Next, Application

-----------------------------------------------------------------------------
(* The loop thread and the application keep out of each other's way when      *)
(* they are the same.                                                         *)
OneCaller ==
    /\ SameThread /\ appAt # "idle" => loopAt = "idle" /\ farewells \subseteq Managed
    /\ appAt = "idle" => farewells = {}

LEMMA OneCallerStep ==
  ASSUME TypeOK, OneCaller, [Next]_vars
  PROVE  OneCaller'
  <1>. USE DEF OneCaller
  <1>1. ASSUME NEW c \in Conns, NewConnection(c)
        PROVE  OneCaller'
    BY <1>1 DEF NewConnection, Admit, TurnAway, Managed, loopVars, appVars
  <1>2. CASE Transports
    <2>1. PICK c \in Conns :
           \/ NewConnection(c) \/ Open(c) \/ FailToOpen(c) \/ Shut(c) \/ Close(c)
           \/ FailToReceive(c) \/ ServerHello(c) \/ RoleMessage(c)
      BY <1>2 DEF Transports
    <2>2. CASE \/ Open(c) \/ FailToOpen(c) \/ Shut(c) \/ Close(c) \/ FailToReceive(c)
               \/ ServerHello(c) \/ RoleMessage(c)
      BY <2>2 DEF Open, FailToOpen, Shut, Close, FailToReceive, ServerHello, RoleMessage, managed,
                  Managed, loopVars, appVars
    <2>. QED  BY <1>1, <2>1, <2>2
  <1>3. CASE Flushes \/ Remember \/ UNCHANGED vars
    BY <1>3 DEF Flushes, PerformRelease, FlushNew, Remember, vars, managed, Managed, loopVars, appVars
  <1>4. CASE Loop
    <2>1. CASE PerformRelease("loop")
      BY <2>1 DEF PerformRelease, managed, Managed, loopVars, appVars
    <2>2. CASE ~PerformRelease("loop")
      <3>1. (loopAt # "idle" \/ (SameThread => appAt = "idle")) /\ UNCHANGED <<appAt, farewells>>
        BY <1>4, <2>2 DEF Loop, ProcessEvents, StartPass, LoopSwap, LoopReleased, Reap, Released, Scan,
                          HelloTimer, appVars
      <3>. QED  BY <3>1
    <2>. QED  BY <2>1, <2>2
  <1>5. CASE Disconnect
    BY <1>5 DEF Disconnect, Collect, Calls, Managed, loopVars
  <1>6. ASSUME NEW c \in Conns, ConnectTo(c)
        PROVE  OneCaller'
    BY <1>6 DEF ConnectTo, Calls, loopVars
  <1>7. CASE AppSwap \/ AppReleased \/ PerformRelease("app")
    BY <1>7 DEF AppSwap, AppReleased, PerformRelease, AppAfterFlush, managed, Managed, loopVars, appVars
  <1>8. ASSUME NEW c \in Conns, SayGoodbye(c)
        PROVE  OneCaller'
    BY <1>8 DEF SayGoodbye, managed, Managed, loopVars
  <1>. QED
    BY <1>2, <1>3, <1>4, <1>5, <1>6, <1>7, <1>8 DEF Next, Application, AppReturns

-----------------------------------------------------------------------------
(* A connection that is still connected is managed, or a goodbye is on its    *)
(* way to it: only those whose transport is down are let go of silently.      *)
Reached(c) == c \in Managed \/ \E r \in Releases : r.conn = c /\ r.goodbye

Reach ==
    /\ \A c \in Conns : Connected(c) => Reached(c)
    /\ \A c \in lost : transport[c] \in {"closed", "failing"}
    /\ NoMemory \cap Outbound = {} => \A c \in Conns : transport[c] # "failing"

LEMMA LeftReach ==
  ASSUME TypeOK, Reach, NEW leaving \in SUBSET Conns, NEW goodbyes,
         deferred' = deferred \cup {[conn |-> c, goodbye |-> c \in goodbyes] : c \in leaving},
         UNCHANGED <<transport, releasing>>, lost' \subseteq lost,
         Managed \ leaving \subseteq Managed',
         \A c \in leaving : c \in goodbyes \/ ~Connected(c)
  PROVE  Reach'
  <1>1. Releases \subseteq Releases'
    BY DEF Releases
  <1>2. ASSUME NEW c \in leaving, Connected(c)
        PROVE  \E r \in Releases' : r.conn = c /\ r.goodbye
    <2>1. [conn |-> c, goodbye |-> c \in goodbyes] \in Releases'
      BY DEF Releases
    <2>2. c \in goodbyes
      BY <1>2
    <2>. QED  BY <2>1, <2>2
  <1>3. \A c \in Conns : Connected(c)' => Connected(c)
    BY DEF Connected
  <1>. QED  BY <1>1, <1>2, <1>3 DEF Reach, Reached

(* Nothing but a transport changed, and no transport came up.                 *)
LEMMA DownReach ==
  ASSUME TypeOK, Reach, UNCHANGED <<nursery, current, Releases>>,
         \A c \in Conns : Connected(c)' => Connected(c),
         \A c \in lost' : transport'[c] \in {"closed", "failing"},
         NoMemory \cap Outbound = {} => \A c \in Conns : transport'[c] # "failing"
  PROVE  Reach'
  BY DEF Reach, Reached, Managed

(* What a stop does to the transports.                                        *)
LEMMA StoppedReach ==
  ASSUME TypeOK, Reach, NEW conns \in SUBSET Conns, NEW ended, Stopped(conns, ended)
  PROVE  /\ \A c \in Conns : Connected(c)' => Connected(c) /\ c \notin conns
         /\ \A c \in lost' : transport'[c] \in {"closed", "failing"}
         /\ NoMemory \cap Outbound = {} => \A c \in Conns : transport'[c] # "failing"
  <1>1. \A c \in Conns : Connected(c)' => Connected(c) /\ c \notin conns
    BY ConnAssumption DEF TypeOK, Stopped, Connected, Conns
  <1>2. \A c \in lost' : transport'[c] \in {"closed", "failing"}
    BY DEF TypeOK, Reach, Stopped, Connected
  <1>3. NoMemory \cap Outbound = {} => \A c \in Conns : transport'[c] # "failing"
    BY DEF TypeOK, Reach, Stopped
  <1>. QED  BY <1>1, <1>2, <1>3

LEMMA PerformedReach ==
  ASSUME TypeOK, Reach, NEW t \in Threads, PerformRelease(t)
  PROVE  Reach'
  <1>. PICK r \in releasing[t] :
           /\ releasing' = [releasing EXCEPT ![t] = @ \ {r}]
           /\ Stopped(IF r.goodbye THEN {r.conn} ELSE {}, {r.conn})
    BY DEF PerformRelease
  <1>1. (IF r.goodbye THEN {r.conn} ELSE {}) \in SUBSET Conns
    BY DEF TypeOK, Release
  <1>2. /\ \A c \in Conns : Connected(c)' => Connected(c) /\ c \notin IF r.goodbye THEN {r.conn} ELSE {}
        /\ \A c \in lost' : transport'[c] \in {"closed", "failing"}
        /\ NoMemory \cap Outbound = {} => \A c \in Conns : transport'[c] # "failing"
    BY <1>1, StoppedReach
  <1>3. \A s \in Releases : s = r \/ s \in Releases'
    BY DEF TypeOK, Releases, PerformRelease
  <1>4. UNCHANGED Managed
    BY DEF PerformRelease, managed, Managed
  <1>5. ASSUME NEW c \in Conns, Connected(c)'
        PROVE  Reached(c)'
    <2>1. Reached(c) /\ ~(r.goodbye /\ r.conn = c)
      BY <1>2, <1>5 DEF Reach
    <2>. QED  BY <1>3, <1>4, <2>1 DEF Reached
  <1>. QED  BY <1>2, <1>5 DEF Reach

LEMMA TakenReach ==
  ASSUME TypeOK, Reach, NEW t \in Threads, TakeReleases(t), UNCHANGED <<nursery, current, transport, lost>>
  PROVE  Reach'
  <1>1. \A u \in Threads : releasing'[u] = IF u = t THEN releasing[u] \cup deferred ELSE releasing[u]
    BY DEF TypeOK, TakeReleases
  <1>2. Releases' = Releases
    BY <1>1 DEF TakeReleases, Releases
  <1>. QED  BY <1>2, DownReach DEF Reach, Connected

LEMMA TransportsReach ==
  ASSUME TypeOK, Reach, Transports
  PROVE  Reach'
  <1>. PICK c \in Conns :
           \/ NewConnection(c) \/ Open(c) \/ FailToOpen(c) \/ Shut(c) \/ Close(c)
           \/ FailToReceive(c) \/ ServerHello(c) \/ RoleMessage(c)
    BY DEF Transports
  <1>1. CASE NewConnection(c) \/ Open(c)
    <2>1. transport' = [transport EXCEPT ![c] = "open"] /\ c \notin lost /\ UNCHANGED <<lost, current, releasing>>
      BY <1>1 DEF TypeOK, Reach, NewConnection, Open, managed
    <2>2. nursery \subseteq nursery' /\ deferred \subseteq deferred'
      BY <1>1 DEF NewConnection, Admit, TurnAway, Open, managed
    <2>3. Releases \subseteq Releases' /\ Managed \subseteq Managed'
      BY <2>1, <2>2 DEF Releases, Managed
    <2>4. Reached(c)'
      <3>1. CASE Open(c)
        BY <3>1 DEF Open, managed, Reached, Managed
      <3>2. CASE NewConnection(c) /\ Admit(c)
        BY <3>2 DEF Admit, Reached, Managed
      <3>3. CASE NewConnection(c) /\ TurnAway(c)
        <4>1. [conn |-> c, goodbye |-> TRUE] \in Releases'
          BY <3>3 DEF TurnAway, Releases
        <4>. QED  BY <4>1 DEF Reached
      <3>. QED  BY <1>1, <3>1, <3>2, <3>3 DEF NewConnection
    <2>5. ASSUME NEW d \in Conns, Connected(d)'
          PROVE  Reached(d)'
      <3>1. d = c \/ Connected(d)
        BY <2>1, <2>5 DEF TypeOK, Connected
      <3>. QED  BY <2>3, <2>4, <3>1 DEF Reach, Reached
    <2>. QED  BY <2>1, <2>5 DEF TypeOK, Reach
  <1>2. CASE FailToOpen(c) \/ Shut(c) \/ Close(c) \/ FailToReceive(c)
    <2>1. UNCHANGED <<nursery, current, deferred, releasing>>
      BY <1>2 DEF FailToOpen, Shut, Close, FailToReceive, managed
    <2>2. UNCHANGED Releases
      BY <2>1 DEF Releases
    <2>3. \A d \in Conns : Connected(d)' => Connected(d)
      BY <1>2 DEF TypeOK, FailToOpen, Shut, Close, FailToReceive, Connected
    <2>4. \A d \in lost' : transport'[d] \in {"closed", "failing"}
      BY <1>2 DEF TypeOK, Reach, FailToOpen, Shut, Close, FailToReceive
    <2>5. NoMemory \cap Outbound = {} => \A d \in Conns : transport'[d] # "failing"
      BY <1>2 DEF TypeOK, Reach, FailToOpen, Shut, Close, FailToReceive
    <2>. QED  BY <2>1, <2>2, <2>3, <2>4, <2>5, DownReach
  <1>3. CASE ServerHello(c) \/ RoleMessage(c)
    BY <1>3 DEF ServerHello, RoleMessage, transportVars, managed, Reach, Reached, Managed, Releases, Connected
  <1>. QED  BY <1>1, <1>2, <1>3

LEMMA LoopReach ==
  ASSUME TypeOK, Reach, Loop
  PROVE  Reach'
  <1>1. CASE ProcessEvents
    <2>. DEFINE leaving == Leaving(nursery \cap lost, current \in lost)
                nobody == {}
    <2>1. leaving \in SUBSET Conns /\ \A c \in leaving : c \in lost
      BY ConnAssumption DEF TypeOK, Leaving
    <2>2. deferred' = deferred \cup {[conn |-> c, goodbye |-> c \in nobody] : c \in leaving}
      BY <1>1 DEF ProcessEvents, DropLost, Forget
    <2>3. Managed \ leaving \subseteq Managed'
      BY <1>1, ConnAssumption DEF TypeOK, ProcessEvents, DropLost, Managed, Leaving
    <2>4. UNCHANGED <<transport, releasing>> /\ lost' \subseteq lost
      BY <1>1 DEF ProcessEvents, StartPass, transportVars
    <2>5. \A c \in leaving : ~Connected(c)
      BY <2>1 DEF Reach, Connected
    <2>. HIDE DEF leaving, nobody
    <2>. QED  BY <2>1, <2>2, <2>3, <2>4, <2>5, LeftReach
  <1>2. CASE LoopSwap
    BY <1>2, TakenReach DEF LoopSwap, managed, transportVars, Threads
  <1>3. CASE LoopReleased
    BY <1>3 DEF LoopReleased, managed, transportVars, Reach, Reached, Managed, Releases, Connected
  <1>4. ASSUME NEW overdue \in SUBSET nursery, Reap(overdue)
        PROVE  Reach'
    <2>1. deferred' = deferred \cup {[conn |-> c, goodbye |-> c \in overdue] : c \in overdue}
      BY <1>4 DEF Reap, Released, Forget, Leaving
    <2>2. Managed \ overdue \subseteq Managed' /\ overdue \in SUBSET Conns
      BY <1>4 DEF TypeOK, Reap, Released, Managed
    <2>3. UNCHANGED <<transport, releasing, lost>>
      BY <1>4 DEF Reap, Released, transportVars
    <2>. QED  BY <2>1, <2>2, <2>3, LeftReach
  <1>5. CASE PerformRelease("loop")
    BY <1>5, PerformedReach DEF Threads
  <1>6. ASSUME NEW c \in Conns, HelloTimer(c)
        PROVE  Reach'
    BY <1>6 DEF HelloTimer, Reach, Reached, Managed, Releases, Connected
  <1>7. ASSUME NEW c \in Conns, Scan(c)
        PROVE  Reach'
    <2>1. UNCHANGED <<transport, releasing, lost>>
      BY <1>7 DEF Scan, transportVars
    <2>2. CASE LeaveInNursery(c)
      BY <2>1, <2>2 DEF LeaveInNursery, managed, Reach, Reached, Managed, Releases, Connected
    <2>3. CASE Promote(c)
      <3>. DEFINE leaving == Leaving({}, current # None)
      <3>1. deferred' = deferred \cup {[conn |-> d, goodbye |-> d \in {current}] : d \in leaving}
        BY <2>3 DEF Promote, Forget
      <3>2. leaving \in SUBSET Conns /\ \A d \in leaving : d \in {current}
        BY DEF TypeOK, Leaving
      <3>3. Managed \ leaving \subseteq Managed'
        BY <2>3, ConnAssumption DEF Promote, Managed, Leaving
      <3>. HIDE DEF leaving
      <3>. QED  BY <2>1, <3>1, <3>2, <3>3, LeftReach
    <2>4. CASE Refuse(c)
      <3>1. deferred' = deferred \cup {[conn |-> d, goodbye |-> d \in {c}] : d \in {c}}
        BY <2>4 DEF Refuse, Forget, Leaving
      <3>2. Managed \ {c} \subseteq Managed' /\ {c} \in SUBSET Conns
        BY <2>4 DEF Refuse, Managed
      <3>. QED  BY <2>1, <3>1, <3>2, LeftReach
    <2>. QED  BY <1>7, <2>2, <2>3, <2>4 DEF Scan
  <1>. QED  BY <1>1, <1>2, <1>3, <1>4, <1>5, <1>6, <1>7 DEF Loop

LEMMA ApplicationReach ==
  ASSUME TypeOK, Reach, Application \/ AppReturns
  PROVE  Reach'
  <1>1. CASE Disconnect
    <2>. DEFINE silent == {c \in nursery : ~Connected(c)}
                nobody == {}
    <2>1. deferred' = deferred \cup {[conn |-> c, goodbye |-> c \in nobody] : c \in silent}
      BY <1>1 DEF Disconnect, Collect, Forget, Leaving
    <2>2. silent \in SUBSET Conns /\ \A c \in silent : ~Connected(c)
      BY DEF TypeOK
    <2>3. Managed \ silent \subseteq Managed' /\ UNCHANGED <<transport, releasing, lost>>
      BY <1>1 DEF Disconnect, Collect, Managed, transportVars
    <2>. HIDE DEF silent, nobody
    <2>. QED  BY <2>1, <2>2, <2>3, LeftReach
  <1>2. ASSUME NEW c \in Conns, ConnectTo(c)
        PROVE  Reach'
    <2>. DEFINE dead == current # None /\ ~Connected(current)
                previous == nursery \cap Outbound
                leaving == Leaving(previous, dead)
    <2>1. deferred' = deferred \cup {[conn |-> d, goodbye |-> d \in previous] : d \in leaving}
      BY <1>2 DEF ConnectTo
    <2>2. Releases \subseteq Releases'
      BY <1>2 DEF ConnectTo, Releases
    <2>3. Managed \ leaving \subseteq Managed'
      BY <1>2 DEF ConnectTo, Managed, Leaving
    <2>4. \A d \in leaving : d \in previous \/ ~Connected(d)
      BY DEF Leaving
    <2>5. /\ transport[c] = "none" /\ transport' = [transport EXCEPT ![c] = "connecting"]
          /\ UNCHANGED <<lost, releasing>>
      BY <1>2 DEF ConnectTo
    <2>6. ASSUME NEW d \in Conns, Connected(d)'
          PROVE  Reached(d)'
      <3>1. Connected(d)
        BY <2>5, <2>6 DEF TypeOK, Connected
      <3>2. CASE d \in leaving
        <4>1. [conn |-> d, goodbye |-> d \in previous] \in Releases'
          BY <2>1, <3>2 DEF Releases
        <4>2. d \in previous
          BY <2>4, <3>1, <3>2
        <4>. QED  BY <4>1, <4>2 DEF Reached
      <3>3. CASE d \notin leaving
        BY <2>2, <2>3, <3>1, <3>3 DEF Reach, Reached
      <3>. QED  BY <3>2, <3>3
    <2>. QED  BY <2>5, <2>6 DEF TypeOK, Reach
  <1>3. CASE AppSwap
    BY <1>3, TakenReach DEF AppSwap, managed, transportVars, Threads
  <1>4. CASE PerformRelease("app")
    BY <1>4, PerformedReach DEF Threads
  <1>5. CASE AppReleased
    BY <1>5 DEF AppReleased, managed, transportVars, Reach, Reached, Managed, Releases, Connected
  <1>6. ASSUME NEW c \in Conns, SayGoodbye(c)
        PROVE  Reach'
    <2>1. Stopped({c}, {}) /\ UNCHANGED <<nursery, current, deferred, releasing>>
      BY <1>6 DEF SayGoodbye, managed
    <2>2. UNCHANGED Releases
      BY <2>1 DEF Releases
    <2>3. {c} \in SUBSET Conns
      OBVIOUS
    <2>4. /\ \A d \in Conns : Connected(d)' => Connected(d) /\ d \notin {c}
          /\ \A d \in lost' : transport'[d] \in {"closed", "failing"}
          /\ NoMemory \cap Outbound = {} => \A d \in Conns : transport'[d] # "failing"
      BY <2>1, <2>3, StoppedReach
    <2>. QED  BY <2>1, <2>2, <2>4, DownReach
  <1>. QED  BY <1>1, <1>2, <1>3, <1>4, <1>5, <1>6 DEF Application, AppReturns

LEMMA ReachStep ==
  ASSUME TypeOK, Reach, [Next]_vars
  PROVE  Reach'
  <1>1. ASSUME NEW c \in Inbound, FlushNew(c)
        PROVE  Reach'
    BY <1>1, TakenReach DEF FlushNew, managed, transportVars, Threads
  <1>2. CASE PerformRelease("net")
    BY <1>2, PerformedReach DEF Threads
  <1>3. CASE Remember \/ UNCHANGED vars
    BY <1>3 DEF Remember, vars, managed, transportVars, Reach, Reached, Managed, Releases, Connected
  <1>. QED
    BY <1>1, <1>2, <1>3, TransportsReach, LoopReach, ApplicationReach DEF Next, Flushes

-----------------------------------------------------------------------------
(* A close is delivered to a connection somebody owns, unless a failed        *)
(* allocation gave it up.                                                     *)
CloseOwned == NoMemory \cap Outbound = {} => ~crashed

LEMMA CloseOwnedStep ==
  ASSUME TypeOK, Reach, CloseOwned, [Next]_vars
  PROVE  CloseOwned'
  <1>1. ASSUME NEW c \in Conns, Close(c), NoMemory \cap Outbound = {}
        PROVE  ~crashed'
    <2>1. CASE c \in Outbound
      <3>1. transport[c] = "shut"
        BY <1>1 DEF Close, Reach
      <3>2. Reached(c)
        BY <2>1, <3>1 DEF Reach, Connected
      <3>3. Owned(c)
        BY <3>2 DEF Reached, Owned, Releases, Taken
      <3>. QED  BY <1>1, <3>3 DEF Close
    <2>2. CASE c \notin Outbound
      BY <1>1, <2>2 DEF Close
    <2>. QED  BY <2>1, <2>2
  <1>2. ASSUME NEW c \in Conns,
               \/ NewConnection(c) \/ Open(c) \/ FailToOpen(c) \/ Shut(c) \/ FailToReceive(c)
               \/ ServerHello(c) \/ RoleMessage(c)
        PROVE  UNCHANGED crashed
    BY <1>2 DEF NewConnection, Open, FailToOpen, Shut, FailToReceive, ServerHello, RoleMessage
  <1>3. CASE Flushes \/ Remember \/ AppReturns \/ Application \/ UNCHANGED vars
    BY <1>3 DEF CloseOwned, Flushes, Remember, AppReturns, Application, PerformRelease, FlushNew, AppSwap,
                AppReleased, SayGoodbye, Disconnect, Collect, ConnectTo, vars
  <1>4. CASE Loop
    BY <1>4 DEF CloseOwned, Loop, ProcessEvents, StartPass, LoopSwap, LoopReleased, Reap, Released,
                PerformRelease, Scan, HelloTimer
  <1>. QED  BY <1>1, <1>2, <1>3, <1>4 DEF CloseOwned, Next, Transports

-----------------------------------------------------------------------------
(* When every server waits for the client's state, only the current           *)
(* connection can have been told it and still be listened to.                 *)
Knows == ~Eager => told \cap dispatch \subseteq {current} /\ fed \subseteq {current}

LEMMA KnowsStep ==
  ASSUME TypeOK, Places, Knows, [Next]_vars
  PROVE  Knows'
  <1>. USE DEF Knows
  <1>1. ASSUME NEW c \in Conns, NewConnection(c)
        PROVE  Knows'
    <2>1. c \notin told /\ UNCHANGED <<told, current, fed>> /\ dispatch' \subseteq dispatch \cup {c}
      BY <1>1 DEF NewConnection, Admit, TurnAway, Places, Fresh
    <2>. QED  BY <2>1
  <1>2. ASSUME NEW c \in Conns, RoleMessage(c)
        PROVE  Knows'
    BY <1>2 DEF RoleMessage, Heard
  <1>3. CASE Transports
    <2>1. PICK c \in Conns :
           \/ NewConnection(c) \/ Open(c) \/ FailToOpen(c) \/ Shut(c) \/ Close(c)
           \/ FailToReceive(c) \/ ServerHello(c) \/ RoleMessage(c)
      BY <1>3 DEF Transports
    <2>2. CASE Open(c) \/ FailToOpen(c) \/ Shut(c) \/ Close(c) \/ FailToReceive(c) \/ ServerHello(c)
      BY <2>2 DEF Open, FailToOpen, Shut, Close, FailToReceive, ServerHello, managed
    <2>. QED  BY <1>1, <1>2, <2>1, <2>2
  <1>4. CASE Flushes \/ Remember \/ AppReturns \/ UNCHANGED vars
    BY <1>4 DEF Flushes, Remember, AppReturns, PerformRelease, FlushNew, AppSwap, AppReleased, SayGoodbye,
                managed, vars
  <1>5. CASE ProcessEvents
    BY <1>5 DEF ProcessEvents, DropLost, StartPass, Forget, Leaving
  <1>6. ASSUME NEW c \in Conns, Scan(c)
        PROVE  Knows'
    <2>1. CASE LeaveInNursery(c)
      BY <2>1 DEF LeaveInNursery, managed
    <2>2. CASE Promote(c)
      <3>1. current' = c /\ told' = told \cup {c} /\ dispatch' \cap {current} \subseteq {None}
        BY <2>2 DEF Promote, Forget, Leaving
      <3>2. fed' = IF current # None THEN {} ELSE fed
        BY <2>2 DEF Promote, Forget
      <3>3. dispatch' \subseteq dispatch /\ None \notin told /\ None \notin fed
        BY <2>2, ConnAssumption DEF TypeOK, Promote, Forget
      <3>. QED  BY <3>1, <3>2, <3>3, ConnAssumption
    <2>3. CASE Refuse(c)
      BY <2>3 DEF Refuse, Forget
    <2>. QED  BY <1>6, <2>1, <2>2, <2>3 DEF Scan
  <1>7. CASE Loop
    BY <1>5, <1>6, <1>7 DEF Loop, LoopSwap, LoopReleased, Reap, Released, Forget, PerformRelease, HelloTimer,
                            managed
  <1>8. CASE Disconnect
    BY <1>8 DEF Disconnect, Collect, Forget
  <1>9. ASSUME NEW c \in Conns, ConnectTo(c)
        PROVE  Knows'
    <2>. DEFINE dead == current # None /\ ~Connected(current)
    <2>1. c \notin told /\ UNCHANGED told
      BY <1>9 DEF ConnectTo, Places, Fresh
    <2>2. /\ current' = IF dead THEN None ELSE current
          /\ fed' = IF dead THEN {} ELSE fed
          /\ dispatch' \subseteq dispatch \cup {c}
          /\ dead => dispatch' \cap {current} \subseteq {c}
      BY <1>9 DEF ConnectTo, Leaving
    <2>. HIDE DEF dead
    <2>. QED  BY <2>1, <2>2
  <1>. QED  BY <1>3, <1>4, <1>7, <1>8, <1>9 DEF Next, Application

-----------------------------------------------------------------------------
(* Every conjunct is inductive given those before it.                         *)
ConnInv ==
    TypeOK /\ RetriesAreNursed /\ OnlyManagedDispatch /\ NurseryBounded
    /\ Places /\ OneCaller /\ Reach /\ CloseOwned /\ Knows

LEMMA ConnInvInit == Init => ConnInv
  <1>. SUFFICES ASSUME Init
                PROVE  ConnInv
    OBVIOUS
  <1>. USE DEF Init
  <1>1. TypeOK
    <2>1. 0 \in 0..Attempts /\ Saved \in Servers \cup {None}
      BY ConnAssumption
    <2>2. releasing \in [Threads -> SUBSET Release] /\ retry \in [Conns -> 0..Attempts]
      BY <2>1
    <2>. QED  BY <2>1, <2>2 DEF TypeOK, Transport
  <1>2. Managed = {} /\ Releases = {}
    BY DEF Managed, Releases
  <1>3. RetriesAreNursed /\ OnlyManagedDispatch
    BY DEF RetriesAreNursed, OnlyManagedDispatch
  <1>4. NurseryBounded
    <2>1. nursery \cap Inbound = {} /\ nursery \cap Outbound = {}
      OBVIOUS
    <2>. QED  BY <2>1, FS_EmptySet, ConnAssumption DEF NurseryBounded
  <1>5. Places
    BY <1>2 DEF Places, OnePlace, Fresh, ScanOfNursery
  <1>6. OneCaller /\ Reach /\ CloseOwned /\ Knows
    BY DEF OneCaller, Reach, CloseOwned, Knows, Connected
  <1>. QED  BY <1>1, <1>3, <1>4, <1>5, <1>6 DEF ConnInv

(* The invariant of the connection manager, whatever its threads do.          *)
THEOREM ConnectionManagerInvariant == Spec => []ConnInv
  <1>1. ASSUME ConnInv, [Next]_vars
        PROVE  ConnInv'
    <2>1. TypeOK'
      BY <1>1, TypeOKStep DEF ConnInv
    <2>2. RetriesAreNursed' /\ OnlyManagedDispatch'
      BY <1>1, NurseryStep DEF ConnInv
    <2>3. NurseryBounded'
      BY <1>1, BoundedStep DEF ConnInv
    <2>4. Places'
      BY <1>1, PlacesStep DEF ConnInv
    <2>5. OneCaller'
      BY <1>1, OneCallerStep DEF ConnInv
    <2>6. Reach'
      BY <1>1, ReachStep DEF ConnInv
    <2>7. CloseOwned'
      BY <1>1, CloseOwnedStep DEF ConnInv
    <2>8. Knows'
      BY <1>1, KnowsStep DEF ConnInv
    <2>. QED  BY <2>1, <2>2, <2>3, <2>4, <2>5, <2>6, <2>7, <2>8 DEF ConnInv
  <1>. QED  BY <1>1, ConnInvInit, PTL DEF Spec

(* Every reachable state of the manager is well typed: the attempts left for  *)
(* a hello never leave 0..Attempts, and every thread, queue and container     *)
(* holds connections only.                                                    *)
THEOREM ConnectionManagerTypeOK == Spec => []TypeOK
  <1>1. ConnInv => TypeOK
    BY DEF ConnInv
  <1>. QED  BY <1>1, ConnectionManagerInvariant, PTL

(* The array loop() copies the nursery into is large enough: at most Capacity *)
(* accepted connections and one dialled are in it.                            *)
THEOREM ConnectionManagerBounded == Spec => []NurseryBounded
  <1>1. ConnInv => NurseryBounded
    BY DEF ConnInv
  <1>. QED  BY <1>1, ConnectionManagerInvariant, PTL

(* Hello timers are armed for members of the nursery only: every path out of  *)
(* the nursery removes them.                                                  *)
THEOREM ConnectionManagerRetries == Spec => []RetriesAreNursed
  <1>1. ConnInv => RetriesAreNursed
    BY DEF ConnInv
  <1>. QED  BY <1>1, ConnectionManagerInvariant, PTL

(* A connection that left management cannot reach the roles.                  *)
THEOREM ConnectionManagerDispatch == Spec => []OnlyManagedDispatch
  <1>1. ConnInv => OnlyManagedDispatch
    BY DEF ConnInv
  <1>. QED  BY <1>1, ConnectionManagerInvariant, PTL

(* A connection is released exactly once, by one thread, and never while it   *)
(* is managed, whichever threads flush the queue.                             *)
THEOREM ConnectionManagerOnePlace == Spec => []OnePlace
  <1>1. ConnInv => OnePlace
    BY DEF ConnInv, Places
  <1>. QED  BY <1>1, ConnectionManagerInvariant, PTL

(* No accepted connection is left open and forgotten.                         *)
THEOREM ConnectionManagerNoOrphan == Spec => []NoOrphan
  <1>1. ConnInv => NoOrphan
    BY DEF ConnInv, Reach, Reached, NoOrphan, Connected, Conns
  <1>. QED  BY <1>1, ConnectionManagerInvariant, PTL

(* An application that calls from the loop thread never stops a transport     *)
(* that another thread is stopping.                                           *)
THEOREM ConnectionManagerOneStopper ==
  ASSUME SameThread
  PROVE  Spec => []OneStopper
  <1>1. ConnInv => OneStopper
    BY DEF ConnInv, OneCaller, Places, OnePlace, OneStopper, Releases
  <1>. QED  BY <1>1, ConnectionManagerInvariant, PTL

(* As long as memory for messages can be had, no close is delivered to a      *)
(* connection that is being destroyed.                                        *)
THEOREM ConnectionManagerCallbacks ==
  ASSUME NoMemory \cap Outbound = {}
  PROVE  Spec => []CallbacksOnOwned
  <1>1. ConnInv => CallbacksOnOwned
    BY DEF ConnInv, CloseOwned, CallbacksOnOwned
  <1>. QED  BY <1>1, ConnectionManagerInvariant, PTL

(* When every server waits for the client's state, the roles know only what   *)
(* the current connection told them.                                          *)
THEOREM ConnectionManagerRoles ==
  ASSUME ~Eager
  PROVE  Spec => []RolesKnowCurrent
  <1>1. ConnInv => RolesKnowCurrent
    BY DEF ConnInv, Knows, RolesKnowCurrent
  <1>. QED  BY <1>1, ConnectionManagerInvariant, PTL
=============================================================================
