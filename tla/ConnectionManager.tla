------------------------- MODULE ConnectionManager -------------------------
(**************************************************************************      *)
(* The connection manager (connection_manager.cpp) with the host transports      *)
(* it drives (host/client_connection.cpp, host/server_connection.cpp,            *)
(* host/ws_server.cpp).  A connection is accepted from a server (Inbound)        *)
(* or dialled by connect_to() (Outbound), waits in the nursery until both        *)
(* hellos have been exchanged, and is then promoted to the current               *)
(* connection or turned away in favour of the incumbent.                         *)
(*                                                                               *)
(* Three kinds of threads meet here: the loop thread in loop(), the              *)
(* application in connect_to() and disconnect(), and the transports' own         *)
(* threads, which deliver new connections, messages and closes.  A section       *)
(* that holds conn_ptr_mutex_ and reads nothing a transport writes is one        *)
(* action; the others take the mutex in `loopAt'.  The atomic hints mirror       *)
(* the containers they count and are read as those.  The nursery is a set:       *)
(* its order only decides the order of the promotion scan, and every order       *)
(* is explored.                                                                  *)
(**************************************************************************      *)
EXTENDS FiniteSets, Naturals

CONSTANTS
    Inbound,     \* connections servers open
    Outbound,    \* connections connect_to() opens
    Capacity,    \* NURSERY_CAPACITY
    Attempts,    \* attempts to send a hello
    Servers,     \* the servers,
    ServerOf,    \* and the one at the other end of each connection
    None,        \* no connection, no server
    Saved,       \* the server load_last_played_server() found, or None
    SameThread,  \* TRUE when the application calls the API from the loop thread
    Eager,       \* TRUE when a server sends state before it has the client's
    NoMemory     \* the connections on which there may be no memory for a message

Conns == Inbound \cup Outbound

ASSUME ConnAssumption ==
    /\ IsFiniteSet(Inbound) /\ IsFiniteSet(Outbound)
    /\ Inbound \cap Outbound = {}
    /\ None \notin Conns \cup Servers
    /\ Capacity \in Nat \ {0} /\ Attempts \in Nat \ {0}
    /\ ServerOf \in [Conns -> Servers] /\ Saved \in Servers \cup {None}
    /\ SameThread \in BOOLEAN /\ Eager \in BOOLEAN /\ NoMemory \subseteq Conns

VARIABLES
    transport,   \* per connection, see Transport
    helloSent,   \* connections with client_hello_sent_
    serverHello, \* connections with server_hello_received_
    playback,    \* connections whose server named PLAYBACK as its reason
    dispatch,    \* connections with message_dispatch_enabled_
    current,     \* current_connection_
    nursery,     \* nursery_
    retry,       \* hello_retries_: the attempts left per connection, 0 for no entry
    deferred,    \* deferred_releases_
    opened,      \* pending_connected_events_
    lost,        \* pending_disconnect_events_
    lastPlayed,  \* the server last_played_server_hash_ stands for
    loopAt,      \* where loop() is
    work,        \* members of the nursery the phase of loop() has still to visit
    held,        \* connections the swapped event queues keep alive
    appAt,       \* where the application's call is
    farewells,   \* to_disconnect of disconnect()
    flushers,    \* threads of accepted connections about to flush the releases
    releasing,   \* releases taken out of deferred_releases_, per thread
    told,        \* connections the client state was published to
    fed,         \* connections whose messages shaped the roles since the last cleanup
    crashed      \* TRUE when a callback ran on a connection that is being destroyed

transportVars == <<transport, helloSent, serverHello, playback>>
managed == <<dispatch, current, nursery, retry, fed>>
loopVars == <<loopAt, work, held>>
appVars == <<appAt, farewells>>
vars == <<transportVars, managed, deferred, opened, lost, lastPlayed, loopVars,
          appVars, flushers, releasing, told, crashed>>

(* A transport is not there yet, dials, is open, was shut by either side         *)
(* before its Close was delivered, "failing" when a lack of memory made the      *)
(* client give it up before its Close, or closed.                                *)
Transport == {"none", "connecting", "open", "shut", "failing", "closed"}
Threads == {"loop", "app", "net"}
Release == [conn : Conns, goodbye : BOOLEAN]

TypeOK ==
    /\ transport \in [Conns -> Transport]
    /\ helloSent \subseteq Conns /\ serverHello \subseteq Conns /\ playback \subseteq Conns
    /\ dispatch \subseteq Conns
    /\ current \in Conns \cup {None}
    /\ nursery \subseteq Conns
    /\ retry \in [Conns -> 0..Attempts]
    /\ deferred \subseteq Release
    /\ opened \subseteq Conns /\ lost \subseteq Conns
    /\ lastPlayed \in Servers \cup {None}
    /\ loopAt \in {"idle", "scan", "swap", "release", "hellos", "swap2", "release2"}
    /\ work \subseteq Conns /\ held \subseteq Conns
    /\ appAt \in {"idle", "swap", "release", "farewells"}
    /\ farewells \subseteq Conns
    /\ flushers \subseteq Inbound
    /\ releasing \in [Threads -> SUBSET Release]
    /\ told \subseteq Conns /\ fed \subseteq Conns
    /\ crashed \in BOOLEAN

Init ==
    /\ transport = [c \in Conns |-> "none"]
    /\ helloSent = {} /\ serverHello = {} /\ playback = {}
    /\ dispatch = {} /\ current = None /\ nursery = {}
    /\ retry = [c \in Conns |-> 0]
    /\ deferred = {} /\ opened = {} /\ lost = {}
    /\ lastPlayed = Saved
    /\ loopAt = "idle" /\ work = {} /\ held = {}
    /\ appAt = "idle" /\ farewells = {}
    /\ flushers = {} /\ releasing = [t \in Threads |-> {}]
    /\ told = {} /\ fed = {} /\ crashed = FALSE

-----------------------------------------------------------------------------
(* Predicates of the code.                                                       *)

(* is_connected(): an outbound connection notices a shut transport with its      *)
(* Close only.                                                                   *)
Connected(c) == transport[c] = "open" \/ (c \in Outbound /\ transport[c] = "shut")

(* is_handshake_complete().                                                      *)
Complete(c) == c \in helloSent /\ c \in serverHello

Managed == nursery \cup ({current} \ {None})

(* conn_ptr_mutex_ is free.                                                      *)
Unlocked == loopAt \notin {"scan", "hellos"}

(* Someone holds a shared_ptr to an outbound connection.                         *)
Taken(t) == {r.conn : r \in releasing[t]}
Owned(c) ==
    \/ c \in Managed \cup opened \cup lost \cup held \cup farewells
    \/ c \in {r.conn : r \in deferred}
    \/ \E t \in Threads : c \in Taken(t)

(* should_switch_to_new_server().                                                *)
Prefers(new) ==
    \/ new \in playback
    \/ current \notin playback /\ ServerOf[new] = lastPlayed

-----------------------------------------------------------------------------
(* Leaving management: release_nursery_entry() of some connections and, when     *)
(* `drop' says so, drop_connection() of the current one, with its                *)
(* cleanup_connection_state().  Those in `goodbyes' are sent one.                *)
Leaving(entries, drop) == entries \cup (IF drop THEN {current} ELSE {})

(* Mutant: the roles keep what the dropped connection told them.                 *)
ForgetButKeepState(entries, drop, goodbyes) ==
    /\ dispatch' = dispatch \ Leaving(entries, drop)
    /\ deferred' = deferred \cup
           {[conn |-> c, goodbye |-> c \in goodbyes] : c \in Leaving(entries, drop)}
    /\ UNCHANGED fed

Forget(entries, drop, goodbyes) ==
    /\ dispatch' = dispatch \ Leaving(entries, drop)
    /\ deferred' = deferred \cup
           {[conn |-> c, goodbye |-> c \in goodbyes] : c \in Leaving(entries, drop)}
    /\ fed' = IF drop THEN {} ELSE fed

(* remove_hello_retry().                                                         *)
Disarm(conns) == retry' = [c \in Conns |-> IF c \in conns THEN 0 ELSE retry[c]]

-----------------------------------------------------------------------------
(* The transports.                                                               *)

(* Mutant: one entry too many.                                                   *)
AdmitOneMore(c) ==
    /\ Cardinality(nursery \cap Inbound) <= Capacity
    /\ nursery' = nursery \cup {c}
    /\ retry' = [retry EXCEPT ![c] = Attempts]
    /\ dispatch' = dispatch \cup {c}
    /\ UNCHANGED deferred

(* A server connects and has upgraded: on_new_connection() admits the            *)
(* connection into the nursery with its hello armed, or turns it away.           *)
Admit(c) ==
    /\ Cardinality(nursery \cap Inbound) < Capacity
    /\ nursery' = nursery \cup {c}
    /\ retry' = [retry EXCEPT ![c] = Attempts]
    /\ dispatch' = dispatch \cup {c}
    /\ UNCHANGED deferred

TurnAway(c) ==
    /\ Cardinality(nursery \cap Inbound) >= Capacity
    /\ deferred' = deferred \cup {[conn |-> c, goodbye |-> TRUE]}
    /\ UNCHANGED <<nursery, retry, dispatch>>

NewConnection(c) ==
    /\ c \in Inbound /\ transport[c] = "none" /\ Unlocked
    /\ transport' = [transport EXCEPT ![c] = "open"]
    /\ Admit(c) \/ TurnAway(c)
    /\ flushers' = flushers \cup {c}
    /\ UNCHANGED <<helloSent, serverHello, playback, current, fed, opened, lost, lastPlayed,
                   loopVars, appVars, releasing, told, crashed>>

(* An outbound connection opens.                                                 *)
Open(c) ==
    /\ c \in Outbound /\ transport[c] = "connecting"
    /\ c \in nursery
    /\ transport' = [transport EXCEPT ![c] = "open"]
    /\ opened' = opened \cup {c}
    /\ UNCHANGED <<helloSent, serverHello, playback, managed, deferred, lost, lastPlayed,
                   loopVars, appVars, flushers, releasing, told, crashed>>

(* It cannot connect, or is destroyed while it dials: no event is delivered.     *)
FailToOpen(c) ==
    /\ c \in Outbound /\ transport[c] = "connecting"
    /\ transport' = [transport EXCEPT ![c] = "closed"]
    /\ UNCHANGED <<helloSent, serverHello, playback, managed, deferred, opened, lost, lastPlayed,
                   loopVars, appVars, flushers, releasing, told, crashed>>

(* The peer goes away, or the destructor of an outbound connection stops it.     *)
Shut(c) ==
    /\ transport[c] = "open"
    /\ transport' = [transport EXCEPT ![c] = "shut"]
    /\ UNCHANGED <<helloSent, serverHello, playback, managed, deferred, opened, lost, lastPlayed,
                   loopVars, appVars, flushers, releasing, told, crashed>>

(* The Close of a transport is delivered.  An outbound connection forgets        *)
(* its hellos and reports itself: when nobody owns it any more,                  *)
(* shared_from_this() throws.  An accepted one is reported while somebody        *)
(* holds it.                                                                     *)
Close(c) ==
    /\ transport[c] \in {"shut", "failing"}
    /\ transport' = [transport EXCEPT ![c] = "closed"]
    /\ helloSent' = helloSent \ ({c} \cap Outbound)
    /\ serverHello' = serverHello \ ({c} \cap Outbound)
    /\ lost' = IF Owned(c) THEN lost \cup {c} ELSE lost
    /\ crashed' = (c \in Outbound /\ ~Owned(c))
    /\ UNCHANGED <<playback, managed, deferred, opened, lastPlayed, loopVars, appVars,
                   flushers, releasing, told>>

(* No memory for a message: the connection is given up before its Close.         *)
FailToReceive(c) ==
    /\ c \in NoMemory /\ transport[c] = "open"
    /\ IF c \in Outbound THEN Owned(c) ELSE Unlocked /\ c \in Managed
    /\ transport' = [transport EXCEPT ![c] = IF c \in Outbound THEN "failing" ELSE "shut"]
    /\ dispatch' = dispatch \ {c}
    /\ lost' = IF c \in Outbound THEN lost \cup {c} ELSE lost
    /\ UNCHANGED <<helloSent, serverHello, playback, current, nursery, retry, fed, deferred,
                   opened, lastPlayed, loopVars, appVars, flushers, releasing, told, crashed>>

(* A message is dispatched: an accepted connection is looked up first.           *)
Heard(c) ==
    /\ transport[c] = "open" /\ c \in dispatch
    /\ c \in Inbound => Unlocked /\ c \in Managed

(* SERVER_HELLO.                                                                 *)
ServerHello(c) ==
    /\ Heard(c) /\ c \notin serverHello
    /\ playback' \in {playback, playback \cup {c}}
    /\ serverHello' = serverHello \cup {c}
    /\ UNCHANGED <<transport, helloSent, managed, deferred, opened, lost, lastPlayed, loopVars,
                   appVars, flushers, releasing, told, crashed>>

(* Any message for the roles: server/state, stream/start, group/update, ...      *)
(* A handler is taken to end before the next action; one that a teardown         *)
(* overtakes is the subject of PlayerRole.                                       *)
RoleMessage(c) ==
    /\ Heard(c)
    /\ c \in told \/ (Eager /\ Complete(c))
    /\ fed' = fed \cup {c}
    /\ UNCHANGED <<transportVars, dispatch, current, nursery, retry, deferred, opened, lost,
                   lastPlayed, loopVars, appVars, flushers, releasing, told, crashed>>

Transports ==
    \E c \in Conns :
        \/ NewConnection(c) \/ Open(c) \/ FailToOpen(c) \/ Shut(c) \/ Close(c)
        \/ FailToReceive(c) \/ ServerHello(c) \/ RoleMessage(c)

-----------------------------------------------------------------------------
(* Mutant: the queue is copied, not swapped out.                                 *)
TakeReleasesByCopy(t) ==
    /\ releasing' = [releasing EXCEPT ![t] = @ \cup deferred]
    /\ UNCHANGED deferred

(* flush_deferred_releases(), on whatever thread: the releases are taken out     *)
(* under the mutex and performed without it.                                     *)
TakeReleases(t) ==
    /\ releasing' = [releasing EXCEPT ![t] = @ \cup deferred]
    /\ deferred' = {}

(* Mutant: the transport of an outbound connection is closed, not joined.        *)
StoppedUnjoined(conns, ended) ==
    /\ transport' = [c \in Conns |-> IF c \in conns /\ transport[c] = "open" THEN "shut"
                                    ELSE transport[c]]
    /\ helloSent' = helloSent \ ended
    /\ serverHello' = serverHello \ ended
    /\ UNCHANGED lost

(* disconnect() of a connection: the goodbye and the close.  On an outbound      *)
(* one stop() joins the transport's thread, which delivers its Close first.      *)
Stopped(conns, ended) ==
    LET joined == {c \in conns \cap Outbound : Connected(c)}
        left == {c \in conns \cap Inbound : transport[c] = "open"}
    IN  /\ transport' = [c \in Conns |-> IF c \in joined THEN "closed"
                                         ELSE IF c \in left THEN "shut" ELSE transport[c]]
        /\ helloSent' = helloSent \ (joined \cup ended)
        /\ serverHello' = serverHello \ (joined \cup ended)
        /\ lost' = lost \cup joined

(* A goodbye or nothing but the end of the reference, with which all that was    *)
(* known of the connection ends.                                                 *)
PerformRelease(t) ==
    /\ \E r \in releasing[t] :
        /\ releasing' = [releasing EXCEPT ![t] = @ \ {r}]
        /\ Stopped(IF r.goodbye THEN {r.conn} ELSE {}, {r.conn})
        /\ playback' = playback \ {r.conn} /\ told' = told \ {r.conn}
    /\ UNCHANGED <<managed, deferred, opened, lastPlayed, loopVars, appVars, flushers,
                   crashed>>

(* on_new_connection() flushes on the thread that delivered the connection.      *)
FlushNew(c) ==
    /\ c \in flushers /\ Unlocked
    /\ TakeReleases("net")
    /\ flushers' = flushers \ {c}
    /\ UNCHANGED <<transportVars, managed, opened, lost, lastPlayed, loopVars, appVars,
                   told, crashed>>

Flushes == PerformRelease("net") \/ \E c \in Inbound : FlushNew(c)

-----------------------------------------------------------------------------
(* loop().                                                                       *)

(* on_connection_lost() of the connections whose close was reported.             *)
DropLost(closed) ==
    /\ Forget(nursery \cap closed, current \in closed, {})
    /\ nursery' = nursery \ closed
    /\ current' = IF current \in closed THEN None ELSE current
    /\ retry' = [c \in Conns |-> IF c \in closed THEN 0
                                ELSE IF c \in opened \cap nursery THEN Attempts
                                ELSE retry[c]]
    /\ work' = nursery'

StartPass ==
    /\ loopAt = "idle" /\ (SameThread => appAt = "idle")
    /\ loopAt' = IF work' = {} THEN "swap" ELSE "scan"
    /\ held' = opened \cup lost
    /\ opened' = {} /\ lost' = {}
    /\ UNCHANGED <<transportVars, lastPlayed, appVars, flushers, releasing, told, crashed>>

(* Mutant: the closes are looked at when there is a nursery only.                *)
ProcessEventsOfNursery == DropLost(IF nursery = {} THEN {} ELSE lost) /\ StartPass

(* The event queues are swapped out, closed connections dropped and opened       *)
(* ones armed.  When there is neither an event nor a nursery to scan the         *)
(* mutex is not taken.                                                           *)
ProcessEvents == DropLost(lost) /\ StartPass

(* The promotion scan: an entry whose hellos are not complete stays; ...         *)
LeaveInNursery(c) ==
    /\ ~Complete(c)
    /\ UNCHANGED <<managed, deferred, told>>

(* ... one that finds no incumbent, or is preferred to it, becomes current,      *)
(* and is told the client's state (on_handshake_complete()); ...                 *)
Promote(c) ==
    /\ Complete(c) /\ (current = None \/ Prefers(c))
    /\ nursery' = nursery \ {c}
    /\ Forget({}, current # None, {current})
    /\ Disarm({c, current})
    /\ current' = c
    /\ told' = told \cup {c}

(* ... and any other is sent away.                                               *)
Refuse(c) ==
    /\ Complete(c) /\ current # None /\ ~Prefers(c)
    /\ nursery' = nursery \ {c}
    /\ Forget({c}, FALSE, {c})
    /\ Disarm({c})
    /\ UNCHANGED <<current, told>>

Scan(c) ==
    /\ loopAt = "scan" /\ c \in work
    /\ LeaveInNursery(c) \/ Promote(c) \/ Refuse(c)
    /\ work' = work \ {c}
    /\ loopAt' = IF work' = {} THEN "swap" ELSE "scan"
    /\ UNCHANGED <<transportVars, opened, lost, lastPlayed, held, appVars, flushers,
                   releasing, crashed>>

(* After the first flush of a pass the swapped events go out of scope, and       *)
(* the hello timers are looked at when there is a nursery; the second ends       *)
(* the pass.                                                                     *)
AfterFlush ==
    IF loopAt \in {"swap", "release"}
    THEN /\ held' = {}
         /\ loopAt' = IF nursery = {} THEN "swap2" ELSE "hellos"
         /\ work' = IF nursery = {} THEN {} ELSE {c \in Conns : retry[c] > 0}
    ELSE loopAt' = "idle" /\ UNCHANGED <<held, work>>

LoopSwap ==
    /\ loopAt \in {"swap", "swap2"}
    /\ TakeReleases("loop")
    /\ IF deferred = {} THEN AfterFlush
       ELSE /\ loopAt' = IF loopAt = "swap" THEN "release" ELSE "release2"
            /\ UNCHANGED <<held, work>>
    /\ UNCHANGED <<transportVars, managed, opened, lost, lastPlayed, appVars, flushers,
                   told, crashed>>

LoopReleased ==
    /\ loopAt \in {"release", "release2"} /\ releasing["loop"] = {}
    /\ AfterFlush
    /\ UNCHANGED <<transportVars, managed, deferred, opened, lost, lastPlayed, appVars, flushers,
                   releasing, told, crashed>>

(* A hello timer that backs off after an attempt, one whose connection is        *)
(* gone or not connected, a hello that is sent, and one that is not.             *)
NotDue(c) ==
    /\ c \in nursery /\ retry[c] < Attempts
    /\ UNCHANGED <<retry, helloSent>>
GiveUp(c) ==
    /\ c \notin nursery \/ ~Connected(c)
    /\ Disarm({c}) /\ UNCHANGED helloSent
SendHello(c) ==
    /\ c \in nursery /\ transport[c] = "open"
    /\ Disarm({c}) /\ helloSent' = helloSent \cup {c}
RetryHello(c) ==
    /\ c \in nursery /\ Connected(c)
    /\ retry' = [retry EXCEPT ![c] = @ - 1] /\ UNCHANGED helloSent

HelloTimer(c) ==
    /\ loopAt = "hellos" /\ c \in work /\ retry[c] > 0
    /\ NotDue(c) \/ GiveUp(c) \/ SendHello(c) \/ RetryHello(c)
    /\ work' = work \ {c}
    /\ UNCHANGED <<transport, serverHello, playback, dispatch, current, nursery, fed, deferred,
                   opened, lost, lastPlayed, loopAt, held, appVars, flushers, releasing,
                   told, crashed>>

Released(overdue, goodbyes, disarmed) ==
    /\ loopAt = "hellos" /\ work = {}
    /\ Forget(overdue, FALSE, goodbyes)
    /\ Disarm(disarmed)
    /\ nursery' = nursery \ overdue
    /\ loopAt' = "swap2"
    /\ UNCHANGED <<transportVars, current, opened, lost, lastPlayed, work, held, appVars, flushers,
                   releasing, told, crashed>>

(* Mutants: the hello timers of the released entries stay; ...                   *)
ReapStillArmed(overdue) == Released(overdue, overdue, {})

(* ... the entries are let go of without a goodbye; ...                          *)
ReapSilently(overdue) == Released(overdue, {}, overdue)

(* ... one whose hello went out is waited for without end.                       *)
ReapUnsent(overdue) == overdue \cap helloSent = {} /\ Released(overdue, overdue, overdue)

(* The nursery tick releases the entries for which 30 seconds have passed:       *)
(* any of them may be.                                                           *)
Reap(overdue) == Released(overdue, overdue, overdue)

(* A group update says that the current server plays: it is remembered.          *)
Remember ==
    /\ loopAt = "idle" /\ current \in fed
    /\ lastPlayed' = ServerOf[current]
    /\ UNCHANGED <<transportVars, managed, deferred, opened, lost, loopVars, appVars, flushers,
                   releasing, told, crashed>>

Loop ==
    \/ ProcessEvents \/ LoopSwap \/ LoopReleased
    \/ \E overdue \in SUBSET nursery : Reap(overdue)
    \/ PerformRelease("loop")
    \/ \E c \in Conns : Scan(c) \/ HelloTimer(c)

-----------------------------------------------------------------------------
(* The application.                                                              *)

Calls == appAt = "idle" /\ Unlocked /\ (SameThread => loopAt = "idle")

(* connect_to(): a current connection whose transport is gone is dropped, a      *)
(* previous attempt replaced.                                                    *)
ConnectTo(c) ==
    /\ Calls /\ c \in Outbound /\ transport[c] = "none"
    /\ LET dead == current # None /\ ~Connected(current)
           previous == nursery \cap Outbound
       IN  /\ transport' = [transport EXCEPT ![c] = "connecting"]
           /\ nursery' = (nursery \ Outbound) \cup {c}
           /\ current' = IF dead THEN None ELSE current
           /\ Disarm(Leaving(previous, dead))
           /\ dispatch' = (dispatch \ Leaving(previous, dead)) \cup {c}
           /\ deferred' = deferred \cup {[conn |-> d, goodbye |-> d \in previous] :
                                             d \in Leaving(previous, dead)}
           /\ fed' = IF dead THEN {} ELSE fed
    /\ appAt' = "swap"
    /\ UNCHANGED <<helloSent, serverHello, playback, opened, lost, lastPlayed, loopVars, farewells,
                   flushers, releasing, told, crashed>>

Collect(connected, released, goodbyes) ==
    /\ Calls /\ Managed # {}
    /\ farewells' = connected
    /\ nursery' = nursery \ released
    /\ Forget(released, FALSE, goodbyes)
    /\ Disarm(released)
    /\ appAt' = "swap"
    /\ UNCHANGED <<transportVars, current, opened, lost, lastPlayed, loopVars, flushers, releasing,
                   told, crashed>>

(* Mutant: the nursery's entries are collected and released as well.             *)
DisconnectTwice == Collect({c \in Managed : Connected(c)}, nursery, nursery)

(* disconnect(): entries that are not connected are released, all others         *)
(* collected; they stay where they are until they close.                         *)
Disconnect ==
    Collect({c \in Managed : Connected(c)}, {c \in nursery : ~Connected(c)}, {})

AppAfterFlush == appAt' = IF farewells = {} THEN "idle" ELSE "farewells"

AppSwap ==
    /\ appAt = "swap" /\ Unlocked
    /\ TakeReleases("app")
    /\ IF deferred = {} THEN AppAfterFlush ELSE appAt' = "release"
    /\ UNCHANGED <<transportVars, managed, opened, lost, lastPlayed, loopVars, farewells, flushers,
                   told, crashed>>

AppReleased ==
    /\ appAt = "release" /\ releasing["app"] = {}
    /\ AppAfterFlush
    /\ UNCHANGED <<transportVars, managed, deferred, opened, lost, lastPlayed, loopVars, farewells,
                   flushers, releasing, told, crashed>>

(* ... and then sent their goodbye, outside the mutex.                           *)
SayGoodbye(c) ==
    /\ appAt = "farewells" /\ c \in farewells
    /\ Stopped({c}, {})
    /\ farewells' = farewells \ {c}
    /\ appAt' = IF farewells = {c} THEN "idle" ELSE "farewells"
    /\ UNCHANGED <<playback, managed, deferred, opened, lastPlayed, loopVars, flushers, releasing, told, crashed>>

Application == Disconnect \/ \E c \in Conns : ConnectTo(c)
AppReturns ==
    \/ AppSwap \/ PerformRelease("app") \/ AppReleased
    \/ \E c \in Conns : SayGoodbye(c)

-----------------------------------------------------------------------------
Next ==
    /\ ~crashed
    /\ \/ Transports \/ Flushes \/ Loop \/ Application \/ AppReturns \/ Remember

Spec == Init /\ [][Next]_vars

Expires(c) == \E overdue \in SUBSET nursery : c \in overdue /\ Reap(overdue)

(* The threads run, loop() is called again and again even when the               *)
(* application calls the API in between, a transport that was shut delivers      *)
(* its Close, and time passes.  A server or the application owes nothing.        *)
Fairness ==
    /\ WF_vars(Loop /\ ~crashed) /\ SF_vars(ProcessEvents /\ ~crashed)
    /\ WF_vars(AppReturns /\ ~crashed) /\ WF_vars(Flushes /\ ~crashed)
    /\ \A c \in Conns : WF_vars(Close(c) /\ ~crashed) /\ SF_vars(Expires(c) /\ ~crashed)

FairSpec == Spec /\ Fairness

-----------------------------------------------------------------------------
(* Safety.                                                                       *)

(* loop() copies the nursery into an array of NURSERY_CAPACITY + 1 entries       *)
(* without a test: the nursery is never larger (connection_manager.cpp:380-393). *)
NurseryBounded ==
    /\ Cardinality(nursery \cap Inbound) <= Capacity
    /\ Cardinality(nursery \cap Outbound) <= 1

(* Hello timers exist for members of the nursery only, the current               *)
(* connection never has one (connection_manager.cpp:400-408).                    *)
RetriesAreNursed == \A c \in Conns : retry[c] > 0 => c \in nursery

(* A connection is in one place only: it is not current and in the nursery,      *)
(* and once it is queued for release it is managed no more and queued once,      *)
(* so that it is released exactly once, by one thread.                           *)
Releases == deferred \cup UNION {releasing[t] : t \in Threads}
OnePlace ==
    /\ current \notin nursery
    /\ \A r \in Releases : r.conn \notin Managed
    /\ \A r, s \in Releases : r.conn = s.conn => r = s
    /\ \A r \in deferred, t \in Threads : r \notin releasing[t]
    /\ \A t, u \in Threads : t # u => releasing[t] \cap releasing[u] = {}

(* A connection that was released cannot reach the roles any more.               *)
OnlyManagedDispatch == dispatch \subseteq Managed

(* What the roles know, they know from the current connection: a teardown        *)
(* wipes it and nothing that is displaced, refused or reaped adds to it, as      *)
(* long as a server waits for the client's state.                                *)
RolesKnowCurrent == fed \subseteq {current}

(* No connection is left open and forgotten: one that nobody manages and         *)
(* nobody is about to release has been shut.                                     *)
NoOrphan ==
    \A c \in Inbound : transport[c] = "open" => c \in Managed \/ \E r \in Releases : r.conn = c /\ r.goodbye

(* Two threads never stop the same transport (connection_manager.h: "two         *)
(* concurrent transport stops").                                                 *)
OneStopper ==
    \A t \in Threads : \A r \in releasing[t] :
        r.goodbye => ~(appAt = "farewells" /\ r.conn \in farewells)

(* No callback of a transport runs on a connection that is being destroyed,      *)
(* where shared_from_this() throws.                                              *)
CallbacksOnOwned == ~crashed

-----------------------------------------------------------------------------
(* Liveness.                                                                     *)

(* No connection stays in the nursery: it is promoted, refused, lost or          *)
(* reaped.                                                                       *)
NurseryDrains == \A c \in Conns : c \in nursery ~> (c \notin nursery \/ crashed)

(* A current connection whose transport was shut does not stay current: its      *)
(* close is seen, although loop() skips what it has no hint of.                  *)
LostIsDropped ==
    \A c \in Conns : (current = c /\ transport[c] \in {"shut", "failing"}) ~> (current # c \/ crashed)
=============================================================================
