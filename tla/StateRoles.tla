----------------------------- MODULE StateRoles -----------------------------
(* What the client knows of a server's state: the controller, metadata and    *)
(* color roles and the group, which the server reports by deltas.  The        *)
(* network thread merges each delta into a slot of the inbox (inbox.h), the   *)
(* main loop takes it, holds it until its deadline, overlays it on the role's *)
(* state and tells the listener (client.cpp:163-392, metadata_role.cpp,       *)
(* controller_role.cpp, color_role.cpp).  A teardown (cleanup_connection_     *)
(* state()) may come at the top of loop() or out of a listener's callback.    *)
EXTENDS Naturals, Sequences

CONSTANTS
    Order,      \* the roles and the group, in the order of loop() (a sequence)
    Deferred,   \* the roles that wait for the deadline of a delta
    Whole,      \* those whose messages carry the whole state
    Group,      \* the group: its slot is emptied by a teardown, its state stays
    Fields,     \* the fields of a state
    MaxSent,    \* bound: messages of all servers
    MaxConns    \* bound: connections, one after the other

Roles == {Order[i] : i \in DOMAIN Order}
Wiped == Roles \ {Group}

ASSUME StateAssumption ==
    /\ Order \in Seq(Roles) /\ Group \in Roles
    /\ \A i, j \in DOMAIN Order : Order[i] = Order[j] => i = j
    /\ Deferred \subseteq Wiped /\ Whole \subseteq Roles
    /\ MaxSent \in Nat /\ MaxConns \in Nat

(* A state and a delta say for each field which message spoke of it last, or  *)
(* 0.  What it said, a value or an explicit null, is nothing the code asks.   *)
Maps == [Fields -> Nat]
Empty == [f \in Fields |-> 0]

VARIABLES
    current,  \* the current connection, 0 if there is none
    conns,    \* connections so far
    server,   \* what the current server has said, per role
    sent,     \* messages so far
    net,      \* the message the network thread handles, section by section
    slot,     \* the inbox slots; one is dirty, its bit set, if it says something
    events,   \* the inbox ring: CLEARED of the roles named
    held,     \* held_delta
    state,    \* metadata, controller_state, color, group_state_
    view,     \* history: what the listener was told last
    loop,     \* the main loop's place, the role it is at, its copy of the ring and
              \* of the topic bits, and what a cleanup has to do and returns to
    tainted   \* history: roles into which a handler has written what the server
              \* of a connection said that had been torn down before

vars == <<current, conns, server, sent, net, slot, events, held, state, view, loop, tainted>>

roleVars == <<held, state, view>>

Overlay(base, delta) == [f \in Fields |-> IF delta[f] # 0 THEN delta[f] ELSE base[f]]

Idle == [r \in Roles |-> Empty]

Init ==
    /\ current = 0 /\ conns = 0 /\ sent = 0
    /\ server = Idle /\ slot = Idle /\ held = Idle /\ state = Idle /\ view = Idle
    /\ net = [of |-> 0, left |-> Idle]
    /\ events = <<>> /\ tainted = {}
    /\ loop = [pc |-> "connections", k |-> 1, batch |-> <<>>, bits |-> {}, c |-> 1, back |-> "connections"]

-----------------------------------------------------------------------------
(* The network thread.  JSON messages are handled one at a time, whatever     *)
(* connection they are from (json_processing_mutex_, client.cpp:672).         *)

Sections == {r \in Roles : net.left[r] # Empty}

(* A delta says something about some of the fields, a state about all.        *)
Says(r, delta) ==
    \E about \in (IF r \in Whole THEN {Fields} ELSE SUBSET Fields \ {{}}) :
        delta = [f \in Fields |-> IF f \in about THEN sent + 1 ELSE 0]

(* SERVER_STATE speaks of some of the roles, GROUP_UPDATE of the group.       *)
Message(of, delta) ==
    /\ of \in {{Group}} \union (SUBSET Wiped \ {{}})
    /\ \A r \in Roles : IF r \in of THEN Says(r, delta[r]) ELSE delta[r] = Empty

Deltas == [Fields -> {0, sent + 1}]

Receive ==
    /\ current # 0 /\ Sections = {} /\ sent < MaxSent
    /\ \E of \in SUBSET Roles, delta \in [Roles -> Deltas] :
        /\ Message(of, delta)
        /\ net' = [of |-> current, left |-> delta]
        /\ server' = [r \in Roles |-> Overlay(server[r], delta[r])]
    /\ sent' = sent + 1
    /\ UNCHANGED <<current, conns, slot, events, roleVars, loop, tainted>>

(* handle_server_state() of the next section's role, or the merge into the    *)
(* group's slot, under the inbox' mutex.                                      *)
HandOver(r) ==
    /\ \E i \in DOMAIN Order : Order[i] = r /\ \A j \in 1..i : (Order[j] \in Sections) <=> (j = i)
    /\ slot' = [slot EXCEPT ![r] = Overlay(slot[r], net.left[r])]
    /\ net' = [net EXCEPT !.left[r] = Empty]
    /\ tainted' = IF net.of = current THEN tainted ELSE tainted \union {r}
    /\ UNCHANGED <<current, conns, server, sent, events, roleVars, loop>>

Network == Receive \/ \E r \in Roles : HandOver(r)

-----------------------------------------------------------------------------
(* Teardown: cleanup_connection_state().                                      *)

(* It bumps the drain generation, so that the ring's drain abandons what it   *)
(* has copied, and empties the ring and the group's slot; ...                 *)
Teardown ==
    /\ current # 0 /\ loop.pc \in {"connections", "ring", "roles"}
    /\ current' = 0 /\ server' = Idle
    /\ events' = <<>> /\ slot' = [slot EXCEPT ![Group] = Empty]
    /\ tainted' = tainted \ {Group}
    /\ loop' = [loop EXCEPT !.pc = "cleanup", !.c = 1, !.batch = <<>>,
                            !.back = IF loop.pc = "ring" THEN "slots" ELSE loop.pc]
    /\ UNCHANGED <<conns, sent, net, roleVars>>

(* ... then each role's cleanup() empties its slot and its state and pushes   *)
(* CLEARED.  The network thread may come in between.                          *)
AfterCleanup ==
    IF loop.c < Len(Order) THEN [loop EXCEPT !.c = @ + 1]
                           ELSE [loop EXCEPT !.pc = loop.back, !.c = 1, !.back = "connections"]

CleanupRole ==
    /\ loop.pc = "cleanup" /\ Order[loop.c] # Group
    /\ slot' = [slot EXCEPT ![Order[loop.c]] = Empty]
    /\ state' = [state EXCEPT ![Order[loop.c]] = Empty]
    /\ held' = [held EXCEPT ![Order[loop.c]] = Empty]
    /\ events' = Append(events, Order[loop.c])
    /\ tainted' = tainted \ {Order[loop.c]}
    /\ loop' = AfterCleanup
    /\ UNCHANGED <<current, conns, server, sent, net, view>>

CleanupNoGroup ==
    /\ loop.pc = "cleanup" /\ Order[loop.c] = Group
    /\ loop' = AfterCleanup
    /\ UNCHANGED <<current, conns, server, sent, net, slot, events, roleVars, tainted>>

-----------------------------------------------------------------------------
(* loop().                                                                    *)

(* The connection manager promotes a connection, at once after a teardown or  *)
(* later.                                                                     *)
Promote ==
    /\ loop.pc = "connections" /\ current = 0 /\ conns < MaxConns
    /\ current' = conns + 1 /\ conns' = conns + 1
    /\ UNCHANGED <<server, sent, net, slot, events, roleVars, loop, tainted>>

(* The ring is drained into a local copy, if its bit is set.                  *)
TakeEvents ==
    /\ loop.pc = "connections"
    /\ loop' = [loop EXCEPT !.pc = "ring", !.batch = events]
    /\ events' = <<>>
    /\ UNCHANGED <<current, conns, server, sent, net, slot, roleVars, tainted>>

(* handle_cleared_event().                                                    *)
HandleCleared ==
    /\ loop.pc = "ring" /\ loop.batch # <<>>
    /\ view' = [view EXCEPT ![Head(loop.batch)] = Empty]
    /\ loop' = [loop EXCEPT !.batch = Tail(@)]
    /\ UNCHANGED <<current, conns, server, sent, net, slot, events, held, state, tainted>>

EndRing ==
    /\ loop.pc = "ring" /\ loop.batch = <<>>
    /\ loop' = [loop EXCEPT !.pc = "slots"]
    /\ UNCHANGED <<current, conns, server, sent, net, slot, events, roleVars, tainted>>

(* The second snapshot of the topic bits.                                     *)
Snapshot ==
    /\ loop.pc = "slots"
    /\ loop' = [loop EXCEPT !.pc = "roles", !.k = 1, !.bits = {r \in Roles : slot[r] # Empty}]
    /\ UNCHANGED <<current, conns, server, sent, net, slot, events, roleVars, tainted>>

(* Mutant: a delta that is held is not looked at again.                       *)
NeedsBit(r) == r \in loop.bits

(* needs_drain().                                                             *)
NeedsDrain(r) == r \in loop.bits \/ held[r] # Empty

(* Mutant: what is taken from the slot takes the place of what is held.       *)
TakenOnly(r) == IF slot[r] # Empty THEN slot[r] ELSE held[r]

(* drain_events() folds what it takes from the slot into what it holds.       *)
Folded(r) == Overlay(held[r], slot[r])

AfterRole ==
    IF loop.k < Len(Order) THEN [loop EXCEPT !.k = @ + 1]
                           ELSE [loop EXCEPT !.pc = "connections", !.k = 1, !.bits = {}]

Taken == slot' = [slot EXCEPT ![Order[loop.k]] = Empty]

(* The deadline is over, or there is none, or no clock to tell it by: the     *)
(* delta is applied and the listener told (of the group: the delta itself,    *)
(* so that its view is what it has put together of them).                     *)
Apply ==
    LET r == Order[loop.k] IN
    /\ loop.pc = "roles" /\ NeedsDrain(r) /\ Folded(r) # Empty
    /\ Taken
    /\ state' = [state EXCEPT ![r] = Overlay(@, Folded(r))]
    /\ view' = [view EXCEPT ![r] = Overlay(state[r], Folded(r))]
    /\ held' = [held EXCEPT ![r] = Empty]
    /\ loop' = AfterRole
    /\ UNCHANGED <<current, conns, server, sent, net, events, tainted>>

(* It is not: the delta is held.                                              *)
Hold ==
    LET r == Order[loop.k] IN
    /\ loop.pc = "roles" /\ NeedsDrain(r) /\ r \in Deferred /\ current # 0
    /\ Taken
    /\ held' = [held EXCEPT ![r] = Folded(r)]
    /\ loop' = AfterRole
    /\ UNCHANGED <<current, conns, server, sent, net, events, state, view, tainted>>

Skip ==
    LET r == Order[loop.k] IN
    /\ loop.pc = "roles" /\ (NeedsDrain(r) => Folded(r) = Empty)
    /\ loop' = AfterRole
    /\ UNCHANGED <<current, conns, server, sent, net, slot, events, roleVars, tainted>>

Cleanup == CleanupRole \/ CleanupNoGroup

LoopStep == TakeEvents \/ HandleCleared \/ EndRing \/ Snapshot \/ Apply \/ Hold \/ Skip \/ Cleanup

Next == Network \/ Teardown \/ Promote \/ LoopStep

Spec == Init /\ [][Next]_vars

(* loop() is called again and again and goes on when a callback has torn the  *)
(* connection down, a handler that has begun ends, and deadlines pass.        *)
FairSpec ==
    /\ Spec
    /\ WF_vars(LoopStep)
    /\ WF_vars(\E r \in Roles : HandOver(r))
    /\ \A r \in Roles : SF_vars(Apply /\ Order[loop.k] = r)

-----------------------------------------------------------------------------
(* Properties.                                                                *)

Places == {"connections", "ring", "slots", "roles", "cleanup"}
Loops == [pc : Places, k : Nat, batch : Seq(Wiped), bits : SUBSET Roles, c : Nat,
          back : Places \ {"ring", "cleanup"}]

TypeOK ==
    /\ current \in Nat /\ conns \in Nat /\ current <= conns
    /\ server \in [Roles -> Maps] /\ slot \in [Roles -> Maps] /\ held \in [Roles -> Maps]
    /\ state \in [Roles -> Maps] /\ view \in [Roles -> Maps]
    /\ sent \in Nat
    /\ net \in [of : Nat, left : [Roles -> Maps]]
    /\ events \in Seq(Wiped) /\ tainted \subseteq Roles
    /\ loop \in Loops

(* A cleanup that is under way has not come to the role yet.                  *)
ToBeCleaned(r) == loop.pc = "cleanup" /\ \E i \in DOMAIN Order : i >= loop.c /\ Order[i] = r

(* What the role knows, holds, has in its slot, and is about to be given.     *)
Known(r) ==
    LET taken == Overlay(Overlay(state[r], held[r]), slot[r])
    IN  IF net.of = current THEN Overlay(taken, net.left[r]) ELSE taken

(* No field of a delta is lost or taken over by an older one on its way from  *)
(* the network thread through the slot and the held delta to the role, and    *)
(* nothing of an earlier server is left, unless a handler of its connection   *)
(* has written behind the cleanup (metadata_role.cpp:38-65, 168-175).         *)
NothingLost ==
    \A r \in Wiped \ tainted : ~ToBeCleaned(r) => Known(r) = server[r]

(* Nor is a field of the group lost; what an earlier server said of a field   *)
(* stays until the current one speaks of it.                                  *)
GroupOverlaid ==
    Group \notin tainted => \A f \in Fields : server[Group][f] # 0 => Known(Group)[f] = server[Group][f]

(* The listener was told last what the role knows, unless CLEARED is on its   *)
(* way: and then it has not heard of the next server yet, so that the clear   *)
(* wipes nothing that is true (client.cpp:204-212).                           *)
Clearing(r) == \E i \in DOMAIN (loop.batch \o events) : (loop.batch \o events)[i] = r
ToldWhatIsKnown ==
    \A r \in Wiped \ tainted : ~ToBeCleaned(r) =>
        IF Clearing(r) THEN state[r] = Empty ELSE view[r] = state[r]

(* A role's CLEARED is pending once at most: client.cpp:251-261.              *)
ClearedOnce ==
    LET pending == loop.batch \o events
    IN  \A i, j \in DOMAIN pending : pending[i] = pending[j] => i = j

(* Whatever is told, held, taken, merged and torn down meanwhile.             *)
Mirrors == TypeOK /\ NothingLost /\ GroupOverlaid /\ ToldWhatIsKnown /\ ClearedOnce

(* When a server falls silent, the listener comes to hear all that it has     *)
(* said, and nothing else; when it is gone, that nothing is known.            *)
Converges ==
    \A r \in Wiped : []<>(r \in tainted \/ view[r] = server[r])

(* include/sendspin/client.h:359: "the current group state", of the current   *)
(* server's group alone, as for the roles.                                    *)
GroupOfCurrent == Group \notin tainted => Known(Group) = server[Group]
=============================================================================
