-------------------------- MODULE StateRolesProofs --------------------------
(* Nothing of what a server says of its state is lost or outlives it, and the  *)
(* listener knows what the roles know, for any roles, fields and number of     *)
(* messages and connections.                                                   *)
EXTENDS StateRoles, SequenceTheorems, TLAPS

-----------------------------------------------------------------------------
(* The inductive invariant.                                                    *)

(* Without a current connection there is no server; the network thread         *)
(* handles the message of a connection there has been.                         *)
Servers ==
    /\ current = 0 => server = Idle
    /\ net.of <= conns
    /\ net.of = 0 => net.left = Idle

(* The loop has copied events where it drains the ring only, and has found     *)
(* the ring empty then.  Later in the pass, CLEARED is the trace of a          *)
(* teardown, after which no connection is promoted before the next pass.       *)
Pending == IF loop.pc = "ring" THEN loop.batch ELSE events
Passes ==
    /\ loop.c \in DOMAIN Order /\ loop.k \in DOMAIN Order
    /\ loop.pc # "ring" => loop.batch = <<>>
    /\ loop.pc = "ring" => events = <<>>
    /\ loop.pc = "cleanup" => current = 0
    /\ loop.pc \in {"slots", "roles"} /\ events # <<>> => current = 0

(* A cleanup pushes CLEARED for a role for which none is pending.              *)
YetToClear == \A r \in Roles : ToBeCleaned(r) => ~Clearing(r)

StateInv == Mirrors /\ Servers /\ Passes /\ YetToClear

-----------------------------------------------------------------------------
(* Overlays.                                                                   *)

LEMMA OverlayType ==
    ASSUME NEW a \in Maps, NEW b \in Maps
    PROVE  Overlay(a, b) \in Maps
BY DEF Maps, Overlay

LEMMA OverlayEmpty ==
    /\ Empty \in Maps
    /\ \A a \in Maps : Overlay(a, Empty) = a /\ Overlay(Empty, a) = a
BY DEF Maps, Empty, Overlay

LEMMA OverlayAssociative ==
    ASSUME NEW a \in Maps, NEW b \in Maps, NEW c \in Maps
    PROVE  Overlay(Overlay(a, b), c) = Overlay(a, Overlay(b, c))
BY DEF Maps, Overlay

LEMMA OverlayIsEmpty ==
    ASSUME NEW a \in Maps, NEW b \in Maps, Overlay(a, b) = Empty
    PROVE  a = Empty /\ b = Empty
<1>1. \A f \in Fields : Overlay(a, b)[f] = 0
    BY DEF Empty
<1>2. \A f \in Fields : a[f] = 0 /\ b[f] = 0
    BY <1>1 DEF Overlay, Maps
<1> QED
    BY <1>2 DEF Empty, Maps

LEMMA IdleType == Idle \in [Roles -> Maps]
BY OverlayEmpty DEF Idle

-----------------------------------------------------------------------------
(* The order of the roles, and the events that are pending.                    *)

LEMMA OrderFacts ==
    /\ Len(Order) \in Nat /\ DOMAIN Order = 1..Len(Order) /\ 1 \in DOMAIN Order
    /\ \A i \in DOMAIN Order : Order[i] \in Roles
    /\ \A i, j \in DOMAIN Order : Order[i] = Order[j] => i = j
    /\ Group \in Roles /\ Group \notin Wiped
    /\ \A r \in Roles : r # Group => r \in Wiped
<1>1. Order \in Seq(Roles)
    BY StateAssumption DEF StateAssumption
<1>2. Len(Order) \in Nat /\ DOMAIN Order = 1..Len(Order)
    BY <1>1
<1>3. \E i \in DOMAIN Order : Order[i] = Group
    BY StateAssumption DEF StateAssumption, Roles
<1> QED
    BY <1>1, <1>2, <1>3, StateAssumption DEF StateAssumption, Wiped, Roles

Queued(r) == \E i \in DOMAIN Pending : Pending[i] = r

PendingOK ==
    /\ Pending \in Seq(Wiped) /\ Pending = loop.batch \o events
    /\ \A r \in Roles : Clearing(r) <=> Queued(r)

LEMMA PendingFacts == TypeOK /\ Passes => PendingOK
<1> SUFFICES ASSUME TypeOK, Passes PROVE PendingOK
    OBVIOUS
<1>1. events \in Seq(Wiped) /\ loop.batch \in Seq(Wiped)
    BY DEF TypeOK, Loops
<1>2. Pending \in Seq(Wiped) /\ Pending = loop.batch \o events
  <2>1. CASE loop.pc = "ring"
    <3>1. events = <<>>
        BY <2>1 DEF Passes
    <3>2. loop.batch \o <<>> = loop.batch
        BY <1>1, ConcatEmptySeq
    <3> QED
        BY <1>1, <2>1, <3>1, <3>2 DEF Pending
  <2>2. CASE loop.pc # "ring"
    <3>1. loop.batch = <<>>
        BY <2>2 DEF Passes
    <3>2. <<>> \o events = events
        BY <1>1, ConcatEmptySeq
    <3> QED
        BY <1>1, <2>2, <3>1, <3>2 DEF Pending
  <2> QED
      BY <2>1, <2>2
<1> QED
    BY <1>2 DEF Clearing, Queued, PendingOK

(* What a cleanup has still to do, after one of its steps.                     *)
LEMMA CleaningStep ==
    ASSUME StateInv, Cleanup
    PROVE  /\ \A r \in Roles : ToBeCleaned(r)' <=> ToBeCleaned(r) /\ r # Order[loop.c]
           /\ ToBeCleaned(Order[loop.c])
<1> USE DEF ToBeCleaned, Loops
<1>1. loop.pc = "cleanup" /\ loop' = AfterCleanup
    BY DEF Cleanup, CleanupRole, CleanupNoGroup
<1>2. loop \in Loops /\ loop.c \in DOMAIN Order
    BY DEF StateInv, Mirrors, TypeOK, Passes
<1>3. CASE loop.c < Len(Order)
  <2>1. loop'.pc = "cleanup" /\ loop'.c = loop.c + 1
      BY <1>1, <1>2, <1>3 DEF AfterCleanup
  <2> QED
      BY <1>1, <1>2, <1>3, <2>1, OrderFacts
<1>4. CASE ~(loop.c < Len(Order))
  <2>1. loop'.pc = loop.back /\ loop.c = Len(Order)
      BY <1>1, <1>2, <1>4, OrderFacts DEF AfterCleanup
  <2> QED
      BY <1>1, <1>2, <2>1, OrderFacts
<1> QED
    BY <1>3, <1>4

-----------------------------------------------------------------------------
(* Types and places.                                                           *)

LEMMA LoopType ==
    ASSUME loop \in Loops, events \in Seq(Wiped), [Next]_vars
    PROVE  loop' \in Loops
<1> USE DEF Loops, Places
<1>1. CASE Network \/ Promote \/ UNCHANGED vars
    BY <1>1 DEF Network, Receive, HandOver, Promote, vars
<1>2. CASE Teardown
    BY <1>2, EmptySeq DEF Teardown
<1>3. CASE TakeEvents
    BY <1>3 DEF TakeEvents
<1>4. CASE HandleCleared
  <2>1. Tail(loop.batch) \in Seq(Wiped)
      BY <1>4, HeadTailProperties DEF HandleCleared
  <2> QED
      BY <1>4, <2>1 DEF HandleCleared
<1>5. CASE EndRing
    BY <1>5 DEF EndRing
<1>6. CASE Snapshot
    BY <1>6 DEF Snapshot
<1>7. CASE Apply \/ Hold \/ Skip
  <2>1. loop' = AfterRole
      BY <1>7 DEF Apply, Hold, Skip
  <2>2. CASE loop.k < Len(Order)
    <3>1. loop.k + 1 \in Nat
        BY DEF Loops
    <3>2. loop' = [loop EXCEPT !.k = loop.k + 1]
        BY <2>1, <2>2 DEF AfterRole
    <3> QED
        BY <3>1, <3>2
  <2>3. CASE ~(loop.k < Len(Order))
      BY <2>1, <2>3 DEF AfterRole
  <2> QED
      BY <2>2, <2>3
<1>8. CASE Cleanup
  <2>1. loop' = AfterCleanup
      BY <1>8 DEF Cleanup, CleanupRole, CleanupNoGroup
  <2>2. CASE loop.c < Len(Order)
    <3>1. loop.c + 1 \in Nat
        BY DEF Loops
    <3>2. loop' = [loop EXCEPT !.c = loop.c + 1]
        BY <2>1, <2>2 DEF AfterCleanup
    <3> QED
        BY <3>1, <3>2
  <2>3. CASE ~(loop.c < Len(Order))
      BY <2>1, <2>3 DEF AfterCleanup
  <2> QED
      BY <2>2, <2>3
<1> QED
    BY <1>1, <1>2, <1>3, <1>4, <1>5, <1>6, <1>7, <1>8 DEF Next, LoopStep

LEMMA TypeStep ==
    ASSUME StateInv, [Next]_vars
    PROVE  TypeOK'
<1>1. TypeOK /\ Passes
    BY DEF StateInv, Mirrors
<1>2. loop' \in Loops
    BY <1>1, LoopType DEF TypeOK
<1> USE <1>1, <1>2 DEF TypeOK, roleVars
<1>3. ASSUME Receive PROVE TypeOK'
  <2>1. PICK of \in SUBSET Roles, delta \in [Roles -> Deltas] :
            /\ net' = [of |-> current, left |-> delta]
            /\ server' = [r \in Roles |-> Overlay(server[r], delta[r])]
      BY <1>3 DEF Receive
  <2>2. sent' = sent + 1 /\ sent + 1 \in Nat
      BY <1>3 DEF Receive
  <2>3. \A r \in Roles : delta[r] \in Maps
      BY <2>2 DEF Deltas, Maps
  <2>4. delta \in [Roles -> Maps]
      BY <2>3
  <2>5. server' \in [Roles -> Maps]
      BY <2>1, <2>3, OverlayType
  <2> QED
      BY <1>3, <2>1, <2>2, <2>4, <2>5 DEF Receive
<1>4. ASSUME NEW r \in Roles, HandOver(r) PROVE TypeOK'
  <2>1. Overlay(slot[r], net.left[r]) \in Maps
      BY OverlayType
  <2> QED
      BY <1>4, <2>1, OverlayEmpty DEF HandOver
<1>5. CASE Teardown
  <2>1. <<>> \in Seq(Wiped)
      BY EmptySeq
  <2>2. slot' \in [Roles -> Maps] /\ tainted' \subseteq Roles
      BY <1>5, OverlayEmpty DEF Teardown
  <2> QED
      BY <1>5, <2>1, <2>2, IdleType DEF Teardown
<1>6. CASE Promote
    BY <1>6 DEF Promote
<1>7. CASE TakeEvents \/ EndRing \/ Snapshot \/ Skip \/ CleanupNoGroup
  <2>1. <<>> \in Seq(Wiped)
      BY EmptySeq
  <2> QED
      BY <1>7, <2>1 DEF TakeEvents, EndRing, Snapshot, Skip, CleanupNoGroup
<1>8. CASE HandleCleared
    BY <1>8, OverlayEmpty DEF HandleCleared
<1>9. \A r \in Roles : Folded(r) \in Maps /\ Overlay(state[r], Folded(r)) \in Maps
    BY OverlayType DEF Folded
<1>10. Order[loop.k] \in Roles /\ Order[loop.c] \in Roles
    BY OrderFacts DEF Passes
<1>11. CASE Apply
    BY <1>9, <1>10, <1>11, OverlayEmpty DEF Apply, Taken
<1>12. CASE Hold
    BY <1>9, <1>10, <1>12, OverlayEmpty DEF Hold, Taken
<1>13. CASE CleanupRole
  <2>1. Order[loop.c] \in Wiped
      BY <1>10, <1>13, OrderFacts DEF CleanupRole
  <2>2. events' \in Seq(Wiped)
      BY <1>13, <2>1, AppendProperties DEF CleanupRole
  <2> QED
      BY <1>10, <1>13, <2>2, OverlayEmpty DEF CleanupRole
<1>14. CASE UNCHANGED vars
    BY <1>14 DEF vars
<1> QED
    BY <1>3, <1>4, <1>5, <1>6, <1>7, <1>8, <1>11, <1>12, <1>13, <1>14
    DEF Next, Network, LoopStep, Cleanup

LEMMA ServersStep ==
    ASSUME StateInv, [Next]_vars
    PROVE  Servers'
<1>1. TypeOK /\ Servers
    BY DEF StateInv, Mirrors
<1> USE <1>1 DEF TypeOK, Servers, roleVars
<1>2. CASE Receive
    BY <1>2 DEF Receive
<1>3. ASSUME NEW r \in Roles, HandOver(r) PROVE Servers'
    BY <1>3 DEF HandOver, Idle, Sections
<1>4. CASE Teardown
    BY <1>4 DEF Teardown
<1>5. CASE Promote
    BY <1>5 DEF Promote
<1>6. CASE LoopStep
    BY <1>6 DEF LoopStep, TakeEvents, HandleCleared, EndRing, Snapshot, Apply, Hold, Skip,
                Cleanup, CleanupRole, CleanupNoGroup
<1>7. CASE UNCHANGED vars
    BY <1>7 DEF vars
<1> QED
    BY <1>2, <1>3, <1>4, <1>5, <1>6, <1>7 DEF Next, Network

LEMMA PassesStep ==
    ASSUME StateInv, [Next]_vars
    PROVE  Passes'
<1>1. loop \in Loops /\ Passes
    BY DEF StateInv, Mirrors, TypeOK
<1> USE <1>1, OrderFacts DEF Passes, Places, Loops
<1>2. CASE Network \/ Promote \/ UNCHANGED vars
    BY <1>2 DEF Network, Receive, HandOver, Promote, vars
<1>3. CASE Teardown
    BY <1>3 DEF Teardown
<1>4. CASE TakeEvents
    BY <1>4 DEF TakeEvents
<1>5. CASE HandleCleared
    BY <1>5 DEF HandleCleared
<1>6. CASE EndRing
    BY <1>6 DEF EndRing
<1>7. CASE Snapshot
    BY <1>7 DEF Snapshot
<1>8. CASE Apply \/ Hold \/ Skip
  <2>1. loop' = AfterRole /\ events' = events /\ current' = current /\ loop.pc = "roles"
      BY <1>8 DEF Apply, Hold, Skip
  <2> QED
      BY <2>1 DEF AfterRole
<1>9. CASE Cleanup
  <2>1. loop' = AfterCleanup /\ current' = current /\ loop.pc = "cleanup"
      BY <1>9 DEF Cleanup, CleanupRole, CleanupNoGroup
  <2> QED
      BY <2>1 DEF AfterCleanup
<1> QED
    BY <1>2, <1>3, <1>4, <1>5, <1>6, <1>7, <1>8, <1>9 DEF Next, LoopStep

-----------------------------------------------------------------------------
(* What is pending, and what is to be cleaned.                                 *)

Others == Network \/ Promote \/ TakeEvents \/ EndRing \/ Snapshot \/ Apply \/ Hold \/ Skip \/ UNCHANGED vars

LEMMA Steps == [Next]_vars <=> Teardown \/ HandleCleared \/ CleanupRole \/ CleanupNoGroup \/ Others
BY DEF Next, LoopStep, Cleanup, Others

LEMMA OthersClean ==
    ASSUME StateInv, Others, NEW r
    PROVE  ToBeCleaned(r)' <=> ToBeCleaned(r)
<1>1. loop \in Loops
    BY DEF StateInv, Mirrors, TypeOK
<1>2. CASE loop' = loop
    BY <1>2 DEF ToBeCleaned
<1>3. CASE TakeEvents \/ EndRing \/ Snapshot \/ Apply \/ Hold \/ Skip
  <2>1. loop.pc # "cleanup" /\ loop'.pc # "cleanup"
      BY <1>1, <1>3 DEF TakeEvents, EndRing, Snapshot, Apply, Hold, Skip, AfterRole, Loops
  <2> QED
      BY <2>1 DEF ToBeCleaned
<1> QED
    BY <1>2, <1>3 DEF Others, Network, Receive, HandOver, Promote, vars

LEMMA PendingChange ==
    ASSUME StateInv
    PROVE  /\ Teardown => Pending' = <<>>
           /\ HandleCleared => Pending # <<>> /\ Pending' = Tail(Pending) /\ Head(Pending) = Head(loop.batch)
           /\ CleanupRole => Pending' = Append(Pending, Order[loop.c])
           /\ CleanupNoGroup \/ Others => Pending' = Pending
<1>1. loop \in Loops /\ Passes
    BY DEF StateInv, Mirrors, TypeOK
<1> USE <1>1 DEF Pending, Loops, Places
<1>2. ASSUME Teardown PROVE Pending' = <<>>
    BY <1>2 DEF Teardown
<1>3. ASSUME HandleCleared
      PROVE  Pending # <<>> /\ Pending' = Tail(Pending) /\ Head(Pending) = Head(loop.batch)
    BY <1>3 DEF HandleCleared
<1>4. ASSUME Cleanup PROVE loop.pc # "ring" /\ loop'.pc # "ring" /\ loop.pc = "cleanup"
  <2>1. loop' = AfterCleanup /\ loop.pc = "cleanup"
      BY <1>4 DEF Cleanup, CleanupRole, CleanupNoGroup
  <2> QED
      BY <2>1 DEF AfterCleanup
<1>5. CleanupRole => Pending' = Append(Pending, Order[loop.c])
    BY <1>4 DEF Cleanup, CleanupRole
<1>6. CleanupNoGroup => Pending' = Pending
    BY <1>4 DEF Cleanup, CleanupNoGroup
<1>7. Network \/ Promote \/ UNCHANGED vars => Pending' = Pending
    BY DEF Network, Receive, HandOver, Promote, vars
<1>8. TakeEvents => Pending' = Pending
    BY DEF TakeEvents
<1>9. EndRing => Pending' = Pending
    BY DEF EndRing, Passes
<1>10. Snapshot => Pending' = Pending
    BY DEF Snapshot
<1>11. Apply \/ Hold \/ Skip => Pending' = Pending
  <2>1. ASSUME Apply \/ Hold \/ Skip PROVE loop' = AfterRole /\ events' = events /\ loop.pc = "roles"
      BY <2>1 DEF Apply, Hold, Skip
  <2> QED
      BY <2>1 DEF AfterRole
<1> QED
    BY <1>2, <1>3, <1>5, <1>6, <1>7, <1>8, <1>9, <1>10, <1>11 DEF Others

LEMMA OnceStep ==
    ASSUME StateInv, [Next]_vars
    PROVE  ClearedOnce' /\ YetToClear'
<1>1. TypeOK /\ Passes /\ TypeOK' /\ Passes'
    BY TypeStep, PassesStep DEF StateInv, Mirrors
<1>2. /\ Pending \in Seq(Wiped) /\ Pending = loop.batch \o events
      /\ \A r \in Roles : Clearing(r) <=> Queued(r)
    BY <1>1, PendingFacts DEF PendingOK
<1>3. PendingOK'
    BY <1>1, PendingFacts, PTL
<1>4. /\ Pending' \in Seq(Wiped) /\ Pending' = (loop.batch \o events)'
      /\ \A r \in Roles : Clearing(r)' <=> Queued(r)'
    BY <1>3 DEF PendingOK
<1> DEFINE Once == \A i, j \in DOMAIN Pending : Pending[i] = Pending[j] => i = j
           Yet == \A r \in Roles : ToBeCleaned(r) => ~Queued(r)
<1>5. Once /\ Yet
    BY <1>2 DEF StateInv, Mirrors, ClearedOnce, YetToClear
<1>6. Once' /\ Yet'
  <2>1. CASE Teardown
      BY <2>1, PendingChange DEF Queued
  <2>2. CASE HandleCleared
    <3>1. Pending # <<>> /\ Pending' = Tail(Pending)
        BY <2>2, PendingChange
    <3>2. /\ Len(Pending') = Len(Pending) - 1
          /\ \A i \in 1..Len(Pending') : Pending'[i] = Pending[i + 1]
        BY <1>2, <3>1, HeadTailProperties
    <3>3. DOMAIN Pending = 1..Len(Pending) /\ DOMAIN Pending' = 1..Len(Pending') /\ Len(Pending) \in Nat
        BY <1>2, <1>4
    <3>4. ~(loop.pc = "cleanup") /\ ~(loop'.pc = "cleanup")
        BY <1>1, <2>2 DEF HandleCleared, TypeOK, Loops
    <3>5. ASSUME NEW i \in DOMAIN Pending', NEW j \in DOMAIN Pending', Pending'[i] = Pending'[j]
          PROVE  i = j
      <4>1. i + 1 \in DOMAIN Pending /\ j + 1 \in DOMAIN Pending
          BY <3>2, <3>3
      <4> QED
          BY <1>5, <3>2, <3>3, <3>5, <4>1
    <3>6. Yet'
        BY <3>4 DEF ToBeCleaned
    <3> QED
        BY <3>5, <3>6
  <2>3. CASE CleanupRole
    <3> DEFINE x == Order[loop.c]
    <3>1. Pending' = Append(Pending, x)
        BY <2>3, PendingChange
    <3>2. x \in Wiped /\ x \in Roles
        BY <1>1, <2>3, OrderFacts DEF CleanupRole, Passes
    <3> HIDE DEF x
    <3>3. /\ Len(Pending') = Len(Pending) + 1 /\ Pending'[Len(Pending) + 1] = x
          /\ \A i \in 1..Len(Pending) : Pending'[i] = Pending[i]
        BY <1>2, <3>1, <3>2, AppendProperties
    <3>4. DOMAIN Pending = 1..Len(Pending) /\ DOMAIN Pending' = 1..Len(Pending') /\ Len(Pending) \in Nat
        BY <1>2, <1>4
    <3>5. /\ ToBeCleaned(x)
          /\ \A r \in Roles : ToBeCleaned(r)' <=> ToBeCleaned(r) /\ r # x
        BY <2>3, CleaningStep DEF Cleanup, x
    <3>6. \A i \in DOMAIN Pending : Pending[i] # x
        BY <1>5, <3>2, <3>5 DEF Queued
    <3>7. Once'
        BY <1>5, <3>3, <3>4, <3>6
    <3>8. ASSUME NEW r \in Roles, ToBeCleaned(r)' PROVE ~Queued(r)'
        BY <1>5, <3>3, <3>4, <3>5, <3>8 DEF Queued
    <3> QED
        BY <3>7, <3>8
  <2>4. CASE CleanupNoGroup
      BY <1>5, <2>4, PendingChange, CleaningStep DEF Cleanup, Queued
  <2>5. CASE Others
    <3>1. \A r \in Roles : ToBeCleaned(r)' <=> ToBeCleaned(r)
        BY <2>5, OthersClean
    <3> QED
        BY <1>5, <2>5, <3>1, PendingChange DEF Queued
  <2> QED
      BY <2>1, <2>2, <2>3, <2>4, <2>5, Steps
<1> QED
    BY <1>4, <1>6 DEF ClearedOnce, YetToClear

-----------------------------------------------------------------------------
(* What is known, on its way from the network thread to the role.              *)

InRole(r) == Overlay(Overlay(state[r], held[r]), slot[r])

LEMMA KnownIs ==
    ASSUME TypeOK, NEW r \in Roles
    PROVE  /\ InRole(r) \in Maps /\ Known(r) \in Maps
           /\ Known(r) = IF net.of = current THEN Overlay(InRole(r), net.left[r]) ELSE InRole(r)
           /\ net.left[r] = Empty => Known(r) = InRole(r)
BY OverlayType, OverlayEmpty DEF TypeOK, InRole, Known

(* The handler hands on what it has; no field changes its value on the way.    *)
LEMMA KnownByHandOver ==
    ASSUME TypeOK, NEW q \in Roles, HandOver(q), NEW r \in Roles, r \notin tainted'
    PROVE  Known(r)' = Known(r)
<1> USE DEF TypeOK, roleVars
<1>1. CASE r # q
    BY <1>1 DEF HandOver, Known
<1>2. CASE r = q /\ net.of = current
  <2> DEFINE a == Overlay(state[r], held[r])
  <2>1. slot'[r] = Overlay(slot[r], net.left[r]) /\ net'.left[r] = Empty
      BY <1>2 DEF HandOver
  <2>2. a \in Maps /\ slot'[r] \in Maps
      BY <2>1, OverlayType
  <2>3. Known(r) = Overlay(Overlay(a, slot[r]), net.left[r])
      BY <1>2 DEF Known
  <2>4. Known(r)' = Overlay(Overlay(a, slot'[r]), Empty)
      BY <1>2, <2>1 DEF HandOver, Known
  <2>5. Overlay(a, slot'[r]) \in Maps
      BY <2>2, OverlayType
  <2>6. Known(r)' = Overlay(a, slot'[r])
      BY <2>4, <2>5, OverlayEmpty
  <2> QED
      BY <2>1, <2>2, <2>3, <2>6, OverlayAssociative
<1>3. CASE r = q /\ net.of # current
    BY <1>3 DEF HandOver
<1> QED
    BY <1>1, <1>2, <1>3

LEMMA KnownByReceive ==
    ASSUME TypeOK, Receive, NEW r \in Roles
    PROVE  \E delta \in Maps :
               /\ server'[r] = Overlay(server[r], delta)
               /\ Known(r)' = Overlay(Known(r), delta)
<1>1. PICK of \in SUBSET Roles, delta \in [Roles -> Deltas] :
          /\ net' = [of |-> current, left |-> delta]
          /\ server' = [q \in Roles |-> Overlay(server[q], delta[q])]
    BY DEF Receive
<1>2. delta[r] \in Maps /\ server'[r] = Overlay(server[r], delta[r])
  <2>1. sent + 1 \in Nat /\ delta[r] \in Deltas
      BY DEF TypeOK
  <2>2. delta[r] \in Maps
      BY <2>1 DEF Deltas, Maps
  <2> QED
      BY <1>1, <2>2
<1>3. net.left[r] = Empty
    BY DEF Receive, Sections
<1>4. Known(r) = InRole(r)
    BY <1>3, KnownIs
<1>5. Known(r)' = Overlay(InRole(r), delta[r])
    BY <1>1 DEF Receive, Known, InRole, roleVars
<1> QED
    BY <1>2, <1>4, <1>5

LEMMA KnownByDrain ==
    ASSUME TypeOK, Passes, Apply \/ Hold, NEW r \in Roles
    PROVE  Known(r)' = Known(r)
<1> DEFINE k == Order[loop.k]
<1>1. k \in Roles
    BY OrderFacts DEF Passes
<1>2. net' = net /\ current' = current
    BY DEF Apply, Hold
<1>3. InRole(r)' = InRole(r)
  <2>1. CASE r # k
      BY <1>1, <2>1 DEF Apply, Hold, Taken, InRole, TypeOK
  <2>2. CASE r = k
    <3>1. state[r] \in Maps /\ held[r] \in Maps /\ slot[r] \in Maps /\ Folded(r) \in Maps
        BY OverlayType DEF TypeOK, Folded
    <3>2. InRole(r) = Overlay(state[r], Folded(r)) /\ InRole(r) \in Maps
      <4>1. InRole(r) = Overlay(state[r], Folded(r))
          BY <3>1, OverlayAssociative DEF InRole, Folded
      <4> QED
          BY <3>1, <4>1, OverlayType
    <3>3. slot'[r] = Empty
        BY <1>1, <2>2 DEF Apply, Hold, Taken, TypeOK
    <3>4. CASE Apply
      <4>1. state'[r] = InRole(r) /\ held'[r] = Empty
          BY <1>1, <2>2, <3>2, <3>4 DEF Apply, TypeOK
      <4> QED
          BY <3>2, <3>3, <4>1, OverlayEmpty DEF InRole
    <3>5. CASE Hold
      <4>1. state'[r] = state[r] /\ held'[r] = Folded(r)
          BY <1>1, <2>2, <3>5 DEF Hold, TypeOK
      <4> QED
          BY <3>2, <3>3, <4>1, OverlayEmpty DEF InRole
    <3> QED
        BY <3>4, <3>5
  <2> QED
      BY <2>1, <2>2
<1> QED
    BY <1>2, <1>3 DEF Known, InRole

LEMMA KnownByOthers ==
    ASSUME StateInv, NEW r \in Roles,
           Promote \/ TakeEvents \/ HandleCleared \/ EndRing \/ Snapshot \/ Skip \/ CleanupNoGroup
               \/ UNCHANGED vars
    PROVE  Known(r)' = Known(r)
<1>1. TypeOK /\ Servers
    BY DEF StateInv, Mirrors
<1>2. CASE Promote
  <2>1. current = 0 /\ current' = conns + 1 /\ net.of <= conns /\ net' = net
      BY <1>1, <1>2 DEF Promote, Servers
  <2>2. net.of # current'
      BY <1>1, <2>1 DEF TypeOK
  <2>3. net.of = current => net.left[r] = Empty
      BY <1>1, <2>1 DEF Servers, Idle
  <2>4. Known(r) = InRole(r)
      BY <1>1, <2>3, KnownIs
  <2>5. Known(r)' = InRole(r)
      BY <1>2, <2>1, <2>2 DEF Promote, Known, InRole, roleVars
  <2> QED
      BY <2>4, <2>5
<1>3. CASE ~Promote
    BY <1>3 DEF TakeEvents, HandleCleared, EndRing, Snapshot, Skip, CleanupNoGroup, vars, roleVars, Known
<1> QED
    BY <1>2, <1>3

LEMMA KnownByCleanup ==
    ASSUME StateInv, CleanupRole, NEW r \in Roles
    PROVE  Known(r)' = IF r = Order[loop.c] THEN Empty ELSE Known(r)
<1>1. TypeOK /\ Servers /\ Passes
    BY DEF StateInv, Mirrors
<1>2. CASE r # Order[loop.c]
    BY <1>1, <1>2 DEF CleanupRole, Known, TypeOK
<1>3. CASE r = Order[loop.c]
  <2>1. state'[r] = Empty /\ held'[r] = Empty /\ slot'[r] = Empty /\ net' = net /\ current' = current
      BY <1>1, <1>3 DEF CleanupRole, TypeOK
  <2>2. net.of = current => net.left[r] = Empty
      BY <1>1 DEF CleanupRole, Servers, Passes, Idle
  <2> QED
      BY <1>3, <2>1, <2>2, OverlayEmpty DEF Known
<1> QED
    BY <1>2, <1>3

(* A role that is not to be cleaned after a step was not before, or the step   *)
(* has cleaned it; and what it knows has changed with what its server said.    *)
LEMMA LostStep ==
    ASSUME StateInv, [Next]_vars
    PROVE  NothingLost' /\ GroupOverlaid'
<1>1. TypeOK /\ Servers /\ Passes /\ NothingLost /\ GroupOverlaid
    BY DEF StateInv, Mirrors
<1>2. CASE Teardown
  <2>1. \A r \in Roles : ToBeCleaned(r)'
    <3>1. loop'.pc = "cleanup" /\ loop'.c = 1
        BY <1>1, <1>2 DEF Teardown, TypeOK, Loops
    <3> QED
        BY <3>1, OrderFacts DEF ToBeCleaned, Roles
  <2>2. server'[Group] = Empty
      BY <1>2, OrderFacts DEF Teardown, Idle
  <2> QED
      BY <2>1, <2>2, OrderFacts DEF NothingLost, GroupOverlaid, Empty, Wiped
<1>3. CASE Receive
  <2>1. \A r \in Roles : (ToBeCleaned(r)' <=> ToBeCleaned(r))
      BY <1>3, OthersClean DEF Others, Network
  <2>2. tainted' = tainted
      BY <1>3 DEF Receive
  <2>3. NothingLost'
    <3>1. ASSUME NEW r \in Wiped \ tainted', ~ToBeCleaned(r)' PROVE Known(r)' = server'[r]
      <4>1. Known(r) = server[r] /\ r \in Roles
          BY <1>1, <2>1, <2>2, <3>1 DEF NothingLost, Wiped
      <4> QED
          BY <1>1, <1>3, <4>1, KnownByReceive
    <3> QED
        BY <3>1 DEF NothingLost
  <2>4. GroupOverlaid'
    <3>1. ASSUME Group \notin tainted', NEW f \in Fields, server'[Group][f] # 0
          PROVE  Known(Group)'[f] = server'[Group][f]
      <4>1. PICK delta \in Maps : /\ server'[Group] = Overlay(server[Group], delta)
                                  /\ Known(Group)' = Overlay(Known(Group), delta)
          BY <1>1, <1>3, OrderFacts, KnownByReceive
      <4>2. server[Group][f] # 0 => Known(Group)[f] = server[Group][f]
          BY <1>1, <2>2, <3>1 DEF GroupOverlaid
      <4> QED
          BY <3>1, <4>1, <4>2 DEF Overlay
    <3> QED
        BY <3>1 DEF GroupOverlaid
  <2> QED
      BY <2>3, <2>4
<1>4. CASE CleanupRole
  <2>1. \A r \in Roles : ToBeCleaned(r)' <=> ToBeCleaned(r) /\ r # Order[loop.c]
      BY <1>4, CleaningStep DEF Cleanup
  <2>2. server = Idle /\ server' = Idle
      BY <1>1, <1>4 DEF CleanupRole, Servers, Passes
  <2>3. ASSUME NEW r \in Wiped \ tainted', ~ToBeCleaned(r)' PROVE Known(r)' = server'[r]
    <3>1. r \in Roles /\ (r # Order[loop.c] => r \notin tainted /\ ~ToBeCleaned(r))
        BY <1>4, <2>1, <2>3 DEF CleanupRole, Wiped
    <3>2. Known(r)' = IF r = Order[loop.c] THEN Empty ELSE Known(r)
        BY <1>4, <3>1, KnownByCleanup
    <3> QED
        BY <1>1, <2>2, <2>3, <3>1, <3>2 DEF NothingLost, Idle
  <2>4. \A f \in Fields : server'[Group][f] = 0
      BY <2>2, OrderFacts DEF Idle, Empty
  <2> QED
      BY <2>3, <2>4 DEF NothingLost, GroupOverlaid
<1>5. ASSUME CleanupNoGroup \/ HandleCleared \/ (Others /\ ~Receive)
      PROVE  NothingLost' /\ GroupOverlaid'
  <2>1. \A r \in Wiped : ToBeCleaned(r)' <=> ToBeCleaned(r)
    <3>1. CASE CleanupNoGroup
      <4>1. Order[loop.c] \notin Wiped
          BY <3>1, OrderFacts DEF CleanupNoGroup
      <4> QED
          BY <3>1, <4>1, CleaningStep DEF Cleanup, Wiped
    <3>2. CASE HandleCleared
        BY <1>1, <3>2 DEF HandleCleared, ToBeCleaned, TypeOK, Loops
    <3>3. CASE Others
        BY <3>3, OthersClean
    <3> QED
        BY <1>5, <3>1, <3>2, <3>3
  <2>2. server' = server /\ tainted \subseteq tainted'
      BY <1>5 DEF CleanupNoGroup, HandleCleared, Others, Network, HandOver, Promote, TakeEvents, EndRing,
                  Snapshot, Apply, Hold, Skip, vars
  <2>3. \A r \in Roles \ tainted' : Known(r)' = Known(r)
    <3>1. CASE \E q \in Roles : HandOver(q)
        BY <1>1, <3>1, KnownByHandOver
    <3>2. CASE Apply \/ Hold
        BY <1>1, <3>2, KnownByDrain
    <3>3. CASE Promote \/ TakeEvents \/ HandleCleared \/ EndRing \/ Snapshot \/ Skip \/ CleanupNoGroup
               \/ UNCHANGED vars
        BY <3>3, KnownByOthers
    <3> QED
        BY <1>5, <3>1, <3>2, <3>3 DEF Others, Network
  <2> QED
      BY <1>1, <2>1, <2>2, <2>3, OrderFacts DEF NothingLost, GroupOverlaid, Wiped
<1> QED
    BY <1>2, <1>3, <1>4, <1>5, Steps

-----------------------------------------------------------------------------
(* What the listener was told.                                                 *)

(* A delta that is applied meets no CLEARED: later in the pass than the ring,  *)
(* CLEARED means that there is no server, and so nothing to apply.             *)
LEMMA AppliedUncleared ==
    ASSUME StateInv, Apply, Order[loop.k] \in Wiped \ tainted
    PROVE  ~Clearing(Order[loop.k])
<1> DEFINE r == Order[loop.k]
<1>1. TypeOK /\ Servers /\ Passes /\ NothingLost /\ PendingOK
    BY PendingFacts DEF StateInv, Mirrors
<1>2. r \in Wiped \ tainted /\ r \in Roles /\ loop.pc = "roles" /\ Folded(r) # Empty
    BY DEF Apply, Wiped
<1> HIDE DEF r
<1>3. Known(r) = server[r]
    BY <1>1, <1>2 DEF NothingLost, ToBeCleaned
<1>4. ASSUME Clearing(r) PROVE FALSE
  <2>1. events # <<>>
      BY <1>1, <1>2, <1>4 DEF PendingOK, Queued, Pending
  <2>2. current = 0 /\ server[r] = Empty
      BY <1>1, <1>2, <2>1 DEF Passes, Servers, Idle
  <2>3. net.of = current => net.left[r] = Empty
      BY <1>1, <1>2, <2>2 DEF Servers, Idle
  <2>4. InRole(r) = Empty
      BY <1>1, <1>2, <1>3, <2>2, <2>3, KnownIs
  <2>5. state[r] \in Maps /\ held[r] \in Maps /\ slot[r] \in Maps /\ Folded(r) \in Maps
      BY <1>1, <1>2, OverlayType DEF TypeOK, Folded
  <2>6. Overlay(state[r], Folded(r)) = Empty
      BY <2>4, <2>5, OverlayAssociative DEF InRole, Folded
  <2> QED
      BY <1>2, <2>5, <2>6, OverlayIsEmpty
<1> QED
    BY <1>4 DEF r

LEMMA ToldStep ==
    ASSUME StateInv, [Next]_vars
    PROVE  ToldWhatIsKnown'
<1>1. /\ TypeOK /\ Passes /\ ToldWhatIsKnown /\ ClearedOnce /\ PendingOK
      /\ TypeOK' /\ Passes'
    BY PendingFacts, TypeStep, PassesStep DEF StateInv, Mirrors
<1>2. PendingOK'
    BY <1>1, PendingFacts, PTL
<1>3. /\ \A r \in Roles : (Clearing(r) <=> Queued(r)) /\ (Clearing(r)' <=> Queued(r)')
      /\ \A i, j \in DOMAIN Pending : Pending[i] = Pending[j] => i = j
    BY <1>1, <1>2 DEF PendingOK, ClearedOnce
<1> DEFINE Told(r) == ~ToBeCleaned(r) => IF Queued(r) THEN state[r] = Empty ELSE view[r] = state[r]
<1>4. \A r \in Wiped \ tainted : Told(r)
    BY <1>1, <1>3 DEF ToldWhatIsKnown, Wiped
<1>5. ASSUME NEW r \in Wiped \ tainted' PROVE Told(r)'
  <2>1. r \in Roles /\ r # Group
      BY <1>5, OrderFacts DEF Wiped
  <2>2. CASE Teardown
    <3>1. loop'.pc = "cleanup" /\ loop'.c = 1
        BY <1>1, <2>2 DEF Teardown, TypeOK, Loops
    <3> QED
        BY <2>1, <3>1, OrderFacts DEF ToBeCleaned, Roles
  <2>3. CASE HandleCleared
    <3> DEFINE h == Head(loop.batch)
    <3>1. /\ Pending # <<>> /\ Pending' = Tail(Pending) /\ Head(Pending) = h
          /\ Pending \in Seq(Wiped) /\ Pending' \in Seq(Wiped)
        BY <1>1, <1>2, <2>3, PendingChange DEF PendingOK
    <3>2. /\ Len(Pending') = Len(Pending) - 1 /\ Pending[1] = h /\ h \in Wiped
          /\ \A i \in 1..Len(Pending') : Pending'[i] = Pending[i + 1]
        BY <3>1, HeadTailProperties
    <3>3. DOMAIN Pending = 1..Len(Pending) /\ DOMAIN Pending' = 1..Len(Pending') /\ Len(Pending) \in Nat \ {0}
        BY <3>1, LenProperties, EmptySeq
    <3>4. Queued(r)' <=> Queued(r) /\ r # h
      <4>1. ASSUME Queued(r)' PROVE Queued(r) /\ r # h
        <5>1. PICK i \in DOMAIN Pending' : Pending'[i] = r
            BY <4>1 DEF Queued
        <5>2. i + 1 \in DOMAIN Pending /\ Pending[i + 1] = r /\ i + 1 # 1 /\ 1 \in DOMAIN Pending
            BY <3>2, <3>3, <5>1
        <5> QED
            BY <1>3, <3>2, <5>2 DEF Queued
      <4>2. ASSUME Queued(r), r # h PROVE Queued(r)'
        <5>1. PICK i \in DOMAIN Pending : Pending[i] = r
            BY <4>2 DEF Queued
        <5>2. i - 1 \in DOMAIN Pending' /\ Pending'[i - 1] = r
            BY <3>2, <3>3, <4>2, <5>1
        <5> QED
            BY <5>2 DEF Queued
      <4> QED
          BY <4>1, <4>2
    <3>5. ~ToBeCleaned(r) /\ tainted' = tainted /\ state' = state
        BY <2>3 DEF HandleCleared, ToBeCleaned
    <3>6. view'[r] = IF r = h THEN Empty ELSE view[r]
        BY <1>1, <2>1, <2>3, <3>2 DEF HandleCleared, TypeOK
    <3>7. Queued(h)
        BY <3>2, <3>3 DEF Queued
    <3> QED
        BY <1>4, <1>5, <3>4, <3>5, <3>6, <3>7
  <2>4. CASE CleanupRole
    <3> DEFINE x == Order[loop.c]
    <3>1. x \in Wiped /\ x \in Roles
        BY <1>1, <2>4, OrderFacts DEF CleanupRole, Passes
    <3>2. Pending' = Append(Pending, x) /\ Pending \in Seq(Wiped)
        BY <1>1, <2>4, PendingChange DEF PendingOK
    <3>3. (ToBeCleaned(r)' <=> ToBeCleaned(r) /\ r # x) /\ view' = view
        BY <2>1, <2>4, CleaningStep DEF Cleanup, CleanupRole
    <3>4. CASE r = x
      <4>1. state'[r] = Empty
          BY <1>1, <2>1, <2>4, <3>4 DEF CleanupRole, TypeOK
      <4>2. Pending'[Len(Pending) + 1] = r /\ Len(Pending) + 1 \in DOMAIN Pending'
        <5> HIDE DEF x
        <5> QED
            BY <3>1, <3>2, <3>4, AppendProperties, LenProperties
      <4> QED
          BY <4>1, <4>2 DEF Queued
    <3>5. CASE r # x
      <4>1. state'[r] = state[r] /\ r \notin tainted
          BY <1>1, <1>5, <2>1, <2>4, <3>5 DEF CleanupRole, TypeOK
      <4>2. Queued(r)' <=> Queued(r)
        <5> HIDE DEF x
        <5>1. /\ Len(Pending') = Len(Pending) + 1 /\ Pending'[Len(Pending) + 1] = x
              /\ \A i \in 1..Len(Pending) : Pending'[i] = Pending[i]
              /\ Len(Pending) \in Nat
              /\ DOMAIN Pending = 1..Len(Pending) /\ DOMAIN Pending' = 1..Len(Pending')
            BY <3>1, <3>2, AppendProperties, LenProperties
        <5> QED
            BY <3>5, <5>1 DEF Queued
      <4> QED
          BY <1>4, <1>5, <3>3, <3>5, <4>1, <4>2
    <3> QED
        BY <3>4, <3>5
  <2>5. CASE CleanupNoGroup \/ Others
    <3>1. Queued(r)' <=> Queued(r)
        BY <2>5, PendingChange DEF Queued
    <3>2. ToBeCleaned(r)' <=> ToBeCleaned(r)
      <4>1. CASE CleanupNoGroup
          BY <2>1, <4>1, CleaningStep DEF Cleanup, CleanupNoGroup
      <4>2. CASE Others
          BY <4>2, OthersClean
      <4> QED
          BY <2>5, <4>1, <4>2
    <3>3. r \in Wiped \ tainted
        BY <1>5, <2>5 DEF CleanupNoGroup, Others, Network, Receive, HandOver, Promote, TakeEvents, EndRing,
                          Snapshot, Apply, Hold, Skip, vars
    <3>4. CASE Apply /\ r = Order[loop.k]
      <4>1. ~Queued(r)
          BY <1>3, <2>1, <3>3, <3>4, AppliedUncleared
      <4>2. state'[r] = view'[r]
          BY <1>1, <2>1, <3>4 DEF Apply, TypeOK
      <4> QED
          BY <3>1, <4>1, <4>2
    <3>5. CASE Apply /\ r # Order[loop.k]
      <4>1. state'[r] = state[r] /\ view'[r] = view[r]
          BY <1>1, <2>1, <3>5 DEF Apply, TypeOK
      <4> QED
          BY <1>4, <3>1, <3>2, <3>3, <4>1
    <3>6. CASE ~Apply
      <4>1. state' = state /\ view' = view
          BY <2>5, <3>6 DEF CleanupNoGroup, Others, Network, Receive, HandOver, Promote, TakeEvents,
                            EndRing, Snapshot, Hold, Skip, roleVars, vars
      <4> QED
          BY <1>4, <3>1, <3>2, <3>3, <4>1
    <3> QED
        BY <3>4, <3>5, <3>6
  <2> QED
      BY <2>2, <2>3, <2>4, <2>5, Steps
<1> QED
    BY <1>3, <1>5 DEF ToldWhatIsKnown, Wiped

-----------------------------------------------------------------------------
(* The theorems.                                                               *)

LEMMA StateInvInit == Init => StateInv
<1> SUFFICES ASSUME Init PROVE StateInv
    OBVIOUS
<1>1. /\ current = 0 /\ conns = 0 /\ sent = 0 /\ events = <<>> /\ tainted = {}
      /\ server = Idle /\ slot = Idle /\ held = Idle /\ state = Idle /\ view = Idle
      /\ net = [of |-> 0, left |-> Idle]
      /\ loop = [pc |-> "connections", k |-> 1, batch |-> <<>>, bits |-> {}, c |-> 1, back |-> "connections"]
    BY DEF Init
<1>2. <<>> \in Seq(Wiped)
    BY EmptySeq
<1>3. TypeOK
  <2>1. loop \in Loops
      BY <1>1, <1>2 DEF Loops, Places
  <2> QED
      BY <1>1, <1>2, <2>1, IdleType DEF TypeOK
<1>4. Servers /\ Passes
    BY <1>1, OrderFacts DEF Servers, Passes
<1>5. \A r \in Roles : ~Clearing(r) /\ ~ToBeCleaned(r) /\ Known(r) = Empty
  <2>1. Pending = <<>> /\ PendingOK
      BY <1>1, <1>3, <1>4, PendingFacts DEF Pending
  <2>2. \A r \in Roles : Known(r) = Empty
      BY <1>1, OverlayEmpty DEF Known, Idle
  <2> QED
      BY <1>1, <2>1, <2>2 DEF PendingOK, Queued, ToBeCleaned
<1>6. ClearedOnce
    BY <1>1, <1>3, <1>4, PendingFacts DEF PendingOK, Pending, ClearedOnce
<1>7. NothingLost /\ GroupOverlaid /\ ToldWhatIsKnown
    BY <1>1, <1>5, OrderFacts DEF NothingLost, GroupOverlaid, ToldWhatIsKnown, Wiped, Idle, Empty
<1> QED
    BY <1>3, <1>4, <1>5, <1>6, <1>7 DEF StateInv, Mirrors, YetToClear

LEMMA StateInvStep == StateInv /\ [Next]_vars => StateInv'
BY TypeStep, ServersStep, PassesStep, OnceStep, LostStep, ToldStep DEF StateInv, Mirrors

THEOREM StateRolesInvariant == Spec => []StateInv
BY StateInvInit, StateInvStep, PTL DEF Spec

(* No field of a delta is lost or outlives its server, and the listener was    *)
(* told what the roles know, unless a CLEARED is on its way, which wipes       *)
(* nothing of the next server (metadata_role.cpp:156-217, client.cpp:194-367). *)
THEOREM StateRolesMirror == Spec => []Mirrors
<1>1. StateInv => Mirrors
    BY DEF StateInv
<1> QED
    BY <1>1, StateRolesInvariant, PTL
=============================================================================
