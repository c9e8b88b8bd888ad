------------------------------ MODULE TimeSync ------------------------------
(* Clock synchronisation: SendspinTimeBurst, the parts of                     *)
(* SendspinClient::loop(), of its message handler and of its teardown that    *)
(* drive it, and the gate of SendspinTimeFilter::update().                    *)
(*                                                                            *)
(* The main loop sends the messages of a burst one by one, each when the one  *)
(* before was answered or has timed out.  An answer passes a network thread   *)
(* and the inbox ring before the main loop counts it, so it may come late,    *)
(* from a connection that was displaced, or not at all.  A burst gives its    *)
(* best sample to the Kalman filter of the connection.                        *)
(*                                                                            *)
(* Time is not a number: an interval or a timeout has passed, or has not.     *)
(* A sample is the error of an answer, when it came and whose clock it is of. *)
(* "heard" and "untold" are history variables: the usable samples of the      *)
(* burst, and whether the filter has changed since the listener was told.     *)
EXTENDS Naturals, Sequences, FiniteSets

CONSTANTS
    Conns,       \* connections, each to a server with a clock of its own
    None,
    BurstSize,   \* burst_size_
    InboxCap,    \* Inbox::EVENT_CAPACITY
    Errors,      \* max_error of an answer: half a round trip, 0 if not positive
    MaxSent      \* bounds the time messages sent

ASSUME TimeAssumption ==
    /\ None \notin Conns
    /\ BurstSize \in Nat \ {0} /\ InboxCap \in Nat \ {0}
    /\ Errors \subseteq Nat /\ MaxSent \in Nat

VARIABLES
    open,        \* the connections that are up and have done their handshake
    gone,        \* the connections that are closed, or were current
    current,     \* current_connection_
    flight,      \* per connection: the time messages its server has not answered
    sent,        \* the time messages sent so far
    received,    \* the answers received so far, and the client's clock
    inbox,       \* the TIME_RESPONSE events in the ring
    loopAt,      \* where SendspinClient::loop() is
    burst_index, best, pending_burst_completed,
    pending,     \* the connections whose pending_time_message_ is set
    held,        \* high_performance_held_for_time_
    filter,      \* per connection: the samples its filter was updated with
    heard, untold

netVars == <<open, gone, current, received>>
msgVars == <<flight, sent>>
burstVars == <<burst_index, best, pending_burst_completed, heard, untold>>
vars == <<netVars, msgVars, inbox, loopAt, burstVars, pending, held, filter>>

Sample(e, t, c) == [error |-> e, stamp |-> t, of |-> c]
NoSample == Sample(0, 0, None)

Init ==
    /\ open = {} /\ gone = {} /\ current = None /\ received = 0
    /\ flight = [c \in Conns |-> 0] /\ sent = 0
    /\ inbox = <<>> /\ loopAt = "connections"
    /\ burst_index = BurstSize /\ best = NoSample /\ pending_burst_completed = FALSE
    /\ pending = {} /\ held = FALSE
    /\ filter = [c \in Conns |-> <<>>]
    /\ heard = {} /\ untold = FALSE

-----------------------------------------------------------------------------
(* The network.                                                               *)

Establish(c) ==
    /\ c \notin open \union gone
    /\ open' = open \union {c}
    /\ UNCHANGED <<gone, current, received, msgVars, inbox, loopAt, burstVars, pending, held, filter>>

(* A close clears the pending flag of a dialled connection, not of an         *)
(* accepted one.                                                              *)
Close(c) ==
    /\ c \in open
    /\ open' = open \ {c}
    /\ gone' = gone \union {c}
    /\ pending' \in {pending, pending \ {c}}
    /\ UNCHANGED <<current, received, msgVars, inbox, loopAt, burstVars, held, filter>>

(* The message or its answer is lost.                                         *)
Lose(c) ==
    /\ flight[c] > 0
    /\ flight' = [flight EXCEPT ![c] = @ - 1]
    /\ UNCHANGED <<netVars, sent, inbox, loopAt, burstVars, pending, held, filter>>

(* Inbox::push_event().                                                       *)
PushEvent(s) == IF Len(inbox) < InboxCap THEN Append(inbox, s) ELSE inbox

(* server/time: the measurement goes into the ring with the connection it     *)
(* came from.  The teardown of the connection may overtake the handler.       *)
ServerTime(c, e) ==
    /\ flight[c] > 0
    /\ flight' = [flight EXCEPT ![c] = @ - 1]
    /\ received' = received + 1
    /\ inbox' = PushEvent(Sample(e, received + 1, c))
    /\ UNCHANGED <<open, gone, current, sent, loopAt, burstVars, pending, held, filter>>

-----------------------------------------------------------------------------
(* The main loop: connection_manager_->loop() first.                          *)

(* Mutant: the position in the burst survives the reset.                      *)
ResetKeepsIndex ==
    /\ best' = NoSample /\ pending_burst_completed' = FALSE
    /\ heard' = {} /\ untold' = FALSE /\ UNCHANGED burst_index

(* SendspinTimeBurst::reset().                                                *)
Reset ==
    /\ burst_index' = BurstSize /\ best' = NoSample /\ pending_burst_completed' = FALSE
    /\ heard' = {} /\ untold' = FALSE

(* cleanup_connection_state().                                                *)
Cleanup == Reset /\ inbox' = <<>> /\ held' = FALSE

(* The current connection is lost ...                                         *)
Drop ==
    /\ loopAt = "connections" /\ current # None /\ current \notin open
    /\ current' = None
    /\ Cleanup
    /\ UNCHANGED <<open, gone, received, msgVars, loopAt, pending, filter>>

(* ... or gives way to one that has established.                              *)
Promote(c) ==
    /\ loopAt = "connections" /\ c \in open \ gone /\ c # current
    /\ current' = c
    /\ gone' = gone \union ({current} \ {None})
    /\ IF current = None THEN UNCHANGED <<burstVars, inbox, held>> ELSE Cleanup
    /\ UNCHANGED <<open, received, msgVars, loopAt, pending, filter>>

EndConnections ==
    /\ loopAt = "connections"
    /\ loopAt' = IF current = None THEN "events" ELSE "burst"
    /\ UNCHANGED <<netVars, msgVars, inbox, burstVars, pending, held, filter>>

-----------------------------------------------------------------------------
(* Then SendspinTimeBurst::loop().                                            *)

BurstOver == burst_index >= BurstSize

(* A burst that is over gives way to a new one when the interval has passed.  *)
Index == IF BurstOver THEN 0 ELSE burst_index

(* Mutant: a new burst begins with the best sample of the old.                *)
BestSoFar == best

Best == IF BurstOver THEN NoSample ELSE best
Heard == IF BurstOver THEN {} ELSE heard

(* Mutant: the filter takes any time stamp.                                   *)
LastStampAnew(c) == 0

LastStamp(c) == IF filter[c] = <<>> THEN 0 ELSE filter[c][Len(filter[c])].stamp

(* SendspinTimeFilter::update(): what is not newer than its last sample is    *)
(* skipped.                                                                   *)
Accepts(s) == s # NoSample /\ s.stamp > LastStamp(current)

(* The filter's samples after a burst, over or not, whose best is s.          *)
Updated(over, s) ==
    IF over /\ Accepts(s) THEN [filter EXCEPT ![current] = Append(@, s)] ELSE filter

(* What loop() does with the result of the burst: a completion is one that    *)
(* an answer brought since the last pass, or one by a timeout in this pass.   *)
Report(sends, over) ==
    LET completed == over \/ pending_burst_completed IN
    /\ held' = ((held \/ sends) /\ ~completed)
    /\ untold' = (untold /\ ~completed)
    /\ pending_burst_completed' = FALSE
    /\ loopAt' = "events"

(* Not connected, or between two bursts.                                      *)
Rest ==
    /\ loopAt = "burst" /\ (current \notin open \/ BurstOver)
    /\ Report(FALSE, FALSE)
    /\ UNCHANGED <<netVars, msgVars, inbox, burst_index, best, heard, pending, filter>>

(* A message is unanswered, and its time is not up ...                        *)
Await ==
    /\ loopAt = "burst" /\ current \in open /\ current \in pending
    /\ burst_index' = Index /\ best' = Best /\ heard' = Heard
    /\ Report(FALSE, FALSE)
    /\ UNCHANGED <<netVars, msgVars, inbox, pending, filter>>

(* ... or it is.                                                              *)
TimeOut ==
    LET over == Index + 1 >= BurstSize IN
    /\ loopAt = "burst" /\ current \in open /\ current \in pending
    /\ pending' = pending \ {current}
    /\ burst_index' = Index + 1 /\ best' = Best /\ heard' = Heard
    /\ filter' = Updated(over, Best)
    /\ Report(FALSE, over)
    /\ UNCHANGED <<netVars, msgVars, inbox>>

(* The next message is sent, or the transport refuses it.                     *)
Send ==
    /\ loopAt = "burst" /\ current \in open /\ current \notin pending
    /\ sent < MaxSent
    /\ sent' = sent + 1
    /\ flight' = [flight EXCEPT ![current] = @ + 1]
    /\ pending' = pending \union {current}
    /\ burst_index' = Index /\ best' = Best /\ heard' = Heard
    /\ Report(TRUE, FALSE)
    /\ UNCHANGED <<netVars, inbox, filter>>

Refused ==
    /\ loopAt = "burst" /\ current \in open /\ current \notin pending
    /\ burst_index' = Index /\ best' = Best /\ heard' = Heard
    /\ Report(FALSE, FALSE)
    /\ UNCHANGED <<netVars, msgVars, inbox, pending, filter>>

-----------------------------------------------------------------------------
(* Last, the events of the ring.                                              *)

FromCurrent(s) == current # None /\ s.of = current

(* A round trip that took no time is no sample.                               *)
BetterOf(s) == IF s.error > 0 /\ (best = NoSample \/ s.error < best.error) THEN s ELSE best

(* on_time_response(): counts for the burst whichever of its messages it      *)
(* answers, and even if the burst is over.                                    *)
OnTimeResponse(s) ==
    LET over == burst_index + 1 >= BurstSize IN
    /\ best' = BetterOf(s)
    /\ heard' = IF s.error > 0 THEN heard \union {s} ELSE heard
    /\ pending' = pending \ {current}
    /\ burst_index' = burst_index + 1
    /\ filter' = Updated(over, BetterOf(s))
    /\ untold' = (untold \/ filter' # filter)
    /\ pending_burst_completed' = (pending_burst_completed \/ over)

TakeResponse ==
    /\ loopAt = "events" /\ inbox # <<>>
    /\ inbox' = Tail(inbox)
    /\ IF FromCurrent(Head(inbox)) THEN OnTimeResponse(Head(inbox))
                                   ELSE UNCHANGED <<burstVars, pending, filter>>
    /\ UNCHANGED <<netVars, msgVars, loopAt, held>>

EndEvents ==
    /\ loopAt = "events" /\ inbox = <<>>
    /\ loopAt' = "connections"
    /\ UNCHANGED <<netVars, msgVars, inbox, burstVars, pending, held, filter>>

-----------------------------------------------------------------------------

LoopStep ==
    \/ EndConnections \/ Rest \/ Await \/ TimeOut \/ Send \/ Refused
    \/ TakeResponse \/ EndEvents

Next ==
    \/ \E c \in Conns : Establish(c) \/ Close(c) \/ Lose(c) \/ Promote(c)
    \/ \E c \in Conns, e \in Errors : ServerTime(c, e)
    \/ Drop
    \/ LoopStep

Spec == Init /\ [][Next]_vars

(* The application calls loop() again and again, a timeout is over at some    *)
(* time, a transport that is up takes a message at some time, and the event   *)
(* of a lost connection is processed.                                         *)
FairSpec == Spec /\ WF_vars(LoopStep) /\ SF_vars(TimeOut) /\ SF_vars(Send) /\ SF_vars(Drop)

-----------------------------------------------------------------------------
(* Properties.                                                                *)

Samples == [error : Nat, stamp : Nat, of : Conns]

(* Every variable has its type: time_burst.h:100-113.                         *)
TypeOK ==
    /\ open \subseteq Conns /\ gone \subseteq Conns /\ current \in Conns \union {None}
    /\ flight \in [Conns -> Nat] /\ sent \in Nat /\ received \in Nat
    /\ inbox \in Seq(Samples) /\ Len(inbox) <= InboxCap
    /\ loopAt \in {"connections", "burst", "events"}
    /\ loopAt = "burst" => current # None
    /\ burst_index \in Nat /\ best \in Samples \union {NoSample}
    /\ pending_burst_completed \in BOOLEAN
    /\ pending \subseteq Conns /\ held \in BOOLEAN
    /\ filter \in [Conns -> Seq(Samples)]
    /\ heard \subseteq Samples /\ untold \in BOOLEAN

(* A filter never takes a measurement of another server's clock, though the   *)
(* answers of all connections share one ring and a handover may come between  *)
(* an answer and its turn: client.cpp:225-229.                                *)
OnlyOwnClock ==
    \A c \in Conns : \A i \in 1..Len(filter[c]) : filter[c][i].of = c

(* No measurement counts twice, though a late answer may complete a burst     *)
(* again that has already given its best: the filter's samples grow newer.    *)
EachOnce ==
    \A c \in Conns : \A i, j \in 1..Len(filter[c]) :
        i < j => filter[c][i].stamp < filter[c][j].stamp

(* When a burst is over, the last sample of the filter is the best of all     *)
(* that were heard in the burst, whichever of its messages timed out and in   *)
(* whichever order the answers came: time_burst.h:37-39.                      *)
BestIsApplied ==
    BurstOver /\ heard # {} =>
        LET f == filter[current] IN
        /\ f # <<>> /\ f[Len(f)] \in heard
        /\ \A s \in heard : f[Len(f)].error <= s.error

(* A message is awaited only in a burst that is not over, so the timeout of   *)
(* an old message never counts for a burst that begins: time_burst.cpp:56.    *)
AwaitedInBurst == current \in pending => ~BurstOver

(* The listener hears of every change of the current filter: what it was not  *)
(* told of yet is marked for the next pass, also if the connection closes     *)
(* before that: time_burst.cpp:33-38.                                         *)
UpdateIsTold == untold => pending_burst_completed

(* A filter takes samples of its own server only, each once and in the order  *)
(* of their measurement.                                                      *)
FilterIsClean == OnlyOwnClock /\ EachOnce

(* The burst, its pending messages, what is to be told and the current        *)
(* filter fit together, whatever is lost, late, displaced or torn down.       *)
BurstConsistent == TypeOK /\ BestIsApplied /\ AwaitedInBurst /\ UpdateIsTold

(* Every burst ends, whatever is lost, refused, late or displaced, and the    *)
(* hold on high-performance networking is given back at its end or with the   *)
(* connection (client.cpp:179, 594-598), unless the bound on messages is      *)
(* reached.                                                                   *)
BurstEnds ==
    /\ ~BurstOver ~> BurstOver \/ sent = MaxSent
    /\ held ~> ~held \/ sent = MaxSent

(* time_burst.h:31 says of a reported completion that the Kalman filter was   *)
(* updated: the listener is not told of a filter that never was.              *)
CompletionMeansUpdate ==
    [][loopAt = "burst" /\ (pending_burst_completed \/ (TimeOut /\ burst_index' >= BurstSize))
        => filter'[current] # <<>>]_vars
=============================================================================
