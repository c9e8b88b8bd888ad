--------------------------- MODULE TimeSyncProofs ---------------------------
(* What TLAPS proves of TimeSync, for any number of servers, messages of a  *)
(* burst and events of the ring.                                            *)
(*                                                                          *)
(* The time stamps carry the argument.  The ring holds its answers in the   *)
(* order they came, and each is newer than all that the burst has heard and *)
(* than all that any filter has taken.  So the best sample of a burst that  *)
(* is not over is one the filter will accept, and a late answer that is     *)
(* better than the best of a burst that is over is one too.                 *)
EXTENDS TimeSync, TLAPS

(* A connection that was never current has no message pending.              *)
Connected ==
    /\ current # None => current \in open \union gone
    /\ pending \subseteq gone \union {current}
    /\ current = None => heard = {}

(* The ring is in the order of arrival.                                     *)
InOrder == \A i, j \in 1..Len(inbox) : i < j => inbox[i].stamp < inbox[j].stamp

(* What is in the ring is newer than what the burst and the filters know.   *)
Newer ==
    /\ \A i \in 1..Len(inbox) : inbox[i].stamp <= received
    /\ \A i \in 1..Len(inbox), c \in Conns : LastStamp(c) < inbox[i].stamp
    /\ \A i \in 1..Len(inbox), h \in heard : h.stamp < inbox[i].stamp

(* Nothing has a time stamp of the future.                                  *)
Stamped ==
    /\ \A h \in heard : h.stamp <= received
    /\ \A c \in Conns : LastStamp(c) <= received

(* "best" is the best of what was heard, all of it of the current server.   *)
Chosen ==
    /\ heard = {} => best = NoSample
    /\ heard # {} => best \in heard
    /\ \A h \in heard : h.of = current /\ h.error > 0 /\ best.error <= h.error

(* The filter has none of the burst's samples until the burst is over, and  *)
(* the best of them then.                                                   *)
Applied ==
    /\ ~BurstOver => \A h \in heard : LastStamp(current) < h.stamp
    /\ BurstOver /\ heard # {} =>
          filter[current] # <<>> /\ filter[current][Len(filter[current])] = best

BurstInv ==
    /\ TypeOK /\ Connected /\ InOrder /\ Newer /\ Stamped /\ Chosen /\ Applied
    /\ AwaitedInBurst /\ UpdateIsTold /\ FilterIsClean

-----------------------------------------------------------------------------
(* The filter and the ring.                                                 *)

(* An update appends its sample where the filter accepts it, and leaves all *)
(* else as it was.                                                          *)
LEMMA UpdateAppends ==
    ASSUME TypeOK, FilterIsClean, current \in Conns, NEW over \in BOOLEAN,
           NEW s \in Samples \union {NoSample}, s # NoSample => s.of = current,
           filter' = Updated(over, s)
    PROVE  /\ filter' \in [Conns -> Seq(Samples)]
           /\ FilterIsClean'
           /\ \A c \in Conns : LastStamp(c)' =
                 IF over /\ Accepts(s) /\ c = current THEN s.stamp ELSE LastStamp(c)
           /\ over /\ Accepts(s) =>
                 filter'[current] # <<>> /\ filter'[current][Len(filter'[current])] = s
<1> DEFINE old == filter[current]
           new == Append(old, s)
<1>1. old \in Seq(Samples)
  BY DEF TypeOK
<1>2. CASE ~(over /\ Accepts(s))
  <2>1. filter' = filter
    BY <1>2 DEF Updated
  <2> QED
    BY <1>2, <2>1 DEF TypeOK, FilterIsClean, OnlyOwnClock, EachOnce, LastStamp
<1>3. CASE over /\ Accepts(s)
  <2>1. s \in Samples /\ s.of = current /\ s.stamp > LastStamp(current)
    BY <1>3 DEF Accepts
  <2>2. filter' = [filter EXCEPT ![current] = new]
    BY <1>3 DEF Updated
  <2>3. filter'[current] = new /\ \A c \in Conns : c # current => filter'[c] = filter[c]
    BY <2>2 DEF TypeOK
  <2>4. /\ new \in Seq(Samples) /\ new # <<>> /\ Len(new) = Len(old) + 1
        /\ new[Len(new)] = s /\ \A i \in 1..Len(old) : new[i] = old[i]
    BY <1>1, <2>1
  <2>5. filter' \in [Conns -> Seq(Samples)]
    BY <2>2, <2>4 DEF TypeOK
  <2>6. \A i \in 1..Len(old) : old[i].stamp < s.stamp
    <3> SUFFICES ASSUME NEW i \in 1..Len(old) PROVE old[i].stamp < s.stamp
      OBVIOUS
    <3>1. old # <<>> /\ Len(old) \in Nat /\ old[i] \in Samples /\ old[Len(old)] \in Samples
      BY <1>1
    <3>2. LastStamp(current) = old[Len(old)].stamp
      BY <3>1 DEF LastStamp
    <3>3. i = Len(old) \/ old[i].stamp < old[Len(old)].stamp
      BY <3>1 DEF FilterIsClean, EachOnce
    <3> QED
      BY <2>1, <3>1, <3>2, <3>3 DEF Samples
  <2>7. OnlyOwnClock'
    <3> SUFFICES ASSUME NEW c \in Conns, NEW i \in 1..Len(filter'[c]) PROVE filter'[c][i].of = c
      BY DEF OnlyOwnClock
    <3>1. CASE c # current
      BY <2>3, <3>1 DEF FilterIsClean, OnlyOwnClock
    <3>2. CASE c = current
      <4>1. Len(old) \in Nat /\ (i \in 1..Len(old) \/ i = Len(new))
        BY <1>1, <2>3, <2>4, <3>2
      <4>2. CASE i \in 1..Len(old)
        <5>1. filter'[c][i] = old[i]
          BY <2>3, <2>4, <3>2, <4>2
        <5>2. old[i].of = current
          BY <4>2 DEF FilterIsClean, OnlyOwnClock
        <5> QED
          BY <3>2, <5>1, <5>2
      <4>3. CASE i = Len(new)
        BY <2>1, <2>3, <2>4, <3>2, <4>3
      <4> QED
        BY <4>1, <4>2, <4>3
    <3> QED
      BY <3>1, <3>2
  <2>8. EachOnce'
    <3> SUFFICES ASSUME NEW c \in Conns, NEW i \in 1..Len(filter'[c]), NEW j \in 1..Len(filter'[c]), i < j
                 PROVE  filter'[c][i].stamp < filter'[c][j].stamp
      BY DEF EachOnce
    <3>1. CASE c # current
      BY <2>3, <3>1 DEF FilterIsClean, EachOnce
    <3>2. CASE c = current
      <4>1. Len(old) \in Nat /\ i \in 1..Len(old) /\ new[i] = old[i] /\ (j \in 1..Len(old) \/ j = Len(new))
        BY <1>1, <2>3, <2>4, <3>2
      <4>2. CASE j \in 1..Len(old)
        BY <2>3, <2>4, <3>2, <4>1, <4>2 DEF FilterIsClean, EachOnce
      <4>3. CASE j = Len(new)
        BY <2>3, <2>4, <2>6, <3>2, <4>1, <4>3
      <4> QED
        BY <4>1, <4>2, <4>3
    <3> QED
      BY <3>1, <3>2
  <2>9. \A c \in Conns : LastStamp(c)' = IF c = current THEN s.stamp ELSE LastStamp(c)
    BY <2>3, <2>4 DEF LastStamp
  <2> QED
    BY <1>3, <2>3, <2>4, <2>5, <2>7, <2>8, <2>9 DEF FilterIsClean
<1> QED
  BY <1>2, <1>3

(* Time stamps are numbers.                                                 *)
LEMMA StampsAreNumbers ==
    ASSUME TypeOK
    PROVE  /\ \A c \in Conns : LastStamp(c) \in Nat
           /\ received \in Nat
           /\ \A h \in heard : h \in Samples /\ h.stamp \in Nat /\ h.error \in Nat
           /\ \A i \in 1..Len(inbox) : inbox[i] \in Samples /\ inbox[i].stamp \in Nat
<1>1. \A c \in Conns : LastStamp(c) \in Nat
  <2> TAKE c \in Conns
  <2>1. filter[c] \in Seq(Samples)
    BY DEF TypeOK
  <2>2. filter[c] # <<>> => filter[c][Len(filter[c])] \in Samples
    BY <2>1
  <2>3. CASE filter[c] = <<>>
    BY <2>3 DEF LastStamp
  <2>4. CASE filter[c] # <<>>
    BY <2>2, <2>4 DEF LastStamp, Samples
  <2> QED
    BY <2>3, <2>4
<1>2. \A h \in Samples : h.stamp \in Nat /\ h.error \in Nat
  BY DEF Samples
<1>3. received \in Nat /\ heard \subseteq Samples /\ inbox \in Seq(Samples)
  BY DEF TypeOK
<1>4. \A i \in 1..Len(inbox) : inbox[i] \in Samples
  BY <1>3
<1> QED
  BY <1>1, <1>2, <1>3, <1>4

(* No sample of a connection is the sample that says there is none.         *)
LEMMA NoSampleIsNone ==
    NoSample \notin Samples
BY TimeAssumption DEF NoSample, Sample, Samples

-----------------------------------------------------------------------------
(* The network.                                                             *)

(* What the parts but TypeOK and Connected read.                            *)
measured == <<inbox, filter, heard, best, burst_index, received>>

(* Measurements that nothing touches stay as they are.                      *)
LEMMA MeasuredUnchanged ==
    ASSUME UNCHANGED <<measured, current>>
    PROVE  /\ InOrder => InOrder'
           /\ Newer => Newer'
           /\ Stamped => Stamped'
           /\ Chosen => Chosen'
           /\ Applied => Applied'
           /\ FilterIsClean => FilterIsClean'
BY DEF measured, InOrder, Newer, Stamped, Chosen, Applied, FilterIsClean, OnlyOwnClock, EachOnce,
       LastStamp, BurstOver

(* A connection opens, closes or loses a message.                           *)
LEMMA ConnectionStep ==
    ASSUME BurstInv, NEW c \in Conns, Establish(c) \/ Close(c) \/ Lose(c)
    PROVE  BurstInv'
<1>1. UNCHANGED <<measured, current, pending_burst_completed, untold>>
  BY DEF Establish, Close, Lose, netVars, msgVars, burstVars, measured
<1>2. pending' \subseteq pending
  BY DEF Establish, Close, Lose
<1>3. TypeOK'
  <2>1. CASE Establish(c)
    BY <2>1 DEF BurstInv, TypeOK, Establish, msgVars, burstVars
  <2>2. CASE Close(c)
    BY <2>2 DEF BurstInv, TypeOK, Close, msgVars, burstVars
  <2>3. CASE Lose(c)
    BY <2>3 DEF BurstInv, TypeOK, Lose, netVars, burstVars
  <2> QED
    BY <2>1, <2>2, <2>3
<1>4. Connected'
  BY <1>1, <1>2 DEF BurstInv, Connected, Establish, Close, Lose, netVars, measured
<1>5. AwaitedInBurst' /\ UpdateIsTold'
  BY <1>1, <1>2 DEF BurstInv, AwaitedInBurst, UpdateIsTold, BurstOver, measured
<1> QED
  BY <1>1, <1>3, <1>4, <1>5, MeasuredUnchanged DEF BurstInv

(* The answer that comes is newer than all before.                          *)
LEMMA AnswerStep ==
    ASSUME BurstInv, NEW c \in Conns, NEW e \in Errors, ServerTime(c, e)
    PROVE  BurstInv'
<1> DEFINE s == Sample(e, received + 1, c)
<1>1. /\ received' = received + 1 /\ inbox' = PushEvent(s)
      /\ UNCHANGED <<open, gone, current, loopAt, burstVars, pending, held, filter, sent>>
      /\ flight' = [flight EXCEPT ![c] = @ - 1] /\ flight[c] > 0
  BY DEF ServerTime
<1>2. s \in Samples /\ s.stamp = received + 1
  BY TimeAssumption DEF BurstInv, TypeOK, Sample, Samples
<1>3. inbox \in Seq(Samples) /\ Len(inbox) \in Nat /\ InboxCap \in Nat
  BY TimeAssumption DEF BurstInv, TypeOK
<1>4. /\ inbox' \in Seq(Samples) /\ Len(inbox') <= InboxCap
      /\ \A i \in 1..Len(inbox') : (i \in 1..Len(inbox) /\ inbox'[i] = inbox[i])
                                     \/ (i = Len(inbox) + 1 /\ inbox'[i] = s)
  <2>1. CASE inbox' = inbox
    BY <1>3, <2>1 DEF BurstInv, TypeOK
  <2>2. CASE Len(inbox) < InboxCap /\ inbox' = Append(inbox, s)
    BY <1>2, <1>3, <2>2
  <2> QED
    BY <1>1, <2>1, <2>2 DEF PushEvent
<1>5. TypeOK'
  BY <1>1, <1>4 DEF BurstInv, TypeOK, burstVars
<1>6. /\ \A d \in Conns : LastStamp(d)' = LastStamp(d) /\ LastStamp(d) \in Nat /\ LastStamp(d) <= received
      /\ \A h \in heard : h.stamp \in Nat /\ h.stamp <= received
      /\ heard' = heard /\ received \in Nat
      /\ \A i \in 1..Len(inbox) : inbox[i].stamp \in Nat /\ inbox[i].stamp <= received
  BY <1>1, StampsAreNumbers DEF BurstInv, Stamped, Newer, LastStamp, burstVars
<1>7. InOrder'
  <2> SUFFICES ASSUME NEW i \in 1..Len(inbox'), NEW j \in 1..Len(inbox'), i < j
               PROVE  inbox'[i].stamp < inbox'[j].stamp
    BY DEF InOrder
  <2>1. i \in 1..Len(inbox) /\ inbox'[i] = inbox[i]
    BY <1>3, <1>4
  <2>2. CASE j \in 1..Len(inbox) /\ inbox'[j] = inbox[j]
    BY <2>1, <2>2 DEF BurstInv, InOrder
  <2>3. CASE inbox'[j] = s
    BY <1>2, <1>6, <2>1, <2>3
  <2> QED
    BY <1>4, <2>2, <2>3
<1>8. Newer'
  <2> SUFFICES ASSUME NEW i \in 1..Len(inbox')
               PROVE  /\ inbox'[i].stamp <= received'
                      /\ \A d \in Conns : LastStamp(d)' < inbox'[i].stamp
                      /\ \A h \in heard' : h.stamp < inbox'[i].stamp
    BY DEF Newer
  <2>1. CASE i \in 1..Len(inbox) /\ inbox'[i] = inbox[i]
    BY <1>1, <1>6, <2>1 DEF BurstInv, Newer
  <2>2. CASE inbox'[i] = s
    BY <1>1, <1>2, <1>6, <2>2
  <2> QED
    BY <1>4, <2>1, <2>2
<1>9. Stamped'
  BY <1>1, <1>6 DEF Stamped
<1>10. Chosen' /\ Applied' /\ FilterIsClean' /\ AwaitedInBurst' /\ UpdateIsTold' /\ Connected'
  BY <1>1 DEF BurstInv, Chosen, Applied, FilterIsClean, OnlyOwnClock, EachOnce, LastStamp, BurstOver,
              AwaitedInBurst, UpdateIsTold, Connected, burstVars
<1> QED
  BY <1>5, <1>7, <1>8, <1>9, <1>10 DEF BurstInv

-----------------------------------------------------------------------------
(* The main loop.                                                           *)

(* A teardown leaves an empty ring and a burst that has heard nothing, so   *)
(* that whatever connection comes next has nothing pending and nothing of   *)
(* another.                                                                 *)
LEMMA CleanupStep ==
    ASSUME BurstInv, Cleanup, UNCHANGED <<open, received, flight, sent, loopAt, pending, filter>>,
           current' \in Conns \union {None}, gone' \subseteq Conns,
           current' # None => current' \in open \union gone',
           pending \subseteq gone' \union {current'}, current' \notin pending,
           loopAt # "burst"
    PROVE  BurstInv'
<1>1. inbox' = <<>> /\ heard' = {} /\ best' = NoSample /\ burst_index' = BurstSize
      /\ pending_burst_completed' = FALSE /\ untold' = FALSE /\ held' = FALSE
  BY DEF Cleanup, Reset
<1>2. TypeOK'
  <2>1. inbox' \in Seq(Samples) /\ Len(inbox') <= InboxCap
    BY <1>1, TimeAssumption
  <2>2. burst_index' \in Nat /\ best' \in Samples \union {NoSample} /\ heard' \subseteq Samples
    BY <1>1, TimeAssumption
  <2> QED
    BY <1>1, <2>1, <2>2 DEF BurstInv, TypeOK
<1>3. Connected' /\ AwaitedInBurst' /\ UpdateIsTold'
  BY <1>1 DEF Connected, AwaitedInBurst, UpdateIsTold
<1>4. InOrder' /\ Newer' /\ Chosen' /\ Applied'
  BY <1>1, TimeAssumption DEF InOrder, Newer, Chosen, Applied, BurstOver
<1>5. Stamped' /\ FilterIsClean'
  BY <1>1 DEF BurstInv, Stamped, FilterIsClean, OnlyOwnClock, EachOnce, LastStamp
<1> QED
  BY <1>2, <1>3, <1>4, <1>5 DEF BurstInv

(* The current connection is lost.                                          *)
LEMMA DropStep ==
    ASSUME BurstInv, Drop
    PROVE  BurstInv'
<1>1. /\ Cleanup /\ current' = None /\ current \in gone /\ loopAt # "burst"
      /\ UNCHANGED <<open, gone, received, flight, sent, loopAt, pending, filter>>
  BY DEF BurstInv, Connected, Drop, msgVars
<1>2. gone \subseteq Conns /\ pending \subseteq gone /\ None \notin pending
  BY <1>1, TimeAssumption DEF BurstInv, TypeOK, Connected
<1> QED
  BY <1>1, <1>2, CleanupStep

(* It gives way to another.                                                 *)
LEMMA PromoteStep ==
    ASSUME BurstInv, NEW c \in Conns, Promote(c)
    PROVE  BurstInv'
<1>1. /\ c \in open /\ c \notin gone /\ c # current /\ current' = c /\ loopAt # "burst"
      /\ gone' = gone \union ({current} \ {None})
      /\ UNCHANGED <<open, received, flight, sent, loopAt, pending, filter>>
  BY DEF Promote, msgVars
<1>2. /\ gone' \subseteq Conns /\ pending \subseteq gone' /\ c \notin pending
  BY <1>1, TimeAssumption DEF BurstInv, TypeOK, Connected
<1>3. CASE current # None
  <2>1. Cleanup
    BY <1>3 DEF Promote
  <2> QED
    BY <1>1, <1>2, <2>1, CleanupStep
<1>4. CASE current = None
  <2>1. UNCHANGED <<burstVars, inbox, held>> /\ heard = {}
    BY <1>4 DEF BurstInv, Connected, Promote
  <2>2. TypeOK'
    BY <1>1, <1>2, <2>1 DEF BurstInv, TypeOK, burstVars
  <2>3. Connected' /\ AwaitedInBurst' /\ UpdateIsTold'
    BY <1>1, <1>2, <2>1 DEF BurstInv, Connected, AwaitedInBurst, UpdateIsTold, burstVars
  <2>4. InOrder' /\ Newer' /\ Chosen' /\ Applied' /\ Stamped' /\ FilterIsClean'
    BY <1>1, <2>1 DEF BurstInv, InOrder, Newer, Chosen, Applied, Stamped, FilterIsClean, OnlyOwnClock,
                      EachOnce, LastStamp, burstVars
  <2> QED
    BY <2>2, <2>3, <2>4 DEF BurstInv
<1> QED
  BY <1>3, <1>4

(* The burst takes up where it was, or begins anew.                         *)
LEMMA TakenUp ==
    ASSUME BurstInv, burst_index' = Index, best' = Best, heard' = Heard,
           UNCHANGED <<inbox, filter, received, current>>
    PROVE  /\ burst_index' \in Nat /\ best' \in Samples \union {NoSample} /\ heard' \subseteq Samples
           /\ InOrder' /\ Newer' /\ Stamped' /\ Chosen' /\ Applied' /\ FilterIsClean' /\ ~BurstOver'
<1>1. heard' \subseteq heard
  BY DEF Heard
<1>2. ~BurstOver'
  BY TimeAssumption DEF BurstInv, TypeOK, BurstOver, Index
<1>3. CASE BurstOver
  BY <1>2, <1>3 DEF BurstInv, TypeOK, Index, Best, Heard, InOrder, Newer, Stamped, Chosen, Applied,
                    FilterIsClean, OnlyOwnClock, EachOnce, LastStamp
<1>4. CASE ~BurstOver
  <2>1. UNCHANGED <<measured, current>>
    BY <1>4 DEF measured, Index, Best, Heard
  <2> QED
    BY <1>2, <2>1, MeasuredUnchanged DEF BurstInv, TypeOK, measured
<1> QED
  BY <1>3, <1>4

(* A pass of the loop that counts nothing.                                  *)
LEMMA PassStep ==
    ASSUME BurstInv, EndConnections \/ Rest \/ Await \/ Send \/ Refused \/ EndEvents
    PROVE  BurstInv'
<1>1. CASE EndConnections \/ EndEvents
  <2>1. UNCHANGED <<measured, current>>
    BY <1>1 DEF EndConnections, EndEvents, netVars, burstVars, measured
  <2>2. TypeOK' /\ Connected' /\ AwaitedInBurst' /\ UpdateIsTold'
    BY <1>1 DEF BurstInv, TypeOK, Connected, AwaitedInBurst, UpdateIsTold, BurstOver, EndConnections,
                EndEvents, netVars, msgVars, burstVars
  <2> QED
    BY <2>1, <2>2, MeasuredUnchanged DEF BurstInv
<1>2. CASE Rest
  <2>1. UNCHANGED <<measured, current>>
    BY <1>2 DEF Rest, netVars, measured
  <2>2. TypeOK' /\ Connected' /\ AwaitedInBurst' /\ UpdateIsTold'
    BY <1>2 DEF BurstInv, TypeOK, Connected, AwaitedInBurst, UpdateIsTold, BurstOver, Rest, Report,
                netVars, msgVars
  <2> QED
    BY <2>1, <2>2, MeasuredUnchanged DEF BurstInv
<1>3. CASE Await \/ Send \/ Refused
  <2>1. /\ burst_index' = Index /\ best' = Best /\ heard' = Heard
        /\ UNCHANGED <<inbox, filter, received, current, open, gone>>
        /\ current # None /\ loopAt' = "events"
    BY <1>3 DEF BurstInv, TypeOK, Await, Send, Refused, Report, netVars
  <2>2. /\ burst_index' \in Nat /\ best' \in Samples \union {NoSample} /\ heard' \subseteq Samples
        /\ InOrder' /\ Newer' /\ Stamped' /\ Chosen' /\ Applied' /\ FilterIsClean' /\ ~BurstOver'
    BY <2>1, TakenUp
  <2>3. pending' \subseteq pending \union {current} /\ current \in Conns
    BY <1>3, <2>1 DEF BurstInv, TypeOK, Await, Send, Refused
  <2>4. /\ held' \in BOOLEAN /\ pending_burst_completed' = FALSE /\ untold' = FALSE
    BY <1>3 DEF BurstInv, TypeOK, UpdateIsTold, Await, Send, Refused, Report
  <2>5. flight' \in [Conns -> Nat] /\ sent' \in Nat
    <3>1. CASE Await \/ Refused
      BY <3>1 DEF BurstInv, TypeOK, Await, Refused, msgVars
    <3>2. CASE Send
      BY <2>3, <3>2 DEF BurstInv, TypeOK, Send
    <3> QED
      BY <1>3, <3>1, <3>2
  <2>6. TypeOK'
    BY <2>1, <2>2, <2>3, <2>4, <2>5 DEF BurstInv, TypeOK
  <2>7. Connected' /\ AwaitedInBurst' /\ UpdateIsTold'
    BY <2>1, <2>2, <2>3, <2>4 DEF BurstInv, Connected, AwaitedInBurst, UpdateIsTold
  <2> QED
    BY <2>2, <2>6, <2>7 DEF BurstInv
<1> QED
  BY <1>1, <1>2, <1>3

-----------------------------------------------------------------------------
(* What ends a burst.                                                       *)

(* The filter takes the best of a burst that is over: it is newer than what *)
(* the filter has, or is what the filter has.                               *)
LEMMA BestIsTaken ==
    ASSUME TypeOK, FilterIsClean, current \in Conns, current' = current, Chosen',
           best' \in Samples \union {NoSample}, heard' \subseteq Samples,
           NEW over \in BOOLEAN, over <=> BurstOver', filter' = Updated(over, best'),
           heard' # {} => \/ LastStamp(current) < best'.stamp
                          \/ filter[current] # <<>> /\ filter[current][Len(filter[current])] = best',
           ~over => \A h \in heard' : LastStamp(current) < h.stamp
    PROVE  /\ filter' \in [Conns -> Seq(Samples)] /\ FilterIsClean' /\ Applied'
           /\ \A c \in Conns : \/ LastStamp(c)' = LastStamp(c)
                               \/ best' \in heard' /\ LastStamp(c)' = best'.stamp
<1> DEFINE taken == over /\ Accepts(best')
<1>1. best' # NoSample => best' \in heard' /\ best'.of = current
  BY DEF Chosen
<1>3. /\ filter' \in [Conns -> Seq(Samples)] /\ FilterIsClean'
      /\ \A c \in Conns : LastStamp(c)' = IF taken /\ c = current THEN best'.stamp ELSE LastStamp(c)
      /\ taken => filter'[current] # <<>> /\ filter'[current][Len(filter'[current])] = best'
  <2> DEFINE s == best'
  <2> HIDE DEF s
  <2>1. s \in Samples \union {NoSample} /\ (s # NoSample => s.of = current) /\ filter' = Updated(over, s)
    BY <1>1 DEF s
  <2>2. /\ filter' \in [Conns -> Seq(Samples)] /\ FilterIsClean'
        /\ \A c \in Conns : LastStamp(c)' = IF over /\ Accepts(s) /\ c = current THEN s.stamp ELSE LastStamp(c)
        /\ over /\ Accepts(s) => filter'[current] # <<>> /\ filter'[current][Len(filter'[current])] = s
    BY <2>1, UpdateAppends
  <2> QED
    BY <2>2 DEF s
<1>4. Applied'
  <2>1. CASE ~over
    BY <1>3, <2>1 DEF Applied
  <2>2. CASE taken
    BY <1>3, <2>2 DEF Applied
  <2>3. CASE over /\ ~Accepts(best')
    <3>1. filter' = filter
      BY <2>3 DEF Updated
    <3>2. heard' # {} => best' \in Samples /\ best' # NoSample
      BY NoSampleIsNone DEF Chosen
    <3>3. heard' # {} => filter[current] # <<>> /\ filter[current][Len(filter[current])] = best'
      BY <2>3, <3>2 DEF Accepts
    <3> QED
      BY <2>3, <3>1, <3>3 DEF Applied
  <2> QED
    BY <2>1, <2>2, <2>3
<1>5. taken => best' \in heard'
  BY <1>1 DEF Accepts
<1> QED
  BY <1>3, <1>4, <1>5

(* A message's time is up.                                                  *)
LEMMA TimeOutStep ==
    ASSUME BurstInv, TimeOut
    PROVE  BurstInv'
<1>1. /\ current \in Conns /\ current \in pending /\ pending' = pending \ {current} /\ ~BurstOver
      /\ burst_index' = burst_index + 1 /\ best' = best /\ heard' = heard
      /\ filter' = Updated(BurstOver', best)
      /\ UNCHANGED <<open, gone, current, received, flight, sent, inbox>>
  BY DEF BurstInv, TypeOK, AwaitedInBurst, TimeOut, Index, Best, Heard, BurstOver, netVars, msgVars
<1>2. Chosen' /\ burst_index \in Nat /\ BurstSize \in Nat
  BY <1>1, TimeAssumption DEF BurstInv, TypeOK, Chosen
<1>3. \A h \in heard : LastStamp(current) < h.stamp
  BY <1>1 DEF BurstInv, Applied
<1>4. /\ filter' \in [Conns -> Seq(Samples)] /\ FilterIsClean' /\ Applied'
      /\ \A c \in Conns : \/ LastStamp(c)' = LastStamp(c)
                          \/ best' \in heard' /\ LastStamp(c)' = best'.stamp
  <2>1. best' \in Samples \union {NoSample} /\ heard' \subseteq Samples /\ (heard' # {} => best' \in heard')
    BY <1>1 DEF BurstInv, TypeOK, Chosen
  <2> DEFINE over == BurstOver'
  <2>2. TypeOK /\ FilterIsClean /\ filter' = Updated(over, best')
    BY <1>1 DEF BurstInv
  <2>3. heard' # {} => LastStamp(current) < best'.stamp
    BY <1>1, <1>3, <2>1
  <2>4. \A h \in heard' : LastStamp(current) < h.stamp
    BY <1>1, <1>3
  <2>5. over \in BOOLEAN /\ (over <=> BurstOver')
    BY DEF BurstOver
  <2> HIDE DEF over
  <2> QED
    BY <1>1, <1>2, <2>1, <2>2, <2>3, <2>4, <2>5, BestIsTaken
<1>5. Newer' /\ Stamped' /\ InOrder'
  BY <1>1, <1>4 DEF BurstInv, Newer, Stamped, InOrder
<1>6. /\ held' \in BOOLEAN /\ pending_burst_completed' = FALSE /\ untold' = FALSE /\ loopAt' = "events"
  BY DEF BurstInv, TypeOK, UpdateIsTold, TimeOut, Report
<1>7. TypeOK'
  <2>1. burst_index' \in Nat /\ pending' \subseteq Conns
    BY <1>1, <1>2 DEF BurstInv, TypeOK
  <2>2. inbox' \in Seq(Samples) /\ Len(inbox') <= InboxCap
    BY <1>1 DEF BurstInv, TypeOK
  <2>3. best' \in Samples \union {NoSample} /\ heard' \subseteq Samples
    BY <1>1 DEF BurstInv, TypeOK
  <2> QED
    BY <1>1, <1>4, <1>6, <2>1, <2>2, <2>3 DEF BurstInv, TypeOK
<1>8. Connected' /\ AwaitedInBurst' /\ UpdateIsTold'
  BY <1>1, <1>6 DEF BurstInv, Connected, AwaitedInBurst, UpdateIsTold
<1> QED
  BY <1>2, <1>4, <1>5, <1>7, <1>8 DEF BurstInv

(* An answer has its turn.                                                  *)
LEMMA ResponseStep ==
    ASSUME BurstInv, TakeResponse
    PROVE  BurstInv'
<1> DEFINE s == Head(inbox)
<1>1. /\ inbox # <<>> /\ inbox' = Tail(inbox)
      /\ UNCHANGED <<open, gone, current, received, flight, sent, loopAt, held>>
  BY DEF TakeResponse, netVars, msgVars
<1>2. /\ inbox \in Seq(Samples) /\ Len(inbox) \in Nat \ {0} /\ s \in Samples /\ s = inbox[1]
      /\ inbox' \in Seq(Samples) /\ Len(inbox') = Len(inbox) - 1
      /\ \A i \in 1..Len(inbox') : i + 1 \in 1..Len(inbox) /\ inbox'[i] = inbox[i + 1]
  BY <1>1 DEF BurstInv, TypeOK
<1>3. /\ s.stamp \in Nat /\ s.error \in Nat /\ s.stamp <= received /\ received \in Nat
      /\ \A c \in Conns : LastStamp(c) \in Nat /\ LastStamp(c) < s.stamp
  <2>1. 1 \in 1..Len(inbox) /\ s = inbox[1] /\ TypeOK
    BY <1>2 DEF BurstInv
  <2>2. s.stamp <= received /\ \A c \in Conns : LastStamp(c) < s.stamp
    BY <2>1 DEF BurstInv, Newer
  <2>3. s.stamp \in Nat /\ s.error \in Nat
    BY <1>2 DEF Samples
  <2> QED
    BY <2>1, <2>2, <2>3, StampsAreNumbers
<1>4. InOrder'
  <2> SUFFICES ASSUME NEW i \in 1..Len(inbox'), NEW j \in 1..Len(inbox'), i < j
               PROVE  inbox'[i].stamp < inbox'[j].stamp
    BY DEF InOrder
  <2> QED
    BY <1>2 DEF BurstInv, InOrder
<1>5. \A i \in 1..Len(inbox') :
          /\ inbox'[i].stamp <= received /\ s.stamp < inbox'[i].stamp
          /\ \A c \in Conns : LastStamp(c) < inbox'[i].stamp
          /\ \A h \in heard : h.stamp < inbox'[i].stamp
  <2> TAKE i \in 1..Len(inbox')
  <2>1. /\ 1 \in 1..Len(inbox) /\ i + 1 \in 1..Len(inbox) /\ 1 < i + 1 /\ inbox'[i] = inbox[i + 1]
    BY <1>2
  <2> QED
    BY <1>2, <2>1 DEF BurstInv, InOrder, Newer
<1>6. CASE ~FromCurrent(s)
  <2>1. UNCHANGED <<burstVars, pending, filter>>
    BY <1>6 DEF TakeResponse
  <2>2. TypeOK'
    <3>1. Len(inbox') <= InboxCap
      BY <1>2, TimeAssumption DEF BurstInv, TypeOK
    <3> QED
      BY <1>1, <1>2, <2>1, <3>1 DEF BurstInv, TypeOK, burstVars
  <2>3. Newer'
    BY <1>1, <1>5, <2>1 DEF Newer, LastStamp, burstVars
  <2>4. Connected' /\ AwaitedInBurst' /\ UpdateIsTold' /\ Stamped' /\ Chosen' /\ Applied' /\ FilterIsClean'
    BY <1>1, <2>1 DEF BurstInv, Connected, AwaitedInBurst, UpdateIsTold, Stamped, Chosen, Applied,
                      FilterIsClean, OnlyOwnClock, EachOnce, LastStamp, BurstOver, burstVars
  <2> QED
    BY <1>4, <2>2, <2>3, <2>4 DEF BurstInv
<1>7. CASE FromCurrent(s)
  <2>1. /\ current \in Conns /\ s.of = current
        /\ best' = BetterOf(s) /\ heard' = IF s.error > 0 THEN heard \union {s} ELSE heard
        /\ pending' = pending \ {current} /\ burst_index' = burst_index + 1
        /\ untold' = (untold \/ filter' # filter)
        /\ pending_burst_completed' = (pending_burst_completed \/ BurstOver')
    BY <1>7 DEF BurstInv, TypeOK, FromCurrent, TakeResponse, OnTimeResponse, BurstOver
  <2>2. filter' = Updated(BurstOver', best')
    BY <1>7 DEF TakeResponse, OnTimeResponse, BurstOver
  <2>3. /\ burst_index \in Nat /\ BurstSize \in Nat /\ (~BurstOver' => ~BurstOver)
    BY <2>1, TimeAssumption DEF BurstInv, TypeOK, BurstOver
  <2>4. /\ best' \in Samples \union {NoSample} /\ heard' \subseteq Samples
    BY <1>2, <2>1 DEF BurstInv, TypeOK, BetterOf
  <2>5. heard # {} => best \in heard /\ best # NoSample /\ best.error \in Nat
    BY NoSampleIsNone, StampsAreNumbers DEF BurstInv, TypeOK, Chosen
  <2>6. heard = {} => best = NoSample
    BY DEF BurstInv, Chosen
  <2>7. \A h \in heard : h.of = current /\ h.error \in Nat /\ h.error > 0 /\ best.error <= h.error
    BY StampsAreNumbers DEF BurstInv, Chosen
  <2>8. Chosen'
    <3>1. CASE s.error = 0
      BY <1>1, <1>3, <2>1, <2>5, <2>6, <2>7, <3>1 DEF Chosen, BetterOf
    <3>2. CASE s.error > 0 /\ heard = {}
      BY <1>1, <1>3, <2>1, <2>6, <3>2 DEF Chosen, BetterOf
    <3>3. CASE s.error > 0 /\ heard # {} /\ s.error < best.error
      BY <1>1, <1>3, <2>1, <2>5, <2>7, <3>3 DEF Chosen, BetterOf
    <3>4. CASE s.error > 0 /\ heard # {} /\ ~(s.error < best.error)
      BY <1>1, <1>3, <2>1, <2>5, <2>7, <3>4 DEF Chosen, BetterOf
    <3> QED
      BY <1>3, <3>1, <3>2, <3>3, <3>4
  <2>9. best' = s \/ (best' = best /\ heard # {}) \/ heard' = {}
    BY <1>3, <2>1, <2>5, <2>6 DEF BetterOf
  <2>10. heard' # {} => \/ LastStamp(current) < best'.stamp
                        \/ filter[current] # <<>> /\ filter[current][Len(filter[current])] = best'
    <3>1. CASE best' = s
      BY <1>3, <2>1, <3>1
    <3>2. CASE best' = best /\ heard # {} /\ BurstOver
      BY <3>2 DEF BurstInv, Applied
    <3>3. CASE best' = best /\ heard # {} /\ ~BurstOver
      BY <2>5, <3>3 DEF BurstInv, Applied
    <3> QED
      BY <2>9, <3>1, <3>2, <3>3
  <2>11. ~BurstOver' => \A h \in heard' : LastStamp(current) < h.stamp
    BY <1>3, <2>1, <2>3 DEF BurstInv, Applied
  <2>12. /\ filter' \in [Conns -> Seq(Samples)] /\ FilterIsClean' /\ Applied'
         /\ \A c \in Conns : \/ LastStamp(c)' = LastStamp(c)
                             \/ best' \in heard' /\ LastStamp(c)' = best'.stamp
    <3> DEFINE over == BurstOver'
    <3>1. TypeOK /\ FilterIsClean
      BY DEF BurstInv
    <3>2. over \in BOOLEAN /\ (over <=> BurstOver')
      BY DEF BurstOver
    <3>3. filter' = Updated(over, best') /\ (~over => \A h \in heard' : LastStamp(current) < h.stamp)
      BY <2>2, <2>11
    <3> HIDE DEF over
    <3> QED
      BY <1>1, <2>1, <2>4, <2>8, <2>10, <3>1, <3>2, <3>3, BestIsTaken
  <2>13. \A h \in heard' : h \in heard \/ h = s
    BY <2>1
  <2>14. Newer' /\ Stamped'
    BY <1>1, <1>3, <1>5, <2>12, <2>13 DEF BurstInv, Newer, Stamped
  <2>15. TypeOK'
    <3>1. untold' \in BOOLEAN /\ pending_burst_completed' \in BOOLEAN /\ burst_index' \in Nat
      BY <2>1, <2>3 DEF BurstInv, TypeOK, BurstOver
    <3>2. Len(inbox') <= InboxCap /\ pending' \subseteq Conns
      BY <1>2, <2>1, TimeAssumption DEF BurstInv, TypeOK
    <3> QED
      BY <1>1, <1>2, <2>4, <2>12, <3>1, <3>2 DEF BurstInv, TypeOK
  <2>16. UpdateIsTold'
    BY <2>1, <2>2 DEF BurstInv, UpdateIsTold, Updated
  <2>17. Connected' /\ AwaitedInBurst'
    BY <1>1, <2>1, TimeAssumption DEF BurstInv, Connected, AwaitedInBurst
  <2> QED
    BY <1>4, <2>8, <2>12, <2>14, <2>15, <2>16, <2>17 DEF BurstInv
<1> QED
  BY <1>6, <1>7

-----------------------------------------------------------------------------
(* The theorems.                                                            *)

LEMMA BurstInvInit ==
    Init => BurstInv
<1> SUFFICES ASSUME Init PROVE BurstInv
  OBVIOUS
<1>1. TypeOK
  <2>1. inbox \in Seq(Samples) /\ Len(inbox) <= InboxCap
    BY TimeAssumption DEF Init
  <2>2. filter \in [Conns -> Seq(Samples)]
    BY DEF Init
  <2> QED
    BY <2>1, <2>2, TimeAssumption DEF Init, TypeOK
<1> QED
  BY <1>1, TimeAssumption DEF Init, BurstInv, Connected, InOrder, Newer, Stamped, Chosen, Applied,
      AwaitedInBurst, UpdateIsTold, FilterIsClean, OnlyOwnClock, EachOnce, LastStamp, BurstOver

LEMMA BurstInvNext ==
    BurstInv /\ [Next]_vars => BurstInv'
<1> SUFFICES ASSUME BurstInv, [Next]_vars PROVE BurstInv'
  OBVIOUS
<1>1. CASE \E c \in Conns : Establish(c) \/ Close(c) \/ Lose(c)
  BY <1>1, ConnectionStep
<1>2. CASE \E c \in Conns : Promote(c)
  BY <1>2, PromoteStep
<1>3. CASE \E c \in Conns, e \in Errors : ServerTime(c, e)
  BY <1>3, AnswerStep
<1>4. CASE Drop
  BY <1>4, DropStep
<1>5. CASE EndConnections \/ Rest \/ Await \/ Send \/ Refused \/ EndEvents
  BY <1>5, PassStep
<1>6. CASE TimeOut
  BY <1>6, TimeOutStep
<1>7. CASE TakeResponse
  BY <1>7, ResponseStep
<1>8. CASE UNCHANGED vars
  <2>1. UNCHANGED <<measured, current>>
    BY <1>8 DEF vars, netVars, msgVars, burstVars, measured
  <2>2. TypeOK' /\ Connected' /\ AwaitedInBurst' /\ UpdateIsTold'
    BY <1>8 DEF vars, netVars, msgVars, burstVars, BurstInv, TypeOK, Connected, AwaitedInBurst,
                UpdateIsTold, BurstOver
  <2> QED
    BY <2>1, <2>2, MeasuredUnchanged DEF BurstInv
<1> QED
  BY <1>1, <1>2, <1>3, <1>4, <1>5, <1>6, <1>7, <1>8 DEF Next, LoopStep

(* The invariant of the bursts and their measurements.                      *)
THEOREM TimeSyncInvariant ==
    Spec => []BurstInv
BY BurstInvInit, BurstInvNext, PTL DEF Spec

(* Whatever answers are lost, late, of a displaced server or never sent, a  *)
(* burst that is over has given the filter the best of what it heard, and   *)
(* no message of before is awaited in the next: time_burst.cpp:25-106.      *)
THEOREM TimeSyncBursts ==
    Spec => []BurstConsistent
<1>1. BurstInv => BurstConsistent
  <2> SUFFICES ASSUME BurstInv PROVE BestIsApplied
    BY DEF BurstInv, BurstConsistent
  <2> QED
    BY DEF BurstInv, BestIsApplied, Applied, Chosen
<1> QED
  BY <1>1, TimeSyncInvariant, PTL

(* A filter takes measurements of its own server only, each once and in the *)
(* order they were made: client.cpp:225-229.                                *)
THEOREM TimeSyncFilter ==
    Spec => []FilterIsClean
<1>1. BurstInv => FilterIsClean
  BY DEF BurstInv
<1> QED
  BY <1>1, TimeSyncInvariant, PTL
=============================================================================
