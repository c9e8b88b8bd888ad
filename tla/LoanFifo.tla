------------------------------ MODULE LoanFifo ------------------------------
(* What a ring buffer with two-phase writes and borrowed reads promises: the *)
(* items come out in the order in which their space was taken, each only     *)
(* after it was committed and as it was written, and one is on loan at a     *)
(* time, to be given back before the next.                                   *)
EXTENDS Sequences

CONSTANTS Payloads, None

VARIABLES queue,    \* the payloads in the buffer, oldest first
          ready,    \* those that are committed
          loan      \* the payload the consumer reads, or None

fifoVars == <<queue, ready, loan>>

Queued == {queue[i] : i \in DOMAIN queue}

FifoInit == queue = <<>> /\ ready = {} /\ loan = None

Reserve(x) ==
    /\ x \notin Queued
    /\ queue' = Append(queue, x)
    /\ UNCHANGED <<ready, loan>>

Publish(x) ==
    /\ x \in Queued \ ready
    /\ ready' = ready \union {x}
    /\ UNCHANGED <<queue, loan>>

Lend ==
    /\ loan = None
    /\ queue # <<>> /\ Head(queue) \in ready
    /\ loan' = Head(queue)
    /\ UNCHANGED <<queue, ready>>

Return ==
    /\ loan # None
    /\ queue # <<>>
    /\ queue' = Tail(queue)
    /\ ready' = ready \ {Head(queue)}
    /\ loan' = None

FifoNext == Lend \/ Return \/ \E x \in Payloads : Reserve(x) \/ Publish(x)

FifoSpec == FifoInit /\ [][FifoNext]_fifoVars
=============================================================================
