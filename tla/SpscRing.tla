------------------------------ MODULE SpscRing ------------------------------
(* The ring buffer of platform/spsc_ring_buffer.h as the host builds it: a    *)
(* mutex and two condition variables around a byte array in which every item  *)
(* is a header followed by its payload, contiguous, with a filler at the end  *)
(* of the array when an item does not fit there.  The unit is one header, 8   *)
(* bytes, to which everything is aligned.  Each call holds the mutex, but the *)
(* producer fills its space, and the consumer reads the item it borrowed,     *)
(* outside of it.                                                             *)
(*                                                                            *)
(* Two threads can write: a network thread and, while a connection is handed  *)
(* over, the other connection's.  "items" is a history variable: the items    *)
(* whose space is taken, oldest first.                                        *)
EXTENDS Naturals, Sequences, FiniteSets

CONSTANTS
    Size,       \* storage_size_, in units
    Sizes,      \* the payload sizes, in units, that the callers ask for
    Producers,
    Payloads,   \* contents of items, told apart
    None

ASSUME SizeAssumption == Size \in Nat /\ Size >= 2
ASSUME SizesAssumption == Sizes \subseteq Nat \ {0}
ASSUME NoneAssumption == None \notin Payloads

VARIABLES
    storage, write_offset, read_offset, free_bytes, items_waiting,
    producer,   \* where each producer is in acquire() and commit()
    reader,     \* where the consumer is in receive() and return_item()
    items

vars == <<storage, write_offset, read_offset, free_bytes, items_waiting, producer, reader, items>>

Offsets == 0 .. Size - 1
Flags == {"free", "acquired", "dummy", "written", "payload"}

Header(flag, size) == [flag |-> flag, size |-> size, content |-> None]
Payload(x) == [flag |-> "payload", size |-> 0, content |-> x]

Total(n) == n + 1
Wrapped(o) == IF o >= Size THEN 0 ELSE o

Item(o, n, x) == [off |-> o, size |-> n, content |-> x]
Contents == {items[i].content : i \in DOMAIN items}
Fresh == CHOOSE x \in Payloads \ Contents : TRUE

Idle == [pc |-> "idle", size |-> 0, off |-> 0, content |-> None]
NotReading == [pc |-> "idle", off |-> 0]

Init ==
    /\ storage = [o \in Offsets |-> Header("free", 0)]
    /\ write_offset = 0 /\ read_offset = 0 /\ free_bytes = Size /\ items_waiting = 0
    /\ producer = [p \in Producers |-> Idle]
    /\ reader = NotReading
    /\ items = <<>>

-----------------------------------------------------------------------------
(* try_acquire(): at the write offset, or at the start of the array behind a  *)
(* filler for the rest of it.                                                 *)

TailSpace == Size - write_offset
Fits(n) == write_offset + Total(n) <= Size

(* Mutant: the filler itself is not charged against the free space.           *)
NeedsOnlyItsOwn(n) == free_bytes >= Total(n)

FitsBehindFiller(n) == free_bytes >= TailSpace + Total(n)

(* Mutant: items are never split off to the start of the array.               *)
CanAcquireAtEnd(n) == free_bytes >= Total(n) /\ Fits(n)

CanAcquire(n) == free_bytes >= Total(n) /\ (Fits(n) \/ FitsBehindFiller(n))

Filled(n) == IF Fits(n) THEN storage ELSE [storage EXCEPT ![write_offset] = Header("dummy", TailSpace - 1)]
Target(n) == IF Fits(n) THEN write_offset ELSE 0
Cost(n) == IF Fits(n) THEN Total(n) ELSE TailSpace + Total(n)

(* acquire(), on its first attempt or when the condition variable wakes it.   *)
Attempts(p, n) ==
    \/ producer[p].pc = "idle" /\ n \in Sizes
    \/ producer[p].pc = "awake" /\ n = producer[p].size

Granted(p, n) ==
    /\ Attempts(p, n)
    /\ CanAcquire(n)
    /\ storage' = [Filled(n) EXCEPT ![Target(n)] = Header("acquired", n)]
    /\ write_offset' = Wrapped(Target(n) + Total(n))
    /\ free_bytes' = free_bytes - Cost(n)
    /\ Payloads \ Contents # {}
    /\ items' = Append(items, Item(Target(n), n, Fresh))
    /\ producer' = [producer EXCEPT ![p] =
                       [pc |-> "filling", size |-> n, off |-> Target(n), content |-> Fresh]]
    /\ UNCHANGED <<read_offset, items_waiting, reader>>

(* No room: it waits on cv_write_, or its time is up.                         *)
Denied(p, n) ==
    /\ Attempts(p, n)
    /\ ~CanAcquire(n)
    /\ \/ producer' = [producer EXCEPT ![p] = [Idle EXCEPT !.pc = "asleep", !.size = n]]
       \/ producer' = [producer EXCEPT ![p] = Idle]
    /\ UNCHANGED <<storage, write_offset, read_offset, free_bytes, items_waiting, reader, items>>

(* The wait ends by itself: at its deadline, or for no reason.                *)
WakeWriter(p) ==
    /\ producer[p].pc = "asleep"
    /\ producer' = [producer EXCEPT ![p].pc = "awake"]
    /\ UNCHANGED <<storage, write_offset, read_offset, free_bytes, items_waiting, reader, items>>

(* The payload is written outside of the mutex ...                            *)
Fill(p) ==
    /\ producer[p].pc = "filling"
    /\ storage' = [o \in Offsets |->
                      IF o \in producer[p].off + 1 .. producer[p].off + producer[p].size
                      THEN Payload(producer[p].content) ELSE storage[o]]
    /\ producer' = [producer EXCEPT ![p].pc = "filled"]
    /\ UNCHANGED <<write_offset, read_offset, free_bytes, items_waiting, reader, items>>

NotifyReader == IF reader.pc = "asleep" THEN [reader EXCEPT !.pc = "awake"] ELSE reader

OneMore == items_waiting + 1

(* ... and commit() publishes it.                                             *)
Commit(p) ==
    /\ producer[p].pc = "filled"
    /\ storage' = [storage EXCEPT ![producer[p].off].flag = "written"]
    /\ items_waiting' = OneMore
    /\ reader' = NotifyReader
    /\ producer' = [producer EXCEPT ![p] = Idle]
    /\ UNCHANGED <<write_offset, read_offset, free_bytes, items>>

-----------------------------------------------------------------------------
(* try_read(): skips a filler, then takes a written item.  The loop tests its *)
(* condition before it wraps the offset that a filler leaves behind.          *)

Enters(r, free) == r # write_offset \/ free = 0

AtFiller == Enters(read_offset, free_bytes) /\ storage[read_offset].flag = "dummy"

(* Mutant: the consumer stops in front of a filler.                           *)
NothingSkipped == 0

Skipped == IF AtFiller THEN Total(storage[read_offset].size) ELSE 0
Looks == Enters(read_offset + Skipped, free_bytes + Skipped)
NextRead == IF Looks THEN Wrapped(read_offset + Skipped) ELSE read_offset + Skipped

(* Mutant: an item is taken although it is not committed.                     *)
FindsAcquired == Looks /\ storage[NextRead].flag \in {"acquired", "written"}

Finds == Looks /\ storage[NextRead].flag = "written"

(* Mutant: giving an item back wakes nobody.                                  *)
NotifyNobody == producer

NotifyWriters ==
    [p \in Producers |-> IF producer[p].pc = "asleep" THEN [producer[p] EXCEPT !.pc = "awake"]
                                                      ELSE producer[p]]

(* receive(), on its first attempt or woken; without an item it waits on      *)
(* cv_read_ or its time is up.                                                *)
Receive ==
    /\ reader.pc \in {"idle", "awake"}
    /\ read_offset' = NextRead
    /\ free_bytes' = free_bytes + Skipped
    /\ producer' = IF AtFiller THEN NotifyWriters ELSE producer
    /\ \/ Finds /\ items_waiting' = items_waiting - 1 /\ reader' = [pc |-> "holding", off |-> NextRead]
       \/ ~Finds /\ items_waiting' = items_waiting
                 /\ \E pc \in {"asleep", "idle"} : reader' = [reader EXCEPT !.pc = pc]
    /\ UNCHANGED <<storage, write_offset, items>>

WakeReader ==
    /\ reader.pc = "asleep"
    /\ reader' = [reader EXCEPT !.pc = "awake"]
    /\ UNCHANGED <<storage, write_offset, read_offset, free_bytes, items_waiting, producer, items>>

AfterItem(n) == Wrapped(read_offset + Total(n))

ReturnItem ==
    /\ reader.pc = "holding"
    /\ storage' = [storage EXCEPT ![reader.off].flag = "free"]
    /\ read_offset' = AfterItem(storage[reader.off].size)
    /\ free_bytes' = free_bytes + Total(storage[reader.off].size)
    /\ producer' = NotifyWriters
    /\ reader' = NotReading
    /\ items' = Tail(items)
    /\ UNCHANGED <<write_offset, items_waiting>>

-----------------------------------------------------------------------------
Write(p) == Fill(p) \/ Commit(p)
Attempt(p) == \E n \in Sizes : Granted(p, n) \/ Denied(p, n)
Consumer == Receive \/ ReturnItem

Next == Consumer \/ WakeReader \/ \E p \in Producers : Attempt(p) \/ Write(p) \/ WakeWriter(p)

Spec == Init /\ [][Next]_vars

(* A thread that is scheduled goes on with its call; the consumer's loop      *)
(* calls receive() again and again.  Whether a producer calls, and whether a  *)
(* wait ends by itself, is left open.                                         *)
Fairness ==
    /\ WF_vars(Consumer)
    /\ \A p \in Producers : WF_vars(Write(p)) /\ WF_vars(producer[p].pc = "awake" /\ Attempt(p))

FairSpec == Spec /\ Fairness

-----------------------------------------------------------------------------
Cells == [flag : Flags, size : Nat, content : Payloads \union {None}]

TypeOK ==
    /\ storage \in [Offsets -> Cells]
    /\ write_offset \in Offsets /\ read_offset \in Offsets
    /\ free_bytes \in 0 .. Size /\ items_waiting \in Nat
    /\ producer \in [Producers -> [pc : {"idle", "awake", "asleep", "filling", "filled"}, size : Nat,
                                   off : Nat, content : Payloads \union {None}]]
    /\ reader \in [pc : {"idle", "awake", "asleep", "holding"}, off : Offsets]
    /\ items \in Seq([off : Offsets, size : Nat \ {0}, content : Payloads])

Committed(i) == storage[items[i].off].flag = "written"

(* From its commit until it is given back, an item stays in the array as it   *)
(* was written, header and payload, whatever is written around the end of     *)
(* the array meanwhile: the consumer reads it outside of the mutex            *)
(* (spsc_ring_buffer.h:361, audio_ring_buffer.cpp, visualizer_role.cpp).      *)
Intact ==
    \A i \in DOMAIN items : Committed(i) =>
        /\ storage[items[i].off].size = items[i].size
        /\ \A o \in items[i].off + 1 .. items[i].off + items[i].size : storage[o] = Payload(items[i].content)

(* items_waiting(), by which the users tell whether the ring is empty, is the *)
(* number of committed items that the consumer has not received, although it  *)
(* is changed by both threads and although the ring may hold uncommitted      *)
(* items and a filler besides.                                                *)
Unreceived ==
    {items[i].content : i \in {j \in DOMAIN items : Committed(j) /\ ~(reader.pc = "holding" /\ j = 1)}}
CountIsExact == items_waiting = Cardinality(Unreceived)

(* A thread asleep in acquire() or receive() has nothing to get: whatever     *)
(* makes room notifies the producers, whatever publishes an item the          *)
(* consumer, a skipped filler included (spsc_ring_buffer.h:262, 341, 432).    *)
NoLostWakeup ==
    /\ \A p \in Producers : producer[p].pc = "asleep" => ~CanAcquire(producer[p].size)
    /\ reader.pc = "asleep" => ~Finds

(* An empty ring takes every item of at most half its size.  (A larger one it *)
(* refuses for good when its offsets stand near the middle: neither the tail  *)
(* nor the space behind a filler is enough, and nothing moves them.)          *)
RoomWhenEmpty ==
    items = <<>> /\ ~AtFiller => \A n \in Sizes : 2 * Total(n) <= Size => CanAcquire(n)

(* The ring is a queue with borrowed reads: what receive() hands out is, as   *)
(* read from the array, the oldest item in the order of the acquires, and it  *)
(* does not change while it is on loan.                                       *)
Fifo == INSTANCE LoanFifo WITH
    queue <- [i \in DOMAIN items |-> items[i].content],
    ready <- {items[i].content : i \in {j \in DOMAIN items : Committed(j)}},
    loan <- IF reader.pc = "holding" THEN storage[reader.off + 1].content ELSE None

ImplementsFifo == Fifo!FifoSpec

(* While the consumer goes on, a producer that waits for at most half of the  *)
(* ring gets its space, unless it gives up or the other producer writes.      *)
Waits(p) == producer[p].pc \in {"awake", "asleep"} /\ 2 * Total(producer[p].size) <= Size
WaitingEnds ==
    \A p \in Producers :
        Waits(p) ~> ~Waits(p) \/ \E q \in Producers : producer[q].pc \in {"filling", "filled"}

(* Every committed item is received.                                          *)
EveryItemIsReceived ==
    \A x \in Payloads : (\E i \in DOMAIN items : items[i].content = x /\ Committed(i))
                        ~> (reader.pc = "holding" /\ Head(items).content = x)

(* Neither side waits for ever.                                               *)
NobodyStarves == WaitingEnds /\ EveryItemIsReceived

=============================================================================
