--------------------------- MODULE SpscRingProofs ---------------------------
(* The ring buffer keeps what it lends, forgets no waiting thread and is a    *)
(* queue of loans, for every size of the array, every set of item sizes and   *)
(* any number of producers.                                                   *)
EXTENDS SpscRing, FiniteSetTheorems, SequenceTheorems, TLAPS

-----------------------------------------------------------------------------
(* The inductive invariant: where the items are in the array.                 *)

End(i) == items[i].off + Total(items[i].size)
Low(i) == items[i].off < read_offset
Filler(o) == o < Size /\ storage[o] = Header("dummy", Size - o - 1)
Holds(i) ==
    \A o \in items[i].off + 1 .. items[i].off + items[i].size : storage[o] = Payload(items[i].content)

(* Items lie within the array; those at or above the read offset come first,  *)
(* in ascending order, then those below it, in ascending order.               *)
Placed == \A i \in DOMAIN items : End(i) <= Size
Apart ==
    \A i, j \in DOMAIN items : i < j =>
        /\ Low(i) => Low(j)
        /\ (Low(i) <=> Low(j)) => End(i) <= items[j].off
Below == \A i \in DOMAIN items : Low(i) => End(i) <= read_offset

(* There is no gap between an item and the next, but for a filler.            *)
Linked ==
    \A i \in DOMAIN items : i < Len(items) =>
        \/ items[i + 1].off = Wrapped(End(i))
        \/ items[i + 1].off = 0 /\ Filler(End(i))
Front == items # <<>> =>
    \/ items[1].off = read_offset
    \/ items[1].off = 0 /\ read_offset > 0 /\ Filler(read_offset)
Back == write_offset = IF items = <<>> THEN read_offset ELSE Wrapped(End(Len(items)))

(* What is not free lies between the two offsets.                             *)
Space ==
    free_bytes = IF items = <<>> THEN Size
                 ELSE IF write_offset > read_offset THEN Size - (write_offset - read_offset)
                 ELSE read_offset - write_offset

(* The array holds the items.                                                 *)
Kept ==
    \A i \in DOMAIN items :
        /\ storage[items[i].off].size = items[i].size
        /\ storage[items[i].off].flag \in {"acquired", "written"}
        /\ Committed(i) => Holds(i)
Distinct == \A i, j \in DOMAIN items : i # j => items[i].content # items[j].content

(* A producer works on an item of its own, the consumer on the oldest.        *)
Busy(p) == producer[p].pc \in {"filling", "filled"}
Making ==
    \A p \in Producers : Busy(p) =>
        \E i \in DOMAIN items :
            /\ items[i] = Item(producer[p].off, producer[p].size, producer[p].content)
            /\ storage[items[i].off].flag = "acquired"
            /\ producer[p].pc = "filled" => Holds(i)
Alone ==
    \A p, q \in Producers : Busy(p) /\ Busy(q) /\ p # q => producer[p].content # producer[q].content
Reading ==
    reader.pc = "holding" =>
        items # <<>> /\ reader.off = read_offset /\ items[1].off = read_offset /\ Committed(1)

(* items_waiting counts the committed items that were not received.           *)
Counted == IsFiniteSet(Unreceived) /\ CountIsExact

Shape == Placed /\ Apart /\ Below /\ Linked /\ Front /\ Back /\ Space
RingInv == TypeOK /\ Shape /\ Kept /\ Distinct /\ Making /\ Alone /\ Reading /\ Counted

-----------------------------------------------------------------------------
(* Facts about the state.                                                     *)

ItemType == [off : Offsets, size : Nat \ {0}, content : Payloads]

(* What the types say of an item.                                             *)
LEMMA Typed ==
    ASSUME TypeOK
    PROVE  /\ items \in Seq(ItemType) /\ DOMAIN items = 1 .. Len(items) /\ Len(items) \in Nat
           /\ \A i \in DOMAIN items :
                 /\ items[i] \in ItemType /\ items[i].off \in Offsets /\ items[i].size \in Nat \ {0}
                 /\ items[i].off \in Nat /\ items[i].content \in Payloads
                 /\ End(i) \in Nat /\ items[i].off < End(i)
           /\ Size \in Nat \ {0} /\ read_offset \in Offsets /\ write_offset \in Offsets /\ free_bytes \in Nat
           /\ (items = <<>> <=> Len(items) = 0)
<1>1. items \in Seq(ItemType)
    BY DEF TypeOK, ItemType
<1>2. DOMAIN items = 1 .. Len(items) /\ Len(items) \in Nat /\ (items = <<>> <=> Len(items) = 0)
    BY <1>1
<1>3. ASSUME NEW i \in DOMAIN items
      PROVE  /\ items[i] \in ItemType /\ items[i].off \in Offsets /\ items[i].size \in Nat \ {0}
             /\ items[i].off \in Nat /\ items[i].content \in Payloads
             /\ End(i) \in Nat /\ items[i].off < End(i)
  <2>1. items[i] \in ItemType
      BY <1>1, <1>2
  <2> QED BY <2>1 DEF ItemType, Offsets, End, Total
<1>4. /\ Size \in Nat \ {0} /\ read_offset \in Offsets /\ write_offset \in Offsets
      /\ free_bytes \in Nat
    BY SizeAssumption DEF TypeOK
<1> QED BY <1>1, <1>2, <1>3, <1>4

(* Two items do not overlap.                                                  *)
LEMMA Disjoint ==
    ASSUME TypeOK, Apart, Below, NEW i \in DOMAIN items, NEW j \in DOMAIN items, i # j
    PROVE  End(i) <= items[j].off \/ End(j) <= items[i].off
<1>1. i \in Nat /\ j \in Nat /\ items[i].off \in Nat /\ items[j].off \in Nat
      /\ End(i) \in Nat /\ End(j) \in Nat /\ read_offset \in Nat
    BY Typed DEF Offsets
<1>2. (i < j \/ j < i)
    BY <1>1
<1>3. CASE Low(i) <=> Low(j)
    BY <1>2, <1>3 DEF Apart
<1>4. CASE Low(i) /\ ~Low(j)
    BY <1>1, <1>4 DEF Below, Low
<1>5. CASE ~Low(i) /\ Low(j)
    BY <1>1, <1>5 DEF Below, Low
<1> QED BY <1>3, <1>4, <1>5

(* The consumer looks at the oldest item, behind a filler or not.             *)
LEMMA FirstItem ==
    ASSUME RingInv, items # <<>>
    PROVE  /\ Looks /\ NextRead = items[1].off
           /\ AtFiller => items[1].off = 0 /\ read_offset > 0 /\ Skipped = Size - read_offset
           /\ ~AtFiller => items[1].off = read_offset /\ Skipped = 0
<1>1. 1 \in DOMAIN items /\ items[1].off \in Nat /\ read_offset \in Nat /\ read_offset < Size
      /\ write_offset \in Nat /\ write_offset < Size /\ Size \in Nat /\ free_bytes \in Nat
    BY Typed, SizeAssumption DEF RingInv, Offsets
<1>2. Enters(read_offset, free_bytes)
    BY <1>1 DEF RingInv, Shape, Space, Enters
<1>3. CASE items[1].off = read_offset
  <2>1. ~AtFiller
      BY <1>1, <1>3 DEF RingInv, Kept, AtFiller
  <2>2. Skipped = 0
      BY <2>1 DEF Skipped
  <2> QED BY <1>1, <1>2, <1>3, <2>1, <2>2 DEF Looks, NextRead, Wrapped
<1>4. CASE items[1].off # read_offset
  <2>1. items[1].off = 0 /\ read_offset > 0 /\ storage[read_offset] = Header("dummy", Size - read_offset - 1)
      BY <1>4 DEF RingInv, Shape, Front, Filler
  <2>2. AtFiller /\ Skipped = Size - read_offset
      BY <1>1, <1>2, <2>1 DEF AtFiller, Skipped, Header, Total
  <2> QED BY <1>1, <2>1, <2>2, <1>2 DEF Looks, NextRead, Wrapped, Enters
<1> QED BY <1>3, <1>4

(* In an empty ring there is nothing to look at.                              *)
LEMMA NoItem ==
    ASSUME RingInv, items = <<>>
    PROVE  ~AtFiller /\ Skipped = 0 /\ ~Looks /\ NextRead = read_offset
<1>1. read_offset \in Nat /\ read_offset < Size /\ Size \in Nat /\ free_bytes = Size
      /\ write_offset = read_offset
    BY Typed, SizeAssumption DEF RingInv, Shape, Space, Back, Offsets
<1>2. ~Enters(read_offset, free_bytes)
    BY <1>1, SizeAssumption DEF Enters
<1> QED BY <1>1, <1>2 DEF AtFiller, Skipped, Looks, NextRead

(* An item is found when the oldest is committed.                             *)
LEMMA FindsFirst ==
    ASSUME RingInv
    PROVE  Finds <=> items # <<>> /\ Committed(1)
    BY FirstItem, NoItem DEF Finds, Committed

(* Where the items are as seen from the write offset.                         *)
LEMMA WriteSide ==
    ASSUME RingInv, NEW i \in DOMAIN items
    PROVE  /\ write_offset > read_offset => ~Low(i) /\ End(i) <= write_offset
           /\ write_offset <= read_offset => (Low(i) => End(i) <= write_offset)
<1> DEFINE N == Len(items)
<1>1. N \in DOMAIN items /\ i \in Nat /\ N \in Nat /\ i <= N /\ items # <<>>
    BY Typed DEF RingInv
<1>2. /\ items[i].off \in Nat /\ items[N].off \in Nat /\ End(i) \in Nat /\ End(N) \in Nat
      /\ items[i].off < End(i) /\ items[N].off < End(N)
      /\ read_offset \in Nat /\ read_offset < Size /\ Size \in Nat
    BY <1>1, Typed, SizeAssumption DEF RingInv, Offsets
<1>3. write_offset = Wrapped(End(N)) /\ End(N) <= Size
    BY <1>1 DEF RingInv, Shape, Back, Placed
<1>4. i # N => (Low(i) => Low(N)) /\ ((Low(i) <=> Low(N)) => End(i) <= items[N].off)
    BY <1>1 DEF RingInv, Shape, Apart
<1> HIDE DEF N
<1>5. CASE Low(N)
  <2>1. End(N) <= read_offset
      BY <1>1, <1>5 DEF RingInv, Shape, Below
  <2>2. write_offset = End(N)
      BY <2>1, <1>2, <1>3 DEF Wrapped
  <2> QED BY <2>1, <2>2, <1>2, <1>4, <1>5
<1>6. CASE ~Low(N)
  <2>1. ~Low(i)
      BY <1>4, <1>6
  <2>2. CASE End(N) < Size
    <3>1. write_offset = End(N) /\ read_offset < End(N)
        BY <2>2, <1>2, <1>3, <1>6 DEF Wrapped, Low
    <3> QED BY <3>1, <2>1, <1>2, <1>4, <1>6
  <2>3. CASE End(N) >= Size
    <3>1. write_offset = 0
        BY <2>3, <1>3 DEF Wrapped
    <3> QED BY <3>1, <2>1, <1>2
  <2> QED BY <2>2, <2>3, <1>2
<1> QED BY <1>5, <1>6

(* No item covers a filler.                                                   *)
LEMMA FillerApart ==
    ASSUME RingInv, NEW i \in DOMAIN items
    PROVE  /\ \A j \in DOMAIN items : j < Len(items) /\ items[j + 1].off = 0 =>
                 End(j) < items[i].off \/ End(j) >= End(i)
           /\ items[1].off = 0 /\ read_offset > 0 => read_offset >= End(i)
<1>1. ASSUME NEW j \in DOMAIN items, j < Len(items), items[j + 1].off = 0
      PROVE  End(j) < items[i].off \/ End(j) >= End(i)
  <2>1. /\ i \in Nat /\ j \in Nat /\ j + 1 \in DOMAIN items /\ items[i].off \in Nat /\ items[j].off \in Nat
        /\ End(i) \in Nat /\ End(j) \in Nat /\ read_offset \in Nat /\ items[j].off < End(j)
      BY <1>1, Typed DEF RingInv, Offsets
  <2>2. ~Low(j)
      BY <1>1, <2>1 DEF RingInv, Shape, Apart, Low
  <2>3. CASE i = j
      BY <2>1, <2>3
  <2>4. CASE i < j
    <3>1. (Low(i) => Low(j)) /\ ((Low(i) <=> Low(j)) => End(i) <= items[j].off)
        BY <2>4 DEF RingInv, Shape, Apart
    <3> QED BY <3>1, <2>1, <2>2
  <2>5. CASE j < i
    <3>1. Low(j + 1)
        BY <1>1, <2>1, <2>2 DEF RingInv, Shape, Apart, Low
    <3>2. Low(i)
        BY <3>1, <2>1, <2>5 DEF RingInv, Shape, Apart
    <3>3. End(i) <= read_offset
        BY <3>2 DEF RingInv, Shape, Below
    <3> QED BY <3>3, <2>1, <2>2 DEF Low
  <2> QED BY <2>1, <2>3, <2>4, <2>5
<1>2. ASSUME items[1].off = 0, read_offset > 0
      PROVE  read_offset >= End(i)
  <2>1. /\ i \in Nat /\ i >= 1 /\ 1 \in DOMAIN items /\ End(i) \in Nat /\ read_offset \in Nat
      BY Typed DEF RingInv, Offsets
  <2>2. Low(i)
      BY <1>2, <2>1 DEF RingInv, Shape, Apart, Low
  <2> QED BY <2>1, <2>2 DEF RingInv, Shape, Below
<1> QED BY <1>1, <1>2

(* A step that writes to the cells of one item only ...                       *)
WritesTo(i) ==
    \A o \in Offsets : o < items[i].off \/ o >= End(i) => storage'[o] = storage[o]

(* ... leaves those of the others alone, and the fillers.                     *)
LEMMA Confined ==
    ASSUME RingInv, NEW i \in DOMAIN items, WritesTo(i)
    PROVE  /\ \A j \in DOMAIN items : j # i =>
                 /\ storage'[items[j].off] = storage[items[j].off]
                 /\ \A o \in items[j].off + 1 .. items[j].off + items[j].size : storage'[o] = storage[o]
           /\ \A j \in DOMAIN items : j < Len(items) /\ items[j + 1].off = 0 /\ Filler(End(j)) =>
                 storage'[End(j)] = Header("dummy", Size - End(j) - 1)
           /\ items[1].off = 0 /\ read_offset > 0 => storage'[read_offset] = storage[read_offset]
<1>1. ASSUME NEW j \in DOMAIN items, j # i, NEW o \in items[j].off .. items[j].off + items[j].size
      PROVE  storage'[o] = storage[o]
  <2>1. /\ items[i].off \in Nat /\ items[j].off \in Nat /\ items[j].size \in Nat /\ Size \in Nat
        /\ End(i) \in Nat /\ End(j) \in Nat /\ End(j) <= Size /\ End(j) = items[j].off + items[j].size + 1
      BY Typed DEF RingInv, Shape, Placed, End, Total
  <2>2. End(i) <= items[j].off \/ End(j) <= items[i].off
      BY <1>1, Disjoint DEF RingInv, Shape
  <2>3. o \in Offsets /\ (o < items[i].off \/ o >= End(i))
      BY <1>1, <2>1, <2>2 DEF Offsets
  <2> QED BY <2>3 DEF WritesTo
<1>2. ASSUME NEW j \in DOMAIN items, j < Len(items), items[j + 1].off = 0, Filler(End(j))
      PROVE  storage'[End(j)] = storage[End(j)] /\ End(j) < Size
  <2>1. End(j) \in Offsets /\ End(j) < Size
      BY <1>2, Typed DEF RingInv, Filler, Offsets
  <2> QED BY <1>2, <2>1, FillerApart DEF WritesTo
<1>3. ASSUME items[1].off = 0, read_offset > 0
      PROVE  storage'[read_offset] = storage[read_offset]
    BY <1>3, FillerApart, Typed DEF RingInv, WritesTo
<1>4. \A j \in DOMAIN items : items[j].off \in items[j].off .. items[j].off + items[j].size
    BY Typed DEF RingInv
<1>5. \A j \in DOMAIN items : items[j].off + 1 .. items[j].off + items[j].size \subseteq items[j].off .. items[j].off + items[j].size
    BY Typed DEF RingInv
<1>6. \A j \in DOMAIN items : j < Len(items) /\ items[j + 1].off = 0 /\ Filler(End(j)) => storage'[End(j)] = Header("dummy", Size - End(j) - 1) /\ End(j) < Size
    BY <1>2 DEF Filler
<1>7. \A j \in DOMAIN items : j # i => storage'[items[j].off] = storage[items[j].off]
    BY <1>1, <1>4
<1>8. \A j \in DOMAIN items : j # i =>
          \A o \in items[j].off + 1 .. items[j].off + items[j].size : storage'[o] = storage[o]
    BY <1>1, <1>5
<1> QED BY <1>3, <1>6, <1>7, <1>8

-----------------------------------------------------------------------------
(* The steps.                                                                 *)

(* The offsets, the free space and the items do not change, and a storage     *)
(* that changes does so within one item: the shape is the same.               *)
Unmoved == UNCHANGED <<items, read_offset, write_offset, free_bytes>>

LEMMA SameShape ==
    ASSUME RingInv, Unmoved, NEW i \in DOMAIN items, WritesTo(i)
    PROVE  Shape'
<1>1. Placed' /\ Apart' /\ Below' /\ Back' /\ Space'
    BY DEF RingInv, Shape, Unmoved, Placed, Apart, Below, Back, Space, End, Low
<1>2. Linked'
    BY Confined DEF RingInv, Shape, Unmoved, Linked, End, Filler
<1>3. Front'
  <2>1. items # <<>> /\ items[1].off = 0 /\ read_offset > 0 /\ Filler(read_offset) => Filler(read_offset)'
      BY Confined DEF Filler, Unmoved
  <2> QED BY <2>1 DEF RingInv, Shape, Unmoved, Front
<1> QED BY <1>1, <1>2, <1>3 DEF Shape

(* Waiting and waking.                                                        *)
LEMMA WaitingKeeps ==
    ASSUME RingInv, Unmoved, UNCHANGED <<storage, items_waiting>>,
           producer' \in [Producers -> [pc : {"idle", "awake", "asleep", "filling", "filled"}, size : Nat,
                                        off : Nat, content : Payloads \union {None}]],
           \A p \in Producers : producer'[p] = producer[p] \/ producer'[p].pc \notin {"filling", "filled"},
           reader' \in [pc : {"idle", "awake", "asleep", "holding"}, off : Offsets],
           reader' = reader \/ (reader'.pc # "holding" /\ reader.pc # "holding")
    PROVE  RingInv'
<1>1. TypeOK'
    BY DEF RingInv, TypeOK, Unmoved
<1>2. Shape'
    BY DEF RingInv, Shape, Unmoved, Placed, Apart, Below, Back, Space, Linked, Front, End, Low, Filler
<1>3. Kept' /\ Distinct'
    BY DEF RingInv, Unmoved, Kept, Distinct, Committed, Holds
<1>4. Making' /\ Alone'
    BY DEF RingInv, Unmoved, Making, Alone, Busy, Holds
<1>5. Reading'
    BY DEF RingInv, Unmoved, Reading, Committed
<1>6. Counted'
  <2>1. Unreceived' = Unreceived
      BY DEF Unmoved, Unreceived, Committed
  <2> QED BY <2>1 DEF RingInv, Counted, CountIsExact
<1> QED BY <1>1, <1>2, <1>3, <1>4, <1>5, <1>6 DEF RingInv

LEMMA FillKeeps ==
    ASSUME RingInv, NEW p \in Producers, Fill(p)
    PROVE  RingInv'
<1>1. PICK i \in DOMAIN items :
          /\ items[i] = Item(producer[p].off, producer[p].size, producer[p].content)
          /\ storage[items[i].off].flag = "acquired"
    BY DEF RingInv, Making, Busy, Fill
<1>2. items[i].off = producer[p].off /\ items[i].size = producer[p].size /\ items[i].content = producer[p].content
    BY <1>1 DEF Item
<1>3. /\ items[i].off \in Nat /\ items[i].size \in Nat /\ items[i].content \in Payloads
      /\ End(i) = items[i].off + items[i].size + 1 /\ items[i].off \in Offsets
      /\ Size \in Nat /\ End(i) <= Size
    BY Typed DEF RingInv, Shape, Placed, End, Total
<1>4. \A o \in Offsets : storage'[o] = IF o \in items[i].off + 1 .. items[i].off + items[i].size
                                      THEN Payload(items[i].content) ELSE storage[o]
    BY <1>2 DEF Fill
<1>5. WritesTo(i) /\ Unmoved /\ storage'[items[i].off] = storage[items[i].off]
    BY <1>3, <1>4 DEF WritesTo, Unmoved, Fill, Offsets
<1>6. \A o \in items[i].off + 1 .. items[i].off + items[i].size : storage'[o] = Payload(items[i].content)
    BY <1>3, <1>4 DEF Offsets
<1>7. TypeOK'
  <2>1. storage' \in [Offsets -> Cells]
    <3>1. Payload(items[i].content) \in Cells
        BY <1>3 DEF Payload, Cells, Flags
    <3> QED BY <3>1, <1>2 DEF RingInv, TypeOK, Fill
  <2>2. producer' \in [Producers -> [pc : {"idle", "awake", "asleep", "filling", "filled"}, size : Nat,
                                     off : Nat, content : Payloads \union {None}]]
      BY DEF RingInv, TypeOK, Fill
  <2> QED BY <2>1, <2>2 DEF RingInv, TypeOK, Fill
<1>8. Shape'
    BY <1>5, SameShape
<1>9. Kept'
  <2> SUFFICES ASSUME NEW j \in DOMAIN items
               PROVE  /\ storage'[items[j].off].size = items[j].size
                      /\ storage'[items[j].off].flag \in {"acquired", "written"}
                      /\ storage'[items[j].off].flag = "written" =>
                            \A o \in items[j].off + 1 .. items[j].off + items[j].size : storage'[o] = Payload(items[j].content)
      BY <1>5 DEF Kept, Committed, Holds, Unmoved
  <2>1. CASE j = i
      BY <2>1, <1>5, <1>6 DEF RingInv, Kept
  <2>2. CASE j # i
      BY <2>2, <1>5, Confined DEF RingInv, Kept, Committed, Holds
  <2> QED BY <2>1, <2>2
<1>10. Distinct'
    BY <1>5 DEF RingInv, Distinct, Unmoved
<1>11. Making'
  <2> SUFFICES ASSUME NEW q \in Producers, Busy(q)'
               PROVE  \E k \in DOMAIN items :
                          /\ items[k] = Item(producer'[q].off, producer'[q].size, producer'[q].content)
                          /\ storage'[items[k].off].flag = "acquired"
                          /\ producer'[q].pc = "filled" => \A o \in items[k].off + 1 .. items[k].off + items[k].size :
                                                              storage'[o] = Payload(items[k].content)
      BY <1>5 DEF Making, Holds, Unmoved
  <2>1. CASE q = p
      BY <2>1, <1>1, <1>5, <1>6 DEF Fill, RingInv, TypeOK
  <2>2. CASE q # p
    <3>1. producer'[q] = producer[q] /\ Busy(q)
        BY <2>2 DEF Fill, Busy, RingInv, TypeOK
    <3>2. PICK k \in DOMAIN items :
              /\ items[k] = Item(producer[q].off, producer[q].size, producer[q].content)
              /\ storage[items[k].off].flag = "acquired"
              /\ producer[q].pc = "filled" => Holds(k)
        BY <3>1 DEF RingInv, Making
    <3>3. k # i
        BY <2>2, <3>1, <3>2, <1>2 DEF RingInv, Alone, Busy, Fill, Item
    <3> QED BY <3>1, <3>2, <3>3, <1>5, Confined DEF Holds
  <2> QED BY <2>1, <2>2
<1>12. Alone'
    BY DEF RingInv, Alone, Busy, Fill, TypeOK
<1>13. Reading'
  <2>1. reader.pc = "holding" => 1 \in DOMAIN items /\ Committed(1) /\ 1 # i
      BY <1>1, Typed DEF RingInv, Reading, Committed
  <2>2. reader.pc = "holding" => storage'[items[1].off] = storage[items[1].off]
      BY <2>1, <1>5, Confined
  <2> QED BY <2>2 DEF RingInv, Reading, Committed, Fill
<1>14. Counted'
  <2>1. \A j \in DOMAIN items : Committed(j)' <=> Committed(j)
      BY <1>5, Confined DEF Committed, Unmoved
  <2>2. Unreceived' = Unreceived
      BY <2>1, <1>5 DEF Unmoved, Unreceived, Fill
  <2> QED BY <2>2 DEF RingInv, Counted, CountIsExact, Fill
<1> QED BY <1>7, <1>8, <1>9, <1>10, <1>11, <1>12, <1>13, <1>14 DEF RingInv

LEMMA CommitKeeps ==
    ASSUME RingInv, NEW p \in Producers, Commit(p)
    PROVE  RingInv'
<1>1. PICK i \in DOMAIN items :
          /\ items[i] = Item(producer[p].off, producer[p].size, producer[p].content)
          /\ storage[items[i].off].flag = "acquired"
          /\ Holds(i)
    BY DEF RingInv, Making, Busy, Commit
<1>2. items[i].off = producer[p].off /\ items[i].size = producer[p].size /\ items[i].content = producer[p].content
    BY <1>1 DEF Item
<1>3. /\ items[i].off \in Nat /\ items[i].size \in Nat /\ items[i].off \in Offsets
      /\ End(i) = items[i].off + items[i].size + 1 /\ Size \in Nat /\ End(i) <= Size
    BY Typed DEF RingInv, Shape, Placed, End, Total
<1>4. storage' = [storage EXCEPT ![items[i].off].flag = "written"] /\ storage \in [Offsets -> Cells]
    BY <1>2 DEF Commit, RingInv, TypeOK
<1>5. WritesTo(i) /\ Unmoved
    BY <1>3, <1>4 DEF WritesTo, Unmoved, Commit, Offsets
<1>6. /\ storage'[items[i].off].flag = "written" /\ storage'[items[i].off].size = storage[items[i].off].size
      /\ \A o \in items[i].off + 1 .. items[i].off + items[i].size : storage'[o] = Payload(items[i].content)
  <2>1. storage[items[i].off] \in Cells
      BY <1>3, <1>4
  <2>2. storage'[items[i].off] = [storage[items[i].off] EXCEPT !.flag = "written"]
      BY <1>3, <1>4
  <2>3. storage'[items[i].off].flag = "written" /\ storage'[items[i].off].size = storage[items[i].off].size
      BY <2>1, <2>2 DEF Cells
  <2>4. ASSUME NEW o \in items[i].off + 1 .. items[i].off + items[i].size
        PROVE  storage'[o] = Payload(items[i].content)
    <3>1. o \in Offsets /\ o # items[i].off
        BY <1>3 DEF Offsets
    <3>2. storage'[o] = storage[o]
        BY <1>4, <3>1
    <3> QED
        BY <1>1, <3>2 DEF Holds
  <2> QED
      BY <2>3, <2>4
<1>7. TypeOK'
  <2>1. storage' \in [Offsets -> Cells]
      BY <1>3, <1>4 DEF Cells, Flags
  <2>2. items_waiting' \in Nat
      BY DEF Commit, OneMore, RingInv, TypeOK
  <2>3. producer' \in [Producers -> [pc : {"idle", "awake", "asleep", "filling", "filled"}, size : Nat,
                                     off : Nat, content : Payloads \union {None}]]
      BY DEF RingInv, TypeOK, Commit, Idle
  <2>4. reader' \in [pc : {"idle", "awake", "asleep", "holding"}, off : Offsets]
      BY DEF RingInv, TypeOK, Commit, NotifyReader
  <2> QED BY <2>1, <2>2, <2>3, <2>4 DEF RingInv, TypeOK, Commit
<1>8. Shape'
    BY <1>5, SameShape
<1>9. Kept'
  <2> SUFFICES ASSUME NEW j \in DOMAIN items
               PROVE  /\ storage'[items[j].off].size = items[j].size
                      /\ storage'[items[j].off].flag \in {"acquired", "written"}
                      /\ storage'[items[j].off].flag = "written" =>
                            \A o \in items[j].off + 1 .. items[j].off + items[j].size : storage'[o] = Payload(items[j].content)
      BY <1>5 DEF Kept, Committed, Holds, Unmoved
  <2>1. CASE j = i
      BY <2>1, <1>6 DEF RingInv, Kept
  <2>2. CASE j # i
      BY <2>2, <1>5, Confined DEF RingInv, Kept, Committed, Holds
  <2> QED BY <2>1, <2>2
<1>10. Distinct'
    BY <1>5 DEF RingInv, Distinct, Unmoved
<1>11. \A q \in Producers : q # p => producer'[q] = producer[q]
    BY DEF Commit, RingInv, TypeOK
<1>12. ~Busy(p)'
    BY DEF Commit, Busy, Idle, RingInv, TypeOK
<1>13. Making'
  <2> SUFFICES ASSUME NEW q \in Producers, Busy(q)'
               PROVE  \E k \in DOMAIN items :
                          /\ items[k] = Item(producer'[q].off, producer'[q].size, producer'[q].content)
                          /\ storage'[items[k].off].flag = "acquired"
                          /\ producer'[q].pc = "filled" => \A o \in items[k].off + 1 .. items[k].off + items[k].size :
                                                              storage'[o] = Payload(items[k].content)
      BY <1>5 DEF Making, Holds, Unmoved
  <2>1. q # p /\ producer'[q] = producer[q] /\ Busy(q)
      BY <1>11, <1>12 DEF Busy
  <2>2. PICK k \in DOMAIN items :
            /\ items[k] = Item(producer[q].off, producer[q].size, producer[q].content)
            /\ storage[items[k].off].flag = "acquired"
            /\ producer[q].pc = "filled" => Holds(k)
      BY <2>1 DEF RingInv, Making
  <2>3. k # i
      BY <2>1, <2>2, <1>2 DEF RingInv, Alone, Busy, Commit, Item
  <2> QED BY <2>1, <2>2, <2>3, <1>5, Confined DEF Holds
<1>14. Alone'
    BY <1>11, <1>12 DEF RingInv, Alone, Busy
<1>15. Reading'
  <2>1. reader'.pc = "holding" => reader' = reader
      BY DEF Commit, NotifyReader, RingInv, TypeOK
  <2>2. reader.pc = "holding" => 1 \in DOMAIN items /\ Committed(1) /\ 1 # i
      BY <1>1, Typed DEF RingInv, Reading, Committed
  <2>3. reader.pc = "holding" => storage'[items[1].off] = storage[items[1].off]
      BY <2>2, <1>5, Confined
  <2> QED BY <2>1, <2>3, <1>5 DEF RingInv, Reading, Committed, Unmoved
<1>16. Counted'
  <2>1. \A j \in DOMAIN items : j # i => (Committed(j)' <=> Committed(j))
      BY <1>5, Confined DEF Committed, Unmoved
  <2>2. ~Committed(i) /\ Committed(i)' /\ i \in DOMAIN items
      BY <1>1, <1>6, <1>5 DEF Committed, Unmoved
  <2>3. (reader'.pc = "holding" <=> reader.pc = "holding") /\ (reader.pc = "holding" => i # 1)
      BY <2>2 DEF Commit, NotifyReader, RingInv, TypeOK, Reading
  <2>4. Unreceived' = Unreceived \union {items[i].content}
      BY <2>1, <2>2, <2>3, <1>5 DEF Unreceived, Unmoved
  <2>5. items[i].content \notin Unreceived
      BY <2>2 DEF Unreceived, RingInv, Distinct
  <2>6. IsFiniteSet(Unreceived) /\ items_waiting = Cardinality(Unreceived)
      BY DEF RingInv, Counted, CountIsExact
  <2>7. IsFiniteSet(Unreceived') /\ Cardinality(Unreceived') = Cardinality(Unreceived) + 1
      BY <2>4, <2>5, <2>6, FS_AddElement
  <2> QED BY <2>6, <2>7 DEF Counted, CountIsExact, Commit, OneMore
<1> QED BY <1>7, <1>8, <1>9, <1>10, <1>13, <1>14, <1>15, <1>16 DEF RingInv

(* The consumer passes a filler, and what was below the read offset is above  *)
(* it.                                                                        *)
LEMMA ReceiveKeeps ==
    ASSUME RingInv, Receive
    PROVE  RingInv'
<1> USE DEF RingInv
<1>1. /\ read_offset \in Nat /\ read_offset < Size /\ Size \in Nat /\ write_offset \in Nat /\ write_offset < Size
      /\ free_bytes \in Nat /\ NextRead \in Offsets /\ read_offset' = NextRead
      /\ items' = items /\ storage' = storage /\ write_offset' = write_offset
  <2>1. NextRead \in Offsets
      BY Typed, FirstItem, NoItem, SizeAssumption
  <2> QED BY <2>1, Typed, SizeAssumption DEF Receive, Offsets
<1>2. \A q \in Producers : producer'[q] = producer[q] \/ (~Busy(q)' /\ ~Busy(q))
  <2>1. producer' = NotifyWriters \/ producer' = producer
      BY DEF Receive
  <2>2. ASSUME NEW q \in Producers
        PROVE  producer'[q] = producer[q] \/ (producer[q].pc = "asleep" /\ producer'[q].pc = "awake")
    <3>1. CASE producer' = producer
        BY <3>1
    <3>2. CASE producer' = NotifyWriters
      <4>1. producer'[q] = IF producer[q].pc = "asleep" THEN [producer[q] EXCEPT !.pc = "awake"] ELSE producer[q]
          BY <3>2 DEF NotifyWriters
      <4>2. producer[q] \in [pc : {"idle", "awake", "asleep", "filling", "filled"}, size : Nat,
                             off : Nat, content : Payloads \union {None}]
          BY DEF TypeOK
      <4> QED BY <4>1, <4>2
    <3> QED BY <2>1, <3>1, <3>2
  <2> QED BY <2>2 DEF Busy
<1>3. producer' \in [Producers -> [pc : {"idle", "awake", "asleep", "filling", "filled"}, size : Nat,
                                   off : Nat, content : Payloads \union {None}]]
    BY DEF Receive, NotifyWriters, TypeOK
<1>4. reader' \in [pc : {"idle", "awake", "asleep", "holding"}, off : Offsets]
    BY <1>1 DEF Receive, TypeOK
<1>6. ASSUME items # <<>> /\ AtFiller PROVE Shape' /\ free_bytes' \in 0 .. Size
  <2>1. /\ 1 \in DOMAIN items /\ items[1].off = 0 /\ read_offset > 0 /\ read_offset' = 0
        /\ free_bytes' = free_bytes + (Size - read_offset)
      BY <1>1, <1>6, FirstItem, Typed DEF Receive
  <2>2. \A i \in DOMAIN items : Low(i) /\ items[i].off \in Nat
      BY <2>1, Typed DEF Shape, Apart, Low
  <2>3. write_offset <= read_offset /\ write_offset > 0
    <3>1. Len(items) \in DOMAIN items /\ items[Len(items)].off \in Nat /\ End(Len(items)) \in Nat /\ End(Len(items)) > 0
        BY <2>1, Typed
    <3>2. End(Len(items)) <= read_offset
        BY <2>2, <3>1 DEF Shape, Below
    <3>3. write_offset = End(Len(items))
        BY <3>1, <3>2, <1>1, <1>6 DEF Shape, Back, Wrapped
    <3> QED BY <3>1, <3>2, <3>3, <1>1
  <2>4. Placed' /\ Linked'
      BY <1>1 DEF Shape, Placed, Linked, End, Filler
  <2>5. Apart' /\ Below'
      BY <1>1, <2>1, <2>2 DEF Shape, Apart, Below, Low, End
  <2>6. Front' /\ Back'
      BY <1>1, <1>6, <2>1 DEF Shape, Front, Back, End
  <2>7. Space'
      BY <1>1, <1>6, <2>1, <2>3 DEF Shape, Space
  <2>8. free_bytes' \in 0 .. Size
      BY <1>1, <1>6, <2>1, <2>3 DEF Shape, Space
  <2> QED BY <2>4, <2>5, <2>6, <2>7, <2>8 DEF Shape
<1>7. ASSUME ~(items # <<>> /\ AtFiller) PROVE Shape' /\ free_bytes' \in 0 .. Size
  <2>1. ~AtFiller /\ Skipped = 0 /\ NextRead = read_offset
      BY <1>7, FirstItem, NoItem
  <2>2. read_offset' = read_offset /\ free_bytes' = free_bytes
      BY <1>1, <2>1 DEF Receive
  <2> QED BY <1>1, <2>2 DEF Shape, Placed, Apart, Below, Back, Space, Linked, Front, End, Low, Filler, TypeOK
<1>8. Shape' /\ free_bytes' \in 0 .. Size
    BY <1>6, <1>7
<1>9. Kept' /\ Distinct'
    BY <1>1 DEF Kept, Distinct, Committed, Holds
<1>10. Making' /\ Alone'
    BY <1>1, <1>2 DEF Making, Alone, Busy, Holds
<1>11. Reading'
    BY <1>1, FindsFirst, FirstItem DEF Receive, Reading, Committed, TypeOK
<1>12. Counted' /\ items_waiting' \in Nat
  <2>1. reader.pc # "holding" /\ IsFiniteSet(Unreceived) /\ items_waiting = Cardinality(Unreceived) /\ items_waiting \in Nat
      BY DEF Receive, Counted, CountIsExact, TypeOK
  <2>2. CASE ~Finds
    <3>1. Unreceived' = Unreceived /\ items_waiting' = items_waiting
      <4>1. reader'.pc # "holding" /\ items_waiting' = items_waiting
          BY <2>2 DEF Receive, TypeOK
      <4> QED BY <2>1, <4>1, <1>1 DEF Unreceived, Committed
    <3> QED BY <3>1, <2>1 DEF Counted, CountIsExact
  <2>3. CASE Finds
    <3>1. 1 \in DOMAIN items /\ Committed(1) /\ reader'.pc = "holding" /\ items_waiting' = items_waiting - 1
        BY <2>3, FindsFirst, Typed DEF Receive
    <3>2. \A j \in DOMAIN items : Committed(j)' <=> Committed(j)
        BY <1>1 DEF Committed
    <3>3. Unreceived' = {items[i].content : i \in {j \in DOMAIN items : Committed(j) /\ j # 1}}
        BY <1>1, <3>1, <3>2 DEF Unreceived
    <3>4. Unreceived = {items[i].content : i \in {j \in DOMAIN items : Committed(j)}}
        BY <2>1 DEF Unreceived
    <3>5. \A j \in DOMAIN items : j # 1 => items[j].content # items[1].content
        BY <3>1 DEF Distinct
    <3>6. items[1].content \in Unreceived /\ Unreceived' = Unreceived \ {items[1].content}
        BY <3>1, <3>3, <3>4, <3>5
    <3>7. IsFiniteSet(Unreceived') /\ Cardinality(Unreceived') = Cardinality(Unreceived) - 1
        BY <2>1, <3>6, FS_RemoveElement
    <3>8. Cardinality(Unreceived') \in Nat
        BY <3>7, FS_CardinalityType
    <3> QED BY <2>1, <3>1, <3>7, <3>8 DEF Counted, CountIsExact
  <2> QED BY <2>2, <2>3
<1>13. TypeOK'
    BY <1>1, <1>3, <1>4, <1>8, <1>12 DEF TypeOK
<1> QED BY <1>8, <1>9, <1>10, <1>11, <1>12, <1>13

(* Giving back: the read offset moves to the end of the oldest item.          *)
LEMMA ReturnShape ==
    ASSUME RingInv, ReturnItem
    PROVE  /\ 1 \in DOMAIN items /\ WritesTo(1) /\ read_offset' = Wrapped(End(1))
           /\ Len(items') = Len(items) - 1
           /\ \A k \in DOMAIN items' : k + 1 \in DOMAIN items /\ items'[k] = items[k + 1]
           /\ \A k \in DOMAIN items : k > 1 => k - 1 \in DOMAIN items' /\ items'[k - 1] = items[k]
           /\ free_bytes' \in 0 .. Size /\ read_offset' \in Offsets
           /\ Shape'
<1> USE DEF RingInv
<1>1. /\ reader.pc = "holding" /\ items # <<>> /\ reader.off = read_offset /\ items[1].off = read_offset
      /\ 1 \in DOMAIN items /\ Committed(1) /\ storage[items[1].off].size = items[1].size
    BY Typed DEF ReturnItem, Reading, Kept
<1>2. /\ read_offset \in Nat /\ read_offset < Size /\ Size \in Nat /\ write_offset \in Nat /\ write_offset < Size
      /\ free_bytes \in Nat /\ End(1) \in Nat /\ End(1) <= Size /\ read_offset < End(1)
      /\ End(1) = read_offset + Total(items[1].size)
    BY <1>1, Typed, SizeAssumption DEF Offsets, Shape, Placed, End
<1>3. /\ read_offset' = Wrapped(End(1)) /\ free_bytes' = free_bytes + (End(1) - read_offset)
      /\ items' = Tail(items) /\ write_offset' = write_offset
    BY <1>1, <1>2, Typed DEF ReturnItem, AfterItem, Total
<1>4. /\ Len(items') = Len(items) - 1 /\ Len(items) \in Nat /\ DOMAIN items' = 1 .. Len(items) - 1
      /\ DOMAIN items = 1 .. Len(items)
      /\ \A k \in DOMAIN items' : k + 1 \in DOMAIN items /\ items'[k] = items[k + 1]
    BY <1>1, <1>3, Typed
<1>5. \A k \in DOMAIN items' : k + 1 \in DOMAIN items /\ items'[k] = items[k + 1] /\ End(k)' = End(k + 1)
    BY <1>4 DEF End
<1>6. WritesTo(1)
    BY <1>1, <1>2 DEF WritesTo, ReturnItem, TypeOK, Offsets
<1>7. ~Low(1)
    BY <1>1, <1>2 DEF Low
<1>8. \A k \in DOMAIN items : /\ items[k].off \in Nat /\ End(k) \in Nat /\ k \in Nat /\ k >= 1
                              /\ items[k].off < End(k) /\ End(k) <= Size
                              /\ k # 1 /\ ~Low(k) => End(1) <= items[k].off
                              /\ Low(k) => items[k].off < read_offset /\ End(k) <= read_offset
                              /\ ~Low(k) => items[k].off >= read_offset
  <2> SUFFICES ASSUME NEW k \in DOMAIN items
               PROVE  /\ items[k].off \in Nat /\ End(k) \in Nat /\ k \in Nat /\ k >= 1
                      /\ items[k].off < End(k) /\ End(k) <= Size
                      /\ k # 1 /\ ~Low(k) => End(1) <= items[k].off
                      /\ Low(k) => items[k].off < read_offset /\ End(k) <= read_offset
                      /\ ~Low(k) => items[k].off >= read_offset
      OBVIOUS
  <2>1. items[k].off \in Nat /\ End(k) \in Nat /\ k \in Nat /\ k >= 1 /\ items[k].off < End(k) /\ End(k) <= Size
      BY <1>4, Typed DEF Shape, Placed
  <2>2. k # 1 /\ ~Low(k) => End(1) <= items[k].off
      BY <1>1, <1>7, <2>1 DEF Shape, Apart
  <2>3. Low(k) => End(k) <= read_offset
      BY DEF Shape, Below
  <2> QED BY <1>2, <2>1, <2>2, <2>3 DEF Low
<1>9. Placed'
    BY <1>5 DEF Shape, Placed
<1>10. \A k \in DOMAIN items' : k < Len(items') => k + 1 \in DOMAIN items'
    BY <1>4
<1>11. Linked'
  <2> SUFFICES ASSUME NEW k \in DOMAIN items', k < Len(items')
               PROVE  \/ items'[k + 1].off = Wrapped(End(k + 1))
                      \/ items'[k + 1].off = 0 /\ End(k + 1) < Size
                           /\ storage'[End(k + 1)] = Header("dummy", Size - End(k + 1) - 1)
      BY <1>5 DEF Linked, Filler, Wrapped
  <2>1. k + 1 \in DOMAIN items /\ k + 1 < Len(items) /\ k + 1 \in DOMAIN items' /\ items'[k + 1] = items[k + 1 + 1]
      BY <1>4, <1>5
  <2>2. items[k + 1 + 1].off = Wrapped(End(k + 1)) \/ (items[k + 1 + 1].off = 0 /\ Filler(End(k + 1)))
      BY <2>1 DEF Shape, Linked
  <2> QED BY <2>1, <2>2, <1>1, <1>6, Confined DEF Filler
<1>12. Len(items) > 1 =>
          /\ 1 \in DOMAIN items' /\ items'[1] = items[2] /\ 2 \in DOMAIN items
          /\ \/ items[2].off = Wrapped(End(1))
             \/ items[2].off = 0 /\ End(1) < Size /\ storage'[End(1)] = Header("dummy", Size - End(1) - 1)
  <2>1. Len(items) > 1 => /\ 1 < Len(items) /\ 1 + 1 = 2 /\ 1 \in DOMAIN items' /\ 2 \in DOMAIN items
      BY <1>4
  <2>2. Len(items) > 1 => items[1 + 1].off = Wrapped(End(1)) \/ (items[1 + 1].off = 0 /\ Filler(End(1)))
      BY <1>1, <2>1 DEF Shape, Linked
  <2> QED BY <2>1, <2>2, <1>1, <1>5, <1>6, Confined DEF Filler
<1>13. /\ Len(items) = 1 => items' = <<>> /\ write_offset = Wrapped(End(1))
       /\ Len(items) > 1 => items' # <<>> /\ write_offset = Wrapped(End(Len(items))) /\ Len(items) \in DOMAIN items
       /\ Len(items) = 1 \/ Len(items) > 1
    BY <1>1, <1>3, <1>4, Typed DEF Shape, Back
<1>14. Back' /\ write_offset' = write_offset
  <2>1. Len(items) > 1 => Len(items') \in DOMAIN items' /\ Len(items') + 1 = Len(items)
      BY <1>4
  <2>2. Len(items) > 1 => End(Len(items))' = End(Len(items))
      BY <2>1, <1>4, <1>5 DEF End
  <2> QED BY <2>2, <1>3, <1>13 DEF Back, Wrapped
<1>15. free_bytes = IF write_offset > read_offset THEN Size - (write_offset - read_offset)
                    ELSE read_offset - write_offset
    BY <1>1 DEF Shape, Space
<1>16. ASSUME End(1) < Size
       PROVE  free_bytes' \in 0 .. Size /\ read_offset' \in Offsets /\ Shape'
  <2>1. read_offset' = End(1)
      BY <1>2, <1>3, <1>16 DEF Wrapped
  <2>2. \A k \in DOMAIN items' : Low(k)' <=> Low(k + 1)
    <3> SUFFICES ASSUME NEW k \in DOMAIN items'
                 PROVE  items[k + 1].off < End(1) <=> Low(k + 1)
        BY <1>5, <2>1 DEF Low
    <3>1. k + 1 \in DOMAIN items /\ k + 1 # 1
        BY <1>4
    <3> QED BY <3>1, <1>2, <1>8
  <2>3. Apart'
    <3> SUFFICES ASSUME NEW i \in DOMAIN items', NEW j \in DOMAIN items', i < j
                 PROVE  /\ Low(i + 1) => Low(j + 1)
                        /\ (Low(i + 1) <=> Low(j + 1)) => End(i + 1) <= items[j + 1].off
        BY <2>2, <1>5 DEF Apart
    <3> QED BY <1>4 DEF Shape, Apart
  <2>4. Below'
      BY <1>2, <1>5, <1>8, <2>1, <2>2 DEF Below
  <2>5. Front'
      BY <1>2, <1>12, <1>13, <1>16, <2>1, <1>4, Typed DEF Front, Wrapped, Filler
  <2>6. Len(items) > 1 /\ write_offset > read_offset => write_offset > End(1)
      BY <1>2, <1>8, <1>13, WriteSide
  <2>7. Space' /\ free_bytes' \in 0 .. Size
    <3>1. CASE Len(items) = 1
      <4>1. write_offset = End(1) /\ items' = <<>>
          BY <3>1, <1>2, <1>13, <1>16 DEF Wrapped
      <4>2. free_bytes' = Size
          BY <4>1, <1>2, <1>3, <1>15
      <4> QED BY <4>1, <4>2, <1>2 DEF Space
    <3>2. CASE Len(items) > 1
      <4>1. items' # <<>>
          BY <3>2, <1>13
      <4>2. CASE write_offset > read_offset
          BY <4>1, <4>2, <3>2, <2>1, <2>6, <1>2, <1>3, <1>14, <1>15 DEF Space
      <4>3. CASE write_offset <= read_offset
          BY <4>1, <4>3, <3>2, <2>1, <1>2, <1>3, <1>14, <1>15 DEF Space
      <4> QED BY <4>2, <4>3, <1>2
    <3> QED BY <3>1, <3>2, <1>13
  <2>8. Shape'
      BY <2>3, <2>4, <2>5, <2>7, <1>9, <1>11, <1>14 DEF Shape
  <2> QED BY <2>1, <2>7, <2>8, <1>2, <1>16 DEF Offsets
<1>17. ASSUME End(1) = Size
       PROVE  free_bytes' \in 0 .. Size /\ read_offset' \in Offsets /\ Shape'
  <2>1. read_offset' = 0
      BY <1>2, <1>3, <1>17 DEF Wrapped
  <2>2. \A k \in DOMAIN items' : Low(k + 1) /\ k + 1 \in DOMAIN items
      BY <1>2, <1>4, <1>8, <1>17
  <2>3. \A k \in DOMAIN items' : ~Low(k)'
      BY <1>5, <1>8, <2>1 DEF Low
  <2>4. Apart'
    <3> SUFFICES ASSUME NEW i \in DOMAIN items', NEW j \in DOMAIN items', i < j
                 PROVE  End(i + 1) <= items[j + 1].off
        BY <2>3, <1>5 DEF Apart
    <3> QED BY <1>4, <2>2 DEF Shape, Apart
  <2>5. Below'
      BY <2>3 DEF Below
  <2>6. Front'
      BY <1>2, <1>12, <1>13, <1>17, <2>1, <1>4, Typed DEF Front, Wrapped
  <2>7. Space' /\ free_bytes' \in 0 .. Size
    <3>1. CASE Len(items) = 1
      <4>1. write_offset = 0 /\ items' = <<>>
          BY <3>1, <1>2, <1>13, <1>17 DEF Wrapped
      <4>2. free_bytes' = Size
          BY <4>1, <1>2, <1>3, <1>15, <1>17
      <4> QED BY <4>1, <4>2, <1>2 DEF Space
    <3>2. CASE Len(items) > 1
      <4>1. items' # <<>> /\ Len(items) - 1 \in DOMAIN items' /\ Len(items) - 1 + 1 = Len(items)
          BY <3>2, <1>4, <1>13
      <4>2. Low(Len(items)) /\ Len(items) \in DOMAIN items
          BY <4>1, <2>2
      <4>3. write_offset = End(Len(items)) /\ 0 < write_offset /\ write_offset <= read_offset
          BY <4>2, <3>2, <1>2, <1>8, <1>13 DEF Wrapped
      <4>4. free_bytes' = Size - write_offset
          BY <4>3, <1>2, <1>3, <1>15, <1>17
      <4> QED BY <4>1, <4>3, <4>4, <2>1, <1>2, <1>3 DEF Space
    <3> QED BY <3>1, <3>2, <1>13
  <2>8. Shape'
      BY <2>4, <2>5, <2>6, <2>7, <1>9, <1>11, <1>14 DEF Shape
  <2> QED BY <2>1, <2>7, <2>8, <1>2 DEF Offsets
<1>18. free_bytes' \in 0 .. Size /\ read_offset' \in Offsets /\ Shape'
    BY <1>2, <1>16, <1>17
<1>19. \A k \in DOMAIN items : k > 1 => k - 1 \in DOMAIN items' /\ items'[k - 1] = items[k]
    BY <1>4
<1> QED BY <1>1, <1>3, <1>4, <1>6, <1>18, <1>19

LEMMA ReturnKeeps ==
    ASSUME RingInv, ReturnItem
    PROVE  RingInv'
<1>1. /\ 1 \in DOMAIN items /\ WritesTo(1)
      /\ \A k \in DOMAIN items' : k + 1 \in DOMAIN items /\ items'[k] = items[k + 1]
      /\ \A k \in DOMAIN items : k > 1 => k - 1 \in DOMAIN items' /\ items'[k - 1] = items[k]
      /\ free_bytes' \in 0 .. Size /\ read_offset' \in Offsets /\ Shape'
    BY ReturnShape
<1>2. /\ reader.pc = "holding" /\ items # <<>> /\ reader.off = read_offset /\ items[1].off = read_offset
      /\ Committed(1) /\ storage' = [storage EXCEPT ![items[1].off].flag = "free"] /\ items' = Tail(items)
    BY DEF ReturnItem, RingInv, Reading
<1>3. /\ DOMAIN items = 1 .. Len(items) /\ Len(items) \in Nat /\ DOMAIN items' = 1 .. Len(items')
      /\ items' \in Seq(ItemType) /\ items[1].off \in Offsets
    BY <1>1, <1>2, Typed DEF RingInv
<1>4. \A k \in DOMAIN items' :
          /\ k + 1 \in DOMAIN items /\ k + 1 # 1 /\ items'[k] = items[k + 1]
          /\ storage'[items[k + 1].off] = storage[items[k + 1].off]
          /\ \A o \in items[k + 1].off + 1 .. items[k + 1].off + items[k + 1].size : storage'[o] = storage[o]
    BY <1>1, <1>3, Confined
<1>5. /\ \A q \in Producers : producer'[q] = producer[q] \/ (~Busy(q)' /\ ~Busy(q))
      /\ producer' \in [Producers -> [pc : {"idle", "awake", "asleep", "filling", "filled"}, size : Nat,
                                      off : Nat, content : Payloads \union {None}]]
  <2>1. producer' = [q \in Producers |-> IF producer[q].pc = "asleep" THEN [producer[q] EXCEPT !.pc = "awake"]
                                                                     ELSE producer[q]]
      BY DEF ReturnItem, NotifyWriters
  <2>2. producer \in [Producers -> [pc : {"idle", "awake", "asleep", "filling", "filled"}, size : Nat,
                                    off : Nat, content : Payloads \union {None}]]
      BY DEF RingInv, TypeOK
  <2> QED BY <2>1, <2>2 DEF Busy
<1>6. TypeOK'
  <2>1. storage' \in [Offsets -> Cells]
    <3>1. storage \in [Offsets -> Cells]
        BY DEF RingInv, TypeOK
    <3>2. [storage[items[1].off] EXCEPT !.flag = "free"] \in Cells
        BY <1>3, <3>1 DEF Cells, Flags
    <3> QED BY <1>2, <1>3, <3>1, <3>2
  <2>2. reader' \in [pc : {"idle", "awake", "asleep", "holding"}, off : Offsets]
      BY SizeAssumption DEF ReturnItem, NotReading, Offsets
  <2> QED BY <1>1, <1>3, <1>5, <2>1, <2>2 DEF RingInv, TypeOK, ReturnItem, ItemType
<1>7. Kept'
  <2> SUFFICES ASSUME NEW k \in DOMAIN items'
               PROVE  /\ storage'[items'[k].off].size = items'[k].size
                      /\ storage'[items'[k].off].flag \in {"acquired", "written"}
                      /\ storage'[items'[k].off].flag = "written" =>
                            \A o \in items'[k].off + 1 .. items'[k].off + items'[k].size :
                                storage'[o] = Payload(items'[k].content)
      BY DEF Kept, Committed, Holds
  <2> QED BY <1>4 DEF RingInv, Kept, Committed, Holds
<1>8. Distinct'
  <2> SUFFICES ASSUME NEW i \in DOMAIN items', NEW j \in DOMAIN items', i # j
               PROVE  items[i + 1].content # items[j + 1].content
      BY <1>4 DEF Distinct
  <2>1. i + 1 \in DOMAIN items /\ j + 1 \in DOMAIN items
      BY <1>4
  <2>2. i + 1 # j + 1
      BY <1>3
  <2> QED BY <2>1, <2>2 DEF RingInv, Distinct
<1>9. Making' /\ Alone'
  <2>1. Alone'
      BY <1>5 DEF RingInv, Alone, Busy
  <2>2. Making'
    <3> SUFFICES ASSUME NEW q \in Producers, Busy(q)'
                 PROVE  \E k \in DOMAIN items' :
                            /\ items'[k] = Item(producer'[q].off, producer'[q].size, producer'[q].content)
                            /\ storage'[items'[k].off].flag = "acquired"
                            /\ producer'[q].pc = "filled" =>
                                  \A o \in items'[k].off + 1 .. items'[k].off + items'[k].size :
                                      storage'[o] = Payload(items'[k].content)
        BY DEF Making, Holds
    <3>1. producer'[q] = producer[q] /\ Busy(q)
        BY <1>5 DEF Busy
    <3>2. PICK i \in DOMAIN items :
              /\ items[i] = Item(producer[q].off, producer[q].size, producer[q].content)
              /\ storage[items[i].off].flag = "acquired"
              /\ producer[q].pc = "filled" => Holds(i)
        BY <3>1 DEF RingInv, Making
    <3>3. i # 1 /\ i > 1
        BY <3>2, <1>2, <1>3 DEF Committed
    <3>4. i - 1 \in DOMAIN items' /\ items'[i - 1] = items[i] /\ i - 1 + 1 = i
        BY <1>1, <1>3, <3>3
    <3>5. /\ storage'[items[i].off] = storage[items[i].off]
          /\ \A o \in items[i].off + 1 .. items[i].off + items[i].size : storage'[o] = storage[o]
        BY <1>4, <3>4
    <3> QED BY <3>1, <3>2, <3>4, <3>5 DEF Holds
  <2> QED BY <2>1, <2>2
<1>10. Reading'
    BY DEF Reading, ReturnItem, NotReading
<1>11. Counted'
  <2>1. reader'.pc # "holding" /\ items_waiting' = items_waiting
      BY DEF ReturnItem, NotReading
  <2>2. Unreceived' = {items'[k].content : k \in {j \in DOMAIN items' : storage'[items'[j].off].flag = "written"}}
      BY <2>1 DEF Unreceived, Committed
  <2>3. Unreceived = {items[i].content : i \in {j \in DOMAIN items : storage[items[j].off].flag = "written" /\ j # 1}}
      BY <1>2 DEF Unreceived, Committed
  <2>4. ASSUME NEW k \in DOMAIN items', storage'[items'[k].off].flag = "written"
        PROVE  items'[k].content \in Unreceived
      BY <2>3, <2>4, <1>4
  <2>5. ASSUME NEW i \in DOMAIN items, storage[items[i].off].flag = "written", i # 1
        PROVE  items[i].content \in Unreceived'
    <3>1. i > 1 /\ i - 1 + 1 = i
        BY <2>5, <1>3
    <3>2. i - 1 \in DOMAIN items' /\ items'[i - 1] = items[i]
        BY <3>1, <1>1
    <3>3. storage'[items[i].off] = storage[items[i].off]
        BY <3>1, <3>2, <1>4
    <3> QED BY <2>2, <2>5, <3>2, <3>3
  <2>6. Unreceived' = Unreceived
      BY <2>2, <2>3, <2>4, <2>5
  <2> QED BY <2>1, <2>6 DEF RingInv, Counted, CountIsExact
<1> QED BY <1>1, <1>6, <1>7, <1>8, <1>9, <1>10, <1>11 DEF RingInv

(* Taking space: where the new item comes to lie.                             *)
LEMMA NewRegion ==
    ASSUME RingInv, NEW n \in Nat \ {0}, CanAcquire(n)
    PROVE  /\ Target(n) \in Offsets /\ Target(n) + Total(n) <= Size /\ Cost(n) <= free_bytes /\ Cost(n) \in Nat
           /\ Target(n) < read_offset => Target(n) + Total(n) <= read_offset
           /\ \A i \in DOMAIN items :
                 \/ Low(i) /\ Target(n) < read_offset /\ End(i) <= Target(n)
                 \/ ~Low(i) /\ Target(n) >= read_offset /\ End(i) <= Target(n)
                 \/ ~Low(i) /\ Target(n) < read_offset
           /\ ~Fits(n) => /\ Target(n) = 0 /\ Total(n) <= write_offset /\ Total(n) <= read_offset
                          /\ write_offset >= read_offset
                          /\ \A i \in DOMAIN items : End(i) <= write_offset /\ ~Low(i)
           /\ Fits(n) => Target(n) = write_offset
           /\ items # <<>> /\ write_offset = read_offset => FALSE
<1> USE DEF RingInv
<1>1. /\ read_offset \in Nat /\ read_offset < Size /\ Size \in Nat /\ write_offset \in Nat /\ write_offset < Size
      /\ free_bytes \in Nat /\ Total(n) = n + 1 /\ TailSpace = Size - write_offset
    BY Typed, SizeAssumption DEF Offsets, Total, TailSpace
<1>2. \A i \in DOMAIN items :
          /\ items[i].off \in Nat /\ End(i) \in Nat
          /\ write_offset > read_offset => ~Low(i) /\ End(i) <= write_offset
          /\ write_offset <= read_offset => (Low(i) => End(i) <= write_offset)
    BY Typed, WriteSide
<1>3. items = <<>> => free_bytes = Size /\ write_offset = read_offset /\ DOMAIN items = {}
    BY DEF Shape, Space, Back
<1>4. items # <<>> => free_bytes = IF write_offset > read_offset THEN Size - (write_offset - read_offset)
                                   ELSE read_offset - write_offset
    BY DEF Shape, Space
<1>5. CASE Fits(n)
  <2>1. Target(n) = write_offset /\ Cost(n) = n + 1 /\ write_offset + n + 1 <= Size /\ free_bytes >= n + 1
      BY <1>1, <1>5 DEF Target, Cost, Fits, CanAcquire
  <2>2. items # <<>> => write_offset # read_offset
      BY <1>1, <1>4, <2>1
  <2>3. write_offset < read_offset => write_offset + n + 1 <= read_offset
      BY <1>1, <1>3, <1>4, <2>1
  <2> QED BY <1>1, <1>2, <1>3, <1>5, <2>1, <2>2, <2>3 DEF Offsets
<1>6. CASE ~Fits(n)
  <2>1. /\ Target(n) = 0 /\ Cost(n) = (Size - write_offset) + (n + 1)
        /\ write_offset + (n + 1) > Size /\ free_bytes >= (Size - write_offset) + (n + 1)
      BY <1>1, <1>6 DEF Target, Cost, Fits, CanAcquire, FitsBehindFiller
  <2>2. items # <<>> => write_offset > read_offset
      BY <1>1, <1>4, <2>1
  <2>3. write_offset >= read_offset /\ n + 1 <= read_offset
      BY <1>1, <1>3, <1>4, <2>1, <2>2
  <2>4. \A i \in DOMAIN items : End(i) <= write_offset /\ ~Low(i)
      BY <1>2, <1>3, <2>2
  <2> QED BY <1>1, <1>3, <1>6, <2>1, <2>2, <2>3, <2>4 DEF Offsets
<1> QED BY <1>5, <1>6

(* The new item is the last: what the array and the sequence are afterwards.  *)
LEMMA GrantedStep ==
    ASSUME RingInv, NEW p \in Producers, NEW n \in Nat \ {0}, Granted(p, n)
    PROVE  /\ Fresh \in Payloads /\ Fresh \notin Contents
           /\ items' = Append(items, Item(Target(n), n, Fresh))
           /\ DOMAIN items' = 1 .. Len(items) + 1 /\ Len(items') = Len(items) + 1 /\ Len(items) \in Nat
           /\ DOMAIN items = 1 .. Len(items)
           /\ \A i \in DOMAIN items : items'[i] = items[i] /\ i \in DOMAIN items'
           /\ items'[Len(items) + 1] = Item(Target(n), n, Fresh)
           /\ storage' \in [Offsets -> Cells]
           /\ storage'[Target(n)] = Header("acquired", n)
           /\ ~Fits(n) => storage'[write_offset] = Header("dummy", Size - write_offset - 1) /\ write_offset # 0
           /\ \A o \in Offsets : o # Target(n) /\ (Fits(n) \/ o # write_offset) => storage'[o] = storage[o]
<1> USE DEF RingInv
<1>1. Fresh \in Payloads /\ Fresh \notin Contents
    BY DEF Granted, Fresh
<1>2. items' = Append(items, Item(Target(n), n, Fresh)) /\ items \in Seq(ItemType) /\ Len(items) \in Nat
      /\ DOMAIN items = 1 .. Len(items)
    BY Typed DEF Granted
<1>3. CanAcquire(n) /\ storage' = [Filled(n) EXCEPT ![Target(n)] = Header("acquired", n)]
    BY DEF Granted
<1>4. /\ Target(n) \in Offsets /\ write_offset \in Offsets /\ Size \in Nat /\ write_offset \in Nat /\ write_offset < Size
      /\ ~Fits(n) => Target(n) = 0 /\ write_offset # 0
    BY <1>3, NewRegion, Typed DEF Offsets, Total
<1>5. Header("acquired", n) \in Cells /\ Header("dummy", Size - write_offset - 1) \in Cells
    BY <1>4 DEF Header, Cells, Flags
<1>6. storage \in [Offsets -> Cells]
    BY DEF TypeOK
<1>7. Filled(n) \in [Offsets -> Cells]
    BY <1>4, <1>5, <1>6 DEF Filled, TailSpace
<1>8. /\ storage' \in [Offsets -> Cells]
      /\ storage'[Target(n)] = Header("acquired", n)
      /\ \A o \in Offsets : o # Target(n) => storage'[o] = Filled(n)[o]
    BY <1>3, <1>4, <1>5, <1>7
<1>9. \A o \in Offsets : Filled(n)[o] = IF ~Fits(n) /\ o = write_offset
                                        THEN Header("dummy", Size - write_offset - 1) ELSE storage[o]
    BY <1>4, <1>6 DEF Filled, TailSpace
<1>10. /\ DOMAIN items' = 1 .. Len(items) + 1 /\ Len(items') = Len(items) + 1
       /\ \A i \in DOMAIN items : items'[i] = items[i] /\ i \in DOMAIN items'
       /\ items'[Len(items) + 1] = Item(Target(n), n, Fresh)
  <2>1. Item(Target(n), n, Fresh) \in ItemType
      BY <1>1, <1>4 DEF Item, ItemType
  <2> QED BY <1>2, <2>1
<1>11. ~Fits(n) => storage'[write_offset] = Header("dummy", Size - write_offset - 1)
    BY <1>4, <1>8, <1>9
<1>12. \A o \in Offsets : o # Target(n) /\ (Fits(n) \/ o # write_offset) => storage'[o] = storage[o]
    BY <1>8, <1>9
<1> QED BY <1>1, <1>2, <1>4, <1>8, <1>10, <1>11, <1>12

LEMMA GrantedOthers ==
    ASSUME RingInv, NEW p \in Producers, NEW n \in Nat \ {0}, Granted(p, n), NEW i \in DOMAIN items
    PROVE  /\ storage'[items[i].off] = storage[items[i].off]
           /\ \A o \in items[i].off + 1 .. items[i].off + items[i].size : storage'[o] = storage[o]
<1>1. CanAcquire(n)
    BY DEF Granted
<1>2. /\ items[i].off \in Nat /\ items[i].size \in Nat /\ End(i) = items[i].off + items[i].size + 1 /\ End(i) <= Size
      /\ Target(n) \in Nat /\ read_offset \in Nat /\ write_offset \in Nat /\ Size \in Nat
      /\ ~Low(i) => items[i].off >= read_offset
  <2>1. /\ items[i].off \in Nat /\ items[i].size \in Nat /\ read_offset \in Nat /\ write_offset \in Nat /\ Size \in Nat
      BY Typed DEF RingInv, Offsets
  <2>2. Target(n) \in Nat
      BY <1>1, NewRegion DEF Offsets
  <2>3. End(i) = items[i].off + items[i].size + 1 /\ End(i) <= Size
      BY <2>1 DEF RingInv, Shape, Placed, End, Total
  <2> QED BY <2>1, <2>2, <2>3 DEF Low
<1>3. /\ End(i) <= Target(n) \/ (~Low(i) /\ Target(n) < read_offset)
      /\ ~Fits(n) => End(i) <= write_offset
    BY <1>1, NewRegion
<1>4. \A o \in items[i].off .. items[i].off + items[i].size :
          o \in Offsets /\ o # Target(n) /\ (Fits(n) \/ o # write_offset)
    BY <1>2, <1>3 DEF Offsets
<1>5. \A o \in items[i].off .. items[i].off + items[i].size : storage'[o] = storage[o]
    BY <1>4, GrantedStep
<1>6. items[i].off \in items[i].off .. items[i].off + items[i].size
    BY <1>2
<1>7. items[i].off + 1 .. items[i].off + items[i].size \subseteq items[i].off .. items[i].off + items[i].size
    BY <1>2
<1> QED BY <1>5, <1>6, <1>7

LEMMA GrantedShape ==
    ASSUME RingInv, NEW p \in Producers, NEW n \in Nat \ {0}, Granted(p, n)
    PROVE  Shape' /\ free_bytes' \in 0 .. Size /\ write_offset' \in Offsets
<1> USE DEF RingInv
<1>0. PICK L \in Nat : L = Len(items) + 1 /\ Len(items) \in Nat
    BY Typed
<1>1. CanAcquire(n) /\ read_offset' = read_offset /\ free_bytes' = free_bytes - Cost(n)
      /\ write_offset' = Wrapped(Target(n) + Total(n))
    BY DEF Granted
<1>2. /\ read_offset \in Nat /\ read_offset < Size /\ Size \in Nat /\ write_offset \in Nat /\ write_offset < Size
      /\ free_bytes \in Nat /\ Total(n) = n + 1 /\ TailSpace = Size - write_offset /\ Target(n) \in Nat
      /\ free_bytes <= Size
    BY <1>1, NewRegion, Typed, SizeAssumption DEF Offsets, Total, TailSpace, TypeOK
<1>3. /\ DOMAIN items' = 1 .. L /\ Len(items') = L /\ Len(items) \in Nat /\ DOMAIN items = 1 .. Len(items)
      /\ \A i \in DOMAIN items : items'[i] = items[i]
      /\ items'[L].off = Target(n) /\ items'[L].size = n /\ L \in DOMAIN items' /\ items' # <<>>
  <2>1. /\ DOMAIN items' = 1 .. L /\ Len(items') = L /\ DOMAIN items = 1 .. Len(items)
        /\ \A i \in DOMAIN items : items'[i] = items[i]
        /\ items'[L] = Item(Target(n), n, Fresh)
      BY <1>0, GrantedStep
  <2>2. L \in DOMAIN items' /\ items' # <<>>
      BY <1>0, <2>1
  <2> QED BY <1>0, <2>1, <2>2 DEF Item
<1>4. /\ \A i \in DOMAIN items : (Low(i)' <=> Low(i)) /\ End(i)' = End(i) /\ items'[i].off = items[i].off
      /\ Low(L)' <=> Target(n) < read_offset
      /\ End(L)' = Target(n) + Total(n)
    BY <1>1, <1>3 DEF Low, End
<1>5. \A i \in DOMAIN items' : i \in DOMAIN items \/ i = L
    BY <1>0, <1>3
<1>6. \A i \in DOMAIN items : /\ items[i].off \in Nat /\ End(i) \in Nat /\ End(i) <= Size
                              /\ Low(i) => Target(n) < read_offset
                              /\ (Low(i) <=> Target(n) < read_offset) => End(i) <= Target(n)
    BY <1>1, NewRegion, Typed DEF Shape, Placed
<1>7. Target(n) + Total(n) <= Size /\ (Target(n) < read_offset => Target(n) + Total(n) <= read_offset)
    BY <1>1, NewRegion
<1>8. Placed'
    BY <1>4, <1>5, <1>6, <1>7 DEF Placed
<1>9. Apart'
  <2> SUFFICES ASSUME NEW i \in DOMAIN items', NEW j \in DOMAIN items', i < j
               PROVE  /\ Low(i)' => Low(j)'
                      /\ (Low(i)' <=> Low(j)') => End(i)' <= items'[j].off
      BY DEF Apart
  <2>1. i \in DOMAIN items
      BY <1>3, <1>0
  <2>2. CASE j \in DOMAIN items
      BY <2>1, <2>2, <1>4 DEF Shape, Apart
  <2>3. CASE j = L
      BY <2>1, <2>3, <1>3, <1>4, <1>6
  <2> QED BY <1>5, <2>2, <2>3
<1>10. Below'
    BY <1>1, <1>4, <1>5, <1>7 DEF Shape, Below
<1>11. Linked'
  <2> SUFFICES ASSUME NEW i \in DOMAIN items', i < L
               PROVE  \/ items'[i + 1].off = Wrapped(End(i))
                      \/ /\ items'[i + 1].off = 0 /\ End(i) < Size
                         /\ storage'[End(i)] = Header("dummy", Size - End(i) - 1)
    <3>1. \A i \in DOMAIN items' : i < L => End(i)' = End(i)
        BY <1>3, <1>4, <1>0
    <3> QED BY <3>1, <1>3 DEF Linked, Filler, Wrapped
  <2>1. i \in DOMAIN items /\ i \in Nat
      BY <1>3, <1>0
  <2>2. CASE i < Len(items)
    <3>1. i + 1 \in DOMAIN items /\ items'[i + 1] = items[i + 1]
        BY <2>1, <2>2, <1>3
    <3>2. items[i + 1].off = Wrapped(End(i)) \/ (items[i + 1].off = 0 /\ Filler(End(i)))
        BY <2>1, <2>2 DEF Shape, Linked
    <3>3. ASSUME items[i + 1].off = 0, Filler(End(i))
          PROVE  storage'[End(i)] = Header("dummy", Size - End(i) - 1) /\ End(i) < Size
      <4>1. End(i) \in Offsets /\ items[i].off < End(i) /\ items[i].off \in Nat
          BY <2>1, <3>3, <1>2, Typed DEF Filler, Offsets
      <4>2. ~Low(i)
          BY <3>1, <3>3, <2>1, <1>6, <1>2, <4>1 DEF Shape, Apart, Low
      <4>3. Low(i + 1)
          BY <3>1, <3>3, <2>1, <1>6, <1>2, <4>1, <4>2 DEF Shape, Apart, Low
      <4>4. Fits(n) /\ Target(n) < read_offset
          BY <4>3, <3>1, <1>1, <1>6, NewRegion
      <4>5. End(i) # Target(n)
          BY <4>1, <4>2, <4>4, <1>2 DEF Low
      <4> QED BY <3>3, <4>1, <4>4, <4>5, GrantedStep DEF Filler
    <3> QED BY <3>1, <3>2, <3>3
  <2>3. CASE i = Len(items)
    <3>1. items'[i + 1].off = Target(n) /\ items # <<>>
        BY <2>1, <2>3, <1>3, <1>0
    <3>2. write_offset = Wrapped(End(i))
        BY <2>3, <3>1 DEF Shape, Back
    <3>3. CASE Fits(n)
        BY <3>1, <3>2, <3>3, <1>1, NewRegion
    <3>4. CASE ~Fits(n)
      <4>1. Target(n) = 0 /\ write_offset # 0 /\ storage'[write_offset] = Header("dummy", Size - write_offset - 1)
          BY <3>4, <1>1, NewRegion, GrantedStep
      <4>2. write_offset = End(i)
          BY <3>2, <4>1, <1>2 DEF Wrapped
      <4> QED BY <3>1, <4>1, <4>2, <1>2
    <3> QED BY <3>3, <3>4
  <2> QED BY <2>1, <2>2, <2>3, <1>3, <1>0
<1>12. Front'
  <2>1. CASE items = <<>>
    <3>1. L = 1 /\ items'[1].off = Target(n) /\ write_offset = read_offset
        BY <2>1, <1>0, <1>3, Typed DEF Shape, Back
    <3>2. CASE Fits(n)
        BY <3>1, <3>2, <1>1, NewRegion DEF Front
    <3>3. CASE ~Fits(n)
      <4>1. Target(n) = 0 /\ write_offset # 0 /\ storage'[write_offset] = Header("dummy", Size - write_offset - 1)
          BY <3>3, <1>1, NewRegion, GrantedStep
      <4> QED BY <3>1, <4>1, <1>1, <1>2 DEF Front, Filler
    <3> QED BY <3>2, <3>3
  <2>2. CASE items # <<>>
    <3>1. 1 \in DOMAIN items /\ items'[1] = items[1] /\ items[1].off \in Nat
        BY <2>2, <1>3, Typed
    <3>2. ASSUME items[1].off = 0, read_offset > 0, Filler(read_offset)
          PROVE  Filler(read_offset)'
      <4>1. Low(1)
          BY <3>2 DEF Low
      <4>2. Fits(n) /\ Target(n) < read_offset
          BY <4>1, <3>1, <1>1, <1>6, NewRegion
      <4>3. read_offset \in Offsets /\ read_offset # Target(n)
          BY <4>2, <1>2 DEF Offsets
      <4> QED BY <3>2, <4>2, <4>3, <1>1, GrantedStep DEF Filler
    <3> QED BY <2>2, <3>1, <3>2, <1>1 DEF Shape, Front
  <2> QED BY <2>1, <2>2
<1>13. Back'
  <2>1. End(Len(items))' = Target(n) + Total(n)
      BY <1>3, <1>4 DEF End
  <2> QED BY <2>1, <1>1, <1>3 DEF Back, Wrapped
<1>14. /\ items = <<>> => free_bytes = Size /\ write_offset = read_offset
       /\ items # <<>> => /\ write_offset # read_offset
                          /\ free_bytes = IF write_offset > read_offset
                                          THEN Size - (write_offset - read_offset) ELSE read_offset - write_offset
    BY <1>1, NewRegion DEF Shape, Space, Back
<1>15. Space' /\ free_bytes' \in 0 .. Size
  <2>1. CASE Fits(n)
    <3>1. /\ Target(n) = write_offset /\ Cost(n) = n + 1 /\ write_offset + n + 1 <= Size /\ n + 1 <= free_bytes
          /\ write_offset < read_offset => write_offset + n + 1 <= read_offset
        BY <2>1, <1>1, <1>2, <1>7, NewRegion DEF Cost, Fits
    <3>2. CASE write_offset + n + 1 < Size
      <4>1. write_offset' = write_offset + n + 1
          BY <3>1, <3>2, <1>1, <1>2 DEF Wrapped
      <4>2. free_bytes' = free_bytes - (n + 1)
          BY <3>1, <1>1
      <4>3. CASE items = <<>>
          BY <3>1, <3>2, <4>1, <4>2, <4>3, <1>1, <1>2, <1>3, <1>14 DEF Space
      <4>4. CASE items # <<>>
          BY <3>1, <3>2, <4>1, <4>2, <4>4, <1>1, <1>2, <1>3, <1>14 DEF Space
      <4> QED BY <4>3, <4>4
    <3>3. CASE write_offset + n + 1 = Size
      <4>1. write_offset' = 0
          BY <3>1, <3>3, <1>1, <1>2 DEF Wrapped
      <4>2. free_bytes' = free_bytes - (n + 1)
          BY <3>1, <1>1
      <4>3. CASE items = <<>>
          BY <3>1, <3>3, <4>1, <4>2, <4>3, <1>1, <1>2, <1>3, <1>14 DEF Space
      <4>4. CASE items # <<>>
          BY <3>1, <3>3, <4>1, <4>2, <4>4, <1>1, <1>2, <1>3, <1>14 DEF Space
      <4> QED BY <4>3, <4>4
    <3> QED BY <3>1, <3>2, <3>3, <1>2
  <2>2. CASE ~Fits(n)
    <3>1. /\ Target(n) = 0 /\ Cost(n) = (Size - write_offset) + (n + 1) /\ n + 1 <= read_offset
          /\ write_offset >= read_offset /\ Cost(n) <= free_bytes
        BY <2>2, <1>1, <1>2, NewRegion DEF Cost
    <3>2. write_offset' = n + 1
        BY <3>1, <1>1, <1>2 DEF Wrapped
    <3>3. free_bytes' = free_bytes - ((Size - write_offset) + (n + 1))
        BY <3>1, <1>1
    <3>4. CASE items = <<>>
        BY <3>1, <3>2, <3>3, <3>4, <1>1, <1>2, <1>3, <1>14 DEF Space
    <3>5. CASE items # <<>>
        BY <3>1, <3>2, <3>3, <3>5, <1>1, <1>2, <1>3, <1>14 DEF Space
    <3> QED BY <3>4, <3>5
  <2> QED BY <2>1, <2>2
<1>16. write_offset' \in Offsets
    BY <1>1, <1>2, <1>7 DEF Wrapped, Offsets
<1> QED BY <1>8, <1>9, <1>10, <1>11, <1>12, <1>13, <1>15, <1>16 DEF Shape

LEMMA GrantedKeeps ==
    ASSUME RingInv, NEW p \in Producers, NEW n \in Nat \ {0}, Granted(p, n)
    PROVE  RingInv'
<1> USE DEF RingInv
<1>0. PICK L \in Nat : L = Len(items) + 1 /\ Len(items) \in Nat
    BY Typed
<1>1. /\ DOMAIN items' = 1 .. L /\ DOMAIN items = 1 .. Len(items)
      /\ \A i \in DOMAIN items : items'[i] = items[i] /\ i \in DOMAIN items'
      /\ items'[L] = Item(Target(n), n, Fresh) /\ L \in DOMAIN items'
      /\ Fresh \in Payloads /\ Fresh \notin Contents
      /\ storage'[Target(n)] = Header("acquired", n)
    BY <1>0, GrantedStep
<1>2. /\ items'[L].off = Target(n) /\ items'[L].size = n /\ items'[L].content = Fresh
      /\ \A i \in DOMAIN items' : i \in DOMAIN items \/ i = L
      /\ \A i \in DOMAIN items : i # L
    BY <1>0, <1>1 DEF Item
<1>3. \A i \in DOMAIN items :
          /\ storage'[items[i].off] = storage[items[i].off]
          /\ \A o \in items[i].off + 1 .. items[i].off + items[i].size : storage'[o] = storage[o]
    BY GrantedOthers
<1>4. /\ producer' = [producer EXCEPT ![p] = [pc |-> "filling", size |-> n, off |-> Target(n), content |-> Fresh]]
      /\ producer \in [Producers -> [pc : {"idle", "awake", "asleep", "filling", "filled"}, size : Nat,
                                     off : Nat, content : Payloads \union {None}]]
      /\ UNCHANGED <<read_offset, items_waiting, reader>> /\ CanAcquire(n)
    BY DEF Granted, TypeOK
<1>5. Target(n) \in Offsets /\ Target(n) \in Nat
    BY <1>4, NewRegion DEF Offsets
<1>6. TypeOK'
  <2>1. items' \in Seq([off : Offsets, size : Nat \ {0}, content : Payloads])
    <3>1. Item(Target(n), n, Fresh) \in ItemType
        BY <1>1, <1>5, SizesAssumption DEF Item, ItemType
    <3>2. items \in Seq(ItemType) /\ items' = Append(items, Item(Target(n), n, Fresh))
        BY Typed, GrantedStep DEF RingInv
    <3>3. items' \in Seq(ItemType)
        BY <3>1, <3>2
    <3> QED BY <3>3 DEF ItemType
  <2>2. storage' \in [Offsets -> Cells]
      BY GrantedStep
  <2>3. producer' \in [Producers -> [pc : {"idle", "awake", "asleep", "filling", "filled"}, size : Nat,
                                     off : Nat, content : Payloads \union {None}]]
      BY <1>1, <1>4, <1>5
  <2> QED BY <2>1, <2>2, <2>3, <1>4, GrantedShape DEF TypeOK
<1>7. Kept'
  <2> SUFFICES ASSUME NEW i \in DOMAIN items'
               PROVE  /\ storage'[items'[i].off].size = items'[i].size
                      /\ storage'[items'[i].off].flag \in {"acquired", "written"}
                      /\ storage'[items'[i].off].flag = "written" =>
                            \A o \in items'[i].off + 1 .. items'[i].off + items'[i].size :
                                storage'[o] = Payload(items'[i].content)
      BY DEF Kept, Committed, Holds
  <2>1. CASE i = L
      BY <2>1, <1>1, <1>2 DEF Header
  <2>2. CASE i \in DOMAIN items
      BY <2>2, <1>1, <1>3 DEF Kept, Committed, Holds
  <2> QED BY <2>1, <2>2, <1>2
<1>8. Distinct'
  <2>1. \A i \in DOMAIN items : items[i].content # Fresh
      BY <1>1 DEF Contents
  <2> QED BY <2>1, <1>1, <1>2 DEF Distinct
<1>9. \A q \in Producers : q # p => producer'[q] = producer[q]
    BY <1>4
<1>10. producer'[p] = [pc |-> "filling", size |-> n, off |-> Target(n), content |-> Fresh]
    BY <1>4
<1>11. Making'
  <2> SUFFICES ASSUME NEW q \in Producers, Busy(q)'
               PROVE  \E k \in DOMAIN items' :
                          /\ items'[k] = Item(producer'[q].off, producer'[q].size, producer'[q].content)
                          /\ storage'[items'[k].off].flag = "acquired"
                          /\ producer'[q].pc = "filled" =>
                                \A o \in items'[k].off + 1 .. items'[k].off + items'[k].size :
                                    storage'[o] = Payload(items'[k].content)
      BY DEF Making, Holds
  <2>1. CASE q = p
      BY <2>1, <1>1, <1>2, <1>10 DEF Header
  <2>2. CASE q # p
    <3>1. producer'[q] = producer[q] /\ Busy(q)
        BY <2>2, <1>9 DEF Busy
    <3>2. PICK k \in DOMAIN items :
              /\ items[k] = Item(producer[q].off, producer[q].size, producer[q].content)
              /\ storage[items[k].off].flag = "acquired"
              /\ producer[q].pc = "filled" => Holds(k)
        BY <3>1 DEF Making
    <3> QED BY <3>1, <3>2, <1>1, <1>3 DEF Holds
  <2> QED BY <2>1, <2>2
<1>12. Alone'
  <2>1. ASSUME NEW q \in Producers, Busy(q)
        PROVE  producer[q].content # Fresh
    <3>1. PICK i \in DOMAIN items : items[i] = Item(producer[q].off, producer[q].size, producer[q].content)
        BY <2>1 DEF Making
    <3>2. producer[q].content \in Contents
        BY <3>1 DEF Item, Contents
    <3> QED BY <3>2, <1>1
  <2> QED BY <2>1, <1>9, <1>10 DEF Alone, Busy
<1>13. Reading'
  <2>1. reader.pc = "holding" => 1 \in DOMAIN items
      BY Typed DEF Reading
  <2>2. 1 \in DOMAIN items => items' # <<>> /\ items'[1] = items[1]
      BY <1>1
  <2> QED BY <2>1, <2>2, <1>3, <1>4 DEF Reading, Committed
<1>14. Counted'
  <2>1. \A i \in DOMAIN items' : Committed(i)' <=> (i \in DOMAIN items /\ Committed(i))
    <3>1. ~Committed(L)'
        BY <1>1, <1>2 DEF Committed, Header
    <3> QED BY <3>1, <1>1, <1>2, <1>3 DEF Committed
  <2>2. Unreceived' = Unreceived
      BY <2>1, <1>1, <1>4 DEF Unreceived
  <2> QED BY <2>2, <1>4 DEF Counted, CountIsExact
<1> QED BY <1>6, <1>7, <1>8, <1>11, <1>12, <1>13, <1>14, GrantedShape

LEMMA RingNext ==
    ASSUME RingInv, [Next]_vars
    PROVE  RingInv'
<1>1. CASE UNCHANGED vars
    BY <1>1, WaitingKeeps DEF vars, Unmoved, RingInv, TypeOK
<1>2. CASE Receive
    BY <1>2, ReceiveKeeps
<1>3. CASE ReturnItem
    BY <1>3, ReturnKeeps
<1>4. CASE WakeReader
  <2>1. /\ Unmoved /\ UNCHANGED <<storage, items_waiting, producer>>
        /\ reader' \in [pc : {"idle", "awake", "asleep", "holding"}, off : Offsets]
        /\ reader'.pc # "holding" /\ reader.pc # "holding"
      BY <1>4 DEF WakeReader, Unmoved, RingInv, TypeOK
  <2> QED BY <2>1, WaitingKeeps DEF RingInv, TypeOK
<1>5. ASSUME NEW p \in Producers, NEW n \in Sizes, Granted(p, n)
      PROVE  RingInv'
    BY <1>5, GrantedKeeps, SizesAssumption
<1>6. ASSUME NEW p \in Producers, Write(p)
      PROVE  RingInv'
    BY <1>6, FillKeeps, CommitKeeps DEF Write
<1>7. ASSUME NEW p \in Producers, NEW n \in Sizes, Denied(p, n)
      PROVE  RingInv'
  <2>0. n \in Nat
      BY SizesAssumption
  <2> DEFINE W == [pc : {"idle", "awake", "asleep", "filling", "filled"}, size : Nat,
                   off : Nat, content : Payloads \union {None}]
  <2>1. Idle \in W /\ [Idle EXCEPT !.pc = "asleep", !.size = n] \in W
      BY <2>0 DEF Idle
  <2>2. \/ producer' = [producer EXCEPT ![p] = [Idle EXCEPT !.pc = "asleep", !.size = n]]
        \/ producer' = [producer EXCEPT ![p] = Idle]
      BY <1>7 DEF Denied
  <2>3. producer \in [Producers -> W]
      BY DEF RingInv, TypeOK
  <2>4. producer' \in [Producers -> W]
      BY <2>1, <2>2, <2>3
  <2>7. Idle.pc = "idle" /\ [Idle EXCEPT !.pc = "asleep", !.size = n].pc = "asleep"
      BY DEF Idle
  <2>8. PICK w \in W : producer' = [producer EXCEPT ![p] = w] /\ w.pc \in {"idle", "asleep"}
      BY <2>1, <2>2, <2>7
  <2>5. /\ \A q \in Producers : q # p => producer'[q] = producer[q]
        /\ producer'[p].pc \notin {"filling", "filled"}
      BY <2>8, <2>3
  <2>6. Unmoved /\ UNCHANGED <<storage, items_waiting, reader>>
      BY <1>7 DEF Denied, Unmoved
  <2> QED BY <2>4, <2>5, <2>6, WaitingKeeps DEF RingInv, TypeOK
<1>8. ASSUME NEW p \in Producers, WakeWriter(p)
      PROVE  RingInv'
  <2>1. /\ Unmoved /\ UNCHANGED <<storage, items_waiting, reader>>
        /\ \A q \in Producers : q # p => producer'[q] = producer[q]
        /\ producer'[p].pc \notin {"filling", "filled"}
        /\ producer' \in [Producers -> [pc : {"idle", "awake", "asleep", "filling", "filled"}, size : Nat,
                                        off : Nat, content : Payloads \union {None}]]
      BY <1>8 DEF WakeWriter, Unmoved, RingInv, TypeOK
  <2> QED BY <2>1, WaitingKeeps DEF RingInv, TypeOK
<1> QED BY <1>1, <1>2, <1>3, <1>4, <1>5, <1>6, <1>7, <1>8 DEF Next, Consumer, Attempt

LEMMA RingInit == Init => RingInv
<1> SUFFICES ASSUME Init PROVE RingInv
    OBVIOUS
<1>1. items = <<>> /\ DOMAIN items = {} /\ 0 \in Offsets /\ Size \in Nat
    BY SizeAssumption DEF Init, Offsets
<1>2. TypeOK
    BY <1>1 DEF Init, TypeOK, Cells, Flags, Header, Idle, NotReading
<1>3. Shape
    BY <1>1 DEF Init, Shape, Placed, Apart, Below, Linked, Front, Back, Space
<1>4. Kept /\ Distinct /\ Making /\ Alone /\ Reading
    BY <1>1 DEF Init, Kept, Distinct, Making, Alone, Reading, Busy, Idle, NotReading
<1>5. Counted
  <2>1. Unreceived = {}
      BY <1>1 DEF Unreceived
  <2> QED BY <2>1, FS_EmptySet DEF Counted, CountIsExact, Init
<1> QED BY <1>2, <1>3, <1>4, <1>5 DEF RingInv

LEMMA RingInvariant == Spec => []RingInv
    BY RingInit, RingNext, PTL DEF Spec

(* The types: TypeOK of SpscRing.                                             *)
THEOREM RingTypeOK == Spec => []TypeOK
    BY RingInvariant, PTL DEF RingInv

(* From its commit until it is given back an item stays in the array as it    *)
(* was written, whatever the producers and the fillers write around it        *)
(* (try_acquire() and commit(), spsc_ring_buffer.h).                          *)
THEOREM RingIntact == Spec => []Intact
<1>1. RingInv => Intact
    BY DEF RingInv, Kept, Intact, Committed, Holds
<1> QED BY <1>1, RingInvariant, PTL

(* items_waiting() is the number of committed items not yet received.         *)
THEOREM RingCountIsExact == Spec => []CountIsExact
<1>1. RingInv => CountIsExact
    BY DEF RingInv, Counted
<1> QED BY <1>1, RingInvariant, PTL

(* An empty ring takes every item of at most half its size.                   *)
THEOREM RingRoomWhenEmpty == Spec => []RoomWhenEmpty
<1>1. ASSUME RingInv, items = <<>>, NEW n \in Sizes, 2 * Total(n) <= Size
      PROVE  CanAcquire(n)
  <2>1. /\ n \in Nat /\ Size \in Nat /\ free_bytes = Size /\ write_offset \in Nat /\ write_offset < Size
        /\ Total(n) = n + 1
      BY <1>1, Typed, SizesAssumption, SizeAssumption DEF RingInv, Shape, Space, Offsets, Total
  <2> QED BY <2>1, <1>1 DEF CanAcquire, Fits, FitsBehindFiller, TailSpace
<1>2. RingInv => RoomWhenEmpty
    BY <1>1 DEF RoomWhenEmpty
<1> QED BY <1>2, RingInvariant, PTL

-----------------------------------------------------------------------------
(* Nobody sleeps through what he waits for.                                   *)

WriterAsleep == \A p \in Producers : producer[p].pc = "asleep" => ~CanAcquire(producer[p].size)
ReaderAsleep == reader.pc = "asleep" => ~(items # <<>> /\ Committed(1))
SleepInv == WriterAsleep /\ ReaderAsleep

(* An acquire makes no room for another.                                      *)
LEMMA GrantNoRoom ==
    ASSUME RingInv, NEW p \in Producers, NEW n \in Nat \ {0}, Granted(p, n), NEW k \in Nat, ~CanAcquire(k)
    PROVE  ~CanAcquire(k)'
<1>1. /\ Size \in Nat /\ free_bytes \in Nat /\ write_offset \in Nat /\ write_offset < Size
      /\ n \in Nat /\ k \in Nat
    BY Typed, SizeAssumption DEF RingInv, Offsets
<1>2. /\ write_offset' = Wrapped(Target(n) + (n + 1))
      /\ free_bytes' = free_bytes - Cost(n) /\ Size' = Size
    BY DEF Granted, Total
<1>3. /\ CanAcquire(k)' <=> /\ free_bytes' >= k + 1
                            /\ \/ write_offset' + (k + 1) <= Size
                               \/ free_bytes' >= (Size - write_offset') + (k + 1)
      /\ ~(/\ free_bytes >= k + 1
           /\ \/ write_offset + (k + 1) <= Size
              \/ free_bytes >= (Size - write_offset) + (k + 1))
    BY DEF CanAcquire, Fits, FitsBehindFiller, TailSpace, Total
<1>4. CASE Fits(n)
  <2>1. free_bytes' = free_bytes - (n + 1) /\ Target(n) = write_offset /\ write_offset + (n + 1) <= Size
      BY <1>2, <1>4 DEF Target, Cost, Total, Fits
  <2>2. CASE write_offset + (n + 1) >= Size
    <3>1. write_offset' = 0
        BY <2>1, <2>2, <1>2 DEF Wrapped
    <3> QED BY <3>1, <2>1, <2>2, <1>1, <1>3
  <2>3. CASE write_offset + (n + 1) < Size
    <3>1. write_offset' = write_offset + (n + 1)
        BY <2>1, <2>3, <1>1, <1>2 DEF Wrapped
    <3> QED BY <3>1, <2>1, <2>3, <1>1, <1>3
  <2> QED BY <2>2, <2>3, <1>1
<1>5. CASE ~Fits(n)
  <2>1. free_bytes' = free_bytes - ((Size - write_offset) + (n + 1)) /\ Target(n) = 0
      BY <1>2, <1>5 DEF Target, Cost, Total, TailSpace
  <2>2. CASE n + 1 >= Size
    <3>1. write_offset' = 0
        BY <2>1, <2>2, <1>1, <1>2 DEF Wrapped
    <3> QED BY <3>1, <2>1, <2>2, <1>1, <1>3
  <2>3. CASE n + 1 < Size
    <3>1. write_offset' = n + 1
        BY <2>1, <2>3, <1>1, <1>2 DEF Wrapped
    <3> QED BY <3>1, <2>1, <2>3, <1>1, <1>3
  <2> QED BY <2>2, <2>3, <1>1
<1> QED BY <1>4, <1>5

LEMMA SleepGranted ==
    ASSUME RingInv, SleepInv, NEW p \in Producers, NEW n \in Nat \ {0}, Granted(p, n)
    PROVE  SleepInv'
<1>1. /\ producer' = [producer EXCEPT ![p] = [pc |-> "filling", size |-> n, off |-> Target(n), content |-> Fresh]]
      /\ reader' = reader
    BY DEF Granted
<1>2. WriterAsleep'
  <2> SUFFICES ASSUME NEW q \in Producers, producer'[q].pc = "asleep"
               PROVE  ~CanAcquire(producer[q].size)' /\ producer'[q] = producer[q]
      BY DEF WriterAsleep, CanAcquire, Fits, FitsBehindFiller, TailSpace
  <2>1. producer'[q] = producer[q] /\ producer[q].size \in Nat
      BY <1>1 DEF RingInv, TypeOK
  <2>2. PICK k \in Nat : k = producer[q].size
      BY <2>1
  <2>3. ~CanAcquire(k)
      BY <2>1, <2>2 DEF SleepInv, WriterAsleep
  <2>4. ~CanAcquire(k)'
      BY <2>3, GrantNoRoom
  <2>5. producer'[q].size = k
      BY <2>1, <2>2
  <2> QED BY <2>1, <2>2, <2>4, <2>5 DEF CanAcquire, Fits, FitsBehindFiller, TailSpace
<1>3. ReaderAsleep'
  <2> SUFFICES ASSUME reader.pc = "asleep", storage'[items'[1].off].flag = "written"
               PROVE  FALSE
      BY <1>1 DEF ReaderAsleep, Committed
  <2>1. CASE items = <<>>
    <3>1. items'[1] = Item(Target(n), n, Fresh) /\ storage'[Target(n)] = Header("acquired", n)
        BY <2>1, GrantedStep
    <3> QED BY <3>1 DEF Item, Header
  <2>2. CASE items # <<>>
    <3>1. 1 \in DOMAIN items
        BY <2>2, Typed DEF RingInv
    <3>2. items'[1] = items[1] /\ storage'[items[1].off] = storage[items[1].off]
        BY <3>1, GrantedStep, GrantedOthers
    <3> QED BY <3>2, <2>2 DEF SleepInv, ReaderAsleep, Committed
  <2> QED BY <2>1, <2>2
<1> QED BY <1>2, <1>3 DEF SleepInv

LEMMA SleepNext ==
    ASSUME RingInv, SleepInv, [Next]_vars
    PROVE  SleepInv'
<1> USE DEF RingInv, TypeOK
<1>1. CASE UNCHANGED vars
    BY <1>1 DEF vars, SleepInv, WriterAsleep, ReaderAsleep, Committed, CanAcquire, Fits, FitsBehindFiller, TailSpace
<1>2. CASE Receive
  <2>1. UNCHANGED <<storage, write_offset, items>>
      BY <1>2 DEF Receive
  <2>2. WriterAsleep'
    <3>1. CASE AtFiller
        BY <1>2, <3>1 DEF Receive, NotifyWriters, WriterAsleep
    <3>2. CASE ~AtFiller
      <4>1. producer' = producer /\ free_bytes' = free_bytes
          BY <1>2, <3>2 DEF Receive, Skipped
      <4> QED BY <4>1, <2>1 DEF SleepInv, WriterAsleep, CanAcquire, Fits, FitsBehindFiller, TailSpace
    <3> QED BY <3>1, <3>2
  <2>3. ReaderAsleep'
    <3>1. CASE Finds
        BY <1>2, <3>1 DEF Receive, ReaderAsleep
    <3>2. CASE ~Finds
      <4>1. ~(items # <<>> /\ Committed(1))
          BY <3>2, FindsFirst
      <4> QED BY <4>1, <2>1 DEF ReaderAsleep, Committed
    <3> QED BY <3>1, <3>2
  <2> QED BY <2>2, <2>3 DEF SleepInv
<1>3. CASE ReturnItem
    BY <1>3 DEF ReturnItem, NotifyWriters, NotReading, SleepInv, WriterAsleep, ReaderAsleep
<1>4. CASE WakeReader
  <2>1. UNCHANGED <<write_offset, free_bytes, producer>> /\ reader'.pc = "awake"
      BY <1>4 DEF WakeReader
  <2> QED BY <2>1 DEF SleepInv, WriterAsleep, ReaderAsleep, CanAcquire, Fits, FitsBehindFiller, TailSpace
<1>5. ASSUME NEW p \in Producers, NEW n \in Sizes, Granted(p, n)
      PROVE  SleepInv'
    BY <1>5, SleepGranted, SizesAssumption
<1>6. ASSUME NEW p \in Producers, NEW n \in Sizes, Denied(p, n)
      PROVE  SleepInv'
  <2>1. UNCHANGED <<storage, write_offset, free_bytes, items, reader>> /\ ~CanAcquire(n)
      BY <1>6 DEF Denied
  <2>5. [Idle EXCEPT !.pc = "asleep", !.size = n].size = n /\ Idle.pc = "idle"
      BY DEF Idle
  <2>6. PICK w : producer' = [producer EXCEPT ![p] = w] /\ (w.size = n \/ w.pc = "idle")
      BY <1>6, <2>5 DEF Denied
  <2>2. \A q \in Producers : producer'[q] = producer[q] \/ producer'[q].pc # "asleep" \/ producer'[q].size = n
      BY <2>6
  <2>3. WriterAsleep'
      BY <2>1, <2>2 DEF SleepInv, WriterAsleep, CanAcquire, Fits, FitsBehindFiller, TailSpace
  <2>4. ReaderAsleep'
      BY <2>1 DEF SleepInv, ReaderAsleep, Committed
  <2> QED BY <2>3, <2>4 DEF SleepInv
<1>7. ASSUME NEW p \in Producers, WakeWriter(p) \/ Fill(p) \/ Commit(p)
      PROVE  SleepInv'
  <2>1. UNCHANGED <<write_offset, free_bytes, items>>
      BY <1>7 DEF WakeWriter, Fill, Commit
  <2>2. \A q \in Producers : producer'[q] = producer[q] \/ producer'[q].pc # "asleep"
      BY <1>7 DEF WakeWriter, Fill, Commit, Idle
  <2>3. WriterAsleep'
      BY <2>1, <2>2 DEF SleepInv, WriterAsleep, CanAcquire, Fits, FitsBehindFiller, TailSpace
  <2>4. ReaderAsleep'
    <3>1. CASE WakeWriter(p)
        BY <3>1, <2>1 DEF WakeWriter, SleepInv, ReaderAsleep, Committed
    <3>2. CASE Fill(p)
      <4> SUFFICES ASSUME reader.pc = "asleep", items # <<>>, storage'[items[1].off].flag = "written"
                   PROVE  storage[items[1].off].flag = "written"
          BY <3>2, <2>1 DEF Fill, SleepInv, ReaderAsleep, Committed
      <4>1. items[1].off \in Offsets
          BY Typed
      <4> QED BY <3>2, <4>1 DEF Fill, Payload
    <3>3. CASE Commit(p)
        BY <3>3 DEF Commit, NotifyReader, ReaderAsleep
    <3> QED BY <1>7, <3>1, <3>2, <3>3
  <2> QED BY <2>3, <2>4 DEF SleepInv
<1> QED BY <1>1, <1>2, <1>3, <1>4, <1>5, <1>6, <1>7 DEF Next, Consumer, Attempt, Write

(* A thread asleep in acquire() or in receive() has nothing to get: every     *)
(* return, skipped filler and commit notifies those it concerns.              *)
THEOREM RingNoLostWakeup == Spec => []NoLostWakeup
<1>1. Init => SleepInv
    BY DEF Init, SleepInv, WriterAsleep, ReaderAsleep, Idle, NotReading
<1>2. RingInv /\ SleepInv => NoLostWakeup
    BY FindsFirst DEF SleepInv, WriterAsleep, ReaderAsleep, NoLostWakeup
<1>3. RingInv /\ SleepInv /\ [Next]_vars => SleepInv'
    BY SleepNext
<1> QED BY <1>1, <1>2, <1>3, RingInvariant, PTL DEF Spec

-----------------------------------------------------------------------------
(* The ring implements the queue of loans.                                    *)

Queue == [i \in DOMAIN items |-> items[i].content]
Ready == {items[i].content : i \in {j \in DOMAIN items : Committed(j)}}
Loan == IF reader.pc = "holding" THEN storage[reader.off + 1].content ELSE None
Lent == IF reader.pc = "holding" THEN items[1].content ELSE None

(* What the consumer reads in the array is the oldest item.                   *)
LEMMA LoanIsFirst ==
    ASSUME RingInv, RingInv'
    PROVE  Loan = Lent /\ Loan' = Lent'
<1>1. ASSUME reader.pc = "holding"
      PROVE  storage[reader.off + 1].content = items[1].content
  <2>1. /\ 1 \in DOMAIN items /\ reader.off = items[1].off /\ Committed(1)
        /\ items[1].off \in Nat /\ items[1].size \in Nat \ {0}
      BY <1>1, Typed DEF RingInv, Reading
  <2>2. Holds(1) /\ items[1].off + 1 \in items[1].off + 1 .. items[1].off + items[1].size
      BY <2>1 DEF RingInv, Kept
  <2> QED BY <2>1, <2>2 DEF Holds, Payload
<1>2. ASSUME reader'.pc = "holding"
      PROVE  storage'[reader'.off + 1].content = items'[1].content
  <2>1. items' \in Seq(ItemType) /\ items' # <<>> /\ reader'.off = items'[1].off /\ Committed(1)'
      BY <1>2 DEF RingInv, Reading, TypeOK, ItemType
  <2>2. 1 \in DOMAIN items' /\ items'[1] \in ItemType
      BY <2>1
  <2>3. items'[1].off \in Nat /\ items'[1].size \in Nat \ {0}
      BY <2>2, SizeAssumption DEF ItemType, Offsets
  <2>4. Holds(1)' /\ items'[1].off + 1 \in items'[1].off + 1 .. items'[1].off + items'[1].size
      BY <2>1, <2>2, <2>3 DEF RingInv, Kept
  <2> QED BY <2>1, <2>4 DEF Holds, Payload
<1> QED BY <1>1, <1>2 DEF Loan, Lent

(* The contents of a sequence of items are a sequence of payloads.            *)
LEMMA ContentsSeq ==
    ASSUME NEW s \in Seq(ItemType), NEW q, q = [i \in DOMAIN s |-> s[i].content]
    PROVE  q \in Seq(Payloads) /\ Len(q) = Len(s) /\ \A i \in 1 .. Len(s) : q[i] = s[i].content
<1>1. DOMAIN s = 1 .. Len(s) /\ Len(s) \in Nat /\ \A i \in DOMAIN s : s[i] \in ItemType
    BY LenProperties, ElementOfSeq
<1>2. q \in [1 .. Len(s) -> Payloads]
    BY <1>1 DEF ItemType
<1> QED BY <1>1, <1>2

(* The queue is a sequence of payloads, the oldest first.                     *)
LEMMA QueueTyped ==
    ASSUME TypeOK
    PROVE  /\ Queue \in Seq(Payloads) /\ Len(Queue) = Len(items) /\ DOMAIN Queue = DOMAIN items
           /\ {Queue[i] : i \in DOMAIN Queue} = Contents
           /\ items # <<>> => Queue # <<>> /\ Head(Queue) = items[1].content
<1>1. /\ DOMAIN items = 1 .. Len(items) /\ Len(items) \in Nat /\ (items = <<>> <=> Len(items) = 0)
      /\ \A i \in DOMAIN items : items[i].content \in Payloads
    BY Typed
<1>2. Queue \in [1 .. Len(items) -> Payloads]
    BY <1>1 DEF Queue
<1>3. Queue \in Seq(Payloads) /\ Len(Queue) = Len(items) /\ DOMAIN Queue = DOMAIN items
    BY <1>1, <1>2
<1>4. {Queue[i] : i \in DOMAIN Queue} = Contents
    BY <1>3 DEF Queue, Contents
<1>5. ASSUME items # <<>>
      PROVE  Queue # <<>> /\ Head(Queue) = items[1].content
  <2>1. Len(Queue) > 0 /\ 1 \in DOMAIN items
      BY <1>1, <1>3, <1>5
  <2>2. Queue # <<>> /\ Head(Queue) = Queue[1]
      BY <1>3, <2>1
  <2> QED BY <2>1, <2>2 DEF Queue
<1> QED BY <1>3, <1>4, <1>5

LEMMA FifoGranted ==
    ASSUME RingInv, RingInv', NEW p \in Producers, NEW n \in Nat \ {0}, Granted(p, n)
    PROVE  Fifo!Reserve(Fresh) /\ Fresh \in Payloads
<1>1. /\ Fresh \in Payloads /\ Fresh \notin Contents
      /\ DOMAIN items' = 1 .. Len(items) + 1 /\ Len(items) \in Nat
      /\ DOMAIN items = 1 .. Len(items)
      /\ \A i \in DOMAIN items : items'[i] = items[i] /\ i \in DOMAIN items'
      /\ items'[Len(items) + 1] = Item(Target(n), n, Fresh) /\ storage'[Target(n)] = Header("acquired", n)
    BY GrantedStep
<1>2. Queue' = Append(Queue, Fresh)
  <2>1. Queue \in Seq(Payloads) /\ Len(Queue) = Len(items) /\ \A i \in 1 .. Len(items) : Queue[i] = items[i].content
      BY <1>1, QueueTyped DEF RingInv, Queue
  <2>2. /\ Queue' \in Seq(Payloads) /\ Len(Queue') = Len(items')
        /\ \A i \in 1 .. Len(items') : Queue'[i] = items'[i].content
    <3>1. items' \in Seq(ItemType) /\ Queue' = [i \in DOMAIN items' |-> items'[i].content]
        BY DEF RingInv, TypeOK, ItemType, Queue
    <3> QED BY <3>1, ContentsSeq
  <2>3. /\ Append(Queue, Fresh) \in Seq(Payloads) /\ Len(Append(Queue, Fresh)) = Len(items) + 1
        /\ \A i \in 1 .. Len(items) : Append(Queue, Fresh)[i] = Queue[i]
        /\ Append(Queue, Fresh)[Len(items) + 1] = Fresh
      BY <2>1, <1>1
  <2>4. Len(items') = Len(items) + 1
      BY GrantedStep
  <2>5. \A i \in 1 .. Len(items) + 1 : Queue'[i] = Append(Queue, Fresh)[i]
    <3>1. \A i \in 1 .. Len(items) : Queue'[i] = Append(Queue, Fresh)[i]
        BY <1>1, <2>1, <2>2, <2>3, <2>4
    <3>2. Queue'[Len(items) + 1] = Fresh
        BY <1>1, <2>2, <2>4 DEF Item
    <3>3. \A i \in 1 .. Len(items) + 1 : i \in 1 .. Len(items) \/ i = Len(items) + 1
        BY <1>1
    <3> QED BY <3>1, <3>2, <3>3, <2>3
  <2> QED BY <2>2, <2>3, <2>4, <2>5, SeqEqual
<1>3. Ready' = Ready
  <2>1. \A i \in DOMAIN items : Committed(i)' <=> Committed(i)
      BY <1>1, GrantedOthers DEF Committed
  <2>2. PICK L \in Nat : L = Len(items) + 1
      BY <1>1
  <2>3. ~Committed(L)'
    <3>1. storage'[items'[L].off].flag = "acquired"
        BY <2>2, <1>1 DEF Item, Header
    <3> QED BY <3>1 DEF Committed
  <2>4. \A i \in DOMAIN items' : i \in DOMAIN items \/ i = L
      BY <2>2, <1>1
  <2> QED BY <2>1, <2>3, <2>4, <1>1 DEF Ready
<1>4. Lent' = Lent
  <2>1. reader.pc = "holding" => 1 \in DOMAIN items
      BY Typed DEF RingInv, Reading
  <2> QED BY <2>1, <1>1 DEF Lent, Granted
<1>5. Loan' = Loan
    BY <1>4, LoanIsFirst
<1>6. {Queue[i] : i \in DOMAIN Queue} = Contents
    BY QueueTyped DEF RingInv
<1> QED BY <1>1, <1>2, <1>3, <1>5, <1>6 DEF Fifo!Reserve, Fifo!Queued, Queue, Ready, Loan

LEMMA FifoCommit ==
    ASSUME RingInv, RingInv', NEW p \in Producers, Commit(p)
    PROVE  Fifo!Publish(producer[p].content) /\ producer[p].content \in Payloads
<1>1. PICK i \in DOMAIN items :
          /\ items[i] = Item(producer[p].off, producer[p].size, producer[p].content)
          /\ storage[items[i].off].flag = "acquired"
    BY DEF RingInv, Making, Busy, Commit
<1>2. /\ items[i].off = producer[p].off /\ items[i].content = producer[p].content
      /\ items[i].content \in Payloads /\ items' = items
    BY <1>1, Typed DEF Item, RingInv, Commit
<1>3. storage' = [storage EXCEPT ![items[i].off].flag = "written"] /\ storage \in [Offsets -> Cells]
      /\ items[i].off \in Offsets
    BY <1>2, Typed DEF Commit, RingInv, TypeOK
<1>4. ASSUME NEW j \in DOMAIN items
      PROVE  Committed(j)' <=> (Committed(j) \/ j = i)
  <2>1. items[j].off \in Offsets
      BY Typed DEF RingInv
  <2>2. CASE j = i
      BY <2>2, <1>2, <1>3 DEF Committed, Cells
  <2>3. CASE j # i
    <3>1. items[j].off # items[i].off
      <4>1. End(i) <= items[j].off \/ End(j) <= items[i].off
          BY <2>3, Disjoint DEF RingInv, Shape
      <4>2. /\ items[i].off \in Nat /\ items[j].off \in Nat /\ End(i) \in Nat /\ End(j) \in Nat
            /\ items[i].off < End(i) /\ items[j].off < End(j)
          BY Typed DEF RingInv
      <4> QED BY <4>1, <4>2
    <3> QED BY <3>1, <2>1, <2>3, <1>2, <1>3 DEF Committed
  <2> QED BY <2>2, <2>3
<1>5. ~Committed(i)
    BY <1>1 DEF Committed
<1>6. Ready' = Ready \union {producer[p].content} /\ Queue' = Queue
    BY <1>2, <1>4 DEF Ready, Queue
<1>7. producer[p].content \in Contents \ Ready
    BY <1>2, <1>5 DEF Contents, Ready, RingInv, Distinct
<1>8. Lent' = Lent
    BY <1>2 DEF Lent, Commit, NotifyReader, RingInv, TypeOK
<1>9. Loan' = Loan
    BY <1>8, LoanIsFirst
<1>10. {Queue[k] : k \in DOMAIN Queue} = Contents
    BY QueueTyped DEF RingInv
<1> QED BY <1>2, <1>6, <1>7, <1>9, <1>10 DEF Fifo!Publish, Fifo!Queued, Queue, Ready, Loan

LEMMA FifoReceive ==
    ASSUME RingInv, RingInv', Receive
    PROVE  Fifo!Lend \/ UNCHANGED <<Queue, Ready, Loan>>
<1>1. items' = items /\ storage' = storage /\ reader.pc # "holding"
    BY DEF Receive
<1>2. Queue' = Queue /\ Ready' = Ready
    BY <1>1 DEF Queue, Ready, Committed
<1>3. Lent = None
    BY <1>1 DEF Lent
<1>4. CASE Finds
  <2>1. reader'.pc = "holding" /\ items # <<>> /\ Committed(1)
      BY <1>4, FindsFirst DEF Receive
  <2>2. Lent' = items[1].content /\ items[1].content \in Ready
    <3>1. 1 \in DOMAIN items
        BY <2>1, Typed DEF RingInv
    <3> QED BY <2>1, <3>1, <1>1 DEF Lent, Ready
  <2>3. Queue # <<>> /\ Head(Queue) = items[1].content
      BY <2>1, QueueTyped DEF RingInv
  <2>4. Loan = None /\ Loan' = Head(Queue)
      BY <2>2, <2>3, <1>3, LoanIsFirst
  <2> QED BY <1>2, <2>2, <2>3, <2>4 DEF Fifo!Lend, Queue, Ready, Loan
<1>5. CASE ~Finds
  <2>1. reader'.pc # "holding"
      BY <1>5 DEF Receive, RingInv, TypeOK
  <2>2. Lent' = Lent
      BY <2>1, <1>3 DEF Lent
  <2>3. Loan' = Loan
      BY <2>2, LoanIsFirst
  <2> QED BY <1>2, <2>3
<1> QED BY <1>4, <1>5

LEMMA FifoReturn ==
    ASSUME RingInv, RingInv', ReturnItem
    PROVE  Fifo!Return
<1>1. /\ reader.pc = "holding" /\ items # <<>> /\ Committed(1) /\ 1 \in DOMAIN items /\ items' = Tail(items)
      /\ storage' = [storage EXCEPT ![items[1].off].flag = "free"] /\ storage \in [Offsets -> Cells]
      /\ reader'.pc = "idle" /\ items \in Seq(ItemType)
  <2>1. /\ reader.pc = "holding" /\ items # <<>> /\ Committed(1) /\ reader.off = items[1].off
      BY DEF ReturnItem, RingInv, Reading
  <2>2. 1 \in DOMAIN items /\ items \in Seq(ItemType) /\ storage \in [Offsets -> Cells]
      BY <2>1, Typed DEF RingInv, TypeOK
  <2>3. items' = Tail(items) /\ storage' = [storage EXCEPT ![items[1].off].flag = "free"] /\ reader'.pc = "idle"
      BY <2>1 DEF ReturnItem, NotReading
  <2> QED BY <2>1, <2>2, <2>3
<1>2. /\ DOMAIN items = 1 .. Len(items) /\ Len(items) \in Nat
      /\ \A k \in DOMAIN items' : k + 1 \in DOMAIN items /\ items'[k] = items[k + 1]
      /\ \A k \in DOMAIN items : k > 1 => k - 1 \in DOMAIN items' /\ items'[k - 1] = items[k]
    BY ReturnShape, Typed DEF RingInv
<1>3. Queue \in Seq(Payloads) /\ Queue # <<>> /\ Head(Queue) = items[1].content /\ Len(Queue) = Len(items)
    BY <1>1, QueueTyped DEF RingInv
<1>4. Queue' = Tail(Queue)
  <2>1. DOMAIN items' = 1 .. Len(items) - 1
      BY <1>1, <1>2
  <2>2. /\ Queue' \in Seq(Payloads) /\ Len(Queue') = Len(items')
        /\ \A i \in 1 .. Len(items') : Queue'[i] = items'[i].content
    <3>1. items' \in Seq(ItemType) /\ Queue' = [i \in DOMAIN items' |-> items'[i].content]
        BY DEF RingInv, TypeOK, ItemType, Queue
    <3> QED BY <3>1, ContentsSeq
  <2>3. /\ Tail(Queue) \in Seq(Payloads) /\ Len(Tail(Queue)) = Len(items) - 1
        /\ \A k \in 1 .. Len(items) - 1 : Tail(Queue)[k] = Queue[k + 1]
      BY <1>3, HeadTailProperties
  <2>4. \A k \in 1 .. Len(items) - 1 : k + 1 \in DOMAIN items /\ Queue[k + 1] = items[k + 1].content
      BY <1>2 DEF Queue
  <2>5. Len(items') = Len(items) - 1
      BY ReturnShape
  <2>6. \A k \in 1 .. Len(items) - 1 : Queue'[k] = Tail(Queue)[k]
      BY <1>2, <2>1, <2>2, <2>3, <2>4, <2>5
  <2> QED BY <2>2, <2>3, <2>5, <2>6, SeqEqual
<1>5. \A k \in DOMAIN items' : Committed(k)' <=> Committed(k + 1)
  <2> SUFFICES ASSUME NEW k \in DOMAIN items'
               PROVE  storage'[items[k + 1].off] = storage[items[k + 1].off]
      BY <1>2 DEF Committed
  <2>1. k + 1 \in DOMAIN items /\ items'[k] = items[k + 1] /\ items[k + 1].off \in Offsets /\ items[1].off \in Offsets
      BY <1>1, <1>2, Typed DEF RingInv
  <2>2. storage'[items[k + 1].off].flag \in {"acquired", "written"}
      BY <2>1 DEF RingInv, Kept
  <2>3. items[k + 1].off # items[1].off
      BY <2>1, <2>2, <1>1 DEF Cells
  <2> QED BY <2>1, <2>3, <1>1
<1>6. Ready' = Ready \ {items[1].content}
  <2>1. \A x : x \in Ready' => x \in Ready /\ x # items[1].content
    <3> SUFFICES ASSUME NEW k \in DOMAIN items', Committed(k)'
                 PROVE  items'[k].content \in Ready /\ items'[k].content # items[1].content
        BY DEF Ready
    <3>1. k + 1 \in DOMAIN items /\ items'[k] = items[k + 1] /\ Committed(k + 1) /\ k + 1 # 1
      <4>1. k + 1 \in DOMAIN items /\ items'[k] = items[k + 1] /\ Committed(k + 1)
          BY <1>2, <1>5
      <4>2. k \in Nat /\ k # 0
        <5>1. DOMAIN items' = 1 .. Len(items) - 1
            BY <1>1, <1>2
        <5> QED BY <5>1
      <4> QED BY <4>1, <4>2
    <3> QED BY <3>1, <1>1 DEF Ready, RingInv, Distinct
  <2>2. \A x : x \in Ready /\ x # items[1].content => x \in Ready'
    <3> SUFFICES ASSUME NEW j \in DOMAIN items, Committed(j), items[j].content # items[1].content
                 PROVE  items[j].content \in Ready'
        BY DEF Ready
    <3>1. j \in Nat /\ j > 1
        BY <1>2
    <3>2. PICK k \in DOMAIN items' : k = j - 1 /\ items'[k] = items[j]
        BY <1>2, <3>1
    <3>3. k + 1 = j
        BY <3>1, <3>2
    <3>4. Committed(k)'
        BY <3>2, <3>3, <1>5
    <3> QED BY <3>2, <3>4 DEF Ready
  <2> QED BY <2>1, <2>2
<1>7. Loan = items[1].content /\ Loan' = None /\ items[1].content \in Payloads
  <2>1. Lent = items[1].content /\ Lent' = None
      BY <1>1 DEF Lent
  <2> QED BY <2>1, <1>1, LoanIsFirst, Typed DEF RingInv
<1>8. Loan # None
    BY <1>7, NoneAssumption
<1> QED BY <1>3, <1>4, <1>6, <1>7, <1>8 DEF Fifo!Return, Queue, Ready, Loan

LEMMA FifoOthers ==
    ASSUME RingInv, RingInv', UNCHANGED items, reader'.pc = "holding" <=> reader.pc = "holding",
           \A o \in Offsets : storage'[o].flag = "payload" \/ storage'[o] = storage[o]
    PROVE  UNCHANGED <<Queue, Ready, Loan>>
<1>1. \A j \in DOMAIN items : items[j].off \in Offsets /\ storage'[items[j].off].flag \in {"acquired", "written"}
    BY Typed DEF RingInv, Kept
<1>2. \A j \in DOMAIN items : Committed(j)' <=> Committed(j)
    BY <1>1 DEF Committed
<1>3. Lent' = Lent
    BY DEF Lent
<1> QED BY <1>2, <1>3, LoanIsFirst DEF Queue, Ready

(* The ring buffer is a queue of loans: the items come out, one at a time, in *)
(* the order in which acquire() gave their space, each only once committed    *)
(* and as it was written.                                                     *)
THEOREM RingImplementsFifo == Spec => ImplementsFifo
<1>1. Init => Fifo!FifoInit
  <2> SUFFICES ASSUME Init PROVE Fifo!FifoInit
      OBVIOUS
  <2>1. items = <<>> /\ DOMAIN items = {} /\ reader.pc = "idle"
      BY DEF Init, NotReading
  <2>2. [i \in DOMAIN items |-> items[i].content] = <<>>
      BY <2>1
  <2> QED BY <2>1, <2>2 DEF Fifo!FifoInit
<1>2. ASSUME RingInv, RingInv', [Next]_vars
      PROVE  Fifo!FifoNext \/ UNCHANGED <<Queue, Ready, Loan>>
  <2>1. CASE UNCHANGED vars
      BY <2>1 DEF vars, Queue, Ready, Loan, Committed
  <2>2. CASE Receive
      BY <1>2, <2>2, FifoReceive DEF Fifo!FifoNext
  <2>3. CASE ReturnItem
      BY <1>2, <2>3, FifoReturn DEF Fifo!FifoNext
  <2>4. CASE WakeReader
      BY <1>2, <2>4, FifoOthers DEF WakeReader, RingInv, TypeOK
  <2>5. ASSUME NEW p \in Producers, NEW n \in Sizes, Granted(p, n)
        PROVE  Fifo!FifoNext
    <3>1. Fifo!Reserve(Fresh) /\ Fresh \in Payloads
        BY <1>2, <2>5, FifoGranted, SizesAssumption
    <3>2. PICK x \in Payloads : x = Fresh
        BY <3>1
    <3>3. Fifo!Reserve(x)
        BY <3>1, <3>2 DEF Fifo!Reserve
    <3> QED BY <3>3 DEF Fifo!FifoNext
  <2>6. ASSUME NEW p \in Producers, Commit(p)
        PROVE  Fifo!FifoNext
    <3>1. Fifo!Publish(producer[p].content) /\ producer[p].content \in Payloads
        BY <1>2, <2>6, FifoCommit
    <3>2. PICK x \in Payloads : x = producer[p].content
        BY <3>1
    <3>3. Fifo!Publish(x)
        BY <3>1, <3>2 DEF Fifo!Publish
    <3> QED BY <3>3 DEF Fifo!FifoNext
  <2>7. ASSUME NEW p \in Producers, Fill(p)
        PROVE  UNCHANGED <<Queue, Ready, Loan>>
    <3>1. \A o \in Offsets : storage'[o].flag = "payload" \/ storage'[o] = storage[o]
        BY <2>7 DEF Fill, Payload
    <3> QED BY <1>2, <2>7, <3>1, FifoOthers DEF Fill
  <2>8. ASSUME NEW p \in Producers, NEW n \in Sizes, Denied(p, n)
        PROVE  UNCHANGED <<Queue, Ready, Loan>>
      BY <1>2, <2>8, FifoOthers DEF Denied
  <2>9. ASSUME NEW p \in Producers, WakeWriter(p)
        PROVE  UNCHANGED <<Queue, Ready, Loan>>
      BY <1>2, <2>9, FifoOthers DEF WakeWriter
  <2> QED BY <1>2, <2>1, <2>2, <2>3, <2>4, <2>5, <2>6, <2>7, <2>8, <2>9 DEF Next, Consumer, Attempt, Write
<1>3. RingInv /\ RingInv' /\ [Next]_vars => [Fifo!FifoNext]_(Fifo!fifoVars)
    BY <1>2 DEF Fifo!fifoVars, Queue, Ready, Loan
<1> QED BY <1>1, <1>3, RingInvariant, PTL DEF Spec, ImplementsFifo, Fifo!FifoSpec
=============================================================================
