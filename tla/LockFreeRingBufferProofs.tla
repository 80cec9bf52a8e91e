---------------------- MODULE LockFreeRingBufferProofs ----------------------
(***************************************************************************)
(* Proofs about the ring for any capacity above one, any producers and     *)
(* positions without a bound.  The lemmas about steps allow any number of  *)
(* consumer threads that take turns, so that the logger can use them; the  *)
(* theorems are about the ring by itself, with one consumer.               *)
(***************************************************************************)
EXTENDS LockFreeRingBuffer, SequenceTheorems, TLAPS

(* Two slots at least: with one, "published" and "free" look the same.      *)
TwoSlots       == Capacity > 1
SingleConsumer == \A c, d \in Consumers : c = d

Writing(p) == pc[p] \in {"write", "publish"}
Window     == Released .. Released + Capacity - 1

(* Positions are claimed at most one lap ahead of those given back.         *)
CountInv == Released <= write_pos_ /\ write_pos_ <= Released + Capacity

(* What the sequence numbers say, of the positions that own a slot now and  *)
(* of those that have owned one.                                            *)
SlotInv ==
    /\ \A k \in Window :
        seq[Slot(k)] = IF k < write_pos_ /\ \A p \in Producers : Writing(p) => pos[p] # k
                       THEN k + 1 ELSE k
    /\ \A k \in 0 .. Released + Capacity - 1 : seq[Slot(k)] >= k

(* A published slot holds an event, until it has been moved away; no other  *)
(* slot does.                                                               *)
DataInv ==
    /\ \A k \in Released .. write_pos_ - 1 :
        \/ \E p \in Producers : pc[p] = "write" /\ pos[p] = k
        \/ \E c \in Consumers : pc[c] = "free" /\ pos[c] = k
        \/ data[Slot(k)] \in Events
    /\ \A s \in 0 .. Capacity - 1 : data[s] # NoEvent =>
        \E k \in Released .. write_pos_ - 1 : Slot(k) = s

(* A claim that has seen its slot free; positions belong to one producer.   *)
ProducerInv ==
    /\ \A p \in Producers :
        /\ pc[p] \in {"idle", "check", "reload", "claim", "refused", "write", "publish"}
        /\ pc[p] \in {"check", "reload", "claim", "refused", "write"} => item[p] \in Events
        /\ pc[p] = "claim" => seq[Slot(pos[p])] >= pos[p]
        /\ Writing(p) => pos[p] \in Released .. write_pos_ - 1
    /\ \A p, q \in Producers : Writing(p) /\ Writing(q) /\ pos[p] = pos[q] => p = q

ConsumerInv ==
    /\ \A c \in Consumers :
        /\ pc[c] \in {"idle", "look", "move", "free", "advance", "popped"}
        /\ pc[c] \in {"look", "move", "free", "advance"} => pos[c] = read_pos_
        /\ pc[c] \in {"move", "free"} =>
               read_pos_ < write_pos_ /\ seq[Slot(read_pos_)] = read_pos_ + 1
        /\ pc[c] = "free" => data[Slot(read_pos_)] = NoEvent
        /\ pc[c] \in {"free", "advance", "popped"} => item[c] \in Events
        /\ pc[c] = "popped" => pos[c] + 1 = read_pos_
    /\ \A c, d \in Consumers : pc[c] # "idle" /\ pc[d] # "idle" => c = d

RingInv == RingTypeOK /\ CountInv /\ SlotInv /\ DataInv /\ ProducerInv /\ ConsumerInv

-----------------------------------------------------------------------------
(* Slots are positions modulo the capacity: positions less than a lap apart *)
(* have different ones, positions a lap apart the same one.                 *)
LEMMA Division ==
    \A k \in Nat : /\ k = Capacity * (k \div Capacity) + (k % Capacity)
                   /\ k \div Capacity \in Nat /\ k % Capacity \in 0 .. Capacity - 1
BY CapacityAssumption

LEMMA Multiples ==
    \A q \in Int : /\ q >= 1 => Capacity * q >= Capacity
                   /\ q <= 0 => Capacity * q <= 0
                   /\ q <= -1 => Capacity * q <= -Capacity
BY CapacityAssumption

LEMMA SlotIsSlot == \A k \in Nat : Slot(k) \in 0 .. Capacity - 1
BY Division DEF Slot

LEMMA SlotsDiffer ==
    \A a, b \in Nat : a < b /\ b < a + Capacity => Slot(a) # Slot(b)
<1> SUFFICES ASSUME NEW a \in Nat, NEW b \in Nat, a < b, b < a + Capacity,
                    a % Capacity = b % Capacity
             PROVE  FALSE
  BY DEF Slot
<1> DEFINE q == b \div Capacity - a \div Capacity
<1>1. b - a = Capacity * (b \div Capacity) - Capacity * (a \div Capacity)
  BY CapacityAssumption, Division
<1>2. q \in Int
      /\ Capacity * q = Capacity * (b \div Capacity) - Capacity * (a \div Capacity)
  BY CapacityAssumption, Division
<1>3. q < 1
  BY <1>1, <1>2, Multiples, CapacityAssumption
<1>4. Capacity * q <= 0
  BY <1>2, <1>3, Multiples
<1>5. QED
  BY <1>1, <1>2, <1>4, CapacityAssumption

LEMMA NextLapSlot == \A k \in Nat : Slot(k + Capacity) = Slot(k)
<1> TAKE k \in Nat
<1> DEFINE n == k + Capacity
           q == n \div Capacity - k \div Capacity - 1
<1>1. n \in Nat
  BY CapacityAssumption
<1>2. /\ k = Capacity * (k \div Capacity) + (k % Capacity)
      /\ k \div Capacity \in Nat /\ k % Capacity \in 0 .. Capacity - 1
      /\ n = Capacity * (n \div Capacity) + (n % Capacity)
      /\ n \div Capacity \in Nat /\ n % Capacity \in 0 .. Capacity - 1
  BY <1>1, Division
<1>3. q \in Int
      /\ Capacity * q = Capacity * (n \div Capacity) - Capacity * (k \div Capacity) - Capacity
  BY <1>2, CapacityAssumption
<1>4. Capacity * q = (k % Capacity) - (n % Capacity)
  BY <1>2, <1>3, CapacityAssumption
<1>5. q = 0
  BY <1>2, <1>3, <1>4, Multiples, CapacityAssumption
<1>6. QED
  BY <1>2, <1>4, <1>5, CapacityAssumption DEF Slot

-----------------------------------------------------------------------------
LEMMA ReleasedType ==
    ASSUME RingTypeOK
    PROVE  /\ Released \in Nat /\ write_pos_ \in Nat /\ read_pos_ \in Nat
           /\ Capacity \in Nat /\ Capacity > 0
           /\ Released = read_pos_ \/ Released = read_pos_ + 1
           /\ \A t \in Threads : pos[t] \in Nat /\ Slot(pos[t]) \in 0 .. Capacity - 1
           /\ seq \in [0 .. Capacity - 1 -> Nat]
<1>1. \A t \in Threads : pos[t] \in Nat
  BY DEF RingTypeOK
<1>2. \A t \in Threads : Slot(pos[t]) \in 0 .. Capacity - 1
  BY <1>1, SlotIsSlot
<1>3. write_pos_ \in Nat /\ read_pos_ \in Nat
  BY DEF RingTypeOK
<1>4. /\ Released = read_pos_ \/ Released = read_pos_ + 1
      /\ Released \in Nat
  <2>1. CASE \E c \in Consumers : pc[c] = "advance"
    BY <1>3, <2>1 DEF Released
  <2>2. CASE ~ \E c \in Consumers : pc[c] = "advance"
    BY <1>3, <2>2 DEF Released
  <2>3. QED
    BY <2>1, <2>2
<1>5. QED
  BY <1>1, <1>2, <1>3, <1>4, CapacityAssumption DEF RingTypeOK

LEMMA WindowSlots ==
    ASSUME RingTypeOK
    PROVE  /\ \A a \in Window : a \in Nat /\ Slot(a) \in 0 .. Capacity - 1
           /\ \A a, b \in Window : a # b => Slot(a) # Slot(b)
<1>1. Released \in Nat /\ Capacity \in Nat
  BY ReleasedType
<1>2. \A a \in Window : a \in Nat /\ a < Released + Capacity /\ Released <= a
  BY <1>1 DEF Window
<1>3. \A a \in Window : Slot(a) \in 0 .. Capacity - 1
  BY <1>2, SlotIsSlot
<1>4. ASSUME NEW a \in Window, NEW b \in Window, a # b PROVE Slot(a) # Slot(b)
  <2>1. CASE a < b
    BY <1>1, <1>2, <2>1, SlotsDiffer
  <2>2. CASE b < a
    BY <1>1, <1>2, <2>2, SlotsDiffer
  <2>3. QED
    BY <1>2, <1>4, <2>1, <2>2
<1>5. QED
  BY <1>2, <1>3, <1>4

(* What a thread other than t does not see of a step of t.                  *)
LEMMA OtherThreads ==
    ASSUME NEW t \in Threads, NEW l, RingTypeOK, Goto(t, l)
    PROVE  /\ pc'[t] = l
           /\ \A u \in Threads : u # t => pc'[u] = pc[u]
BY DEF Goto, RingTypeOK

LEMMA TwoKinds ==
    /\ \A p \in Producers : p \in Threads /\ p \notin Consumers
    /\ \A c \in Consumers : c \in Threads /\ c \notin Producers
BY ThreadsAssumption DEF Threads

LEMMA RingInitInv == RingInit => RingInv
<1> SUFFICES ASSUME RingInit PROVE RingInv
  OBVIOUS
<1>1. RingTypeOK
  BY CapacityAssumption DEF RingInit, RingTypeOK
<1>2. Released = 0
  BY DEF RingInit, Released, Threads
<1>3. \A k \in 0 .. Capacity - 1 : Slot(k) = k
  BY CapacityAssumption DEF Slot
<1>4. CountInv
  BY <1>2, CapacityAssumption DEF RingInit, CountInv
<1>5. SlotInv
  BY <1>2, <1>3, CapacityAssumption DEF RingInit, SlotInv, Window
<1>6. DataInv
  BY <1>2 DEF RingInit, DataInv
<1>7. ProducerInv
  BY DEF RingInit, ProducerInv, Writing, Threads
<1>8. ConsumerInv
  BY DEF RingInit, ConsumerInv, Threads
<1>9. QED
  BY <1>1, <1>4, <1>5, <1>6, <1>7, <1>8 DEF RingInv

-----------------------------------------------------------------------------
(* The consumer that has found an event is at the oldest position, which    *)
(* has been published.                                                      *)
LEMMA ConsumerAtOldest ==
    ASSUME RingTypeOK, CountInv, ConsumerInv, NEW c \in Consumers, pc[c] \in {"move", "free"}
    PROVE  /\ Released = read_pos_ /\ pos[c] = read_pos_ /\ read_pos_ \in Nat
           /\ read_pos_ < write_pos_ /\ read_pos_ \in Window
           /\ Slot(read_pos_) \in 0 .. Capacity - 1
           /\ seq[Slot(read_pos_)] = read_pos_ + 1
           /\ \A d \in Consumers : d # c => pc[d] = "idle"
<1>1. /\ seq[Slot(read_pos_)] = read_pos_ + 1 /\ read_pos_ < write_pos_
      /\ pos[c] = read_pos_
      /\ \A d \in Consumers : d # c => pc[d] = "idle"
  BY DEF ConsumerInv
<1>2. \A d \in Consumers : pc[d] # "advance"
  BY <1>1
<1>3. Released = read_pos_ /\ read_pos_ \in Nat
  BY <1>2, ReleasedType DEF Released
<1>4. read_pos_ \in Window
  BY <1>3, ReleasedType DEF Window
<1>5. QED
  BY <1>1, <1>3, <1>4, WindowSlots

(* The steps of push() that touch no slot and no counter.                   *)
LEMMA QuietPushKeeps ==
    ASSUME RingInv, NEW p \in Producers,
           \/ \E e \in Events : Push(p, e)
           \/ CheckSlot(p) \/ Reload(p) \/ ClaimFails(p) \/ Discard(p)
    PROVE  RingInv'
<1> USE TwoKinds DEF RingInv
<1>1. /\ UNCHANGED <<write_pos_, read_pos_, slots>>
      /\ pc[p] \notin {"write", "publish"}
      /\ \E l \in {"idle", "check", "claim", "refused", "reload"} : Goto(p, l)
      /\ \A t \in Threads \ {p} : pos'[t] = pos[t] /\ item'[t] = item[t]
      /\ pos'[p] \in {pos[p], write_pos_}
      /\ item' \in [Threads -> Events \cup {NoEvent}]
      /\ pos' \in [Threads -> 0 .. write_pos_]
  <2> USE DEF RingTypeOK, slots
  <2>0. write_pos_ \in Nat /\ write_pos_ \in 0 .. write_pos_
    BY ReleasedType
  <2>1. CASE \E e \in Events : Push(p, e)
    BY <2>0, <2>1 DEF Push
  <2>2. CASE CheckSlot(p)
    BY <2>0, <2>2 DEF CheckSlot
  <2>3. CASE Reload(p)
    BY <2>0, <2>3 DEF Reload
  <2>4. CASE ClaimFails(p)
    BY <2>0, <2>4 DEF ClaimFails
  <2>5. CASE Discard(p)
    BY <2>0, <2>5 DEF Discard
  <2>6. QED
    BY <2>1, <2>2, <2>3, <2>4, <2>5
<1>2. PICK l \in {"idle", "check", "claim", "refused", "reload"} : Goto(p, l)
  BY <1>1
<1>3. pc'[p] = l /\ \A u \in Threads : u # p => pc'[u] = pc[u]
  BY <1>2, OtherThreads
<1>4. /\ Released' = Released /\ Window' = Window
      /\ \A q \in Producers : Writing(q)' <=> Writing(q)
      /\ \A q \in Producers : Writing(q) => pos'[q] = pos[q]
      /\ seq' = seq /\ data' = data /\ write_pos_' = write_pos_ /\ read_pos_' = read_pos_
  BY <1>1, <1>3 DEF Released, Window, Writing, slots
<1>5. RingTypeOK'
  BY <1>1, <1>2, <1>4 DEF RingTypeOK, Goto
<1>6. CountInv'
  BY <1>4 DEF CountInv
<1>7. SlotInv'
  BY <1>4 DEF SlotInv
<1>8. DataInv'
  BY <1>1, <1>3, <1>4 DEF DataInv
<1>9. ProducerInv'
  <2>1. pc'[p] = "claim" => seq[Slot(pos'[p])] >= pos'[p]
    <3>1. SUFFICES ASSUME pc'[p] = "claim"
                   PROVE  CheckSlot(p) /\ seq[Slot(pos[p])] = pos[p]
      BY ReleasedType DEF CheckSlot
    <3>2. CheckSlot(p)
      BY <3>1 DEF Push, Reload, ClaimFails, Discard, RingTypeOK, Goto
    <3>3. QED
      BY <3>1, <3>2 DEF CheckSlot, RingTypeOK, Goto
  <2>2. pc'[p] \in {"check", "reload", "claim", "refused", "write"} => item'[p] \in Events
    BY <1>3 DEF Push, CheckSlot, Reload, ClaimFails, Discard, RingTypeOK, Goto, ProducerInv
  <2>3. QED
    BY <1>1, <1>3, <1>4, <2>1, <2>2 DEF ProducerInv
<1>10. ConsumerInv'
  BY <1>1, <1>3, <1>4 DEF ConsumerInv
<1>11. QED
  BY <1>5, <1>6, <1>7, <1>8, <1>9, <1>10

(* A claim never passes the consumer: a position one lap ahead of one that  *)
(* is not given back finds the older sequence number in its slot.           *)
LEMMA ClaimKeeps ==
    ASSUME TwoSlots, RingInv, NEW p \in Producers, Claim(p)
    PROVE  RingInv'
<1> USE TwoKinds DEF RingInv
<1>1. /\ pos[p] = write_pos_ /\ pc[p] = "claim" /\ write_pos_' = write_pos_ + 1
      /\ UNCHANGED <<read_pos_, seq, data, pos, item>> /\ Goto(p, "write")
  BY DEF Claim, Unclaimed, slots
<1>2. pc'[p] = "write" /\ \A u \in Threads : u # p => pc'[u] = pc[u]
  BY <1>1, OtherThreads
<1>3. Released' = Released /\ Window' = Window
  BY <1>1, <1>2 DEF Released, Window
<1>4. /\ Released \in Nat /\ write_pos_ \in Nat /\ read_pos_ \in Nat /\ Capacity \in Nat
      /\ Capacity > 0 /\ Released <= write_pos_ /\ write_pos_ <= Released + Capacity
  BY ReleasedType DEF CountInv
<1>5. write_pos_ < Released + Capacity
  <2>1. SUFFICES ASSUME write_pos_ = Released + Capacity PROVE FALSE
    BY <1>4
  <2>2. Slot(write_pos_) = Slot(Released)
    BY <1>4, <2>1, NextLapSlot
  <2>3. seq[Slot(Released)] \in {Released, Released + 1}
    BY <1>4 DEF SlotInv, Window
  <2>4. seq[Slot(write_pos_)] >= write_pos_
    BY <1>1 DEF ProducerInv
  <2>5. QED
    BY <1>4, <2>1, <2>2, <2>3, <2>4 DEF TwoSlots
<1>6. write_pos_ \in Window
  BY <1>4, <1>5 DEF Window
<1>7. \A q \in Producers : q # p /\ Writing(q) => pos[q] < write_pos_
  BY <1>4 DEF ProducerInv
<1>8. \A q \in Producers : Writing(q)' <=> Writing(q) \/ q = p
  BY <1>1, <1>2 DEF Writing
<1>9. RingTypeOK'
  BY <1>1, <1>4 DEF RingTypeOK, Goto
<1>10. CountInv'
  BY <1>1, <1>3, <1>4, <1>5 DEF CountInv
<1>11. SlotInv'
  <2>1. ASSUME NEW k \in Window
        PROVE  seq'[Slot(k)] =
                 IF k < write_pos_' /\ \A q \in Producers : Writing(q)' => pos'[q] # k
                 THEN k + 1 ELSE k
    <3>1. k \in Nat
      BY WindowSlots
    <3>2. CASE k = write_pos_
      BY <1>1, <1>4, <1>8, <3>1, <3>2 DEF SlotInv
    <3>3. CASE k # write_pos_
      <4>1. k < write_pos_' <=> k < write_pos_
        BY <1>1, <1>4, <3>1, <3>3
      <4>2. (\A q \in Producers : Writing(q)' => pos'[q] # k)
              <=> (\A q \in Producers : Writing(q) => pos[q] # k)
        BY <1>1, <1>8, <3>3
      <4>3. QED
        BY <1>1, <4>1, <4>2 DEF SlotInv
    <3>4. QED
      BY <3>2, <3>3
  <2>2. QED
    BY <1>1, <1>3, <2>1 DEF SlotInv
<1>12. DataInv'
  <2>1. ASSUME NEW k \in Released .. write_pos_
        PROVE  \/ \E q \in Producers : pc'[q] = "write" /\ pos'[q] = k
               \/ \E c \in Consumers : pc'[c] = "free" /\ pos'[c] = k
               \/ data'[Slot(k)] \in Events
    <3>1. CASE k = write_pos_
      BY <1>1, <1>2, <3>1
    <3>2. CASE k # write_pos_
      <4>1. k \in Released .. write_pos_ - 1
        BY <1>4, <3>2
      <4>2. QED
        BY <1>1, <1>2, <4>1 DEF DataInv
    <3>3. QED
      BY <3>1, <3>2
  <2>2. \A k \in Released .. write_pos_ - 1 : k \in Released .. write_pos_
    BY <1>4
  <2>3. Released' .. write_pos_' - 1 = Released .. write_pos_
    BY <1>1, <1>3, <1>4
  <2>4. QED
    BY <1>1, <2>1, <2>2, <2>3 DEF DataInv
<1>13. ProducerInv'
  <2>1. \A q \in Producers :
          Writing(q)' => pos'[q] \in Released' .. write_pos_' - 1
    BY <1>1, <1>3, <1>4, <1>8 DEF ProducerInv
  <2>2. \A q, r \in Producers :
          Writing(q)' /\ Writing(r)' /\ pos'[q] = pos'[r] => q = r
    BY <1>1, <1>4, <1>7, <1>8 DEF ProducerInv
  <2>3. QED
    BY <1>1, <1>2, <2>1, <2>2 DEF ProducerInv
<1>14. ConsumerInv'
  BY <1>1, <1>2, <1>4 DEF ConsumerInv
<1>15. QED
  BY <1>9, <1>10, <1>11, <1>12, <1>13, <1>14

LEMMA WriteDataKeeps ==
    ASSUME RingInv, NEW p \in Producers, WriteData(p)
    PROVE  RingInv'
<1> USE TwoKinds DEF RingInv
<1>1. /\ pc[p] = "write" /\ Goto(p, "publish")
      /\ data' = [data EXCEPT ![Slot(pos[p])] = item[p]]
      /\ item' = [item EXCEPT ![p] = NoEvent]
      /\ UNCHANGED <<write_pos_, read_pos_, seq, pos>>
  BY DEF WriteData
<1>2. pc'[p] = "publish" /\ \A u \in Threads : u # p => pc'[u] = pc[u]
  BY <1>1, OtherThreads
<1>3. Released' = Released /\ Window' = Window
  BY <1>1, <1>2 DEF Released, Window
<1>4. \A q \in Producers : Writing(q)' <=> Writing(q)
  BY <1>1, <1>2 DEF Writing
<1>5. /\ item[p] \in Events /\ pos[p] \in Released .. write_pos_ - 1
      /\ Slot(pos[p]) \in 0 .. Capacity - 1
  BY <1>1, ReleasedType DEF ProducerInv, Writing
<1>6. /\ data' \in [0 .. Capacity - 1 -> Events \cup {NoEvent}]
      /\ data'[Slot(pos[p])] = item[p]
      /\ \A s \in 0 .. Capacity - 1 : s # Slot(pos[p]) => data'[s] = data[s]
  BY <1>1, <1>5 DEF RingTypeOK
<1>7. \A k \in Released .. write_pos_ - 1 : k \in Window
  BY ReleasedType DEF CountInv, Window
<1>8. \A t \in Threads : t # p => item'[t] = item[t]
  BY <1>1 DEF RingTypeOK
<1>9. RingTypeOK'
  BY <1>1, <1>6 DEF RingTypeOK, Goto
<1>10. CountInv' /\ SlotInv'
  BY <1>1, <1>3, <1>4 DEF CountInv, SlotInv
<1>11. DataInv'
  <2>1. ASSUME NEW k \in Released .. write_pos_ - 1
        PROVE  \/ \E q \in Producers : pc'[q] = "write" /\ pos'[q] = k
               \/ \E c \in Consumers : pc'[c] = "free" /\ pos'[c] = k
               \/ data'[Slot(k)] \in Events
    <3>1. CASE k = pos[p]
      BY <1>5, <1>6, <3>1
    <3>2. CASE k # pos[p]
      <4>1. data'[Slot(k)] = data[Slot(k)]
        BY <1>5, <1>6, <1>7, <3>2, WindowSlots
      <4>2. QED
        BY <1>1, <1>2, <3>2, <4>1 DEF DataInv
    <3>3. QED
      BY <3>1, <3>2
  <2>2. \A s \in 0 .. Capacity - 1 : data'[s] # NoEvent =>
          \E k \in Released .. write_pos_ - 1 : Slot(k) = s
    BY <1>5, <1>6 DEF DataInv
  <2>3. QED
    BY <1>1, <1>3, <2>1, <2>2 DEF DataInv
<1>12. ProducerInv'
  BY <1>1, <1>2, <1>3, <1>4, <1>8 DEF ProducerInv
<1>13. ConsumerInv'
  <2>1. ASSUME NEW c \in Consumers, pc[c] = "free"
        PROVE  data'[Slot(read_pos_)] = NoEvent
    <3>1. /\ seq[Slot(read_pos_)] = read_pos_ + 1 /\ read_pos_ \in Nat
          /\ read_pos_ \in Window /\ pos[p] \in Window
      BY <1>5, <1>7, <2>1, ConsumerAtOldest
    <3>2. data[Slot(read_pos_)] = NoEvent
      BY <2>1 DEF ConsumerInv
    <3>3. pos[p] # read_pos_
      BY <1>1, <3>1 DEF SlotInv, Writing
    <3>4. QED
      BY <1>6, <3>1, <3>2, <3>3, WindowSlots
  <2>2. QED
    BY <1>1, <1>2, <1>8, <2>1 DEF ConsumerInv
<1>14. QED
  BY <1>9, <1>10, <1>11, <1>12, <1>13

LEMMA PublishKeeps ==
    ASSUME RingInv, NEW p \in Producers, Publish(p)
    PROVE  RingInv'
<1> USE TwoKinds DEF RingInv
<1>1. /\ pc[p] = "publish" /\ Goto(p, "idle")
      /\ seq' = [seq EXCEPT ![Slot(pos[p])] = pos[p] + 1]
      /\ UNCHANGED <<write_pos_, read_pos_, data, pos, item>>
  BY DEF Publish
<1>2. pc'[p] = "idle" /\ \A u \in Threads : u # p => pc'[u] = pc[u]
  BY <1>1, OtherThreads
<1>3. Released' = Released /\ Window' = Window
  BY <1>1, <1>2 DEF Released, Window
<1>4. \A q \in Producers : Writing(q)' <=> Writing(q) /\ q # p
  BY <1>1, <1>2 DEF Writing
<1>5. /\ pos[p] \in Released .. write_pos_ - 1 /\ pos[p] \in Nat /\ Writing(p)
      /\ Slot(pos[p]) \in 0 .. Capacity - 1 /\ write_pos_ \in Nat /\ Released \in Nat
  BY <1>1, ReleasedType DEF ProducerInv, Writing
<1>6. pos[p] \in Window
  BY <1>5, ReleasedType DEF CountInv, Window
<1>7. seq[Slot(pos[p])] = pos[p]
  BY <1>5, <1>6 DEF SlotInv
<1>8. /\ seq' \in [0 .. Capacity - 1 -> Nat]
      /\ seq'[Slot(pos[p])] = pos[p] + 1
      /\ \A s \in 0 .. Capacity - 1 : s # Slot(pos[p]) => seq'[s] = seq[s]
      /\ \A s \in 0 .. Capacity - 1 : seq'[s] >= seq[s]
  <2>1. seq \in [0 .. Capacity - 1 -> Nat]
    BY ReleasedType
  <2>2. /\ seq' \in [0 .. Capacity - 1 -> Nat]
        /\ seq'[Slot(pos[p])] = pos[p] + 1
        /\ \A s \in 0 .. Capacity - 1 : s # Slot(pos[p]) => seq'[s] = seq[s]
    BY <1>1, <1>5, <2>1
  <2>3. ASSUME NEW s \in 0 .. Capacity - 1 PROVE seq'[s] >= seq[s]
    <3>1. seq[s] \in Nat
      BY <2>1
    <3>2. QED
      BY <1>5, <1>7, <2>2, <3>1
  <2>4. QED
    BY <2>2, <2>3
<1>9. RingTypeOK'
  BY <1>1, <1>8 DEF RingTypeOK, Goto
<1>10. CountInv'
  BY <1>1, <1>3 DEF CountInv
<1>11. SlotInv'
  <2>1. ASSUME NEW k \in Window
        PROVE  seq'[Slot(k)] =
                 IF k < write_pos_ /\ \A q \in Producers : Writing(q)' => pos'[q] # k
                 THEN k + 1 ELSE k
    <3>1. CASE k = pos[p]
      BY <1>1, <1>4, <1>5, <1>8, <3>1 DEF ProducerInv
    <3>2. CASE k # pos[p]
      <4>1. seq'[Slot(k)] = seq[Slot(k)]
        BY <1>6, <1>8, <3>2, WindowSlots
      <4>2. (\A q \in Producers : Writing(q)' => pos'[q] # k)
              <=> (\A q \in Producers : Writing(q) => pos[q] # k)
        BY <1>1, <1>4, <3>2
      <4>3. QED
        BY <4>1, <4>2 DEF SlotInv
    <3>3. QED
      BY <3>1, <3>2
  <2>2. ASSUME NEW k \in 0 .. Released + Capacity - 1
        PROVE  seq'[Slot(k)] >= k
    <3>1. k \in Nat /\ Slot(k) \in 0 .. Capacity - 1 /\ seq[Slot(k)] >= k
      BY SlotIsSlot, ReleasedType DEF SlotInv
    <3>2. seq'[Slot(k)] >= seq[Slot(k)] /\ seq'[Slot(k)] \in Nat /\ seq[Slot(k)] \in Nat
      BY <1>8, <3>1, ReleasedType
    <3>3. QED
      BY <3>1, <3>2
  <2>3. QED
    BY <1>1, <1>3, <2>1, <2>2 DEF SlotInv
<1>12. DataInv'
  BY <1>1, <1>2, <1>3 DEF DataInv
<1>13. ProducerInv'
  <2>1. ASSUME NEW q \in Producers, pc'[q] = "claim"
        PROVE  seq'[Slot(pos'[q])] >= pos'[q]
    <3>1. pc[q] = "claim" /\ pos'[q] = pos[q]
      BY <1>1, <1>2, <2>1
    <3>2. /\ seq[Slot(pos[q])] >= pos[q] /\ pos[q] \in Nat
          /\ Slot(pos[q]) \in 0 .. Capacity - 1
      BY <3>1, ReleasedType DEF ProducerInv
    <3>3. /\ seq'[Slot(pos[q])] >= seq[Slot(pos[q])]
          /\ seq'[Slot(pos[q])] \in Nat /\ seq[Slot(pos[q])] \in Nat
      BY <1>8, <3>2, ReleasedType
    <3>4. QED
      BY <3>1, <3>2, <3>3
  <2>2. QED
    BY <1>1, <1>2, <1>3, <1>4, <2>1 DEF ProducerInv
<1>14. ConsumerInv'
  <2>1. ASSUME NEW c \in Consumers, pc[c] \in {"move", "free"}
        PROVE  seq'[Slot(read_pos_)] = read_pos_ + 1
    <3>1. /\ seq[Slot(read_pos_)] = read_pos_ + 1 /\ read_pos_ \in Nat
          /\ read_pos_ \in Window
      BY <2>1, ConsumerAtOldest
    <3>2. pos[p] # read_pos_
      BY <1>7, <3>1
    <3>3. QED
      BY <1>6, <1>8, <3>1, <3>2, WindowSlots
  <2>2. QED
    BY <1>1, <1>2, <2>1 DEF ConsumerInv
<1>15. QED
  BY <1>9, <1>10, <1>11, <1>12, <1>13, <1>14

-----------------------------------------------------------------------------
(* The steps of pop() that touch no slot and no counter: a thread that is   *)
(* not popping may start when no other thread is.                           *)
LEMMA QuietPopKeeps ==
    ASSUME RingInv, NEW c \in Consumers,
           \/ Pop(c) /\ \A d \in Consumers : pc[d] = "idle"
           \/ PopEmpty(c) \/ PopFinds(c) \/ Popped(c)
    PROVE  RingInv'
<1> USE TwoKinds DEF RingInv
<1>1. /\ UNCHANGED <<write_pos_, read_pos_, seq, data>>
      /\ pc[c] \in {"idle", "look", "popped"}
      /\ \E l \in {"idle", "look", "move"} : Goto(c, l)
      /\ \A t \in Threads \ {c} : pos'[t] = pos[t] /\ item'[t] = item[t]
      /\ item' \in [Threads -> Events \cup {NoEvent}]
      /\ pos' \in [Threads -> 0 .. write_pos_]
      /\ \A d \in Consumers : d # c => pc[d] = "idle"
  BY DEF Pop, PopEmpty, PopFinds, Popped, RingTypeOK, ConsumerInv, slots
<1>2. PICK l \in {"idle", "look", "move"} : Goto(c, l)
  BY <1>1
<1>3. pc'[c] = l /\ \A u \in Threads : u # c => pc'[u] = pc[u]
  BY <1>2, OtherThreads
<1>4. Released = read_pos_ /\ Released' = read_pos_ /\ Window' = Window
  <2>1. /\ \A d \in Consumers : pc[d] # "advance"
        /\ \A d \in Consumers : pc'[d] # "advance"
    BY <1>1, <1>3
  <2>2. Released = read_pos_ /\ Released' = read_pos_
    BY <1>1, <2>1, ReleasedType DEF Released
  <2>3. QED
    BY <2>2 DEF Window
<1>5. \A q \in Producers : (Writing(q)' <=> Writing(q)) /\ pos'[q] = pos[q]
                            /\ pc'[q] = pc[q] /\ item'[q] = item[q]
  BY <1>1, <1>3 DEF Writing
<1>6. RingTypeOK'
  BY <1>1, <1>2 DEF RingTypeOK, Goto
<1>7. CountInv' /\ SlotInv'
  BY <1>1, <1>4, <1>5 DEF CountInv, SlotInv
<1>8. DataInv'
  BY <1>1, <1>3, <1>4, <1>5 DEF DataInv
<1>9. ProducerInv'
  BY <1>1, <1>4, <1>5 DEF ProducerInv
<1>10. ConsumerInv'
  <2>1. /\ pc'[c] \in {"look", "move"} => pos'[c] = read_pos_
        /\ pc'[c] = "move" => seq[Slot(read_pos_)] = read_pos_ + 1
    BY <1>3 DEF Pop, PopEmpty, PopFinds, Popped, Published, ConsumerInv, RingTypeOK, Goto
  <2>2. pc'[c] = "move" => read_pos_ < write_pos_
    <3>1. read_pos_ \in Window /\ read_pos_ \in Nat /\ write_pos_ \in Nat
      BY <1>4, ReleasedType DEF Window
    <3>2. QED
      BY <2>1, <3>1 DEF SlotInv
  <2>3. QED
    BY <1>1, <1>3, <2>1, <2>2 DEF ConsumerInv
<1>11. QED
  BY <1>6, <1>7, <1>8, <1>9, <1>10

(* No other thread is at the data of the slot that a pop empties.           *)
LEMMA MoveDataTakes ==
    ASSUME RingInv, NEW c \in Consumers, MoveData(c)
    PROVE  /\ data[Slot(read_pos_)] \in Events
           /\ item' = [item EXCEPT ![c] = data[Slot(read_pos_)]]
           /\ data' = [data EXCEPT ![Slot(read_pos_)] = NoEvent]
<1> USE TwoKinds DEF RingInv
<1>1. /\ pc[c] = "move" /\ data' = [data EXCEPT ![Slot(pos[c])] = NoEvent]
      /\ \E e \in MovedFrom(c) : item' = [item EXCEPT ![c] = e]
  BY DEF MoveData
<1>2. /\ Released = read_pos_ /\ pos[c] = read_pos_ /\ read_pos_ \in Nat
      /\ read_pos_ < write_pos_ /\ read_pos_ \in Window /\ write_pos_ \in Nat
      /\ seq[Slot(read_pos_)] = read_pos_ + 1
      /\ \A d \in Consumers : d # c => pc[d] = "idle"
  BY <1>1, ConsumerAtOldest, ReleasedType
<1>3. MovedFrom(c) = {data[Slot(read_pos_)]}
  BY <1>2 DEF MovedFrom
<1>4. \A q \in Producers : ~ (pc[q] = "write" /\ pos[q] = read_pos_)
  BY <1>2 DEF SlotInv, Writing
<1>5. \A d \in Consumers : pc[d] # "free"
  BY <1>1, <1>2
<1>6. read_pos_ \in Released .. write_pos_ - 1
  BY <1>2
<1>7. data[Slot(read_pos_)] \in Events
  BY <1>4, <1>5, <1>6 DEF DataInv
<1>8. QED
  BY <1>1, <1>2, <1>3, <1>7

LEMMA MoveDataKeeps ==
    ASSUME RingInv, NEW c \in Consumers, MoveData(c)
    PROVE  RingInv'
<1> USE TwoKinds DEF RingInv
<1>1. /\ pc[c] = "move" /\ Goto(c, "free")
      /\ UNCHANGED <<write_pos_, read_pos_, seq, pos>>
  BY DEF MoveData
<1>2. pc'[c] = "free" /\ \A u \in Threads : u # c => pc'[u] = pc[u]
  BY <1>1, OtherThreads
<1>3. /\ data[Slot(read_pos_)] \in Events
      /\ item' = [item EXCEPT ![c] = data[Slot(read_pos_)]]
      /\ data' = [data EXCEPT ![Slot(read_pos_)] = NoEvent]
  BY MoveDataTakes
<1>4. /\ Released = read_pos_ /\ pos[c] = read_pos_ /\ read_pos_ \in Nat
      /\ read_pos_ < write_pos_ /\ read_pos_ \in Window /\ write_pos_ \in Nat
      /\ Slot(read_pos_) \in 0 .. Capacity - 1
      /\ seq[Slot(read_pos_)] = read_pos_ + 1
      /\ \A d \in Consumers : d # c => pc[d] = "idle"
  BY <1>1, ConsumerAtOldest, ReleasedType
<1>5. Released' = read_pos_ /\ Window' = Window
  <2>1. \A d \in Consumers : pc'[d] # "advance"
    BY <1>2, <1>4
  <2>2. Released' = read_pos_
    BY <1>1, <1>4, <2>1 DEF Released
  <2>3. QED
    BY <1>4, <2>2 DEF Window
<1>6. /\ data' \in [0 .. Capacity - 1 -> Events \cup {NoEvent}]
      /\ data'[Slot(read_pos_)] = NoEvent
      /\ \A s \in 0 .. Capacity - 1 : s # Slot(read_pos_) => data'[s] = data[s]
      /\ item'[c] \in Events /\ item' \in [Threads -> Events \cup {NoEvent}]
      /\ \A t \in Threads : t # c => item'[t] = item[t]
  BY <1>3, <1>4 DEF RingTypeOK
<1>7. \A q \in Producers : (Writing(q)' <=> Writing(q)) /\ pos'[q] = pos[q]
                            /\ pc'[q] = pc[q] /\ item'[q] = item[q]
  BY <1>1, <1>2, <1>6 DEF Writing
<1>8. RingTypeOK'
  BY <1>1, <1>6 DEF RingTypeOK, Goto
<1>9. CountInv' /\ SlotInv'
  BY <1>1, <1>4, <1>5, <1>7 DEF CountInv, SlotInv
<1>10. DataInv'
  <2>1. ASSUME NEW k \in Released .. write_pos_ - 1
        PROVE  \/ \E q \in Producers : pc'[q] = "write" /\ pos'[q] = k
               \/ \E d \in Consumers : pc'[d] = "free" /\ pos'[d] = k
               \/ data'[Slot(k)] \in Events
    <3>1. CASE k = read_pos_
      BY <1>1, <1>2, <1>4, <3>1
    <3>2. CASE k # read_pos_
      <4>1. k \in Window
        BY ReleasedType DEF CountInv, Window
      <4>2. data'[Slot(k)] = data[Slot(k)]
        BY <1>4, <1>6, <3>2, <4>1, WindowSlots
      <4>3. \A d \in Consumers : pc[d] # "free"
        BY <1>1, <1>4
      <4>4. QED
        BY <1>7, <4>2, <4>3 DEF DataInv
    <3>3. QED
      BY <3>1, <3>2
  <2>2. \A s \in 0 .. Capacity - 1 : data'[s] # NoEvent =>
          \E k \in Released .. write_pos_ - 1 : Slot(k) = s
    BY <1>6 DEF DataInv
  <2>3. QED
    BY <1>1, <1>4, <1>5, <2>1, <2>2 DEF DataInv
<1>11. ProducerInv'
  BY <1>1, <1>4, <1>5, <1>7 DEF ProducerInv
<1>12. ConsumerInv'
  BY <1>1, <1>2, <1>4, <1>6 DEF ConsumerInv
<1>13. QED
  BY <1>8, <1>9, <1>10, <1>11, <1>12

(* The window moves by one: the slot it leaves is the slot it comes to.     *)
LEMMA FreeSlotKeeps ==
    ASSUME RingInv, NEW c \in Consumers, FreeSlot(c)
    PROVE  RingInv' /\ Released' = Released + 1
<1> USE TwoKinds DEF RingInv
<1>1. /\ pc[c] = "free" /\ Goto(c, "advance")
      /\ seq' = [seq EXCEPT ![Slot(pos[c])] = pos[c] + Capacity]
      /\ UNCHANGED <<write_pos_, read_pos_, data, pos, item>>
  BY DEF FreeSlot, NextLap
<1>2. pc'[c] = "advance" /\ \A u \in Threads : u # c => pc'[u] = pc[u]
  BY <1>1, OtherThreads
<1>3. /\ Released = read_pos_ /\ pos[c] = read_pos_ /\ read_pos_ \in Nat
      /\ read_pos_ < write_pos_ /\ read_pos_ \in Window /\ write_pos_ \in Nat
      /\ Slot(read_pos_) \in 0 .. Capacity - 1 /\ Capacity \in Nat /\ Capacity > 0
      /\ seq[Slot(read_pos_)] = read_pos_ + 1
      /\ write_pos_ <= read_pos_ + Capacity
      /\ \A d \in Consumers : d # c => pc[d] = "idle"
  BY <1>1, ConsumerAtOldest, ReleasedType DEF CountInv
<1>4. Released' = read_pos_ + 1
  BY <1>1, <1>2 DEF Released
<1>5. /\ seq' \in [0 .. Capacity - 1 -> Nat]
      /\ seq'[Slot(read_pos_)] = read_pos_ + Capacity
      /\ \A s \in 0 .. Capacity - 1 : s # Slot(read_pos_) => seq'[s] = seq[s]
  <2>1. seq \in [0 .. Capacity - 1 -> Nat] /\ read_pos_ + Capacity \in Nat
    BY <1>3, ReleasedType
  <2>2. QED
    BY <1>1, <1>3, <2>1
<1>6. ASSUME NEW k \in Nat, Slot(k) # Slot(read_pos_)
      PROVE  seq'[Slot(k)] = seq[Slot(k)]
  BY <1>5, <1>6, SlotIsSlot
<1>7. \A q \in Producers : (Writing(q)' <=> Writing(q)) /\ pos'[q] = pos[q]
                            /\ pc'[q] = pc[q] /\ item'[q] = item[q]
  BY <1>1, <1>2 DEF Writing
<1>8. \A q \in Producers : Writing(q) => pos[q] # read_pos_
  BY <1>3 DEF SlotInv
<1>9. RingTypeOK'
  BY <1>1, <1>5 DEF RingTypeOK, Goto
<1>10. CountInv'
  BY <1>1, <1>3, <1>4 DEF CountInv
<1>11. SlotInv'
  <2>1. ASSUME NEW k \in read_pos_ + 1 .. read_pos_ + Capacity
        PROVE  seq'[Slot(k)] =
                 IF k < write_pos_ /\ \A q \in Producers : Writing(q) => pos[q] # k
                 THEN k + 1 ELSE k
    <3>1. k \in Nat
      BY <1>3
    <3>2. CASE k = read_pos_ + Capacity
      <4>1. Slot(k) = Slot(read_pos_)
        BY <1>3, <3>2, NextLapSlot
      <4>2. ~ (k < write_pos_)
        BY <1>3, <3>2
      <4>3. QED
        BY <1>5, <3>2, <4>1, <4>2
    <3>3. CASE k # read_pos_ + Capacity
      <4>1. k \in Window /\ k # read_pos_
        BY <1>3, <3>3 DEF Window
      <4>2. seq'[Slot(k)] = seq[Slot(k)]
        BY <1>3, <1>6, <3>1, <4>1, WindowSlots
      <4>3. QED
        BY <4>1, <4>2 DEF SlotInv
    <3>4. QED
      BY <3>2, <3>3
  <2>2. Window' = read_pos_ + 1 .. read_pos_ + Capacity
    BY <1>3, <1>4 DEF Window
  <2>3. ASSUME NEW k \in 0 .. read_pos_ + Capacity
        PROVE  seq'[Slot(k)] >= k
    <3>1. k \in Nat
      BY <1>3
    <3>2. CASE Slot(k) = Slot(read_pos_)
      BY <1>3, <1>5, <3>2
    <3>3. CASE Slot(k) # Slot(read_pos_)
      <4>1. k \in 0 .. Released + Capacity - 1
        <5>1. k # read_pos_ + Capacity
          BY <1>3, <3>3, NextLapSlot
        <5>2. QED
          BY <1>3, <5>1
      <4>2. QED
        BY <1>6, <3>1, <3>3, <4>1 DEF SlotInv
    <3>4. QED
      BY <3>2, <3>3
  <2>4. 0 .. Released' + Capacity - 1 = 0 .. read_pos_ + Capacity
    BY <1>3, <1>4
  <2>5. QED
    BY <1>1, <1>7, <2>1, <2>2, <2>3, <2>4 DEF SlotInv
<1>12. DataInv'
  <2>1. \A k \in read_pos_ + 1 .. write_pos_ - 1 :
          k \in Released .. write_pos_ - 1 /\ k # read_pos_
    BY <1>3
  <2>2. ASSUME NEW k \in read_pos_ + 1 .. write_pos_ - 1
        PROVE  \/ \E q \in Producers : pc'[q] = "write" /\ pos'[q] = k
               \/ data'[Slot(k)] \in Events
    BY <1>1, <1>3, <1>7, <2>1 DEF DataInv
  <2>3. ASSUME NEW s \in 0 .. Capacity - 1, data'[s] # NoEvent
        PROVE  \E k \in read_pos_ + 1 .. write_pos_ - 1 : Slot(k) = s
    <3>1. PICK k \in Released .. write_pos_ - 1 : Slot(k) = s
      BY <1>1, <2>3 DEF DataInv
    <3>2. data[Slot(read_pos_)] = NoEvent
      BY <1>1 DEF ConsumerInv
    <3>3. k # read_pos_
      BY <1>1, <2>3, <3>1, <3>2
    <3>4. QED
      BY <1>3, <3>1, <3>3
  <2>4. QED
    BY <1>1, <1>4, <2>2, <2>3 DEF DataInv
<1>13. ProducerInv'
  <2>1. ASSUME NEW q \in Producers, pc'[q] = "claim"
        PROVE  seq'[Slot(pos'[q])] >= pos'[q]
    <3>1. /\ pc[q] = "claim" /\ pos'[q] = pos[q] /\ pos[q] \in Nat
          /\ seq[Slot(pos[q])] >= pos[q]
      BY <1>7, <2>1, ReleasedType DEF ProducerInv
    <3>2. CASE Slot(pos[q]) = Slot(read_pos_)
      BY <1>3, <1>5, <3>1, <3>2
    <3>3. CASE Slot(pos[q]) # Slot(read_pos_)
      BY <1>6, <3>1, <3>3
    <3>4. QED
      BY <3>2, <3>3
  <2>2. ASSUME NEW q \in Producers, Writing(q)
        PROVE  pos[q] \in read_pos_ + 1 .. write_pos_ - 1
    BY <1>3, <1>8, <2>2 DEF ProducerInv
  <2>3. QED
    BY <1>1, <1>4, <1>7, <2>1, <2>2 DEF ProducerInv
<1>14. ConsumerInv'
  <2>1. item[c] \in Events
    BY <1>1 DEF ConsumerInv
  <2>2. \A d \in Consumers : d # c => pc'[d] = "idle"
    BY <1>2, <1>3
  <2>3. QED
    BY <1>1, <1>2, <1>3, <2>1, <2>2 DEF ConsumerInv
<1>15. QED
  BY <1>3, <1>4, <1>9, <1>10, <1>11, <1>12, <1>13, <1>14

LEMMA AdvanceKeeps ==
    ASSUME RingInv, NEW c \in Consumers, Advance(c)
    PROVE  RingInv' /\ Released' = Released
<1> USE TwoKinds DEF RingInv
<1>1. /\ pc[c] = "advance" /\ Goto(c, "popped") /\ read_pos_' = pos[c] + 1
      /\ UNCHANGED <<write_pos_, seq, data, pos, item>>
  BY DEF Advance, slots
<1>2. pc'[c] = "popped" /\ \A u \in Threads : u # c => pc'[u] = pc[u]
  BY <1>1, OtherThreads
<1>3. /\ pos[c] = read_pos_ /\ read_pos_ \in Nat /\ item[c] \in Events
      /\ \A d \in Consumers : d # c => pc[d] = "idle" /\ pc'[d] = "idle"
  BY <1>1, <1>2, ReleasedType DEF ConsumerInv
<1>4. Released = read_pos_ + 1
  BY <1>1 DEF Released
<1>5. Released' = read_pos_ + 1
  <2>1. \A d \in Consumers : pc'[d] # "advance"
    BY <1>2, <1>3
  <2>2. QED
    BY <1>1, <1>3, <2>1 DEF Released
<1>6. Window' = Window
  BY <1>4, <1>5 DEF Window
<1>7. \A q \in Producers : (Writing(q)' <=> Writing(q)) /\ pos'[q] = pos[q]
                            /\ pc'[q] = pc[q] /\ item'[q] = item[q]
  BY <1>1, <1>2 DEF Writing
<1>8. CountInv'
  BY <1>1, <1>4, <1>5 DEF CountInv
<1>9. RingTypeOK'
  BY <1>1, <1>3, <1>4, ReleasedType DEF CountInv, RingTypeOK, Goto
<1>10. SlotInv'
  BY <1>1, <1>4, <1>5, <1>6, <1>7 DEF SlotInv
<1>11. DataInv'
  BY <1>1, <1>2, <1>4, <1>5, <1>7 DEF DataInv
<1>12. ProducerInv'
  BY <1>1, <1>4, <1>5, <1>7 DEF ProducerInv
<1>13. ConsumerInv'
  BY <1>1, <1>2, <1>3 DEF ConsumerInv
<1>14. QED
  BY <1>4, <1>5, <1>8, <1>9, <1>10, <1>11, <1>12, <1>13

(* Every step keeps the invariant while the consumers take turns.           *)
LEMMA RingUnchangedKeeps == RingInv /\ UNCHANGED ring => RingInv'
BY DEF ring, slots, threads, RingInv, RingTypeOK, CountInv, SlotInv, DataInv,
       ProducerInv, ConsumerInv, Writing, Window, Released

LEMMA PushingKeeps ==
    ASSUME TwoSlots, RingInv, NEW p \in Producers,
           Pushing(p) \/ \E e \in Events : Push(p, e)
    PROVE  RingInv'
BY QuietPushKeeps, ClaimKeeps, WriteDataKeeps, PublishKeeps DEF Pushing

LEMMA PoppingKeeps ==
    ASSUME RingInv, NEW c \in Consumers,
           \/ Pop(c) /\ \A d \in Consumers : pc[d] = "idle"
           \/ PopEmpty(c) \/ Popping(c) \/ Popped(c)
    PROVE  RingInv'
BY QuietPopKeeps, MoveDataKeeps, FreeSlotKeeps, AdvanceKeeps DEF Popping

(* No two threads are at the data of one slot.                              *)
LEMMA RingInvNoDataRace == RingInv => NoDataRace
<1> SUFFICES ASSUME RingInv, NEW t \in Threads, NEW u \in Threads,
                    t # u, AtData(t), AtData(u)
             PROVE  Slot(pos[t]) # Slot(pos[u])
  BY DEF NoDataRace
<1> USE TwoKinds DEF RingInv
<1>1. ASSUME NEW p \in Producers, AtData(p)
      PROVE  Writing(p) /\ pos[p] \in Window
  <2>1. Writing(p) /\ pos[p] \in Released .. write_pos_ - 1
    BY <1>1 DEF AtData, Writing, ProducerInv
  <2>2. QED
    BY <2>1, ReleasedType DEF CountInv, Window
<1>2. ASSUME NEW c \in Consumers, AtData(c)
      PROVE  /\ pos[c] = read_pos_ /\ read_pos_ \in Window
             /\ \A p \in Producers : Writing(p) => pos[p] # read_pos_
             /\ \A d \in Consumers : d # c => ~ AtData(d)
  <2>1. pc[c] \in {"move", "free"}
    BY <1>2 DEF AtData, ConsumerInv
  <2>2. QED
    BY <2>1, ConsumerAtOldest DEF SlotInv, AtData
<1>3. pos[t] # pos[u] /\ pos[t] \in Window /\ pos[u] \in Window
  <2>1. CASE t \in Producers /\ u \in Producers
    BY <1>1, <2>1 DEF ProducerInv
  <2>2. CASE t \in Consumers \/ u \in Consumers
    BY <1>1, <1>2, <2>2 DEF Threads
  <2>3. QED
    BY <2>1, <2>2 DEF Threads
<1>4. QED
  BY <1>3, WindowSlots

-----------------------------------------------------------------------------
(* The ring by itself has one consumer, which is idle when it starts a pop. *)
THEOREM InductiveInvariant ==
    ASSUME TwoSlots, SingleConsumer
    PROVE  RingSpec => []RingInv
<1>1. RingInit => RingInv
  BY RingInitInv
<1>2. RingInv /\ [RingNext]_ring => RingInv'
  <2>1. \A c \in Consumers : Pop(c) => \A d \in Consumers : pc[d] = "idle"
    BY DEF SingleConsumer, Pop
  <2>2. QED
    BY <2>1, RingUnchangedKeeps, PushingKeeps, PoppingKeeps DEF RingNext
<1>3. QED
  BY <1>1, <1>2, PTL DEF RingSpec

(* Type correctness, with no thread ahead of the two counters.              *)
THEOREM TypeCorrect ==
    ASSUME TwoSlots, SingleConsumer
    PROVE  RingSpec => []RingTypeOK
<1>1. RingInv => RingTypeOK
  BY DEF RingInv
<1>2. QED
  BY <1>1, InductiveInvariant, PTL

(* The sequence numbers alone keep two threads from the data of one slot,   *)
(* however many producers there are and however long the ring is.           *)
THEOREM DataIsExclusive ==
    ASSUME TwoSlots, SingleConsumer
    PROVE  RingSpec => []NoDataRace
BY RingInvNoDataRace, InductiveInvariant, PTL

-----------------------------------------------------------------------------
(* The refinement.  The state of the bounded queue, and what its parts are  *)
(* in a state of the ring.                                                  *)
QueueOf   == [i \in 1 .. write_pos_ - Released |-> EventAt(Released + i - 1)]
RefusedOf == {p \in Producers : pc[p] = "refused"}
HandOf    == IF \E c \in Consumers : pc[c] \in {"advance", "popped"}
             THEN item[CHOOSE c \in Consumers : pc[c] \in {"advance", "popped"}]
             ELSE NoEvent

WriterOf(k, p) == p \in Producers /\ pc[p] = "write" /\ pos[p] = k
TakerOf(k, c)  == c \in Consumers /\ pc[c] = "free" /\ pos[c] = k

QueueInv ==
    /\ \A k \in Released .. write_pos_ - 1 :
        /\ \A p : WriterOf(k, p) => EventAt(k) = item[p]
        /\ \A c : TakerOf(k, c) => EventAt(k) = item[c] /\ \A p : ~ WriterOf(k, p)
        /\ (\A t : ~ WriterOf(k, t) /\ ~ TakerOf(k, t)) => EventAt(k) = data[Slot(k)]
    /\ QueueOf \in Seq(Events) /\ Len(QueueOf) = write_pos_ - Released
    /\ \A i \in 1 .. write_pos_ - Released : QueueOf[i] = EventAt(Released + i - 1)
    /\ \A c \in Consumers : pc[c] \in {"advance", "popped"} => HandOf = item[c]
    /\ (\A c \in Consumers : pc[c] \notin {"advance", "popped"}) => HandOf = NoEvent

LEMMA QueueValues == RingInv => QueueInv
<1> SUFFICES ASSUME RingInv PROVE QueueInv
  OBVIOUS
<1> USE TwoKinds DEF RingInv
<1>1. ASSUME NEW k \in Released .. write_pos_ - 1
      PROVE  /\ \A p : WriterOf(k, p) => EventAt(k) = item[p]
             /\ \A c : TakerOf(k, c) => EventAt(k) = item[c] /\ \A p : ~ WriterOf(k, p)
             /\ (\A t : ~ WriterOf(k, t) /\ ~ TakerOf(k, t)) => EventAt(k) = data[Slot(k)]
             /\ EventAt(k) \in Events
  <2>1. ASSUME NEW p, WriterOf(k, p)
        PROVE  EventAt(k) = item[p] /\ item[p] \in Events
    <3>1. \A q \in Producers : pc[q] = "write" /\ pos[q] = k => q = p
      BY <2>1 DEF WriterOf, ProducerInv, Writing
    <3>2. (CHOOSE q \in Producers : pc[q] = "write" /\ pos[q] = k) = p
      BY <2>1, <3>1 DEF WriterOf
    <3>3. EventAt(k) = item[p]
      BY <2>1, <3>2 DEF EventAt, WriterOf
    <3>4. QED
      BY <2>1, <3>3 DEF WriterOf, ProducerInv
  <2>2. ASSUME NEW c, TakerOf(k, c)
        PROVE  /\ EventAt(k) = item[c] /\ item[c] \in Events
               /\ \A p : ~ WriterOf(k, p)
    <3>1. \A p : ~ WriterOf(k, p)
      <4>1. /\ k = read_pos_ /\ k \in Window /\ k \in Nat
            /\ seq[Slot(k)] = k + 1
        BY <2>2, ConsumerAtOldest DEF TakerOf
      <4>2. ASSUME NEW p \in Producers, Writing(p) PROVE pos[p] # k
        BY <4>1, <4>2 DEF SlotInv
      <4>3. QED
        BY <4>2 DEF Writing, WriterOf
    <3>2. \A d \in Consumers : pc[d] = "free" /\ pos[d] = k => d = c
      BY <2>2 DEF TakerOf, ConsumerInv
    <3>3. (CHOOSE d \in Consumers : pc[d] = "free" /\ pos[d] = k) = c
      BY <2>2, <3>2 DEF TakerOf
    <3>4. EventAt(k) = item[c]
      BY <2>2, <3>1, <3>3 DEF EventAt, WriterOf, TakerOf
    <3>5. QED
      BY <2>2, <3>1, <3>4 DEF TakerOf, ConsumerInv
  <2>3. ASSUME \A t : ~ WriterOf(k, t) /\ ~ TakerOf(k, t)
        PROVE  EventAt(k) = data[Slot(k)] /\ data[Slot(k)] \in Events
    BY <2>3 DEF EventAt, WriterOf, TakerOf, DataInv
  <2>4. QED
    BY <2>1, <2>2, <2>3
<1>2. /\ QueueOf \in Seq(Events) /\ Len(QueueOf) = write_pos_ - Released
      /\ \A i \in 1 .. write_pos_ - Released : QueueOf[i] = EventAt(Released + i - 1)
  <2> DEFINE n == write_pos_ - Released
             e(i) == EventAt(Released + i - 1)
  <2>1. n \in Nat
    BY ReleasedType DEF CountInv
  <2>2. \A i \in 1 .. n : e(i) \in Events
    <3>1. \A i \in 1 .. n : Released + i - 1 \in Released .. write_pos_ - 1
      BY ReleasedType
    <3>2. QED
      BY <1>1, <3>1
  <2>3. QueueOf = [i \in 1 .. n |-> e(i)]
    BY DEF QueueOf
  <2> HIDE DEF n, e
  <2>4. QueueOf \in [1 .. n -> Events]
    BY <2>2, <2>3
  <2>5. QueueOf \in Seq(Events) /\ Len(QueueOf) = n
    BY <2>1, <2>4
  <2>6. \A i \in 1 .. n : QueueOf[i] = e(i)
    BY <2>3
  <2>7. QED
    BY <2>4, <2>5, <2>6 DEF n, e
<1>3. ASSUME NEW c \in Consumers, pc[c] \in {"advance", "popped"}
      PROVE  HandOf = item[c]
  <2>1. \A d \in Consumers : pc[d] \in {"advance", "popped"} => d = c
    BY <1>3 DEF ConsumerInv
  <2>2. (CHOOSE d \in Consumers : pc[d] \in {"advance", "popped"}) = c
    BY <1>3, <2>1
  <2>3. QED
    BY <1>3, <2>2 DEF HandOf
<1>4. (\A c \in Consumers : pc[c] \notin {"advance", "popped"}) => HandOf = NoEvent
  BY DEF HandOf
<1>5. QED
  BY <1>1, <1>2, <1>3, <1>4 DEF QueueInv

(* An event does not change as long as its writer and taker do not, or when *)
(* it goes from a writer to its slot or from its slot to a taker.           *)
LEMMA EventStays ==
    ASSUME QueueInv, QueueInv',
           NEW k \in Released .. write_pos_ - 1,
           k \in Released' .. write_pos_' - 1,
           \A p : WriterOf(k, p)' <=> WriterOf(k, p),
           \A c : TakerOf(k, c)' <=> TakerOf(k, c),
           \A t : WriterOf(k, t) \/ TakerOf(k, t) => item'[t] = item[t],
           data'[Slot(k)] = data[Slot(k)]
    PROVE  EventAt(k)' = EventAt(k)
<1>1. CASE \E p : WriterOf(k, p)
  <2>1. PICK p : WriterOf(k, p)
    BY <1>1
  <2>2. EventAt(k) = item[p] /\ item'[p] = item[p] /\ WriterOf(k, p)'
    BY <2>1 DEF QueueInv
  <2>3. EventAt(k)' = item'[p]
    BY <2>2 DEF QueueInv
  <2>4. QED
    BY <2>2, <2>3
<1>2. CASE \E c : TakerOf(k, c)
  <2>1. PICK c : TakerOf(k, c)
    BY <1>2
  <2>2. EventAt(k) = item[c] /\ item'[c] = item[c] /\ TakerOf(k, c)'
    BY <2>1 DEF QueueInv
  <2>3. EventAt(k)' = item'[c]
    BY <2>2 DEF QueueInv
  <2>4. QED
    BY <2>2, <2>3
<1>3. CASE \A t : ~ WriterOf(k, t) /\ ~ TakerOf(k, t)
  <2>1. EventAt(k) = data[Slot(k)]
    BY <1>3 DEF QueueInv
  <2>2. \A t : ~ WriterOf(k, t)' /\ ~ TakerOf(k, t)'
    BY <1>3
  <2>3. EventAt(k)' = data'[Slot(k)]
    BY <2>2 DEF QueueInv
  <2>4. QED
    BY <2>1, <2>3
<1>4. QED
  BY <1>1, <1>2, <1>3

LEMMA QueueStays ==
    ASSUME RingTypeOK, QueueInv, QueueInv', Released' = Released, write_pos_' = write_pos_,
           \A k \in Released .. write_pos_ - 1 : EventAt(k)' = EventAt(k)
    PROVE  QueueOf' = QueueOf
<1>1. write_pos_ \in Nat /\ Released \in Nat
  BY ReleasedType
<1>2. \A i \in 1 .. write_pos_ - Released : Released + i - 1 \in Released .. write_pos_ - 1
  BY <1>1
<1>3. QueueOf \in Seq(Events) /\ QueueOf' \in Seq(Events) /\ Len(QueueOf') = Len(QueueOf)
  BY DEF QueueInv
<1>4. \A i \in 1 .. Len(QueueOf') : QueueOf'[i] = QueueOf[i]
  BY <1>2 DEF QueueInv
<1>5. QED
  BY <1>3, <1>4, SeqEqual

(* A step of one thread that neither starts nor ends a write or a take, and *)
(* moves no data, leaves the queue alone.                                   *)
LEMMA QueueUnseen ==
    ASSUME RingInv, QueueInv, QueueInv', NEW t \in Threads, NEW l, Goto(t, l),
           Released' = Released, UNCHANGED <<write_pos_, data>>,
           \A u \in Threads \ {t} : pos'[u] = pos[u] /\ item'[u] = item[u],
           pc[t] \notin {"write", "free"}, l \notin {"write", "free"}
    PROVE  QueueOf' = QueueOf
<1> USE TwoKinds DEF RingInv
<1>1. pc'[t] = l /\ \A u \in Threads : u # t => pc'[u] = pc[u]
  BY OtherThreads
<1>2. ASSUME NEW k \in Released .. write_pos_ - 1
      PROVE  EventAt(k)' = EventAt(k)
  <2>1. \A p : WriterOf(k, p)' <=> WriterOf(k, p)
    BY <1>1 DEF WriterOf
  <2>2. \A c : TakerOf(k, c)' <=> TakerOf(k, c)
    BY <1>1 DEF TakerOf
  <2>3. \A u : WriterOf(k, u) \/ TakerOf(k, u) => item'[u] = item[u]
    BY DEF WriterOf, TakerOf
  <2>4. QED
    BY <2>1, <2>2, <2>3, EventStays
<1>3. QED
  BY <1>2, QueueStays

(* If it neither starts nor ends a refusal or a return from pop(), nothing  *)
(* of the abstract state changes.                                           *)
LEMMA StepUnseen ==
    ASSUME RingInv, QueueInv, QueueInv', NEW t \in Threads, NEW l, Goto(t, l),
           Released' = Released, UNCHANGED <<write_pos_, data>>,
           \A u \in Threads \ {t} : pos'[u] = pos[u] /\ item'[u] = item[u],
           pc[t] \notin {"write", "free", "refused"}, l \notin {"write", "free", "refused"},
           pc[t] \in {"advance", "popped"} <=> l \in {"advance", "popped"},
           pc[t] \in {"advance", "popped"} => item'[t] = item[t]
    PROVE  QueueOf' = QueueOf /\ RefusedOf' = RefusedOf /\ HandOf' = HandOf
<1> USE TwoKinds DEF RingInv
<1>1. pc'[t] = l /\ \A u \in Threads : u # t => pc'[u] = pc[u]
  BY OtherThreads
<1>2. QueueOf' = QueueOf
  BY QueueUnseen
<1>3. RefusedOf' = RefusedOf
  BY <1>1 DEF RefusedOf
<1>4. HandOf' = HandOf
  <2>1. CASE \E c \in Consumers : pc[c] \in {"advance", "popped"}
    <3>1. PICK c \in Consumers : pc[c] \in {"advance", "popped"}
      BY <2>1
    <3>2. pc'[c] \in {"advance", "popped"} /\ item'[c] = item[c]
      BY <1>1, <3>1
    <3>3. QED
      BY <3>1, <3>2 DEF QueueInv
  <2>2. CASE \A c \in Consumers : pc[c] \notin {"advance", "popped"}
    <3>1. \A c \in Consumers : pc'[c] \notin {"advance", "popped"}
      BY <1>1, <2>2
    <3>2. QED
      BY <2>2, <3>1 DEF QueueInv
  <2>3. QED
    BY <2>1, <2>2
<1>5. QED
  BY <1>2, <1>3, <1>4

(* A claim accepts the event: the queue was not full.                       *)
LEMMA ClaimAccepts ==
    ASSUME RingInv, RingInv', QueueInv, QueueInv', NEW p \in Producers, Claim(p)
    PROVE  /\ item[p] \in Events /\ Len(QueueOf) < Capacity
           /\ QueueOf' = Append(QueueOf, item[p])
           /\ RefusedOf' = RefusedOf /\ HandOf' = HandOf
<1> USE TwoKinds DEF RingInv
<1>1. /\ pos[p] = write_pos_ /\ pc[p] = "claim" /\ write_pos_' = write_pos_ + 1
      /\ UNCHANGED <<read_pos_, seq, data, pos, item>> /\ Goto(p, "write")
  BY DEF Claim, Unclaimed, slots
<1>2. pc'[p] = "write" /\ \A u \in Threads : u # p => pc'[u] = pc[u]
  BY <1>1, OtherThreads
<1>3. Released' = Released
  BY <1>1, <1>2 DEF Released
<1>4. write_pos_ \in Nat /\ Released \in Nat /\ Released <= write_pos_ /\ Capacity \in Nat
  BY ReleasedType DEF CountInv
<1>5. item[p] \in Events
  BY <1>1 DEF ProducerInv
<1>6. /\ QueueOf \in Seq(Events) /\ Len(QueueOf) = write_pos_ - Released
      /\ QueueOf' \in Seq(Events) /\ Len(QueueOf') = write_pos_ + 1 - Released
  <2>1. /\ QueueOf \in Seq(Events) /\ Len(QueueOf) = write_pos_ - Released
        /\ QueueOf' \in Seq(Events) /\ Len(QueueOf') = write_pos_' - Released'
    BY DEF QueueInv
  <2>2. write_pos_' - Released' = write_pos_ + 1 - Released
    BY <1>1, <1>3, <1>4
  <2>3. QED
    BY <2>1, <2>2
<1>7. Len(QueueOf) < Capacity
  BY <1>1, <1>3, <1>4, <1>6 DEF CountInv
<1>8. QueueOf' = Append(QueueOf, item[p])
  <2>1. /\ Append(QueueOf, item[p]) \in Seq(Events)
        /\ Len(Append(QueueOf, item[p])) = Len(QueueOf) + 1
        /\ \A i \in 1 .. Len(QueueOf) : Append(QueueOf, item[p])[i] = QueueOf[i]
        /\ Append(QueueOf, item[p])[Len(QueueOf) + 1] = item[p]
    BY <1>5, <1>6, AppendProperties
  <2>2. ASSUME NEW i \in 1 .. Len(QueueOf')
        PROVE  QueueOf'[i] = Append(QueueOf, item[p])[i]
    <3>0. PICK k \in Released .. write_pos_ : k = Released + i - 1
      BY <1>4, <1>6
    <3>1. i \in 1 .. write_pos_' - Released'
      BY <1>1, <1>3, <1>4, <1>6
    <3>2. QueueOf'[i] = EventAt(k)'
      BY <1>3, <3>0, <3>1 DEF QueueInv
    <3>3. CASE k = write_pos_
      <4>1. WriterOf(k, p)'
        BY <1>1, <1>2, <3>3 DEF WriterOf
      <4>2. k \in Released' .. write_pos_' - 1
        BY <1>1, <1>3, <1>4
      <4>3. EventAt(k)' = item'[p]
        BY <4>1, <4>2 DEF QueueInv
      <4>4. i = Len(QueueOf) + 1
        BY <1>4, <1>6, <3>0, <3>3
      <4>5. QED
        BY <1>1, <2>1, <3>2, <4>3, <4>4
    <3>4. CASE k # write_pos_
      <4>1. k \in Released .. write_pos_ - 1 /\ k \in Released' .. write_pos_' - 1
            /\ i \in 1 .. write_pos_ - Released /\ i \in 1 .. Len(QueueOf)
        BY <1>1, <1>3, <1>4, <1>6, <3>0, <3>4
      <4>2. \A q : WriterOf(k, q)' <=> WriterOf(k, q)
        BY <1>1, <1>2, <3>4 DEF WriterOf
      <4>3. \A c : TakerOf(k, c)' <=> TakerOf(k, c)
        BY <1>1, <1>2 DEF TakerOf
      <4>4. EventAt(k)' = EventAt(k)
        BY <1>1, <4>1, <4>2, <4>3, EventStays
      <4>5. QueueOf[i] = EventAt(k)
        BY <3>0, <4>1 DEF QueueInv
      <4>6. QED
        BY <2>1, <3>2, <4>1, <4>4, <4>5
    <3>5. QED
      BY <3>3, <3>4
  <2>3. Len(QueueOf') = Len(Append(QueueOf, item[p]))
    BY <1>4, <1>6, <2>1
  <2>4. QED
    BY <1>6, <2>1, <2>2, <2>3, SeqEqual
<1>9. RefusedOf' = RefusedOf
  BY <1>1, <1>2 DEF RefusedOf
<1>10. HandOf' = HandOf
  BY <1>1, <1>2 DEF QueueInv
<1>11. QED
  BY <1>5, <1>7, <1>8, <1>9, <1>10

(* A refusal finds a slot that is still in use one lap behind, which is so  *)
(* only when the queue is full.                                             *)
LEMMA CheckSlotRefuses ==
    ASSUME RingInv, QueueInv, QueueInv', NEW p \in Producers, CheckSlot(p), pc'[p] = "refused"
    PROVE  /\ Len(QueueOf) = Capacity /\ RefusedOf' = RefusedOf \cup {p}
           /\ QueueOf' = QueueOf /\ HandOf' = HandOf
<1> USE TwoKinds DEF RingInv
<1>1. /\ seq[Slot(pos[p])] < pos[p] /\ pc[p] = "check" /\ Goto(p, "refused")
      /\ UNCHANGED <<write_pos_, read_pos_, seq, data, pos, item>>
  BY DEF CheckSlot, IsFull, slots, RingTypeOK, Goto
<1>2. \A u \in Threads : u # p => pc'[u] = pc[u]
  BY <1>1, OtherThreads
<1>3. Released' = Released
  BY <1>1, <1>2 DEF Released
<1>4. /\ pos[p] \in 0 .. write_pos_ /\ write_pos_ \in Nat /\ Released \in Nat
      /\ write_pos_ <= Released + Capacity /\ Capacity \in Nat
      /\ Slot(pos[p]) \in 0 .. Capacity - 1 /\ seq[Slot(pos[p])] \in Nat
  BY ReleasedType DEF CountInv, RingTypeOK
<1>5. ~ (pos[p] \in 0 .. Released + Capacity - 1)
  BY <1>1, <1>4 DEF SlotInv
<1>6. Len(QueueOf) = Capacity
  BY <1>4, <1>5 DEF QueueInv
<1>7. QueueOf' = QueueOf
  BY <1>1, <1>3, QueueUnseen
<1>8. HandOf' = HandOf /\ RefusedOf' = RefusedOf \cup {p}
  BY <1>1, <1>2 DEF QueueInv, RefusedOf
<1>9. QED
  BY <1>6, <1>7, <1>8

(* An event that goes from its writer to its slot keeps its place.          *)
LEMMA WriteUnseen ==
    ASSUME RingInv, QueueInv, QueueInv', NEW p \in Producers, WriteData(p)
    PROVE  QueueOf' = QueueOf /\ RefusedOf' = RefusedOf /\ HandOf' = HandOf
<1> USE TwoKinds DEF RingInv
<1>1. /\ pc[p] = "write" /\ Goto(p, "publish")
      /\ data' = [data EXCEPT ![Slot(pos[p])] = item[p]]
      /\ item' = [item EXCEPT ![p] = NoEvent]
      /\ UNCHANGED <<write_pos_, read_pos_, seq, pos>>
  BY DEF WriteData
<1>2. pc'[p] = "publish" /\ \A u \in Threads : u # p => pc'[u] = pc[u]
  BY <1>1, OtherThreads
<1>3. Released' = Released
  BY <1>1, <1>2 DEF Released
<1>4. \A t \in Threads : t # p => item'[t] = item[t]
  BY <1>1 DEF RingTypeOK
<1>5. /\ pos[p] \in Released .. write_pos_ - 1 /\ Slot(pos[p]) \in 0 .. Capacity - 1
      /\ data \in [0 .. Capacity - 1 -> Events \cup {NoEvent}]
  BY <1>1, ReleasedType DEF ProducerInv, Writing, RingTypeOK
<1>6. \A k \in Released .. write_pos_ - 1 : k \in Window
  BY ReleasedType DEF CountInv, Window
<1>7. ASSUME NEW k \in Released .. write_pos_ - 1
      PROVE  EventAt(k)' = EventAt(k)
  <2>1. k \in Released' .. write_pos_' - 1
    BY <1>1, <1>3
  <2>2. CASE k = pos[p]
    <3>1. WriterOf(k, p)
      BY <1>1, <2>2 DEF WriterOf
    <3>2. \A q : WriterOf(k, q) => q = p
      BY <3>1 DEF WriterOf, ProducerInv, Writing
    <3>3. \A c : ~ TakerOf(k, c)
      BY <3>1 DEF QueueInv
    <3>4. \A t : ~ WriterOf(k, t)' /\ ~ TakerOf(k, t)'
      BY <1>1, <1>2, <3>2, <3>3 DEF WriterOf, TakerOf
    <3>5. EventAt(k)' = data'[Slot(k)]
      BY <2>1, <3>4 DEF QueueInv
    <3>6. EventAt(k) = item[p]
      BY <3>1 DEF QueueInv
    <3>7. QED
      BY <1>1, <1>5, <2>2, <3>5, <3>6
  <2>3. CASE k # pos[p]
    <3>1. \A q : WriterOf(k, q)' <=> WriterOf(k, q)
      BY <1>1, <1>2, <2>3 DEF WriterOf
    <3>2. \A c : TakerOf(k, c)' <=> TakerOf(k, c)
      BY <1>1, <1>2 DEF TakerOf
    <3>3. data'[Slot(k)] = data[Slot(k)]
      BY <1>1, <1>5, <1>6, <2>3, WindowSlots
    <3>4. \A t : WriterOf(k, t) \/ TakerOf(k, t) => item'[t] = item[t]
      BY <1>4, <2>3 DEF WriterOf, TakerOf
    <3>5. QED
      BY <2>1, <3>1, <3>2, <3>3, <3>4, EventStays
  <2>4. QED
    BY <2>2, <2>3
<1>8. QueueOf' = QueueOf
  BY <1>1, <1>3, <1>7, QueueStays
<1>9. RefusedOf' = RefusedOf
  BY <1>1, <1>2 DEF RefusedOf
<1>10. HandOf' = HandOf
  BY <1>2, <1>4 DEF QueueInv
<1>11. QED
  BY <1>8, <1>9, <1>10

(* So does one that goes from its slot to the thread that takes it.         *)
LEMMA MoveUnseen ==
    ASSUME RingInv, QueueInv, QueueInv', NEW c \in Consumers, MoveData(c)
    PROVE  QueueOf' = QueueOf /\ RefusedOf' = RefusedOf /\ HandOf' = HandOf
<1> USE TwoKinds DEF RingInv
<1>1. /\ pc[c] = "move" /\ Goto(c, "free")
      /\ UNCHANGED <<write_pos_, read_pos_, seq, pos>>
  BY DEF MoveData
<1>2. pc'[c] = "free" /\ \A u \in Threads : u # c => pc'[u] = pc[u]
  BY <1>1, OtherThreads
<1>3. /\ item' = [item EXCEPT ![c] = data[Slot(read_pos_)]]
      /\ data' = [data EXCEPT ![Slot(read_pos_)] = NoEvent]
  BY MoveDataTakes
<1>4. /\ Released = read_pos_ /\ pos[c] = read_pos_ /\ read_pos_ \in Nat
      /\ read_pos_ < write_pos_ /\ read_pos_ \in Window
      /\ Slot(read_pos_) \in 0 .. Capacity - 1
      /\ seq[Slot(read_pos_)] = read_pos_ + 1
      /\ \A d \in Consumers : d # c => pc[d] = "idle"
  BY <1>1, ConsumerAtOldest
<1>5. Released' = Released
  <2>1. \A d \in Consumers : pc'[d] # "advance"
    BY <1>2, <1>4
  <2>2. QED
    BY <1>1, <1>4, <2>1 DEF Released
<1>6. item'[c] = data[Slot(read_pos_)] /\ \A t \in Threads : t # c => item'[t] = item[t]
  BY <1>3 DEF RingTypeOK
<1>7. ASSUME NEW k \in Released .. write_pos_ - 1
      PROVE  EventAt(k)' = EventAt(k)
  <2>1. k \in Released' .. write_pos_' - 1
    BY <1>1, <1>5
  <2>2. \A d : ~ TakerOf(k, d)
    BY <1>1, <1>4 DEF TakerOf
  <2>3. \A q : WriterOf(k, q)' <=> WriterOf(k, q)
    BY <1>1, <1>2 DEF WriterOf
  <2>4. CASE k = read_pos_
    <3>1. TakerOf(k, c)'
      BY <1>1, <1>2, <1>4, <2>4 DEF TakerOf
    <3>2. EventAt(k)' = item'[c] /\ \A q : ~ WriterOf(k, q)'
      BY <2>1, <3>1 DEF QueueInv
    <3>3. EventAt(k) = data[Slot(k)]
      BY <2>2, <2>3, <3>2 DEF QueueInv
    <3>4. QED
      BY <1>6, <2>4, <3>2, <3>3
  <2>5. CASE k # read_pos_
    <3>1. \A d : ~ TakerOf(k, d)'
      BY <1>1, <1>2, <1>4, <2>2, <2>5 DEF TakerOf
    <3>2. data'[Slot(k)] = data[Slot(k)]
      <4>1. k \in Window
        BY ReleasedType DEF CountInv, Window
      <4>2. Slot(k) # Slot(read_pos_)
        BY <1>4, <2>5, <4>1, WindowSlots
      <4>3. QED
        BY <1>3, <4>2 DEF RingTypeOK
    <3>3. \A t : WriterOf(k, t) \/ TakerOf(k, t) => item'[t] = item[t]
      BY <1>6, <2>2 DEF WriterOf
    <3>4. QED
      BY <2>1, <2>2, <2>3, <3>1, <3>2, <3>3, EventStays
  <2>6. QED
    BY <2>4, <2>5
<1>8. QueueOf' = QueueOf
  BY <1>1, <1>5, <1>7, QueueStays
<1>9. RefusedOf' = RefusedOf
  BY <1>1, <1>2 DEF RefusedOf
<1>10. HandOf' = HandOf
  BY <1>1, <1>2, <1>4 DEF QueueInv
<1>11. QED
  BY <1>8, <1>9, <1>10

(* The oldest event leaves the queue when its slot is given back.           *)
LEMMA FreeSlotTakes ==
    ASSUME RingInv, RingInv', QueueInv, QueueInv', NEW c \in Consumers, FreeSlot(c)
    PROVE  /\ QueueOf # <<>> /\ HandOf = NoEvent
           /\ QueueOf' = Tail(QueueOf) /\ HandOf' = Head(QueueOf)
           /\ RefusedOf' = RefusedOf
<1> USE TwoKinds DEF RingInv
<1>1. /\ pc[c] = "free" /\ Goto(c, "advance")
      /\ UNCHANGED <<write_pos_, read_pos_, data, pos, item>>
  BY DEF FreeSlot
<1>2. pc'[c] = "advance" /\ \A u \in Threads : u # c => pc'[u] = pc[u]
  BY <1>1, OtherThreads
<1>3. /\ Released = read_pos_ /\ pos[c] = read_pos_ /\ read_pos_ \in Nat
      /\ read_pos_ < write_pos_ /\ write_pos_ \in Nat
      /\ \A d \in Consumers : d # c => pc[d] = "idle"
  BY <1>1, ConsumerAtOldest, ReleasedType
<1>4. Released' = read_pos_ + 1
  BY <1>1, <1>2 DEF Released
<1>5. /\ QueueOf \in Seq(Events) /\ Len(QueueOf) = write_pos_ - read_pos_
      /\ QueueOf' \in Seq(Events) /\ Len(QueueOf') = write_pos_ - read_pos_ - 1
  <2>1. /\ QueueOf \in Seq(Events) /\ Len(QueueOf) = write_pos_ - Released
        /\ QueueOf' \in Seq(Events) /\ Len(QueueOf') = write_pos_' - Released'
    BY DEF QueueInv
  <2>2. write_pos_' - Released' = write_pos_ - read_pos_ - 1
    BY <1>1, <1>3, <1>4
  <2>3. QED
    BY <1>3, <2>1, <2>2
<1>6. QueueOf # <<>>
  BY <1>3, <1>5, EmptySeq
<1>7. /\ Tail(QueueOf) \in Seq(Events) /\ Len(Tail(QueueOf)) = Len(QueueOf) - 1
      /\ \A i \in 1 .. Len(Tail(QueueOf)) : Tail(QueueOf)[i] = QueueOf[i + 1]
  BY <1>5, <1>6, HeadTailProperties
<1>8. QueueOf' = Tail(QueueOf)
  <2>1. Len(QueueOf') = Len(Tail(QueueOf))
    BY <1>3, <1>5, <1>7
  <2>2. ASSUME NEW i \in 1 .. Len(QueueOf')
        PROVE  QueueOf'[i] = Tail(QueueOf)[i]
    <3>1. PICK k \in read_pos_ + 1 .. write_pos_ - 1 : k = read_pos_ + i
      BY <1>3, <1>5
    <3>2. /\ i \in 1 .. write_pos_' - Released' /\ k = Released' + i - 1
          /\ k \in Released' .. write_pos_' - 1 /\ k \in Released .. write_pos_ - 1
          /\ i + 1 \in 1 .. write_pos_ - Released /\ k = Released + (i + 1) - 1
      BY <1>1, <1>3, <1>4, <1>5, <3>1
    <3>3. QueueOf'[i] = EventAt(k)'
      BY <3>2 DEF QueueInv
    <3>4. QueueOf[i + 1] = EventAt(k)
      BY <3>2 DEF QueueInv
    <3>5. \A q : WriterOf(k, q)' <=> WriterOf(k, q)
      BY <1>1, <1>2 DEF WriterOf
    <3>6. \A d : TakerOf(k, d)' <=> TakerOf(k, d)
      <4>1. k # read_pos_
        BY <1>3, <3>1
      <4>2. QED
        BY <1>1, <1>2, <1>3, <4>1 DEF TakerOf
    <3>7. EventAt(k)' = EventAt(k)
      BY <1>1, <3>2, <3>5, <3>6, EventStays
    <3>8. QED
      BY <1>7, <2>1, <3>3, <3>4, <3>7
  <2>3. QED
    BY <1>5, <1>7, <2>1, <2>2, SeqEqual
<1>9. HandOf = NoEvent
  BY <1>1, <1>3 DEF QueueInv
<1>10. HandOf' = Head(QueueOf)
  <2>1. PICK k \in Released .. write_pos_ - 1 : k = read_pos_
    BY <1>3
  <2>2. EventAt(k) = item[c]
    BY <1>1, <1>3, <2>1 DEF QueueInv, TakerOf
  <2>3. QueueOf[1] = EventAt(k)
    <3>1. 1 \in 1 .. write_pos_ - Released /\ Released + 1 - 1 = k
      BY <1>3, <2>1
    <3>2. QED
      BY <3>1 DEF QueueInv
  <2>4. Head(QueueOf) = QueueOf[1]
    BY <1>5, <1>6
  <2>5. HandOf' = item'[c]
    BY <1>2 DEF QueueInv
  <2>6. QED
    BY <1>1, <2>2, <2>3, <2>4, <2>5
<1>11. RefusedOf' = RefusedOf
  BY <1>1, <1>2 DEF RefusedOf
<1>12. QED
  BY <1>6, <1>8, <1>9, <1>10, <1>11

LEMMA DiscardEndsRefusal ==
    ASSUME RingInv, QueueInv, QueueInv', NEW p \in Producers, Discard(p)
    PROVE  /\ RefusedOf' = RefusedOf \ {p}
           /\ QueueOf' = QueueOf /\ HandOf' = HandOf
<1> USE TwoKinds DEF RingInv
<1>1. /\ pc[p] = "refused" /\ Goto(p, "idle")
      /\ UNCHANGED <<write_pos_, read_pos_, seq, data, pos>>
      /\ \A u \in Threads \ {p} : item'[u] = item[u]
  BY DEF Discard, slots, RingTypeOK
<1>2. pc'[p] = "idle" /\ \A u \in Threads : u # p => pc'[u] = pc[u]
  BY <1>1, OtherThreads
<1>3. Released' = Released
  BY <1>1, <1>2 DEF Released
<1>4. QueueOf' = QueueOf
  BY <1>1, <1>3, QueueUnseen
<1>5. HandOf' = HandOf
  BY <1>1, <1>2 DEF QueueInv
<1>6. RefusedOf' = RefusedOf \ {p}
  BY <1>2 DEF RefusedOf
<1>7. QED
  BY <1>4, <1>5, <1>6

LEMMA PoppedGives ==
    ASSUME RingInv, QueueInv, QueueInv', NEW c \in Consumers, Popped(c)
    PROVE  /\ HandOf' = NoEvent
           /\ QueueOf' = QueueOf /\ RefusedOf' = RefusedOf
<1> USE TwoKinds DEF RingInv
<1>1. /\ pc[c] = "popped" /\ Goto(c, "idle")
      /\ UNCHANGED <<write_pos_, read_pos_, seq, data, pos>>
      /\ \A u \in Threads \ {c} : item'[u] = item[u]
  BY DEF Popped, slots, RingTypeOK
<1>2. pc'[c] = "idle" /\ \A u \in Threads : u # c => pc'[u] = pc[u]
  BY <1>1, OtherThreads
<1>3. \A d \in Consumers : pc'[d] = "idle"
  BY <1>1, <1>2 DEF ConsumerInv
<1>4. Released' = Released
  BY <1>1, <1>2 DEF Released
<1>5. QueueOf' = QueueOf
  BY <1>1, <1>4, QueueUnseen
<1>6. HandOf' = NoEvent
  BY <1>3 DEF QueueInv
<1>7. RefusedOf' = RefusedOf
  BY <1>2 DEF RefusedOf
<1>8. QED
  BY <1>5, <1>6, <1>7

(* Every step of the ring is a step of the queue, or one it does not see.   *)
LEMMA PushMaps ==
    ASSUME RingInv, RingInv', QueueInv, QueueInv', NEW p \in Producers,
           Pushing(p) \/ \E e \in Events : Push(p, e)
    PROVE  [Queue!Next]_<<QueueOf, RefusedOf, HandOf>>
<1> USE TwoKinds DEF QueueOf, RefusedOf, HandOf
<1>1. CASE Claim(p)
  BY <1>1, ClaimAccepts DEF Queue!Next, Queue!Accept
<1>2. CASE CheckSlot(p) /\ pc'[p] = "refused"
  BY <1>2, CheckSlotRefuses DEF Queue!Next, Queue!Refuse
<1>3. CASE Discard(p)
  BY <1>3, DiscardEndsRefusal DEF Queue!Next, Queue!Refused
<1>4. CASE WriteData(p)
  BY <1>4, WriteUnseen
<1>5. CASE \/ \E e \in Events : Push(p, e)
           \/ CheckSlot(p) /\ pc'[p] # "refused"
           \/ Reload(p) \/ ClaimFails(p) \/ Publish(p)
  <2>1. /\ pc[p] \in {"idle", "check", "reload", "claim", "publish"}
        /\ UNCHANGED <<write_pos_, read_pos_, data>>
        /\ \A u \in Threads \ {p} : pos'[u] = pos[u] /\ item'[u] = item[u]
        /\ \E l \in {"check", "claim", "reload", "idle"} : Goto(p, l)
    <3> USE DEF RingInv, RingTypeOK, slots
    <3>1. CASE \E e \in Events : Push(p, e)
      BY <3>1 DEF Push
    <3>2. CASE CheckSlot(p) /\ pc'[p] # "refused"
      BY <3>2 DEF CheckSlot, Goto
    <3>3. CASE Reload(p)
      BY <3>3 DEF Reload
    <3>4. CASE ClaimFails(p)
      BY <3>4 DEF ClaimFails
    <3>5. CASE Publish(p)
      BY <3>5 DEF Publish
    <3>6. QED
      BY <1>5, <3>1, <3>2, <3>3, <3>4, <3>5
  <2>2. PICK l \in {"check", "claim", "reload", "idle"} : Goto(p, l)
    BY <2>1
  <2>3. Released' = Released
    <3>1. \A c \in Consumers : pc'[c] = pc[c]
      BY <2>2, OtherThreads DEF RingInv
    <3>2. QED
      BY <2>1, <3>1 DEF Released
  <2>4. QED
    BY <2>1, <2>2, <2>3, StepUnseen
<1>6. QED
  BY <1>1, <1>2, <1>3, <1>4, <1>5 DEF Pushing

LEMMA PopMaps ==
    ASSUME RingInv, RingInv', QueueInv, QueueInv', NEW c \in Consumers,
           Pop(c) \/ PopEmpty(c) \/ Popping(c) \/ Popped(c)
    PROVE  [Queue!Next]_<<QueueOf, RefusedOf, HandOf>>
<1> USE TwoKinds DEF QueueOf, RefusedOf, HandOf
<1>1. CASE FreeSlot(c)
  BY <1>1, FreeSlotTakes DEF Queue!Next, Queue!Take
<1>2. CASE Popped(c)
  BY <1>2, PoppedGives DEF Queue!Next, Queue!Give
<1>3. CASE MoveData(c)
  BY <1>3, MoveUnseen
<1>4. CASE Pop(c) \/ PopEmpty(c) \/ PopFinds(c)
  <2>1. /\ pc[c] \in {"idle", "look"}
        /\ UNCHANGED <<write_pos_, read_pos_, data>>
        /\ \A u \in Threads \ {c} : pos'[u] = pos[u] /\ item'[u] = item[u]
        /\ \E l \in {"look", "idle", "move"} : Goto(c, l)
    BY <1>4 DEF Pop, PopEmpty, PopFinds, RingInv, RingTypeOK, slots
  <2>2. PICK l \in {"look", "idle", "move"} : Goto(c, l)
    BY <2>1
  <2>3. Released' = Released
    <3>1. /\ pc'[c] = l /\ \A d \in Consumers : d # c => pc'[d] = pc[d]
      BY <2>2, OtherThreads DEF RingInv
    <3>2. QED
      BY <2>1, <3>1 DEF Released
  <2>4. QED
    BY <2>1, <2>2, <2>3, StepUnseen
<1>5. CASE Advance(c)
  <2>1. Released' = Released
    BY <1>5, AdvanceKeeps
  <2>2. QED
    BY <1>5, <2>1, StepUnseen DEF Advance, slots
<1>6. QED
  BY <1>1, <1>2, <1>3, <1>4, <1>5 DEF Popping

(* The ring, whose producers and consumer touch its words one at a time,    *)
(* behaves as a bounded queue whose operations are atomic.                  *)
THEOREM RefinesQueue ==
    ASSUME TwoSlots, SingleConsumer
    PROVE  RingSpec => ImplementsBoundedQueue
<1>1. RingInit => Queue!Init
  <2> SUFFICES ASSUME RingInit PROVE Queue!Init
    OBVIOUS
  <2>1. RingInv /\ QueueInv
    BY RingInitInv, QueueValues
  <2>2. Released = 0 /\ write_pos_ = 0
    BY DEF RingInit, Released, Threads
  <2>3. QueueOf = <<>>
    BY <2>1, <2>2, EmptySeq DEF QueueInv
  <2>4. RefusedOf = {} /\ HandOf = NoEvent
    BY DEF RingInit, RefusedOf, HandOf, Threads
  <2>5. QED
    BY <2>3, <2>4 DEF Queue!Init, QueueOf, RefusedOf, HandOf
<1>2. RingInv /\ RingInv' /\ QueueInv /\ QueueInv' /\ [RingNext]_ring
        => [Queue!Next]_<<QueueOf, RefusedOf, HandOf>>
  <2> SUFFICES ASSUME RingInv, RingInv', QueueInv, QueueInv', [RingNext]_ring
               PROVE  [Queue!Next]_<<QueueOf, RefusedOf, HandOf>>
    OBVIOUS
  <2>1. CASE UNCHANGED ring
    BY <2>1 DEF ring, slots, threads, QueueOf, RefusedOf, HandOf, Released, EventAt
  <2>2. CASE RingNext
    BY <2>2, PushMaps, PopMaps DEF RingNext
  <2>3. QED
    BY <2>1, <2>2
<1>3. RingInv => QueueInv
  BY QueueValues
<1>4. RingSpec => []RingInv
  BY InductiveInvariant
<1>5. QED
  BY <1>1, <1>2, <1>3, <1>4, PTL
     DEF RingSpec, ImplementsBoundedQueue, Queue!Spec, QueueOf, RefusedOf, HandOf
=============================================================================
