------------------------- MODULE LockFreeRingBuffer -------------------------
(***************************************************************************)
(* The bounded multi-producer single-consumer ring, one action per access  *)
(* to shared memory.  A slot is a sequence number and an event:            *)
(*                                                                         *)
(*    seq[s] = k              free for the push that claims position k     *)
(*    seq[s] = k + 1          holds the event of position k                *)
(*    seq[s] = k + Capacity   given back by the pop of position k          *)
(*                                                                         *)
(* Positions are natural numbers: the 64-bit counters do not wrap in the   *)
(* life of a process.  Each atomic access has an acquire/release pairing   *)
(* or feeds a compare-exchange that rechecks it, so an interleaving of     *)
(* accesses shows what the threads can see.                                *)
(***************************************************************************)
EXTENDS Integers, Sequences

CONSTANTS Producers, Consumers, Events, NoEvent, Capacity,
          MaxPushes     \* bound: positions claimed before pushes stop

ASSUME CapacityAssumption == Capacity \in Nat \ {0}
ASSUME ThreadsAssumption ==
    Producers \cap Consumers = {} /\ NoEvent \notin Events

VARIABLES
    write_pos_, read_pos_,
    seq, data,      \* the slots
    pc, pos, item   \* of a thread: where it is, and its two locals

slots   == <<seq, data>>
threads == <<pc, pos, item>>
ring    == <<write_pos_, read_pos_, slots, threads>>

Threads == Producers \cup Consumers
Slot(k) == k % Capacity

RingInit ==
    /\ write_pos_ = 0 /\ read_pos_ = 0
    /\ seq = [s \in 0 .. Capacity - 1 |-> s]
    /\ data = [s \in 0 .. Capacity - 1 |-> NoEvent]
    /\ pc = [t \in Threads |-> "idle"]
    /\ pos = [t \in Threads |-> 0]
    /\ item = [t \in Threads |-> NoEvent]

Goto(t, label) == pc' = [pc EXCEPT ![t] = label]

-----------------------------------------------------------------------------
(* push()                                                                   *)
Push(p, e) ==
    /\ pc[p] = "idle" /\ write_pos_ < MaxPushes
    /\ item' = [item EXCEPT ![p] = e]
    /\ pos' = [pos EXCEPT ![p] = write_pos_]
    /\ Goto(p, "check")
    /\ UNCHANGED <<write_pos_, read_pos_, slots>>

IsFull_Mutant(p) == seq[Slot(pos[p])] # pos[p]
IsFull(p)        == seq[Slot(pos[p])] < pos[p]

(* The slot is free, or still in use one lap behind, or already taken by a  *)
(* producer that was faster.                                                *)
CheckSlot(p) ==
    /\ pc[p] = "check"
    /\ Goto(p, IF seq[Slot(pos[p])] = pos[p] THEN "claim"
               ELSE IF IsFull(p) THEN "refused"
               ELSE "reload")
    /\ UNCHANGED <<write_pos_, read_pos_, slots, pos, item>>

Reload(p) ==
    /\ pc[p] = "reload"
    /\ pos' = [pos EXCEPT ![p] = write_pos_]
    /\ Goto(p, "check")
    /\ UNCHANGED <<write_pos_, read_pos_, slots, item>>

(* compare_exchange_weak: it may fail for no reason, and a failure loads    *)
(* the counter.                                                             *)
Unclaimed_Mutant(p) == TRUE
Unclaimed(p)        == write_pos_ = pos[p]

Claim(p) ==
    /\ pc[p] = "claim" /\ Unclaimed(p)
    /\ write_pos_' = pos[p] + 1
    /\ Goto(p, "write")
    /\ UNCHANGED <<read_pos_, slots, pos, item>>

ClaimFails(p) ==
    /\ pc[p] = "claim"
    /\ pos' = [pos EXCEPT ![p] = write_pos_]
    /\ Goto(p, "check")
    /\ UNCHANGED <<write_pos_, read_pos_, slots, item>>

WriteData(p) ==
    /\ pc[p] = "write"
    /\ data' = [data EXCEPT ![Slot(pos[p])] = item[p]]
    /\ item' = [item EXCEPT ![p] = NoEvent]
    /\ Goto(p, "publish")
    /\ UNCHANGED <<write_pos_, read_pos_, seq, pos>>

Publish(p) ==
    /\ pc[p] = "publish"
    /\ seq' = [seq EXCEPT ![Slot(pos[p])] = pos[p] + 1]
    /\ Goto(p, "idle")
    /\ UNCHANGED <<write_pos_, read_pos_, data, pos, item>>

(* push() returns false and its argument is destroyed.                      *)
Discard(p) ==
    /\ pc[p] = "refused"
    /\ item' = [item EXCEPT ![p] = NoEvent]
    /\ Goto(p, "idle")
    /\ UNCHANGED <<write_pos_, read_pos_, slots, pos>>

-----------------------------------------------------------------------------
(* pop()                                                                    *)
Pop(c) ==
    /\ pc[c] = "idle"
    /\ pos' = [pos EXCEPT ![c] = read_pos_]
    /\ Goto(c, "look")
    /\ UNCHANGED <<write_pos_, read_pos_, slots, item>>

Published_Mutant(c) == seq[Slot(pos[c])] >= pos[c]
Published(c)        == seq[Slot(pos[c])] = pos[c] + 1

PopEmpty(c) ==
    /\ pc[c] = "look" /\ ~Published(c)
    /\ Goto(c, "idle")
    /\ UNCHANGED <<write_pos_, read_pos_, slots, pos, item>>

PopFinds(c) ==
    /\ pc[c] = "look" /\ Published(c)
    /\ Goto(c, "move")
    /\ UNCHANGED <<write_pos_, read_pos_, slots, pos, item>>

(* Two threads that move from one slot at once race: the second may get the *)
(* event or what a move leaves behind.                                      *)
MovedFrom(c) ==
    IF \E d \in Consumers \ {c} : pc[d] \in {"free", "advance"} /\ pos[d] = pos[c]
    THEN {data[Slot(pos[c])], NoEvent}
    ELSE {data[Slot(pos[c])]}

MoveData(c) ==
    /\ pc[c] = "move"
    /\ \E e \in MovedFrom(c) : item' = [item EXCEPT ![c] = e]
    /\ data' = [data EXCEPT ![Slot(pos[c])] = NoEvent]
    /\ Goto(c, "free")
    /\ UNCHANGED <<write_pos_, read_pos_, seq, pos>>

(* The sequence number that gives the slot of position k back.              *)
NextLap(k) == k + Capacity

FreeSlot(c) ==
    /\ pc[c] = "free"
    /\ seq' = [seq EXCEPT ![Slot(pos[c])] = NextLap(pos[c])]
    /\ Goto(c, "advance")
    /\ UNCHANGED <<write_pos_, read_pos_, data, pos, item>>

Advance(c) ==
    /\ pc[c] = "advance"
    /\ read_pos_' = pos[c] + 1
    /\ Goto(c, "popped")
    /\ UNCHANGED <<write_pos_, slots, pos, item>>

(* The caller of pop() is done with the event.                              *)
Popped(c) ==
    /\ pc[c] = "popped"
    /\ item' = [item EXCEPT ![c] = NoEvent]
    /\ Goto(c, "idle")
    /\ UNCHANGED <<write_pos_, read_pos_, slots, pos>>

-----------------------------------------------------------------------------
Pushing(p) == \/ CheckSlot(p) \/ Reload(p) \/ Claim(p) \/ ClaimFails(p)
              \/ WriteData(p) \/ Publish(p) \/ Discard(p)

Popping(c) == PopFinds(c) \/ MoveData(c) \/ FreeSlot(c) \/ Advance(c)

RingNext ==
    \/ \E p \in Producers : Pushing(p) \/ \E e \in Events : Push(p, e)
    \/ \E c \in Consumers : Pop(c) \/ PopEmpty(c) \/ Popping(c) \/ Popped(c)

RingSpec == RingInit /\ [][RingNext]_ring

-----------------------------------------------------------------------------
(* Properties.                                                              *)

(* How many positions the consumer has given back to the producers.         *)
Released == read_pos_ + IF \E c \in Consumers : pc[c] = "advance" THEN 1 ELSE 0

(* Every variable has its type, and no thread is ahead of the counters.     *)
RingTypeOK ==
    /\ write_pos_ \in Nat /\ read_pos_ \in 0 .. write_pos_
    /\ seq \in [0 .. Capacity - 1 -> Nat]
    /\ data \in [0 .. Capacity - 1 -> Events \cup {NoEvent}]
    /\ pc \in [Threads -> {"idle", "check", "reload", "claim", "refused",
                           "write", "publish", "look", "move", "free",
                           "advance", "popped"}]
    /\ pos \in [Threads -> 0 .. write_pos_]
    /\ item \in [Threads -> Events \cup {NoEvent}]

(* The data of a slot is not atomic: the sequence numbers alone keep two    *)
(* threads, of either kind, from being at the data of one slot at once.     *)
AtData(t) == pc[t] \in {"write", "publish", "move", "free"}
NoDataRace ==
    \A t, u \in Threads :
        t # u /\ AtData(t) /\ AtData(u) => Slot(pos[t]) # Slot(pos[u])

(* The event of an accepted position that is not yet taken.                 *)
EventAt(k) ==
    IF \E p \in Producers : pc[p] = "write" /\ pos[p] = k
    THEN item[CHOOSE p \in Producers : pc[p] = "write" /\ pos[p] = k]
    ELSE IF \E c \in Consumers : pc[c] = "free" /\ pos[c] = k
    THEN item[CHOOSE c \in Consumers : pc[c] = "free" /\ pos[c] = k]
    ELSE data[Slot(k)]

(* The ring implements BoundedQueue: a push takes effect at its claim, a    *)
(* pop when it frees the slot.                                              *)
Queue == INSTANCE BoundedQueue WITH
    queue <- [i \in 1 .. write_pos_ - Released |-> EventAt(Released + i - 1)],
    refused <- {p \in Producers : pc[p] = "refused"},
    hand <- IF \E c \in Consumers : pc[c] \in {"advance", "popped"}
            THEN item[CHOOSE c \in Consumers : pc[c] \in {"advance", "popped"}]
            ELSE NoEvent
ImplementsBoundedQueue == Queue!Spec
=============================================================================
