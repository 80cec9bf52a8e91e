---------------------------- MODULE BoundedQueue ----------------------------
(***************************************************************************)
(* What LockFreeRingBuffer promises: a queue of at most Capacity events    *)
(* that keeps their order, refuses an event only when it is full, and      *)
(* gives each event it accepted to its one consumer once.                  *)
(***************************************************************************)
EXTENDS Integers, Sequences

CONSTANTS Producers, Events, NoEvent, Capacity

VARIABLES
    queue,      \* the events accepted and not yet taken, oldest first
    refused,    \* the producers whose push() is about to return false
    hand        \* the event that pop() is about to return, or NoEvent

Init == queue = <<>> /\ refused = {} /\ hand = NoEvent

Accept(e) == /\ Len(queue) < Capacity
             /\ queue' = Append(queue, e)
             /\ UNCHANGED <<refused, hand>>

Refuse(p) == /\ Len(queue) = Capacity
             /\ refused' = refused \cup {p}
             /\ UNCHANGED <<queue, hand>>

Refused(p) == /\ refused' = refused \ {p}
              /\ UNCHANGED <<queue, hand>>

Take == /\ queue # <<>> /\ hand = NoEvent
        /\ queue' = Tail(queue) /\ hand' = Head(queue)
        /\ UNCHANGED refused

Give == /\ hand' = NoEvent
        /\ UNCHANGED <<queue, refused>>

Next == \/ \E e \in Events : Accept(e)
        \/ \E p \in Producers : Refuse(p) \/ Refused(p)
        \/ Take \/ Give

Spec == Init /\ [][Next]_<<queue, refused, hand>>
=============================================================================
