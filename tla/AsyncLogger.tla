---------------------------- MODULE AsyncLogger ----------------------------
(***************************************************************************)
(* The asynchronous logger: log() pushes to the ring, the background       *)
(* thread pops batches and calls the sink, flush() and the destructor      *)
(* drain on the thread that calls them.  Every consumer of the ring is a   *)
(* thread that runs one of the three drain loops.                          *)
(***************************************************************************)
EXTENDS LockFreeRingBuffer

CONSTANTS Flusher,      \* the background thread
          Flushers,     \* threads that may call flush()
          Owner,        \* the thread that destroys the logger
          Batch         \* pops in one drainBatch() (256 in the code)

ASSUME LoggerAssumption ==
    /\ Consumers = {Flusher, Owner} \cup Flushers
    /\ Flusher \notin Flushers \cup {Owner} /\ Owner \notin Flushers
    /\ Batch \in Nat \ {0}

VARIABLES
    loop,       \* of a consumer: the loop it is in
    left,       \* pops left in the batch of the background thread
    stop,       \* request_stop() has been called
    sink_       \* the events the sink has been called with, in order

logger == <<loop, left, stop, sink_>>
vars   == <<ring, logger>>

Init ==
    /\ RingInit
    /\ loop = [c \in Consumers |-> IF c = Flusher THEN "check" ELSE "none"]
    /\ left = 0 /\ stop = FALSE /\ sink_ = <<>>

InLoop(c, l) == loop' = [loop EXCEPT ![c] = l]

(* Once the owner destroys the logger nobody else may use it: every call of *)
(* log() and flush() has returned.                                          *)
Alive == ~stop

Log(p, e) == /\ Alive
             /\ Push(p, e)
             /\ UNCHANGED logger

Logging(p) == Pushing(p) /\ UNCHANGED logger

-----------------------------------------------------------------------------
(* drainBatch(), drainAll(): pop, stop at nothing, else call the sink.      *)
StartPop(c) == /\ \/ loop[c] \in {"flush", "destroy"}
                  \/ loop[c] = "batch" /\ left > 0
               /\ Pop(c)
               /\ left' = IF loop[c] = "batch" THEN left - 1 ELSE left
               /\ UNCHANGED <<loop, stop, sink_>>

Draining(c) == Popping(c) /\ UNCHANGED logger

CallSink(c) == /\ Popped(c)
               /\ sink_' = Append(sink_, item[c])
               /\ UNCHANGED <<loop, left, stop>>

AfterEmpty_Mutant(l) == IF l = "flush" THEN "flushed" ELSE "gone"
AfterEmpty(l) == CASE l = "batch"   -> "check"
                   [] l = "flush"   -> "flushed"
                   [] l = "destroy" -> "gone"

NothingLeft(c) ==
    /\ PopEmpty(c)
    /\ InLoop(c, AfterEmpty(loop[c]))
    /\ UNCHANGED <<left, stop, sink_>>

BatchDone == /\ loop[Flusher] = "batch" /\ left = 0 /\ pc[Flusher] = "idle"
             /\ InLoop(Flusher, "check")
             /\ UNCHANGED <<ring, left, stop, sink_>>

(* flushLoop(): the stop token is read between two batches.                 *)
StopRequested_Mutant == FALSE
StopRequested        == stop

NextBatch == /\ loop[Flusher] = "check" /\ ~StopRequested
             /\ InLoop(Flusher, "batch") /\ left' = Batch
             /\ UNCHANGED <<ring, stop, sink_>>

FlushLoopEnds == /\ loop[Flusher] = "check" /\ StopRequested
                 /\ InLoop(Flusher, "gone")
                 /\ UNCHANGED <<ring, left, stop, sink_>>

-----------------------------------------------------------------------------
(* flush() makes its caller a consumer of the ring.                         *)
Flush(c) ==
    /\ Alive /\ c \in Flushers /\ loop[c] = "none"
    /\ InLoop(c, "flush")
    /\ UNCHANGED <<ring, left, stop, sink_>>

FlushReturns(c) ==
    /\ loop[c] = "flushed"
    /\ InLoop(c, "none")
    /\ UNCHANGED <<ring, left, stop, sink_>>

(* The destructor: request_stop(), join(), drainAll().                      *)
Destroy ==
    /\ Alive
    /\ \A p \in Producers : pc[p] = "idle"
    /\ \A c \in Flushers : loop[c] = "none"
    /\ stop' = TRUE /\ InLoop(Owner, "join")
    /\ UNCHANGED <<ring, left, sink_>>

Drain_Mutant == "gone"
Drain        == "destroy"

Joined ==
    /\ loop[Owner] = "join" /\ loop[Flusher] = "gone"
    /\ InLoop(Owner, Drain)
    /\ UNCHANGED <<ring, left, stop, sink_>>

-----------------------------------------------------------------------------
Consume(c) == \/ StartPop(c) \/ Draining(c) \/ CallSink(c) \/ NothingLeft(c)
              \/ FlushReturns(c)
              \/ c = Flusher /\ (BatchDone \/ NextBatch \/ FlushLoopEnds)
              \/ c = Owner /\ Joined

Next == \/ \E p \in Producers : Logging(p) \/ \E e \in Events : Log(p, e)
        \/ \E c \in Consumers : Consume(c) \/ Flush(c)
        \/ Destroy

Spec == Init /\ [][Next]_vars

(* The threads are scheduled; nobody has to log, flush or destroy.          *)
Fairness == /\ \A p \in Producers : WF_vars(Logging(p))
            /\ \A c \in Consumers : WF_vars(Consume(c))

FairSpec == Spec /\ Fairness

-----------------------------------------------------------------------------
(* Properties.                                                              *)
LoggerTypeOK ==
    /\ RingTypeOK
    /\ loop \in [Consumers -> {"check", "batch", "gone", "none", "flush",
                               "flushed", "join", "destroy"}]
    /\ left \in 0 .. Batch /\ stop \in BOOLEAN
    /\ sink_ \in Seq(Events \cup {NoEvent})

(* The destructor "drains any remaining events in the buffer": when it is   *)
(* over, no slot holds an event that log() accepted.                        *)
DestructorDrains ==
    loop[Owner] = "gone" => \A s \in DOMAIN data : data[s] = NoEvent

(* The destructor comes to its end, whichever threads have called flush():  *)
(* the background thread sees the stop request and the drain finds an end.  *)
ShutdownEnds == stop ~> loop[Owner] = "gone"

(* No event is lost, repeated or overtaken on its way to the sink: an event *)
(* reaches the sink when it is the oldest that the sink has not had.        *)
SinkInOrder == [][\A c \in Consumers :
                     CallSink(c) => pos[c] = Len(sink_) /\ item[c] \in Events]_vars

(* An accepted event reaches the sink, even if nothing is logged after it.  *)
EventReachesSink ==
    \A k \in 1 .. MaxPushes : write_pos_ = k ~> Len(sink_) >= k
=============================================================================
