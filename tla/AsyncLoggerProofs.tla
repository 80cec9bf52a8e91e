------------------------- MODULE AsyncLoggerProofs -------------------------
(***************************************************************************)
(* Proofs about the logger when nobody calls flush(): its two consumers    *)
(* take turns, so the invariant of the ring holds, and with it the order   *)
(* at the sink and the destructor's promise.                               *)
(***************************************************************************)
EXTENDS AsyncLogger, LockFreeRingBufferProofs

NobodyFlushes == Flushers = {}

(* The destroying thread pops once the background thread is gone and every  *)
(* log() has returned.                                                      *)
TurnsInv ==
    /\ loop[Flusher] \in {"check", "batch", "gone"}
    /\ loop[Owner] \in {"none", "join", "destroy", "gone"}
    /\ pc[Flusher] # "idle" => loop[Flusher] = "batch"
    /\ pc[Owner] # "idle" => loop[Owner] = "destroy"
    /\ loop[Owner] \in {"destroy", "gone"} => loop[Flusher] = "gone"
    /\ loop[Flusher] = "gone" => stop
    /\ stop => \A p \in Producers : pc[p] = "idle"

(* The sink has had the events of all positions that pop() has returned.    *)
SinkInv ==
    /\ \A c \in Consumers : pc[c] = "popped" => pos[c] = Len(sink_)
    /\ (\A c \in Consumers : pc[c] # "popped") => read_pos_ = Len(sink_)

LoggerInv == RingInv /\ LoggerTypeOK /\ TurnsInv /\ SinkInv /\ DestructorDrains

-----------------------------------------------------------------------------
LEMMA TwoConsumers ==
    ASSUME NobodyFlushes
    PROVE  /\ Consumers = {Flusher, Owner} /\ Flusher # Owner
           /\ Flusher \in Threads /\ Owner \in Threads /\ Batch \in Nat
           /\ \A p \in Producers : p \in Threads /\ p # Flusher /\ p # Owner
BY LoggerAssumption, ThreadsAssumption DEF NobodyFlushes, Threads

(* What a step of one thread of the ring leaves to the others.              *)
LEMMA RingStepPlaces ==
    ASSUME RingTypeOK, NEW t \in Threads,
           \/ t \in Producers /\ (Pushing(t) \/ \E e \in Events : Push(t, e))
           \/ t \in Consumers /\ (Pop(t) \/ PopEmpty(t) \/ Popping(t) \/ Popped(t))
    PROVE  /\ \A u \in Threads \ {t} : pc'[u] = pc[u] /\ pos'[u] = pos[u]
           /\ (\A e \in Events : ~ Push(t, e)) /\ ~ Pop(t) => pc[t] # "idle"
           /\ ~ Advance(t) => read_pos_' = read_pos_
           /\ ~ Advance(t) => pc'[t] # "popped"
<1>1. CASE \E e \in Events : Push(t, e)
  BY <1>1 DEF Push, RingTypeOK, Goto, Advance
<1>2. CASE Pushing(t) \/ Pop(t) \/ PopEmpty(t) \/ Popping(t) \/ Popped(t)
  BY <1>2 DEF Pushing, CheckSlot, Reload, Claim, ClaimFails, WriteData, Publish, Discard,
              Pop, PopEmpty, Popping, PopFinds, MoveData, FreeSlot, Advance, Popped,
              RingTypeOK, Goto, slots
<1>3. QED
  BY <1>1, <1>2

LEMMA LoggerInit ==
    ASSUME NobodyFlushes, Init
    PROVE  LoggerInv
<1> USE TwoConsumers
<1>1. RingInv
  BY RingInitInv DEF Init
<1>2. LoggerTypeOK
  <2>1. sink_ \in Seq(Events \cup {NoEvent})
    BY EmptySeq DEF Init
  <2>2. RingTypeOK /\ left \in 0 .. Batch
    BY <1>1 DEF RingInv, Init
  <2>3. QED
    BY <2>1, <2>2 DEF Init, LoggerTypeOK
<1>3. TurnsInv
  BY DEF Init, RingInit, TurnsInv
<1>4. SinkInv
  BY EmptySeq DEF Init, RingInit, SinkInv
<1>5. DestructorDrains
  BY DEF Init, DestructorDrains
<1>6. QED
  BY <1>1, <1>2, <1>3, <1>4, <1>5 DEF LoggerInv

(* log(): nobody logs once the logger is being destroyed.                   *)
LEMMA LoggingKeeps ==
    ASSUME NobodyFlushes, TwoSlots, LoggerInv, NEW p \in Producers,
           Logging(p) \/ \E e \in Events : Log(p, e)
    PROVE  LoggerInv'
<1> USE TwoConsumers DEF LoggerInv
<1>1. /\ Pushing(p) \/ \E e \in Events : Push(p, e)
      /\ UNCHANGED <<loop, left, stop, sink_>>
  BY DEF Logging, Log, logger
<1>2. ~ Advance(p)
  BY DEF RingInv, ProducerInv, Advance
<1>3. ~ stop
  <2>1. CASE \E e \in Events : Log(p, e)
    BY <2>1 DEF Log, Alive
  <2>2. CASE Logging(p)
    <3>1. pc[p] # "idle"
      BY <2>2 DEF Logging, Pushing, CheckSlot, Reload, Claim, ClaimFails, WriteData,
                  Publish, Discard
    <3>2. QED
      BY <3>1 DEF TurnsInv
  <2>3. QED
    BY <2>1, <2>2
<1>4. RingInv'
  BY <1>1, PushingKeeps
<1>5. /\ \A c \in Consumers : pc'[c] = pc[c] /\ pos'[c] = pos[c]
      /\ read_pos_' = read_pos_
  BY <1>1, <1>2, RingStepPlaces DEF RingInv
<1>6. LoggerTypeOK'
  BY <1>1, <1>4 DEF RingInv, LoggerTypeOK
<1>7. TurnsInv'
  BY <1>1, <1>3, <1>5 DEF TurnsInv
<1>8. SinkInv'
  BY <1>1, <1>5 DEF SinkInv
<1>9. DestructorDrains'
  BY <1>1, <1>3 DEF TurnsInv, DestructorDrains
<1>10. QED
  BY <1>4, <1>6, <1>7, <1>8, <1>9

-----------------------------------------------------------------------------
(* The drain loops.                                                         *)
LEMMA ConsumerPlaces ==
    ASSUME NobodyFlushes, LoggerInv, NEW c \in Consumers,
           Pop(c) \/ PopEmpty(c) \/ Popping(c) \/ Popped(c)
    PROVE  /\ \A p \in Producers : pc'[p] = pc[p]
           /\ \A d \in Consumers \ {c} : pc'[d] = pc[d] /\ pos'[d] = pos[d]
<1>1. \A u \in Threads \ {c} : pc'[u] = pc[u] /\ pos'[u] = pos[u]
  BY TwoConsumers, RingStepPlaces DEF LoggerInv, RingInv
<1>2. QED
  BY <1>1, TwoConsumers

(* A consumer that is not idle is alone: the other one is.                  *)
LEMMA OneAtATime ==
    ASSUME NobodyFlushes, TurnsInv, NEW c \in Consumers,
           pc[c] # "idle" \/ loop[c] \in {"batch", "destroy"}
    PROVE  /\ \A d \in Consumers : d # c => pc[d] = "idle"
           /\ loop[c] \in {"batch", "destroy"} /\ loop[Owner] # "gone"
           /\ c = Flusher => loop[c] = "batch"
           /\ c = Owner => loop[c] = "destroy"
BY TwoConsumers DEF TurnsInv

LEMMA StartPopKeeps ==
    ASSUME NobodyFlushes, TwoSlots, LoggerInv, NEW c \in Consumers, StartPop(c)
    PROVE  LoggerInv'
<1> USE TwoConsumers DEF LoggerInv
<1>1. /\ loop[c] \in {"batch", "flush", "destroy"} /\ pc[c] = "idle" /\ Pop(c)
      /\ loop[c] = "batch" => left > 0
      /\ left' = IF loop[c] = "batch" THEN left - 1 ELSE left
      /\ UNCHANGED <<loop, stop, sink_>> /\ pc'[c] = "look" /\ read_pos_' = read_pos_
      /\ data' = data
  BY DEF StartPop, Pop, RingInv, RingTypeOK, Goto, slots
<1>2. /\ \A d \in Consumers : pc[d] = "idle"
      /\ c = Flusher => loop[c] = "batch"
      /\ c = Owner => loop[c] = "destroy"
      /\ loop[Owner] # "gone"
  BY <1>1, OneAtATime DEF TurnsInv
<1>3. RingInv'
  BY <1>1, <1>2, PoppingKeeps
<1>4. /\ \A p \in Producers : pc'[p] = pc[p]
      /\ \A d \in Consumers \ {c} : pc'[d] = pc[d] /\ pos'[d] = pos[d]
  BY <1>1, ConsumerPlaces
<1>5. LoggerTypeOK'
  BY <1>1, <1>3 DEF RingInv, LoggerTypeOK
<1>6. TurnsInv'
  BY <1>1, <1>2, <1>4 DEF TurnsInv
<1>7. SinkInv'
  BY <1>1, <1>2, <1>4 DEF SinkInv
<1>8. DestructorDrains'
  BY <1>1, <1>2 DEF DestructorDrains
<1>9. QED
  BY <1>3, <1>5, <1>6, <1>7, <1>8

LEMMA DrainingKeeps ==
    ASSUME NobodyFlushes, TwoSlots, LoggerInv, NEW c \in Consumers, Draining(c)
    PROVE  LoggerInv'
<1> USE TwoConsumers DEF LoggerInv
<1>1. /\ UNCHANGED <<loop, left, stop, sink_>> /\ Popping(c)
      /\ pc[c] \in {"look", "move", "free", "advance"}
      /\ pc'[c] \in {"move", "free", "advance", "popped"}
      /\ pos'[c] = pos[c]
      /\ pc'[c] = "popped" => pc[c] = "advance"
      /\ pc'[c] # "popped" => read_pos_' = read_pos_
  BY DEF Draining, logger, Popping, PopFinds, MoveData, FreeSlot, Advance, RingInv,
         RingTypeOK, Goto, slots
<1>2. /\ \A d \in Consumers : d # c => pc[d] = "idle"
      /\ c = Flusher => loop[c] = "batch"
      /\ c = Owner => loop[c] = "destroy"
      /\ loop[Owner] # "gone"
  BY <1>1, OneAtATime
<1>3. RingInv'
  BY <1>1, PoppingKeeps
<1>4. /\ \A p \in Producers : pc'[p] = pc[p]
      /\ \A d \in Consumers \ {c} : pc'[d] = pc[d] /\ pos'[d] = pos[d]
  BY <1>1, ConsumerPlaces
<1>5. LoggerTypeOK'
  BY <1>1, <1>3 DEF RingInv, LoggerTypeOK
<1>6. TurnsInv'
  BY <1>1, <1>2, <1>4 DEF TurnsInv
<1>7. SinkInv'
  <2>1. read_pos_ = Len(sink_)
    BY <1>1, <1>2 DEF SinkInv
  <2>2. CASE pc'[c] = "popped"
    <3>1. pos'[c] = Len(sink_)
      BY <1>1, <2>1, <2>2 DEF RingInv, ConsumerInv
    <3>2. QED
      BY <1>1, <1>2, <1>4, <2>2, <3>1 DEF SinkInv
  <2>3. CASE pc'[c] # "popped"
    BY <1>1, <1>2, <1>4, <2>1, <2>3 DEF SinkInv
  <2>4. QED
    BY <2>2, <2>3
<1>8. DestructorDrains'
  BY <1>1, <1>2 DEF DestructorDrains
<1>9. QED
  BY <1>3, <1>5, <1>6, <1>7, <1>8

LEMMA CallSinkKeeps ==
    ASSUME NobodyFlushes, TwoSlots, LoggerInv, NEW c \in Consumers, CallSink(c)
    PROVE  LoggerInv'
<1> USE TwoConsumers DEF LoggerInv
<1>1. /\ UNCHANGED <<loop, left, stop>> /\ sink_' = Append(sink_, item[c])
      /\ Popped(c) /\ pc[c] = "popped" /\ pc'[c] = "idle" /\ read_pos_' = read_pos_
  BY DEF CallSink, Popped, RingInv, RingTypeOK, Goto
<1>2. /\ \A d \in Consumers : d # c => pc[d] = "idle"
      /\ loop[Owner] # "gone"
  BY <1>1, OneAtATime
<1>3. RingInv'
  BY <1>1, PoppingKeeps
<1>4. /\ \A p \in Producers : pc'[p] = pc[p]
      /\ \A d \in Consumers \ {c} : pc'[d] = pc[d] /\ pos'[d] = pos[d]
  BY <1>1, ConsumerPlaces
<1>5. /\ sink_' \in Seq(Events \cup {NoEvent}) /\ Len(sink_') = Len(sink_) + 1
  <2>1. item[c] \in Events \cup {NoEvent} /\ sink_ \in Seq(Events \cup {NoEvent})
    BY DEF LoggerTypeOK, RingTypeOK
  <2>2. QED
    BY <1>1, <2>1, AppendProperties
<1>6. LoggerTypeOK'
  BY <1>1, <1>3, <1>5 DEF RingInv, LoggerTypeOK
<1>7. TurnsInv'
  BY <1>1, <1>2, <1>4 DEF TurnsInv
<1>8. SinkInv'
  <2>1. read_pos_ = Len(sink_) + 1
    BY <1>1 DEF SinkInv, RingInv, ConsumerInv
  <2>2. QED
    BY <1>1, <1>2, <1>4, <1>5, <2>1 DEF SinkInv
<1>9. DestructorDrains'
  BY <1>1, <1>2 DEF DestructorDrains
<1>10. QED
  BY <1>3, <1>6, <1>7, <1>8, <1>9

(* The drain of the destructor ends at a ring that holds no event: no log() *)
(* is in progress, so that the oldest position, if there were one, would be *)
(* published.                                                               *)
LEMMA NothingLeftKeeps ==
    ASSUME NobodyFlushes, TwoSlots, LoggerInv, NEW c \in Consumers, NothingLeft(c)
    PROVE  LoggerInv'
<1> USE TwoConsumers DEF LoggerInv
<1>1. /\ UNCHANGED <<left, stop, sink_, read_pos_, data>>
      /\ loop' = [loop EXCEPT ![c] = AfterEmpty(loop[c])]
      /\ PopEmpty(c) /\ pc[c] = "look" /\ pc'[c] = "idle"
      /\ seq[Slot(pos[c])] # pos[c] + 1
  BY DEF NothingLeft, InLoop, PopEmpty, Published, RingInv, RingTypeOK, Goto, slots
<1>2. /\ \A d \in Consumers : d # c => pc[d] = "idle"
      /\ c = Flusher => loop[c] = "batch"
      /\ c = Owner => loop[c] = "destroy"
      /\ loop[Owner] # "gone"
  BY <1>1, OneAtATime
<1>3. RingInv'
  BY <1>1, PoppingKeeps
<1>4. /\ \A p \in Producers : pc'[p] = pc[p]
      /\ \A d \in Consumers \ {c} : pc'[d] = pc[d] /\ pos'[d] = pos[d]
  BY <1>1, ConsumerPlaces
<1>5. /\ c = Flusher => loop'[c] = "check" /\ loop'[Owner] = loop[Owner]
      /\ c = Owner => loop'[c] = "gone" /\ loop'[Flusher] = loop[Flusher]
      /\ loop' \in [Consumers -> {"check", "batch", "gone", "none", "flush",
                                  "flushed", "join", "destroy"}]
  BY <1>1, <1>2 DEF AfterEmpty, LoggerTypeOK
<1>6. LoggerTypeOK'
  BY <1>1, <1>3, <1>5 DEF RingInv, LoggerTypeOK
<1>7. TurnsInv'
  BY <1>1, <1>2, <1>4, <1>5 DEF TurnsInv
<1>8. SinkInv'
  BY <1>1, <1>2, <1>4 DEF SinkInv
<1>9. DestructorDrains'
  <2>1. SUFFICES ASSUME c = Owner PROVE \A s \in DOMAIN data : data[s] = NoEvent
    BY <1>1, <1>2, <1>5 DEF DestructorDrains
  <2>2. \A p \in Producers : pc[p] = "idle"
    BY <1>2, <2>1 DEF TurnsInv
  <2>3. /\ Released = read_pos_ /\ pos[c] = read_pos_ /\ read_pos_ \in Nat
        /\ write_pos_ \in Nat /\ read_pos_ \in Window
    <3>1. \A d \in Consumers : pc[d] # "advance"
      BY <1>1, <1>2
    <3>2. Released = read_pos_ /\ read_pos_ \in Nat
      BY <3>1, ReleasedType DEF Released, RingInv
    <3>3. QED
      BY <1>1, <3>2, ReleasedType DEF Window, RingInv, ConsumerInv
  <2>4. ~ (read_pos_ < write_pos_)
    <3>1. \A p \in Producers : Writing(p) => pos[p] # read_pos_
      BY <2>2 DEF Writing
    <3>2. QED
      BY <1>1, <2>3, <3>1 DEF RingInv, SlotInv
  <2>5. Released .. write_pos_ - 1 = {}
    BY <2>3, <2>4
  <2>6. \A s \in 0 .. Capacity - 1 : data[s] = NoEvent
    BY <2>5 DEF RingInv, DataInv
  <2>7. QED
    BY <2>6 DEF RingInv, RingTypeOK
<1>10. QED
  BY <1>3, <1>6, <1>7, <1>8, <1>9

-----------------------------------------------------------------------------
(* The steps of the logger that leave the ring alone.                       *)
LEMMA LoopKeeps ==
    ASSUME NobodyFlushes, LoggerInv,
           BatchDone \/ NextBatch \/ FlushLoopEnds \/ Joined
    PROVE  LoggerInv'
<1> USE TwoConsumers DEF LoggerInv
<1>1. UNCHANGED <<ring, stop, sink_>> /\ left' \in {left, Batch}
  BY DEF BatchDone, NextBatch, FlushLoopEnds, Joined
<1>2. RingInv'
  BY <1>1, RingUnchangedKeeps
<1>3. UNCHANGED <<pc, pos, read_pos_, data>>
  BY <1>1 DEF ring, threads, slots
<1>4. LoggerTypeOK'
  <2>1. loop' \in [Consumers -> {"check", "batch", "gone", "none", "flush",
                                "flushed", "join", "destroy"}]
    BY DEF BatchDone, NextBatch, FlushLoopEnds, Joined, InLoop, LoggerTypeOK, Drain
  <2>2. left' \in 0 .. Batch
    BY <1>1 DEF LoggerTypeOK
  <2>3. QED
    BY <1>1, <1>2, <2>1, <2>2 DEF LoggerTypeOK, RingInv
<1>5. TurnsInv'
  BY <1>1, <1>3 DEF BatchDone, NextBatch, FlushLoopEnds, Joined, InLoop, LoggerTypeOK, Drain,
                    StopRequested, TurnsInv
<1>6. SinkInv'
  BY <1>1, <1>3 DEF SinkInv
<1>7. DestructorDrains'
  <2>1. loop'[Owner] = "gone" => loop[Owner] = "gone"
    BY DEF BatchDone, NextBatch, FlushLoopEnds, Joined, InLoop, LoggerTypeOK, Drain
  <2>2. QED
    BY <1>3, <2>1 DEF DestructorDrains
<1>8. QED
  BY <1>2, <1>4, <1>5, <1>6, <1>7

LEMMA DestroyKeeps ==
    ASSUME NobodyFlushes, LoggerInv, Destroy
    PROVE  LoggerInv'
<1> USE TwoConsumers DEF LoggerInv
<1>1. /\ UNCHANGED <<ring, left, sink_>> /\ stop' = TRUE /\ ~ stop
      /\ \A p \in Producers : pc[p] = "idle"
      /\ loop' = [loop EXCEPT ![Owner] = "join"]
  BY DEF Destroy, InLoop, Alive
<1>2. RingInv'
  BY <1>1, RingUnchangedKeeps
<1>3. UNCHANGED <<pc, pos, read_pos_, data>>
  BY <1>1 DEF ring, threads, slots
<1>4. LoggerTypeOK'
  BY <1>1, <1>2 DEF LoggerTypeOK, RingInv
<1>5. TurnsInv'
  BY <1>1, <1>3 DEF LoggerTypeOK, TurnsInv
<1>6. SinkInv'
  BY <1>1, <1>3 DEF SinkInv
<1>7. DestructorDrains'
  BY <1>1 DEF LoggerTypeOK, DestructorDrains
<1>8. QED
  BY <1>2, <1>4, <1>5, <1>6, <1>7

LEMMA LoggerNextKeeps ==
    ASSUME NobodyFlushes, TwoSlots, LoggerInv, [Next]_vars
    PROVE  LoggerInv'
<1>1. CASE UNCHANGED vars
  <2>1. UNCHANGED ring /\ UNCHANGED <<loop, left, stop, sink_>>
    BY <1>1 DEF vars, logger
  <2>2. RingInv'
    BY <2>1, RingUnchangedKeeps DEF LoggerInv
  <2>3. UNCHANGED <<pc, pos, read_pos_, data>>
    BY <2>1 DEF ring, threads, slots
  <2>4. QED
    BY <2>1, <2>2, <2>3 DEF LoggerInv, RingInv, LoggerTypeOK, TurnsInv, SinkInv,
                            DestructorDrains
<1>2. ASSUME NEW p \in Producers, Logging(p) \/ \E e \in Events : Log(p, e)
      PROVE  LoggerInv'
  BY <1>2, LoggingKeeps
<1>3. ASSUME NEW c \in Consumers, Consume(c) \/ Flush(c)
      PROVE  LoggerInv'
  <2>1. ~ FlushReturns(c) /\ ~ Flush(c)
    BY TwoConsumers DEF LoggerInv, TurnsInv, FlushReturns, Flush, NobodyFlushes
  <2>2. QED
    BY <1>3, <2>1, StartPopKeeps, DrainingKeeps, CallSinkKeeps, NothingLeftKeeps, LoopKeeps
       DEF Consume
<1>4. CASE Destroy
  BY <1>4, DestroyKeeps
<1>5. QED
  BY <1>1, <1>2, <1>3, <1>4 DEF Next

-----------------------------------------------------------------------------
(* The invariant of the logger, for any number of logging threads.          *)
THEOREM LoggerInductiveInvariant ==
    ASSUME NobodyFlushes, TwoSlots
    PROVE  Spec => []LoggerInv
BY LoggerInit, LoggerNextKeeps, PTL DEF Spec

(* Every variable of the logger and of its ring has its type.               *)
THEOREM LoggerTypeCorrect ==
    ASSUME NobodyFlushes, TwoSlots
    PROVE  Spec => []LoggerTypeOK
<1>1. LoggerInv => LoggerTypeOK
  BY DEF LoggerInv
<1>2. QED
  BY <1>1, LoggerInductiveInvariant, PTL

(* When the destructor is over the ring holds no event that log() accepted. *)
THEOREM DestructorLosesNothing ==
    ASSUME NobodyFlushes, TwoSlots
    PROVE  Spec => []DestructorDrains
<1>1. LoggerInv => DestructorDrains
  BY DEF LoggerInv
<1>2. QED
  BY <1>1, LoggerInductiveInvariant, PTL

(* The sink is called with the event of position 0, 1, 2, ...: none is lost *)
(* or repeated, and none overtakes another.                                 *)
THEOREM SinkSeesAllInOrder ==
    ASSUME NobodyFlushes, TwoSlots
    PROVE  Spec => SinkInOrder
<1>1. LoggerInv => \A c \in Consumers :
        CallSink(c) => pos[c] = Len(sink_) /\ item[c] \in Events
  BY DEF LoggerInv, SinkInv, RingInv, ConsumerInv, CallSink, Popped
<1>2. QED
  BY <1>1, LoggerInductiveInvariant, PTL DEF Spec, SinkInOrder

-----------------------------------------------------------------------------
(* The end of the logger.  What is left to do of a pop, of a consumer's     *)
(* loop and, of eight steps at most for an event, of all the events.        *)
RankAt(place) ==
    CASE place = "idle" -> 6 [] place = "look" -> 5 [] place = "move" -> 4
      [] place = "free" -> 3 [] place = "advance" -> 2 [] OTHER -> 1
PopRank(c)  == RankAt(pc[c])
LoopRank(c) ==
    IF loop[c] \in {"batch", "join"} THEN 4
    ELSE IF loop[c] \in {"check", "destroy"} THEN 2 ELSE 0
Undelivered == write_pos_ - Len(sink_)
Share(c)    == PopRank(c) + LoopRank(c)
LoggerTodo  == 8 * Undelivered + Share(Flusher) + Share(Owner)

(* The guards of the steps of a consumer.                                   *)
CanConsume(c) ==
    \/ /\ pc[c] = "idle"
       /\ loop[c] \in {"flush", "destroy"} \/ (loop[c] = "batch" /\ left > 0)
    \/ pc[c] \in {"look", "move", "free", "advance", "popped"}
    \/ loop[c] = "flushed"
    \/ c = Flusher /\ \/ loop[c] = "batch" /\ left = 0 /\ pc[c] = "idle"
                      \/ loop[c] = "check"
    \/ c = Owner /\ loop[c] = "join" /\ loop[Flusher] = "gone"

(* Until the destructor has returned one of the two consumers can go on.    *)
DestructorMoves ==
    stop /\ loop[Owner] # "gone" => CanConsume(Flusher) \/ CanConsume(Owner)

OwnerInv == stop => loop[Owner] # "none"

LEMMA LoggerTodoType ==
    ASSUME NobodyFlushes, LoggerInv
    PROVE  /\ write_pos_ \in Nat /\ Len(sink_) \in Nat /\ Undelivered \in Nat
           /\ \A c \in Consumers : PopRank(c) \in 1 .. 6 /\ LoopRank(c) \in {0, 2, 4}
                                  /\ Share(c) \in Nat
           /\ LoggerTodo \in Nat
<1> USE TwoConsumers DEF LoggerInv
<1>1. /\ write_pos_ \in Nat /\ read_pos_ \in Nat /\ read_pos_ <= write_pos_
      /\ Len(sink_) \in Nat
  BY LenProperties DEF LoggerTypeOK, RingTypeOK
<1>2. Len(sink_) <= read_pos_
  <2>1. CASE \E c \in Consumers : pc[c] = "popped"
    <3>1. PICK c \in Consumers : pc[c] = "popped"
      BY <2>1
    <3>2. pos[c] = Len(sink_) /\ pos[c] + 1 = read_pos_
      BY <3>1 DEF SinkInv, RingInv, ConsumerInv
    <3>3. QED
      BY <1>1, <3>2
  <2>2. CASE \A c \in Consumers : pc[c] # "popped"
    BY <1>1, <2>2 DEF SinkInv
  <2>3. QED
    BY <2>1, <2>2
<1>3. Undelivered \in Nat
  BY <1>1, <1>2 DEF Undelivered
<1>4. \A c \in Consumers : PopRank(c) \in 1 .. 6 /\ LoopRank(c) \in {0, 2, 4}
                           /\ Share(c) \in Nat
  BY DEF PopRank, RankAt, LoopRank, Share
<1>5. QED
  BY <1>1, <1>3, <1>4 DEF LoggerTodo

(* After the stop request a step is one of a consumer.                      *)
LEMMA OnlyConsumers ==
    ASSUME NobodyFlushes, LoggerInv, stop, Next
    PROVE  \E c \in Consumers : Consume(c) /\ ~ FlushReturns(c)
<1> USE TwoConsumers DEF LoggerInv
<1>1. \A p \in Producers : ~ Logging(p) /\ \A e \in Events : ~ Log(p, e)
  BY DEF TurnsInv, Log, Alive, Logging, Pushing, CheckSlot, Reload, Claim, ClaimFails,
         WriteData, Publish, Discard
<1>2. ~ Destroy /\ \A c \in Consumers : ~ Flush(c)
  BY DEF Destroy, Flush, Alive
<1>3. \A c \in Consumers : ~ FlushReturns(c)
  BY DEF TurnsInv, FlushReturns
<1>4. QED
  BY <1>1, <1>2, <1>3 DEF Next

(* Each step of the shutdown makes what is left to do smaller: a pop goes   *)
(* forward, an event has reached the sink, or a loop is over.               *)
LEMMA ShutdownUsesUp ==
    ASSUME NobodyFlushes, TwoSlots, LoggerInv, stop, Next
    PROVE  stop' /\ LoggerTodo' < LoggerTodo
<1> USE TwoConsumers DEF LoggerInv
<1>1. PICK c \in Consumers : Consume(c) /\ ~ FlushReturns(c)
  BY OnlyConsumers
<1>2. /\ write_pos_ \in Nat /\ Len(sink_) \in Nat /\ Undelivered \in Nat
      /\ \A d \in Consumers : Share(d) \in Nat
  BY LoggerTodoType
<1>3. ASSUME \A d \in Consumers \ {c} : Share(d)' = Share(d),
             Undelivered' \in Int, Share(c)' \in Int,
             8 * Undelivered' + Share(c)' < 8 * Undelivered + Share(c)
      PROVE  LoggerTodo' < LoggerTodo
  <2>1. Share(Flusher) \in Int /\ Share(Owner) \in Int /\ Undelivered \in Int
    BY <1>2
  <2>2. CASE c = Flusher
    <3>1. Share(Owner)' = Share(Owner)
      BY <1>3, <2>2
    <3>2. /\ Undelivered' \in Int /\ Share(Flusher)' \in Int
          /\ 8 * Undelivered' + Share(Flusher)' < 8 * Undelivered + Share(Flusher)
      BY <1>3, <2>2
    <3>3. QED
      BY ONLY <2>1, <3>1, <3>2 DEF LoggerTodo
  <2>3. CASE c = Owner
    <3>1. Share(Flusher)' = Share(Flusher)
      BY <1>3, <2>3
    <3>2. /\ Undelivered' \in Int /\ Share(Owner)' \in Int
          /\ 8 * Undelivered' + Share(Owner)' < 8 * Undelivered + Share(Owner)
      BY <1>3, <2>3
    <3>3. QED
      BY ONLY <2>1, <3>1, <3>2 DEF LoggerTodo
  <2>4. QED
    BY <2>2, <2>3
<1>4. /\ Share(c) \in Int /\ Undelivered \in Int
      /\ PopRank(c) \in Int /\ LoopRank(c) \in Int
  BY <1>2, LoggerTodoType
<1>5. CASE StartPop(c) \/ Draining(c)
  <2>1. /\ <<pc[c], pc'[c]>> \in
              {<<"idle", "look">>, <<"look", "move">>, <<"move", "free">>,
               <<"free", "advance">>, <<"advance", "popped">>}
        /\ UNCHANGED <<write_pos_, loop, stop, sink_>>
    <3>1. pc \in [Threads -> {"idle", "check", "reload", "claim", "refused", "write",
                              "publish", "look", "move", "free", "advance", "popped"}]
      BY DEF RingInv, RingTypeOK
    <3>2. UNCHANGED <<write_pos_, loop, stop, sink_>>
      BY <1>5 DEF StartPop, Draining, logger, Pop, Popping, PopFinds, MoveData, FreeSlot,
                  Advance
    <3>3. CASE StartPop(c)
      BY <3>1, <3>2, <3>3 DEF StartPop, Pop, Goto
    <3>4. CASE PopFinds(c) \/ MoveData(c) \/ FreeSlot(c) \/ Advance(c)
      BY <3>1, <3>2, <3>4 DEF PopFinds, MoveData, FreeSlot, Advance, Goto
    <3>5. QED
      BY <1>5, <3>3, <3>4 DEF Draining, Popping
  <2>2. \A d \in Consumers \ {c} : pc'[d] = pc[d]
    BY <1>5, ConsumerPlaces DEF StartPop, Draining
  <2>3. \A d \in Consumers : LoopRank(d)' = LoopRank(d)
    BY <2>1 DEF LoopRank
  <2>4. /\ \A d \in Consumers \ {c} : Share(d)' = Share(d)
        /\ Share(c)' < Share(c) /\ Undelivered' = Undelivered /\ Share(c)' \in Int
    <3>1. PopRank(c)' = PopRank(c) - 1
      BY <2>1 DEF PopRank, RankAt
    <3>2. \A d \in Consumers \ {c} : Share(d)' = Share(d)
      BY <2>2, <2>3 DEF Share, PopRank
    <3>3. Share(c)' = Share(c) - 1
      BY <1>4, <2>3, <3>1 DEF Share
    <3>4. Undelivered' = Undelivered
      BY <2>1 DEF Undelivered
    <3>5. QED
      BY <1>4, <3>2, <3>3, <3>4
  <2>5. QED
    BY <1>3, <1>4, <2>1, <2>4
<1>6. CASE CallSink(c)
  <2>1. /\ pc[c] = "popped" /\ pc'[c] = "idle" /\ UNCHANGED <<write_pos_, loop, stop>>
        /\ sink_' = Append(sink_, item[c])
    BY <1>6 DEF CallSink, Popped, RingInv, RingTypeOK, Goto
  <2>2. \A d \in Consumers \ {c} : pc'[d] = pc[d]
    BY <1>6, ConsumerPlaces DEF CallSink
  <2>3. Len(sink_') = Len(sink_) + 1
    BY <2>1, AppendProperties DEF LoggerTypeOK, RingTypeOK
  <2>4. /\ \A d \in Consumers \ {c} : Share(d)' = Share(d)
        /\ Share(c)' = Share(c) + 5 /\ Undelivered' = Undelivered - 1
    <3>1. PopRank(c) = 1 /\ PopRank(c)' = 6
      BY <2>1 DEF PopRank, RankAt
    <3>2. \A d \in Consumers : LoopRank(d)' = LoopRank(d)
      BY <2>1 DEF LoopRank
    <3>3. \A d \in Consumers \ {c} : Share(d)' = Share(d)
      BY <2>2, <3>2 DEF Share, PopRank
    <3>4. Share(c)' = Share(c) + 5
      BY <1>4, <3>1, <3>2 DEF Share
    <3>5. Undelivered' = Undelivered - 1
      BY <1>2, <2>1, <2>3 DEF Undelivered
    <3>6. QED
      BY <3>3, <3>4, <3>5
  <2>5. QED
    BY <1>3, <1>4, <2>1, <2>4
<1>7. CASE NothingLeft(c)
  <2>1. /\ pc[c] = "look" /\ pc'[c] = "idle" /\ UNCHANGED <<write_pos_, stop, sink_>>
        /\ loop' = [loop EXCEPT ![c] = AfterEmpty(loop[c])]
    BY <1>7 DEF NothingLeft, InLoop, PopEmpty, RingInv, RingTypeOK, Goto, slots
  <2>2. \A d \in Consumers \ {c} : pc'[d] = pc[d]
    BY <1>7, ConsumerPlaces DEF NothingLeft
  <2>3. loop[c] \in {"batch", "destroy"}
    BY <2>1, OneAtATime
  <2>4. LoopRank(c)' = LoopRank(c) - 2 /\ \A d \in Consumers \ {c} : loop'[d] = loop[d]
    BY <2>1, <2>3 DEF LoopRank, AfterEmpty, LoggerTypeOK
  <2>5. /\ \A d \in Consumers \ {c} : Share(d)' = Share(d)
        /\ Share(c)' = Share(c) - 1 /\ Undelivered' = Undelivered
    <3>1. PopRank(c)' = PopRank(c) + 1
      BY <2>1 DEF PopRank, RankAt
    <3>2. \A d \in Consumers \ {c} : Share(d)' = Share(d)
      BY <2>2, <2>4 DEF Share, PopRank, LoopRank
    <3>3. Share(c)' = Share(c) - 1
      BY <1>4, <2>4, <3>1 DEF Share
    <3>4. Undelivered' = Undelivered
      BY <2>1 DEF Undelivered
    <3>5. QED
      BY <3>2, <3>3, <3>4
  <2>6. QED
    BY <1>3, <1>4, <2>1, <2>5
<1>8. CASE \/ c = Flusher /\ (BatchDone \/ NextBatch \/ FlushLoopEnds)
           \/ c = Owner /\ Joined
  <2>1. /\ UNCHANGED <<write_pos_, stop, sink_, pc>>
        /\ LoopRank(c)' = LoopRank(c) - 2 /\ \A d \in Consumers \ {c} : loop'[d] = loop[d]
    <3>1. UNCHANGED <<write_pos_, stop, sink_, pc>>
      BY <1>8 DEF BatchDone, NextBatch, FlushLoopEnds, Joined, ring, threads
    <3>2. /\ <<loop[c], loop'[c]>> \in
               {<<"batch", "check">>, <<"check", "gone">>, <<"join", "destroy">>}
          /\ \A d \in Consumers \ {c} : loop'[d] = loop[d]
      BY <1>8 DEF BatchDone, NextBatch, FlushLoopEnds, Joined, InLoop, StopRequested, Drain,
                  LoggerTypeOK
    <3>3. LoopRank(c)' = LoopRank(c) - 2
      BY <3>2 DEF LoopRank
    <3>4. QED
      BY <3>1, <3>2, <3>3
  <2>2. /\ \A d \in Consumers \ {c} : Share(d)' = Share(d)
        /\ Share(c)' = Share(c) - 2 /\ Undelivered' = Undelivered
    <3>1. \A d \in Consumers : PopRank(d)' = PopRank(d)
      BY <2>1 DEF PopRank
    <3>2. \A d \in Consumers \ {c} : Share(d)' = Share(d)
      BY <2>1, <3>1 DEF Share, LoopRank
    <3>3. Share(c)' = Share(c) - 2
      BY <1>4, <2>1, <3>1 DEF Share
    <3>4. Undelivered' = Undelivered
      BY <2>1 DEF Undelivered
    <3>5. QED
      BY <3>2, <3>3, <3>4
  <2>3. QED
    BY <1>3, <1>4, <2>1, <2>2
<1>9. QED
  BY <1>1, <1>5, <1>6, <1>7, <1>8 DEF Consume

LEMMA DestructorCanMove ==
    ASSUME NobodyFlushes, LoggerInv, OwnerInv
    PROVE  DestructorMoves
<1> SUFFICES ASSUME stop, loop[Owner] # "gone"
             PROVE  CanConsume(Flusher) \/ CanConsume(Owner)
  BY DEF DestructorMoves
<1> USE TwoConsumers DEF LoggerInv
<1>1. /\ pc[Flusher] \in {"idle", "look", "move", "free", "advance", "popped"}
      /\ pc[Owner] \in {"idle", "look", "move", "free", "advance", "popped"}
  BY DEF RingInv, ConsumerInv
<1>2. left \in 0 .. Batch
  BY DEF LoggerTypeOK
<1>3. loop[Flusher] # "gone" => CanConsume(Flusher)
  BY <1>1, <1>2 DEF TurnsInv, CanConsume
<1>4. loop[Flusher] = "gone" => CanConsume(Owner)
  BY <1>1 DEF TurnsInv, CanConsume, OwnerInv
<1>5. QED
  BY <1>3, <1>4

LEMMA OwnerKeeps ==
    ASSUME NobodyFlushes, LoggerInv, OwnerInv, [Next]_vars
    PROVE  OwnerInv'
<1> USE TwoConsumers DEF LoggerInv
<1>1. CASE Destroy
  BY <1>1 DEF Destroy, InLoop, LoggerTypeOK, OwnerInv
<1>2. CASE \E p \in Producers : Logging(p) \/ \E e \in Events : Log(p, e)
  BY <1>2 DEF Logging, Log, logger, OwnerInv
<1>3. ASSUME NEW c \in Consumers, Consume(c) \/ Flush(c)
      PROVE  OwnerInv'
  <2>1. ~ FlushReturns(c) /\ ~ Flush(c)
    BY DEF TurnsInv, FlushReturns, Flush, NobodyFlushes
  <2>2. CASE StartPop(c) \/ Draining(c) \/ CallSink(c)
    BY <2>2 DEF StartPop, Draining, CallSink, logger, OwnerInv
  <2>3. CASE NothingLeft(c)
    <3>1. loop[c] \in {"batch", "destroy"}
      BY <2>3, OneAtATime DEF NothingLeft, PopEmpty
    <3>2. QED
      BY <2>3, <3>1 DEF NothingLeft, InLoop, AfterEmpty, LoggerTypeOK, OwnerInv
  <2>4. CASE BatchDone \/ NextBatch \/ FlushLoopEnds \/ Joined
    BY <2>4 DEF BatchDone, NextBatch, FlushLoopEnds, Joined, InLoop, Drain, LoggerTypeOK,
                OwnerInv
  <2>5. QED
    BY <1>3, <2>1, <2>2, <2>3, <2>4 DEF Consume
<1>4. CASE UNCHANGED vars
  BY <1>4 DEF vars, logger, OwnerInv
<1>5. QED
  BY <1>1, <1>2, <1>3, <1>4 DEF Next

(* The destructor comes to its end, the part of ShutdownEnds that is not    *)
(* about fairness: until it has returned the background thread or the owner *)
(* can go on, and each step uses up some of what there is to do.            *)
THEOREM DestructorRunsOut ==
    ASSUME NobodyFlushes, TwoSlots
    PROVE  Spec => /\ [](DestructorMoves /\ LoggerTodo \in Nat)
                   /\ [][stop => stop' /\ LoggerTodo' < LoggerTodo]_vars
<1>1. Init => OwnerInv
  BY DEF Init, OwnerInv
<1>2. LoggerInv /\ OwnerInv /\ [Next]_vars => OwnerInv'
  BY OwnerKeeps
<1>3. LoggerInv /\ OwnerInv => DestructorMoves /\ LoggerTodo \in Nat
  BY DestructorCanMove, LoggerTodoType
<1>4. LoggerInv /\ [Next]_vars => [stop => stop' /\ LoggerTodo' < LoggerTodo]_vars
  BY ShutdownUsesUp
<1>5. QED
  BY <1>1, <1>2, <1>3, <1>4, LoggerInductiveInvariant, PTL DEF Spec

(* When the destructor has returned, every event that log() has accepted    *)
(* has been given to the sink: no position is claimed that it did not see.  *)
AllDelivered == loop[Owner] = "gone" => Len(sink_) = write_pos_

THEOREM AcceptedIsDelivered ==
    ASSUME NobodyFlushes, TwoSlots
    PROVE  Spec => []AllDelivered
<1> USE TwoConsumers
<1>1. ASSUME LoggerInv, loop[Owner] = "gone"
      PROVE  Len(sink_) = write_pos_
  <2> USE DEF LoggerInv
  <2>1. /\ stop /\ \A c \in Consumers : pc[c] = "idle"
        /\ \A p \in Producers : pc[p] = "idle"
    BY <1>1 DEF TurnsInv
  <2>2. Released = read_pos_ /\ read_pos_ = Len(sink_) /\ Released <= write_pos_
    <3>1. Released = read_pos_
      BY <1>1, <2>1, ReleasedType DEF Released, RingInv
    <3>2. QED
      BY <1>1, <2>1, <3>1 DEF SinkInv, RingInv, CountInv
  <2>3. \A k \in Released .. write_pos_ - 1 : data[Slot(k)] \in Events
    BY <1>1, <2>1 DEF RingInv, DataInv
  <2>4. \A k \in Released .. write_pos_ - 1 : data[Slot(k)] = NoEvent
    <3>1. \A s \in 0 .. Capacity - 1 : data[s] = NoEvent
      BY <1>1 DEF DestructorDrains, RingInv, RingTypeOK
    <3>2. \A k \in Released .. write_pos_ - 1 : k \in Nat
      BY <1>1, <2>2, ReleasedType DEF RingInv
    <3>3. QED
      BY <3>1, <3>2, SlotIsSlot
  <2>5. write_pos_ \in Nat /\ Released \in Nat /\ ~ (Released < write_pos_)
    <3>1. write_pos_ \in Nat /\ Released \in Nat
      BY <1>1, ReleasedType DEF RingInv
    <3>2. Released < write_pos_ => Released \in Released .. write_pos_ - 1
      BY <3>1
    <3>3. QED
      BY <2>3, <2>4, <3>1, <3>2, ThreadsAssumption
  <2>6. QED
    BY <2>2, <2>5
<1>2. LoggerInv => AllDelivered
  BY <1>1 DEF AllDelivered
<1>3. QED
  BY <1>2, LoggerInductiveInvariant, PTL
=============================================================================
