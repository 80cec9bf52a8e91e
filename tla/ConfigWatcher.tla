---------------------------- MODULE ConfigWatcher ----------------------------
(***************************************************************************)
(* The configuration file, the inotify queue of its directory and the      *)
(* thread that reads the queue in batches and calls back for each event of *)
(* that file.  The kernel merges an event with an equal last one and drops *)
(* it when the queue is full; a rename makes no event of the watched kind. *)
(***************************************************************************)
EXTENDS Integers, Sequences

CONSTANTS MaxEdits,     \* bound: how often the file changes
          QueueLimit    \* events that the kernel keeps

ASSUME WatcherAssumption == MaxEdits \in Nat /\ QueueLimit \in Nat \ {0}

VARIABLES
    version,    \* of the file
    notified,   \* history: the last version that an event told of, or 0
    queue,      \* of the inotify descriptor: "config" or "other" files
    batch,      \* events read() has returned and the loop has not reached
    wstop,      \* the stop callback has written to the eventfd
    watch       \* the thread: "poll", "events", "callback" or "ended"

edits  == <<version, notified, queue>>
cwVars == <<edits, batch, wstop, watch>>

CWInit == /\ version = 0 /\ notified = 0 /\ queue = <<>>
          /\ batch = <<>> /\ wstop = FALSE /\ watch = "poll"

-----------------------------------------------------------------------------
(* The environment.                                                         *)
Full     == Len(queue) = QueueLimit
Merges(e) == queue # <<>> /\ queue[Len(queue)] = e
Enqueue(e) ==
    queue' = IF Merges(e) \/ Full THEN queue ELSE Append(queue, e)

Save == /\ version < MaxEdits
        /\ version' = version + 1
        /\ notified' = IF Full /\ ~Merges("config") THEN notified ELSE version + 1
        /\ Enqueue("config")
        /\ UNCHANGED <<batch, wstop, watch>>

Rename == /\ version < MaxEdits
          /\ version' = version + 1
          /\ UNCHANGED <<notified, queue, batch, wstop, watch>>

OtherFile == /\ ~Full
             /\ Enqueue("other")
             /\ UNCHANGED <<version, notified, batch, wstop, watch>>

-----------------------------------------------------------------------------
(* watchLoop().                                                             *)
Poll ==
    /\ watch = "poll"
    /\ \/ wstop /\ watch' = "ended" /\ UNCHANGED <<batch, queue>>
       \/ /\ ~wstop /\ queue # <<>>
          /\ watch' = "events" /\ batch' = queue /\ queue' = <<>>
    /\ UNCHANGED <<version, notified, wstop>>

NextEvent ==
    /\ watch = "events"
    /\ IF batch = <<>>
       THEN watch' = "poll" /\ UNCHANGED batch
       ELSE /\ batch' = Tail(batch)
            /\ watch' = IF Head(batch) = "config" THEN "callback" ELSE "events"
    /\ UNCHANGED <<edits, wstop>>

(* The callback returns: on to the next event of the batch.                 *)
Remaining_Mutant == queue' = <<>>
Remaining        == queue' = queue

CallbackReturns ==
    /\ watch' = "events" /\ Remaining
    /\ UNCHANGED <<version, notified, batch, wstop>>

CWTypeOK ==
    /\ version \in 0 .. MaxEdits /\ notified \in 0 .. version
    /\ queue \in Seq({"config", "other"}) /\ Len(queue) <= QueueLimit
    /\ batch \in Seq({"config", "other"})
    /\ wstop \in BOOLEAN
    /\ watch \in {"poll", "events", "callback", "ended"}
=============================================================================
