---------------------------- MODULE DaemonProofs ----------------------------
(***************************************************************************)
(* Proofs about Daemon for any number of clients, of edits and of events   *)
(* that the kernel keeps.  None of them needs fairness.                    *)
(***************************************************************************)
EXTENDS Daemon, SequenceTheorems, TLAPS

Holds(s, x) == \E k \in DOMAIN s : s[k] = x

(* Who is in a session has been accepted; only the handlers work for it.    *)
SessionInv ==
    /\ server \in {"read", "dispatch", "reply"} => peer \in Clients
    /\ job["control"] # "none" => server = "dispatch" /\ request = "RELOAD"

(* An edit that the watcher has been told of and has not read is still      *)
(* ahead of it: in the queue, in the batch or in a callback that will read. *)
Unread ==
    \/ Holds(queue, "config") \/ Holds(batch, "config")
    \/ watch = "callback" /\ job["watcher"] \in {"none", "plugin", "load"}
WatchInv ==
    /\ job["watcher"] # "none" => watch = "callback"
    /\ watch \in {"poll", "ended"} => batch = <<>>
    /\ got >= notified \/ Unread

(* The main thread joins the control thread before it destroys anything,    *)
(* and the watcher's before it destroys what the callback refers to.        *)
Watching == <<"watcher", "engine", "plugin">>
ShutdownInv ==
    /\ server # "ended" => main \in {"poll", "join"}
    /\ main \in {"poll", "join"} => left = Locals
    /\ watch # "ended" => left \in {Locals, Watching}

IInv == DaemonTypeOK /\ SessionInv /\ WatchInv /\ ShutdownInv

-----------------------------------------------------------------------------
LEMMA Destroyed ==
    /\ Locals \in Seq({"control_plane", "watcher", "engine", "plugin"})
    /\ Head(Locals) = "control_plane" /\ Tail(Locals) = Watching
    /\ Head(Watching) = "watcher" /\ Locals # <<>> /\ Watching # <<>>
    /\ Locals # Watching
    /\ Locals[3] = "engine" /\ Locals[4] = "plugin" /\ Locals[1] = "control_plane"
    /\ Watching[2] = "engine" /\ Watching[3] = "plugin"
    /\ DOMAIN Locals = 1 .. 4 /\ DOMAIN Watching = 1 .. 3
BY DEF Locals, Watching

(* What is in a sequence is still in it after one more has come, and after  *)
(* another one has been taken off.                                          *)
LEMMA HoldsAppend ==
    ASSUME NEW S, NEW s \in Seq(S), NEW x \in S
    PROVE  /\ Append(s, x) \in Seq(S) /\ Len(Append(s, x)) = Len(s) + 1
           /\ Holds(Append(s, x), x)
           /\ \A y : Holds(s, y) => Holds(Append(s, x), y)
<1>1. /\ Append(s, x) \in Seq(S) /\ Len(Append(s, x)) = Len(s) + 1
      /\ \A k \in 1 .. Len(s) : Append(s, x)[k] = s[k]
      /\ Append(s, x)[Len(s) + 1] = x
      /\ DOMAIN s = 1 .. Len(s) /\ DOMAIN Append(s, x) = 1 .. Len(s) + 1
      /\ Len(s) \in Nat
  BY AppendProperties, LenProperties
<1>2. Holds(Append(s, x), x)
  BY <1>1 DEF Holds
<1>3. \A y : Holds(s, y) => Holds(Append(s, x), y)
  BY <1>1 DEF Holds
<1>4. QED
  BY <1>1, <1>2, <1>3

LEMMA HoldsTail ==
    ASSUME NEW S, NEW s \in Seq(S), s # <<>>
    PROVE  /\ Head(s) \in S /\ Tail(s) \in Seq(S)
           /\ \A y : Holds(s, y) => Head(s) = y \/ Holds(Tail(s), y)
<1>1. Head(s) \in S /\ Tail(s) \in Seq(S) /\ Len(s) \in Nat \ {0}
  OBVIOUS
<1>2. ASSUME NEW y, NEW k \in DOMAIN s, s[k] = y, Head(s) # y
      PROVE  Holds(Tail(s), y)
  <2>1. k # 1 /\ k - 1 \in DOMAIN Tail(s) /\ Tail(s)[k - 1] = y
    BY <1>2
  <2>2. QED
    BY <2>1 DEF Holds
<1>3. QED
  BY <1>1, <1>2 DEF Holds

(* The types of the parts of a state that the steps change together.        *)
MainTypeOK ==
    /\ stop_requested \in BOOLEAN
    /\ main \in {"poll", "join", "destroy", "returned"}
    /\ left \in Seq({"control_plane", "watcher", "engine", "plugin"})
JobTypeOK ==
    /\ job \in [Threads -> {"none", "plugin", "load", "install"}]
    /\ got \in 0 .. MaxEdits

LEMMA DaemonTypes == DaemonTypeOK <=> CPTypeOK /\ CWTypeOK /\ MainTypeOK /\ JobTypeOK
BY DEF DaemonTypeOK, MainTypeOK, JobTypeOK

LEMMA InitIInv == Init => IInv
<1> SUFFICES ASSUME Init PROVE IInv
  OBVIOUS
<1>1. CPTypeOK
  <2>1. backlog \in Seq(Clients)
    BY EmptySeq DEF Init, CPInit
  <2>2. {path, armed, stopped} \subseteq BOOLEAN
    BY DEF Init, CPInit
  <2>3. QED
    BY <2>1, <2>2 DEF Init, CPInit, CPTypeOK, Requests
<1>2. CWTypeOK
  <2>1. /\ queue \in Seq({"config", "other"}) /\ batch \in Seq({"config", "other"})
        /\ Len(queue) <= QueueLimit
    BY EmptySeq, WatcherAssumption DEF Init, CWInit
  <2>2. version = 0 /\ notified = 0 /\ wstop = FALSE /\ watch = "poll"
    BY DEF Init, CWInit
  <2>3. version \in 0 .. MaxEdits /\ notified \in 0 .. version
    BY <2>2, WatcherAssumption
  <2>4. QED
    BY <2>1, <2>2, <2>3 DEF CWTypeOK
<1>3. MainTypeOK
  BY Destroyed DEF Init, MainTypeOK
<1>4. JobTypeOK
  BY WatcherAssumption DEF Init, JobTypeOK
<1>5. SessionInv
  BY DEF Init, CPInit, SessionInv, Threads
<1>6. WatchInv
  BY DEF Init, CWInit, WatchInv, Threads
<1>7. ShutdownInv
  BY DEF Init, ShutdownInv
<1>8. QED
  BY <1>1, <1>2, <1>3, <1>4, <1>5, <1>6, <1>7, DaemonTypes DEF IInv

-----------------------------------------------------------------------------
(* A thread's next step in its reload.                                      *)
LEMMA GotoStep ==
    ASSUME JobTypeOK, NEW t \in Threads,
           NEW step \in {"none", "plugin", "load", "install"}, Goto(t, step)
    PROVE  /\ job' \in [Threads -> {"none", "plugin", "load", "install"}]
           /\ job'[t] = step /\ \A u \in Threads \ {t} : job'[u] = job[u]
BY DEF JobTypeOK, Goto

(* The end of a session leaves a control plane that is ready for the next.  *)
LEMMA EndSessionStep ==
    ASSUME CPTypeOK, NEW text \in {"error", "OK"}, EndSession(text)
    PROVE  CPTypeOK' /\ server' = "run"
<1>1. armed' = TRUE /\ UNCHANGED <<path, stopped, backlog, cli>>
  BY DEF EndSession
<1>2. {path, armed, stopped}' \subseteq BOOLEAN
  BY <1>1 DEF CPTypeOK
<1>3. answer' \in [Clients -> {"none", "error", "OK"}]
  BY DEF EndSession, CPTypeOK
<1>4. QED
  BY <1>1, <1>2, <1>3 DEF EndSession, CPTypeOK, Requests

LEMMA ServerTypes ==
    ASSUME CPTypeOK, ServerStep,
           server \in {"read", "dispatch", "reply"} => peer \in Clients
    PROVE  /\ CPTypeOK'
           /\ server' # "ended" => server # "ended"
           /\ server = "dispatch" => request = "other"
           /\ server' \in {"read", "dispatch", "reply"} => peer' \in Clients
<1>1. CASE Accept
  <2>1. Head(backlog) \in Clients /\ Tail(backlog) \in Seq(Clients)
    BY <1>1, HeadTailProperties DEF Accept, CPTypeOK
  <2>2. {path, armed, stopped}' \subseteq BOOLEAN
    BY <1>1 DEF Accept, CPTypeOK
  <2>3. QED
    BY <1>1, <2>1, <2>2 DEF Accept, CPTypeOK, clients
<1>2. CASE AcceptFails
  <2>1. {path, armed, stopped}' \subseteq BOOLEAN
    BY <1>2 DEF AcceptFails, CPTypeOK
  <2>2. QED
    BY <1>2, <2>1 DEF AcceptFails, CPTypeOK, session, clients
<1>3. CASE Read
  <2>1. {path, armed, stopped}' \subseteq BOOLEAN
    BY <1>3 DEF Read, CPTypeOK, listener
  <2>2. QED
    BY <1>3, <2>1 DEF Read, CPTypeOK, listener, clients
<1>4. CASE ReadFails \/ Refuse
  BY <1>4, EndSessionStep DEF ReadFails, Refuse
<1>5. CASE RunReturns
  <2>1. {path, armed, stopped}' \subseteq BOOLEAN
    BY <1>5 DEF RunReturns, CPTypeOK
  <2>2. backlog' \in Seq(Clients)
    BY <1>5, EmptySeq DEF RunReturns
  <2>3. QED
    BY <1>5, <2>1, <2>2 DEF RunReturns, CPTypeOK
<1>6. QED
  BY <1>1, <1>2, <1>3, <1>4, <1>5 DEF ServerStep

LEMMA ClientTypes ==
    ASSUME CPTypeOK, NEW c \in Clients, ClientStep(c)
    PROVE  CPTypeOK' /\ UNCHANGED session
<1>1. UNCHANGED session /\ UNCHANGED <<path, armed, stopped>>
  BY DEF ClientStep, Connect, Send, Receive, GiveUp, listener
<1>2. {path, armed, stopped}' \subseteq BOOLEAN
  BY <1>1 DEF CPTypeOK
<1>3. backlog' \in Seq(Clients)
  BY AppendProperties DEF ClientStep, Connect, Send, Receive, GiveUp, listener, CPTypeOK
<1>4. cli' \in [Clients -> {"start", "send", "recv", "exit"}]
  BY DEF ClientStep, Connect, Send, Receive, GiveUp, Cli, CPTypeOK
<1>5. arrived' \in [Clients -> {"nothing"} \cup Requests]
  BY DEF ClientStep, Connect, Send, Receive, GiveUp, CPTypeOK
<1>6. answer' \in [Clients -> {"none", "error", "OK"}]
  BY DEF ClientStep, Connect, Send, Receive, GiveUp, CPTypeOK
<1>7. QED
  BY <1>1, <1>2, <1>3, <1>4, <1>5, <1>6 DEF CPTypeOK, session

(* The editor and the kernel: an edit that the kernel tells of is in the    *)
(* queue, what was there before stays.                                      *)
LEMMA EditTypes ==
    ASSUME CWTypeOK, Save \/ Rename \/ OtherFile
    PROVE  /\ CWTypeOK' /\ UNCHANGED <<batch, wstop, watch>>
           /\ Holds(queue, "config") => Holds(queue', "config")
           /\ notified' = notified \/ Holds(queue', "config")
<1>1. /\ queue \in Seq({"config", "other"}) /\ Len(queue) \in Nat
      /\ Len(queue) <= QueueLimit /\ version \in 0 .. MaxEdits
      /\ notified \in 0 .. version
  BY LenProperties DEF CWTypeOK
<1>2. ASSUME NEW e \in {"config", "other"}, Enqueue(e)
      PROVE  /\ queue' \in Seq({"config", "other"}) /\ Len(queue') <= QueueLimit
             /\ Holds(queue, "config") => Holds(queue', "config")
             /\ ~Full \/ Merges(e) => Holds(queue', e)
  <2>1. CASE Merges(e)
    <3>1. Len(queue) \in DOMAIN queue /\ queue[Len(queue)] = e
      BY <1>1, <2>1, EmptySeq, LenProperties DEF Merges
    <3>2. QED
      BY <1>1, <1>2, <2>1, <3>1 DEF Enqueue, Holds
  <2>2. CASE Full /\ ~Merges(e)
    BY <1>1, <1>2, <2>2 DEF Enqueue
  <2>3. CASE ~Full /\ ~Merges(e)
    <3>1. queue' = Append(queue, e)
      BY <1>2, <2>3 DEF Enqueue
    <3>2. QED
      BY <1>1, <2>3, <3>1, HoldsAppend, WatcherAssumption DEF Full
  <2>4. QED
    BY <2>1, <2>2, <2>3
<1>3. CASE Save
  <2>1. Enqueue("config") /\ version' = version + 1 /\ version < MaxEdits
    BY <1>3 DEF Save
  <2>2. notified' \in 0 .. version'
    BY <1>1, <1>3, <2>1, WatcherAssumption DEF Save
  <2>3. notified' = notified \/ Holds(queue', "config")
    BY <1>2, <1>3, <2>1 DEF Save
  <2>4. QED
    BY <1>1, <1>2, <1>3, <2>1, <2>2, <2>3, WatcherAssumption DEF Save, CWTypeOK
<1>4. CASE Rename
  BY <1>1, <1>4, WatcherAssumption DEF Rename, CWTypeOK
<1>5. CASE OtherFile
  BY <1>1, <1>2, <1>5 DEF OtherFile, CWTypeOK
<1>6. QED
  BY <1>3, <1>4, <1>5

(* The loop: what is in the queue goes to the batch, what is in the batch   *)
(* to a callback.                                                           *)
LEMMA LoopTypes ==
    ASSUME CWTypeOK, Poll \/ NextEvent, watch \in {"poll", "ended"} => batch = <<>>
    PROVE  /\ CWTypeOK' /\ UNCHANGED <<version, notified, wstop>>
           /\ watch' \in {"poll", "ended"} => batch' = <<>>
           /\ watch \notin {"callback", "ended"}
           /\ Holds(queue, "config") \/ Holds(batch, "config")
                 => \/ Holds(queue', "config") \/ Holds(batch', "config")
                    \/ watch' = "callback"
<1>1. queue \in Seq({"config", "other"}) /\ batch \in Seq({"config", "other"})
  BY DEF CWTypeOK
<1>2. ~Holds(<<>>, "config") /\ <<>> \in Seq({"config", "other"}) /\ Len(<<>>) = 0
  BY EmptySeq DEF Holds
<1>3. CASE Poll
  <2>1. CASE wstop
    BY <1>3, <2>1 DEF Poll, CWTypeOK
  <2>2. CASE ~wstop
    <3>1. watch = "poll" /\ watch' = "events" /\ batch' = queue /\ queue' = <<>>
      BY <1>3, <2>2 DEF Poll
    <3>2. Len(queue') <= QueueLimit
      BY <1>2, <3>1, WatcherAssumption
    <3>3. QED
      BY <1>1, <1>2, <1>3, <3>1, <3>2 DEF Poll, CWTypeOK
  <2>3. QED
    BY <2>1, <2>2
<1>4. CASE NextEvent
  <2>1. CASE batch = <<>>
    BY <1>1, <1>2, <1>4, <2>1 DEF NextEvent, CWTypeOK, edits
  <2>2. CASE batch # <<>>
    <3>1. /\ Head(batch) \in {"config", "other"} /\ Tail(batch) \in Seq({"config", "other"})
          /\ Holds(batch, "config") => Head(batch) = "config" \/ Holds(Tail(batch), "config")
      BY <1>1, <2>2, HoldsTail
    <3>2. QED
      BY <1>4, <2>2, <3>1 DEF NextEvent, CWTypeOK, edits
  <2>3. QED
    BY <2>1, <2>2
<1>5. QED
  BY <1>3, <1>4


-----------------------------------------------------------------------------
(* One lemma for each group of steps, by the thread that takes them.        *)
LEMMA ServerIInv == ASSUME IInv, ServerStep, UNCHANGED <<cwVars, mainVars, jobs>>
                    PROVE  IInv'
<1>1. /\ CPTypeOK' /\ (server' # "ended" => server # "ended")
      /\ server = "dispatch" => request = "other"
      /\ server' \in {"read", "dispatch", "reply"} => peer' \in Clients
  BY ServerTypes, DaemonTypes DEF IInv, SessionInv
<1>2. DaemonTypeOK'
  BY <1>1, DaemonTypes DEF IInv, CWTypeOK, MainTypeOK, JobTypeOK,
                           DaemonTypeOK, cwVars, edits, mainVars, jobs
<1>3. SessionInv'
  BY <1>1 DEF IInv, SessionInv, jobs
<1>4. WatchInv'
  BY DEF IInv, WatchInv, Unread, cwVars, edits, jobs
<1>5. ShutdownInv'
  BY <1>1 DEF IInv, ShutdownInv, cwVars, mainVars
<1>6. QED
  BY <1>2, <1>3, <1>4, <1>5 DEF IInv

LEMMA ClientIInv ==
    ASSUME IInv, NEW c \in Clients, ClientStep(c), UNCHANGED <<cwVars, mainVars, jobs>>
    PROVE  IInv'
<1>1. CPTypeOK' /\ UNCHANGED session
  BY ClientTypes, DaemonTypes DEF IInv
<1>2. DaemonTypeOK'
  BY <1>1, DaemonTypes DEF IInv, CWTypeOK, MainTypeOK, JobTypeOK,
                           DaemonTypeOK, cwVars, edits, mainVars, jobs
<1>3. SessionInv'
  BY <1>1 DEF IInv, SessionInv, jobs, session
<1>4. WatchInv'
  BY DEF IInv, WatchInv, Unread, cwVars, edits, jobs
<1>5. ShutdownInv'
  BY <1>1 DEF IInv, ShutdownInv, cwVars, mainVars, session
<1>6. QED
  BY <1>2, <1>3, <1>4, <1>5 DEF IInv

(* An edit during a callback finds its way back to the watcher.             *)
LEMMA EditIInv ==
    ASSUME IInv, Save \/ Rename \/ OtherFile, UNCHANGED <<cpVars, mainVars, jobs>>
    PROVE  IInv'
<1>1. /\ CWTypeOK' /\ UNCHANGED <<batch, wstop, watch>>
      /\ Holds(queue, "config") => Holds(queue', "config")
      /\ notified' = notified \/ Holds(queue', "config")
  BY EditTypes, DaemonTypes DEF IInv
<1>2. CPTypeOK'
  BY DaemonTypes DEF IInv, CPTypeOK, cpVars, listener, session, clients
<1>3. DaemonTypeOK'
  BY <1>1, <1>2, DaemonTypes DEF IInv, DaemonTypeOK, MainTypeOK, JobTypeOK,
                                 mainVars, jobs
<1>4. SessionInv'
  BY DEF IInv, SessionInv, cpVars, session, jobs
<1>5. WatchInv'
  BY <1>1 DEF IInv, WatchInv, Unread, jobs
<1>6. ShutdownInv'
  BY <1>1 DEF IInv, ShutdownInv, cpVars, session, mainVars
<1>7. QED
  BY <1>3, <1>4, <1>5, <1>6 DEF IInv

LEMMA LoopIInv ==
    ASSUME IInv, Poll \/ NextEvent, UNCHANGED <<cpVars, mainVars, jobs>>
    PROVE  IInv'
<1>1. /\ CWTypeOK' /\ UNCHANGED <<version, notified, wstop>>
      /\ watch' \in {"poll", "ended"} => batch' = <<>>
      /\ watch \notin {"callback", "ended"}
      /\ Holds(queue, "config") \/ Holds(batch, "config")
            => \/ Holds(queue', "config") \/ Holds(batch', "config")
               \/ watch' = "callback"
  BY LoopTypes, DaemonTypes DEF IInv, WatchInv
<1>2. CPTypeOK'
  BY DaemonTypes DEF IInv, CPTypeOK, cpVars, listener, session, clients
<1>3. DaemonTypeOK'
  BY <1>1, <1>2, DaemonTypes DEF IInv, DaemonTypeOK, MainTypeOK, JobTypeOK,
                                 mainVars, jobs
<1>4. SessionInv'
  BY DEF IInv, SessionInv, cpVars, session, jobs
<1>5. job["watcher"] = "none"
  BY <1>1 DEF IInv, WatchInv
<1>6. WatchInv'
  BY <1>1, <1>5 DEF IInv, WatchInv, Unread, jobs
<1>7. ShutdownInv'
  BY <1>1 DEF IInv, ShutdownInv, cpVars, session, mainVars
<1>8. QED
  BY <1>3, <1>4, <1>6, <1>7 DEF IInv

(* The handlers of STATUS and STOP, and a RELOAD that is taken up.          *)
LEMMA HandlerIInv ==
    ASSUME IInv, Reload \/ Status \/ Stop \/ StopAnswered PROVE IInv'
<1>1. /\ UNCHANGED <<cwVars, main, left, got>>
      /\ server \in {"dispatch", "reply"} /\ server' # "ended"
      /\ stop_requested' \in BOOLEAN /\ job'["watcher"] = job["watcher"]
  BY DaemonTypes DEF Reload, Status, Stop, StopAnswered, mainVars, jobs, cpVars, session,
       EndSession, Goto, IInv, MainTypeOK, JobTypeOK, Threads
<1>2. CPTypeOK' /\ SessionInv'
  <2>1. CASE Reload
    <3>1. CPTypeOK'
      BY <2>1, DaemonTypes DEF IInv, CPTypeOK, Reload, cpVars, listener, session, clients
    <3>2. SessionInv'
      BY <2>1 DEF IInv, SessionInv, Reload, cpVars, session
    <3>3. QED
      BY <3>1, <3>2
  <2>2. CASE Status \/ StopAnswered
    <3>1. CPTypeOK' /\ server' = "run"
      BY <2>2, EndSessionStep, DaemonTypes DEF IInv, Status, StopAnswered
    <3>2. job["control"] = "none" /\ job' = job
      BY <2>2 DEF IInv, SessionInv, Status, StopAnswered, jobs
    <3>3. QED
      BY <3>1, <3>2 DEF SessionInv
  <2>3. CASE Stop
    <3>1. {path, armed, stopped}' \subseteq BOOLEAN
      BY <2>3, DaemonTypes DEF IInv, CPTypeOK, Stop, listener
    <3>2. CPTypeOK'
      BY <2>3, <3>1, DaemonTypes DEF IInv, CPTypeOK, Stop, listener, clients
    <3>3. SessionInv'
      BY <2>3 DEF IInv, SessionInv, Stop, jobs
    <3>4. QED
      BY <3>2, <3>3
  <2>4. QED
    BY <2>1, <2>2, <2>3
<1>3. JobTypeOK'
  BY GotoStep, DaemonTypes
     DEF IInv, JobTypeOK, Reload, Status, Stop, StopAnswered, jobs, Threads
<1>4. DaemonTypeOK'
  <2>1. CWTypeOK'
    BY <1>1, DaemonTypes DEF IInv, CWTypeOK, cwVars, edits
  <2>2. MainTypeOK'
    BY <1>1, DaemonTypes DEF IInv, MainTypeOK
  <2>3. QED
    BY <1>2, <1>3, <2>1, <2>2 DEF DaemonTypeOK, MainTypeOK, JobTypeOK
<1>5. WatchInv'
  BY <1>1 DEF IInv, WatchInv, Unread, cwVars, edits
<1>6. ShutdownInv'
  BY <1>1 DEF IInv, ShutdownInv, cwVars
<1>7. QED
  BY <1>2, <1>4, <1>5, <1>6 DEF IInv

(* A reload on either thread; the last step ends the session or the         *)
(* callback that it was for.                                                *)
LEMMA CallbackIInv == IInv /\ Callback => IInv'
<1> SUFFICES ASSUME IInv, Callback PROVE IInv'
  OBVIOUS
<1>1. /\ UNCHANGED <<cpVars, cwVars, mainVars, got>>
      /\ watch = "callback" /\ job["watcher"] = "none" /\ Goto("watcher", "plugin")
  BY DEF Callback
<1>2. job'["watcher"] = "plugin" /\ job'["control"] = job["control"]
      /\ JobTypeOK'
  BY <1>1, GotoStep, DaemonTypes DEF IInv, Threads, JobTypeOK
<1>3. DaemonTypeOK'
  <2>1. CPTypeOK'
    BY <1>1, DaemonTypes DEF IInv, CPTypeOK, cpVars, listener, session, clients
  <2>2. CWTypeOK' /\ MainTypeOK'
    BY <1>1, DaemonTypes DEF IInv, CWTypeOK, cwVars, edits, MainTypeOK, mainVars
  <2>3. QED
    BY <1>2, <2>1, <2>2 DEF DaemonTypeOK, MainTypeOK, JobTypeOK
<1>4. SessionInv' /\ ShutdownInv'
  BY <1>1, <1>2 DEF IInv, SessionInv, ShutdownInv, cpVars, session, cwVars, mainVars
<1>5. WatchInv'
  BY <1>1, <1>2 DEF IInv, WatchInv, Unread, cwVars, edits
<1>6. QED
  BY <1>3, <1>4, <1>5 DEF IInv

LEMMA JobIInv == ASSUME IInv, NEW t \in Threads, JobStep(t) PROVE IInv'
<1>1. job[t] # "none" /\ UNCHANGED mainVars
  BY DEF JobStep, PluginReloaded, PluginThrows, Load, Install
<1>2. PICK step \in {"none", "load", "install"} :
         /\ Goto(t, step)
         /\ UNCHANGED got \/ (t = "watcher" /\ step = "install" /\ got' = version)
         /\ t = "watcher" /\ step = "install" => got' = version
         /\ step \in {"load", "install"} => UNCHANGED <<cpVars, cwVars>>
         /\ step = "none" /\ t = "control" =>
               UNCHANGED cwVars /\ \E text \in {"error", "OK"} : EndSession(text)
         /\ step = "none" /\ t = "watcher" =>
               job[t] = "install" /\ UNCHANGED cpVars /\ CallbackReturns
  BY DEF JobStep, PluginReloaded, PluginThrows, Load, Install, Threads
<1>3. /\ JobTypeOK' /\ job'[t] = step
      /\ \A u \in Threads \ {t} : job'[u] = job[u]
  BY <1>2, GotoStep, DaemonTypes DEF IInv, JobTypeOK, CWTypeOK
<1>4. CPTypeOK' /\ SessionInv' /\ (server' # "ended" => server # "ended")
  <2>1. CASE UNCHANGED cpVars
    <3>1. CPTypeOK'
      BY <2>1, DaemonTypes DEF IInv, CPTypeOK, cpVars, listener, session, clients
    <3>2. QED
      BY <1>1, <1>3, <2>1, <3>1 DEF IInv, SessionInv, cpVars, session, Threads
  <2>2. CASE t = "control" /\ step = "none"
    <3>1. CPTypeOK' /\ server' = "run"
      BY <1>2, <2>2, EndSessionStep, DaemonTypes DEF IInv
    <3>2. server # "ended"
      BY <1>1, <2>2 DEF IInv, SessionInv
    <3>3. QED
      BY <1>3, <2>2, <3>1, <3>2 DEF SessionInv
  <2>3. QED
    BY <1>2, <2>1, <2>2 DEF Threads
<1>5. CWTypeOK' /\ WatchInv' /\ (watch' # "ended" => watch # "ended")
  <2>1. CASE t = "control" \/ step # "none"
    <3>1. UNCHANGED cwVars
      BY <1>2, <2>1 DEF Threads
    <3>2. CWTypeOK'
      BY <3>1, DaemonTypes DEF IInv, CWTypeOK, cwVars, edits
    <3>3. notified \in 0 .. version /\ version \in Nat
      BY DaemonTypes, WatcherAssumption DEF IInv, CWTypeOK
    <3>4. got >= notified => got' >= notified
      BY <1>2, <3>3, DaemonTypes DEF IInv, JobTypeOK
    <3>5. CASE t = "control"
      <4>1. job'["watcher"] = job["watcher"]
        BY <1>3, <3>5 DEF Threads
      <4>2. QED
        BY <3>1, <3>2, <3>4, <4>1 DEF IInv, WatchInv, Unread, cwVars, edits
    <3>6. CASE t = "watcher"
      <4>1. watch = "callback"
        BY <1>1, <3>6 DEF IInv, WatchInv
      <4>2. step = "load" \/ got' = version
        BY <1>2, <2>1, <3>6
      <4>3. QED
        BY <1>3, <2>1, <3>1, <3>2, <3>3, <3>6, <4>1, <4>2
           DEF WatchInv, Unread, cwVars, edits
    <3>7. QED
      BY <3>5, <3>6 DEF Threads
  <2>2. CASE t = "watcher" /\ step = "none"
    <3>1. watch = "callback" /\ watch' = "events" /\ UNCHANGED <<edits, batch, wstop>>
      BY <1>1, <1>2, <2>2 DEF IInv, WatchInv, CallbackReturns, Remaining, edits
    <3>2. CWTypeOK'
      BY <3>1, DaemonTypes DEF IInv, CWTypeOK, edits
    <3>3. QED
      <4>1. got' = got /\ (got >= notified \/ Holds(queue, "config") \/ Holds(batch, "config"))
        BY <1>2, <2>2, <3>1 DEF IInv, WatchInv, Unread, CallbackReturns
      <4>2. QED
        BY <1>3, <2>2, <3>1, <3>2, <4>1 DEF WatchInv, Unread, edits
  <2>3. QED
    BY <1>2, <2>1, <2>2 DEF Threads
<1>6. DaemonTypeOK'
  <2>1. MainTypeOK'
    BY <1>1, DaemonTypes DEF IInv, MainTypeOK, mainVars
  <2>2. QED
    BY <1>3, <1>4, <1>5, <2>1 DEF DaemonTypeOK, MainTypeOK, JobTypeOK
<1>7. ShutdownInv'
  BY <1>1, <1>4, <1>5 DEF IInv, ShutdownInv, mainVars
<1>8. QED
  BY <1>4, <1>5, <1>6, <1>7 DEF IInv

(* Taking the program down.                                                 *)
LEMMA MainIInv == ASSUME IInv, Signal \/ MainStep PROVE IInv'
<1>1. /\ UNCHANGED <<path, armed, backlog, session, clients, edits, batch, watch, jobs>>
      /\ stopped' \in BOOLEAN /\ wstop' \in BOOLEAN
  <2>1. stopped \in BOOLEAN /\ wstop \in BOOLEAN
    BY DaemonTypes DEF IInv, CPTypeOK, CWTypeOK
  <2>2. CASE Signal \/ Join \/ Destroy
    BY <2>1, <2>2 DEF Signal, Join, Destroy, cpVars, listener, cwVars
  <2>3. CASE Shutdown
    BY <2>1, <2>3 DEF Shutdown, cwVars
  <2>4. CASE StopWatcher
    BY <2>1, <2>4 DEF StopWatcher, cpVars, listener
  <2>5. QED
    BY <2>2, <2>3, <2>4 DEF MainStep
<1>2. CPTypeOK'
  <2>1. {path, armed, stopped}' \subseteq BOOLEAN
    BY <1>1, DaemonTypes DEF IInv, CPTypeOK
  <2>2. QED
    BY <1>1, <2>1, DaemonTypes DEF IInv, CPTypeOK, session, clients
<1>3. CWTypeOK' /\ JobTypeOK'
  BY <1>1, DaemonTypes DEF IInv, CWTypeOK, JobTypeOK, edits, jobs
<1>4. SessionInv' /\ WatchInv'
  BY <1>1 DEF IInv, SessionInv, WatchInv, Unread, session, edits, jobs
<1>5. MainTypeOK' /\ ShutdownInv'
  <2>1. CASE Signal \/ Shutdown \/ Join \/ StopWatcher
    <3>1. left' = left /\ server' = server /\ watch' = watch
      BY <1>1, <2>1 DEF Signal, Shutdown, Join, StopWatcher, session, mainVars
    <3>2. MainTypeOK'
      BY <2>1, <3>1, DaemonTypes
         DEF IInv, MainTypeOK, Signal, Shutdown, Join, StopWatcher, mainVars
    <3>3. ShutdownInv'
      BY <2>1, <3>1 DEF IInv, ShutdownInv, Signal, Shutdown, Join, StopWatcher, mainVars
    <3>4. QED
      BY <3>2, <3>3
  <2>2. CASE Destroy
    <3>1. /\ main = "destroy" /\ main' \in {"destroy", "returned"}
          /\ left # <<>> /\ left' = Tail(left) /\ UNCHANGED stop_requested
          /\ Head(left) = "watcher" => watch = "ended"
      BY <2>2 DEF Destroy
    <3>2. MainTypeOK'
      BY <3>1, HeadTailProperties, DaemonTypes DEF IInv, MainTypeOK
    <3>3. ShutdownInv'
      BY <1>1, <3>1, Destroyed DEF IInv, ShutdownInv, session
    <3>4. QED
      BY <3>2, <3>3
  <2>3. QED
    BY <2>1, <2>2 DEF MainStep
<1>6. QED
  BY <1>2, <1>3, <1>4, <1>5 DEF IInv, DaemonTypeOK, MainTypeOK, JobTypeOK

LEMMA NextIInv == IInv /\ [Next]_vars => IInv'
<1> SUFFICES ASSUME IInv, [Next]_vars PROVE IInv'
  OBVIOUS
<1>1. CASE Control
  BY <1>1, ServerIInv, HandlerIInv, JobIInv DEF Control, Threads
<1>2. CASE Watcher
  BY <1>2, LoopIInv, CallbackIInv, JobIInv DEF Watcher, Threads
<1>3. CASE MainStep \/ Signal
  BY <1>3, MainIInv
<1>4. CASE (\E c \in Clients : ClientStep(c)) /\ UNCHANGED <<cwVars, mainVars, jobs>>
  BY <1>4, ClientIInv
<1>5. CASE (Save \/ Rename \/ OtherFile) /\ UNCHANGED <<cpVars, mainVars, jobs>>
  BY <1>5, EditIInv
<1>6. CASE UNCHANGED vars
  <2>1. CPTypeOK'
    BY <1>6, DaemonTypes DEF IInv, vars, CPTypeOK, cpVars, listener, session, clients
  <2>2. CWTypeOK' /\ MainTypeOK' /\ JobTypeOK'
    BY <1>6, DaemonTypes DEF IInv, vars, CWTypeOK, cwVars, edits, MainTypeOK, mainVars,
                             JobTypeOK, jobs
  <2>3. SessionInv' /\ WatchInv' /\ ShutdownInv'
    BY <1>6 DEF IInv, vars, SessionInv, WatchInv, Unread, ShutdownInv, cpVars, session,
                cwVars, edits, mainVars, jobs
  <2>4. QED
    BY <2>1, <2>2, <2>3 DEF IInv, DaemonTypeOK, MainTypeOK, JobTypeOK
<1>7. QED
  BY <1>1, <1>2, <1>3, <1>4, <1>5, <1>6 DEF Next

-----------------------------------------------------------------------------
(* The inductive invariant holds for any number of clients and edits.       *)
THEOREM InductiveInvariant == Spec => []IInv
<1>1. QED
  BY InitIInv, NextIInv, PTL DEF Spec

(* Sessions, queues and threads are what their types say: no handler runs   *)
(* for nobody, whatever a client sends or leaves out.                       *)
THEOREM TypeCorrect == Spec => []DaemonTypeOK
<1>1. IInv => DaemonTypeOK
  BY DEF IInv
<1>2. QED
  BY <1>1, InductiveInvariant, PTL

(* main() takes nothing down that a reload, a callback or a session uses.   *)
THEOREM NothingIsUsedDestroyed == Spec => []NothingUsedDestroyed
<1>1. IInv => NothingUsedDestroyed
  <2> SUFFICES ASSUME IInv PROVE NothingUsedDestroyed
    OBVIOUS
  <2>1. server # "ended" => left = Locals
    BY DEF IInv, ShutdownInv
  <2>2. job["control"] # "none" => left = Locals
    BY <2>1 DEF IInv, SessionInv
  <2>3. job["watcher"] # "none" => left \in {Locals, Watching}
    BY DEF IInv, WatchInv, ShutdownInv
  <2>4. left \in {Locals, Watching} => Alive("engine") /\ Alive("plugin")
    BY Destroyed DEF Alive
  <2>5. left = Locals => Alive("control_plane")
    BY Destroyed DEF Alive
  <2>6. QED
    BY <2>1, <2>2, <2>3, <2>4, <2>5 DEF NothingUsedDestroyed, Threads
<1>2. QED
  BY <1>1, InductiveInvariant, PTL

(* No edit that the kernel reports is missed, also one during a callback.   *)
THEOREM ReportedEditsAreRead == Spec => []EditsAreRead
<1>1. IInv => EditsAreRead
  <2> SUFFICES ASSUME IInv, watch = "poll", queue = <<>> PROVE got >= notified
    BY DEF EditsAreRead
  <2>1. batch = <<>> /\ ~Holds(<<>>, "config")
    BY DEF IInv, WatchInv, Holds
  <2>2. QED
    BY <2>1 DEF IInv, WatchInv, Unread
<1>2. QED
  BY <1>1, InductiveInvariant, PTL

-----------------------------------------------------------------------------
(* The end of the program.  Each thread has only so much to do: the control *)
(* thread until its session is over, and for each connection that waits;    *)
(* the watcher's until it polls again, and for each event that is queued;   *)
(* the main thread until it returns.                                        *)
SessionRank(state, isArmed, step) ==
    CASE state = "ended" -> 0
      [] state = "run" -> IF isArmed THEN 2 ELSE 1
      [] state = "reply" -> 3
      [] state = "dispatch" -> CASE step = "install" -> 4 [] step = "load" -> 5
                                 [] step = "plugin" -> 6 [] OTHER -> 7
      [] OTHER -> 8
ControlRank == SessionRank(server, armed, job["control"])
ControlTodo == ControlRank + 9 * Len(backlog)

LoopRank(state, step) ==
    CASE state = "ended" -> 0
      [] state = "poll" -> 1
      [] state = "events" -> 2
      [] OTHER -> CASE step = "install" -> 3 [] step = "load" -> 4
                    [] step = "plugin" -> 5 [] OTHER -> 6
LoopPlace   == LoopRank(watch, job["watcher"])
WatcherRank == LoopPlace + 6 * Len(batch)
WatcherTodo == WatcherRank + 8 * Len(queue)

MainTodo ==
    CASE main = "poll" -> 11
      [] main = "join" -> 10
      [] main = "destroy" -> 2 * Len(left) + IF wstop THEN 0 ELSE 1
      [] OTHER -> 0

(* The guards of the steps of each thread, those of a step that fails for   *)
(* no reason the model knows, AcceptFails, left out.  read_some() returns   *)
(* for data and for the end of file.                                        *)
CanServe ==
    \/ server = "run" /\ (stopped \/ ~armed \/ backlog # <<>>)
    \/ server = "read" /\ (arrived[peer] # "nothing" \/ cli[peer] = "exit")
    \/ server = "reply"
    \/ server = "dispatch" /\ (request # "RELOAD" \/ job["control"] = "none")
    \/ job["control"] \in {"plugin", "load", "install"}
CanWatch ==
    \/ watch = "poll" /\ (wstop \/ queue # <<>>)
    \/ watch = "events"
    \/ watch = "callback" /\ job["watcher"] = "none"
    \/ job["watcher"] \in {"plugin", "load", "install"}
CanMain ==
    \/ main = "poll" /\ stop_requested
    \/ main = "join" /\ server = "ended"
    \/ /\ main = "destroy" /\ left # <<>>
       /\ Head(left) = "watcher" => watch = "ended" \/ ~wstop

(* The one wait that no thread of the program can end: for a client that is *)
(* connected and has not sent a thing.  It may send, or go.                 *)
Silent == server = "read" /\ arrived[peer] = "nothing" /\ cli[peer] # "exit"
CanSpeak(c) == cli[c] \in {"send", "recv"} /\ ~Closed(c)

(* Whoever waits to be accepted waits for a thread that can go on or for    *)
(* the silent client of the session; and once the stop is requested the     *)
(* main thread can go on, or the one it joins, or it waits for that client. *)
Serves        == CanServe \/ (Silent /\ CanSpeak(peer))
BacklogMoves  == backlog # <<>> => Serves
ShutdownMoves ==
    stop_requested /\ main # "returned" =>
        \/ CanMain
        \/ main = "join" /\ stopped /\ Serves
        \/ main = "destroy" /\ wstop /\ CanWatch

(* Each step of a thread leaves it less to do, after the stop request also  *)
(* when connections and edits keep coming, and no other step touches what   *)
(* it has in hand.  A word of the silent client, or its end, is all that    *)
(* the wait for it takes.                                                   *)
EachStepCounts ==
    /\ Silent /\ Speak(peer) => ~Silent' /\ CanServe'
    /\ Control => ControlTodo' < ControlTodo /\ (stopped => ControlRank' < ControlRank)
    /\ Watcher => WatcherTodo' < WatcherTodo /\ (wstop => WatcherRank' < WatcherRank)
    /\ MainStep => MainTodo' < MainTodo
    /\ Control \/ ControlRank' = ControlRank
    /\ Watcher \/ WatcherRank' = WatcherRank
    /\ MainStep \/ MainTodo' = MainTodo
    /\ (stopped => stopped') /\ (wstop => wstop') /\ (stop_requested => stop_requested')

(* When the control thread has ended nobody can connect any more; whoever   *)
(* joins has asked for the end; whoever is in a session has connected.      *)
EndInv ==
    /\ \A c \in Clients : Queued(c) \/ peer = c => cli[c] # "start"
    /\ server = "ended" => ~path /\ backlog = <<>>
    /\ main # "poll" => stopped
    /\ main = "destroy" => left # <<>>

LEMMA TodoTypes ==
    ASSUME IInv
    PROVE  /\ ControlRank \in Nat /\ LoopPlace \in Nat /\ Len(backlog) \in Nat
           /\ ControlTodo \in Nat /\ Len(batch) \in Nat /\ Len(queue) \in Nat /\ WatcherRank \in Nat
           /\ WatcherTodo \in Nat /\ Len(left) \in Nat /\ MainTodo \in Nat
<1>1. /\ Len(backlog) \in Nat /\ Len(batch) \in Nat /\ Len(queue) \in Nat
      /\ Len(left) \in Nat
  BY LenProperties, DaemonTypes DEF IInv, CPTypeOK, CWTypeOK, MainTypeOK
<1>2. ControlRank \in 0 .. 8
  BY DEF ControlRank, SessionRank
<1>3. LoopPlace \in 0 .. 6
  BY DEF LoopPlace, LoopRank
<1>4. MainTodo \in Nat
  BY <1>1 DEF MainTodo
<1>5. ControlTodo \in Nat
  BY <1>1, <1>2 DEF ControlTodo
<1>6. WatcherRank \in Nat
  BY <1>1, <1>3 DEF WatcherRank
<1>7. WatcherTodo \in Nat
  BY <1>1, <1>6 DEF WatcherTodo
<1>8. QED
  BY <1>1, <1>2, <1>3, <1>4, <1>5, <1>6, <1>7

(* The answer of a session ends it: the thread has an accept to wait for.   *)
LEMMA SessionCounts ==
    ASSUME IInv, server \in {"read", "dispatch", "reply"},
           NEW text, EndSession(text)
    PROVE  /\ ControlRank > 2 /\ ControlRank' = 2 /\ backlog' = backlog
           /\ UNCHANGED <<path, stopped>>
<1>1. server' = "run" /\ armed' = TRUE /\ UNCHANGED <<path, stopped, backlog>>
  BY DEF EndSession
<1>2. ControlRank > 2
  BY DEF ControlRank, SessionRank
<1>3. ControlRank' = 2
  BY <1>1 DEF ControlRank, SessionRank
<1>4. QED
  BY <1>1, <1>2, <1>3

LEMMA ControlCounts ==
    ASSUME IInv, Control
    PROVE  /\ ControlTodo' < ControlTodo
           /\ stopped => ControlRank' < ControlRank
           /\ job'["watcher"] = job["watcher"] /\ UNCHANGED <<stopped, cwVars, main, left>>
           /\ stop_requested => stop_requested'
<1>0. ControlRank \in Nat /\ Len(backlog) \in Nat
  BY TodoTypes
<1>1. CASE ServerStep /\ UNCHANGED <<cwVars, mainVars, jobs>>
  <2>0. UNCHANGED <<cwVars, main, left, job, stop_requested>>
    BY <1>1 DEF mainVars, jobs
  <2>1. CASE Accept
    <3>1. server = "run" /\ armed /\ server' = "read" /\ ~stopped /\ UNCHANGED stopped
      BY <2>1 DEF Accept
    <3>2. Len(backlog') = Len(backlog) - 1
      BY <2>1, HeadTailProperties, DaemonTypes DEF Accept, IInv, CPTypeOK
    <3>3. ControlRank = 2 /\ ControlRank' = 8
      BY <3>1 DEF ControlRank, SessionRank
    <3>4. QED
      BY <1>0, <2>0, <3>1, <3>2, <3>3 DEF ControlTodo
  <2>2. CASE AcceptFails
    <3>1. /\ server = "run" /\ armed /\ armed' = FALSE /\ ~stopped
          /\ UNCHANGED <<stopped, backlog, server>>
      BY <2>2 DEF AcceptFails, session
    <3>2. ControlRank = 2 /\ ControlRank' = 1
      BY <3>1 DEF ControlRank, SessionRank
    <3>3. QED
      BY <1>0, <2>0, <3>1, <3>2 DEF ControlTodo
  <2>3. CASE Read
    <3>1. server = "read" /\ server' = "dispatch" /\ UNCHANGED <<stopped, backlog>>
      BY <2>3 DEF Read, listener
    <3>2. job'["control"] = "none"
      BY <1>0, <2>0, <3>1, DaemonTypes DEF IInv, SessionInv, JobTypeOK, Threads
    <3>3. ControlRank = 8 /\ ControlRank' = 7
      BY <3>1, <3>2 DEF ControlRank, SessionRank
    <3>4. QED
      BY <1>0, <2>0, <3>1, <3>3 DEF ControlTodo
  <2>4. CASE ReadFails \/ Refuse
    BY <1>0, <2>0, <2>4, SessionCounts DEF ReadFails, Refuse, ControlTodo
  <2>5. CASE RunReturns
    <3>1. server = "run" /\ server' = "ended" /\ backlog' = <<>> /\ UNCHANGED stopped
      BY <2>5 DEF RunReturns
    <3>2. ControlRank > 0 /\ ControlRank' = 0 /\ Len(backlog') = 0
      BY <3>1 DEF ControlRank, SessionRank
    <3>3. ControlTodo' < ControlTodo
      BY <1>0, <3>2 DEF ControlTodo
    <3>4. QED
      BY <1>0, <2>0, <3>1, <3>2, <3>3
  <2>6. QED
    BY <1>1, <2>1, <2>2, <2>3, <2>4, <2>5 DEF ServerStep
<1>2. CASE Status \/ StopAnswered
  <2>1. UNCHANGED <<cwVars, main, left, job, stop_requested>>
    BY <1>2 DEF Status, StopAnswered, mainVars, jobs
  <2>2. QED
    BY <1>0, <1>2, <2>1, SessionCounts DEF Status, StopAnswered, ControlTodo
<1>3. CASE Stop
  <2>1. /\ server = "dispatch" /\ server' = "reply" /\ stop_requested' = TRUE
        /\ UNCHANGED <<stopped, backlog, cwVars, main, left, job>>
    BY <1>3 DEF Stop, listener, jobs
  <2>2. ControlRank > 3 /\ ControlRank' = 3
    BY <2>1 DEF ControlRank, SessionRank
  <2>3. QED
    BY <1>0, <2>1, <2>2 DEF ControlTodo
<1>4. CASE Reload \/ PluginReloaded("control") \/ Load("control")
  <2>1. /\ server = "dispatch" /\ UNCHANGED <<cpVars, cwVars, mainVars>>
        /\ <<job["control"], job'["control"]>> \in
               {<<"none", "plugin">>, <<"plugin", "load">>, <<"load", "install">>}
        /\ job'["watcher"] = job["watcher"]
    BY <1>4, DaemonTypes DEF Reload, PluginReloaded, Load, Goto, IInv, SessionInv,
                             JobTypeOK, Threads
  <2>2. UNCHANGED <<server, armed, stopped, backlog, stop_requested, main, left>>
    BY <2>1 DEF cpVars, listener, session, mainVars
  <2>3. ControlRank' = ControlRank - 1
    BY <2>1, <2>2 DEF ControlRank, SessionRank
  <2>4. QED
    BY <1>0, <2>1, <2>2, <2>3 DEF ControlTodo
<1>5. CASE PluginThrows("control") \/ Install("control")
  <2>1. /\ server = "dispatch" /\ UNCHANGED <<cwVars, mainVars>>
        /\ \E text \in {"OK", "error"} : EndSession(text)
        /\ job'["watcher"] = job["watcher"]
    BY <1>5, DaemonTypes DEF PluginThrows, Install, Goto, IInv, SessionInv,
                             JobTypeOK, Threads
  <2>2. QED
    BY <1>0, <2>1, SessionCounts DEF ControlTodo, mainVars
<1>6. QED
  BY <1>1, <1>2, <1>3, <1>4, <1>5 DEF Control, JobStep

LEMMA WatcherCounts ==
    ASSUME IInv, Watcher
    PROVE  /\ WatcherTodo' < WatcherTodo
           /\ wstop => WatcherRank' < WatcherRank
           /\ job'["control"] = job["control"] /\ UNCHANGED <<cpVars, mainVars, wstop>>
<1>0. /\ queue \in Seq({"config", "other"}) /\ batch \in Seq({"config", "other"})
      /\ Len(queue) \in Nat /\ Len(batch) \in Nat /\ LoopPlace \in Nat /\ WatcherRank \in Nat
  BY TodoTypes, DaemonTypes DEF IInv, CWTypeOK
<1>1. CASE (Poll \/ NextEvent) /\ UNCHANGED <<cpVars, mainVars, jobs>>
  <2>0. UNCHANGED <<cpVars, mainVars, job, wstop>>
    BY <1>1 DEF Poll, NextEvent, jobs
  <2>1. CASE Poll
    <3>1. watch = "poll" /\ batch = <<>> /\ Len(batch) = 0
      BY <2>1 DEF Poll, IInv, WatchInv
    <3>2. CASE wstop
      <4>1. watch' = "ended" /\ UNCHANGED <<batch, queue>>
        BY <2>1, <3>2 DEF Poll
      <4>2. WatcherRank = 1 /\ WatcherRank' = 0
        BY <3>1, <4>1 DEF WatcherRank, LoopPlace, LoopRank
      <4>3. QED
        BY <1>0, <2>0, <4>1, <4>2 DEF WatcherTodo
    <3>3. CASE ~wstop
      <4>1. watch' = "events" /\ batch' = queue /\ queue' = <<>> /\ queue # <<>>
        BY <2>1, <3>3 DEF Poll
      <4>2. WatcherRank = 1 /\ WatcherRank' = 2 + 6 * Len(queue) /\ Len(queue') = 0
        BY <3>1, <4>1 DEF WatcherRank, LoopPlace, LoopRank
      <4>3. Len(queue) > 0
        BY <1>0, <4>1
      <4>4. QED
        BY <1>0, <2>0, <3>3, <4>2, <4>3 DEF WatcherTodo
    <3>4. QED
      BY <3>2, <3>3
  <2>2. CASE NextEvent
    <3>0. watch = "events" /\ queue' = queue
      BY <2>2 DEF NextEvent, edits
    <3>1. CASE batch = <<>>
      <4>1. watch' = "poll" /\ batch' = batch /\ Len(batch) = 0
        BY <2>2, <3>1 DEF NextEvent
      <4>2. WatcherRank = 2 /\ WatcherRank' = 1
        BY <3>0, <4>1 DEF WatcherRank, LoopPlace, LoopRank
      <4>3. QED
        BY <1>0, <2>0, <3>0, <4>2 DEF WatcherTodo
    <3>2. CASE batch # <<>>
      <4>1. watch' \in {"callback", "events"} /\ batch' = Tail(batch)
        BY <2>2, <3>2 DEF NextEvent
      <4>2. Len(batch') = Len(batch) - 1
        BY <1>0, <3>2, <4>1
      <4>3. job'["watcher"] = "none"
        BY <1>0, <2>0, <3>0, DaemonTypes DEF IInv, WatchInv
      <4>4. LoopPlace = 2 /\ LoopPlace' \in {2, 6}
        BY <3>0, <4>1, <4>3 DEF LoopPlace, LoopRank
      <4>5. WatcherRank' <= WatcherRank - 2 /\ WatcherRank' \in Int
        BY <1>0, <4>2, <4>4 DEF WatcherRank
      <4>6. QED
        BY <1>0, <2>0, <3>0, <4>5 DEF WatcherTodo
    <3>3. QED
      BY <3>1, <3>2
  <2>3. QED
    BY <1>1, <2>1, <2>2
<1>2. CASE Callback \/ PluginReloaded("watcher") \/ PluginThrows("watcher") \/ Load("watcher")
  <2>1. /\ watch = "callback" /\ UNCHANGED <<cpVars, cwVars, mainVars>>
        /\ <<job["watcher"], job'["watcher"]>> \in
               {<<"none", "plugin">>, <<"plugin", "load">>, <<"load", "install">>}
        /\ job'["control"] = job["control"]
    BY <1>2, DaemonTypes DEF Callback, PluginReloaded, PluginThrows, Load, Goto, IInv,
                             WatchInv, JobTypeOK, Threads
  <2>2. UNCHANGED <<watch, batch, queue, wstop>>
    BY <2>1 DEF cwVars, edits
  <2>3. LoopPlace' = LoopPlace - 1
    BY <2>1, <2>2 DEF LoopPlace, LoopRank
  <2>4. QED
    BY <1>0, <2>1, <2>2, <2>3 DEF WatcherTodo, WatcherRank
<1>3. CASE Install("watcher")
  <2>1. /\ watch = "callback" /\ job["watcher"] = "install" /\ watch' = "events"
        /\ UNCHANGED <<batch, queue, wstop, cpVars, mainVars>>
        /\ job'["control"] = job["control"]
    BY <1>3, DaemonTypes DEF Install, CallbackReturns, Remaining, Goto, IInv,
                             WatchInv, JobTypeOK, Threads
  <2>2. WatcherRank' = WatcherRank - 1
    BY <1>0, <2>1 DEF WatcherRank, LoopPlace, LoopRank
  <2>3. QED
    BY <1>0, <2>1, <2>2 DEF WatcherTodo
<1>4. QED
  BY <1>1, <1>2, <1>3 DEF Watcher, JobStep

LEMMA MainCounts ==
    ASSUME IInv, EndInv, MainStep
    PROVE  /\ MainTodo' < MainTodo
           /\ UNCHANGED <<server, armed, backlog, path, edits, batch, watch, job>>
           /\ (stopped => stopped') /\ (wstop => wstop')
           /\ (stop_requested => stop_requested')
<1>0. Len(left) \in Nat /\ MainTodo \in Nat
  BY TodoTypes
<1>1. CASE Shutdown
  <2>1. /\ UNCHANGED <<server, armed, backlog, path, edits, batch, watch, job, wstop>>
        /\ stopped' = TRUE /\ stop_requested' = stop_requested
    BY <1>1 DEF Shutdown, session, cwVars, jobs
  <2>2. MainTodo = 11 /\ MainTodo' = 10
    BY <1>1 DEF Shutdown, MainTodo
  <2>3. QED
    BY <2>1, <2>2
<1>2. CASE Join
  <2>1. /\ UNCHANGED <<server, armed, backlog, path, edits, batch, watch, job, wstop>>
        /\ UNCHANGED <<stopped, stop_requested, left>>
    BY <1>2 DEF Join, cpVars, listener, session, cwVars, jobs
  <2>2. Len(left) = 4
    <3>1. left = Locals
      BY <1>2 DEF Join, IInv, ShutdownInv
    <3>2. QED
      BY <3>1 DEF Locals
  <2>3. MainTodo = 10 /\ MainTodo' \in {8, 9}
    BY <1>2, <2>1, <2>2 DEF Join, MainTodo
  <2>4. QED
    BY <2>1, <2>3
<1>3. CASE StopWatcher
  <2>1. /\ UNCHANGED <<server, armed, backlog, path, edits, batch, watch, job>>
        /\ UNCHANGED <<stopped, stop_requested, left, main>> /\ main = "destroy"
        /\ ~wstop /\ wstop' = TRUE
    BY <1>3 DEF StopWatcher, cpVars, listener, session, mainVars, jobs
  <2>2. MainTodo' = MainTodo - 1
    BY <1>0, <2>1 DEF MainTodo
  <2>3. QED
    BY <1>0, <2>1, <2>2
<1>4. CASE Destroy
  <2>1. /\ UNCHANGED <<server, armed, backlog, path, edits, batch, watch, job, wstop>>
        /\ UNCHANGED <<stopped, stop_requested>> /\ main = "destroy"
        /\ left # <<>> /\ left' = Tail(left)
        /\ main' = IF Len(left) = 1 THEN "returned" ELSE "destroy"
    BY <1>4 DEF Destroy, cpVars, listener, session, cwVars, jobs
  <2>2. Len(left) >= 1 /\ Len(left') = Len(left) - 1
    BY <2>1, HeadTailProperties, EmptySeq, DaemonTypes DEF IInv, MainTypeOK
  <2>3. MainTodo = 2 * Len(left) + IF wstop THEN 0 ELSE 1
    BY <2>1 DEF MainTodo
  <2>4. MainTodo' \in {0, MainTodo - 2}
    BY <1>0, <2>1, <2>2, <2>3 DEF MainTodo
  <2>5. MainTodo >= 2
    BY <1>0, <2>2, <2>3
  <2>6. QED
    BY <1>0, <2>1, <2>4, <2>5
<1>5. QED
  BY <1>1, <1>2, <1>3, <1>4 DEF MainStep

(* Clients, editors and signals leave the threads what they have in hand.   *)
LEMMA OthersTouchNothing ==
    ASSUME \/ Signal \/ UNCHANGED vars
           \/ (\E c \in Clients : ClientStep(c)) /\ UNCHANGED <<cwVars, mainVars, jobs>>
           \/ (Save \/ Rename \/ OtherFile) /\ UNCHANGED <<cpVars, mainVars, jobs>>
    PROVE  /\ UNCHANGED <<server, armed, stopped, path, watch, batch, wstop>>
           /\ UNCHANGED <<main, left, job>>
           /\ stop_requested => stop_requested'
<1>1. CASE Signal
  BY <1>1 DEF Signal, cpVars, listener, session, cwVars, edits, jobs
<1>2. CASE UNCHANGED vars
  BY <1>2 DEF vars, cpVars, listener, session, cwVars, edits, mainVars, jobs
<1>3. CASE (\E c \in Clients : ClientStep(c)) /\ UNCHANGED <<cwVars, mainVars, jobs>>
  BY <1>3 DEF ClientStep, Connect, Send, Receive, GiveUp, listener, session,
              cwVars, edits, mainVars, jobs
<1>4. CASE (Save \/ Rename \/ OtherFile) /\ UNCHANGED <<cpVars, mainVars, jobs>>
  BY <1>4 DEF Save, Rename, OtherFile, cpVars, listener, session, mainVars, jobs
<1>5. QED
  BY <1>1, <1>2, <1>3, <1>4

(* The word of the silent client, or the end of it.                         *)
LEMMA SilenceEnds ==
    ASSUME IInv, Silent, Speak(peer)
    PROVE  ~Silent' /\ CanServe'
<1>1. server = "read" /\ UNCHANGED session /\ peer \in Clients
  BY DEF Silent, Speak, Send, GiveUp, IInv, SessionInv
<1>2. server' = "read" /\ peer' = peer
  BY <1>1 DEF session
<1>3. CASE Send(peer)
  <2>1. ~Closed(peer)
    BY DEF Closed
  <2>2. \E r \in Requests : arrived' = [arrived EXCEPT ![peer] = r]
    BY <1>3, <2>1 DEF Send
  <2>3. arrived'[peer] # "nothing"
    BY <1>1, <2>2, DaemonTypes DEF IInv, CPTypeOK, Requests
  <2>4. QED
    BY <1>2, <2>3 DEF Silent, CanServe
<1>4. CASE GiveUp(peer)
  <2>1. cli'[peer] = "exit"
    BY <1>1, <1>4, DaemonTypes DEF GiveUp, Cli, IInv, CPTypeOK
  <2>2. QED
    BY <1>2, <2>1 DEF Silent, CanServe
<1>5. QED
  BY <1>3, <1>4 DEF Speak

LEMMA StepsCount ==
    ASSUME IInv, EndInv, [Next]_vars
    PROVE  EachStepCounts
<1> DEFINE Others ==
      \/ Signal \/ UNCHANGED vars
      \/ (\E c \in Clients : ClientStep(c)) /\ UNCHANGED <<cwVars, mainVars, jobs>>
      \/ (Save \/ Rename \/ OtherFile) /\ UNCHANGED <<cpVars, mainVars, jobs>>
<1>1. ASSUME Control
      PROVE  /\ WatcherRank' = WatcherRank /\ MainTodo' = MainTodo
             /\ (stopped => stopped') /\ (wstop => wstop')
             /\ (stop_requested => stop_requested')
  <2>1. UNCHANGED <<stopped, watch, batch, wstop, main, left>>
    BY <1>1, ControlCounts DEF cwVars, edits
  <2>2. job'["watcher"] = job["watcher"]
    BY <1>1, ControlCounts
  <2>3. WatcherRank' = WatcherRank
    BY <2>1, <2>2 DEF WatcherRank, LoopPlace
  <2>4. MainTodo' = MainTodo
    BY <2>1 DEF MainTodo
  <2>5. QED
    BY <1>1, <2>1, <2>3, <2>4, ControlCounts
<1>2. ASSUME Watcher
      PROVE  /\ ControlRank' = ControlRank /\ MainTodo' = MainTodo
             /\ (stopped => stopped') /\ (wstop => wstop')
             /\ (stop_requested => stop_requested')
  <2>1. UNCHANGED <<server, armed, stopped, wstop, main, left, stop_requested>>
    BY <1>2, WatcherCounts DEF cpVars, listener, session, mainVars
  <2>2. job'["control"] = job["control"]
    BY <1>2, WatcherCounts
  <2>3. ControlRank' = ControlRank
    BY <2>1, <2>2 DEF ControlRank
  <2>4. MainTodo' = MainTodo
    BY <2>1 DEF MainTodo
  <2>5. QED
    BY <2>1, <2>3, <2>4
<1>3. ASSUME MainStep
      PROVE  /\ ControlRank' = ControlRank /\ WatcherRank' = WatcherRank
             /\ (stopped => stopped') /\ (wstop => wstop')
             /\ (stop_requested => stop_requested')
  <2>1. UNCHANGED <<server, armed, watch, batch, job>>
    BY <1>3, MainCounts
  <2>2. ControlRank' = ControlRank
    BY <2>1 DEF ControlRank
  <2>3. WatcherRank' = WatcherRank
    BY <2>1 DEF WatcherRank, LoopPlace
  <2>4. QED
    BY <1>3, <2>2, <2>3, MainCounts
<1>4. ASSUME Others
      PROVE  /\ ControlRank' = ControlRank /\ WatcherRank' = WatcherRank
             /\ MainTodo' = MainTodo
             /\ (stopped => stopped') /\ (wstop => wstop')
             /\ (stop_requested => stop_requested')
  <2>1. /\ UNCHANGED <<server, armed, stopped, path, watch, batch, wstop, main, left, job>>
        /\ stop_requested => stop_requested'
    BY <1>4, OthersTouchNothing
  <2>2. ControlRank' = ControlRank
    BY <2>1 DEF ControlRank
  <2>3. WatcherRank' = WatcherRank
    BY <2>1 DEF WatcherRank, LoopPlace
  <2>4. MainTodo' = MainTodo
    BY <2>1 DEF MainTodo
  <2>5. QED
    BY <2>1, <2>2, <2>3, <2>4
<1>5. Control \/ Watcher \/ MainStep \/ Others
  BY DEF Next
<1> HIDE DEF Others
<1>6. /\ Control => ControlTodo' < ControlTodo /\ (stopped => ControlRank' < ControlRank)
      /\ Watcher => WatcherTodo' < WatcherTodo /\ (wstop => WatcherRank' < WatcherRank)
      /\ MainStep => MainTodo' < MainTodo
  BY ControlCounts, WatcherCounts, MainCounts
<1>7. Silent /\ Speak(peer) => ~Silent' /\ CanServe'
  BY SilenceEnds
<1>8. QED
  BY <1>1, <1>2, <1>3, <1>4, <1>5, <1>6, <1>7 DEF EachStepCounts

(* Nobody is in the queue or in a session who has not connected.            *)
LEMMA WhoWaitsHasConnected ==
    ASSUME IInv, [Next]_vars,
           \A c \in Clients : Queued(c) \/ peer = c => cli[c] # "start"
    PROVE  \A c \in Clients : Queued(c)' \/ peer' = c => cli'[c] # "start"
<1>0. cli \in [Clients -> {"start", "send", "recv", "exit"}] /\ backlog \in Seq(Clients)
  BY DaemonTypes DEF IInv, CPTypeOK
<1>1. ASSUME cli' = cli, \A c \in Clients : Queued(c)' \/ peer' = c => Queued(c) \/ peer = c
      PROVE  \A c \in Clients : Queued(c)' \/ peer' = c => cli'[c] # "start"
  BY <1>1
<1>2. ASSUME NEW text, EndSession(text)
      PROVE  /\ cli' = cli
             /\ \A c \in Clients : Queued(c)' \/ peer' = c => Queued(c) \/ peer = c
  BY <1>2, ClientAssumption DEF EndSession, Queued
<1>3. CASE UNCHANGED cpVars
  BY <1>1, <1>3 DEF cpVars, listener, session, clients, Queued
<1>4. CASE Control
  <2>1. CASE Accept
    <3>1. /\ cli' = cli /\ peer' = Head(backlog) /\ backlog' = Tail(backlog)
          /\ backlog # <<>>
      BY <2>1 DEF Accept, clients
    <3>2. \A c : Queued(c)' \/ peer' = c => Queued(c)
      BY <1>0, <3>1, HeadTailProperties DEF Queued
    <3>3. QED
      BY <1>1, <3>1, <3>2
  <2>2. CASE AcceptFails \/ Read
    BY <1>1, <2>2 DEF AcceptFails, Read, listener, session, clients, Queued
  <2>3. CASE RunReturns
    BY <1>1, <2>3 DEF RunReturns, Queued
  <2>4. CASE \/ ReadFails \/ Refuse \/ Status \/ StopAnswered
             \/ PluginThrows("control") \/ Install("control")
    <3>1. \E text \in {"OK", "error"} : EndSession(text)
      BY <2>4 DEF ReadFails, Refuse, Status, StopAnswered, PluginThrows, Install
    <3>2. QED
      BY <1>1, <1>2, <3>1
  <2>5. CASE Stop
    BY <1>1, <2>5 DEF Stop, listener, clients, Queued
  <2>6. CASE Reload \/ PluginReloaded("control") \/ Load("control")
    BY <1>3, <2>6 DEF Reload, PluginReloaded, Load
  <2>7. QED
    BY <1>4, <2>1, <2>2, <2>3, <2>4, <2>5, <2>6 DEF Control, ServerStep, JobStep
<1>5. CASE Watcher
  BY <1>3, <1>5, WatcherCounts
<1>6. CASE MainStep
  <2>1. UNCHANGED <<backlog, peer, cli>>
    BY <1>6 DEF MainStep, Shutdown, Join, StopWatcher, Destroy, cpVars, listener,
                session, clients
  <2>2. QED
    BY <1>1, <2>1 DEF Queued
<1>7. ASSUME NEW c \in Clients, ClientStep(c)
      PROVE  \A d \in Clients : Queued(d)' \/ peer' = d => cli'[d] # "start"
  <2>1. UNCHANGED peer
    BY <1>7 DEF ClientStep, Connect, Send, Receive, GiveUp, session
  <2>2. CASE Connect(c)
    <3>1. cli'[c] # "start" /\ \A d \in Clients \ {c} : cli'[d] = cli[d]
      BY <1>0, <2>2 DEF Connect, Cli
    <3>2. \A d \in Clients \ {c} : Queued(d)' => Queued(d)
      <4>1. backlog' = backlog \/ backlog' = Append(backlog, c)
        BY <2>2 DEF Connect
      <4>2. CASE backlog' = backlog
        BY <4>2 DEF Queued
      <4>3. CASE backlog' = Append(backlog, c)
        <5>1. /\ DOMAIN backlog = 1 .. Len(backlog) /\ Len(backlog) \in Nat
              /\ DOMAIN backlog' = 1 .. Len(backlog) + 1
              /\ \A k \in 1 .. Len(backlog) : backlog'[k] = backlog[k]
              /\ backlog'[Len(backlog) + 1] = c
          BY <1>0, <4>3, AppendProperties, LenProperties
        <5>2. QED
          BY <5>1 DEF Queued
      <4>4. QED
        BY <4>1, <4>2, <4>3
    <3>3. QED
      BY <2>1, <3>1, <3>2
  <2>3. CASE Send(c) \/ Receive(c) \/ GiveUp(c)
    <3>1. backlog' = backlog /\ \A d \in Clients : cli[d] # "start" => cli'[d] # "start"
      BY <1>0, <2>3 DEF Send, Receive, GiveUp, Cli, listener
    <3>2. QED
      BY <2>1, <3>1 DEF Queued
  <2>4. QED
    BY <1>7, <2>2, <2>3 DEF ClientStep
<1>8. CASE \/ Signal \/ UNCHANGED vars
           \/ (Save \/ Rename \/ OtherFile) /\ UNCHANGED <<cpVars, mainVars, jobs>>
  <2>1. UNCHANGED cpVars
    BY <1>8 DEF Signal, vars
  <2>2. QED
    BY <1>3, <2>1
<1>9. QED
  BY <1>4, <1>5, <1>6, <1>7, <1>8 DEF Next

LEMMA EndKeeps ==
    ASSUME IInv, EndInv, [Next]_vars
    PROVE  EndInv'
<1>0. \A c \in Clients : Queued(c)' \/ peer' = c => cli'[c] # "start"
  BY WhoWaitsHasConnected DEF EndInv
<1>1. CASE Control
  <2>1. UNCHANGED <<stopped, main, left>>
    BY <1>1, ControlCounts
  <2>2. server' = "ended" => ~path' /\ backlog' = <<>>
    <3>1. CASE ServerStep
      BY <3>1 DEF ServerStep, Accept, AcceptFails, Read, ReadFails, Refuse, EndSession,
                  RunReturns, session
    <3>2. CASE Status \/ Stop \/ StopAnswered \/ PluginThrows("control") \/ Install("control")
      BY <3>2 DEF Status, Stop, StopAnswered, PluginThrows, Install, EndSession
    <3>3. CASE Reload \/ PluginReloaded("control") \/ Load("control")
      BY <3>3 DEF Reload, PluginReloaded, Load, cpVars, listener, session, EndInv
    <3>4. QED
      BY <1>1, <3>1, <3>2, <3>3 DEF Control, JobStep
  <2>3. QED
    BY <1>0, <2>1, <2>2 DEF EndInv
<1>2. CASE Watcher
  BY <1>0, <1>2, WatcherCounts DEF EndInv, cpVars, listener, session, mainVars
<1>3. CASE MainStep
  <2>1. UNCHANGED <<server, path, backlog>>
    BY <1>3, MainCounts
  <2>2. main' # "poll" => stopped'
    BY <1>3 DEF MainStep, Shutdown, Join, StopWatcher, Destroy, EndInv, cpVars, listener
  <2>3. main' = "destroy" => left' # <<>>
    <3>1. CASE Shutdown
      BY <3>1 DEF Shutdown
    <3>2. CASE Join
      BY <3>2, Destroyed DEF Join, IInv, ShutdownInv
    <3>3. CASE StopWatcher
      BY <3>3 DEF StopWatcher, mainVars
    <3>4. CASE Destroy
      <4>1. /\ left \in Seq({"control_plane", "watcher", "engine", "plugin"})
            /\ left # <<>> /\ left' = Tail(left) /\ (main' = "destroy" => Len(left) # 1)
        BY <3>4, DaemonTypes DEF Destroy, IInv, MainTypeOK
      <4>2. Len(left) # 1 => Len(left') # 0
        BY <4>1, HeadTailProperties, EmptySeq, LenProperties
      <4>3. QED
        BY <4>1, <4>2
    <3>5. QED
      BY <1>3, <3>1, <3>2, <3>3, <3>4 DEF MainStep
  <2>4. QED
    BY <1>0, <2>1, <2>2, <2>3 DEF EndInv
<1>4. CASE \E c \in Clients : ClientStep(c) /\ UNCHANGED <<cwVars, mainVars, jobs>>
  <2>1. /\ UNCHANGED <<server, armed, stopped, path, watch, batch, wstop, main, left, job>>
    BY <1>4, OthersTouchNothing
  <2>2. ~path => backlog' = backlog
    BY <1>4 DEF ClientStep, Connect, Send, Receive, GiveUp, listener
  <2>3. QED
    BY <1>0, <2>1, <2>2 DEF EndInv
<1>5. CASE \/ Signal \/ UNCHANGED vars
           \/ (Save \/ Rename \/ OtherFile) /\ UNCHANGED <<cpVars, mainVars, jobs>>
  <2>1. /\ UNCHANGED <<server, armed, stopped, path, watch, batch, wstop, main, left, job>>
    BY <1>5, OthersTouchNothing
  <2>2. backlog' = backlog
    BY <1>5 DEF Signal, vars, cpVars, listener
  <2>3. QED
    BY <1>0, <2>1, <2>2 DEF EndInv
<1>6. QED
  BY <1>1, <1>2, <1>3, <1>4, <1>5 DEF Next

LEMMA SomebodyMoves ==
    ASSUME IInv, EndInv
    PROVE  BacklogMoves /\ ShutdownMoves
<1>1. server # "ended" /\ (stopped \/ backlog # <<>>) => Serves
  <2>1. server \in {"run", "read", "dispatch", "reply", "ended"}
    BY DaemonTypes DEF IInv, CPTypeOK
  <2>2. job["control"] \in {"none", "plugin", "load", "install"}
    BY DaemonTypes DEF IInv, JobTypeOK, Threads
  <2>3. CASE Silent
    <3>1. peer \in Clients /\ cli[peer] \in {"send", "recv"}
      BY <2>3, DaemonTypes DEF Silent, IInv, SessionInv, CPTypeOK, EndInv
    <3>2. QED
      BY <2>3, <3>1 DEF Serves, CanSpeak, Closed
  <2>4. CASE ~Silent
    <3>1. server = "read" => CanServe
      BY <2>4 DEF Silent, CanServe
    <3>2. CASE server = "run" \/ server = "reply"
      BY <3>2 DEF Serves, CanServe
    <3>3. CASE server = "dispatch"
      BY <2>2, <3>3 DEF Serves, CanServe
    <3>4. QED
      BY <2>1, <3>1, <3>2, <3>3 DEF Serves
  <2>5. QED
    BY <2>3, <2>4
<1>2. watch # "ended" /\ wstop => CanWatch
  <2>1. watch \in {"poll", "events", "callback", "ended"}
    BY DaemonTypes DEF IInv, CWTypeOK
  <2>2. job["watcher"] \in {"none", "plugin", "load", "install"}
    BY DaemonTypes DEF IInv, JobTypeOK, Threads
  <2>3. QED
    BY <2>1, <2>2 DEF CanWatch
<1>3. BacklogMoves
  BY <1>1 DEF BacklogMoves, EndInv
<1>4. main \in {"poll", "join", "destroy", "returned"}
  BY DaemonTypes DEF IInv, MainTypeOK
<1>5. ShutdownMoves
  BY <1>1, <1>2, <1>4 DEF ShutdownMoves, CanMain, EndInv
<1>6. QED
  BY <1>3, <1>5

(* The part of StopEnds and QueueMoves that is not about fairness: whoever  *)
(* waits, main() in a join or a client in the backlog, waits for a thread   *)
(* that can go on or for the one client that is in a session and silent;    *)
(* each step of a thread leaves it less to do, and a word of that client,   *)
(* or its end, lets the thread go on.  Only a new connection or a new event *)
(* gives a thread more, and none when it has been stopped.                  *)
THEOREM ShutdownRunsOut ==
    Spec => /\ [](BacklogMoves /\ ShutdownMoves)
            /\ [](ControlTodo \in Nat /\ WatcherTodo \in Nat /\ MainTodo \in Nat)
            /\ [][EachStepCounts]_vars
<1>1. Init => EndInv
  BY ClientAssumption DEF Init, CPInit, EndInv, Queued
<1>2. IInv /\ EndInv /\ [Next]_vars => EndInv'
  BY EndKeeps
<1>3. IInv /\ EndInv /\ [Next]_vars => [EachStepCounts]_vars
  BY StepsCount
<1>4. IInv /\ EndInv => BacklogMoves /\ ShutdownMoves
  BY SomebodyMoves
<1>5. IInv => ControlTodo \in Nat /\ WatcherTodo \in Nat /\ MainTodo \in Nat
  BY TodoTypes
<1>6. QED
  BY <1>1, <1>2, <1>3, <1>4, <1>5, InductiveInvariant, PTL DEF Spec
=============================================================================
