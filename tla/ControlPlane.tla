---------------------------- MODULE ControlPlane ----------------------------
(***************************************************************************)
(* The control plane and its clients: the control thread accepts one       *)
(* connection at a time, reads once, runs the handler and answers;         *)
(* workflow-cli connects, sends, half-closes and waits for an answer or    *)
(* for three seconds of silence.  What the handlers do is in Daemon.       *)
(*                                                                         *)
(* A client may die or stall.  "other" is what reaches no handler: a blank *)
(* or unknown request, one that is too long, a piece of one that arrives   *)
(* in two: read_some() is called once, the second piece is never read.     *)
(*                                                                         *)
(* There is no deadline for a request.  SO_RCVTIMEO is set, but read_some()*)
(* of Boost.Asio answers the EAGAIN of a blocking socket by a poll() that  *)
(* has no timeout: it returns for data, for the end of file or an error.   *)
(***************************************************************************)
EXTENDS Integers, Sequences, FiniteSets

CONSTANTS Clients, Nobody

ASSUME ClientAssumption == Nobody \notin Clients

VARIABLES
    path,       \* the socket file exists and is bound to the acceptor
    armed,      \* an async_accept is pending
    stopped,    \* ioc_.stop() has been called
    backlog,    \* connections that wait to be accepted
    server,     \* its thread: "run", "read", "dispatch", "reply" or "ended"
    peer,       \* whose session it is, or Nobody
    request,    \* what read_some() made of it
    cli,        \* of a client: "start", "send", "recv" or "exit"
    arrived,    \* what is to be read from its connection, or "nothing"
    answer      \* what the server has written to it, or "none"

listener == <<path, armed, stopped, backlog>>
session  == <<server, peer, request>>
clients  == <<cli, arrived, answer>>
cpVars   == <<listener, session, clients>>

Requests == {"RELOAD", "STOP", "STATUS", "other"}
Queued(c) == \E k \in DOMAIN backlog : backlog[k] = c
Closed(c) == cli[c] # "start" /\ ~Queued(c) /\ peer # c

(* The constructor has unlinked a stale file, bound and listened.           *)
CPInit ==
    /\ path = TRUE /\ armed = TRUE /\ stopped = FALSE /\ backlog = <<>>
    /\ server = "run" /\ peer = Nobody /\ request = "other"
    /\ cli = [c \in Clients |-> "start"]
    /\ arrived = [c \in Clients |-> "nothing"]
    /\ answer = [c \in Clients |-> "none"]

-----------------------------------------------------------------------------
(* workflow-cli.                                                            *)
Cli(c, state) == cli' = [cli EXCEPT ![c] = state]

Connect(c) ==
    /\ cli[c] = "start"
    /\ IF path THEN Cli(c, "send") /\ backlog' = Append(backlog, c)
               ELSE Cli(c, "exit") /\ UNCHANGED backlog
    /\ UNCHANGED <<path, armed, stopped, session, arrived, answer>>

(* One write() of send_all(); it fails on a connection that is closed.      *)
Send(c) ==
    /\ cli[c] = "send"
    /\ IF Closed(c)
       THEN Cli(c, "exit") /\ UNCHANGED arrived
       ELSE /\ \E r \in Requests : arrived' = [arrived EXCEPT ![c] = r]
            /\ Cli(c, "recv")
    /\ UNCHANGED <<listener, session, answer>>

(* The answer and the end of file after it, or the end of file alone.       *)
Receive(c) ==
    /\ cli[c] = "recv" /\ Closed(c) /\ Cli(c, "exit")
    /\ answer' = [answer EXCEPT ![c] = "none"]
    /\ UNCHANGED <<listener, session, arrived>>

(* Three seconds of silence, or somebody kills the client: what it has sent *)
(* stays in the buffer.                                                     *)
GiveUp(c) ==
    /\ cli[c] \in {"send", "recv"} /\ ~Closed(c)
    /\ Cli(c, "exit")
    /\ UNCHANGED <<listener, session, arrived, answer>>

-----------------------------------------------------------------------------
(* The control thread.                                                      *)
Accept ==
    /\ server = "run" /\ armed /\ ~stopped /\ backlog # <<>>
    /\ peer' = Head(backlog) /\ backlog' = Tail(backlog)
    /\ armed' = FALSE /\ server' = "read"
    /\ UNCHANGED <<path, stopped, request, clients>>

(* No descriptor is left, for one: the handler returns and does not re-arm. *)
AcceptFails ==
    /\ server = "run" /\ armed /\ ~stopped
    /\ armed' = FALSE
    /\ UNCHANGED <<path, stopped, backlog, session, clients>>

(* One read_some(): what has arrived is taken for the whole command.        *)
Read_Mutant ==
    /\ server = "read" /\ request' = arrived[peer] /\ server' = "dispatch"
    /\ UNCHANGED <<listener, peer, clients>>
Read ==
    /\ server = "read" /\ arrived[peer] # "nothing"
    /\ request' = arrived[peer] /\ server' = "dispatch"
    /\ UNCHANGED <<listener, peer, clients>>

(* The answer is written, the socket closed, the next accept armed.         *)
EndSession(text) ==
    /\ answer' = [answer EXCEPT ![peer] =
                     IF cli[peer] \in {"send", "recv"} THEN text ELSE "none"]
    /\ arrived' = [arrived EXCEPT ![peer] = "nothing"]
    /\ peer' = Nobody /\ request' = "other" /\ server' = "run"
    /\ armed' = TRUE
    /\ UNCHANGED <<path, stopped, backlog, cli>>

(* End of file: the client has gone without a word.  As long as it stays    *)
(* connected and silent the thread stays in read_some().                    *)
HungUp_Mutant(c) == c = Nobody
HungUp(c)        == arrived[c] = "nothing" /\ cli[c] = "exit"

ReadFails == server = "read" /\ HungUp(peer) /\ EndSession("error")

Refuse == server = "dispatch" /\ request = "other" /\ EndSession("error")

(* ioc_.run() returns when it is stopped or has nothing left to wait for.   *)
RunEnds_Mutant == ~armed
RunEnds        == stopped \/ ~armed

(* The acceptor is closed, with what waits in its queue, and the file goes. *)
RunReturns ==
    /\ server = "run" /\ RunEnds
    /\ path' = FALSE /\ armed' = FALSE /\ server' = "ended"
    /\ backlog' = <<>> /\ arrived' = [c \in Clients |-> "nothing"]
    /\ UNCHANGED <<stopped, peer, request, cli, answer>>

ServerStep == \/ Accept \/ AcceptFails \/ Read \/ ReadFails \/ Refuse
              \/ RunReturns
ClientStep(c) == Connect(c) \/ Send(c) \/ Receive(c) \/ GiveUp(c)

CPTypeOK ==
    /\ {path, armed, stopped} \subseteq BOOLEAN
    /\ server \in {"run", "read", "dispatch", "reply", "ended"}
    /\ peer \in Clients \cup {Nobody} /\ request \in Requests
    /\ backlog \in Seq(Clients)
    /\ cli \in [Clients -> {"start", "send", "recv", "exit"}]
    /\ arrived \in [Clients -> {"nothing"} \cup Requests]
    /\ answer \in [Clients -> {"none", "error", "OK"}]
=============================================================================
