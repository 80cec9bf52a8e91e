------------------------------- MODULE Daemon -------------------------------
(***************************************************************************)
(* main(): the control thread and the watcher thread reload the plugin and *)
(* the configuration for RELOAD and for an edit, without a lock between    *)
(* them; the main thread polls two flags and then takes the program down.  *)
(*                                                                         *)
(* A reload is three steps here: the plugin, the text of the file, the     *)
(* graph built from it.  PluginManager and ConfigReload have the detail.   *)
(***************************************************************************)
EXTENDS ControlPlane, ConfigWatcher

VARIABLES
    stop_requested, \* engine_stop_requested, or the signal flag
    main,           \* "poll", "join", "destroy" or "returned"
    left,           \* the objects that are not destroyed yet, in order
    job,            \* of a thread: "none", "plugin", "load" or "install"
    got             \* history: the version the watcher has read last

mainVars == <<stop_requested, main, left>>
jobs     == <<job, got>>
vars     == <<cpVars, cwVars, mainVars, jobs>>

Threads == {"control", "watcher"}

(* Locals are destroyed in the reverse order of their declarations.         *)
Locals_Mutant == <<"control_plane", "engine", "watcher", "plugin">>
Locals        == <<"control_plane", "watcher", "engine", "plugin">>
Alive(object) == \E k \in DOMAIN left : left[k] = object

Init ==
    /\ CPInit /\ CWInit
    /\ stop_requested = FALSE /\ main = "poll" /\ left = Locals
    /\ job = [t \in Threads |-> "none"] /\ got = 0

Goto(t, step) == job' = [job EXCEPT ![t] = step]

-----------------------------------------------------------------------------
(* The handlers of the three commands, and the callback of the watcher.     *)
Reload ==
    /\ server = "dispatch" /\ request = "RELOAD" /\ job["control"] = "none"
    /\ Goto("control", "plugin")
    /\ UNCHANGED <<cpVars, cwVars, mainVars, got>>

Status ==
    /\ server = "dispatch" /\ request = "STATUS" /\ EndSession("OK")
    /\ UNCHANGED <<cwVars, mainVars, jobs>>

(* The main thread may see the flag before the answer has been written.     *)
Stop ==
    /\ server = "dispatch" /\ request = "STOP"
    /\ stop_requested' = TRUE /\ server' = "reply"
    /\ UNCHANGED <<listener, peer, request, clients, cwVars, main, left, jobs>>

StopAnswered ==
    /\ server = "reply" /\ EndSession("OK")
    /\ UNCHANGED <<cwVars, mainVars, jobs>>

Callback ==
    /\ watch = "callback" /\ job["watcher"] = "none"
    /\ Goto("watcher", "plugin")
    /\ UNCHANGED <<cpVars, cwVars, mainVars, got>>

-----------------------------------------------------------------------------
PluginReloaded(t) ==
    /\ job[t] = "plugin" /\ Goto(t, "load")
    /\ UNCHANGED <<cpVars, cwVars, mainVars, got>>

(* RELOAD gives up; the callback logs it and reloads the configuration.     *)
PluginThrows(t) ==
    /\ job[t] = "plugin"
    /\ IF t = "control"
       THEN Goto(t, "none") /\ EndSession("error")
       ELSE Goto(t, "load") /\ UNCHANGED cpVars
    /\ UNCHANGED <<cwVars, mainVars, got>>

(* onConfigChanged(): the text is read, then a graph is built from it.      *)
Load(t) ==
    /\ job[t] = "load" /\ Goto(t, "install")
    /\ got' = IF t = "watcher" THEN version ELSE got
    /\ UNCHANGED <<cpVars, cwVars, mainVars>>

(* What loadConfig() throws is swallowed: RELOAD answers OK all the same.   *)
Install(t) ==
    /\ job[t] = "install" /\ Goto(t, "none")
    /\ IF t = "control"
       THEN EndSession("OK") /\ UNCHANGED cwVars
       ELSE CallbackReturns /\ UNCHANGED cpVars
    /\ UNCHANGED <<mainVars, got>>

-----------------------------------------------------------------------------
(* The main thread.                                                         *)
Signal ==
    /\ ~stop_requested /\ stop_requested' = TRUE
    /\ UNCHANGED <<cpVars, cwVars, main, left, jobs>>

(* control_thread.request_stop(): its stop callback stops the io_context.   *)
Shutdown ==
    /\ main = "poll" /\ stop_requested
    /\ main' = "join" /\ stopped' = TRUE
    /\ UNCHANGED <<path, armed, backlog, session, clients, cwVars,
                   stop_requested, left, jobs>>

Join ==
    /\ main = "join" /\ server = "ended"
    /\ main' = "destroy"
    /\ UNCHANGED <<cpVars, cwVars, stop_requested, left, jobs>>

(* ~ConfigWatcher asks its thread to stop and joins it.                     *)
StopWatcher ==
    /\ main = "destroy" /\ left # <<>> /\ Head(left) = "watcher" /\ ~wstop
    /\ wstop' = TRUE
    /\ UNCHANGED <<cpVars, edits, batch, watch, mainVars, jobs>>

Destroy ==
    /\ main = "destroy" /\ left # <<>>
    /\ Head(left) = "watcher" => watch = "ended"
    /\ left' = Tail(left)
    /\ main' = IF Len(left) = 1 THEN "returned" ELSE "destroy"
    /\ UNCHANGED <<cpVars, cwVars, stop_requested, jobs>>

MainStep == Shutdown \/ Join \/ StopWatcher \/ Destroy
JobStep(t) == PluginReloaded(t) \/ PluginThrows(t) \/ Load(t) \/ Install(t)
Control == \/ ServerStep /\ UNCHANGED <<cwVars, mainVars, jobs>>
           \/ Reload \/ Status \/ Stop \/ StopAnswered \/ JobStep("control")
Watcher == \/ (Poll \/ NextEvent) /\ UNCHANGED <<cpVars, mainVars, jobs>>
           \/ Callback \/ JobStep("watcher")

Next ==
    \/ Control \/ Watcher \/ MainStep \/ Signal
    \/ (\E c \in Clients : ClientStep(c)) /\ UNCHANGED <<cwVars, mainVars, jobs>>
    \/ (Save \/ Rename \/ OtherFile) /\ UNCHANGED <<cpVars, mainVars, jobs>>

(* The three threads of the program run; clients and editors need not.      *)
Spec == /\ Init /\ [][Next]_vars
        /\ WF_vars(Control) /\ WF_vars(Watcher) /\ WF_vars(MainStep)

(* With clients that are workflow-cli and are not suspended: whoever has    *)
(* connected sends its command, or is killed.                               *)
Speak(c) == (Send(c) \/ GiveUp(c)) /\ UNCHANGED <<cwVars, mainVars, jobs>>
CliSpec  == Spec /\ \A c \in Clients : WF_vars(Speak(c))

-----------------------------------------------------------------------------
(* Properties.                                                              *)
DaemonTypeOK ==
    /\ CPTypeOK /\ CWTypeOK
    /\ stop_requested \in BOOLEAN
    /\ main \in {"poll", "join", "destroy", "returned"}
    /\ left \in Seq({"control_plane", "watcher", "engine", "plugin"})
    /\ job \in [Threads -> {"none", "plugin", "load", "install"}]
    /\ got \in 0 .. MaxEdits

(* The callback and the handlers hold references to locals of main(): no    *)
(* thread is in a reload, or in a session, when what it uses is destroyed,  *)
(* so that whoever was accepted has been answered.                          *)
NothingUsedDestroyed ==
    /\ \A t \in Threads : job[t] # "none" => Alive("engine") /\ Alive("plugin")
    /\ server # "ended" => Alive("control_plane")

(* An edit that the kernel reports during a callback is not missed: when    *)
(* the watcher waits again it has read the file as of the last event.       *)
EditsAreRead == watch = "poll" /\ queue = <<>> => got >= notified

(* "a stalled client cannot block the control-plane thread indefinitely":   *)
(* what ControlPlane.cpp says of the deadline it sets.  A client that stays *)
(* connected without a word does block it.                                  *)
ReadEnds == server = "read" ~> server # "read"

(* One session at a time: among clients that speak or go, whichever they    *)
(* are and whatever the handlers do, the queue of those that wait is empty  *)
(* again and again (CliSpec).                                               *)
QueueMoves == []<>(backlog = <<>>)

(* After STOP or a signal the process ends, in the middle of a session, of  *)
(* a reload or of a batch of events, and after an accept error, as long as  *)
(* the client of that session speaks or goes (CliSpec): nothing wakes the   *)
(* thread that main() joins from its read.                                  *)
StopEnds == stop_requested ~> main = "returned"
=============================================================================
