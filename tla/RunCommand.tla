----------------------------- MODULE RunCommand -----------------------------
(***************************************************************************)
(* runCommand() of the audio editor, called by several workers at once: a  *)
(* pair of pipes, fork and exec, the child's output read to the end, the   *)
(* child waited for.  The pipes are not closed on exec: a child holds the  *)
(* write ends of every pair that is open in the parent when it is forked.  *)
(***************************************************************************)
EXTENDS Naturals, FiniteSets

CONSTANTS
    Workers,
    Parent    \* as a holder of write ends

ASSUME ParentAssumption == Parent \notin Workers

VARIABLES
    rc,       \* of a worker: "idle", "pipes", "forked", "stdout", "stderr" or "wait"
    child,    \* of a worker: "none", "running", "closed" or "exited"
    code,     \* of a child: "ok" or "failed"
    holders,  \* of a worker's pipes: the parent and the children with a write end
    verbose   \* whether the program writes more to stderr than a pipe holds

rcVars == <<rc, child, code, holders, verbose>>

RCInit ==
    /\ rc = [w \in Workers |-> "idle"] /\ child = [w \in Workers |-> "none"]
    /\ code = [w \in Workers |-> "failed"] /\ holders = [w \in Workers |-> {}]
    /\ verbose = FALSE

At(w, from, to) == rc[w] = from /\ rc' = [rc EXCEPT ![w] = to]

Pipes(w) ==
    /\ At(w, "idle", "pipes") /\ holders' = [holders EXCEPT ![w] = {Parent}]
    /\ UNCHANGED <<child, code, verbose>>

Fork(w) ==
    /\ At(w, "pipes", "forked") /\ child' = [child EXCEPT ![w] = "running"]
    /\ holders' = [v \in Workers |-> holders[v] \cup (IF Parent \in holders[v] THEN {w} ELSE {})]
    /\ UNCHANGED <<code, verbose>>

CloseWrites_Mutant(w) ==
    /\ At(w, "forked", "stdout")
    /\ UNCHANGED <<child, code, holders, verbose>>
CloseWrites(w) ==
    /\ At(w, "forked", "stdout") /\ holders' = [holders EXCEPT ![w] = @ \ {Parent}]
    /\ UNCHANGED <<child, code, verbose>>

(* The end of a stream comes when nobody holds a write end any more.        *)
EndOfStream(w) ==
    /\ holders[w] = {}
    /\ At(w, "stdout", "stderr") \/ At(w, "stderr", "wait")
    /\ UNCHANGED <<child, code, holders, verbose>>

(* The child does its work and its streams are closed as it exits.  A       *)
(* verbose one is stuck in a write until its stderr is being read.          *)
ChildCloses(w, outcome) ==
    /\ child[w] = "running" /\ (verbose => rc[w] = "stderr")
    /\ child' = [child EXCEPT ![w] = "closed"] /\ code' = [code EXCEPT ![w] = outcome]
    /\ holders' = [v \in Workers |-> holders[v] \ {w}]
    /\ UNCHANGED <<rc, verbose>>

ChildExits(w) ==
    /\ child[w] = "closed" /\ child' = [child EXCEPT ![w] = "exited"]
    /\ UNCHANGED <<rc, code, holders, verbose>>

(* The three ways to return: fork() fails, the child is reaped, or it is    *)
(* killed after a timeout that only runs once both streams have ended.      *)
ForkFails(w) ==
    /\ At(w, "pipes", "idle") /\ holders' = [holders EXCEPT ![w] = {}]
    /\ UNCHANGED <<child, code, verbose>>

Reaped_Mutant(w, result) ==
    /\ child[w] = "exited" /\ result = "ok" /\ At(w, "wait", "idle")
    /\ child' = [child EXCEPT ![w] = "none"] /\ code' = [code EXCEPT ![w] = "failed"]
    /\ UNCHANGED <<holders, verbose>>
Reaped(w, result) ==
    /\ child[w] = "exited" /\ result = code[w] /\ At(w, "wait", "idle")
    /\ child' = [child EXCEPT ![w] = "none"] /\ code' = [code EXCEPT ![w] = "failed"]
    /\ UNCHANGED <<holders, verbose>>

Killed(w) ==
    /\ child[w] = "closed" /\ At(w, "wait", "idle")
    /\ child' = [child EXCEPT ![w] = "none"] /\ code' = [code EXCEPT ![w] = "failed"]
    /\ UNCHANGED <<holders, verbose>>

Returns(w, result) == Reaped(w, result) \/ (result = "failed" /\ (ForkFails(w) \/ Killed(w)))

RCTypeOK ==
    /\ rc \in [Workers -> {"idle", "pipes", "forked", "stdout", "stderr", "wait"}]
    /\ child \in [Workers -> {"none", "running", "closed", "exited"}]
    /\ code \in [Workers -> {"ok", "failed"}]
    /\ holders \in [Workers -> SUBSET (Workers \cup {Parent})] /\ verbose \in BOOLEAN

(* Whoever waits for the end of a stream waits for a child that is running  *)
(* or, between fork() and close(), for another worker: never for a write    *)
(* end that nobody will close.                                              *)
HoldersWillClose ==
    \A w \in Workers :
        /\ Parent \in holders[w] => rc[w] \in {"pipes", "forked"}
        /\ \A v \in holders[w] \ {Parent} : child[v] = "running"
=============================================================================
