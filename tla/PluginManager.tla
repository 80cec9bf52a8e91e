--------------------------- MODULE PluginManager ---------------------------
(***************************************************************************)
(* Hot reload of a plugin: reload() on any thread, factories that wrap the *)
(* current node in a PluginNodeAdapter, the shared_ptr that decides when a *)
(* node is destroyed and its library closed, and the dynamic loader as far *)
(* as dlopen() and dlclose() of one path need it: a path that is already   *)
(* open yields the library that is open, whatever the file now holds.      *)
(***************************************************************************)
EXTENDS Integers, FiniteSets

CONSTANTS
    Reloaders,      \* threads that call reload()
    Adapters,       \* tasks that hold an adapter while they execute
    Nothing,        \* no library, no node
    MaxVersion,     \* bound: builds of the .so
    MaxNodes,       \* bound: how many nodes are created
    MaxHandles      \* bound: how many handles are open at once

ASSUME PluginAssumption ==
    /\ MaxVersion \in Nat \ {0} /\ {MaxNodes, MaxHandles} \subseteq Nat
    /\ Nothing \notin Nat
    /\ IsFiniteSet(Reloaders)

VARIABLES
    disk,           \* the build that the file holds
    library,        \* the build that is mapped, or Nothing
    handles,        \* open handles on it, counted by the loader
    current_node_,  \* the node in the atomic shared_ptr
    impl_,          \* of an adapter: its shared_ptr
    raw,            \* of a reloader: the node it has created
    pc,             \* of a reloader: "idle", "create" or "store"
    build,          \* history: the build of each node
    leaked          \* history: handles that an exception left open

loader == <<library, handles, leaked>>
refs   == <<current_node_, impl_, raw>>
vars   == <<disk, loader, refs, pc, build>>

Made  == DOMAIN build
Began == Cardinality(Made) + Cardinality({r \in Reloaders : pc[r] = "create"})

(* main() has loaded the plugin; when that throws the process ends.         *)
Init ==
    /\ disk = 1 /\ library = 1 /\ handles = 1 /\ leaked = 0
    /\ current_node_ = 1 /\ build = <<1>>
    /\ impl_ = [a \in Adapters |-> Nothing]
    /\ raw = [r \in Reloaders |-> Nothing]
    /\ pc = [r \in Reloaders |-> "idle"]

Rebuild ==
    /\ disk < MaxVersion
    /\ disk' = disk + 1
    /\ UNCHANGED <<loader, refs, pc, build>>

(* dlclose() of n handles: the last one unmaps the library.                 *)
Close(n) == /\ handles' = handles - n
            /\ library' = IF handles = n THEN Nothing ELSE library

(* Some shared_ptr owns the node when they are what is given.               *)
Owned(node, current, impls, raws) ==
    \/ current = node
    \/ \E a \in Adapters : impls[a] = node
    \/ \E r \in Reloaders : raws[r] = node

(* The references become what is given; the deleter runs for a node that    *)
(* loses its last one: destroy_node, dlclose.                               *)
Orphan_Mutant(node, current, impls, raws) ==
    node # Nothing /\ current # node
Orphan(node, current, impls, raws) ==
    node # Nothing /\ ~Owned(node, current, impls, raws)

Rebind(node, current, impls, raws) ==
    /\ current_node_' = current /\ impl_' = impls /\ raw' = raws
    /\ IF Orphan(node, current, impls, raws)
       THEN Close(1)
       ELSE UNCHANGED <<library, handles>>

-----------------------------------------------------------------------------
(* reload()                                                                 *)
Dlopen(r) ==
    /\ pc[r] = "idle" /\ Began < MaxNodes /\ handles < MaxHandles
    /\ library' = IF library = Nothing THEN disk ELSE library
    /\ handles' = handles + 1
    /\ pc' = [pc EXCEPT ![r] = "create"]
    /\ UNCHANGED <<disk, leaked, refs, build>>

(* A symbol is missing or create_node returns nullptr.                      *)
CreateFails(r) ==
    /\ pc[r] = "create"
    /\ Close(1)
    /\ pc' = [pc EXCEPT ![r] = "idle"]
    /\ UNCHANGED <<disk, leaked, refs, build>>

(* create_node throws: nothing closes the handle.                           *)
CreateThrows(r) ==
    /\ pc[r] = "create"
    /\ leaked' = leaked + 1
    /\ pc' = [pc EXCEPT ![r] = "idle"]
    /\ UNCHANGED <<disk, library, handles, refs, build>>

CreateNode(r) ==
    /\ pc[r] = "create"
    /\ LET node == Cardinality(Made) + 1
       IN  /\ raw' = [raw EXCEPT ![r] = node]
           /\ build' = [n \in Made \cup {node} |->
                           IF n = node THEN library ELSE build[n]]
    /\ pc' = [pc EXCEPT ![r] = "store"]
    /\ UNCHANGED <<disk, loader, current_node_, impl_>>

Store(r) ==
    /\ pc[r] = "store"
    /\ Rebind(current_node_, raw[r], impl_, [raw EXCEPT ![r] = Nothing])
    /\ pc' = [pc EXCEPT ![r] = "idle"]
    /\ UNCHANGED <<disk, leaked, build>>

-----------------------------------------------------------------------------
(* The factory of a node: an adapter with its own reference.                *)
GetNode(a) ==
    /\ impl_[a] = Nothing
    /\ impl_' = [impl_ EXCEPT ![a] = current_node_]
    /\ UNCHANGED <<disk, loader, current_node_, raw, pc, build>>

(* The adapter is destroyed at the end of executeNode().                    *)
Release(a) ==
    /\ impl_[a] # Nothing
    /\ Rebind(impl_[a], current_node_, [impl_ EXCEPT ![a] = Nothing], raw)
    /\ UNCHANGED <<disk, leaked, pc, build>>

Next == \/ Rebuild
        \/ \E r \in Reloaders : \/ Dlopen(r) \/ CreateFails(r) \/ CreateThrows(r)
                                \/ CreateNode(r) \/ Store(r)
        \/ \E a \in Adapters : GetNode(a) \/ Release(a)

Spec == Init /\ [][Next]_vars

-----------------------------------------------------------------------------
(* Properties.                                                              *)
Live == {n \in Made : Owned(n, current_node_, impl_, raw)}

PluginTypeOK ==
    /\ disk \in 1 .. MaxVersion /\ library \in 1 .. MaxVersion \cup {Nothing}
    /\ handles \in Nat /\ leaked \in Nat
    /\ current_node_ \in Made
    /\ impl_ \in [Adapters -> Made \cup {Nothing}]
    /\ raw \in [Reloaders -> Made \cup {Nothing}]
    /\ pc \in [Reloaders -> {"idle", "create", "store"}]
    /\ build \in [Made -> 1 .. MaxVersion]

(* An in-flight adapter "keeps the old .so alive": while anybody can call a *)
(* node, the library that its code is in stays mapped.                      *)
CodeStaysMapped == \A n \in Live : library = build[n]

(* Every handle has one owner that will close it: a node that is alive, a   *)
(* reload that has not created its node, or nobody after an exception.      *)
HandlesBalanced ==
    handles = leaked + Cardinality(Live)
                + Cardinality({r \in Reloaders : pc[r] = "create"})
=============================================================================
