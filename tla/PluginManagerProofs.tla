------------------------ MODULE PluginManagerProofs ------------------------
(***************************************************************************)
(* Proofs about PluginManager for any number of threads that reload, of    *)
(* adapters, nodes and builds.                                             *)
(***************************************************************************)
EXTENDS PluginManager, FiniteSetTheorems, TLAPS

Creating == {r \in Reloaders : pc[r] = "create"}

(* The nodes are numbered without a gap, so that the next number is new.    *)
NumberedInv == \E k \in Nat : Made = 1 .. k

(* A reloader owns a node from its creation to its store.  The library is   *)
(* mapped as long as a handle is open.                                      *)
LoaderInv ==
    /\ \A r \in Reloaders : pc[r] = "store" <=> raw[r] # Nothing
    /\ library = Nothing <=> handles = 0

IInv == /\ PluginTypeOK /\ NumberedInv /\ LoaderInv
        /\ CodeStaysMapped /\ HandlesBalanced

-----------------------------------------------------------------------------
(* Nodes and threads can be counted, and the next node is a new one.        *)
LEMMA Counting ==
    ASSUME IInv
    PROVE  /\ IsFiniteSet(Made) /\ Cardinality(Made) + 1 \in Nat \ Made
           /\ Made \subseteq Nat /\ Nothing \notin Made
           /\ IsFiniteSet(Live) /\ Cardinality(Live) \in Nat
           /\ IsFiniteSet(Creating) /\ Cardinality(Creating) \in Nat
           /\ handles = leaked + Cardinality(Live) + Cardinality(Creating)
<1>1. PICK k \in Nat : Made = 1 .. k
  BY DEF IInv, NumberedInv
<1>2. IsFiniteSet(1 .. k) /\ Cardinality(1 .. k) = k
  BY FS_Interval
<1>3. Made \subseteq Nat /\ Nothing \notin Made
  BY <1>1, PluginAssumption
<1>4. IsFiniteSet(Made) /\ Cardinality(Made) + 1 \in Nat \ Made
  BY <1>1, <1>2
<1>5. Live \in SUBSET Made /\ Creating \in SUBSET Reloaders
  BY DEF Live, Creating
<1>6. IsFiniteSet(Live) /\ IsFiniteSet(Creating)
  BY <1>4, <1>5, FS_Subset, PluginAssumption
<1>7. Cardinality(Live) \in Nat /\ Cardinality(Creating) \in Nat
  BY <1>6, FS_CardinalityType
<1>8. QED
  BY <1>3, <1>4, <1>6, <1>7 DEF IInv, HandlesBalanced, Creating

(* The current node is alive, so that a handle is open and code is mapped.  *)
LEMMA CurrentIsLive ==
    ASSUME IInv
    PROVE  /\ current_node_ \in Live /\ Cardinality(Live) > 0
           /\ handles > 0 /\ library \in 1 .. MaxVersion
<1>1. current_node_ \in Live
  BY DEF IInv, PluginTypeOK, Live, Owned
<1>2. Cardinality(Live) > 0
  BY <1>1, Counting, FS_EmptySet
<1>3. handles > 0
  BY <1>2, Counting DEF IInv, PluginTypeOK
<1>4. QED
  BY <1>1, <1>2, <1>3 DEF IInv, PluginTypeOK, LoaderInv

LEMMA InitIInv == Init => IInv
<1> SUFFICES ASSUME Init PROVE IInv
  OBVIOUS
<1>1. Made = {1} /\ Made = 1 .. 1 /\ build[1] = 1
  BY DEF Init, Made
<1>2. PluginTypeOK
  BY <1>1, PluginAssumption DEF Init, PluginTypeOK
<1>3. NumberedInv
  BY <1>1 DEF NumberedInv
<1>4. LoaderInv
  BY PluginAssumption DEF Init, LoaderInv
<1>5. Live = {1} /\ Creating = {}
  BY <1>1 DEF Init, Live, Owned, Creating
<1>6. CodeStaysMapped
  BY <1>1, <1>5 DEF Init, CodeStaysMapped
<1>7. HandlesBalanced
  BY <1>5, FS_Singleton, FS_EmptySet DEF Init, HandlesBalanced, Creating
<1>8. QED
  BY <1>2, <1>3, <1>4, <1>6, <1>7 DEF IInv

-----------------------------------------------------------------------------
(* A reference to a node goes: the node dies if it was the last one, and    *)
(* one handle is closed for it.                                             *)
LEMMA RebindLive ==
    ASSUME IInv, NEW node \in Made,
           NEW current \in Made, NEW impls \in [Adapters -> Made \cup {Nothing}],
           NEW raws \in [Reloaders -> Made \cup {Nothing}],
           Rebind(node, current, impls, raws), build' = build,
           \A n \in Made \ {node} :
               Owned(n, current, impls, raws) <=> Owned(n, current_node_, impl_, raw),
           node \in Live
    PROVE  /\ Live' \subseteq Live /\ library' = library
           /\ handles' = handles - (Cardinality(Live) - Cardinality(Live'))
           /\ Cardinality(Live') \in Nat /\ Cardinality(Live') > 0
<1>1. Made' = Made /\ current_node_' = current /\ impl_' = impls /\ raw' = raws
  BY DEF Rebind, Made
<1>2. node # Nothing
  BY Counting
<1>3. Live' = IF Orphan(node, current, impls, raws) THEN Live \ {node} ELSE Live
  BY <1>1, <1>2 DEF Live, Orphan, Owned
<1>4. current \in Live'
  BY <1>1 DEF Live, Owned
<1>5. IsFiniteSet(Live') /\ Cardinality(Live') \in Nat /\ Cardinality(Live') > 0
  <2>1. IsFiniteSet(Live')
    BY <1>3, Counting, FS_RemoveElement
  <2>2. QED
    BY <1>4, <2>1, FS_CardinalityType, FS_EmptySet
<1>6. CASE Orphan(node, current, impls, raws)
  <2>1. Cardinality(Live') = Cardinality(Live) - 1
    BY <1>3, <1>6, Counting, FS_RemoveElement
  <2>2. handles' = handles - 1 /\ handles # 1
    BY <1>5, <1>6, <2>1, Counting DEF Rebind, Close, IInv, PluginTypeOK
  <2>3. library' = library
    BY <1>6, <2>2 DEF Rebind, Close
  <2>4. QED
    BY <1>3, <1>4, <1>5, <2>1, <2>2, <2>3, Counting
<1>7. CASE ~Orphan(node, current, impls, raws)
  BY <1>3, <1>4, <1>5, <1>7, Counting DEF Rebind, IInv, PluginTypeOK
<1>8. QED
  BY <1>6, <1>7

(* A new file on disk is nothing to the library that is open.               *)
LEMMA RebuildStep == IInv /\ Rebuild => IInv'
<1> SUFFICES ASSUME IInv, Rebuild PROVE IInv'
  OBVIOUS
<1>1. UNCHANGED <<loader, refs, pc, build>> /\ disk' \in 1 .. MaxVersion
  BY PluginAssumption DEF Rebuild, IInv, PluginTypeOK
<1>2. Made' = Made /\ Live' = Live
  BY <1>1 DEF Made, Live, Owned, refs
<1>3. PluginTypeOK' /\ NumberedInv' /\ LoaderInv'
  BY <1>1, <1>2 DEF IInv, PluginTypeOK, NumberedInv, LoaderInv, loader, refs
<1>4. CodeStaysMapped' /\ HandlesBalanced'
  BY <1>1, <1>2 DEF IInv, CodeStaysMapped, HandlesBalanced, loader
<1>5. QED
  BY <1>3, <1>4 DEF IInv

(* A second handle on the library that is open: the mapping stays.          *)
LEMMA DlopenStep == ASSUME IInv, NEW r \in Reloaders, Dlopen(r) PROVE IInv'
<1>1. /\ UNCHANGED <<disk, leaked, refs, build>> /\ handles' = handles + 1
      /\ pc[r] = "idle" /\ pc' = [pc EXCEPT ![r] = "create"]
      /\ library' = library
  BY CurrentIsLive, PluginAssumption DEF Dlopen
<1>2. Made' = Made /\ Live' = Live
  BY <1>1 DEF Made, Live, Owned, refs
<1>3. Creating' = Creating \cup {r} /\ r \notin Creating
  BY <1>1 DEF Creating, IInv, PluginTypeOK
<1>4. Cardinality(Creating') = Cardinality(Creating) + 1
  BY <1>3, Counting, FS_AddElement
<1>5. PluginTypeOK' /\ NumberedInv'
  BY <1>1, <1>2 DEF IInv, PluginTypeOK, NumberedInv, refs
<1>6. LoaderInv'
  BY <1>1, CurrentIsLive, PluginAssumption DEF IInv, PluginTypeOK, LoaderInv, refs
<1>7. CodeStaysMapped'
  BY <1>1, <1>2 DEF IInv, CodeStaysMapped
<1>8. HandlesBalanced'
  BY <1>1, <1>2, <1>4, Counting DEF HandlesBalanced, Creating, IInv, PluginTypeOK
<1>9. QED
  BY <1>5, <1>6, <1>7, <1>8 DEF IInv

(* A reload gives up: its handle is closed or leaks.                        *)
LEMMA CreateEndsStep ==
    ASSUME IInv, NEW r \in Reloaders, CreateFails(r) \/ CreateThrows(r)
    PROVE  IInv'
<1>1. /\ UNCHANGED <<disk, refs, build>>
      /\ pc[r] = "create" /\ pc' = [pc EXCEPT ![r] = "idle"]
  BY DEF CreateFails, CreateThrows
<1>2. Made' = Made /\ Live' = Live
  BY <1>1 DEF Made, Live, Owned, refs
<1>3. Creating' = Creating \ {r} /\ r \in Creating
  BY <1>1 DEF Creating, IInv, PluginTypeOK
<1>4. Cardinality(Creating') = Cardinality(Creating) - 1
  BY <1>3, Counting, FS_RemoveElement
<1>5. Cardinality(Creating) > 0
  BY <1>3, Counting, FS_EmptySet
<1>6. /\ library' = library /\ handles' \in Nat \ {0} /\ leaked' \in Nat
      /\ handles' - leaked' = handles - leaked - 1
  BY <1>5, Counting, CurrentIsLive
     DEF CreateFails, CreateThrows, Close, IInv, PluginTypeOK
<1>7. PluginTypeOK' /\ NumberedInv'
  BY <1>1, <1>2, <1>6 DEF IInv, PluginTypeOK, NumberedInv, refs
<1>8. LoaderInv'
  BY <1>1, <1>6, CurrentIsLive, PluginAssumption
     DEF IInv, PluginTypeOK, LoaderInv, refs
<1>9. CodeStaysMapped'
  BY <1>1, <1>2, <1>6 DEF IInv, CodeStaysMapped
<1>10. HandlesBalanced'
  <2>1. Cardinality(Creating') \in Nat /\ Cardinality(Live') \in Nat
    BY <1>2, <1>4, <1>5, Counting
  <2>2. /\ handles \in Nat /\ leaked \in Nat
        /\ handles = leaked + Cardinality(Live) + Cardinality(Creating)
    BY Counting DEF IInv, PluginTypeOK
  <2>3. handles' = leaked' + Cardinality(Live') + Cardinality(Creating')
    <3> HIDE DEF Live, Creating
    <3>1. QED
      BY <1>2, <1>4, <1>5, <1>6, <2>1, <2>2, Counting
  <2>4. QED
    BY <2>3 DEF HandlesBalanced, Creating
<1>11. QED
  BY <1>7, <1>8, <1>9, <1>10 DEF IInv

(* The handle that the reload has opened becomes that of its node, whose    *)
(* code is in the library that is open.                                     *)
LEMMA CreateNodeStep ==
    ASSUME IInv, NEW r \in Reloaders, CreateNode(r) PROVE IInv'
<1> DEFINE node == Cardinality(Made) + 1
<1>1. /\ UNCHANGED <<disk, loader, current_node_, impl_>>
      /\ pc[r] = "create" /\ pc' = [pc EXCEPT ![r] = "store"]
      /\ raw' = [raw EXCEPT ![r] = node]
      /\ build' = [n \in Made \cup {node} |-> IF n = node THEN library ELSE build[n]]
  BY DEF CreateNode
<1>2. node \in Nat \ Made /\ raw[r] = Nothing
  BY <1>1, Counting DEF IInv, LoaderInv
<1> HIDE DEF node
<1>3. /\ Made' = Made \cup {node} /\ build'[node] = library
      /\ \A n \in Made : build'[n] = build[n]
  BY <1>1, <1>2 DEF Made
<1>4. Live' = Live \cup {node} /\ node \notin Live
  <2>1. \A n \in Made : Owned(n, current_node_', impl_', raw')
                        <=> Owned(n, current_node_, impl_, raw)
    BY <1>1, <1>2, Counting DEF Owned, IInv, PluginTypeOK
  <2>2. Owned(node, current_node_', impl_', raw')
    BY <1>1 DEF Owned, IInv, PluginTypeOK
  <2>3. QED
    BY <1>2, <1>3, <2>1, <2>2 DEF Live
<1>5. Creating' = Creating \ {r} /\ r \in Creating
  BY <1>1 DEF Creating, IInv, PluginTypeOK
<1>6. /\ Cardinality(Live') = Cardinality(Live) + 1
      /\ Cardinality(Creating') = Cardinality(Creating) - 1
  BY <1>4, <1>5, Counting, FS_AddElement, FS_RemoveElement
<1>7. PluginTypeOK'
  <2>1. build' \in [Made' -> 1 .. MaxVersion]
    BY <1>1, <1>3, CurrentIsLive DEF IInv, PluginTypeOK
  <2>2. raw' \in [Reloaders -> Made' \cup {Nothing}]
    BY <1>1, <1>3 DEF IInv, PluginTypeOK
  <2>3. QED
    BY <1>1, <1>3, <2>1, <2>2 DEF IInv, PluginTypeOK, loader
<1>8. NumberedInv'
  <2>1. PICK k \in Nat : Made = 1 .. k
    BY DEF IInv, NumberedInv
  <2>2. Cardinality(1 .. k) = k
    BY FS_Interval
  <2>3. node = k + 1
    BY <2>1, <2>2 DEF node
  <2>4. Made' = 1 .. k + 1
    BY <1>3, <2>1, <2>3
  <2>5. QED
    BY <2>4 DEF NumberedInv
<1>9. LoaderInv'
  BY <1>1, <1>2, PluginAssumption DEF IInv, PluginTypeOK, LoaderInv, loader
<1>10. CodeStaysMapped'
  BY <1>1, <1>3, <1>4 DEF IInv, CodeStaysMapped, loader, Live
<1>11. HandlesBalanced'
  BY <1>1, <1>6, Counting DEF HandlesBalanced, Creating, IInv, PluginTypeOK, loader
<1>12. QED
  BY <1>7, <1>8, <1>9, <1>10, <1>11 DEF IInv


(* The node that was current dies unless an adapter holds it.               *)
LEMMA StoreStep == ASSUME IInv, NEW r \in Reloaders, Store(r) PROVE IInv'
<1> DEFINE raws == [raw EXCEPT ![r] = Nothing]
<1>1. /\ UNCHANGED <<disk, leaked, build>>
      /\ pc[r] = "store" /\ pc' = [pc EXCEPT ![r] = "idle"]
      /\ Rebind(current_node_, raw[r], impl_, raws)
  BY DEF Store
<1>2. raw[r] \in Made /\ raws \in [Reloaders -> Made \cup {Nothing}]
  BY <1>1 DEF IInv, PluginTypeOK, LoaderInv
<1>3. \A n \in Made \ {current_node_} :
          Owned(n, raw[r], impl_, raws) <=> Owned(n, current_node_, impl_, raw)
  BY <1>2, Counting DEF Owned, IInv, PluginTypeOK
<1>4. raw' = raws /\ impl_' = impl_ /\ current_node_' = raw[r]
  BY <1>1 DEF Rebind
<1>5. /\ Live' \subseteq Live /\ library' = library
      /\ handles' = handles - (Cardinality(Live) - Cardinality(Live'))
      /\ Cardinality(Live') \in Nat /\ Cardinality(Live') > 0
  <2>1. build' = build
    BY <1>1
  <2>2. current_node_ \in Made /\ impl_ \in [Adapters -> Made \cup {Nothing}]
    BY DEF IInv, PluginTypeOK
  <2> HIDE DEF raws
  <2>3. QED
    BY <1>1, <1>2, <1>3, <2>1, <2>2, CurrentIsLive, RebindLive
<1>6. Creating' = Creating
  BY <1>1 DEF Creating, IInv, PluginTypeOK
<1>7. HandlesBalanced' /\ handles' \in Nat \ {0}
  BY <1>1, <1>5, <1>6, Counting DEF HandlesBalanced, Creating, IInv, PluginTypeOK
<1>8. Made' = Made
  BY <1>1 DEF Made
<1>9. PluginTypeOK' /\ NumberedInv'
  BY <1>1, <1>2, <1>4, <1>5, <1>7, <1>8 DEF IInv, PluginTypeOK, NumberedInv
<1>10. LoaderInv'
  BY <1>1, <1>4, <1>5, <1>7, CurrentIsLive, PluginAssumption
     DEF IInv, PluginTypeOK, LoaderInv
<1>11. CodeStaysMapped'
  BY <1>1, <1>5 DEF IInv, CodeStaysMapped
<1>12. QED
  BY <1>7, <1>9, <1>10, <1>11 DEF IInv

LEMMA GetNodeStep == ASSUME IInv, NEW a \in Adapters, GetNode(a) PROVE IInv'
<1>1. /\ UNCHANGED <<disk, loader, current_node_, raw, pc, build>>
      /\ impl_[a] = Nothing /\ impl_' = [impl_ EXCEPT ![a] = current_node_]
  BY DEF GetNode
<1>2. Made' = Made
  BY <1>1 DEF Made
<1>3. Live' = Live
  BY <1>1, <1>2, Counting DEF Live, Owned, IInv, PluginTypeOK
<1>4. PluginTypeOK' /\ NumberedInv' /\ LoaderInv'
  BY <1>1, <1>2 DEF IInv, PluginTypeOK, NumberedInv, LoaderInv, loader
<1>5. CodeStaysMapped' /\ HandlesBalanced'
  BY <1>1, <1>3 DEF IInv, CodeStaysMapped, HandlesBalanced, loader
<1>6. QED
  BY <1>4, <1>5 DEF IInv

LEMMA ReleaseStep == ASSUME IInv, NEW a \in Adapters, Release(a) PROVE IInv'
<1> DEFINE impls == [impl_ EXCEPT ![a] = Nothing]
<1>1. /\ UNCHANGED <<disk, leaked, pc, build>> /\ impl_[a] # Nothing
      /\ Rebind(impl_[a], current_node_, impls, raw)
  BY DEF Release
<1>2. impl_[a] \in Made /\ impls \in [Adapters -> Made \cup {Nothing}]
  BY <1>1 DEF IInv, PluginTypeOK
<1>3. \A n \in Made \ {impl_[a]} :
          Owned(n, current_node_, impls, raw) <=> Owned(n, current_node_, impl_, raw)
  BY <1>2, Counting DEF Owned, IInv, PluginTypeOK
<1>4. raw' = raw /\ impl_' = impls /\ current_node_' = current_node_
  BY <1>1 DEF Rebind
<1>5. /\ Live' \subseteq Live /\ library' = library
      /\ handles' = handles - (Cardinality(Live) - Cardinality(Live'))
      /\ Cardinality(Live') \in Nat /\ Cardinality(Live') > 0
  <2>1. build' = build
    BY <1>1
  <2>2. /\ current_node_ \in Made /\ raw \in [Reloaders -> Made \cup {Nothing}]
        /\ impl_[a] \in Live
    BY <1>2 DEF IInv, PluginTypeOK, Live, Owned
  <2> HIDE DEF impls
  <2>3. QED
    BY <1>1, <1>2, <1>3, <2>1, <2>2, RebindLive
<1>6. Creating' = Creating
  BY <1>1 DEF Creating
<1>7. HandlesBalanced' /\ handles' \in Nat \ {0}
  BY <1>1, <1>5, <1>6, Counting DEF HandlesBalanced, Creating, IInv, PluginTypeOK
<1>8. Made' = Made
  BY <1>1 DEF Made
<1>9. PluginTypeOK' /\ NumberedInv'
  BY <1>1, <1>2, <1>4, <1>5, <1>7, <1>8 DEF IInv, PluginTypeOK, NumberedInv
<1>10. LoaderInv'
  BY <1>1, <1>4, <1>5, <1>7, CurrentIsLive, PluginAssumption
     DEF IInv, PluginTypeOK, LoaderInv
<1>11. CodeStaysMapped'
  BY <1>1, <1>5 DEF IInv, CodeStaysMapped
<1>12. QED
  BY <1>7, <1>9, <1>10, <1>11 DEF IInv

LEMMA NextIInv == IInv /\ [Next]_vars => IInv'
<1> SUFFICES ASSUME IInv, [Next]_vars PROVE IInv'
  OBVIOUS
<1>1. CASE Rebuild
  BY <1>1, RebuildStep
<1>2. ASSUME NEW r \in Reloaders,
             \/ Dlopen(r) \/ CreateFails(r) \/ CreateThrows(r)
             \/ CreateNode(r) \/ Store(r)
      PROVE  IInv'
  BY <1>2, DlopenStep, CreateEndsStep, CreateNodeStep, StoreStep
<1>3. ASSUME NEW a \in Adapters, GetNode(a) \/ Release(a)
      PROVE  IInv'
  BY <1>3, GetNodeStep, ReleaseStep
<1>4. CASE UNCHANGED vars
  <2>1. Made' = Made /\ Live' = Live
    BY <1>4 DEF vars, Made, Live, Owned, refs
  <2>2. PluginTypeOK' /\ NumberedInv' /\ LoaderInv'
    BY <1>4, <2>1
       DEF IInv, PluginTypeOK, NumberedInv, LoaderInv, vars, loader, refs
  <2>3. CodeStaysMapped' /\ HandlesBalanced'
    BY <1>4, <2>1 DEF IInv, CodeStaysMapped, HandlesBalanced, vars, loader
  <2>4. QED
    BY <2>2, <2>3 DEF IInv
<1>5. QED
  BY <1>1, <1>2, <1>3, <1>4 DEF Next

-----------------------------------------------------------------------------
(* The inductive invariant holds for any number of threads and builds.      *)
THEOREM InductiveInvariant == Spec => []IInv
<1>1. QED
  BY InitIInv, NextIInv, PTL DEF Spec

(* Nodes, references and handles keep to their types: what a reload or an   *)
(* adapter refers to has been created, and no handle is closed twice.       *)
THEOREM TypeCorrect == Spec => []PluginTypeOK
<1>1. IInv => PluginTypeOK
  BY DEF IInv
<1>2. QED
  BY <1>1, InductiveInvariant, PTL

(* While an adapter, a reload or the manager can call a node, the library   *)
(* its code is in stays mapped, however reloads and releases interleave.    *)
THEOREM CodeIsMapped == Spec => []CodeStaysMapped
<1>1. IInv => CodeStaysMapped
  BY DEF IInv
<1>2. QED
  BY <1>1, InductiveInvariant, PTL

(* Every open handle belongs to a node that is alive, to a reload that has  *)
(* not created its node yet, or to an exception of create_node().           *)
THEOREM HandlesAreBalanced == Spec => []HandlesBalanced
<1>1. IInv => HandlesBalanced
  BY DEF IInv
<1>2. QED
  BY <1>1, InductiveInvariant, PTL
=============================================================================
