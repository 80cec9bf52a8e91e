------------------------- MODULE ConfigReloadProofs -------------------------
(***************************************************************************)
(* Theorems about loads and runs that follow one another and wait for an   *)
(* idle pool (QuietSpec), for any documents, any number of threads that    *)
(* load and any number of calls.                                           *)
(***************************************************************************)
EXTENDS ConfigReload, FiniteSetTheorems, SequenceTheorems, TLAPS

Document == [wellformed : BOOLEAN, nodes : Seq([id : Ids, typed : BOOLEAN, deps : Seq(Ids)])]
Config   == [id : Ids, deps : Seq(Ids)]
State    == [pending : BOOLEAN, left : Int, downstream : Seq(Ids)]
Task     == [id : Ids, gen : Nat, next : Nat]

ReloadTypeOK ==
    /\ node_configs_ \in Seq(Config)
    /\ Known \subseteq Ids /\ node_states_ \in [Known -> State]
    /\ generation \in Nat \ {0} /\ outcome \in {"none", "ok", "error", "exit"}
    /\ pc \in [Loaders -> {"idle", "clear", "entry", "insert", "link"}]
    /\ i \in [Loaders -> Nat \ {0}] /\ text \in [Loaders -> Documents \cup {NoDocument}]
    /\ cpc \in {"outside", "reset", "roots", "wait"} /\ ci \in Nat \ {0} /\ latch \in Int
    /\ tasks \subseteq Task /\ fault \in {"none", "missing_state", "dangling_reference"}

(* One load or one run at a time, and a load with no task about.            *)
SerialInv ==
    /\ \A t, u \in Loaders : pc[t] # "idle" /\ pc[u] # "idle" => t = u
    /\ \A t \in Loaders : pc[t] # "idle" =>
          /\ cpc = "outside" /\ tasks = {}
          /\ text[t] \in Documents /\ text[t].wellformed

(* How far a load has come.                                                 *)
Configs     == DOMAIN node_configs_
ReadUpTo(d, n) ==
    /\ Len(node_configs_) = n /\ n <= Len(d.nodes)
    /\ \A k \in 1 .. n : node_configs_[k] = Entry(d.nodes[k]) /\ d.nodes[k].typed
Distinct(n) == \A k, j \in 1 .. n : node_configs_[k].id = node_configs_[j].id => k = j
InsertedUpTo(n) ==
    /\ n <= Len(node_configs_) /\ Distinct(n)
    /\ Known = {node_configs_[k].id : k \in 1 .. n}
Closed == \A k \in Configs : Range(node_configs_[k].deps) \subseteq Known
LinkedUpTo(n) ==
    /\ n <= Len(node_configs_)
    /\ \A x \in Known :
          /\ Range(node_states_[x].downstream) \subseteq Known
          /\ \A k \in Configs :
                Count(node_states_[x].downstream, node_configs_[k].id) =
                    IF k <= n THEN Count(node_configs_[k].deps, x) ELSE 0

LoadInv ==
    \A t \in Loaders :
        /\ pc[t] = "clear" => i[t] = 1
        /\ pc[t] = "entry" => ReadUpTo(text[t], i[t] - 1)
        /\ pc[t] = "insert" => /\ ReadUpTo(text[t], Len(text[t].nodes)) /\ InsertedUpTo(i[t] - 1)
                               /\ \A x \in Known : node_states_[x] = NewState
        /\ pc[t] = "link" => /\ ReadUpTo(text[t], Len(text[t].nodes))
                             /\ InsertedUpTo(Len(node_configs_)) /\ Closed /\ LinkedUpTo(i[t] - 1)

(* What a load leaves that succeeds.                                        *)
Ordered ==
    \A X \in (SUBSET Range(node_configs_)) \ {{}} :
        \E c \in X : \A d \in X : d.id \notin Range(c.deps)
Built ==
    /\ InsertedUpTo(Len(node_configs_)) /\ Closed /\ LinkedUpTo(Len(node_configs_)) /\ Ordered
GraphInv == Quiet /\ outcome = "ok" => Built

(* The run.  A declared node has ended when it is not pending and its task  *)
(* has counted the latch down.  Whatever was loaded, a node that the run    *)
(* has not reset is never scheduled, and a run that returns has ended every *)
(* node, also after a load that failed: what tasks are left by then walk    *)
(* their lists of dependents and release nobody.                            *)
Running(x) == \E k \in tasks : k.id = x /\ k.next = 0
Ended      == {x \in Declared \cap Known : ~ node_states_[x].pending /\ ~ Running(x)}
Overdrawn(X) == \A x \in X : node_states_[x].pending => node_states_[x].left <= 0
DownOf(x)  == node_states_[x].downstream
Placed(k)  ==
    /\ k.id \in Declared /\ k.id \in Known /\ ~ node_states_[k.id].pending
    /\ k.gen \in {0, generation}
    /\ k.next # 0 => k.gen = generation /\ (k.next = 1 \/ k.next <= Len(DownOf(k.id)))

RunInv ==
    fault = "none" =>
        /\ cpc = "reset" => tasks = {}
        /\ cpc = "outside" => Overdrawn(Known) /\ \A k \in tasks : k.next # 0
        /\ Overdrawn(Known \ Declared)
        /\ \A k \in tasks : Placed(k)
        /\ \A k, l \in tasks : k.id = l.id => k = l
        /\ cpc = "reset" => /\ latch = Len(node_configs_) /\ ci <= Len(node_configs_) + 1
                            /\ \A j \in 1 .. ci - 1 : /\ node_configs_[j].id \in Known
                                                      /\ node_states_[node_configs_[j].id].pending
        /\ cpc \in {"roots", "wait"} => /\ Declared \subseteq Known
                                        /\ latch = Len(node_configs_) - Cardinality(Ended)

(* The counters of a run of a graph that was loaded well: a node waits for  *)
(* the entries of downstream lists that name it and that the task of their  *)
(* owner has not walked past.                                               *)
Entries(j)      ==
    UNION {{<<x, p>> : p \in {q \in DOMAIN DownOf(x) : DownOf(x)[q] = node_configs_[j].id}} : x \in Known}
Unreached(x, p) == node_states_[x].pending \/ \E k \in tasks : k.id = x /\ k.next <= p
Awaited(j)      == {e \in Entries(j) : Unreached(e[1], e[2])}
StateOf(j)      == node_states_[node_configs_[j].id]
LeftInv ==
    fault = "none" /\ outcome = "ok" =>
        /\ cpc = "reset" => \A j \in 1 .. ci - 1 : StateOf(j).left = Len(node_configs_[j].deps)
        /\ cpc \in {"roots", "wait"} =>
              \A j \in Configs :
                  /\ StateOf(j).left = Cardinality(Awaited(j))
                  /\ StateOf(j).pending =>
                         \/ Awaited(j) # {}
                         \/ cpc = "roots" /\ ci <= j /\ node_configs_[j].deps = <<>>
SafeInv == outcome = "ok" => fault = "none"

ReloadInv == ReloadTypeOK /\ SerialInv /\ LoadInv /\ GraphInv /\ RunInv /\ LeftInv /\ SafeInv

-----------------------------------------------------------------------------
(* How often an id is in a list.                                            *)
LEMMA CountFacts ==
    ASSUME NEW T, NEW s \in Seq(T), NEW x
    PROVE  /\ Count(s, x) \in Nat /\ IsFiniteSet({k \in DOMAIN s : s[k] = x})
           /\ Count(s, x) = 0 <=> x \notin Range(s)
<1> DEFINE K == {k \in DOMAIN s : s[k] = x}
<1>1. Len(s) \in Nat /\ DOMAIN s = 1 .. Len(s)
  OBVIOUS
<1>2. IsFiniteSet(1 .. Len(s))
  BY <1>1, FS_Interval
<1>3. K \in SUBSET (1 .. Len(s))
  BY <1>1
<1>4. IsFiniteSet(K) /\ Cardinality(K) \in Nat
  BY <1>2, <1>3, FS_Subset, FS_CardinalityType
<1>5. Cardinality(K) = 0 <=> K = {}
  BY <1>4, FS_EmptySet
<1>6. K = {} <=> x \notin Range(s)
  BY DEF Range
<1>7. QED
  BY <1>4, <1>5, <1>6 DEF Count

LEMMA CountEmpty == \A x : Count(<<>>, x) = 0
<1>1. \A x : {k \in DOMAIN <<>> : <<>>[k] = x} = {}
  OBVIOUS
<1>2. QED
  BY FS_EmptySet DEF Count

LEMMA FunctionIsSeq ==
    ASSUME NEW T, NEW m \in Nat, NEW r \in [1 .. m -> T]
    PROVE  r \in Seq(T) /\ Len(r) = m
<1>1. [1 .. m -> T] \in {[1 .. p -> T] : p \in Nat}
  OBVIOUS
<1>2. r \in Seq(T)
  BY <1>1, SeqDef
<1>3. QED
  BY <1>2, LenProperties

(* A list to which an id is appended several times.                         *)
Repeats(r, m, y) == r \in Seq(Ids) /\ Len(r) = m /\ \A k \in 1 .. m : r[k] = y
LEMMA CountAppended ==
    ASSUME NEW s \in Seq(Ids), NEW m \in Nat, NEW y, NEW x,
           NEW r, Repeats(r, m, y)
    PROVE  Count(s \o r, x) = Count(s, x) + IF x = y THEN m ELSE 0
<1> DEFINE n == Len(s)
           K == {k \in DOMAIN s : s[k] = x}
           M == {k \in n + 1 .. n + m : x = y}
<1>1. n \in Nat /\ DOMAIN s = 1 .. n
  OBVIOUS
<1>2. r \in Seq(Ids) /\ Len(r) = m /\ \A k \in 1 .. m : r[k] = y
  BY DEF Repeats
<1>3. /\ s \o r \in Seq(Ids) /\ DOMAIN (s \o r) = 1 .. n + m
      /\ \A k \in 1 .. n + m : (s \o r)[k] = IF k <= n THEN s[k] ELSE r[k - n]
  <2>1. s \o r \in Seq(Ids) /\ Len(s \o r) = n + m
    BY <1>2, ConcatProperties
  <2>2. \A k \in 1 .. n + m : (s \o r)[k] = IF k <= n THEN s[k] ELSE r[k - n]
    BY <1>2, ConcatProperties
  <2>3. QED
    BY <2>1, <2>2
<1>4. {k \in DOMAIN (s \o r) : (s \o r)[k] = x} = K \cup M
  <2>1. \A k \in 1 .. n : k \in 1 .. n + m /\ ~ (k \in n + 1 .. n + m) /\ (s \o r)[k] = s[k]
    BY <1>1, <1>3
  <2>2. \A k \in n + 1 .. n + m : k \in 1 .. n + m /\ ~ (k \in 1 .. n) /\ (s \o r)[k] = y
    <3> TAKE k \in n + 1 .. n + m
    <3>1. k \in 1 .. n + m /\ ~ (k <= n) /\ k - n \in 1 .. m
      BY <1>1
    <3>2. QED
      BY <1>2, <1>3, <3>1
  <2>3. \A k \in 1 .. n + m : k \in 1 .. n \/ k \in n + 1 .. n + m
    BY <1>1
  <2>4. QED
    BY <1>1, <1>3, <2>1, <2>2, <2>3
<1>5. K \cap M = {}
  BY <1>1
<1>6. IsFiniteSet(K) /\ Cardinality(K) \in Nat
  BY CountFacts DEF Count
<1>7. IsFiniteSet(M) /\ Cardinality(M) = IF x = y THEN m ELSE 0
  <2>1. CASE x = y
    <3>1. M = n + 1 .. n + m
      BY <2>1
    <3>2. \A a, b \in Int : IsFiniteSet(a .. b)
                           /\ Cardinality(a .. b) = IF a > b THEN 0 ELSE b - a + 1
      BY FS_Interval
    <3>3. IsFiniteSet(n + 1 .. n + m) /\ Cardinality(n + 1 .. n + m) = m
      <4>1. /\ n + 1 \in Int /\ n + m \in Int /\ (n + 1 > n + m <=> m = 0)
            /\ (n + m) - (n + 1) + 1 = m
        BY <1>1
      <4> HIDE DEF n
      <4>2. QED
        BY <3>2, <4>1
    <3>4. QED
      BY <2>1, <3>1, <3>3
  <2>2. CASE x # y
    BY <2>2, FS_EmptySet
  <2>3. QED
    BY <2>1, <2>2
<1>8. Cardinality(K \cup M) = Cardinality(K) + Cardinality(M)
  <2>1. Cardinality(K \cup M) = Cardinality(K) + Cardinality(M) - Cardinality(K \cap M)
    BY <1>6, <1>7, FS_Union
  <2>2. Cardinality(K \cap M) = 0
    BY <1>5, FS_EmptySet
  <2>3. QED
    BY <1>6, <1>7, <2>1, <2>2
<1>9. QED
  BY <1>4, <1>7, <1>8 DEF Count

-----------------------------------------------------------------------------
(* A sequence of entries, of the document or as they were read: how many    *)
(* ids it has.                                                              *)
LEMMA IdsCounted ==
    ASSUME NEW T, NEW s \in Seq(T)
    PROVE  LET ids == {s[k].id : k \in DOMAIN s}
           IN  /\ IsFiniteSet(ids) /\ Cardinality(ids) \in Nat /\ Cardinality(ids) <= Len(s)
               /\ (Cardinality(ids) = Len(s)) <=>
                      (\A k, j \in 1 .. Len(s) : s[k].id = s[j].id => k = j)
<1> DEFINE ids == {s[k].id : k \in DOMAIN s}
           f == [k \in 1 .. Len(s) |-> s[k].id]
<1>1. Len(s) \in Nat /\ DOMAIN s = 1 .. Len(s)
  OBVIOUS
<1>2. IsFiniteSet(1 .. Len(s)) /\ Cardinality(1 .. Len(s)) = Len(s)
  <2>1. IsFiniteSet(1 .. Len(s)) /\ Cardinality(1 .. Len(s)) = IF 1 > Len(s) THEN 0 ELSE Len(s) - 1 + 1
    BY <1>1, FS_Interval
  <2>2. QED
    BY <1>1, <2>1
<1>3. f \in Surjection(1 .. Len(s), ids)
  BY <1>1 DEF Surjection
<1>4. /\ IsFiniteSet(ids) /\ Cardinality(ids) <= Len(s)
      /\ Cardinality(ids) = Len(s) <=> f \in Injection(1 .. Len(s), ids)
  <2>1. /\ IsFiniteSet(ids) /\ Cardinality(ids) <= Cardinality(1 .. Len(s))
        /\ Cardinality(ids) = Cardinality(1 .. Len(s)) <=> f \in Injection(1 .. Len(s), ids)
    BY <1>2, <1>3, FS_Surjection
  <2>2. QED
    BY <1>2, <2>1
<1>5. f \in Injection(1 .. Len(s), ids) <=> (\A k, j \in 1 .. Len(s) : s[k].id = s[j].id => k = j)
  BY <1>3 DEF Injection, Surjection, IsInjective
<1>6. Cardinality(ids) \in Nat
  BY <1>4, FS_CardinalityType
<1>7. QED
  BY <1>4, <1>5, <1>6

(* What is typed of an entry.                                               *)
LEMMA DocumentFacts ==
    ASSUME NEW d \in Documents
    PROVE  /\ d.nodes \in Seq([id : Ids, typed : BOOLEAN, deps : Seq(Ids)])
           /\ Len(d.nodes) \in Nat /\ DOMAIN d.nodes = 1 .. Len(d.nodes)
           /\ \A k \in 1 .. Len(d.nodes) :
                 /\ Entry(d.nodes[k]) \in Config /\ d.nodes[k].typed \in BOOLEAN
                 /\ Entry(d.nodes[k]).id = d.nodes[k].id /\ Entry(d.nodes[k]).deps = d.nodes[k].deps
<1>1. d.nodes \in Seq([id : Ids, typed : BOOLEAN, deps : Seq(Ids)])
  BY DocumentsAssumption
<1>2. Len(d.nodes) \in Nat /\ DOMAIN d.nodes = 1 .. Len(d.nodes)
  BY <1>1
<1>3. \A k \in 1 .. Len(d.nodes) : d.nodes[k] \in [id : Ids, typed : BOOLEAN, deps : Seq(Ids)]
  <2> DEFINE T == [id : Ids, typed : BOOLEAN, deps : Seq(Ids)]
  <2>1. d.nodes \in Seq(T)
    BY <1>1
  <2> HIDE DEF T
  <2>2. \A k \in 1 .. Len(d.nodes) : d.nodes[k] \in T
    BY <2>1
  <2>3. QED
    BY <2>2 DEF T
<1>4. QED
  BY <1>1, <1>2, <1>3 DEF Entry, Config

LEMMA ConfigFacts ==
    ASSUME ReloadTypeOK
    PROVE  /\ Len(node_configs_) \in Nat /\ Configs = 1 .. Len(node_configs_)
           /\ \A k \in Configs : /\ node_configs_[k] \in Config /\ node_configs_[k].id \in Ids
                                 /\ node_configs_[k].deps \in Seq(Ids)
           /\ Declared = {node_configs_[k].id : k \in Configs}
           /\ IsFiniteSet(Declared) /\ Cardinality(Declared) \in Nat
           /\ Cardinality(Declared) <= Len(node_configs_)
           /\ Distinct(Len(node_configs_)) <=> Cardinality(Declared) = Len(node_configs_)
<1>1. node_configs_ \in Seq(Config)
  BY DEF ReloadTypeOK
<1>2. Len(node_configs_) \in Nat /\ Configs = 1 .. Len(node_configs_)
  BY <1>1 DEF Configs
<1>3. \A k \in Configs : node_configs_[k] \in Config
  BY <1>1, <1>2
<1>4. Declared = {node_configs_[k].id : k \in DOMAIN node_configs_}
  BY DEF Declared, Range
<1>5. /\ IsFiniteSet(Declared) /\ Cardinality(Declared) \in Nat
      /\ Cardinality(Declared) <= Len(node_configs_)
      /\ Cardinality(Declared) = Len(node_configs_) <=> Distinct(Len(node_configs_))
  BY <1>1, <1>4, IdsCounted DEF Distinct
<1>6. QED
  BY <1>2, <1>3, <1>4, <1>5 DEF Config, Configs

(* The cycle check on what is linked decides what the documents say.        *)
LEMMA AcyclicIsOrdered ==
    ASSUME ReloadTypeOK, InsertedUpTo(Len(node_configs_)), LinkedUpTo(Len(node_configs_))
    PROVE  Acyclic <=> Ordered
<1> DEFINE D == Range(node_configs_)
<1>1. D = {node_configs_[k] : k \in Configs} /\ Known = {c.id : c \in D}
  BY ConfigFacts DEF Range, InsertedUpTo, Configs
<1>2. \A c, d \in D : c.id = d.id => c = d
  BY <1>1, ConfigFacts DEF InsertedUpTo, Distinct
<1>3. \A c, d \in D : Count(node_states_[d.id].downstream, c.id) = 0 <=> d.id \notin Range(c.deps)
  <2> SUFFICES ASSUME NEW c \in D, NEW d \in D
               PROVE  Count(node_states_[d.id].downstream, c.id) = 0 <=> d.id \notin Range(c.deps)
    OBVIOUS
  <2>1. PICK k \in Configs : c = node_configs_[k]
    BY <1>1
  <2>2. d.id \in Known /\ k <= Len(node_configs_) /\ c.deps \in Seq(Ids)
    BY <1>1, <2>1, ConfigFacts
  <2>3. Count(node_states_[d.id].downstream, c.id) = Count(c.deps, d.id)
    BY <2>1, <2>2 DEF LinkedUpTo
  <2>4. QED
    BY <2>2, <2>3, CountFacts
<1>4. ASSUME Acyclic, NEW X \in (SUBSET D) \ {{}}
      PROVE  \E c \in X : \A d \in X : d.id \notin Range(c.deps)
  <2> DEFINE S == {c.id : c \in X}
  <2>1. S \in (SUBSET Known) \ {{}}
    BY <1>1
  <2>2. PICK n \in S : \A m \in S : Count(node_states_[m].downstream, n) = 0
    BY <1>4, <2>1 DEF Acyclic
  <2>3. PICK c \in X : c.id = n
    BY <2>2
  <2>4. \A d \in X : d.id \notin Range(c.deps)
    BY <1>3, <2>2, <2>3
  <2>5. QED
    BY <2>4
<1>5. ASSUME Ordered, NEW S \in (SUBSET Known) \ {{}}
      PROVE  \E n \in S : \A m \in S : Count(node_states_[m].downstream, n) = 0
  <2> DEFINE X == {c \in D : c.id \in S}
  <2>1. X \in (SUBSET D) \ {{}} /\ S = {c.id : c \in X}
    BY <1>1
  <2>2. PICK c \in X : \A d \in X : d.id \notin Range(c.deps)
    BY <1>5, <2>1 DEF Ordered
  <2>3. \A d \in X : Count(node_states_[d.id].downstream, c.id) = 0
    BY <1>3, <2>2
  <2>4. QED
    BY <2>1, <2>3
<1>6. QED
  BY <1>4, <1>5 DEF Acyclic, Ordered

-----------------------------------------------------------------------------
(* The load.  One thread loads and nothing runs.                            *)
LEMMA LoadsAlone ==
    ASSUME ReloadInv, NEW t \in Loaders, pc[t] # "idle"
    PROVE  /\ cpc = "outside" /\ tasks = {} /\ ~ Quiet
           /\ text[t] \in Documents /\ text[t].wellformed
           /\ \A u \in Loaders : u # t => pc[u] = "idle"
BY DEF ReloadInv, SerialInv, Quiet

LEMMA LoadFrame ==
    ASSUME ReloadInv, fault = "none", NEW t \in Loaders, pc[t] # "idle",
           NEW label \in {"idle", "entry", "insert", "link"}, NEW k \in Nat \ {0}, Goto(t, label, k),
           UNCHANGED <<text, client>>, outcome' \in {"none", "ok", "error", "exit"},
           node_configs_' \in Seq(Config), Known' \subseteq Ids, node_states_' \in [Known' -> State],
           generation' \in Nat \ {0}, Overdrawn(Known)'
    PROVE  /\ ReloadTypeOK' /\ SerialInv' /\ RunInv' /\ LeftInv' /\ SafeInv'
           /\ pc'[t] = label /\ i'[t] = k /\ text'[t] = text[t]
           /\ \A u \in Loaders : u # t => pc'[u] = "idle"
<1>1. /\ cpc = "outside" /\ tasks = {} /\ \A u \in Loaders : u # t => pc[u] = "idle"
      /\ text[t] \in Documents /\ text[t].wellformed
  BY LoadsAlone
<1>2. /\ pc' = [pc EXCEPT ![t] = label] /\ i' = [i EXCEPT ![t] = k]
      /\ UNCHANGED <<text, cpc, ci, latch, tasks, fault>>
  BY DEF Goto, client
<1>3. /\ pc'[t] = label /\ i'[t] = k /\ text'[t] = text[t]
      /\ \A u \in Loaders : u # t => pc'[u] = "idle"
  BY <1>1, <1>2 DEF ReloadInv, ReloadTypeOK
<1>4. ReloadTypeOK'
  BY <1>2 DEF ReloadInv, ReloadTypeOK
<1>5. SerialInv'
  BY <1>1, <1>2, <1>3 DEF SerialInv
<1>6. RunInv'
  BY <1>1, <1>2 DEF RunInv, Overdrawn
<1>7. LeftInv' /\ SafeInv'
  BY <1>1, <1>2 DEF LeftInv, SafeInv
<1>8. QED
  BY <1>3, <1>4, <1>5, <1>6, <1>7

(* A load that has not ended says nothing yet; one that ends with an error  *)
(* leaves nothing that is promised to run.                                  *)
Verdict(t) == pc'[t] = "idle" => (outcome' = "ok" <=> Valid(text[t]))

LEMMA LoadGoesOn ==
    ASSUME NEW t \in Loaders, pc'[t] # "idle"
    PROVE  GraphInv' /\ Verdict(t)
BY DEF GraphInv, Verdict, Quiet

LEMMA LoadFails ==
    ASSUME ReloadInv, fault = "none", NEW t \in Loaders, pc[t] # "idle", End(t, "error"),
           UNCHANGED <<node_configs_, node_states_, generation, text, client>>,
           ~ Valid(text[t])
    PROVE  ReloadInv' /\ Verdict(t)
<1>1. Goto(t, "idle", 1) /\ outcome' \in {"error", "exit"}
  BY DEF End
<1>2. Overdrawn(Known)
  BY LoadsAlone DEF ReloadInv, RunInv
<1>3. Overdrawn(Known)' /\ Known' = Known
  BY <1>2 DEF Overdrawn, Known
<1>4. /\ ReloadTypeOK' /\ SerialInv' /\ RunInv' /\ LeftInv' /\ SafeInv'
      /\ pc'[t] = "idle" /\ \A u \in Loaders : u # t => pc'[u] = "idle"
  <2>1. /\ node_configs_' \in Seq(Config) /\ Known' \subseteq Ids /\ node_states_' \in [Known' -> State]
        /\ generation' \in Nat \ {0}
    BY <1>3 DEF ReloadInv, ReloadTypeOK
  <2>2. QED
    BY <1>1, <1>3, <2>1, LoadFrame
<1>5. LoadInv' /\ GraphInv'
  BY <1>1, <1>4 DEF LoadInv, GraphInv
<1>6. QED
  BY <1>1, <1>4, <1>5 DEF ReloadInv, Verdict

LEMMA ClearConfigsIsSafe ==
    ASSUME ReloadInv, fault = "none", NEW t \in Loaders, ClearConfigs(t)
    PROVE  ReloadInv' /\ Verdict(t)
<1>1. /\ pc[t] = "clear" /\ node_configs_' = <<>> /\ Goto(t, "entry", 1)
      /\ UNCHANGED <<node_states_, generation, outcome, text, client>>
  BY DEF ClearConfigs
<1>2. Overdrawn(Known)' /\ Known' = Known
  <2>1. Overdrawn(Known)
    BY <1>1, LoadsAlone DEF ReloadInv, RunInv
  <2>2. QED
    BY <1>1, <2>1 DEF Overdrawn, Known
<1>3. /\ ReloadTypeOK' /\ SerialInv' /\ RunInv' /\ LeftInv' /\ SafeInv'
      /\ pc'[t] = "entry" /\ i'[t] = 1 /\ text'[t] = text[t]
      /\ \A u \in Loaders : u # t => pc'[u] = "idle"
  <2>1. /\ node_configs_' \in Seq(Config) /\ Known' \subseteq Ids /\ node_states_' \in [Known' -> State]
        /\ generation' \in Nat \ {0} /\ outcome' \in {"none", "ok", "error", "exit"}
    BY <1>1, <1>2 DEF ReloadInv, ReloadTypeOK
  <2>2. QED
    BY <1>1, <1>2, <2>1, LoadFrame
<1>4. LoadInv'
  <2>1. Len(text[t].nodes) \in Nat
    BY <1>1, LoadsAlone, DocumentFacts
  <2>2. (ReadUpTo(text[t], i[t] - 1))'
    BY <1>1, <1>3, <2>1 DEF ReadUpTo
  <2>3. QED
    BY <1>3, <2>2 DEF LoadInv
<1>5. QED
  BY <1>3, <1>4, LoadGoesOn DEF ReloadInv

LEMMA ReadEntryIsSafe ==
    ASSUME ReloadInv, fault = "none", NEW t \in Loaders, ReadEntry(t)
    PROVE  ReloadInv' /\ Verdict(t)
<1> DEFINE d == text[t]
           k == i[t]
<1>1. /\ pc[t] = "entry" /\ k <= Len(d.nodes) /\ ReadUpTo(d, k - 1) /\ k \in Nat \ {0}
      /\ UNCHANGED <<node_states_, generation, text, client>>
  BY DEF ReadEntry, ReloadInv, LoadInv, ReloadTypeOK
<1>2. d \in Documents /\ k \in 1 .. Len(d.nodes) /\ Len(d.nodes) \in Nat
  BY <1>1, LoadsAlone, DocumentFacts
<1>3. CASE ~ d.nodes[k].typed
  <2>1. ~ Valid(d)
    BY <1>2, <1>3, DocumentFacts DEF Valid, Range
  <2>2. End(t, "error") /\ UNCHANGED node_configs_
    BY <1>3 DEF ReadEntry
  <2>3. QED
    BY <1>1, <2>1, <2>2, LoadFails
<1>4. CASE d.nodes[k].typed
  <2>1. /\ node_configs_' = Append(node_configs_, Entry(d.nodes[k]))
        /\ Goto(t, "entry", k + 1) /\ UNCHANGED outcome
    BY <1>4 DEF ReadEntry
  <2>2. Entry(d.nodes[k]) \in Config /\ node_configs_ \in Seq(Config) /\ Len(node_configs_) = k - 1
    BY <1>1, <1>2, DocumentFacts DEF ReloadInv, ReloadTypeOK, ReadUpTo
  <2>3. /\ node_configs_' \in Seq(Config) /\ Len(node_configs_') = k
        /\ node_configs_'[k] = Entry(d.nodes[k])
        /\ \A j \in 1 .. k - 1 : node_configs_'[j] = node_configs_[j]
    BY <1>1, <2>1, <2>2
  <2>4. Overdrawn(Known)' /\ Known' = Known
    <3>1. Overdrawn(Known)
      BY <1>1, LoadsAlone DEF ReloadInv, RunInv
    <3>2. QED
      BY <1>1, <3>1 DEF Overdrawn, Known
  <2>5. /\ ReloadTypeOK' /\ SerialInv' /\ RunInv' /\ LeftInv' /\ SafeInv'
        /\ pc'[t] = "entry" /\ i'[t] = k + 1 /\ text'[t] = text[t]
        /\ \A u \in Loaders : u # t => pc'[u] = "idle"
    <3>1. /\ Known' \subseteq Ids /\ node_states_' \in [Known' -> State] /\ generation' \in Nat \ {0}
          /\ outcome' \in {"none", "ok", "error", "exit"} /\ k + 1 \in Nat \ {0}
      BY <1>1, <2>1, <2>4 DEF ReloadInv, ReloadTypeOK
    <3>2. QED
      BY <1>1, <2>1, <2>3, <2>4, <3>1, LoadFrame
  <2>6. i'[t] - 1 = k
    BY <1>1, <2>5
  <2>7. (ReadUpTo(text[t], i[t] - 1))'
    <3>1. \A j \in 1 .. k : j \in 1 .. k - 1 \/ j = k
      BY <1>1
    <3>2. \A j \in 1 .. k : node_configs_'[j] = Entry(d.nodes[j]) /\ d.nodes[j].typed
      BY <1>1, <1>4, <2>3, <3>1 DEF ReadUpTo
    <3>3. QED
      BY <1>1, <2>3, <2>5, <2>6, <3>2 DEF ReadUpTo
  <2>8. LoadInv'
    BY <2>5, <2>7 DEF LoadInv
  <2>9. QED
    BY <2>5, <2>8, LoadGoesOn DEF ReloadInv
<1>5. QED
  BY <1>3, <1>4

LEMMA ClearStatesIsSafe ==
    ASSUME ReloadInv, fault = "none", NEW t \in Loaders, ClearStates(t)
    PROVE  ReloadInv' /\ Verdict(t)
<1> DEFINE d == text[t]
           n == Len(d.nodes)
<1>1. /\ pc[t] = "entry" /\ i[t] > n /\ ReadUpTo(d, i[t] - 1) /\ i[t] \in Nat \ {0}
      /\ node_states_' = <<>> /\ generation' = generation + 1 /\ Goto(t, "insert", 1)
      /\ UNCHANGED <<node_configs_, outcome, text, client>>
  BY DEF ClearStates, ReloadInv, LoadInv, ReloadTypeOK
<1>2. n \in Nat /\ i[t] - 1 = n
  <2>1. n \in Nat
    BY <1>1, LoadsAlone, DocumentFacts
  <2>2. i[t] - 1 <= n
    BY <1>1 DEF ReadUpTo
  <2>3. QED
    BY <1>1, <2>1, <2>2
<1>3. Known' = {} /\ node_states_' \in [{} -> State]
  BY <1>1 DEF Known
<1>4. /\ ReloadTypeOK' /\ SerialInv' /\ RunInv' /\ LeftInv' /\ SafeInv'
      /\ pc'[t] = "insert" /\ i'[t] = 1 /\ text'[t] = text[t]
      /\ \A u \in Loaders : u # t => pc'[u] = "idle"
  <2>1. /\ node_configs_' \in Seq(Config) /\ Known' \subseteq Ids /\ node_states_' \in [Known' -> State]
        /\ generation' \in Nat \ {0} /\ outcome' \in {"none", "ok", "error", "exit"}
        /\ Overdrawn(Known)'
    BY <1>1, <1>3 DEF ReloadInv, ReloadTypeOK, Overdrawn
  <2>2. QED
    BY <1>1, <2>1, LoadFrame
<1>5. ReadUpTo(d, n)'
  BY <1>1, <1>2, <1>4 DEF ReadUpTo
<1>6. (InsertedUpTo(i[t] - 1))'
  <2>1. node_configs_ \in Seq(Config)
    BY DEF ReloadInv, ReloadTypeOK
  <2>2. 0 <= Len(node_configs_) /\ 1 .. 0 = {}
    BY <2>1
  <2>3. QED
    BY <1>1, <1>3, <1>4, <2>2 DEF InsertedUpTo, Distinct
<1>7. LoadInv'
  BY <1>3, <1>4, <1>5, <1>6 DEF LoadInv
<1>8. QED
  BY <1>4, <1>7, LoadGoesOn DEF ReloadInv

(* A document that was read is the configurations, one for one.             *)
LEMMA ReadIsWhole ==
    ASSUME ReloadTypeOK, NEW d \in Documents, ReadUpTo(d, Len(d.nodes)), d.wellformed
    PROVE  /\ Len(node_configs_) = Len(d.nodes) /\ Configs = DOMAIN d.nodes
           /\ {n.id : n \in Range(d.nodes)} = Declared
           /\ Valid(d) <=> /\ \A k \in Configs : Range(node_configs_[k].deps) \subseteq Declared
                           /\ Distinct(Len(node_configs_)) /\ Ordered
<1> DEFINE ids == {n.id : n \in Range(d.nodes)}
<1>1. /\ Len(node_configs_) = Len(d.nodes) /\ Configs = DOMAIN d.nodes /\ DOMAIN d.nodes = 1 .. Len(d.nodes)
      /\ \A k \in Configs : /\ node_configs_[k].id = d.nodes[k].id
                            /\ node_configs_[k].deps = d.nodes[k].deps /\ d.nodes[k].typed
  BY ConfigFacts, DocumentFacts DEF ReadUpTo
<1>2. Range(d.nodes) = {d.nodes[k] : k \in Configs} /\ Range(node_configs_) = {node_configs_[k] : k \in Configs}
  BY <1>1 DEF Range, Configs
<1>3. ids = Declared
  BY <1>1, <1>2 DEF Declared
<1>4. (Cardinality(ids) = Len(d.nodes)) <=> Distinct(Len(node_configs_))
  BY <1>1, <1>3, ConfigFacts
<1>5. (\A n \in Range(d.nodes) : n.typed /\ Range(n.deps) \subseteq ids)
          <=> (\A k \in Configs : Range(node_configs_[k].deps) \subseteq Declared)
  <2>1. (\A n \in Range(d.nodes) : n.typed /\ Range(n.deps) \subseteq ids)
            <=> (\A k \in Configs : d.nodes[k].typed /\ Range(d.nodes[k].deps) \subseteq ids)
    BY <1>2
  <2> HIDE DEF ids
  <2>2. \A k \in Configs : Range(d.nodes[k].deps) = Range(node_configs_[k].deps)
    BY <1>1
  <2>3. QED
    BY <1>1, <1>3, <2>1, <2>2
<1>6. (\A S \in (SUBSET Range(d.nodes)) \ {{}} : \E n \in S : \A m \in S : m.id \notin Range(n.deps))
          <=> Ordered
  <2>1. ASSUME Ordered, NEW S \in (SUBSET Range(d.nodes)) \ {{}}
        PROVE  \E n \in S : \A m \in S : m.id \notin Range(n.deps)
    <3> DEFINE X == {node_configs_[k] : k \in {j \in Configs : d.nodes[j] \in S}}
    <3>1. X \in (SUBSET Range(node_configs_)) \ {{}}
      <4>1. X \subseteq Range(node_configs_)
        BY <1>2
      <4>2. \E j \in Configs : d.nodes[j] \in S
        BY <1>2
      <4>3. QED
        BY <4>1, <4>2
    <3>2. PICK c \in X : \A e \in X : e.id \notin Range(c.deps)
      BY <2>1, <3>1 DEF Ordered
    <3>3. PICK k \in Configs : d.nodes[k] \in S /\ c = node_configs_[k]
      BY <3>2
    <3>4. ASSUME NEW m \in S PROVE m.id \notin Range(d.nodes[k].deps)
      <4>1. PICK j \in Configs : m = d.nodes[j]
        BY <1>2
      <4>2. node_configs_[j] \in X
        BY <4>1
      <4>3. QED
        BY <1>1, <3>2, <3>3, <4>1, <4>2
    <3>5. QED
      BY <3>3, <3>4
  <2>2. ASSUME \A S \in (SUBSET Range(d.nodes)) \ {{}} : \E n \in S : \A m \in S : m.id \notin Range(n.deps),
               NEW X \in (SUBSET Range(node_configs_)) \ {{}}
        PROVE  \E c \in X : \A e \in X : e.id \notin Range(c.deps)
    <3> DEFINE S == {d.nodes[k] : k \in {j \in Configs : node_configs_[j] \in X}}
    <3>1. S \in (SUBSET Range(d.nodes)) \ {{}}
      <4>1. S \subseteq Range(d.nodes)
        BY <1>2
      <4>2. \E j \in Configs : node_configs_[j] \in X
        BY <1>2
      <4>3. QED
        BY <4>1, <4>2
    <3>2. PICK n \in S : \A m \in S : m.id \notin Range(n.deps)
      BY <2>2, <3>1
    <3>3. PICK k \in Configs : node_configs_[k] \in X /\ n = d.nodes[k]
      BY <3>2
    <3>4. ASSUME NEW e \in X PROVE e.id \notin Range(node_configs_[k].deps)
      <4>1. PICK j \in Configs : e = node_configs_[j]
        BY <1>2
      <4>2. d.nodes[j] \in S
        BY <4>1
      <4>3. QED
        BY <1>1, <3>2, <3>3, <4>1, <4>2
    <3>5. QED
      BY <3>3, <3>4
  <2>3. QED
    BY <2>1, <2>2 DEF Ordered
<1>7. QED
  BY <1>1, <1>3, <1>4, <1>5, <1>6 DEF Valid

LEMMA InsertStateIsSafe ==
    ASSUME ReloadInv, fault = "none", NEW t \in Loaders, InsertState(t)
    PROVE  ReloadInv' /\ Verdict(t)
<1> DEFINE d == text[t]
           k == i[t]
           id == node_configs_[k].id
<1>1. /\ pc[t] = "insert" /\ k <= Len(node_configs_) /\ ReadUpTo(d, Len(d.nodes)) /\ InsertedUpTo(k - 1)
      /\ \A x \in Known : node_states_[x] = NewState
      /\ UNCHANGED <<node_configs_, generation, text, client>> /\ ReloadTypeOK
  BY DEF InsertState, ReloadInv, LoadInv
<1>2. /\ d \in Documents /\ d.wellformed /\ Len(node_configs_) \in Nat /\ k \in 1 .. Len(node_configs_)
      /\ Configs = 1 .. Len(node_configs_) /\ id \in Ids
  <2>1. d \in Documents /\ d.wellformed
    BY <1>1, LoadsAlone
  <2>2. k \in 1 .. Len(node_configs_)
    BY <1>1, ConfigFacts DEF ReloadTypeOK
  <2>3. QED
    BY <1>1, <2>1, <2>2, ConfigFacts
<1>3. CASE id \in Known
  <2>1. PICK j \in 1 .. k - 1 : node_configs_[j].id = id
    BY <1>1, <1>3 DEF InsertedUpTo
  <2>2. j # k /\ j \in 1 .. Len(node_configs_)
    BY <1>2
  <2>3. ~ Distinct(Len(node_configs_))
    BY <1>2, <2>1, <2>2 DEF Distinct
  <2>4. ~ Valid(d)
    BY <1>1, <1>2, <2>3, ReadIsWhole
  <2>5. End(t, "error") /\ UNCHANGED node_states_
    BY <1>3 DEF InsertState, Duplicate
  <2>6. QED
    BY <1>1, <2>4, <2>5, LoadFails
<1>4. CASE id \notin Known
  <2>1. /\ node_states_' = [n \in Known \cup {id} |-> IF n = id THEN NewState ELSE node_states_[n]]
        /\ Goto(t, "insert", k + 1) /\ UNCHANGED outcome
    BY <1>4 DEF InsertState, Duplicate
  <2>2. NewState \in State /\ NewState.left <= 0
    BY DEF NewState, State
  <2>3. Known' = Known \cup {id} /\ \A x \in Known' : node_states_'[x] = NewState
    BY <1>1, <2>1 DEF Known
  <2>4. node_states_' \in [Known' -> State]
    <3>1. node_states_' = [n \in Known' |-> IF n = id THEN NewState ELSE node_states_[n]]
      BY <2>1, <2>3
    <3>2. QED
      BY <1>1, <2>2, <2>3, <3>1
  <2>5. Overdrawn(Known)' /\ Known' \subseteq Ids
    BY <1>1, <1>2, <2>2, <2>3 DEF Overdrawn, ReloadTypeOK
  <2>6. /\ ReloadTypeOK' /\ SerialInv' /\ RunInv' /\ LeftInv' /\ SafeInv'
        /\ pc'[t] = "insert" /\ i'[t] = k + 1 /\ text'[t] = text[t]
        /\ \A u \in Loaders : u # t => pc'[u] = "idle"
    <3>1. /\ node_configs_' \in Seq(Config) /\ generation' \in Nat \ {0}
          /\ outcome' \in {"none", "ok", "error", "exit"} /\ k + 1 \in Nat \ {0}
      BY <1>1, <2>1 DEF ReloadTypeOK
    <3>2. QED
      BY <1>1, <2>1, <2>4, <2>5, <3>1, LoadFrame
  <2>7. i'[t] - 1 = k
    BY <1>2, <2>6
  <2>8. (ReadUpTo(text[t], Len(text[t].nodes)))'
    BY <1>1, <2>6 DEF ReadUpTo
  <2>9. (InsertedUpTo(i[t] - 1))'
    <3>1. \A j \in 1 .. k : j \in 1 .. k - 1 \/ j = k
      BY <1>2
    <3>2. \A j \in 1 .. k - 1 : j \in 1 .. k
      BY <1>2
    <3>3. k \in 1 .. k
      BY <1>2
    <3>4. \A j \in 1 .. k - 1 : node_configs_[j].id # id
      BY <1>1, <1>4 DEF InsertedUpTo
    <3>5. Distinct(k)
      BY <1>1, <3>1, <3>4 DEF InsertedUpTo, Distinct
    <3>6. Known' = {node_configs_[j].id : j \in 1 .. k}
      BY <1>1, <2>3, <3>1, <3>2, <3>3 DEF InsertedUpTo
    <3> HIDE DEF k
    <3>7. QED
      BY <1>1, <1>2, <2>7, <3>5, <3>6 DEF InsertedUpTo, Distinct
  <2>10. LoadInv'
    BY <2>3, <2>6, <2>8, <2>9 DEF LoadInv, NewState
  <2>11. QED
    BY <2>6, <2>10, LoadGoesOn DEF ReloadInv
<1>5. QED
  BY <1>3, <1>4

(* The states are those of all configurations.                              *)
LEMMA AllInserted ==
    ASSUME ReloadTypeOK, NEW n \in Nat, n >= Len(node_configs_), InsertedUpTo(n)
    PROVE  /\ n = Len(node_configs_) /\ InsertedUpTo(Len(node_configs_)) /\ Known = Declared
           /\ Closed <=> \A k \in Configs : Range(node_configs_[k].deps) \subseteq Declared
<1>1. n = Len(node_configs_)
  BY ConfigFacts DEF InsertedUpTo
<1>2. Known = Declared
  BY <1>1, ConfigFacts DEF InsertedUpTo
<1>3. QED
  BY <1>1, <1>2 DEF Closed

LEMMA CheckIsSafe ==
    ASSUME ReloadInv, fault = "none", NEW t \in Loaders, CheckDependencies(t)
    PROVE  ReloadInv' /\ Verdict(t)
<1> DEFINE d == text[t]
<1>1. /\ pc[t] = "insert" /\ i[t] > Len(node_configs_) /\ ReadUpTo(d, Len(d.nodes))
      /\ InsertedUpTo(i[t] - 1) /\ \A x \in Known : node_states_[x] = NewState
      /\ UNCHANGED <<node_configs_, node_states_, generation, text, client>> /\ ReloadTypeOK
  BY DEF CheckDependencies, ReloadInv, LoadInv
<1>2. d \in Documents /\ d.wellformed
  BY <1>1, LoadsAlone
<1>3. i[t] - 1 \in Nat /\ i[t] - 1 >= Len(node_configs_)
  BY <1>1, ConfigFacts DEF ReloadTypeOK
<1>4. /\ InsertedUpTo(Len(node_configs_)) /\ Known = Declared
      /\ Closed <=> \A k \in Configs : Range(node_configs_[k].deps) \subseteq Declared
  BY <1>1, <1>3, AllInserted
<1>5. (\A cfg \in Range(node_configs_) : Range(cfg.deps) \subseteq Known) <=> Closed
  BY DEF Range, Closed, Configs
<1>6. CASE ~ Closed
  <2>1. ~ Valid(d)
    BY <1>1, <1>2, <1>4, <1>6, ReadIsWhole
  <2>2. End(t, "error")
    BY <1>5, <1>6 DEF CheckDependencies
  <2>3. QED
    BY <1>1, <2>1, <2>2, LoadFails
<1>7. CASE Closed
  <2>1. Goto(t, "link", 1) /\ UNCHANGED outcome
    BY <1>5, <1>7 DEF CheckDependencies
  <2>2. Overdrawn(Known)' /\ Known' = Known
    <3>1. Overdrawn(Known)
      BY <1>1, LoadsAlone DEF ReloadInv, RunInv
    <3>2. QED
      BY <1>1, <3>1 DEF Overdrawn, Known
  <2>3. /\ ReloadTypeOK' /\ SerialInv' /\ RunInv' /\ LeftInv' /\ SafeInv'
        /\ pc'[t] = "link" /\ i'[t] = 1 /\ text'[t] = text[t]
        /\ \A u \in Loaders : u # t => pc'[u] = "idle"
    <3>1. /\ node_configs_' \in Seq(Config) /\ generation' \in Nat \ {0}
          /\ outcome' \in {"none", "ok", "error", "exit"} /\ Known' \subseteq Ids
          /\ node_states_' \in [Known' -> State]
      BY <1>1, <2>1, <2>2 DEF ReloadTypeOK
    <3>2. QED
      BY <1>1, <2>1, <2>2, <3>1, LoadFrame
  <2>4. LinkedUpTo(0)
    <3>1. \A x \in Known : /\ Range(node_states_[x].downstream) \subseteq Known
                          /\ \A k \in Configs : /\ Count(node_states_[x].downstream, node_configs_[k].id) = 0
                                                 /\ ~ (k <= 0)
      BY <1>1, CountEmpty, ConfigFacts DEF NewState, Range
    <3>2. QED
      BY <3>1, ConfigFacts DEF LinkedUpTo
  <2>5. (/\ ReadUpTo(text[t], Len(text[t].nodes)) /\ InsertedUpTo(Len(node_configs_)) /\ Closed
         /\ LinkedUpTo(0))'
    <3>1. UNCHANGED <<node_configs_, node_states_>> /\ Known' = Known /\ Configs' = Configs
      BY <1>1, <2>2 DEF Configs
    <3>2. (ReadUpTo(text[t], Len(text[t].nodes)))'
      BY <1>1, <2>3, <3>1 DEF ReadUpTo
    <3>3. (InsertedUpTo(Len(node_configs_)) /\ Closed)'
      BY <1>4, <1>7, <3>1 DEF InsertedUpTo, Distinct, Closed
    <3>4. LinkedUpTo(0)'
      BY <2>4, <3>1 DEF LinkedUpTo
    <3>5. QED
      BY <3>2, <3>3, <3>4
  <2>6. i'[t] - 1 = 0
    BY <2>3
  <2>7. LoadInv'
    BY <2>3, <2>5, <2>6 DEF LoadInv
  <2>8. QED
    BY <2>3, <2>7, LoadGoesOn DEF ReloadInv
<1>8. QED
  BY <1>6, <1>7

LEMMA LinkIsSafe ==
    ASSUME ReloadInv, fault = "none", NEW t \in Loaders, Link(t)
    PROVE  ReloadInv' /\ Verdict(t)
<1> DEFINE d == text[t]
           k == i[t]
           cfg == node_configs_[k]
<1>1. /\ pc[t] = "link" /\ k <= Len(node_configs_) /\ ReadUpTo(d, Len(d.nodes))
      /\ InsertedUpTo(Len(node_configs_)) /\ Closed /\ LinkedUpTo(k - 1)
      /\ UNCHANGED <<node_configs_, generation, text, client>> /\ ReloadTypeOK
  BY DEF Link, ReloadInv, LoadInv
<1>2. /\ Len(node_configs_) \in Nat /\ k \in 1 .. Len(node_configs_) /\ Configs = 1 .. Len(node_configs_)
      /\ cfg \in Config /\ cfg.id \in Ids /\ cfg.deps \in Seq(Ids)
  <2>1. k \in 1 .. Len(node_configs_)
    BY <1>1, ConfigFacts DEF ReloadTypeOK
  <2>2. QED
    BY <1>1, <2>1, ConfigFacts
<1>3. /\ node_states_' = Linked(cfg) /\ Goto(t, "link", k + 1) /\ UNCHANGED outcome
  <2>1. Range(cfg.deps) \subseteq Known
    BY <1>1, <1>2 DEF Closed
  <2>2. QED
    BY <2>1 DEF Link
<1>4. Known' = Known /\ \A x \in Known :
          node_states_'[x] = [node_states_[x] EXCEPT !.downstream =
                                  @ \o [j \in 1 .. Count(cfg.deps, x) |-> cfg.id]]
  BY <1>3 DEF Linked, Known
<1>5. \A x \in Known :
          /\ node_states_'[x] \in State
          /\ node_states_'[x].left = node_states_[x].left
          /\ \A y : Count(node_states_'[x].downstream, y) =
                Count(node_states_[x].downstream, y) + IF y = cfg.id THEN Count(cfg.deps, x) ELSE 0
  <2> TAKE x \in Known
  <2>1. node_states_[x] \in State
    BY <1>1 DEF ReloadTypeOK
  <2>2. PICK s \in Seq(Ids) : s = node_states_[x].downstream
    BY <2>1 DEF State
  <2>3. PICK m \in Nat : m = Count(cfg.deps, x)
    BY <1>2, CountFacts
  <2>4. PICK r \in Seq(Ids) : /\ r = [j \in 1 .. m |-> cfg.id] /\ Len(r) = m
                              /\ \A j \in 1 .. m : r[j] = cfg.id
    <3>1. [j \in 1 .. m |-> cfg.id] \in [1 .. m -> Ids]
      BY <1>2
    <3>2. PICK r : r = [j \in 1 .. m |-> cfg.id]
      OBVIOUS
    <3>3. r \in [1 .. m -> Ids] /\ \A j \in 1 .. m : r[j] = cfg.id
      BY <3>1, <3>2
    <3>4. r \in Seq(Ids) /\ Len(r) = m
      BY <3>3, FunctionIsSeq
    <3>5. QED
      BY <3>2, <3>3, <3>4
  <2>5. s \o r \in Seq(Ids)
    BY <2>4, ConcatProperties
  <2>6. \A y : Count(s \o r, y) = Count(s, y) + IF y = cfg.id THEN m ELSE 0
    <3> TAKE y
    <3>1. PICK z : z = cfg.id
      OBVIOUS
    <3>2. Repeats(r, m, z)
      BY <2>4, <3>1 DEF Repeats
    <3>3. Count(s \o r, y) = Count(s, y) + IF y = z THEN m ELSE 0
      BY <3>2, CountAppended
    <3>4. QED
      BY <3>1, <3>3
  <2>7. node_states_'[x] = [node_states_[x] EXCEPT !.downstream = s \o r]
    BY <1>4, <2>2, <2>3, <2>4
  <2>8. node_states_'[x] \in State /\ node_states_'[x].left = node_states_[x].left
        /\ node_states_'[x].downstream = s \o r
    BY <2>1, <2>5, <2>7 DEF State
  <2>9. QED
    BY <2>2, <2>3, <2>6, <2>8
<1>6. Overdrawn(Known)' /\ node_states_' \in [Known' -> State]
  <2>1. Overdrawn(Known)
    BY <1>1, LoadsAlone DEF ReloadInv, RunInv
  <2>2. \A x \in Known : node_states_'[x].pending = node_states_[x].pending
    BY <1>1, <1>4 DEF ReloadTypeOK, State
  <2>3. node_states_' \in [Known' -> State]
    BY <1>3, <1>4, <1>5 DEF Linked
  <2>4. QED
    BY <1>4, <1>5, <2>1, <2>2, <2>3 DEF Overdrawn
<1>7. /\ ReloadTypeOK' /\ SerialInv' /\ RunInv' /\ LeftInv' /\ SafeInv'
      /\ pc'[t] = "link" /\ i'[t] = k + 1 /\ text'[t] = text[t]
      /\ \A u \in Loaders : u # t => pc'[u] = "idle"
  <2>1. /\ node_configs_' \in Seq(Config) /\ generation' \in Nat \ {0}
        /\ outcome' \in {"none", "ok", "error", "exit"} /\ Known' \subseteq Ids /\ k + 1 \in Nat \ {0}
    BY <1>1, <1>3, <1>4 DEF ReloadTypeOK
  <2>2. QED
    BY <1>1, <1>3, <1>6, <2>1, LoadFrame
<1>8. (LinkedUpTo(i[t] - 1))'
  <2>1. i'[t] - 1 = k
    BY <1>2, <1>7
  <2>2. ASSUME NEW x \in Known, NEW j \in Configs
        PROVE  Count(node_states_'[x].downstream, node_configs_[j].id) =
                   IF j <= k THEN Count(node_configs_[j].deps, x) ELSE 0
    <3>1. node_configs_[j].id = cfg.id <=> j = k
      BY <1>1, <1>2 DEF InsertedUpTo, Distinct
    <3>2. Count(node_states_[x].downstream, node_configs_[j].id) =
              IF j <= k - 1 THEN Count(node_configs_[j].deps, x) ELSE 0
      BY <1>1 DEF LinkedUpTo
    <3>3. Count(node_configs_[j].deps, x) \in Nat
      BY <1>1, ConfigFacts, CountFacts
    <3>4. j \in Nat /\ k \in Nat
      BY <1>2
    <3>5. CASE j = k
      <4>1. ~ (j <= k - 1) /\ j <= k
        BY <3>4, <3>5
      <4>2. Count(node_states_'[x].downstream, node_configs_[j].id) = 0 + Count(cfg.deps, x)
        BY <1>5, <3>1, <3>2, <3>5, <4>1
      <4>3. QED
        BY <3>3, <3>5, <4>1, <4>2
    <3>6. CASE j # k
      <4>1. j <= k - 1 <=> j <= k
        BY <3>4, <3>6
      <4>2. Count(node_states_'[x].downstream, node_configs_[j].id) =
                Count(node_states_[x].downstream, node_configs_[j].id) + 0
        BY <1>5, <3>1, <3>6
      <4>3. CASE j <= k
        BY <3>2, <3>3, <4>1, <4>2, <4>3
      <4>4. CASE ~ (j <= k)
        BY <3>2, <4>1, <4>2, <4>4
      <4>5. QED
        BY <4>3, <4>4
    <3>7. QED
      BY <3>5, <3>6
  <2>3. Configs' = Configs
    BY <1>1 DEF Configs
  <2>4. ASSUME NEW x \in Known
        PROVE  Range(node_states_'[x].downstream) \subseteq Known
    <3>1. node_states_[x].downstream \in Seq(Ids) /\ node_states_'[x].downstream \in Seq(Ids)
      BY <1>1, <1>5 DEF ReloadTypeOK, State
    <3>2. cfg.id \in Known
      BY <1>1, <1>2, ConfigFacts DEF InsertedUpTo
    <3>3. ASSUME NEW y, y \notin Known
          PROVE  y \notin Range(node_states_'[x].downstream)
      <4>1. y \notin Range(node_states_[x].downstream)
        BY <1>1, <3>3 DEF LinkedUpTo
      <4>2. Count(node_states_[x].downstream, y) = 0
        BY <3>1, <4>1, CountFacts
      <4>3. y # cfg.id
        BY <3>2, <3>3
      <4>4. Count(node_states_'[x].downstream, y) =
                Count(node_states_[x].downstream, y) + IF y = cfg.id THEN Count(cfg.deps, x) ELSE 0
        BY <1>5
      <4> HIDE DEF cfg
      <4>5. Count(node_states_'[x].downstream, y) = 0
        BY <4>2, <4>3, <4>4
      <4>6. QED
        BY <3>1, <4>5, CountFacts
    <3>4. QED
      BY <3>3
  <2> HIDE DEF k
  <2>5. QED
    BY <1>1, <1>2, <1>4, <2>1, <2>2, <2>3, <2>4 DEF LinkedUpTo
<1>9. LoadInv'
  <2>1. (ReadUpTo(text[t], Len(text[t].nodes)))'
    BY <1>1, <1>7 DEF ReadUpTo
  <2>2. (InsertedUpTo(Len(node_configs_)) /\ Closed)'
    <3>1. UNCHANGED node_configs_ /\ Known' = Known /\ Configs' = Configs
      BY <1>1, <1>4 DEF Configs
    <3>2. QED
      BY <1>1, <3>1 DEF InsertedUpTo, Distinct, Closed
  <2>3. QED
    BY <1>7, <1>8, <2>1, <2>2 DEF LoadInv
<1>10. QED
  BY <1>7, <1>9, LoadGoesOn DEF ReloadInv

LEMMA ValidateIsSafe ==
    ASSUME ReloadInv, fault = "none", NEW t \in Loaders, Validate(t)
    PROVE  ReloadInv' /\ Verdict(t)
<1> DEFINE d == text[t]
<1>1. /\ pc[t] = "link" /\ i[t] > Len(node_configs_) /\ ReadUpTo(d, Len(d.nodes))
      /\ InsertedUpTo(Len(node_configs_)) /\ Closed /\ LinkedUpTo(i[t] - 1)
      /\ UNCHANGED <<node_configs_, node_states_, generation, text, client>> /\ ReloadTypeOK
      /\ End(t, IF Acyclic THEN "ok" ELSE "error")
  BY DEF Validate, ReloadInv, LoadInv
<1>2. d \in Documents /\ d.wellformed
  BY <1>1, LoadsAlone
<1>3. LinkedUpTo(Len(node_configs_))
  <2>1. i[t] - 1 = Len(node_configs_)
    BY <1>1, ConfigFacts DEF LinkedUpTo, ReloadTypeOK
  <2>2. QED
    BY <1>1, <2>1
<1>4. Acyclic <=> Ordered
  BY <1>1, <1>3, AcyclicIsOrdered
<1>5. Known = Declared
  BY <1>1, ConfigFacts DEF InsertedUpTo
<1>6. Valid(d) <=> Ordered
  <2>1. Distinct(Len(node_configs_)) /\ \A k \in Configs : Range(node_configs_[k].deps) \subseteq Declared
    BY <1>1, <1>5 DEF InsertedUpTo, Closed
  <2>2. QED
    BY <1>1, <1>2, <2>1, ReadIsWhole
<1>7. CASE ~ Ordered
  BY <1>1, <1>4, <1>6, <1>7, LoadFails
<1>8. CASE Ordered
  <2>1. Goto(t, "idle", 1) /\ outcome' = "ok"
    BY <1>1, <1>4, <1>8 DEF End
  <2>2. Overdrawn(Known)' /\ Known' = Known /\ Configs' = Configs
    <3>1. Overdrawn(Known)
      BY <1>1, LoadsAlone DEF ReloadInv, RunInv
    <3>2. QED
      BY <1>1, <3>1 DEF Overdrawn, Known, Configs
  <2>3. /\ ReloadTypeOK' /\ SerialInv' /\ RunInv' /\ LeftInv' /\ SafeInv'
        /\ pc'[t] = "idle" /\ \A u \in Loaders : u # t => pc'[u] = "idle"
    <3>1. /\ node_configs_' \in Seq(Config) /\ generation' \in Nat \ {0}
          /\ outcome' \in {"none", "ok", "error", "exit"} /\ Known' \subseteq Ids
          /\ node_states_' \in [Known' -> State]
      BY <1>1, <2>1, <2>2 DEF ReloadTypeOK
    <3>2. QED
      BY <1>1, <2>1, <2>2, <3>1, LoadFrame
  <2>4. LoadInv'
    BY <2>3 DEF LoadInv
  <2>5. Built'
    <3>1. UNCHANGED <<node_configs_, node_states_>>
      BY <1>1
    <3>2. (InsertedUpTo(Len(node_configs_)) /\ Closed)'
      BY <1>1, <2>2, <3>1 DEF InsertedUpTo, Distinct, Closed
    <3>3. (LinkedUpTo(Len(node_configs_)))'
      BY <1>3, <2>2, <3>1 DEF LinkedUpTo
    <3>4. Ordered'
      BY <1>8, <3>1 DEF Ordered
    <3>5. QED
      BY <3>2, <3>3, <3>4 DEF Built
  <2>6. QED
    BY <1>6, <1>8, <2>1, <2>3, <2>4, <2>5 DEF ReloadInv, GraphInv, Verdict
<1>9. QED
  BY <1>7, <1>8

LEMMA LoadKeepsInv ==
    ASSUME ReloadInv, fault = "none", NEW t \in Loaders, Load(t)
    PROVE  ReloadInv' /\ Verdict(t)
BY ClearConfigsIsSafe, ReadEntryIsSafe, ClearStatesIsSafe, InsertStateIsSafe, CheckIsSafe, LinkIsSafe,
   ValidateIsSafe DEF Load

-----------------------------------------------------------------------------
(* The run.  What a load left stays as it is while it runs.                 *)
LEMMA BuiltFacts ==
    ASSUME ReloadTypeOK, Built
    PROVE  /\ Known = Declared /\ Cardinality(Declared) = Len(node_configs_)
           /\ \A j \in Configs : node_configs_[j].id \in Known /\ Range(node_configs_[j].deps) \subseteq Known
           /\ \A j, l \in Configs : node_configs_[j].id = node_configs_[l].id => j = l
BY ConfigFacts DEF Built, InsertedUpTo, Closed, Distinct

LEMMA RunsAlone ==
    ASSUME ReloadInv, fault = "none"
    PROVE  /\ cpc # "outside" => Quiet
           /\ tasks # {} => Quiet /\ cpc \in {"roots", "wait", "outside"}
           /\ Quiet /\ outcome = "ok" => Built
<1>1. (cpc # "outside" => Quiet) /\ (tasks # {} => Quiet)
  BY DEF ReloadInv, SerialInv, Quiet
<1>2. tasks # {} => cpc \in {"roots", "wait", "outside"}
  BY DEF ReloadInv, RunInv, ReloadTypeOK
<1>3. QED
  BY <1>1, <1>2 DEF ReloadInv, GraphInv

LEMMA RunFrame ==
    ASSUME ReloadInv, fault = "none", Quiet, UNCHANGED <<node_configs_, generation, outcome, loader>>,
           Known' = Known, node_states_' \in [Known -> State],
           \A x \in Known : node_states_'[x].downstream = node_states_[x].downstream,
           cpc' \in {"outside", "reset", "roots", "wait"}, ci' \in Nat \ {0}, latch' \in Int,
           tasks' \subseteq Task,
           fault' \in {"none", "missing_state", "dangling_reference"}
    PROVE  /\ ReloadTypeOK' /\ SerialInv' /\ LoadInv' /\ GraphInv'
           /\ Declared' = Declared /\ Configs' = Configs
<1>1. UNCHANGED <<node_configs_, generation, outcome, pc, text, i>>
  BY DEF loader
<1>2. ReloadTypeOK'
  BY <1>1 DEF ReloadInv, ReloadTypeOK
<1>3. SerialInv' /\ LoadInv'
  BY <1>1 DEF SerialInv, LoadInv, Quiet
<1>4. Declared' = Declared /\ Configs' = Configs
  BY <1>1 DEF Declared, Configs
<1>5. ASSUME Built PROVE Built'
  <2>1. (InsertedUpTo(Len(node_configs_)))'
    <3>1. InsertedUpTo(Len(node_configs_)) /\ node_configs_' = node_configs_ /\ Known' = Known
      BY <1>1, <1>5 DEF Built
    <3>2. /\ Distinct(Len(node_configs_)) /\ Known = {node_configs_[k].id : k \in 1 .. Len(node_configs_)}
          /\ Len(node_configs_) <= Len(node_configs_)
      BY <3>1 DEF InsertedUpTo
    <3>3. Distinct(Len(node_configs_))'
      BY <3>1, <3>2 DEF Distinct
    <3>4. Known' = {node_configs_'[k].id : k \in 1 .. Len(node_configs_')}
      BY <3>1, <3>2
    <3>5. QED
      BY <3>1, <3>2, <3>3, <3>4 DEF InsertedUpTo
  <2>2. Closed'
    BY <1>1, <1>4, <1>5 DEF Built, Closed
  <2>3. (LinkedUpTo(Len(node_configs_)))'
    BY <1>1, <1>4, <1>5 DEF Built, LinkedUpTo
  <2>4. Ordered'
    BY <1>1, <1>5 DEF Built, Ordered
  <2>5. QED
    BY <2>1, <2>2, <2>3, <2>4 DEF Built
<1>6. GraphInv'
  BY <1>1, <1>5 DEF ReloadInv, GraphInv
<1>7. QED
  BY <1>2, <1>3, <1>4, <1>6

(* Nodes that have ended are some of the nodes declared.                    *)
LEMMA EndedIsFinite ==
    ASSUME ReloadTypeOK
    PROVE  /\ IsFiniteSet(Ended) /\ Cardinality(Ended) \in Nat /\ Ended \subseteq Declared
           /\ Cardinality(Ended) <= Cardinality(Declared)
           /\ Cardinality(Ended) = Cardinality(Declared) => Ended = Declared
<1>1. Ended \in SUBSET Declared
  BY DEF Ended
<1>2. QED
  BY <1>1, ConfigFacts, FS_Subset, FS_CardinalityType

LEMMA RunIsSafe ==
    ASSUME ReloadInv, fault = "none", Quiet, tasks = {}, Run
    PROVE  ReloadInv'
<1>1. /\ cpc = "outside" /\ cpc' = "reset" /\ ci' = 1 /\ latch' = Len(node_configs_)
      /\ UNCHANGED <<node_configs_, node_states_, generation, outcome, loader, tasks, fault>>
  BY DEF Run, config
<1>2. tasks = {} /\ Overdrawn(Known)
  BY <1>1 DEF ReloadInv, RunInv
<1>3. /\ ReloadTypeOK' /\ SerialInv' /\ LoadInv' /\ GraphInv'
      /\ Declared' = Declared /\ Configs' = Configs
  <2>1. Len(node_configs_) \in Int
    BY ConfigFacts DEF ReloadInv
  <2>2. Known' = Known
    BY <1>1 DEF Known
  <2>3. /\ node_states_' \in [Known -> State] /\ tasks' \subseteq Task
        /\ fault' \in {"none", "missing_state", "dangling_reference"}
    BY <1>1 DEF ReloadInv, ReloadTypeOK
  <2>4. QED
    BY <1>1, <2>1, <2>2, <2>3, RunFrame
<1>4. RunInv'
  <2>1. Len(node_configs_') \in Nat
    BY <1>3, ConfigFacts, <1>1 DEF ReloadInv
  <2>2. (Overdrawn(Known \ Declared))'
    <3>1. Known' = Known /\ node_states_' = node_states_
      BY <1>1 DEF Known
    <3>2. QED
      BY <1>2, <3>1 DEF Overdrawn
  <2>3. QED
    BY <1>1, <1>2, <2>1, <2>2 DEF RunInv
<1>5. LeftInv' /\ SafeInv'
  BY <1>1 DEF ReloadInv, LeftInv, SafeInv
<1>6. QED
  BY <1>3, <1>4, <1>5 DEF ReloadInv

LEMMA ResetNodeIsSafe ==
    ASSUME ReloadInv, fault = "none", ResetNode
    PROVE  ReloadInv'
<1> DEFINE cfg == node_configs_[ci]
<1>1. /\ cpc = "reset" /\ ci <= Len(node_configs_) /\ ci' = ci + 1 /\ ci \in Nat \ {0}
      /\ UNCHANGED <<node_configs_, generation, outcome, loader, cpc, latch, tasks>>
      /\ ReloadTypeOK /\ RunInv /\ LeftInv
  BY DEF ResetNode, ReloadInv, ReloadTypeOK
<1>2. /\ Quiet /\ tasks = {} /\ Len(node_configs_) \in Nat /\ ci \in Configs /\ cfg \in Config
      /\ cfg.id \in Declared
      /\ cfg.deps \in Seq(Ids)
  <2>1. Quiet /\ tasks = {}
    BY <1>1, RunsAlone
  <2>2. Len(node_configs_) \in Nat /\ ci \in Configs
    BY <1>1, ConfigFacts
  <2>3. QED
    BY <1>1, <2>1, <2>2, ConfigFacts
<1>3. CASE cfg.id \notin Known
  <2>1. UNCHANGED node_states_ /\ fault' = "missing_state"
    BY <1>3 DEF ResetNode, Missing
  <2>2. outcome # "ok"
    BY <1>1, <1>2, <1>3, RunsAlone, BuiltFacts
  <2>3. ReloadTypeOK' /\ SerialInv' /\ LoadInv' /\ GraphInv'
    <3>1. Known' = Known
      BY <2>1 DEF Known
    <3>2. node_states_' \in [Known -> State]
      BY <1>1, <2>1 DEF ReloadTypeOK
    <3>3. /\ tasks' \subseteq Task
          /\ cpc' \in {"outside", "reset", "roots", "wait"} /\ ci' \in Nat \ {0} /\ latch' \in Int
          /\ fault' \in {"none", "missing_state", "dangling_reference"}
      BY <1>1, <2>1 DEF ReloadTypeOK
    <3>4. QED
      BY <1>1, <1>2, <2>1, <3>1, <3>2, <3>3, RunFrame
  <2>4. RunInv' /\ LeftInv' /\ SafeInv'
    BY <1>1, <2>1, <2>2 DEF RunInv, LeftInv, SafeInv
  <2>5. QED
    BY <2>3, <2>4 DEF ReloadInv
<1>4. CASE cfg.id \in Known
  <2>1. /\ node_states_' = [node_states_ EXCEPT ![cfg.id].pending = TRUE, ![cfg.id].left = Len(cfg.deps)]
        /\ UNCHANGED fault
    BY <1>4 DEF ResetNode
  <2>2. Known' = Known /\ \A x \in Known :
            /\ node_states_'[x] \in State /\ node_states_'[x].downstream = node_states_[x].downstream
            /\ x = cfg.id => node_states_'[x].pending /\ node_states_'[x].left = Len(cfg.deps)
            /\ x # cfg.id => node_states_'[x] = node_states_[x]
    <3>1. node_states_ \in [Known -> State] /\ Len(cfg.deps) \in Int
      BY <1>1, <1>2 DEF ReloadTypeOK
    <3>2. Known' = Known
      BY <2>1, <3>1 DEF Known
    <3>3. \A x \in Known : x # cfg.id => node_states_'[x] = node_states_[x]
      BY <2>1, <3>1
    <3>4. node_states_'[cfg.id] = [node_states_[cfg.id] EXCEPT !.pending = TRUE, !.left = Len(cfg.deps)]
      BY <1>4, <2>1, <3>1
    <3>5. node_states_[cfg.id] \in State
      BY <1>4, <3>1
    <3>6. /\ node_states_'[cfg.id] \in State /\ node_states_'[cfg.id].downstream = node_states_[cfg.id].downstream
          /\ node_states_'[cfg.id].pending /\ node_states_'[cfg.id].left = Len(cfg.deps)
      BY <3>1, <3>4, <3>5 DEF State
    <3>7. QED
      BY <3>1, <3>2, <3>3, <3>6
  <2>3. /\ ReloadTypeOK' /\ SerialInv' /\ LoadInv' /\ GraphInv'
        /\ Declared' = Declared /\ Configs' = Configs
    <3>1. node_states_' \in [Known -> State]
      <4>1. node_states_' = [x \in Known |-> node_states_'[x]]
        BY <1>1, <2>1 DEF ReloadTypeOK
      <4>2. QED
        BY <2>2, <4>1
    <3>2. /\ tasks' \subseteq Task
          /\ cpc' \in {"outside", "reset", "roots", "wait"} /\ ci' \in Nat \ {0} /\ latch' \in Int
          /\ fault' \in {"none", "missing_state", "dangling_reference"}
      BY <1>1, <2>1 DEF ReloadTypeOK
    <3>3. QED
      BY <1>1, <1>2, <2>2, <3>1, <3>2, RunFrame
  <2>4. RunInv'
    <3>1. (Overdrawn(Known \ Declared))'
      BY <1>1, <1>2, <2>1, <2>2, <2>3 DEF RunInv, Overdrawn
    <3>2. latch' = Len(node_configs_') /\ ci' <= Len(node_configs_') + 1
      BY <1>1, <1>2, <2>1 DEF RunInv
    <3>3. \A j \in 1 .. ci : /\ node_configs_[j].id \in Known
                             /\ node_states_'[node_configs_[j].id].pending
      <4>1. \A j \in 1 .. ci - 1 : node_configs_[j].id \in Known /\ node_states_[node_configs_[j].id].pending
        BY <1>1, <2>1 DEF RunInv
      <4>2. \A j \in 1 .. ci : j \in 1 .. ci - 1 \/ j = ci
        BY <1>1
      <4>3. QED
        BY <1>4, <2>2, <4>1, <4>2
    <3>4. ci' - 1 = ci
      BY <1>1
    <3>5. (\A j \in 1 .. ci - 1 : /\ node_configs_[j].id \in Known
                                  /\ node_states_[node_configs_[j].id].pending)'
      BY <1>1, <2>2, <3>3, <3>4
    <3>6. QED
      BY <1>1, <1>2, <3>1, <3>2, <3>5 DEF RunInv
  <2>5. LeftInv'
    <3> SUFFICES ASSUME outcome = "ok"
                 PROVE  \A j \in 1 .. ci :
                            node_states_'[node_configs_[j].id].left = Len(node_configs_[j].deps)
      <4>1. ci' - 1 = ci /\ UNCHANGED <<node_configs_, outcome, cpc>> /\ cpc' = "reset"
        BY <1>1
      <4>2. QED
        BY <4>1 DEF LeftInv, StateOf
    <3>1. Built
      BY <1>1, RunsAlone
    <3>2. \A j \in 1 .. ci - 1 : node_states_[node_configs_[j].id].left = Len(node_configs_[j].deps)
      BY <1>1 DEF LeftInv, StateOf
    <3>3. \A j \in 1 .. ci - 1 : j \in Configs /\ j # ci
      BY <1>1, <1>2, ConfigFacts
    <3>4. \A j \in 1 .. ci - 1 : node_configs_[j].id \in Known /\ node_configs_[j].id # cfg.id
      BY <1>1, <1>2, <3>1, <3>3, BuiltFacts
    <3>5. \A j \in 1 .. ci : j \in 1 .. ci - 1 \/ j = ci
      BY <1>1
    <3>6. QED
      BY <1>4, <2>2, <3>2, <3>4, <3>5
  <2>6. SafeInv'
    BY <2>1 DEF SafeInv
  <2>7. QED
    BY <2>3, <2>4, <2>5, <2>6 DEF ReloadInv
<1>5. QED
  BY <1>3, <1>4

(* The entries of downstream lists that name a node are as many as its      *)
(* dependencies.                                                            *)
LEMMA EntryFacts ==
    ASSUME NEW j
    PROVE  /\ \A x, p : <<x, p>> \in Entries(j) <=>
                  x \in Known /\ p \in DOMAIN DownOf(x) /\ DownOf(x)[p] = node_configs_[j].id
           /\ \A e \in Entries(j) : e = <<e[1], e[2]>> /\ e[1] \in Known
BY DEF Entries

LEMMA EntryTypes ==
    ASSUME ReloadTypeOK, NEW j, NEW e \in Entries(j)
    PROVE  /\ e = <<e[1], e[2]>> /\ e[1] \in Known /\ e[2] \in DOMAIN DownOf(e[1])
           /\ e[2] \in Nat \ {0} /\ e[2] <= Len(DownOf(e[1]))
<1>1. e = <<e[1], e[2]>> /\ e[1] \in Known /\ e[2] \in DOMAIN DownOf(e[1])
  BY EntryFacts
<1>2. DownOf(e[1]) \in Seq(Ids)
  BY <1>1 DEF DownOf, ReloadTypeOK, State
<1>3. QED
  BY <1>1, <1>2

LEMMA EntriesCounted ==
    ASSUME ReloadTypeOK, Built, NEW j \in Configs
    PROVE  IsFiniteSet(Entries(j)) /\ Cardinality(Entries(j)) = Len(node_configs_[j].deps)
<1>1. PICK s \in Seq(Ids) : s = node_configs_[j].deps
  BY ConfigFacts
<1> DEFINE n    == node_configs_[j].id
           Q(x) == {q \in DOMAIN s : s[q] = x}
           P(x) == {q \in DOMAIN DownOf(x) : DownOf(x)[q] = n}
           b(x) == CHOOSE f : f \in Bijection(Q(x), P(x))
           f    == [q \in DOMAIN s |-> <<s[q], b(s[q])[q]>>]
<1>2. \A q \in DOMAIN s : s[q] \in Known /\ q \in Q(s[q])
  BY <1>1 DEF Built, Closed, Range
<1>3. ASSUME NEW x \in Known
      PROVE  b(x) \in Bijection(Q(x), P(x))
  <2>1. PICK r \in Seq(Ids) : r = DownOf(x)
    BY DEF ReloadTypeOK, State, DownOf
  <2>2. Count(r, n) = Count(s, x)
    BY <1>1, <2>1, ConfigFacts DEF Built, LinkedUpTo, DownOf
  <2>3. IsFiniteSet(Q(x)) /\ IsFiniteSet(P(x))
    BY <2>1, CountFacts
  <2>4. Cardinality(Q(x)) = Cardinality(P(x))
    BY <2>1, <2>2 DEF Count
  <2>5. ExistsBijection(Q(x), P(x))
    BY <2>3, <2>4, FS_SameCardinalityBij
  <2>6. QED
    BY <2>5 DEF ExistsBijection
<1> HIDE DEF b
<1>4. f \in Bijection(DOMAIN s, Entries(j))
  <2>1. ASSUME NEW q \in DOMAIN s PROVE b(s[q])[q] \in P(s[q])
    <3>1. PICK x \in Known : x = s[q] /\ q \in Q(x)
      BY <1>2
    <3>2. b(x) \in [Q(x) -> P(x)]
      BY <1>3 DEF Bijection, Injection
    <3> HIDE DEF P, Q
    <3>3. b(x)[q] \in P(x)
      BY <3>1, <3>2
    <3>4. QED
      BY <3>1, <3>3
  <2>2. \A q \in DOMAIN s : f[q] = <<s[q], b(s[q])[q]>> /\ f[q] \in Entries(j)
    BY <1>2, <2>1, EntryFacts
  <2>3. ASSUME NEW q \in DOMAIN s, NEW r \in DOMAIN s, f[q] = f[r]
        PROVE  q = r
    <3>1. s[q] = s[r] /\ b(s[q])[q] = b(s[q])[r]
      BY <2>2, <2>3
    <3>2. q \in Q(s[q]) /\ r \in Q(s[q])
      BY <1>2, <3>1
    <3>3. b(s[q]) \in Injection(Q(s[q]), P(s[q]))
      BY <1>2, <1>3 DEF Bijection
    <3>4. QED
      BY <3>1, <3>2, <3>3 DEF Injection, IsInjective
  <2>4. ASSUME NEW e \in Entries(j)
        PROVE  \E q \in DOMAIN s : f[q] = e
    <3>1. e = <<e[1], e[2]>> /\ e[1] \in Known /\ e[2] \in P(e[1])
      BY EntryFacts
    <3>2. b(e[1]) \in Surjection(Q(e[1]), P(e[1]))
      BY <1>3, <3>1 DEF Bijection
    <3>3. PICK q \in Q(e[1]) : b(e[1])[q] = e[2]
      BY <3>1, <3>2 DEF Surjection
    <3>4. q \in DOMAIN s /\ s[q] = e[1]
      OBVIOUS
    <3>5. QED
      BY <2>2, <3>1, <3>3, <3>4
  <2>5. f \in [DOMAIN s -> Entries(j)]
    BY <2>2
  <2>6. QED
    BY <2>3, <2>4, <2>5 DEF Bijection, Injection, Surjection, IsInjective
<1>5. IsFiniteSet(DOMAIN s) /\ Cardinality(DOMAIN s) = Len(s)
  <2>1. DOMAIN s = 1 .. Len(s) /\ Len(s) \in Nat
    OBVIOUS
  <2>2. PICK m \in Nat : m = Len(s)
    BY <2>1
  <2>3. IsFiniteSet(1 .. m) /\ Cardinality(1 .. m) = IF 1 > m THEN 0 ELSE m - 1 + 1
    BY FS_Interval
  <2>4. QED
    BY <2>1, <2>2, <2>3
<1>6. IsFiniteSet(Entries(j)) /\ Cardinality(Entries(j)) = Cardinality(DOMAIN s)
  <2>1. ExistsBijection(DOMAIN s, Entries(j))
    BY <1>4 DEF ExistsBijection
  <2>2. QED
    BY <1>5, <2>1, FS_Bijection
<1>7. QED
  BY <1>1, <1>5, <1>6

LEMMA AllResetIsSafe ==
    ASSUME ReloadInv, fault = "none", AllReset
    PROVE  ReloadInv'
<1>1. /\ cpc = "reset" /\ ci > Len(node_configs_) /\ cpc' = "roots" /\ ci' = 1
      /\ UNCHANGED <<node_configs_, node_states_, generation, outcome, loader, latch, tasks, fault>>
      /\ ReloadTypeOK /\ RunInv /\ LeftInv
  BY DEF AllReset, ReloadInv, config
<1>2. Quiet /\ tasks = {} /\ Len(node_configs_) \in Nat /\ Configs = 1 .. Len(node_configs_)
  BY <1>1, RunsAlone, ConfigFacts
<1>3. ci - 1 = Len(node_configs_) /\ latch = Len(node_configs_)
  BY <1>1, <1>2 DEF RunInv, ReloadTypeOK
<1>4. \A j \in Configs : node_configs_[j].id \in Known /\ node_states_[node_configs_[j].id].pending
  <2>1. \A j \in 1 .. ci - 1 : node_configs_[j].id \in Known /\ node_states_[node_configs_[j].id].pending
    BY <1>1 DEF RunInv
  <2>2. QED
    BY <1>2, <1>3, <2>1
<1>5. Declared \subseteq Known /\ Ended = {}
  <2>1. \A x \in Declared : x \in Known /\ node_states_[x].pending
    BY <1>1, <1>4, ConfigFacts
  <2>2. QED
    BY <2>1 DEF Ended
<1>6. Known' = Known /\ Ended' = {}
  <2>1. Known' = Known /\ Declared' = Declared /\ UNCHANGED <<node_states_, tasks>>
    BY <1>1 DEF Known, Declared
  <2>2. QED
    BY <1>5, <2>1 DEF Ended, Running
<1>7. ReloadTypeOK' /\ SerialInv' /\ LoadInv' /\ GraphInv' /\ Declared' = Declared /\ Configs' = Configs
  <2>1. /\ node_states_' \in [Known -> State] /\ tasks' \subseteq Task
        /\ latch' \in Int /\ fault' \in {"none", "missing_state", "dangling_reference"}
    BY <1>1 DEF ReloadTypeOK
  <2>2. QED
    BY <1>1, <1>2, <1>6, <2>1, RunFrame
<1>8. RunInv'
  <2>1. Overdrawn(Known \ Declared) /\ UNCHANGED node_states_
    BY <1>1 DEF RunInv
  <2>2. (Overdrawn(Known \ Declared))'
    BY <1>6, <1>7, <2>1 DEF Overdrawn
  <2>3. latch' = Len(node_configs_') - Cardinality(Ended')
    <3>1. Cardinality(Ended') = 0
      BY <1>6, FS_EmptySet
    <3>2. QED
      BY <1>1, <1>2, <1>3, <3>1
  <2>4. QED
    BY <1>1, <1>2, <1>5, <1>6, <1>7, <2>2, <2>3 DEF RunInv
<1>9. LeftInv'
  <2> SUFFICES ASSUME outcome = "ok", NEW j \in Configs
               PROVE  /\ StateOf(j)'.left = Cardinality(Awaited(j)')
                      /\ Awaited(j)' # {} \/ node_configs_'[j].deps = <<>>
    <3>1. \A j \in Configs : 1 <= j
      BY <1>2
    <3>2. QED
      BY <1>1, <1>7, <3>1 DEF LeftInv
  <2>1. StateOf(j)'.left = Len(node_configs_[j].deps)
    <3>1. j \in 1 .. ci - 1
      BY <1>2, <1>3
    <3>2. QED
      BY <1>1, <3>1 DEF LeftInv, StateOf
  <2>2. Built /\ node_configs_[j].deps \in Seq(Ids)
    BY <1>1, <1>2, RunsAlone, ConfigFacts
  <2>3. Awaited(j)' = Entries(j)
    <3>1. \A x \in Known : node_states_[x].pending
      BY <1>1, <1>4, <2>2, BuiltFacts, ConfigFacts
    <3>2. \A e \in Entries(j) : e[1] \in Known
      BY EntryFacts
    <3>3. Awaited(j) = Entries(j)
      BY <3>1, <3>2 DEF Awaited, Unreached
    <3>4. Awaited(j)' = Awaited(j)
      BY <1>1, <1>6 DEF Awaited, Unreached, Entries, DownOf
    <3>5. QED
      BY <3>3, <3>4
  <2>4. Cardinality(Entries(j)) = Len(node_configs_[j].deps)
    BY <1>1, <2>2, EntriesCounted
  <2>5. Entries(j) # {} \/ node_configs_[j].deps = <<>>
    <3>1. CASE Entries(j) = {}
      <4>1. Len(node_configs_[j].deps) = 0
        BY <2>4, <3>1, FS_EmptySet
      <4>2. QED
        BY <2>2, <4>1
    <3>2. QED
      BY <3>1
  <2>6. QED
    BY <1>1, <2>1, <2>3, <2>4, <2>5
<1>10. SafeInv'
  BY <1>1 DEF SafeInv
<1>11. QED
  BY <1>7, <1>8, <1>9, <1>10 DEF ReloadInv

(* What a node waits for is a matter of who has been reached.               *)
LEMMA AwaitedStays ==
    ASSUME ReloadTypeOK, NEW j \in Configs, UNCHANGED node_configs_, Known' = Known,
           \A x \in Known : node_states_'[x].downstream = node_states_[x].downstream,
           \A x \in Known : \A q \in Nat \ {0} : Unreached(x, q)' <=> Unreached(x, q)
    PROVE  Awaited(j)' = Awaited(j)
<1>1. Entries(j)' = Entries(j)
  BY DEF Entries, DownOf
<1>2. \A e \in Entries(j) : e[1] \in Known /\ e[2] \in Nat \ {0}
  BY EntryTypes
<1>3. \A e \in Entries(j) : Unreached(e[1], e[2])' <=> Unreached(e[1], e[2])
  BY <1>2
<1>4. QED
  BY <1>1, <1>3 DEF Awaited

(* A step of a run that is on and walks no list.                            *)
LEMMA RunGoesOn ==
    ASSUME ReloadInv, fault = "none", cpc \in {"roots", "wait"}, cpc' \in {"roots", "wait"},
           UNCHANGED <<node_configs_, generation, outcome, loader, fault>>,
           ci' \in Nat \ {0}, Known' = Known, node_states_' \in [Known -> State],
           \A x \in Known : /\ node_states_'[x].downstream = node_states_[x].downstream
                            /\ node_states_'[x].left = node_states_[x].left
                            /\ node_states_'[x].pending => node_states_[x].pending,
           tasks' \subseteq Task, (\A k \in tasks : Placed(k))', \A k, l \in tasks' : k.id = l.id => k = l,
           latch' \in Int, latch' = Len(node_configs_) - Cardinality(Ended'),
           \A x \in Known : \A q \in Nat \ {0} : Unreached(x, q)' <=> Unreached(x, q),
           \A j \in Configs :
               cpc = "roots" /\ ci <= j /\ node_configs_[j].deps = <<>> /\ StateOf(j)'.pending =>
                   cpc' = "roots" /\ ci' <= j
    PROVE  ReloadInv'
<1>1. ReloadTypeOK /\ RunInv /\ LeftInv /\ Quiet
  BY RunsAlone DEF ReloadInv
<1>2. /\ ReloadTypeOK' /\ SerialInv' /\ LoadInv' /\ GraphInv'
      /\ Declared' = Declared /\ Configs' = Configs
  <2>1. /\ cpc' \in {"outside", "reset", "roots", "wait"}
        /\ fault' \in {"none", "missing_state", "dangling_reference"}
    BY <1>1 DEF ReloadTypeOK
  <2>2. QED
    BY <1>1, <2>1, RunFrame
<1>3. RunInv'
  <2>1. (Overdrawn(Known \ Declared))'
    BY <1>1, <1>2 DEF RunInv, Overdrawn
  <2>2. Declared \subseteq Known
    BY <1>1 DEF RunInv
  <2>3. QED
    BY <1>2, <2>1, <2>2 DEF RunInv
<1>4. LeftInv'
  <2>1. SUFFICES ASSUME outcome = "ok", NEW j \in Configs
                 PROVE  /\ StateOf(j)'.left = Cardinality(Awaited(j)')
                        /\ StateOf(j)'.pending =>
                               \/ Awaited(j)' # {}
                               \/ cpc' = "roots" /\ ci' <= j /\ node_configs_'[j].deps = <<>>
    BY <1>2 DEF LeftInv
  <2>2. Awaited(j)' = Awaited(j)
    BY <1>1, AwaitedStays
  <2>3. node_configs_[j].id \in Known
    BY <1>1, <2>1, RunsAlone, BuiltFacts
  <2>4. /\ StateOf(j)'.left = StateOf(j).left
        /\ StateOf(j)'.pending => StateOf(j).pending
    BY <2>3 DEF StateOf
  <2>5. /\ StateOf(j).left = Cardinality(Awaited(j))
        /\ StateOf(j).pending => \/ Awaited(j) # {}
                                 \/ cpc = "roots" /\ ci <= j /\ node_configs_[j].deps = <<>>
    BY <1>1, <2>1 DEF LeftInv
  <2>6. StateOf(j)'.pending => \/ Awaited(j)' # {}
                               \/ cpc' = "roots" /\ ci' <= j /\ node_configs_'[j].deps = <<>>
    BY <2>1, <2>2, <2>4, <2>5
  <2>7. QED
    BY <2>2, <2>4, <2>5, <2>6
<1>5. SafeInv'
  BY DEF SafeInv
<1>6. QED
  BY <1>2, <1>3, <1>4, <1>5 DEF ReloadInv

LEMMA TasksFacts ==
    ASSUME ReloadInv, fault = "none"
    PROVE  /\ tasks \subseteq Task /\ \A k \in tasks : Placed(k)
           /\ \A k, l \in tasks : k.id = l.id => k = l
           /\ cpc \in {"roots", "wait"} =>
                  Declared \subseteq Known /\ latch = Len(node_configs_) - Cardinality(Ended)
           /\ cpc = "outside" => \A k \in tasks : k.next # 0
BY DEF ReloadInv, ReloadTypeOK, RunInv

LEMMA RunReturnsIsSafe ==
    ASSUME ReloadInv, fault = "none", RunReturns
    PROVE  ReloadInv'
<1>1. /\ cpc = "roots" /\ ci > Len(node_configs_) /\ cpc' = "wait"
      /\ UNCHANGED <<node_configs_, node_states_, generation, outcome, loader, ci, latch, tasks, fault>>
      /\ ReloadTypeOK
  BY DEF RunReturns, config, ReloadInv
<1>2. Known' = Known /\ Declared' = Declared
  BY <1>1 DEF Known, Declared
<1>3. Ended' = Ended
  BY <1>1, <1>2 DEF Ended, Running
<1>4. \A x \in Known : \A q \in Nat \ {0} : Unreached(x, q)' <=> Unreached(x, q)
  BY <1>1 DEF Unreached
<1>5. (\A k \in tasks : Placed(k))'
  BY <1>1, <1>2, TasksFacts DEF Placed, DownOf
<1>6. ci' \in Nat \ {0} /\ latch' \in Int /\ node_states_' \in [Known -> State] /\ tasks' \subseteq Task
  BY <1>1 DEF ReloadTypeOK
<1>7. \A j \in Configs : ~ (ci <= j)
  BY <1>1, ConfigFacts DEF ReloadTypeOK
<1>8. latch' = Len(node_configs_) - Cardinality(Ended')
  BY <1>1, <1>3, TasksFacts
<1>9. QED
  BY <1>1, <1>2, <1>4, <1>5, <1>6, <1>7, <1>8, TasksFacts, RunGoesOn

LEMMA TaskStartsIsSafe ==
    ASSUME ReloadInv, fault = "none", NEW k \in tasks, TaskStarts(k)
    PROVE  ReloadInv'
<1>1. Quiet /\ ReloadTypeOK /\ k \in Task /\ Placed(k) /\ k.gen = 0 /\ generation # 0
  BY RunsAlone, TasksFacts DEF ReloadInv, ReloadTypeOK, TaskStarts
<1>2. k.id \in Known /\ k.next = 0 /\ cpc \in {"roots", "wait"}
  <2>1. k.id \in Known /\ k.next = 0
    BY <1>1 DEF Placed
  <2>2. QED
    BY <2>1, RunsAlone, TasksFacts
<1> DEFINE l == [k EXCEPT !.gen = generation]
<1>3. /\ tasks' = (tasks \ {k}) \cup {l}
      /\ UNCHANGED <<node_configs_, node_states_, generation, outcome, loader, cpc, ci, latch, fault>>
  BY <1>2 DEF TaskStarts, config
<1>4. l \in Task /\ l.id = k.id /\ l.gen = generation /\ l.next = 0
  BY <1>1, <1>2 DEF ReloadTypeOK, Task
<1>5. Known' = Known /\ Declared' = Declared
  BY <1>3 DEF Known, Declared
<1> HIDE DEF l
<1>6. \A x : Running(x)' <=> Running(x)
  BY <1>2, <1>3, <1>4 DEF Running
<1>7. Ended' = Ended
  BY <1>3, <1>5, <1>6 DEF Ended
<1>8. tasks' \subseteq Task /\ \A m, n \in tasks' : m.id = n.id => m = n
  BY <1>3, <1>4, TasksFacts
<1>9. (\A m \in tasks : Placed(m))'
  <2>1. \A m \in tasks \cup {l} : Placed(m)
    BY <1>1, <1>4, TasksFacts DEF Placed
  <2>2. QED
    BY <1>3, <1>5, <2>1 DEF Placed, DownOf
<1>10. \A x \in Known : \A q \in Nat \ {0} : Unreached(x, q)' <=> Unreached(x, q)
  BY <1>2, <1>3, <1>4 DEF Unreached
<1>11. ci' \in Nat \ {0} /\ latch' \in Int /\ node_states_' \in [Known -> State]
  BY <1>1, <1>3 DEF ReloadTypeOK
<1>12. latch' = Len(node_configs_) - Cardinality(Ended')
  BY <1>2, <1>3, <1>7, TasksFacts
<1>13. QED
  BY <1>2, <1>3, <1>5, <1>8, <1>9, <1>10, <1>11, <1>12, RunGoesOn

LEMMA ScheduleRootIsSafe ==
    ASSUME ReloadInv, fault = "none", ScheduleRoot
    PROVE  ReloadInv'
<1> DEFINE cfg == node_configs_[ci]
<1>1. /\ cpc = "roots" /\ ci <= Len(node_configs_) /\ ci' = ci + 1
      /\ UNCHANGED <<node_configs_, generation, outcome, loader, cpc, latch>>
      /\ Quiet /\ ReloadTypeOK
  BY RunsAlone DEF ScheduleRoot, ReloadInv
<1>2. ci \in Configs /\ cfg.id \in Ids /\ cfg.id \in Declared /\ cfg.id \in Known
  <2>1. ci \in Configs
    BY <1>1, ConfigFacts DEF ReloadTypeOK
  <2>2. QED
    BY <1>1, <2>1, ConfigFacts, TasksFacts
<1>3. Declared' = Declared /\ ci' \in Nat \ {0} /\ \A j \in Configs : ci <= j /\ j # ci => ci' <= j
  BY <1>1, ConfigFacts DEF Declared, ReloadTypeOK
<1>4. CASE cfg.deps # <<>>
  <2>1. UNCHANGED <<node_states_, tasks, fault>>
    BY <1>4 DEF ScheduleRoot
  <2>2. Known' = Known
    BY <2>1 DEF Known
  <2>3. Ended' = Ended
    BY <1>3, <2>1, <2>2 DEF Ended, Running
  <2>4. node_states_' \in [Known -> State] /\ tasks' \subseteq Task /\ latch' \in Int
    BY <1>1, <2>1 DEF ReloadTypeOK
  <2>5. \A j \in Configs : ci <= j /\ node_configs_[j].deps = <<>> => ci' <= j
    BY <1>3, <1>4
  <2>6. (\A k \in tasks : Placed(k))'
    BY <1>1, <1>3, <2>1, <2>2, TasksFacts DEF Placed, DownOf
  <2>7. \A x \in Known : \A q \in Nat \ {0} : Unreached(x, q)' <=> Unreached(x, q)
    BY <2>1 DEF Unreached
  <2>8. latch' = Len(node_configs_) - Cardinality(Ended')
    BY <1>1, <2>3, TasksFacts
  <2>9. QED
    BY <1>1, <1>3, <2>1, <2>2, <2>4, <2>5, <2>6, <2>7, <2>8, TasksFacts, RunGoesOn
<1>5. PICK l : l = Queued(cfg.id)
  OBVIOUS
<1>6. CASE cfg.deps = <<>>
  <2>1. /\ node_states_' = [node_states_ EXCEPT ![cfg.id].pending = FALSE]
        /\ tasks' = IF node_states_[cfg.id].pending THEN tasks \cup {l} ELSE tasks
        /\ UNCHANGED fault
    BY <1>2, <1>6, <1>5 DEF ScheduleRoot
  <2>2. /\ Known' = Known /\ node_states_' \in [Known -> State] /\ ~ node_states_'[cfg.id].pending
        /\ \A x \in Known : /\ node_states_'[x].downstream = node_states_[x].downstream
                            /\ node_states_'[x].left = node_states_[x].left
                            /\ x # cfg.id => node_states_'[x] = node_states_[x]
    <3>1. node_states_ \in [Known -> State]
      BY <1>1 DEF ReloadTypeOK
    <3>2. Known' = Known
      BY <2>1, <3>1 DEF Known
    <3>3. \A x \in Known : x # cfg.id => node_states_'[x] = node_states_[x]
      BY <2>1, <3>1
    <3>4. node_states_'[cfg.id] = [node_states_[cfg.id] EXCEPT !.pending = FALSE] /\ node_states_[cfg.id] \in State
      BY <1>2, <2>1, <3>1
    <3>5. /\ node_states_'[cfg.id] \in State /\ node_states_'[cfg.id].downstream = node_states_[cfg.id].downstream
          /\ ~ node_states_'[cfg.id].pending /\ node_states_'[cfg.id].left = node_states_[cfg.id].left
      BY <3>4 DEF State
    <3>6. node_states_' = [x \in Known |-> node_states_'[x]]
      BY <2>1, <3>1
    <3>7. \A x \in Known : node_states_'[x] \in State
      BY <3>1, <3>3, <3>5
    <3>8. QED
      BY <3>2, <3>3, <3>5, <3>6, <3>7
  <2>3. l.id = cfg.id /\ l.gen = 0 /\ l.next = 0 /\ l \in Task
    BY <1>2, <1>5 DEF Queued, Task
  <2>4. \A k \in tasks : k.id = cfg.id => ~ node_states_[cfg.id].pending
    BY TasksFacts DEF Placed
  <2>5. tasks' \subseteq Task /\ \A m, n \in tasks' : m.id = n.id => m = n
    BY <2>1, <2>3, <2>4, TasksFacts
  <2>6. (\A m \in tasks : Placed(m))'
    <3>1. ASSUME NEW m \in tasks PROVE Placed(m)'
      <4>1. Placed(m)
        BY TasksFacts
      <4>2. ~ node_states_'[m.id].pending /\ DownOf(m.id)' = DownOf(m.id)
        BY <2>2, <4>1 DEF Placed, DownOf
      <4>3. QED
        BY <1>1, <1>3, <2>2, <4>1, <4>2 DEF Placed
    <3>2. Placed(l)'
      BY <1>1, <1>2, <1>3, <2>2, <2>3 DEF Placed
    <3>3. QED
      BY <2>1, <3>1, <3>2
  <2>7. Ended' = Ended
    <3>1. ASSUME NEW x \in Declared \cap Known
          PROVE  (node_states_'[x].pending \/ Running(x)') <=> (node_states_[x].pending \/ Running(x))
      <4>1. CASE x # cfg.id
        BY <2>1, <2>2, <2>3, <3>1, <4>1 DEF Running
      <4>2. CASE x = cfg.id
        BY <2>1, <2>2, <2>3, <3>1, <4>2 DEF Running
      <4>3. QED
        BY <4>1, <4>2
    <3>2. QED
      BY <1>3, <2>2, <3>1 DEF Ended
  <2>8. ASSUME NEW x \in Known, NEW q \in Nat \ {0}
        PROVE  Unreached(x, q)' <=> Unreached(x, q)
    <3>1. CASE x # cfg.id
      BY <2>1, <2>2, <2>3, <3>1 DEF Unreached
    <3>2. CASE x = cfg.id
      <4>1. CASE node_states_[x].pending
        <5>1. l \in tasks' /\ l.id = x /\ l.next <= q
          BY <2>1, <2>3, <3>2, <4>1
        <5>2. QED
          BY <4>1, <5>1 DEF Unreached
      <4>2. CASE ~ node_states_[x].pending
        BY <2>1, <2>2, <3>2, <4>2 DEF Unreached
      <4>3. QED
        BY <4>1, <4>2
    <3>3. QED
      BY <3>1, <3>2
  <2>9. \A j \in Configs : ci <= j /\ StateOf(j)'.pending => ci' <= j
    BY <1>1, <1>3, <2>2 DEF StateOf
  <2>10. \A x \in Known : node_states_'[x].pending => node_states_[x].pending
    BY <2>2
  <2>11. latch' \in Int /\ latch' = Len(node_configs_) - Cardinality(Ended')
    BY <1>1, <2>7, TasksFacts DEF ReloadTypeOK
  <2>12. QED
    BY <1>1, <1>3, <2>1, <2>2, <2>5, <2>6, <2>8, <2>9, <2>10, <2>11, RunGoesOn
<1>7. QED
  BY <1>4, <1>6

LEMMA WaitReturnsIsSafe ==
    ASSUME ReloadInv, fault = "none", WaitReturns
    PROVE  ReloadInv'
<1>1. /\ cpc = "wait" /\ latch = 0 /\ cpc' = "outside"
      /\ UNCHANGED <<node_configs_, node_states_, generation, outcome, loader, ci, latch, tasks, fault>>
      /\ Quiet /\ ReloadTypeOK /\ RunInv
  BY RunsAlone DEF WaitReturns, config, ReloadInv
<1>2. Known' = Known /\ Declared' = Declared
  BY <1>1 DEF Known, Declared
<1>3. Ended = Declared
  <2>1. 0 = Len(node_configs_) - Cardinality(Ended)
    BY <1>1 DEF RunInv
  <2>2. QED
    BY <1>1, <2>1, ConfigFacts, EndedIsFinite
<1>4. \A k \in tasks : k.next # 0
  <2>1. \A k \in tasks : k.id \in Declared /\ (k.next = 0 => Running(k.id))
    BY TasksFacts DEF Placed, Running
  <2>2. QED
    BY <1>3, <2>1 DEF Ended
<1>5. Overdrawn(Known)
  <2>1. Overdrawn(Known \ Declared)
    BY <1>1 DEF RunInv
  <2>2. \A x \in Declared : ~ node_states_[x].pending
    BY <1>3 DEF Ended
  <2>3. QED
    BY <2>1, <2>2 DEF Overdrawn
<1>6. ReloadTypeOK' /\ SerialInv' /\ LoadInv' /\ GraphInv'
  <2>1. /\ node_states_' \in [Known -> State] /\ tasks' \subseteq Task /\ ci' \in Nat \ {0}
        /\ latch' \in Int /\ fault' \in {"none", "missing_state", "dangling_reference"}
    BY <1>1 DEF ReloadTypeOK
  <2>2. QED
    BY <1>1, <1>2, <2>1, RunFrame
<1>7. Overdrawn(Known)' /\ (Overdrawn(Known \ Declared))'
  BY <1>1, <1>2, <1>5 DEF Overdrawn
<1>8. (\A k \in tasks : Placed(k))'
  BY <1>1, <1>2, TasksFacts DEF Placed, DownOf
<1>9. RunInv' /\ LeftInv' /\ SafeInv'
  BY <1>1, <1>4, <1>7, <1>8, TasksFacts DEF RunInv, LeftInv, SafeInv
<1>10. QED
  BY <1>6, <1>9 DEF ReloadInv

LEMMA CountDownIsSafe ==
    ASSUME ReloadInv, fault = "none", NEW k \in tasks, CountDown(k)
    PROVE  ReloadInv'
<1>1. /\ Quiet /\ ReloadTypeOK /\ k \in Task /\ Placed(k) /\ k.gen = generation /\ k.next = 0
      /\ cpc \in {"roots", "wait"}
  <2>1. /\ Quiet /\ ReloadTypeOK /\ k \in Task /\ Placed(k) /\ k.gen # 0 /\ k.next = 0
        /\ cpc \in {"roots", "wait"}
    BY RunsAlone, TasksFacts DEF ReloadInv, CountDown
  <2>2. QED
    BY <2>1 DEF Placed
<1> DEFINE l == [k EXCEPT !.next = 1]
<1>2. /\ latch' = latch - 1 /\ tasks' = (tasks \ {k}) \cup {l}
      /\ UNCHANGED <<node_configs_, node_states_, generation, outcome, loader, cpc, ci, fault>>
  BY <1>1 DEF CountDown, Dangling, config
<1>3. l \in Task /\ l.id = k.id /\ l.gen = generation /\ l.next = 1
  BY <1>1 DEF Task
<1>4. Known' = Known /\ Declared' = Declared
  BY <1>2 DEF Known, Declared
<1> HIDE DEF l
<1>5. Ended' = Ended \cup {k.id} /\ k.id \notin Ended
  <2>1. \A x : Running(x)' <=> Running(x) /\ x # k.id
    BY <1>1, <1>2, <1>3, TasksFacts DEF Running
  <2>2. Running(k.id) /\ k.id \in Declared \cap Known /\ ~ node_states_[k.id].pending
    BY <1>1 DEF Running, Placed
  <2>3. QED
    BY <1>2, <1>4, <2>1, <2>2 DEF Ended
<1>6. tasks' \subseteq Task /\ \A m, n \in tasks' : m.id = n.id => m = n
  BY <1>2, <1>3, TasksFacts
<1>7. (\A m \in tasks : Placed(m))'
  <2>1. \A m \in tasks \cup {l} : Placed(m)
    BY <1>1, <1>3, TasksFacts DEF Placed
  <2>2. QED
    BY <1>2, <1>4, <2>1 DEF Placed, DownOf
<1>8. \A x \in Known : \A q \in Nat \ {0} : Unreached(x, q)' <=> Unreached(x, q)
  <2>1. \A q \in Nat \ {0} : k.next <= q /\ l.next <= q
    BY <1>1, <1>3
  <2>2. QED
    BY <1>2, <1>3, <2>1 DEF Unreached
<1>9. latch' \in Int /\ latch' = Len(node_configs_) - Cardinality(Ended')
  <2>1. Cardinality(Ended') = Cardinality(Ended) + 1
    BY <1>1, <1>5, EndedIsFinite, FS_AddElement
  <2>2. latch = Len(node_configs_) - Cardinality(Ended)
    BY <1>1, TasksFacts
  <2>3. Len(node_configs_) \in Nat /\ Cardinality(Ended) \in Nat
    BY <1>1, ConfigFacts, EndedIsFinite
  <2>4. QED
    BY <1>2, <2>1, <2>2, <2>3
<1>10. ci' \in Nat \ {0} /\ node_states_' \in [Known -> State]
  BY <1>1, <1>2 DEF ReloadTypeOK
<1>11. QED
  BY <1>1, <1>2, <1>4, <1>6, <1>7, <1>8, <1>9, <1>10, RunGoesOn

(* The walk.  A task is at an entry that is there, and one whose list has    *)
(* none is gone.                                                            *)
LEMMA NextIsThere ==
    ASSUME ReloadTypeOK, NEW k \in Task, Placed(k), k.next # 0, DownOf(k.id) # <<>>
    PROVE  k.next \in DOMAIN DownOf(k.id)
<1>1. DownOf(k.id) \in Seq(Ids) /\ k.next \in Nat \ {0} /\ (k.next = 1 \/ k.next <= Len(DownOf(k.id)))
  BY DEF ReloadTypeOK, Placed, DownOf, State, Task
<1>2. PICK s \in Seq(Ids) : s = DownOf(k.id)
  BY <1>1
<1>3. Len(s) \in Nat /\ Len(s) # 0 /\ DOMAIN s = 1 .. Len(s)
  BY <1>2
<1>4. QED
  BY <1>1, <1>2, <1>3

LEMMA EmptyWalkIsSafe ==
    ASSUME ReloadInv, fault = "none", NEW k \in tasks, Walk(k), DownOf(k.id) = <<>>
    PROVE  ReloadInv'
<1>1. /\ Quiet /\ ReloadTypeOK /\ RunInv /\ LeftInv /\ Placed(k) /\ k.next # 0
      /\ cpc \in {"roots", "wait", "outside"}
  BY RunsAlone, TasksFacts DEF ReloadInv, Walk
<1>2. /\ tasks' = tasks \ {k}
      /\ UNCHANGED <<node_configs_, node_states_, generation, outcome, loader, cpc, ci, latch, fault>>
  BY <1>1 DEF Walk, Dangling, Placed, DownOf
<1>3. Known' = Known /\ Declared' = Declared
  BY <1>2 DEF Known, Declared
<1>4. Ended' = Ended
  BY <1>1, <1>2, <1>3 DEF Ended, Running
<1>5. /\ ReloadTypeOK' /\ SerialInv' /\ LoadInv' /\ GraphInv' /\ Configs' = Configs
  <2>1. /\ node_states_' \in [Known -> State] /\ tasks' \subseteq Task /\ ci' \in Nat \ {0}
        /\ latch' \in Int /\ fault' \in {"none", "missing_state", "dangling_reference"}
        /\ cpc' \in {"outside", "reset", "roots", "wait"}
    BY <1>1, <1>2 DEF ReloadTypeOK
  <2>2. QED
    BY <1>1, <1>2, <1>3, <2>1, RunFrame
<1>6. RunInv'
  <2>1. (\A m \in tasks : Placed(m))'
    BY <1>2, <1>3, TasksFacts DEF Placed, DownOf
  <2>2. (Overdrawn(Known \ Declared))' /\ (cpc = "outside" => Overdrawn(Known))'
    BY <1>1, <1>2, <1>3 DEF RunInv, Overdrawn
  <2>3. QED
    BY <1>1, <1>2, <1>3, <1>4, <2>1, <2>2, TasksFacts DEF RunInv
<1>7. LeftInv'
  <2>1. SUFFICES ASSUME outcome = "ok", cpc \in {"roots", "wait"}, NEW j \in Configs
                 PROVE  /\ StateOf(j)'.left = Cardinality(Awaited(j)')
                        /\ StateOf(j)'.pending =>
                               \/ Awaited(j)' # {}
                               \/ cpc' = "roots" /\ ci' <= j /\ node_configs_'[j].deps = <<>>
    BY <1>1, <1>2, <1>5 DEF LeftInv
  <2>2. Awaited(j)' = Awaited(j)
    <3>1. Entries(j)' = Entries(j)
      BY <1>2, <1>3 DEF Entries, DownOf
    <3>2. \A e \in Entries(j) : e[1] # k.id
      BY EntryFacts
    <3>3. \A e \in Entries(j) : Unreached(e[1], e[2])' <=> Unreached(e[1], e[2])
      BY <1>2, <3>2 DEF Unreached
    <3>4. QED
      BY <3>1, <3>3 DEF Awaited
  <2>3. StateOf(j)' = StateOf(j)
    BY <1>2 DEF StateOf
  <2>4. QED
    BY <1>1, <1>2, <2>1, <2>2, <2>3 DEF LeftInv
<1>8. SafeInv'
  BY <1>2 DEF SafeInv
<1>9. QED
  BY <1>5, <1>6, <1>7, <1>8 DEF ReloadInv

(* An entry of a graph that did not load may name a node that is not there. *)
LEMMA LostWalkIsSafe ==
    ASSUME ReloadInv, fault = "none", NEW k \in tasks, Walk(k), DownOf(k.id) # <<>>,
           DownOf(k.id)[k.next] \notin Known
    PROVE  ReloadInv'
<1>1. /\ Quiet /\ ReloadTypeOK /\ Placed(k) /\ k.next # 0 /\ k \in Task
  BY RunsAlone, TasksFacts DEF ReloadInv, Walk
<1>2. /\ fault' = "missing_state" /\ Known' = Known
      /\ UNCHANGED <<node_configs_, node_states_, tasks, generation, outcome, loader, cpc, ci, latch>>
  BY <1>1 DEF Walk, Dangling, Placed, DownOf, Missing, Known
<1>3. outcome # "ok"
  <2>1. SUFFICES ASSUME Built PROVE FALSE
    BY <1>1, RunsAlone
  <2>2. k.id \in Known /\ Range(DownOf(k.id)) \subseteq Known
    BY <1>1, <2>1 DEF Built, LinkedUpTo, DownOf, Placed
  <2>3. k.next \in DOMAIN DownOf(k.id)
    BY <1>1, <2>2, NextIsThere
  <2>4. QED
    BY <2>2, <2>3 DEF Range
<1>4. ReloadTypeOK' /\ SerialInv' /\ LoadInv' /\ GraphInv'
  <2>1. /\ node_states_' \in [Known -> State] /\ tasks' \subseteq Task /\ ci' \in Nat \ {0}
        /\ latch' \in Int /\ fault' \in {"none", "missing_state", "dangling_reference"}
        /\ cpc' \in {"outside", "reset", "roots", "wait"}
    BY <1>1, <1>2 DEF ReloadTypeOK
  <2>2. QED
    BY <1>1, <1>2, <2>1, RunFrame
<1>5. QED
  BY <1>2, <1>3, <1>4 DEF ReloadInv, RunInv, LeftInv, SafeInv

(* An entry that is walked past: its node waits for one entry less and is   *)
(* scheduled when that was the last.                                        *)
LEMMA EntryWalkIsSafe ==
    ASSUME ReloadInv, fault = "none", NEW k \in tasks, Walk(k), DownOf(k.id) # <<>>,
           DownOf(k.id)[k.next] \in Known
    PROVE  ReloadInv'
<1> DEFINE ds == DownOf(k.id)
           n  == ds[k.next]
           on == [k EXCEPT !.next = k.next + 1]
           ready == node_states_[n].left = 1 /\ node_states_[n].pending
           after == IF k.next = Len(ds) THEN {} ELSE {on}
           fresh == IF ready THEN {Queued(n)} ELSE {}
<1>1. /\ Quiet /\ ReloadTypeOK /\ RunInv /\ LeftInv /\ Placed(k) /\ k \in Task
      /\ cpc \in {"roots", "wait", "outside"} /\ n \in Known
  BY RunsAlone, TasksFacts DEF ReloadInv
<1>2. k.next \in Nat \ {0} /\ k.gen = generation /\ k.id \in Known /\ k.id \in Declared
      /\ ~ node_states_[k.id].pending
  BY <1>1 DEF Walk, Placed, Task
<1>3. ds \in Seq(Ids) /\ k.next \in DOMAIN ds /\ k.next <= Len(ds) /\ Len(ds) \in Nat
  <2>1. ds \in Seq(Ids) /\ k.next \in DOMAIN ds
    BY <1>1, <1>2, NextIsThere DEF ReloadTypeOK, State, DownOf
  <2>2. QED
    BY <2>1
<1>4. /\ node_states_' = [node_states_ EXCEPT ![n].left = @ - 1, ![n].pending = @ /\ ~ ready]
      /\ tasks' = (tasks \ {k}) \cup after \cup fresh
      /\ UNCHANGED <<node_configs_, generation, outcome, loader, cpc, ci, latch, fault>>
  BY <1>1, <1>2 DEF Walk, Dangling, DownOf, Release, LastOne
<1>5. /\ Known' = Known /\ node_states_' \in [Known -> State] /\ node_states_[n].left \in Int
      /\ node_states_'[n].left = node_states_[n].left - 1
      /\ node_states_'[n].pending <=> node_states_[n].pending /\ ~ ready
      /\ \A x \in Known : /\ node_states_'[x].downstream = node_states_[x].downstream
                          /\ x # n => node_states_'[x] = node_states_[x]
  <2>1. node_states_ \in [Known -> State] /\ node_states_[n] \in State
    BY <1>1 DEF ReloadTypeOK
  <2> HIDE DEF ready
  <2>2. node_states_'[n] = [node_states_[n] EXCEPT !.left = @ - 1, !.pending = @ /\ ~ ready]
    BY <1>1, <1>4, <2>1
  <2>3. PICK r \in State : r = node_states_[n]
    BY <2>1
  <2>4. PICK b \in BOOLEAN : b <=> r.pending /\ ~ ready
    OBVIOUS
  <2>5. PICK m \in Int : m = r.left - 1 /\ r.left \in Int
    BY DEF State
  <2>6. PICK c \in State : /\ c = [r EXCEPT !.left = m, !.pending = b]
                           /\ c.left = m /\ c.downstream = r.downstream /\ (c.pending <=> b)
    <3>1. [r EXCEPT !.left = m, !.pending = b] \in State
      BY DEF State
    <3>2. [r EXCEPT !.left = m, !.pending = b].left = m
      BY DEF State
    <3>3. [r EXCEPT !.left = m, !.pending = b].downstream = r.downstream
      BY DEF State
    <3>4. [r EXCEPT !.left = m, !.pending = b].pending <=> b
      BY DEF State
    <3>5. QED
      BY <3>1, <3>2, <3>3, <3>4
  <2>7. node_states_'[n] = c
    <3>1. (r.pending /\ ~ ready) = b
      BY <2>3, <2>4 DEF State
    <3>2. QED
      BY <2>2, <2>3, <2>5, <2>6, <3>1
  <2>8. Known' = Known /\ \A x \in Known : x # n => node_states_'[x] = node_states_[x]
    BY <1>4, <2>1 DEF Known
  <2>9. node_states_' = [x \in Known |-> node_states_'[x]]
    BY <1>4, <2>1
  <2>10. node_states_' \in [Known -> State]
    BY <2>1, <2>6, <2>7, <2>8, <2>9
  <2>11. QED
    BY <2>3, <2>4, <2>5, <2>6, <2>7, <2>8, <2>10
<1>6. after \subseteq {on} /\ on \in Task /\ on.id = k.id /\ on.gen = generation /\ on.next = k.next + 1
      /\ (on \in after <=> k.next < Len(ds))
  BY <1>1, <1>2, <1>3 DEF Task
<1>7. /\ fresh \subseteq Task /\ (\A m \in fresh : ready /\ m = Queued(n))
      /\ Queued(n) \in Task /\ Queued(n).id = n /\ Queued(n).gen = 0 /\ Queued(n).next = 0
      /\ (ready <=> Queued(n) \in fresh)
  BY <1>1 DEF Queued, Task, ReloadTypeOK
<1>8. ready => n \in Declared /\ cpc \in {"roots", "wait"} /\ n # k.id /\ \A m \in tasks : m.id # n
  <2>1. SUFFICES ASSUME ready PROVE n \in Declared /\ cpc \in {"roots", "wait"} /\ n # k.id
                                    /\ \A m \in tasks : m.id # n
    OBVIOUS
  <2>2. node_states_[n].pending /\ ~ (node_states_[n].left <= 0)
    BY <2>1
  <2>3. n \in Declared /\ cpc # "outside"
    BY <1>1, <2>2 DEF RunInv, Overdrawn
  <2>4. n # k.id /\ \A m \in tasks : m.id # n
    BY <1>2, <2>2, TasksFacts DEF Placed
  <2>5. QED
    BY <1>1, <2>3, <2>4
<1> HIDE DEF after, fresh, on
<1>9. tasks' \subseteq Task /\ \A m, l \in tasks' : m.id = l.id => m = l
  <2>1. \A m \in tasks \ {k} : m.id # k.id
    BY TasksFacts
  <2>2. QED
    BY <1>4, <1>6, <1>7, <1>8, <2>1, TasksFacts
<1>10. ReloadTypeOK' /\ SerialInv' /\ LoadInv' /\ GraphInv' /\ Declared' = Declared /\ Configs' = Configs
  <2>1. /\ ci' \in Nat \ {0} /\ latch' \in Int /\ cpc' \in {"outside", "reset", "roots", "wait"}
        /\ fault' \in {"none", "missing_state", "dangling_reference"}
    BY <1>1, <1>4 DEF ReloadTypeOK
  <2>2. QED
    BY <1>1, <1>4, <1>5, <1>9, <2>1, RunFrame
<1>11. (\A m \in tasks : Placed(m))'
  <2>1. \A x \in Known : DownOf(x)' = DownOf(x) /\ (node_states_'[x].pending => node_states_[x].pending)
    BY <1>5 DEF DownOf
  <2>2. \A m \in tasks \ {k} : Placed(m)'
    BY <1>4, <1>5, <1>10, <2>1, TasksFacts DEF Placed
  <2>3. ASSUME NEW m \in after PROVE Placed(m)'
    <3>1. m = on /\ m.id = k.id /\ m.gen = generation
      BY <1>6
    <3>2. DownOf(m.id)' = ds /\ m.id \in Known' /\ m.id \in Declared' /\ ~ node_states_'[m.id].pending
      BY <1>2, <1>5, <1>10, <2>1, <3>1
    <3> HIDE DEF ds
    <3>3. m.next <= Len(ds)
      BY <1>2, <1>3, <1>6, <3>1
    <3>4. QED
      BY <1>4, <3>1, <3>2, <3>3 DEF Placed
  <2>4. ASSUME NEW m \in fresh PROVE Placed(m)'
    <3>1. /\ m.id = n /\ m.gen = 0 /\ m.next = 0 /\ n \in Declared' /\ n \in Known'
          /\ ~ node_states_'[n].pending
      BY <1>1, <1>5, <1>7, <1>8, <1>10
    <3> HIDE DEF n
    <3>2. QED
      BY <3>1 DEF Placed
  <2>5. QED
    BY <1>4, <1>6, <1>7, <2>2, <2>3, <2>4
<1>12. Ended' = Ended
  <2>1. ASSUME NEW x \in Declared \cap Known
        PROVE  (node_states_'[x].pending \/ Running(x)') <=> (node_states_[x].pending \/ Running(x))
    <3>1. on.next # 0 /\ k.next # 0
      BY <1>2, <1>6
    <3>2. Running(x)' <=> Running(x) \/ (ready /\ x = n)
      BY <1>4, <1>6, <1>7, <3>1 DEF Running
    <3>3. node_states_'[x].pending <=> node_states_[x].pending /\ ~ (ready /\ x = n)
      BY <1>5
    <3>4. ready /\ x = n => node_states_[x].pending
      OBVIOUS
    <3> HIDE DEF ready
    <3>5. QED
      BY <3>2, <3>3, <3>4
  <2>2. QED
    BY <1>5, <1>10, <2>1 DEF Ended
<1>13. RunInv'
  <2>1. \A X \in SUBSET Known : Overdrawn(X) => Overdrawn(X)'
    <3>1. \A x \in Known : /\ node_states_'[x].pending => node_states_[x].pending
                           /\ node_states_[x].left <= 0 => node_states_'[x].left <= 0
      BY <1>5
    <3>2. QED
      BY <3>1 DEF Overdrawn
  <2>2. (Overdrawn(Known \ Declared))' /\ (cpc = "outside" => Overdrawn(Known))'
    <3>1. Overdrawn(Known \ Declared) /\ (cpc = "outside" => Overdrawn(Known))
      BY <1>1 DEF RunInv
    <3>2. \A x \in Known \ Declared : node_states_'[x].pending => node_states_'[x].left <= 0
      BY <2>1, <3>1 DEF Overdrawn
    <3>3. cpc = "outside" => \A x \in Known : node_states_'[x].pending => node_states_'[x].left <= 0
      BY <2>1, <3>1 DEF Overdrawn
    <3>4. QED
      BY <1>4, <1>5, <1>10, <3>2, <3>3 DEF Overdrawn
  <2>3. (cpc = "outside" => \A m \in tasks : m.next # 0)'
    <3>1. on.next # 0
      BY <1>2, <1>6
    <3>2. QED
      BY <1>4, <1>6, <1>7, <1>8, <3>1, TasksFacts
  <2>4. (cpc \in {"roots", "wait"} =>
             Declared \subseteq Known /\ latch = Len(node_configs_) - Cardinality(Ended))'
    BY <1>4, <1>5, <1>10, <1>12, TasksFacts
  <2>5. cpc' \in {"roots", "wait", "outside"}
    BY <1>1, <1>4
  <2>6. QED
    BY <1>9, <1>11, <2>2, <2>3, <2>4, <2>5 DEF RunInv
<1>14. LeftInv'
  <2>1. SUFFICES ASSUME outcome = "ok", cpc \in {"roots", "wait"}, NEW j \in Configs
                 PROVE  /\ StateOf(j)'.left = Cardinality(Awaited(j)')
                        /\ StateOf(j)'.pending =>
                               \/ Awaited(j)' # {}
                               \/ cpc = "roots" /\ ci <= j /\ node_configs_[j].deps = <<>>
    BY <1>1, <1>4, <1>10 DEF LeftInv
  <2>2. Built /\ node_configs_[j].id \in Known
    BY <1>1, <2>1, RunsAlone, BuiltFacts
  <2>3. /\ StateOf(j).left = Cardinality(Awaited(j))
        /\ StateOf(j).pending => \/ Awaited(j) # {}
                                 \/ cpc = "roots" /\ ci <= j /\ node_configs_[j].deps = <<>>
    BY <1>1, <2>1 DEF LeftInv
  <2>4. PICK e : e = <<k.id, k.next>>
    OBVIOUS
  <2>5. Awaited(j)' = Awaited(j) \ {e}
    <3>1. Entries(j)' = Entries(j)
      <4>1. /\ node_configs_' = node_configs_ /\ Known' = Known
            /\ \A x \in Known : node_states_'[x].downstream = node_states_[x].downstream
        BY <1>4, <1>5
      <4> HIDE DEF ds, n, ready
      <4>2. QED
        BY <4>1 DEF Entries, DownOf
    <3>2. ASSUME NEW x \in Known, NEW q \in DOMAIN DownOf(x), q \in Nat, q <= Len(DownOf(x))
          PROVE  Unreached(x, q)' <=> Unreached(x, q) /\ ~ (x = k.id /\ q = k.next)
      <4>1. CASE x = k.id
        <5>1. Unreached(x, q) <=> k.next <= q
          BY <1>2, <4>1, TasksFacts DEF Unreached
        <5>2. ~ node_states_'[x].pending
          BY <1>2, <1>5, <4>1
        <5>3. Unreached(x, q)' <=> on \in after /\ on.next <= q
          BY <1>4, <1>6, <1>7, <1>8, <4>1, <5>2, TasksFacts DEF Unreached
        <5>4. x = k.id /\ ds = DownOf(x) /\ q <= Len(ds)
          BY <3>2, <4>1
        <5> HIDE DEF ds
        <5>5. on \in after /\ on.next <= q <=> k.next <= q /\ q # k.next
          BY <1>2, <1>3, <1>6, <3>2, <5>4
        <5>6. QED
          BY <4>1, <5>1, <5>3, <5>5
      <4>2. CASE x # k.id /\ x = n /\ ready
        <5>1. Queued(n) \in tasks' /\ Queued(n).id = x /\ Queued(n).next <= q
          BY <1>4, <1>7, <3>2, <4>2
        <5>2. Unreached(x, q)' /\ Unreached(x, q)
          BY <4>2, <5>1 DEF Unreached
        <5>3. QED
          BY <4>2, <5>2
      <4>3. CASE x # k.id /\ ~ (x = n /\ ready)
        <5>1. node_states_'[x].pending <=> node_states_[x].pending
          BY <1>5, <4>3
        <5>2. \A m : m.id = x => (m \in tasks' <=> m \in tasks)
          BY <1>4, <1>6, <1>7, <4>3
        <5>3. QED
          BY <4>3, <5>1, <5>2 DEF Unreached
      <4>4. QED
        BY <4>1, <4>2, <4>3
    <3>3. ASSUME NEW d \in Entries(j)
          PROVE  Unreached(d[1], d[2])' <=> Unreached(d[1], d[2]) /\ d # e
      <4>1. /\ d = <<d[1], d[2]>> /\ d[1] \in Known /\ d[2] \in DOMAIN DownOf(d[1])
            /\ d[2] \in Nat /\ d[2] <= Len(DownOf(d[1]))
        BY <1>1, EntryTypes
      <4>2. d = e <=> d[1] = k.id /\ d[2] = k.next
        BY <2>4, <4>1
      <4>3. QED
        BY <3>2, <4>1, <4>2
    <3>4. QED
      BY <3>1, <3>3 DEF Awaited
  <2>6. e \in Awaited(j) <=> n = node_configs_[j].id
    <3>1. Unreached(k.id, k.next)
      BY <1>2 DEF Unreached
    <3>2. e \in Entries(j) <=> n = node_configs_[j].id
      BY <1>2, <1>3, <2>4, EntryFacts
    <3>3. e[1] = k.id /\ e[2] = k.next
      BY <2>4
    <3>4. QED
      BY <3>1, <3>2, <3>3 DEF Awaited
  <2>7. IsFiniteSet(Awaited(j))
    <3>1. Awaited(j) \subseteq Entries(j)
      BY DEF Awaited
    <3>2. QED
      BY <1>1, <2>2, <3>1, EntriesCounted, FS_Subset
  <2>8. CASE n # node_configs_[j].id
    <3>1. Awaited(j)' = Awaited(j)
      BY <2>5, <2>6, <2>8
    <3>2. StateOf(j)' = StateOf(j)
      BY <1>4, <1>5, <2>2, <2>8 DEF StateOf
    <3>3. QED
      BY <2>3, <3>1, <3>2
  <2>9. CASE n = node_configs_[j].id
    <3>1. /\ Cardinality(Awaited(j)') = Cardinality(Awaited(j)) - 1
          /\ (Cardinality(Awaited(j)') = 0 <=> Awaited(j)' = {})
      <4>1. Cardinality(Awaited(j) \ {e}) = Cardinality(Awaited(j)) - 1
        BY <2>6, <2>7, <2>9, FS_RemoveElement
      <4>2. IsFiniteSet(Awaited(j) \ {e})
        BY <2>7, FS_RemoveElement
      <4>3. Cardinality(Awaited(j) \ {e}) = 0 <=> Awaited(j) \ {e} = {}
        BY <4>2, FS_EmptySet
      <4>4. QED
        BY <2>5, <4>1, <4>3
    <3>2. StateOf(j) = node_states_[n] /\ StateOf(j)' = node_states_'[n]
      BY <1>4, <2>9 DEF StateOf
    <3>3. StateOf(j)'.left = Cardinality(Awaited(j)')
      BY <1>5, <2>3, <3>1, <3>2
    <3>4. ASSUME StateOf(j)'.pending PROVE Awaited(j)' # {}
      <4>1. node_states_[n].pending /\ node_states_[n].left # 1
        BY <1>5, <3>2, <3>4
      <4>2. node_states_'[n].left # 0
        BY <1>5, <4>1
      <4>3. QED
        BY <3>1, <3>2, <3>3, <4>2
    <3>5. QED
      BY <3>3, <3>4
  <2>10. QED
    BY <2>8, <2>9
<1>15. SafeInv'
  BY <1>4 DEF SafeInv
<1>16. QED
  BY <1>10, <1>13, <1>14, <1>15 DEF ReloadInv

LEMMA WalkIsSafe ==
    ASSUME ReloadInv, fault = "none", NEW k \in tasks, Walk(k)
    PROVE  ReloadInv'
BY EmptyWalkIsSafe, LostWalkIsSafe, EntryWalkIsSafe

-----------------------------------------------------------------------------
(* A document is read while nothing runs and nothing is loaded.             *)
LEMMA ReadIsSafe ==
    ASSUME ReloadInv, fault = "none", Quiet, cpc = "outside", tasks = {}, NEW t \in Loaders,
           NEW d \in Documents, Read(t, d)
    PROVE  ReloadInv'
<1>1. /\ UNCHANGED <<node_configs_, node_states_, generation, cpc, ci, latch, tasks, fault>>
      /\ text' = [text EXCEPT ![t] = d] /\ ReloadTypeOK /\ RunInv /\ SafeInv
  BY DEF Read, client, ReloadInv
<1>2. Known' = Known /\ Declared' = Declared
  BY <1>1 DEF Known, Declared
<1>3. Overdrawn(Known)
  BY <1>1 DEF RunInv
<1>4. RunInv' /\ LeftInv' /\ SafeInv'
  <2>1. Overdrawn(Known)' /\ (Overdrawn(Known \ Declared))'
    BY <1>1, <1>2, <1>3 DEF Overdrawn
  <2>2. QED
    BY <1>1, <1>3, <2>1 DEF RunInv, LeftInv, SafeInv
<1>5. CASE d.wellformed
  <2>1. /\ pc' = [pc EXCEPT ![t] = "clear"] /\ i' = [i EXCEPT ![t] = 1] /\ UNCHANGED outcome
    BY <1>5 DEF Read, Goto
  <2>2. ReloadTypeOK'
    BY <1>1, <1>2, <2>1 DEF ReloadTypeOK
  <2>3. /\ pc'[t] = "clear" /\ i'[t] = 1 /\ text'[t] = d
        /\ \A u \in Loaders : u # t => pc'[u] = "idle"
    BY <1>1, <2>1 DEF ReloadTypeOK, Quiet
  <2>4. SerialInv'
    BY <1>1, <1>5, <2>3 DEF SerialInv
  <2>5. LoadInv' /\ GraphInv'
    BY <2>3 DEF LoadInv, GraphInv, Quiet
  <2>6. QED
    BY <1>4, <2>2, <2>4, <2>5 DEF ReloadInv
<1>6. CASE ~ d.wellformed
  <2>1. /\ pc' = [pc EXCEPT ![t] = "idle"] /\ i' = [i EXCEPT ![t] = 1] /\ outcome' \in {"error", "exit"}
    BY <1>6 DEF Read, End, Goto
  <2>2. ReloadTypeOK'
    BY <1>1, <1>2, <2>1 DEF ReloadTypeOK
  <2>3. \A u \in Loaders : pc'[u] = "idle"
    BY <1>1, <2>1 DEF ReloadTypeOK, Quiet
  <2>4. SerialInv' /\ LoadInv' /\ GraphInv'
    BY <2>1, <2>3 DEF SerialInv, LoadInv, GraphInv
  <2>5. QED
    BY <1>4, <2>2, <2>4 DEF ReloadInv
<1>7. QED
  BY <1>5, <1>6

LEMMA RunStepsKeepInv ==
    ASSUME ReloadInv, fault = "none", RunSteps
    PROVE  ReloadInv'
BY ResetNodeIsSafe, AllResetIsSafe, ScheduleRootIsSafe, RunReturnsIsSafe, WaitReturnsIsSafe,
   TaskStartsIsSafe, CountDownIsSafe, WalkIsSafe DEF RunSteps

LEMMA InitKeepsInv == Init => ReloadInv
<1> SUFFICES ASSUME Init PROVE ReloadInv
  OBVIOUS
<1>1. Known = {} /\ Declared = {} /\ tasks = {} /\ cpc = "outside"
  BY DEF Init, Known, Declared, Range
<1>2. ReloadTypeOK
  <2>1. node_configs_ \in Seq(Config) /\ node_states_ \in [Known -> State]
    BY <1>1 DEF Init
  <2>2. QED
    BY <1>1, <2>1 DEF Init, ReloadTypeOK
<1>3. SerialInv /\ LoadInv /\ GraphInv
  BY DEF Init, SerialInv, LoadInv, GraphInv
<1>4. RunInv /\ LeftInv /\ SafeInv
  BY <1>1 DEF Init, RunInv, LeftInv, SafeInv, Overdrawn
<1>5. QED
  BY <1>2, <1>3, <1>4 DEF ReloadInv

LEMMA StepKeepsInv == ReloadInv /\ [QuietNext]_vars => ReloadInv'
<1> SUFFICES ASSUME ReloadInv, [QuietNext]_vars
             PROVE  ReloadInv'
  OBVIOUS
<1>1. ASSUME QuietNext PROVE ReloadInv'
  <2>1. fault = "none"
    BY <1>1 DEF QuietNext, Up
  <2>2. QED
    BY <1>1, <2>1, LoadKeepsInv, RunStepsKeepInv, RunIsSafe, ReadIsSafe DEF QuietNext, InTurns, PoolIdle
<1>2. CASE UNCHANGED vars
  <2>1. /\ UNCHANGED <<node_configs_, node_states_, generation, outcome, pc, text, i>>
        /\ UNCHANGED <<cpc, ci, latch, tasks, fault>>
    BY <1>2 DEF vars, config, loader, client
  <2>2. ReloadTypeOK' /\ SerialInv' /\ SafeInv'
    BY <2>1 DEF ReloadInv, ReloadTypeOK, SerialInv, SafeInv, Known
  <2>3. LoadInv'
    <3>1. SUFFICES ASSUME NEW t \in Loaders
                   PROVE  (/\ pc[t] = "clear" => i[t] = 1
                           /\ pc[t] = "entry" => ReadUpTo(text[t], i[t] - 1)
                           /\ pc[t] = "insert" => /\ ReadUpTo(text[t], Len(text[t].nodes))
                                                  /\ InsertedUpTo(i[t] - 1)
                                                  /\ \A x \in Known : node_states_[x] = NewState
                           /\ pc[t] = "link" => /\ ReadUpTo(text[t], Len(text[t].nodes))
                                                /\ InsertedUpTo(Len(node_configs_)) /\ Closed
                                                /\ LinkedUpTo(i[t] - 1))'
      BY DEF LoadInv
    <3>2. (/\ pc[t] = "clear" => i[t] = 1
           /\ pc[t] = "entry" => ReadUpTo(text[t], i[t] - 1))'
      BY <2>1 DEF ReloadInv, LoadInv, ReadUpTo
    <3>3. \A n : InsertedUpTo(n)' <=> InsertedUpTo(n)
      <4>1. Known' = Known /\ \A n : Distinct(n)' <=> Distinct(n)
        BY <2>1 DEF Known, Distinct
      <4>2. \A n : {node_configs_'[k].id : k \in 1 .. n} = {node_configs_[k].id : k \in 1 .. n}
        BY <2>1
      <4>3. QED
        BY <2>1, <4>1, <4>2 DEF InsertedUpTo
    <3>4. (pc[t] = "insert" => InsertedUpTo(i[t] - 1))'
      <4>1. PICK m : m = i[t] - 1
        OBVIOUS
      <4>2. i'[t] - 1 = m
        BY <2>1, <4>1
      <4>3. pc'[t] = "insert" => InsertedUpTo(m)'
        BY <2>1, <3>3, <4>1 DEF ReloadInv, LoadInv
      <4>4. QED
        BY <4>2, <4>3 DEF InsertedUpTo
    <3>5. (pc[t] = "link" => InsertedUpTo(Len(node_configs_)))'
      <4>1. PICK m : m = Len(node_configs_)
        OBVIOUS
      <4>2. Len(node_configs_') = m
        BY <2>1, <4>1
      <4>3. pc'[t] = "link" => InsertedUpTo(m)'
        BY <2>1, <3>3, <4>1 DEF ReloadInv, LoadInv
      <4>4. QED
        BY <4>2, <4>3 DEF InsertedUpTo
    <3>6. (/\ pc[t] = "insert" => /\ ReadUpTo(text[t], Len(text[t].nodes))
                                  /\ \A x \in Known : node_states_[x] = NewState
           /\ pc[t] = "link" => ReadUpTo(text[t], Len(text[t].nodes)))'
      BY <2>1 DEF ReloadInv, LoadInv, ReadUpTo, Known
    <3>7. (pc[t] = "link" => Closed /\ LinkedUpTo(i[t] - 1))'
      BY <2>1 DEF ReloadInv, LoadInv, LinkedUpTo, Closed, Configs, Known
    <3>8. QED
      BY <3>2, <3>4, <3>5, <3>6, <3>7
  <2>4. GraphInv'
    BY <2>1 DEF ReloadInv, GraphInv, Built, InsertedUpTo, Distinct, LinkedUpTo, Closed, Ordered, Configs, Known,
                Quiet
  <2>5. RunInv'
    BY <2>1 DEF ReloadInv, RunInv, Overdrawn, Ended, Running, Placed, DownOf, Declared, Known
  <2>6. LeftInv'
    <3>1. Known' = Known /\ Configs' = Configs /\ \A j : StateOf(j)' = StateOf(j)
      BY <2>1 DEF Known, Configs, StateOf
    <3>2. \A x, q : Unreached(x, q)' <=> Unreached(x, q)
      BY <2>1 DEF Unreached
    <3>3. \A j : Entries(j)' = Entries(j)
      BY <2>1, <3>1 DEF Entries, DownOf
    <3>4. \A j : Awaited(j)' = Awaited(j)
      BY <3>2, <3>3 DEF Awaited
    <3>5. QED
      BY <2>1, <3>1, <3>4 DEF ReloadInv, LeftInv
  <2>7. QED
    BY <2>2, <2>3, <2>4, <2>5, <2>6 DEF ReloadInv
<1>3. QED
  BY <1>1, <1>2

(* The invariant holds however many loads and runs follow one another.      *)
THEOREM InductiveInvariant == QuietSpec => []ReloadInv
BY InitKeepsInv, StepKeepsInv, PTL DEF QuietSpec

(* Every container, index, counter and task keeps its type.                 *)
THEOREM TypeCorrect == QuietSpec => []ReloadTypeOK
<1>1. ReloadInv => ReloadTypeOK
  BY DEF ReloadInv
<1>2. QED
  BY <1>1, InductiveInvariant, PTL

LEMMA BuiltIsConsistent ==
    ASSUME ReloadTypeOK, Built
    PROVE  Consistent
<1>1. Declared = Known /\ Cardinality(Declared) = Len(node_configs_)
  BY BuiltFacts
<1>2. ASSUME NEW cfg \in Range(node_configs_), NEW n \in Ids
      PROVE  Count(cfg.deps, n) = IF n \in Known THEN Count(node_states_[n].downstream, cfg.id) ELSE 0
  <2>1. PICK k \in Configs : cfg = node_configs_[k]
    BY <1>2 DEF Range, Configs
  <2>2. cfg.deps \in Seq(Ids) /\ Range(cfg.deps) \subseteq Known /\ k <= Len(node_configs_)
    BY <2>1, ConfigFacts, BuiltFacts
  <2>3. CASE n \in Known
    BY <2>1, <2>2, <2>3 DEF Built, LinkedUpTo
  <2>4. CASE n \notin Known
    BY <2>2, <2>4, CountFacts
  <2>5. QED
    BY <2>3, <2>4
<1>3. Ordered
  BY DEF Built
<1>4. QED
  BY <1>1, <1>2, <1>3 DEF Consistent, Ordered

(* A load that reports success leaves one DAG in the two containers: the    *)
(* same ids, and downstream lists that are the dependency lists turned      *)
(* round, repetitions included.                                             *)
THEOREM SuccessIsRunnable == QuietSpec => []LoadedIsRunnable
<1>1. ReloadInv => LoadedIsRunnable
  BY BuiltIsConsistent DEF ReloadInv, GraphInv, LoadedIsRunnable
<1>2. QED
  BY <1>1, InductiveInvariant, PTL

(* The nodes that have not ended include one that waits for none of them.   *)
LEMMA NeverHung ==
    ASSUME ReloadInv, outcome = "ok"
    PROVE  ~ Hung
<1> SUFFICES ASSUME cpc = "wait", tasks = {}, latch # 0
             PROVE  FALSE
  BY DEF Hung
<1>1. fault = "none" /\ ReloadTypeOK
  BY DEF ReloadInv, SafeInv
<1>2. Built /\ RunInv /\ LeftInv
  BY <1>1, RunsAlone DEF ReloadInv
<1>3. Known = Declared /\ Cardinality(Declared) = Len(node_configs_)
  BY <1>1, <1>2, BuiltFacts
<1>4. latch = Len(node_configs_) - Cardinality(Ended)
  BY <1>1, <1>2 DEF RunInv
<1>5. Ended # Declared
  BY <1>1, <1>3, <1>4, ConfigFacts
<1>6. \A x \in Declared \ Ended : node_states_[x].pending
  BY <1>3 DEF Ended, Running
<1> DEFINE X == {c \in Range(node_configs_) : c.id \notin Ended}
<1>7. X \in (SUBSET Range(node_configs_)) \ {{}}
  <2>1. PICK x \in Declared : x \notin Ended
    BY <1>1, <1>5, EndedIsFinite
  <2>2. PICK c \in Range(node_configs_) : c.id = x
    BY DEF Declared
  <2>3. QED
    BY <2>1, <2>2
<1>8. PICK c \in X : \A d \in X : d.id \notin Range(c.deps)
  <2> HIDE DEF X
  <2>1. QED
    BY <1>2, <1>7 DEF Built, Ordered
<1>9. PICK j \in Configs : c = node_configs_[j]
  BY DEF Range, Configs
<1>10. Awaited(j) # {}
  <2>1. c.id \in Declared \ Ended
    BY DEF Declared
  <2>2. StateOf(j).pending
    BY <1>6, <1>9, <2>1 DEF StateOf
  <2>3. QED
    BY <1>1, <1>2, <1>9, <2>2 DEF LeftInv
<1>11. PICK e \in Entries(j) : Unreached(e[1], e[2])
  BY <1>10 DEF Awaited
<1>12. /\ e[1] \in Known /\ e[2] \in DOMAIN DownOf(e[1]) /\ DownOf(e[1])[e[2]] = c.id
       /\ node_states_[e[1]].pending
  BY <1>9, <1>11, EntryFacts DEF Unreached
<1>13. e[1] \in Range(c.deps)
  <2>1. DownOf(e[1]) \in Seq(Ids) /\ c.deps \in Seq(Ids) /\ c.id \in Range(DownOf(e[1]))
    BY <1>1, <1>9, <1>12, ConfigFacts DEF ReloadTypeOK, State, DownOf, Range
  <2>2. Count(DownOf(e[1]), c.id) # 0
    BY <2>1, CountFacts
  <2>3. Count(DownOf(e[1]), c.id) = Count(c.deps, e[1])
    BY <1>1, <1>2, <1>9, <1>12, ConfigFacts DEF Built, LinkedUpTo, DownOf
  <2>4. QED
    BY <2>1, <2>2, <2>3, CountFacts
<1>14. e[1] \in Declared /\ e[1] \notin Ended
  BY <1>3, <1>12 DEF Ended
<1>15. PICK d \in Range(node_configs_) : d.id = e[1]
  BY <1>14 DEF Declared
<1>16. QED
  BY <1>8, <1>13, <1>14, <1>15

(* After a load that succeeded a run and its tasks find every state they    *)
(* need, to the last entry a task walks past after waitForCompletion() has  *)
(* returned, and the run never waits for a latch that no task is left to    *)
(* count down: provided that no load and no run begins before then.         *)
THEOREM GoodLoadsRun == QuietSpec => []RunAfterGoodLoad
<1>1. ReloadInv => RunAfterGoodLoad
  BY NeverHung DEF ReloadInv, SafeInv, RunAfterGoodLoad
<1>2. QED
  BY <1>1, InductiveInvariant, PTL

(* A load that ends has counted a success exactly when the document it read *)
(* is a configuration without duplicates, ghosts or cycles, whatever was    *)
(* loaded before it.                                                        *)
THEOREM VerdictsAreExact == QuietSpec => LoadVerdictExact
<1> DEFINE A == \A t \in Loaders : pc[t] # "idle" /\ pc'[t] = "idle" =>
                    (outcome' = "ok" <=> Valid(text[t]))
<1>1. ASSUME ReloadInv, [QuietNext]_vars
      PROVE  [A]_vars
  <2>1. SUFFICES ASSUME QuietNext, NEW u \in Loaders, pc[u] # "idle", pc'[u] = "idle"
                 PROVE  outcome' = "ok" <=> Valid(text[u])
    BY <1>1
  <2>2. fault = "none" /\ ~ Quiet /\ cpc = "outside" /\ tasks = {}
    <3>1. fault = "none"
      BY <2>1 DEF QuietNext, Up
    <3>2. ~ Quiet /\ cpc = "outside"
      BY <1>1, <2>1, LoadsAlone
    <3>3. QED
      BY <1>1, <3>1, <3>2, RunsAlone
  <2>3. ~ RunSteps
    BY <2>2 DEF RunSteps, ResetNode, AllReset, ScheduleRoot, RunReturns, WaitReturns
  <2>4. PICK t \in Loaders : Load(t)
    BY <2>1, <2>2, <2>3 DEF QuietNext, InTurns
  <2>5. pc[t] # "idle"
    BY <2>4 DEF Load, ClearConfigs, ReadEntry, ClearStates, InsertState, CheckDependencies, Link, Validate
  <2>6. t = u
    BY <1>1, <2>1, <2>5 DEF ReloadInv, SerialInv
  <2>7. Verdict(u)
    BY <1>1, <2>2, <2>4, <2>6, LoadKeepsInv
  <2>8. QED
    BY <2>1, <2>7 DEF Verdict
<1>2. [][A]_vars => LoadVerdictExact
  BY DEF LoadVerdictExact
<1>3. QED
  BY <1>1, <1>2, InductiveInvariant, PTL DEF QuietSpec
=============================================================================
