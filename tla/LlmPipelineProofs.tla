-------------------------- MODULE LlmPipelineProofs --------------------------
(***************************************************************************)
(* Theorems about the two nodes of the pipeline, for any number of workers *)
(* and of input files, whatever their stems and commands are.              *)
(***************************************************************************)
EXTENDS LlmPipeline, FiniteSetTheorems, SequenceTheorems, TLAPS

-----------------------------------------------------------------------------
(* The analyzer: who is at work, and how many of the inputs are taken.      *)
Busy(w)    == at[w] \notin {"idle", "done"}
BusyOnes   == {w \in Analyzers : Busy(w)}
DoneOnes   == {w \in Analyzers : at[w] = "done"}
TakenFiles == IF idx <= Len(Inputs) THEN idx - 1 ELSE Len(Inputs)
Counted    == count.analyzed + count.failed + count.skipped

PhaseInv ==
    /\ analyzer = "collect" => \A w \in Analyzers : at[w] = "idle"
    /\ analyzer \in {"merge", "finish"} => \A w \in Analyzers : at[w] = "done"
    /\ analyzer = "ended" => \A w \in Analyzers : ~ Busy(w)

(* A worker has a file that was taken and that no other worker has.         *)
ShareInv ==
    /\ \A w \in Analyzers : Busy(w) => \E i \in DOMAIN Inputs : i < idx /\ file[w] = Inputs[i]
    /\ \A w, x \in Analyzers : Busy(w) /\ Busy(x) /\ file[w] = file[x] => w = x
    /\ \A w \in Analyzers : at[w] = "done" => idx > Len(Inputs)

CountInv ==
    /\ idx <= Len(Inputs) + 1 + Cardinality(DoneOnes)
    /\ Counted + Cardinality(BusyOnes) = TakenFiles
    /\ Len(output_files) = count.analyzed

(* A temporary file belongs to a worker that has opened it, or could not be *)
(* removed.                                                                 *)
TmpInv ==
    ~llm.tmp_stays => \A s \in Stems : tmp[s] # Absent =>
        \E w \in Analyzers : at[w] \in {"write", "rename", "remove"} /\ Stem[file[w]] = s

(* An inode has the stem of the file it is named for, and is written for    *)
(* that stem only.  One with a name is not empty, or about to be written.   *)
InodeInv ==
    /\ \A s \in Stems : /\ tmp[s] # Absent => Stem[tmp[s]] = s
                        /\ out[s] \notin {Absent, Old} => Stem[out[s]] = s
    /\ \A w \in Analyzers :
          at[w] = "write" => ofs[w] \in Files /\ Stem[ofs[w]] = Stem[file[w]]
    /\ \A i \in Files : data[i] \ {Cut} \subseteq Sources(Stem[i])
    /\ ~llm.disk_full =>
          \A s \in Stems : \A i \in Files \cap {tmp[s], out[s]} :
              \/ data[i] \ {Cut} # {}
              \/ \E w \in Analyzers : at[w] = "write" /\ ofs[w] = i

(* The output of a stem with one source is made when that file is done with.*)
OutputInv ==
    \A f \in Files : Sources(Stem[f]) = {f} /\ out[Stem[f]] = f =>
        /\ \E i \in DOMAIN Inputs : i < idx /\ Inputs[i] = f
        /\ \A w \in Analyzers : Busy(w) => file[w] # f

(* What the successor reads in the report is there.                         *)
ReportInv == \A k \in DOMAIN output_files : out[output_files[k]] # Absent

LlmOptions ==
    [overwrite : BOOLEAN, merge : BOOLEAN, disk_full : BOOLEAN, tmp_stays : BOOLEAN]

AnalyzerInv ==
    /\ AnalyzerTypeOK /\ llm \in LlmOptions
    /\ PhaseInv /\ ShareInv /\ CountInv /\ TmpInv /\ InodeInv /\ OutputInv /\ ReportInv

LEMMA InputFacts ==
    /\ Inputs \in Seq(Files) /\ Len(Inputs) \in Nat /\ Len(Inputs) > 0
    /\ DOMAIN Inputs = 1 .. Len(Inputs)
    /\ \A i \in 1 .. Len(Inputs) : Inputs[i] \in Files
    /\ \A i, j \in 1 .. Len(Inputs) : Inputs[i] = Inputs[j] => i = j
    /\ \A f \in Files : f # Absent /\ f # Old /\ f # Cut /\ Stem[f] \in Stems
    /\ IsFiniteSet(Analyzers) /\ Cardinality(Analyzers) \in Nat
    /\ Analyzers # {}
<1>1. Inputs \in Seq(Files) /\ IsFiniteSet(Analyzers) /\ Cardinality(Analyzers) \in 1 .. Len(Inputs)
  BY AnalyzerAssumption
<1>2. Len(Inputs) \in Nat /\ DOMAIN Inputs = 1 .. Len(Inputs)
  BY <1>1
<1>3. Cardinality(Analyzers) \in Nat /\ Len(Inputs) > 0 /\ Analyzers # {}
  BY <1>1, <1>2, FS_CardinalityType, FS_EmptySet
<1>4. QED
  BY <1>1, <1>2, <1>3, AnalyzerAssumption DEF Files, Stems

(* A busy worker has an input file.                                         *)
LEMMA BusyHasFile ==
    ASSUME AnalyzerInv, NEW w \in Analyzers, Busy(w)
    PROVE  file[w] \in Files /\ S(w) \in Stems /\ S(w) = Stem[file[w]]
BY InputFacts DEF AnalyzerInv, ShareInv, S

LEMMA CrewFinite ==
    /\ IsFiniteSet(BusyOnes) /\ Cardinality(BusyOnes) \in Nat
    /\ IsFiniteSet(DoneOnes) /\ Cardinality(DoneOnes) \in Nat
    /\ Cardinality(DoneOnes) <= Cardinality(Analyzers)
<1>1. BusyOnes \in SUBSET Analyzers /\ DoneOnes \in SUBSET Analyzers
  BY DEF BusyOnes, DoneOnes
<1>2. QED
  BY <1>1, InputFacts, FS_Subset, FS_CardinalityType

LEMMA AnalyzerBegins == AnalyzerInit => AnalyzerInv
<1> SUFFICES ASSUME AnalyzerInit PROVE AnalyzerInv
  OBVIOUS
<1>1. AnalyzerTypeOK
  BY InputFacts DEF AnalyzerInit, AnalyzerTypeOK, All, NoFile, NoData, NoCount
<1>2. BusyOnes = {} /\ DoneOnes = {} /\ Cardinality({}) = 0
  BY FS_EmptySet DEF AnalyzerInit, All, BusyOnes, DoneOnes, Busy
<1>3. CountInv
  BY <1>2, InputFacts DEF AnalyzerInit, CountInv, Counted, NoCount, TakenFiles
<1>4. PhaseInv /\ ShareInv /\ TmpInv
  BY DEF AnalyzerInit, All, NoFile, PhaseInv, ShareInv, TmpInv, Busy
<1>5. InodeInv /\ OutputInv /\ ReportInv
  BY InputFacts DEF AnalyzerInit, All, NoFile, NoData, InodeInv, OutputInv, ReportInv
<1>6. QED
  BY <1>1, <1>3, <1>4, <1>5 DEF AnalyzerInv, AnalyzerInit, LlmOptions

(* The same holds of the state in which the successor starts.               *)
LEMMA ForgottenIsSafe ==
    ASSUME AnalyzerInv, AnalyzerForgotten, analyzer = "ended"
    PROVE  AnalyzerInv'
<1>1. llm' \in LlmOptions
  BY DEF AnalyzerForgotten, AnalyzerInv, LlmOptions
<1>2. AnalyzerTypeOK'
  BY InputFacts DEF AnalyzerForgotten, AnalyzerInv, AnalyzerTypeOK, All, NoFile, NoData, NoCount
<1>3. BusyOnes' = {} /\ DoneOnes' = {} /\ Cardinality({}) = 0
  BY FS_EmptySet DEF AnalyzerForgotten, All, BusyOnes, DoneOnes, Busy
<1>4. CountInv'
  BY <1>3, InputFacts DEF AnalyzerForgotten, CountInv, Counted, NoCount, TakenFiles
<1>5. PhaseInv' /\ ShareInv' /\ TmpInv'
  BY DEF AnalyzerForgotten, All, NoFile, PhaseInv, ShareInv, TmpInv, Busy
<1>6. InodeInv' /\ OutputInv' /\ ReportInv'
  BY InputFacts DEF AnalyzerForgotten, All, NoFile, NoData, InodeInv, OutputInv, ReportInv
<1>7. QED
  BY <1>1, <1>2, <1>4, <1>5, <1>6 DEF AnalyzerInv

(* The steps of the node itself change nothing of its workers.              *)
LEMMA PhaseStepIsSafe ==
    ASSUME AnalyzerInv, Refuse \/ CollectFiles \/ Joined \/ MergeOutput \/ Finish
    PROVE  AnalyzerInv'
<1>1. UNCHANGED <<llm, analyzerLocals, llmDisk>>
  BY DEF Refuse, CollectFiles, Joined, MergeOutput, Finish
<1>2. AnalyzerTypeOK'
  BY <1>1 DEF Refuse, CollectFiles, Joined, MergeOutput, Finish, StatusOf, AnalyzerInv,
              AnalyzerTypeOK, analyzerLocals, llmDisk
<1>3. PhaseInv'
  BY <1>1 DEF Refuse, CollectFiles, Joined, MergeOutput, Finish, AnalyzerInv, PhaseInv, Busy,
              analyzerLocals
<1>4. ShareInv' /\ CountInv' /\ TmpInv'
  BY <1>1 DEF AnalyzerInv, ShareInv, CountInv, TmpInv, Busy, BusyOnes, DoneOnes, TakenFiles,
              Counted, analyzerLocals, llmDisk
<1>5. InodeInv' /\ OutputInv' /\ ReportInv'
  BY <1>1 DEF AnalyzerInv, InodeInv, OutputInv, ReportInv, Busy, analyzerLocals, llmDisk
<1>6. QED
  BY <1>1, <1>2, <1>3, <1>4, <1>5 DEF AnalyzerInv

(* What a worker does to the places of the workers.                         *)
LEMMA WorkerMoves ==
    ASSUME AnalyzerInv, NEW w \in Analyzers, TakeFile(w) \/ processFile(w)
    PROVE  /\ \A x \in Analyzers : x # w => at'[x] = at[x] /\ file'[x] = file[x] /\ ofs'[x] = ofs[x]
           /\ at[w] # "done"
           /\ ~ TakeFile(w) => Busy(w) /\ file' = file /\ idx' = idx
BY DEF AnalyzerInv, AnalyzerTypeOK, TakeFile, processFile, SkipFile, ReadFile, Analyse, Combine, OpenTmp,
       WriteTmp, RenameTmp, RenameFails, RemoveTmp, Step, Counts, Busy, llmDisk

LEMMA WorkerKeepsPhase ==
    ASSUME AnalyzerInv, NEW w \in Analyzers, TakeFile(w) \/ processFile(w),
           UNCHANGED <<analyzer, llm, report, llm_status>>
    PROVE  PhaseInv'
<1>1. analyzer = "run"
  BY WorkerMoves DEF TakeFile, AnalyzerInv, AnalyzerTypeOK, PhaseInv, Busy
<1>2. QED
  BY <1>1 DEF PhaseInv

LEMMA WorkerKeepsShare ==
    ASSUME AnalyzerInv, NEW w \in Analyzers, TakeFile(w) \/ processFile(w)
    PROVE  ShareInv'
<1>1. CASE TakeFile(w)
  <2>1. idx \in Nat \ {0} /\ idx' = idx + 1 /\ at[w] = "idle"
    BY <1>1, InputFacts DEF TakeFile, Step, AnalyzerInv, AnalyzerTypeOK
  <2>2. CASE idx <= Len(Inputs)
    <3>1. at'[w] = "check" /\ file'[w] = Inputs[idx] /\ idx \in 1 .. Len(Inputs)
      BY <1>1, <2>1, <2>2 DEF TakeFile, Step, AnalyzerInv, AnalyzerTypeOK
    <3>2. \A x \in Analyzers : Busy(x) => file[x] # Inputs[idx]
      BY <2>1, <3>1, InputFacts DEF AnalyzerInv, ShareInv
    <3>3. \A x \in Analyzers : at[x] # "done"
      BY <2>1, <2>2, InputFacts DEF AnalyzerInv, ShareInv
    <3>4. \A x \in Analyzers : Busy(x)' => x = w \/ Busy(x)
      BY WorkerMoves DEF Busy
    <3>5. \A x \in Analyzers : Busy(x)' =>
              \E i \in DOMAIN Inputs : i < idx' /\ file'[x] = Inputs[i]
      BY <2>1, <3>1, <3>4, WorkerMoves, InputFacts DEF AnalyzerInv, ShareInv
    <3>6. \A x, y \in Analyzers : Busy(x)' /\ Busy(y)' /\ file'[x] = file'[y] => x = y
      BY <3>1, <3>2, <3>4, WorkerMoves DEF AnalyzerInv, ShareInv
    <3>7. QED
      BY <3>1, <3>3, <3>5, <3>6, WorkerMoves DEF ShareInv
  <2>3. CASE ~ (idx <= Len(Inputs))
    <3>1. at'[w] = "done" /\ idx > Len(Inputs) /\ idx' > Len(Inputs)
      BY <1>1, <2>1, <2>3, InputFacts DEF TakeFile, Step, AnalyzerInv, AnalyzerTypeOK
    <3>2. \A x \in Analyzers : Busy(x)' => x # w /\ Busy(x)
      BY <3>1, WorkerMoves DEF Busy
    <3>3. \A x \in Analyzers : Busy(x)' =>
              \E i \in DOMAIN Inputs : i < idx' /\ file'[x] = Inputs[i]
      BY <2>1, <3>2, WorkerMoves, InputFacts DEF AnalyzerInv, ShareInv
    <3>4. QED
      BY <3>1, <3>2, <3>3, WorkerMoves DEF AnalyzerInv, ShareInv
  <2>4. QED
    BY <2>2, <2>3
<1>2. CASE ~ TakeFile(w)
  <2>1. /\ Busy(w) /\ file' = file /\ idx' = idx
        /\ \A x \in Analyzers : Busy(x)' => Busy(x)
        /\ \A x \in Analyzers : at'[x] = "done" => at[x] = "done"
    <3>1. at'[w] # "done"
      BY <1>2 DEF AnalyzerInv, AnalyzerTypeOK, processFile, SkipFile, ReadFile, Analyse, Combine, OpenTmp,
                  WriteTmp, RenameTmp, RenameFails, RemoveTmp, Step, Counts
    <3>2. QED
      BY <1>2, <3>1, WorkerMoves DEF Busy
  <2>2. QED
    BY <2>1 DEF AnalyzerInv, ShareInv
<1>3. QED
  BY <1>1, <1>2

(* How the number of the busy workers, and of those that are done, changes. *)
LEMMA CrewChanges ==
    ASSUME AnalyzerTypeOK, NEW w \in Analyzers, NEW to, at' = [at EXCEPT ![w] = to], at[w] # "done"
    PROVE  /\ at[w] = "idle" /\ to = "done" =>
                 /\ Cardinality(BusyOnes)' = Cardinality(BusyOnes)
                 /\ Cardinality(DoneOnes)' = Cardinality(DoneOnes) + 1
           /\ at[w] = "idle" /\ to \notin {"idle", "done"} =>
                 /\ Cardinality(BusyOnes)' = Cardinality(BusyOnes) + 1
                 /\ Cardinality(DoneOnes)' = Cardinality(DoneOnes)
           /\ at[w] # "idle" /\ to = "idle" =>
                 /\ Cardinality(BusyOnes)' = Cardinality(BusyOnes) - 1
                 /\ Cardinality(DoneOnes)' = Cardinality(DoneOnes)
           /\ at[w] # "idle" /\ to \notin {"idle", "done"} =>
                 /\ Cardinality(BusyOnes)' = Cardinality(BusyOnes)
                 /\ Cardinality(DoneOnes)' = Cardinality(DoneOnes)
<1>1. at'[w] = to /\ \A x \in Analyzers : x # w => at'[x] = at[x]
  BY DEF AnalyzerTypeOK
<1>2. ASSUME at[w] = "idle", to = "done"
      PROVE  BusyOnes' = BusyOnes /\ DoneOnes' = DoneOnes \cup {w} /\ w \notin DoneOnes
  BY <1>1, <1>2 DEF BusyOnes, DoneOnes, Busy
<1>3. ASSUME at[w] = "idle", to \notin {"idle", "done"}
      PROVE  BusyOnes' = BusyOnes \cup {w} /\ w \notin BusyOnes /\ DoneOnes' = DoneOnes
  BY <1>1, <1>3 DEF BusyOnes, DoneOnes, Busy
<1>4. ASSUME at[w] # "idle", to = "idle"
      PROVE  BusyOnes' = BusyOnes \ {w} /\ w \in BusyOnes /\ DoneOnes' = DoneOnes
  BY <1>1, <1>4 DEF BusyOnes, DoneOnes, Busy
<1>5. ASSUME at[w] # "idle", to \notin {"idle", "done"}
      PROVE  BusyOnes' = BusyOnes /\ DoneOnes' = DoneOnes
  BY <1>1, <1>5 DEF BusyOnes, DoneOnes, Busy
<1>6. w \notin DoneOnes => Cardinality(DoneOnes \cup {w}) = Cardinality(DoneOnes) + 1
  BY CrewFinite, FS_AddElement
<1>7. w \notin BusyOnes => Cardinality(BusyOnes \cup {w}) = Cardinality(BusyOnes) + 1
  BY CrewFinite, FS_AddElement
<1>8. w \in BusyOnes => Cardinality(BusyOnes \ {w}) = Cardinality(BusyOnes) - 1
  BY CrewFinite, FS_RemoveElement
<1>9. QED
  BY <1>2, <1>3, <1>4, <1>5, <1>6, <1>7, <1>8

(* The steps of a worker by what they do to the counts: it goes on with its *)
(* file, or it is done with it and counts one outcome.                      *)
GoesOn(w) ==
    /\ Busy(w) /\ UNCHANGED <<idx, count, output_files>>
    /\ \E to \in {"call", "combine", "open", "write", "rename", "remove"} :
          at' = [at EXCEPT ![w] = to]
Ends(w, outcome) ==
    /\ Busy(w) /\ UNCHANGED idx /\ at' = [at EXCEPT ![w] = "idle"]
    /\ count' = [count EXCEPT ![outcome] = @ + 1]
    /\ IF outcome = "analyzed" THEN output_files' = Append(output_files, S(w))
                               ELSE output_files' = output_files

LEMMA WorkerCounts ==
    ASSUME AnalyzerInv, NEW w \in Analyzers, processFile(w), ~ TakeFile(w)
    PROVE  GoesOn(w) \/ \E outcome \in {"analyzed", "failed", "skipped"} : Ends(w, outcome)
<1>1. Busy(w)
  BY WorkerMoves
<1>2. CASE SkipFile(w)
  BY <1>1, <1>2 DEF SkipFile, Counts, Step, Ends
<1>3. CASE ReadFile(w)
  BY <1>1, <1>3 DEF ReadFile, Counts, Step, Ends, GoesOn
<1>4. CASE Analyse(w)
  BY <1>1, <1>4 DEF Analyse, Counts, Step, Ends, GoesOn
<1>5. CASE Combine(w) \/ WriteTmp(w) \/ RenameFails(w)
  BY <1>1, <1>5 DEF Combine, WriteTmp, RenameFails, Step, GoesOn
<1>6. CASE OpenTmp(w)
  BY <1>1, <1>6 DEF OpenTmp, Counts, Step, Ends, GoesOn
<1>7. CASE RenameTmp(w) \/ RemoveTmp(w)
  BY <1>1, <1>7 DEF RenameTmp, RemoveTmp, Counts, Step, Ends
<1>8. QED
  BY <1>2, <1>3, <1>4, <1>5, <1>6, <1>7 DEF processFile

(* idx and the counts are in bounds and CountInv holds after any step.      *)
CountTypes ==
    /\ idx \in 1 .. Len(Inputs) + Cardinality(Analyzers) + 1
    /\ count \in [{"analyzed", "failed", "skipped"} -> 0 .. Len(Inputs)]
    /\ output_files \in Seq(Stems)

LEMMA WorkerKeepsCounts ==
    ASSUME AnalyzerInv, NEW w \in Analyzers, TakeFile(w) \/ processFile(w)
    PROVE  CountInv' /\ CountTypes'
<1> USE DEF AnalyzerInv
<1>1. /\ AnalyzerTypeOK /\ idx \in Nat \ {0} /\ count.analyzed \in Nat /\ count.failed \in Nat
      /\ count.skipped \in Nat /\ output_files \in Seq(Stems)
      /\ count \in [{"analyzed", "failed", "skipped"} -> Nat]
  BY InputFacts DEF AnalyzerTypeOK
<1>2. Len(Inputs) \in Nat /\ Cardinality(Analyzers) \in Nat /\ at[w] # "done"
  BY InputFacts, WorkerMoves
<1>3. /\ Cardinality(BusyOnes) \in Nat /\ Cardinality(DoneOnes) \in Nat
      /\ Cardinality(BusyOnes)' \in Nat /\ Cardinality(DoneOnes)' \in Nat
      /\ Cardinality(DoneOnes)' <= Cardinality(Analyzers)
  <2>1. BusyOnes' \in SUBSET Analyzers /\ DoneOnes' \in SUBSET Analyzers
    BY DEF BusyOnes, DoneOnes
  <2>2. QED
    BY <2>1, CrewFinite, InputFacts, FS_Subset, FS_CardinalityType
<1>4. CASE TakeFile(w) /\ idx <= Len(Inputs)
  <2>1. /\ at[w] = "idle" /\ at' = [at EXCEPT ![w] = "check"] /\ idx' = idx + 1
        /\ UNCHANGED <<count, output_files>>
    BY <1>4 DEF TakeFile, Step
  <2>2. /\ Cardinality(BusyOnes)' = Cardinality(BusyOnes) + 1
        /\ Cardinality(DoneOnes)' = Cardinality(DoneOnes)
    <3>1. "check" \notin {"idle", "done"} /\ at[w] # "done"
      BY <2>1
    <3>2. QED
      BY <1>1, <2>1, <3>1, CrewChanges
  <2>3. TakenFiles' = TakenFiles + 1 /\ idx' \in Nat /\ idx' <= Len(Inputs) + 1
    BY <1>1, <1>2, <1>4, <2>1 DEF TakenFiles
  <2>4. Counted' = Counted /\ Counted \in Nat /\ TakenFiles \in Nat
    BY <1>1, <1>2, <2>1 DEF Counted, TakenFiles
  <2>5. CountInv'
    BY <1>2, <1>3, <2>1, <2>2, <2>3, <2>4 DEF CountInv
  <2>6. QED
    BY <1>1, <1>2, <2>1, <2>3, <2>5 DEF CountTypes, AnalyzerTypeOK
<1>5. CASE TakeFile(w) /\ ~ (idx <= Len(Inputs))
  <2>1. /\ at[w] = "idle" /\ at' = [at EXCEPT ![w] = "done"] /\ idx' = idx + 1
        /\ UNCHANGED <<count, output_files>>
    BY <1>5 DEF TakeFile, Step
  <2>2. /\ Cardinality(BusyOnes)' = Cardinality(BusyOnes)
        /\ Cardinality(DoneOnes)' = Cardinality(DoneOnes) + 1
    BY <1>1, <2>1, CrewChanges
  <2>3. TakenFiles' = TakenFiles /\ Counted' = Counted /\ idx' \in Nat
    BY <1>1, <1>2, <1>5, <2>1 DEF TakenFiles, Counted
  <2>4. idx' <= Len(Inputs) + 1 + Cardinality(DoneOnes)'
    BY <1>1, <1>2, <1>3, <2>1, <2>2 DEF CountInv
  <2>5. CountInv'
    BY <2>1, <2>2, <2>3, <2>4 DEF CountInv
  <2>6. idx' \in 1 .. Len(Inputs) + Cardinality(Analyzers) + 1
    BY <1>1, <1>2, <1>3, <2>1, <2>4
  <2>7. QED
    BY <1>1, <2>1, <2>5, <2>6 DEF CountTypes, AnalyzerTypeOK
<1>6. CASE GoesOn(w)
  <2>1. PICK to \in {"call", "combine", "open", "write", "rename", "remove"} :
            at' = [at EXCEPT ![w] = to]
    BY <1>6 DEF GoesOn
  <2>2. /\ Cardinality(BusyOnes)' = Cardinality(BusyOnes)
        /\ Cardinality(DoneOnes)' = Cardinality(DoneOnes)
    BY <1>1, <1>6, <2>1, CrewChanges DEF GoesOn, Busy
  <2>3. QED
    BY <1>1, <1>6, <2>2 DEF GoesOn, CountInv, CountTypes, Counted, TakenFiles, AnalyzerTypeOK
<1>7. ASSUME NEW outcome \in {"analyzed", "failed", "skipped"}, Ends(w, outcome)
      PROVE  CountInv' /\ CountTypes'
  <2>1. /\ Cardinality(BusyOnes)' = Cardinality(BusyOnes) - 1
        /\ Cardinality(DoneOnes)' = Cardinality(DoneOnes)
    BY <1>1, <1>7, CrewChanges DEF Ends, Busy
  <2>2. /\ count' \in [{"analyzed", "failed", "skipped"} -> Nat] /\ idx' = idx
        /\ Counted' = Counted + 1 /\ Counted \in Nat
    <3>1. \A o \in {"analyzed", "failed", "skipped"} :
              count'[o] = IF o = outcome THEN count[o] + 1 ELSE count[o]
      BY <1>1, <1>7 DEF Ends
    <3>2. \A o \in {"analyzed", "failed", "skipped"} : count[o] \in Nat
      BY <1>1
    <3>3. count' \in [{"analyzed", "failed", "skipped"} -> Nat] /\ idx' = idx
      <4>1. count' = [count EXCEPT ![outcome] = @ + 1] /\ idx' = idx
        BY <1>7 DEF Ends
      <4>2. QED
        BY <1>1, <3>2, <4>1
    <3>4. Counted \in Nat
      BY <3>2 DEF Counted
    <3>5. Counted' = Counted + 1
      <4>1. CASE outcome = "analyzed"
        BY <3>1, <3>2, <4>1 DEF Counted
      <4>2. CASE outcome = "failed"
        BY <3>1, <3>2, <4>2 DEF Counted
      <4>3. CASE outcome = "skipped"
        BY <3>1, <3>2, <4>3 DEF Counted
      <4>4. QED
        BY <4>1, <4>2, <4>3
    <3>6. QED
      BY <3>3, <3>4, <3>5
  <2>3. TakenFiles' = TakenFiles /\ TakenFiles \in Nat /\ TakenFiles <= Len(Inputs)
    BY <1>1, <1>2, <2>2 DEF TakenFiles
  <2>4. Counted' + Cardinality(BusyOnes)' = TakenFiles'
    BY <1>3, <2>1, <2>2, <2>3 DEF CountInv
  <2>5. Len(output_files') = count'.analyzed /\ output_files' \in Seq(Stems)
    <3>1. S(w) \in Stems
      BY <1>7, BusyHasFile DEF Ends
    <3>2. CASE outcome = "analyzed"
      <4>1. output_files' = Append(output_files, S(w)) /\ count'.analyzed = count.analyzed + 1
        BY <1>1, <1>7, <3>2 DEF Ends
      <4>2. /\ Append(output_files, S(w)) \in Seq(Stems)
            /\ Len(Append(output_files, S(w))) = Len(output_files) + 1
        BY <1>1, <3>1, AppendProperties
      <4>3. Len(output_files) = count.analyzed
        BY DEF CountInv
      <4>4. QED
        BY <4>1, <4>2, <4>3
    <3>3. CASE outcome # "analyzed"
      <4>1. output_files' = output_files /\ count'.analyzed = count.analyzed
        BY <1>1, <1>7, <3>3 DEF Ends
      <4>2. QED
        BY <1>1, <4>1 DEF CountInv
    <3>4. QED
      BY <3>2, <3>3
  <2>6. count' \in [{"analyzed", "failed", "skipped"} -> 0 .. Len(Inputs)]
    <3>1. Counted' <= Len(Inputs)
      BY <1>2, <1>3, <2>2, <2>3, <2>4
    <3>2. \A o \in {"analyzed", "failed", "skipped"} : count'[o] <= Len(Inputs) /\ count'[o] \in Nat
      BY <1>2, <2>2, <3>1 DEF Counted
    <3>3. QED
      BY <1>2, <2>2, <3>2
  <2>7. QED
    BY <1>1, <2>1, <2>2, <2>4, <2>5, <2>6 DEF CountInv, CountTypes, AnalyzerTypeOK
<1>8. QED
  BY <1>4, <1>5, <1>6, <1>7, WorkerCounts

LEMMA WorkerKeepsTypes ==
    ASSUME AnalyzerInv, NEW w \in Analyzers, TakeFile(w) \/ processFile(w),
           UNCHANGED <<analyzer, llm, report, llm_status>>
    PROVE  AnalyzerTypeOK'
<1> USE DEF AnalyzerInv
<1>1. CountTypes' /\ AnalyzerTypeOK
  BY WorkerKeepsCounts
<1>2. Busy(w) => file[w] \in Files /\ S(w) \in Stems
  BY BusyHasFile
<1>3. /\ at' \in [Analyzers -> {"idle", "check", "call", "combine", "open", "write",
                              "rename", "remove", "done"}]
      /\ file' \in [Analyzers -> Files \cup {Absent}]
  <2>1. CASE TakeFile(w)
    BY <1>1, <2>1, InputFacts DEF TakeFile, Step, AnalyzerTypeOK
  <2>2. CASE ~ TakeFile(w)
    BY <1>1, <2>2, WorkerCounts, WorkerMoves DEF GoesOn, Ends, AnalyzerTypeOK
  <2>3. QED
    BY <2>1, <2>2
<1>4. segment' \in [Analyzers -> Nat] /\ text' \in [Analyzers -> {"cut", "whole"}]
  <2>1. \A a, b : Worse(a, b) \in {"cut", "whole"}
    BY DEF Worse
  <2>2. segment \in [Analyzers -> Nat] /\ text \in [Analyzers -> {"cut", "whole"}]
    BY <1>1 DEF AnalyzerTypeOK
  <2>3. CASE TakeFile(w)
    BY <2>2, <2>3 DEF TakeFile
  <2>4. CASE Analyse(w)
    BY <2>1, <2>2, <2>4 DEF Analyse
  <2>5. CASE Combine(w)
    BY <2>1, <2>2, <2>5 DEF Combine
  <2>6. CASE ~ (TakeFile(w) \/ Analyse(w) \/ Combine(w))
    BY <2>2, <2>6 DEF processFile, SkipFile, ReadFile, OpenTmp, WriteTmp, RenameTmp, RenameFails, RemoveTmp
  <2>7. QED
    BY <2>3, <2>4, <2>5, <2>6
<1>5. /\ ofs' \in [Analyzers -> Files \cup {Absent}] /\ tmp' \in [Stems -> Files \cup {Absent}]
      /\ out' \in [Stems -> Files \cup {Absent, Old}]
      /\ data' \in [Files \cup {Old} -> SUBSET (Files \cup {Old, Cut})]
  <2>1. CASE TakeFile(w) \/ SkipFile(w) \/ ReadFile(w) \/ Analyse(w) \/ Combine(w) \/ RenameFails(w)
    BY <1>1, <2>1 DEF TakeFile, SkipFile, ReadFile, Analyse, Combine, RenameFails, llmDisk,
                      AnalyzerTypeOK
  <2>2. CASE OpenTmp(w)
    <3>1. Busy(w)
      BY <2>2 DEF OpenTmp, Counts, Step, Busy
    <3>2. CASE UNCHANGED <<ofs, tmp, data>>
      BY <1>1, <2>2, <3>2 DEF OpenTmp, AnalyzerTypeOK
    <3>3. CASE Step(w, "open", "write")
      <4>1. out' = out /\ ofs' \in [Analyzers -> Files \cup {Absent}] /\ ofs'[w] \in Files
        BY <1>1, <1>2, <2>2, <3>1, <3>3 DEF OpenTmp, Step, Counts, AnalyzerTypeOK
      <4>2. tmp' = [tmp EXCEPT ![S(w)] = ofs'[w]] /\ data' = [data EXCEPT ![ofs'[w]] = {}]
        BY <1>1, <2>2, <3>3 DEF OpenTmp, Step, Counts, AnalyzerTypeOK
      <4>3. QED
        BY <1>1, <4>1, <4>2 DEF AnalyzerTypeOK
    <3>4. QED
      BY <2>2, <3>2, <3>3 DEF OpenTmp
  <2>3. CASE WriteTmp(w)
    <3>1. Busy(w)
      BY <2>3 DEF WriteTmp, Step, Busy
    <3>2. UNCHANGED <<ofs, tmp, out>>
      BY <2>3 DEF WriteTmp
    <3>3. data' \in [Files \cup {Old} -> SUBSET (Files \cup {Old, Cut})]
      BY <1>1, <1>2, <2>3, <3>1 DEF WriteTmp, AnalyzerTypeOK
    <3>5. QED
      BY <1>1, <3>2, <3>3 DEF AnalyzerTypeOK
  <2>4. CASE RenameTmp(w) \/ RemoveTmp(w)
    <3>1. Busy(w)
      BY <2>4 DEF RenameTmp, RemoveTmp, Counts, Step, Busy
    <3>2. QED
      BY <1>1, <1>2, <2>4, <3>1 DEF RenameTmp, RemoveTmp, AnalyzerTypeOK
  <2>5. QED
    BY <2>1, <2>2, <2>3, <2>4 DEF processFile
<1>6. QED
  BY <1>1, <1>3, <1>4, <1>5 DEF CountTypes, AnalyzerTypeOK

(* The steps that leave the disk alone.                                     *)
Aside(w) == \/ TakeFile(w) \/ SkipFile(w) \/ ReadFile(w) \/ Analyse(w) \/ Combine(w)
            \/ OpenTmp(w) /\ ~ Step(w, "open", "write")
            \/ RenameFails(w)

LEMMA AsideKeepsDisk ==
    ASSUME AnalyzerInv, NEW w \in Analyzers, Aside(w), UNCHANGED llm
    PROVE  TmpInv' /\ InodeInv' /\ OutputInv' /\ ReportInv'
<1> USE DEF AnalyzerInv
<1>1. /\ UNCHANGED <<out, tmp, data, ofs, output_files>> /\ at[w] # "write" /\ at'[w] # "write"
      /\ at[w] \in {"rename", "remove"} => at'[w] = "remove" /\ file'[w] = file[w]
  BY DEF Aside, TakeFile, SkipFile, ReadFile, Analyse, Combine, OpenTmp, RenameFails, Counts, Step, llmDisk,
         AnalyzerTypeOK
<1>2. \A x \in Analyzers : x # w => at'[x] = at[x] /\ file'[x] = file[x]
  BY WorkerMoves DEF Aside, processFile
<1>3. TmpInv'
  BY <1>1, <1>2 DEF TmpInv
<1>4. InodeInv'
  <2>1. \A x \in Analyzers : at'[x] = "write" <=> at[x] = "write"
    BY <1>1, <1>2
  <2>2. \A x \in Analyzers : at[x] = "write" => file'[x] = file[x]
    BY <1>1, <1>2
  <2>3. QED
    BY <1>1, <2>1, <2>2 DEF InodeInv
<1>5. OutputInv'
  <2>1. CASE TakeFile(w)
    <3>1. idx \in Nat /\ idx' = idx + 1
      BY <2>1, InputFacts DEF TakeFile, AnalyzerTypeOK
    <3>2. \A x \in Analyzers : Busy(x)' =>
              \/ file'[x] = Inputs[idx] /\ idx <= Len(Inputs)
              \/ Busy(x) /\ file'[x] = file[x]
      BY <1>2, <2>1 DEF TakeFile, Step, Busy, AnalyzerTypeOK
    <3>3. QED
      BY <1>1, <3>1, <3>2, InputFacts DEF OutputInv
  <2>2. CASE ~ TakeFile(w)
    <3>1. file' = file /\ idx' = idx /\ \A x \in Analyzers : Busy(x)' => Busy(x)
      BY <1>2, <2>2, WorkerMoves DEF Busy, Aside, processFile
    <3>2. QED
      BY <1>1, <3>1 DEF OutputInv
  <2>3. QED
    BY <2>1, <2>2
<1>6. ReportInv'
  BY <1>1 DEF ReportInv
<1>7. QED
  BY <1>3, <1>4, <1>5, <1>6

LEMMA OpenKeepsDisk ==
    ASSUME AnalyzerInv, NEW w \in Analyzers, OpenTmp(w), Step(w, "open", "write"), UNCHANGED llm
    PROVE  TmpInv' /\ InodeInv' /\ OutputInv' /\ ReportInv'
<1> USE DEF AnalyzerInv
<1>1. /\ Busy(w) /\ at[w] = "open" /\ at'[w] = "write"
      /\ UNCHANGED <<idx, file, out, output_files>>
      /\ \A x \in Analyzers : x # w => at'[x] = at[x] /\ ofs'[x] = ofs[x]
  BY WorkerMoves DEF OpenTmp, Step, Counts, Busy, processFile, AnalyzerTypeOK
<1>2. file[w] \in Files /\ S(w) \in Stems /\ S(w) = Stem[file[w]] /\ AnalyzerTypeOK
  BY <1>1, BusyHasFile
<1>3. PICK i \in Files : i = ofs'[w] /\ Stem[i] = S(w)
  BY <1>1, <1>2 DEF OpenTmp, Step, Counts, AnalyzerTypeOK, InodeInv
<1>4. /\ tmp'[S(w)] = i /\ \A s \in Stems : s # S(w) => tmp'[s] = tmp[s]
      /\ data'[i] = {} /\ \A j \in Files : j # i => data'[j] = data[j]
  <2>1. tmp' = [tmp EXCEPT ![S(w)] = i] /\ data' = [data EXCEPT ![i] = {}]
    BY <1>1, <1>3 DEF OpenTmp, Step, Counts
  <2>2. QED
    BY <1>2, <2>1 DEF AnalyzerTypeOK
<1>5. TmpInv'
  BY <1>1, <1>2, <1>4 DEF TmpInv
<1>6. InodeInv'
  <2>1. \A s \in Stems : /\ tmp'[s] # Absent => Stem[tmp'[s]] = s
                         /\ out'[s] \notin {Absent, Old} => Stem[out'[s]] = s
    BY <1>1, <1>3, <1>4 DEF InodeInv
  <2>2. \A x \in Analyzers :
            at'[x] = "write" => ofs'[x] \in Files /\ Stem[ofs'[x]] = Stem[file'[x]]
    BY <1>1, <1>2, <1>3 DEF InodeInv
  <2>3. \A j \in Files : data'[j] \ {Cut} \subseteq Sources(Stem[j])
    BY <1>4 DEF InodeInv
  <2>4. ASSUME ~ llm.disk_full, NEW s \in Stems, NEW j \in Files \cap {tmp'[s], out'[s]}
        PROVE  \/ data'[j] \ {Cut} # {}
               \/ \E x \in Analyzers : at'[x] = "write" /\ ofs'[x] = j
    <3>1. CASE j = i
      BY <1>1, <1>3, <3>1
    <3>2. CASE j # i
      <4>1. j \in Files \cap {tmp[s], out[s]} /\ data'[j] = data[j]
        BY <1>1, <1>4, <2>4, <3>2
      <4>2. QED
        BY <1>1, <2>4, <4>1 DEF InodeInv
    <3>3. QED
      BY <3>1, <3>2
  <2>5. QED
    BY <2>1, <2>2, <2>3, <2>4 DEF InodeInv, Sources
<1>7. OutputInv' /\ ReportInv'
  <2>1. \A x \in Analyzers : Busy(x)' => Busy(x)
    BY <1>1 DEF Busy
  <2>2. QED
    BY <1>1, <2>1 DEF OutputInv, ReportInv, Sources
<1>8. QED
  BY <1>5, <1>6, <1>7

LEMMA WriteKeepsDisk ==
    ASSUME AnalyzerInv, NEW w \in Analyzers, WriteTmp(w), UNCHANGED llm
    PROVE  TmpInv' /\ InodeInv' /\ OutputInv' /\ ReportInv'
<1> USE DEF AnalyzerInv
<1>1. /\ Busy(w) /\ at[w] = "write" /\ at'[w] = "rename"
      /\ UNCHANGED <<idx, file, ofs, out, tmp, output_files>>
      /\ \A x \in Analyzers : x # w => at'[x] = at[x]
  BY DEF WriteTmp, Step, Busy, AnalyzerTypeOK
<1>2. /\ file[w] \in Files /\ ofs[w] \in Files /\ Stem[ofs[w]] = Stem[file[w]] /\ AnalyzerTypeOK
      /\ file[w] # Cut
  BY <1>1, BusyHasFile, InputFacts DEF InodeInv
<1>3. /\ \A j \in Files : j # ofs[w] => data'[j] = data[j]
      /\ data'[ofs[w]] \ {Cut} \subseteq data[ofs[w]] \cup {file[w]}
      /\ ~ llm.disk_full => file[w] \in data'[ofs[w]]
  BY <1>2 DEF WriteTmp, AnalyzerTypeOK
<1>4. TmpInv'
  BY <1>1 DEF TmpInv
<1>5. InodeInv'
  <2>1. /\ \A s \in Stems : /\ tmp'[s] # Absent => Stem[tmp'[s]] = s
                            /\ out'[s] \notin {Absent, Old} => Stem[out'[s]] = s
        /\ \A x \in Analyzers :
              at'[x] = "write" => ofs'[x] \in Files /\ Stem[ofs'[x]] = Stem[file'[x]]
    BY <1>1 DEF InodeInv
  <2>2. \A j \in Files : data'[j] \ {Cut} \subseteq Sources(Stem[j])
    <3>1. file[w] \in Sources(Stem[ofs[w]])
      BY <1>2 DEF Sources
    <3>2. QED
      BY <1>3, <3>1 DEF InodeInv
  <2>3. ASSUME ~ llm.disk_full, NEW s \in Stems, NEW j \in Files \cap {tmp'[s], out'[s]}
        PROVE  \/ data'[j] \ {Cut} # {}
               \/ \E x \in Analyzers : at'[x] = "write" /\ ofs'[x] = j
    BY <1>1, <1>2, <1>3, <2>3 DEF InodeInv
  <2>4. QED
    BY <2>1, <2>2, <2>3 DEF InodeInv, Sources
<1>6. OutputInv' /\ ReportInv'
  <2>1. \A x \in Analyzers : Busy(x)' => Busy(x)
    BY <1>1 DEF Busy
  <2>2. QED
    BY <1>1, <2>1 DEF OutputInv, ReportInv, Sources
<1>7. QED
  BY <1>4, <1>5, <1>6

LEMMA RenameKeepsDisk ==
    ASSUME AnalyzerInv, NEW w \in Analyzers, RenameTmp(w), UNCHANGED llm
    PROVE  TmpInv' /\ InodeInv' /\ OutputInv' /\ ReportInv'
<1> USE DEF AnalyzerInv
<1>1. /\ Busy(w) /\ at[w] = "rename" /\ at'[w] = "idle" /\ tmp[S(w)] # Absent
      /\ UNCHANGED <<idx, file, ofs, data>> /\ output_files' = Append(output_files, S(w))
      /\ \A x \in Analyzers : x # w => at'[x] = at[x]
      /\ out' = [out EXCEPT ![S(w)] = tmp[S(w)]] /\ tmp' = [tmp EXCEPT ![S(w)] = Absent]
  BY DEF RenameTmp, Counts, Step, Busy, AnalyzerTypeOK
<1>2. file[w] \in Files /\ S(w) \in Stems /\ S(w) = Stem[file[w]] /\ AnalyzerTypeOK
  BY <1>1, BusyHasFile
<1>3. /\ tmp'[S(w)] = Absent /\ \A s \in Stems : s # S(w) => tmp'[s] = tmp[s]
      /\ out'[S(w)] = tmp[S(w)] /\ \A s \in Stems : s # S(w) => out'[s] = out[s]
      /\ tmp[S(w)] \in Files
  BY <1>1, <1>2 DEF AnalyzerTypeOK
<1>4. TmpInv'
  BY <1>1, <1>2, <1>3 DEF TmpInv
<1>5. \A x \in Analyzers : Busy(x)' => Busy(x) /\ x # w
  BY <1>1 DEF Busy
<1>6. InodeInv'
  <2>1. /\ \A s \in Stems : /\ tmp'[s] # Absent => Stem[tmp'[s]] = s
                            /\ out'[s] \notin {Absent, Old} => Stem[out'[s]] = s
        /\ \A x \in Analyzers :
              at'[x] = "write" => ofs'[x] \in Files /\ Stem[ofs'[x]] = Stem[file'[x]]
        /\ \A j \in Files : data'[j] \ {Cut} \subseteq Sources(Stem[j])
    BY <1>1, <1>3 DEF InodeInv
  <2>2. ASSUME ~ llm.disk_full, NEW s \in Stems, NEW j \in Files \cap {tmp'[s], out'[s]}
        PROVE  \/ data'[j] \ {Cut} # {}
               \/ \E x \in Analyzers : at'[x] = "write" /\ ofs'[x] = j
    <3>1. j \in Files \cap {tmp[s], out[s]}
      BY <1>3, <2>2, InputFacts
    <3>2. QED
      BY <1>1, <2>2, <3>1 DEF InodeInv
  <2>3. QED
    BY <2>1, <2>2 DEF InodeInv, Sources
<1>7. OutputInv'
  <2> SUFFICES ASSUME NEW f \in Files, Sources(Stem[f]) = {f}, out'[Stem[f]] = f
               PROVE  /\ \E i \in DOMAIN Inputs : i < idx /\ Inputs[i] = f
                      /\ \A x \in Analyzers : Busy(x)' => file[x] # f
    BY <1>1 DEF OutputInv, Sources
  <2>1. CASE Stem[f] # S(w)
    BY <1>3, <1>5, <2>1, InputFacts DEF OutputInv
  <2>2. CASE Stem[f] = S(w)
    <3>1. file[w] = f
      BY <1>2, <2>2 DEF Sources
    <3>2. QED
      BY <1>1, <1>5, <3>1 DEF ShareInv
  <2>3. QED
    BY <2>1, <2>2
<1>8. ReportInv'
  <2>1. \A k \in DOMAIN output_files' :
            \/ output_files'[k] = S(w)
            \/ k \in DOMAIN output_files /\ output_files'[k] = output_files[k]
    BY <1>1, <1>2 DEF AnalyzerTypeOK
  <2>2. \A k \in DOMAIN output_files : output_files[k] \in Stems
    BY <1>2 DEF AnalyzerTypeOK
  <2>3. QED
    BY <1>1, <1>3, <2>1, <2>2 DEF ReportInv
<1>9. QED
  BY <1>4, <1>6, <1>7, <1>8

LEMMA RemoveKeepsDisk ==
    ASSUME AnalyzerInv, NEW w \in Analyzers, RemoveTmp(w), UNCHANGED llm
    PROVE  TmpInv' /\ InodeInv' /\ OutputInv' /\ ReportInv'
<1> USE DEF AnalyzerInv
<1>1. /\ Busy(w) /\ at[w] = "remove" /\ at'[w] = "idle" 
      /\ tmp' = [tmp EXCEPT ![S(w)] = Absent] \/ (llm.tmp_stays /\ tmp' = tmp)
      /\ UNCHANGED <<idx, file, ofs, data, out, output_files>>
      /\ \A x \in Analyzers : x # w => at'[x] = at[x]
  BY DEF RemoveTmp, Counts, Step, Busy, AnalyzerTypeOK
<1>2. S(w) \in Stems /\ S(w) = Stem[file[w]] /\ AnalyzerTypeOK
  BY <1>1, BusyHasFile
<1>3. /\ tmp'[S(w)] = Absent \/ llm.tmp_stays
      /\ \A s \in Stems : tmp'[s] = tmp[s] \/ tmp'[s] = Absent
      /\ \A s \in Stems : s # S(w) => tmp'[s] = tmp[s]
  BY <1>1, <1>2 DEF AnalyzerTypeOK
<1>4. TmpInv'
  BY <1>1, <1>2, <1>3 DEF TmpInv
<1>5. InodeInv'
  <2>1. /\ \A s \in Stems : /\ tmp'[s] # Absent => Stem[tmp'[s]] = s
                            /\ out'[s] \notin {Absent, Old} => Stem[out'[s]] = s
        /\ \A x \in Analyzers :
              at'[x] = "write" => ofs'[x] \in Files /\ Stem[ofs'[x]] = Stem[file'[x]]
        /\ \A j \in Files : data'[j] \ {Cut} \subseteq Sources(Stem[j])
    BY <1>1, <1>3 DEF InodeInv
  <2>2. ASSUME ~ llm.disk_full, NEW s \in Stems, NEW j \in Files \cap {tmp'[s], out'[s]}
        PROVE  \/ data'[j] \ {Cut} # {}
               \/ \E x \in Analyzers : at'[x] = "write" /\ ofs'[x] = j
    <3>1. j \in Files \cap {tmp[s], out[s]}
      BY <1>1, <1>3, <2>2, InputFacts
    <3>2. QED
      BY <1>1, <2>2, <3>1 DEF InodeInv
  <2>3. QED
    BY <2>1, <2>2 DEF InodeInv, Sources
<1>6. OutputInv' /\ ReportInv'
  <2>1. \A x \in Analyzers : Busy(x)' => Busy(x)
    BY <1>1 DEF Busy
  <2>2. QED
    BY <1>1, <2>1 DEF OutputInv, ReportInv, Sources
<1>7. QED
  BY <1>4, <1>5, <1>6

LEMMA AnalyzerKeepsInv == AnalyzerInv /\ AnalyzerStep => AnalyzerInv'
<1> SUFFICES ASSUME AnalyzerInv, AnalyzerStep PROVE AnalyzerInv'
  OBVIOUS
<1>1. CASE Refuse \/ CollectFiles \/ Joined \/ MergeOutput \/ Finish
  BY <1>1, PhaseStepIsSafe
<1>2. ASSUME NEW w \in Analyzers, TakeFile(w) \/ processFile(w),
             UNCHANGED <<analyzer, llm, report, llm_status>>
      PROVE  AnalyzerInv'
  <2>1. AnalyzerTypeOK' /\ PhaseInv' /\ ShareInv' /\ CountInv'
    BY <1>2, WorkerKeepsTypes, WorkerKeepsPhase, WorkerKeepsShare, WorkerKeepsCounts
  <2>2. TmpInv' /\ InodeInv' /\ OutputInv' /\ ReportInv'
    BY <1>2, AsideKeepsDisk, OpenKeepsDisk, WriteKeepsDisk, RenameKeepsDisk, RemoveKeepsDisk
       DEF processFile, Aside
  <2>3. QED
    BY <1>2, <2>1, <2>2 DEF AnalyzerInv
<1>3. QED
  BY <1>1, <1>2 DEF AnalyzerStep

(* What the properties say of any state in which the invariant holds.       *)
LEMMA AnalyzerIsSafe == AnalyzerInv => CountsAddUp /\ NoTmpLeft /\ OutputsWhole
<1> SUFFICES ASSUME AnalyzerInv PROVE CountsAddUp /\ NoTmpLeft /\ OutputsWhole
  OBVIOUS
<1> USE DEF AnalyzerInv
<1>1. CountsAddUp
  <2> SUFFICES ASSUME analyzer \in {"merge", "finish"}
               PROVE  /\ count.analyzed + count.failed + count.skipped = Len(Inputs)
                      /\ Len(output_files) = count.analyzed
    BY DEF CountsAddUp
  <2>1. \A w \in Analyzers : at[w] = "done"
    BY DEF PhaseInv
  <2>2. BusyOnes = {} /\ Cardinality({}) = 0
    BY <2>1, FS_EmptySet DEF BusyOnes, Busy
  <2>3. TakenFiles = Len(Inputs)
    <3>1. idx > Len(Inputs) /\ idx \in Nat
      BY <2>1, InputFacts DEF ShareInv, AnalyzerTypeOK
    <3>2. QED
      BY <3>1, InputFacts DEF TakenFiles
  <2>4. Counted \in Nat
    BY InputFacts DEF Counted, AnalyzerTypeOK
  <2>5. QED
    BY <2>2, <2>3, <2>4 DEF CountInv, Counted
<1>2. NoTmpLeft
  BY DEF NoTmpLeft, TmpInv, PhaseInv
<1>3. OutputsWhole
  <2> SUFFICES ASSUME ~ llm.disk_full, NEW s \in Stems, out[s] \notin {Absent, Old}
               PROVE  /\ \A f \in Files : Sources(s) = {f} => data[out[s]] \ {Cut} = {f}
                      /\ analyzer \notin {"collect", "run"} =>
                            /\ data[out[s]] \ {Cut} # {}
                            /\ data[out[s]] \ {Cut} \subseteq Sources(s)
    BY DEF OutputsWhole
  <2>1. out[s] \in Files /\ Stem[out[s]] = s /\ data[out[s]] \ {Cut} \subseteq Sources(s)
    BY DEF AnalyzerTypeOK, InodeInv
  <2>2. ASSUME data[out[s]] \ {Cut} = {}
        PROVE  \E w \in Analyzers : at[w] = "write" /\ ofs[w] = out[s] /\ Stem[file[w]] = s
    BY <2>1, <2>2 DEF InodeInv
  <2>3. ASSUME NEW f \in Files, Sources(s) = {f} PROVE data[out[s]] \ {Cut} = {f}
    <3>1. out[s] = f
      BY <2>1, <2>3 DEF Sources
    <3>2. \A w \in Analyzers : Busy(w) => file[w] # f
      BY <2>1, <2>3, <3>1 DEF OutputInv
    <3>3. \A w \in Analyzers : Busy(w) /\ Stem[file[w]] = s => file[w] = f
      BY <2>3, BusyHasFile DEF Sources
    <3>4. data[out[s]] \ {Cut} # {}
      BY <2>2, <3>2, <3>3 DEF Busy
    <3>5. QED
      BY <2>1, <2>3, <3>4
  <2>4. ASSUME analyzer \notin {"collect", "run"} PROVE data[out[s]] \ {Cut} # {}
    BY <2>2, <2>4 DEF PhaseInv, AnalyzerTypeOK, Busy
  <2>5. QED
    BY <2>1, <2>3, <2>4
<1>4. QED
  BY <1>1, <1>2, <1>3

-----------------------------------------------------------------------------
(* The editor: a worker's program, its place in the work, what is left.     *)
RunInv ==
    /\ RCTypeOK /\ HoldersWillClose
    /\ \A w \in Workers : /\ rc[w] \in {"idle", "pipes"} <=> child[w] = "none"
                          /\ code[w] = "ok" => child[w] \in {"closed", "exited"}

EditCommand == [kind : Kinds, out : Outputs]
Editing(w) == est[w] \notin {"idle", "done"}
Pending    == {x \in Commands :
                  \/ x[1] >= file_idx
                  \/ \E w \in Workers : Editing(w) /\ job[w] = x[1] /\ cmd[w] <= x[2]}
Handled    == ecount.executed + ecount.failed + ecount.skipped

WorkTypes ==
    /\ work \in Seq(Seq(EditCommand)) /\ \A i \in DOMAIN work : work[i] # <<>>
    /\ aed \in [overwrite : BOOLEAN, dry_run : BOOLEAN] /\ unclean \in BOOLEAN
    /\ job \in [Workers -> Nat] /\ cmd \in [Workers -> Nat]
    /\ reads \in [Workers -> SUBSET (1 .. Len(work))]
    /\ ecount \in [{"executed", "failed", "skipped"} -> Nat]

(* Before the node starts and after it ends nobody is at work.              *)
NodeInv ==
    /\ editor # "run" => \A w \in Workers : ~ Editing(w)
    /\ editor = "idle" => /\ work = <<>> /\ file_idx = 1 /\ Handled = 0
                          /\ \A w \in Workers : est[w] = "idle"
                          /\ \A t \in Temps : temp[t] = 0
    /\ editor = "ended" => work = <<>> \/ \A w \in Workers : est[w] = "done"

(* A worker has a file that was taken and that no other worker has; it runs *)
(* a program for a command that needs one.                                  *)
JobInv ==
    /\ \A w \in Workers : Editing(w) => job[w] < file_idx
    /\ \A w, v \in Workers : Editing(w) /\ Editing(v) /\ job[w] = job[v] => w = v
    /\ \A w \in Workers : est[w] = "done" => file_idx > Len(work)
    /\ \A w \in Workers : /\ rc[w] # "idle" => est[w] \in Programs /\ ~aed.dry_run
                          /\ child[w] = "none" => reads[w] = {}
                          /\ est[w] \in {"generate", "list"} => C(w).kind = "silence"

TallyInv == Handled + Cardinality(Pending) = Cardinality(Commands)

(* Who will remove a temporary file.                                        *)
WillRemove(t, w) ==
    \/ est[w] = "encode" /\ t \in InputsOf(C(w))
    \/ est[w] \in {"generate", "list"} /\ t = "silence"
TempInv == ~unclean => \A t \in Temps : temp[t] # 0 => \E w \in Workers : WillRemove(t, w)

(* When the commands do not get in each other's way: a file in use is of    *)
(* the one who uses it, and what has been executed is whole.                *)
OneEach ==
    /\ aed.overwrite /\ ~aed.dry_run
    /\ \A x, y \in Commands : OutOf(x) = OutOf(y) => x = y
    /\ \A i, j \in DOMAIN work : Sharing(i) /\ Sharing(j) => i = j
EditInv ==
    OneEach =>
        /\ \A t \in Temps : temp[t] # 0 => Sharing(temp[t])
        /\ \A w \in Workers : est[w] = "encode" =>
              /\ child[w] = "running" /\ reads[w] # {} =>
                     audio[C(w).out] = {Partial} /\ reads[w] = {job[w]}
              /\ code[w] = "ok" => audio[C(w).out] = {job[w]}
        /\ ecount.failed = 0 => \A x \in Commands \ Pending : audio[OutOf(x)] = {x[1]}

(* The status is what the counts say.                                       *)
StatusInv == editor = "ended" /\ aed_status = "success" => ecount.failed = 0

EditorInv ==
    /\ RunInv /\ EditorTypeOK /\ WorkTypes /\ NodeInv /\ JobInv /\ TallyInv /\ TempInv /\ EditInv
    /\ StatusInv

LEMMA RunKeepsInv ==
    ASSUME RunInv, NEW w \in Workers,
           \/ Pipes(w) \/ Fork(w) \/ CloseWrites(w) \/ EndOfStream(w) \/ ChildExits(w)
           \/ \E outcome \in {"ok", "failed"} : ChildCloses(w, outcome) \/ Returns(w, outcome)
    PROVE  RunInv'
<1> USE ParentAssumption DEF RunInv
<1>1. CASE Pipes(w)
  BY <1>1 DEF Pipes, At, RCTypeOK, HoldersWillClose
<1>2. CASE Fork(w)
  <2>1. /\ rc[w] = "pipes" /\ rc' = [rc EXCEPT ![w] = "forked"] /\ child[w] = "none"
        /\ child' = [child EXCEPT ![w] = "running"] /\ UNCHANGED <<code, verbose>>
    BY <1>2 DEF Fork, At
  <2>2. \A v \in Workers : holders'[v] = holders[v] \/ holders'[v] = holders[v] \cup {w}
    BY <1>2 DEF Fork
  <2>3. holders' \in [Workers -> SUBSET (Workers \cup {Parent})]
    BY <1>2 DEF Fork, RCTypeOK
  <2>4. RCTypeOK'
    BY <2>1, <2>3 DEF RCTypeOK
  <2>5. HoldersWillClose'
    BY <2>1, <2>2 DEF HoldersWillClose, RCTypeOK
  <2>6. QED
    BY <2>1, <2>4, <2>5 DEF RCTypeOK
<1>3. CASE CloseWrites(w)
  BY <1>3 DEF CloseWrites, At, RCTypeOK, HoldersWillClose
<1>4. CASE EndOfStream(w)
  BY <1>4 DEF EndOfStream, At, RCTypeOK, HoldersWillClose
<1>5. CASE ChildExits(w)
  BY <1>5 DEF ChildExits, RCTypeOK, HoldersWillClose
<1>6. ASSUME NEW outcome \in {"ok", "failed"}, ChildCloses(w, outcome) PROVE RunInv'
  <2>1. /\ child[w] = "running" /\ child' = [child EXCEPT ![w] = "closed"]
        /\ code' = [code EXCEPT ![w] = outcome] /\ UNCHANGED <<rc, verbose>>
        /\ holders' = [v \in Workers |-> holders[v] \ {w}]
    BY <1>6 DEF ChildCloses
  <2>2. RCTypeOK'
    BY <2>1 DEF RCTypeOK
  <2>3. HoldersWillClose'
    BY <2>1 DEF HoldersWillClose, RCTypeOK
  <2>4. QED
    BY <2>1, <2>2, <2>3 DEF RCTypeOK
<1>7. ASSUME NEW outcome \in {"ok", "failed"}, Returns(w, outcome) PROVE RunInv'
  <2>1. CASE ForkFails(w)
    BY <2>1 DEF ForkFails, At, RCTypeOK, HoldersWillClose
  <2>2. CASE Killed(w) \/ Reaped(w, outcome)
    BY <2>2 DEF Killed, Reaped, At, RCTypeOK, HoldersWillClose
  <2>3. QED
    BY <1>7, <2>1, <2>2 DEF Returns
<1>8. QED
  BY <1>1, <1>2, <1>3, <1>4, <1>5, <1>6, <1>7

(* The command that a worker is at.                                         *)
LEMMA CommandAt ==
    ASSUME EditorInv, NEW w \in Workers, Editing(w)
    PROVE  /\ job[w] \in 1 .. Len(work) /\ Len(work) \in Nat /\ DOMAIN work = 1 .. Len(work)
           /\ cmd[w] \in 1 .. Len(work[job[w]]) /\ Len(work[job[w]]) \in Nat
           /\ DOMAIN work[job[w]] = 1 .. Len(work[job[w]])
           /\ C(w).kind \in Kinds /\ C(w).out \in Outputs /\ InputsOf(C(w)) \subseteq Temps
           /\ <<job[w], cmd[w]>> \in Commands /\ OutOf(<<job[w], cmd[w]>>) = C(w).out
<1> USE DEF EditorInv
<1>1. work \in Seq(Seq(EditCommand)) /\ job[w] \in DOMAIN work /\ cmd[w] \in DOMAIN work[job[w]]
  BY DEF WorkTypes, EditorTypeOK, Editing
<1>2. /\ Len(work) \in Nat /\ DOMAIN work = 1 .. Len(work) /\ work[job[w]] \in Seq(EditCommand)
  BY <1>1
<1>3. Len(work[job[w]]) \in Nat /\ DOMAIN work[job[w]] = 1 .. Len(work[job[w]])
  BY <1>2
<1>4. C(w) \in EditCommand
  BY <1>1, <1>2, <1>3 DEF C
<1>5. <<job[w], cmd[w]>> \in Commands /\ OutOf(<<job[w], cmd[w]>>) = C(w).out
  BY <1>1 DEF Commands, OutOf, C
<1>6. QED
  BY <1>1, <1>2, <1>3, <1>4, <1>5 DEF EditCommand, InputsOf, Temps

LEMMA PlacesFinite ==
    ASSUME NEW W \in Seq(Seq(EditCommand))
    PROVE  IsFiniteSet(UNION {{<<i, k>> : k \in DOMAIN W[i]} : i \in DOMAIN W})
<1> DEFINE D == DOMAIN W
           Row(i) == {<<i, k>> : k \in DOMAIN W[i]}
           Rows == {Row(i) : i \in D}
<1>1. /\ Len(W) \in Nat /\ DOMAIN W = 1 .. Len(W)
      /\ \A i \in DOMAIN W : Len(W[i]) \in Nat /\ DOMAIN W[i] = 1 .. Len(W[i])
  OBVIOUS
<1>2. \A i \in D : IsFiniteSet(Row(i))
  <2> TAKE i \in D
  <2> DEFINE E == DOMAIN W[i]
             f == [k \in E |-> <<i, k>>]
  <2>1. IsFiniteSet(E)
    BY <1>1, FS_Interval
  <2>2. f \in Surjection(E, Row(i))
    BY DEF Surjection
  <2>3. QED
    BY <2>1, <2>2, FS_Surjection
<1>3. IsFiniteSet(Rows)
  <2> DEFINE f == [i \in D |-> Row(i)]
  <2>1. IsFiniteSet(1 .. Len(W))
    BY <1>1, FS_Interval
  <2>2. IsFiniteSet(D)
    BY <1>1, <2>1
  <2>3. f \in Surjection(D, Rows)
    BY DEF Surjection
  <2>4. QED
    BY <2>2, <2>3, FS_Surjection
<1>4. QED
  BY <1>2, <1>3, FS_UNION

LEMMA CommandsFinite ==
    ASSUME WorkTypes
    PROVE  /\ IsFiniteSet(Commands) /\ IsFiniteSet(Pending)
           /\ Cardinality(Commands) \in Nat /\ Cardinality(Pending) \in Nat
<1>1. IsFiniteSet(Commands)
  BY PlacesFinite DEF WorkTypes, Commands
<1>2. Pending \in SUBSET Commands
  BY DEF Pending
<1>3. QED
  BY <1>1, <1>2, FS_Subset, FS_CardinalityType

LEMMA EditorBegins == EDInit => EditorInv
<1> SUFFICES ASSUME EDInit PROVE EditorInv
  OBVIOUS
<1>1. RunInv
  BY DEF EDInit, RCInit, RunInv, RCTypeOK, HoldersWillClose
<1>2. Len(work) = 0 /\ DOMAIN work = {} /\ work \in Seq(Seq(EditCommand))
  BY DEF EDInit
<1>3. EditorTypeOK
  BY <1>1, <1>2 DEF EDInit, RunInv, EditorTypeOK
<1>8. WorkTypes
  <2>1. \A i \in DOMAIN work : work[i] # <<>>
    BY <1>2
  <2>2. aed \in [overwrite : BOOLEAN, dry_run : BOOLEAN] /\ unclean \in BOOLEAN
    BY DEF EDInit
  <2>3. job \in [Workers -> Nat] /\ cmd \in [Workers -> Nat]
    BY DEF EDInit
  <2>4. reads \in [Workers -> SUBSET (1 .. Len(work))]
    BY DEF EDInit
  <2>5. ecount \in [{"executed", "failed", "skipped"} -> Nat]
    BY DEF EDInit
  <2>6. QED
    BY <1>2, <2>1, <2>2, <2>3, <2>4, <2>5 DEF WorkTypes
<1>9. NodeInv
  BY DEF EDInit, NodeInv, Editing, Handled
<1>4. JobInv /\ TempInv /\ StatusInv
  BY <1>2 DEF EDInit, RCInit, JobInv, TempInv, StatusInv, Editing
<1>5. Commands = {} /\ Pending = {} /\ Cardinality({}) = 0
  BY <1>2, FS_EmptySet DEF Commands, Pending
<1>6. TallyInv /\ EditInv
  BY <1>2, <1>5 DEF EDInit, TallyInv, Handled, EditInv
<1>7. QED
  BY <1>1, <1>3, <1>4, <1>6, <1>8, <1>9 DEF EditorInv

LEMMA RefusalIsSafe ==
    ASSUME EditorInv, EditorRefuses
    PROVE  EditorInv'
<1>1. /\ editor = "idle" /\ editor' = "ended" /\ aed_status' = "failed"
      /\ UNCHANGED <<aed, work, edLocals, temp, audio, unclean, rcVars>>
  BY DEF EditorRefuses
<1>2. RunInv' /\ EditorTypeOK' /\ WorkTypes' /\ NodeInv' /\ StatusInv'
  BY <1>1 DEF EditorInv, RunInv, RCTypeOK, HoldersWillClose, EditorTypeOK, WorkTypes, NodeInv,
              StatusInv, Editing, edLocals, rcVars
<1>3. JobInv' /\ TempInv'
  BY <1>1 DEF EditorInv, JobInv, TempInv, WillRemove, C, Editing, edLocals, rcVars
<1>4. Commands' = Commands /\ Pending' = Pending
  BY <1>1 DEF Commands, Pending, Editing, edLocals
<1>5. TallyInv' /\ OneEach' = OneEach
  BY <1>1, <1>4 DEF EditorInv, TallyInv, Handled, OneEach, Sharing, OutOf, edLocals
<1>6. EditInv'
  BY <1>1, <1>4, <1>5 DEF EditorInv, EditInv, Sharing, OutOf, C, edLocals, rcVars
<1>7. QED
  BY <1>2, <1>3, <1>5, <1>6 DEF EditorInv

LEMMA EndIsSafe ==
    ASSUME EditorInv, EditorEnds
    PROVE  EditorInv'
<1>1. /\ editor = "run" /\ editor' = "ended" /\ \A w \in Workers : est[w] = "done"
      /\ aed_status' = EditorStatus(ecount.executed, ecount.failed)
      /\ UNCHANGED <<aed, work, edLocals, temp, audio, unclean, rcVars>>
  BY DEF EditorEnds
<1>2. RunInv' /\ EditorTypeOK' /\ WorkTypes' /\ NodeInv' /\ StatusInv'
  BY <1>1 DEF EditorInv, RunInv, RCTypeOK, HoldersWillClose, EditorTypeOK, WorkTypes, NodeInv,
              StatusInv, EditorStatus, Editing, edLocals, rcVars
<1>3. JobInv' /\ TempInv'
  BY <1>1 DEF EditorInv, JobInv, TempInv, WillRemove, C, Editing, edLocals, rcVars
<1>4. Commands' = Commands /\ Pending' = Pending
  BY <1>1 DEF Commands, Pending, Editing, edLocals
<1>5. TallyInv' /\ OneEach' = OneEach
  BY <1>1, <1>4 DEF EditorInv, TallyInv, Handled, OneEach, Sharing, OutOf, edLocals
<1>6. EditInv'
  BY <1>1, <1>4, <1>5 DEF EditorInv, EditInv, Sharing, OutOf, C, edLocals, rcVars
<1>7. QED
  BY <1>2, <1>3, <1>5, <1>6 DEF EditorInv

LEMMA FunctionIsSeq ==
    ASSUME NEW T, NEW n \in Nat, NEW f \in [1 .. n -> T]
    PROVE  f \in Seq(T)
<1>1. [1 .. n -> T] \in {[1 .. m -> T] : m \in Nat}
  OBVIOUS
<1>2. Seq(T) = UNION {[1 .. m -> T] : m \in Nat}
  BY SeqDef
<1>3. QED
  BY <1>1, <1>2

LEMMA StartIsSafe ==
    ASSUME EditorInv, NEW scripts \in Seq(Seq(EditCommand)), EditorStarts(scripts)
    PROVE  EditorInv'
<1> USE DEF EditorInv
<1>1. /\ editor = "idle" /\ editor' = "run"
      /\ UNCHANGED <<edLocals, temp, unclean, aed_status, rc, child, code, holders>>
      /\ verbose' \in BOOLEAN /\ aed' \in [overwrite : BOOLEAN, dry_run : BOOLEAN]
      /\ \E left \in {{}, {Partial}} : audio' = [o \in Outputs |-> left]
  BY DEF EditorStarts
<1>2. /\ file_idx = 1 /\ Handled = 0 /\ \A t \in Temps : temp[t] = 0
      /\ \A w \in Workers : est[w] = "idle" /\ rc[w] = "idle" /\ child[w] = "none" /\ reads[w] = {}
  BY <1>1 DEF NodeInv, JobInv, RunInv, Programs
<1>3. work' \in Seq(Seq(EditCommand)) /\ \A i \in DOMAIN work' : work'[i] # <<>>
  <2> DEFINE H == HaveCommands(scripts)
  <2>1. PICK kept \in [1 .. Cardinality(H) -> H] : work' = [i \in DOMAIN kept |-> scripts[kept[i]]]
    BY DEF EditorStarts
  <2>2. Len(scripts) \in Nat /\ DOMAIN scripts = 1 .. Len(scripts)
    OBVIOUS
  <2>3. H \in SUBSET (1 .. Len(scripts)) /\ IsFiniteSet(1 .. Len(scripts))
    <3>1. IsFiniteSet(1 .. Len(scripts))
      BY <2>2, FS_Interval
    <3>2. H \in SUBSET (1 .. Len(scripts))
      BY <2>2 DEF HaveCommands
    <3>3. QED
      BY <3>1, <3>2
  <2>4. Cardinality(H) \in Nat
    BY <2>3, FS_Subset, FS_CardinalityType
  <2>5. \A i \in 1 .. Cardinality(H) :
            scripts[kept[i]] \in Seq(EditCommand) /\ scripts[kept[i]] # <<>>
    BY <2>2 DEF HaveCommands
  <2> HIDE DEF H
  <2>6. work' = [i \in 1 .. Cardinality(H) |-> scripts[kept[i]]]
    BY <2>1
  <2>7. DOMAIN work' = 1 .. Cardinality(H) /\ \A i \in DOMAIN work' : work'[i] = scripts[kept[i]]
    BY <2>6
  <2>8. work' \in [1 .. Cardinality(H) -> Seq(EditCommand)]
    BY <2>5, <2>6
  <2>9. work' \in Seq(Seq(EditCommand))
    BY <2>4, <2>8, FunctionIsSeq
  <2>10. \A i \in DOMAIN work' : work'[i] # <<>>
    BY <2>5, <2>7
  <2>11. QED
    BY <2>9, <2>10
<1>4. /\ Len(work') \in Nat /\ DOMAIN work' = 1 .. Len(work')
      /\ \A i \in DOMAIN work' : \A k \in DOMAIN work'[i] : work'[i][k] \in EditCommand
  BY <1>3
<1>5. RunInv'
  BY <1>1 DEF RunInv, RCTypeOK, HoldersWillClose
<1>6. temp' \in [Temps -> 0 .. Len(work')] /\ reads' \in [Workers -> SUBSET (1 .. Len(work'))]
  BY <1>1, <1>2, <1>4 DEF EditorTypeOK, WorkTypes, edLocals
<1>7. EditorTypeOK'
  BY <1>1, <1>2, <1>4, <1>5, <1>6 DEF EditorTypeOK, RunInv, EditCommand, edLocals
<1>8. WorkTypes'
  BY <1>1, <1>3, <1>6 DEF WorkTypes, edLocals
<1>9. NodeInv' /\ JobInv' /\ TempInv' /\ StatusInv'
  BY <1>1, <1>2 DEF NodeInv, JobInv, TempInv, StatusInv, Editing, edLocals
<1>10. Pending' = Commands'
  <2>1. \A x \in Commands' : x[1] >= 1
    BY <1>4 DEF Commands
  <2>2. QED
    BY <1>1, <1>2, <2>1 DEF Pending, edLocals
<1>11. TallyInv'
  <2>1. Cardinality(Commands)' \in Nat /\ Cardinality(Pending)' = Cardinality(Commands)'
    <3>1. IsFiniteSet(Commands')
      BY <1>3, PlacesFinite DEF Commands
    <3>2. QED
      BY <1>10, <3>1, FS_CardinalityType
  <2>2. Handled' = 0
    BY <1>1, <1>2 DEF Handled, edLocals
  <2>3. QED
    BY <2>1, <2>2 DEF TallyInv
<1>12. EditInv'
  BY <1>1, <1>2, <1>10 DEF EditInv, edLocals
<1>13. QED
  BY <1>5, <1>7, <1>8, <1>9, <1>11, <1>12

(* The steps of a worker by what they do to the counts: it takes a file, it *)
(* goes to the next command and counts one outcome, or it stays at one.     *)
Passes(w) ==
    /\ Editing(w) /\ UNCHANGED <<file_idx, job>> /\ NextCommand(w)
    /\ \E o \in {"executed", "failed", "skipped"} : Outcome(o)
Stays(w) ==
    /\ UNCHANGED <<file_idx, job, cmd, ecount>>
    /\ \/ est' = est
       \/ Editing(w) /\ \E step \in {"generate", "list", "encode"} : Goto(w, step)

LEMMA EditorMoves ==
    ASSUME NEW w \in Workers, WorkerStep(w)
    PROVE  TakeWork(w) \/ Passes(w) \/ Stays(w)
<1>1. CASE Skip(w)
  BY <1>1 DEF Skip, Passes, Editing
<1>2. CASE Invalid(w)
  BY <1>2 DEF Invalid, Passes, Editing
<1>3. CASE ListFails(w)
  BY <1>3 DEF ListFails, Passes, Editing
<1>4. CASE Begin(w) \/ WriteSilenceList(w)
  BY <1>4 DEF Begin, WriteSilenceList, Stays, Editing
<1>5. CASE Pipe(w) \/ Start(w) \/ ReadOn(w)
           \/ \E outcome \in {"ok", "failed"} : ProgramEnds(w, outcome)
  BY <1>5 DEF Pipe, Start, ReadOn, ProgramEnds, Stays, edLocals
<1>6. ASSUME NEW result, Result(w, result), UNCHANGED <<file_idx, job>>
      PROVE  Passes(w) \/ Stays(w)
  BY <1>6 DEF Result, Passes, Stays, Editing
<1>7. CASE Return(w) \/ DryRun(w)
  BY <1>6, <1>7 DEF Return, DryRun
<1>8. QED
  BY <1>1, <1>2, <1>3, <1>4, <1>5, <1>7 DEF WorkerStep

(* What is in bounds and typed after any step of a worker.                  *)
PlaceTypes ==
    /\ file_idx \in Nat \ {0} /\ job \in [Workers -> Nat] /\ cmd \in [Workers -> Nat]
    /\ ecount \in [{"executed", "failed", "skipped"} -> Nat]
    /\ est \in [Workers -> Programs \cup {"idle", "test", "list", "done"}]
    /\ \A w \in Workers : Editing(w) => job[w] \in DOMAIN work /\ cmd[w] \in DOMAIN work[job[w]]
PlaceInv ==
    /\ \A w \in Workers : Editing(w) => job[w] < file_idx
    /\ \A w, v \in Workers : Editing(w) /\ Editing(v) /\ job[w] = job[v] => w = v
    /\ \A w \in Workers : est[w] = "done" => file_idx > Len(work)

LEMMA TakeKeepsPlace ==
    ASSUME EditorInv, NEW w \in Workers, TakeWork(w), UNCHANGED work
    PROVE  /\ PlaceTypes' /\ PlaceInv' /\ TallyInv'
           /\ Pending' = Pending
<1> USE DEF EditorInv
<1>1. /\ PlaceTypes /\ PlaceInv /\ Len(work) \in Nat /\ DOMAIN work = 1 .. Len(work)
      /\ est[w] = "idle" /\ file_idx' = file_idx + 1 /\ ecount' = ecount /\ work' = work
  BY DEF EditorTypeOK, WorkTypes, JobInv, PlaceTypes, PlaceInv, Editing, TakeWork
<1>2. CASE file_idx <= Len(work)
  <2>1. /\ job' = [job EXCEPT ![w] = file_idx] /\ cmd' = [cmd EXCEPT ![w] = 1]
        /\ est' = [est EXCEPT ![w] = "test"] /\ file_idx \in 1 .. Len(work)
    BY <1>1, <1>2 DEF TakeWork, Goto, PlaceTypes
  <2>2. 1 \in DOMAIN work[file_idx]
    <3>1. work[file_idx] \in Seq(EditCommand) /\ work[file_idx] # <<>>
      BY <1>1, <2>1 DEF WorkTypes
    <3>2. QED
      BY <3>1
  <2>3. \A x \in Workers : Editing(x)' => x = w \/ Editing(x)
    BY <1>1, <2>1 DEF Editing, PlaceTypes
  <2>4. PlaceTypes'
    BY <1>1, <2>1, <2>2 DEF PlaceTypes, Editing
  <2>5. PlaceInv'
    BY <1>1, <1>2, <2>1, <2>3 DEF PlaceTypes, PlaceInv, Editing
  <2>6. ASSUME NEW i \in DOMAIN work, NEW k \in DOMAIN work[i]
        PROVE  (\/ i >= file_idx'
                \/ \E x \in Workers : Editing(x)' /\ job'[x] = i /\ cmd'[x] <= k)
               <=> (\/ i >= file_idx
                    \/ \E x \in Workers : Editing(x) /\ job[x] = i /\ cmd[x] <= k)
    <3>1. /\ Editing(w)' /\ job'[w] = file_idx /\ cmd'[w] = 1 /\ ~ Editing(w)
          /\ \A x \in Workers : x # w => /\ Editing(x)' <=> Editing(x)
                                         /\ job'[x] = job[x] /\ cmd'[x] = cmd[x]
      BY <1>1, <2>1 DEF Editing, PlaceTypes
    <3>2. k >= 1 /\ k \in Nat /\ i \in Nat
      <4>1. work[i] \in Seq(EditCommand)
        BY <1>1 DEF WorkTypes
      <4>2. QED
        BY <1>1, <4>1
    <3>3. CASE i = file_idx
      BY <1>1, <3>1, <3>2, <3>3
    <3>4. CASE i # file_idx
      <4>1. i >= file_idx' <=> i >= file_idx
        BY <1>1, <3>2, <3>4 DEF PlaceTypes
      <4>2. QED
        BY <3>1, <3>4, <4>1
    <3>5. QED
      BY <3>3, <3>4
  <2>7. Commands' = Commands /\ Pending' = Pending
    BY <1>1, <2>6 DEF Commands, Pending
  <2>8. QED
    BY <1>1, <2>4, <2>5, <2>7 DEF TallyInv, Handled
<1>3. CASE ~ (file_idx <= Len(work))
  <2>1. /\ job' = job /\ cmd' = cmd /\ est' = [est EXCEPT ![w] = "done"]
        /\ file_idx > Len(work) /\ file_idx' > Len(work)
    BY <1>1, <1>3 DEF TakeWork, Goto, PlaceTypes
  <2>2. \A x \in Workers : Editing(x)' <=> Editing(x)
    BY <1>1, <2>1 DEF Editing, PlaceTypes
  <2>3. PlaceTypes' /\ PlaceInv'
    BY <1>1, <2>1, <2>2 DEF PlaceTypes, PlaceInv, Editing
  <2>4. Commands' = Commands
    BY <1>1 DEF Commands
  <2>5. \A x \in Commands : ~ (x[1] >= file_idx) /\ ~ (x[1] >= file_idx')
    BY <1>1, <2>1 DEF Commands, PlaceTypes
  <2>6. Pending' = Pending
    BY <2>1, <2>2, <2>4, <2>5 DEF Pending
  <2>7. QED
    BY <1>1, <2>3, <2>4, <2>6 DEF TallyInv, Handled
<1>4. QED
  BY <1>2, <1>3

LEMMA PassKeepsPlace ==
    ASSUME EditorInv, NEW w \in Workers, Passes(w), UNCHANGED work
    PROVE  /\ PlaceTypes' /\ PlaceInv' /\ TallyInv'
           /\ Pending' = Pending \ {<<job[w], cmd[w]>>}
<1> USE DEF EditorInv
<1>1. /\ PlaceTypes /\ PlaceInv /\ Len(work) \in Nat /\ DOMAIN work = 1 .. Len(work)
      /\ Editing(w) /\ file_idx' = file_idx /\ job' = job /\ work' = work
  BY DEF EditorTypeOK, WorkTypes, JobInv, PlaceTypes, PlaceInv, Editing, Passes
<1>2. PICK n \in Nat : n = Len(work[job[w]]) /\ DOMAIN work[job[w]] = 1 .. n
  BY <1>1, CommandAt
<1>3. cmd[w] \in 1 .. n /\ job[w] \in DOMAIN work
  BY <1>1, <1>2, CommandAt
<1>4. \/ cmd[w] < n /\ cmd' = [cmd EXCEPT ![w] = cmd[w] + 1] /\ est' = [est EXCEPT ![w] = "test"]
      \/ cmd[w] = n /\ cmd' = [cmd EXCEPT ![w] = 0] /\ est' = [est EXCEPT ![w] = "idle"]
  BY <1>1, <1>2, <1>3 DEF Passes, NextCommand, Goto
<1>5. /\ \A x \in Workers : x # w => est'[x] = est[x] /\ cmd'[x] = cmd[x]
      /\ \/ cmd[w] < n /\ cmd'[w] = cmd[w] + 1 /\ est'[w] = "test"
         \/ cmd[w] = n /\ cmd'[w] = 0 /\ est'[w] = "idle"
  BY <1>1, <1>4 DEF PlaceTypes
<1>6. PICK o \in {"executed", "failed", "skipped"} : ecount' = [ecount EXCEPT ![o] = @ + 1]
  BY DEF Passes, Outcome
<1>7. PlaceTypes'
  <2>1. cmd' \in [Workers -> Nat] /\ est' \in [Workers -> Programs \cup {"idle", "test", "list", "done"}]
    <3>1. cmd[w] + 1 \in Nat /\ 0 \in Nat
      BY <1>3
    <3>2. \E c \in Nat, step \in {"test", "idle"} :
              cmd' = [cmd EXCEPT ![w] = c] /\ est' = [est EXCEPT ![w] = step]
      BY <1>4, <3>1
    <3>3. QED
      BY <1>1, <3>2 DEF PlaceTypes
  <2>2. ecount' \in [{"executed", "failed", "skipped"} -> Nat]
    BY <1>1, <1>6 DEF PlaceTypes
  <2>3. \A x \in Workers : Editing(x)' => job[x] \in DOMAIN work /\ cmd'[x] \in DOMAIN work[job[x]]
    BY <1>1, <1>2, <1>3, <1>5 DEF PlaceTypes, Editing
  <2>4. QED
    BY <1>1, <2>1, <2>2, <2>3 DEF PlaceTypes
<1>8. PlaceInv'
  BY <1>1, <1>5 DEF PlaceInv, Editing
<1>9. ASSUME NEW i \in DOMAIN work, NEW k \in DOMAIN work[i]
      PROVE  (\/ i >= file_idx'
              \/ \E x \in Workers : Editing(x)' /\ job'[x] = i /\ cmd'[x] <= k)
             <=> /\ \/ i >= file_idx
                    \/ \E x \in Workers : Editing(x) /\ job[x] = i /\ cmd[x] <= k
                 /\ <<i, k>> # <<job[w], cmd[w]>>
  <2>1. \A x \in Workers : x # w => /\ Editing(x)' <=> Editing(x)
                                    /\ job'[x] = job[x] /\ cmd'[x] = cmd[x]
    BY <1>1, <1>5 DEF Editing
  <2>2. CASE i = job[w]
    <3>1. /\ ~ (i >= file_idx) /\ ~ (i >= file_idx') /\ k \in 1 .. n
          /\ \A x \in Workers : Editing(x) /\ job[x] = i => x = w
      BY <1>1, <1>2, <1>3, <2>2 DEF PlaceInv, PlaceTypes
    <3>2. Editing(w)' /\ cmd'[w] <= k <=> cmd[w] <= k /\ k # cmd[w]
      BY <1>3, <1>5, <3>1 DEF Editing
    <3>3. (\E x \in Workers : Editing(x)' /\ job'[x] = i /\ cmd'[x] <= k)
              <=> Editing(w)' /\ cmd'[w] <= k
      BY <1>1, <2>1, <2>2, <3>1
    <3>4. (\E x \in Workers : Editing(x) /\ job[x] = i /\ cmd[x] <= k) <=> cmd[w] <= k
      BY <1>1, <2>2, <3>1
    <3>5. <<i, k>> # <<job[w], cmd[w]>> <=> k # cmd[w]
      BY <2>2
    <3>6. QED
      BY <3>1, <3>2, <3>3, <3>4, <3>5
  <2>3. CASE i # job[w]
    BY <1>1, <2>1, <2>3
  <2>4. QED
    BY <2>2, <2>3
<1>10. Commands' = Commands
  BY <1>1 DEF Commands
<1>11. Pending' = Pending \ {<<job[w], cmd[w]>>}
  BY <1>9, <1>10 DEF Commands, Pending
<1>12. <<job[w], cmd[w]>> \in Pending
  <2>1. <<job[w], cmd[w]>> \in Commands
    BY <1>1, CommandAt
  <2>2. cmd[w] <= cmd[w]
    BY <1>3
  <2>3. QED
    BY <1>1, <2>1, <2>2 DEF Pending
<1>13. TallyInv'
  <2>1. WorkTypes
    OBVIOUS
  <2>2. /\ Cardinality(Pending') = Cardinality(Pending) - 1
        /\ Cardinality(Pending) \in Nat /\ Cardinality(Commands) \in Nat
    BY <1>11, <1>12, <2>1, CommandsFinite, FS_RemoveElement
  <2>3. Handled' = Handled + 1 /\ Handled \in Nat
    <3>1. \A q \in {"executed", "failed", "skipped"} :
              ecount[q] \in Nat /\ ecount'[q] = IF q = o THEN ecount[q] + 1 ELSE ecount[q]
      BY <1>1, <1>6 DEF PlaceTypes
    <3>2. CASE o = "executed"
      BY <3>1, <3>2 DEF Handled
    <3>3. CASE o = "failed"
      BY <3>1, <3>3 DEF Handled
    <3>4. CASE o = "skipped"
      BY <3>1, <3>4 DEF Handled
    <3>5. QED
      BY <3>2, <3>3, <3>4
  <2>4. Handled + Cardinality(Pending) = Cardinality(Commands)
    BY DEF TallyInv
  <2>5. QED
    BY <1>10, <2>2, <2>3, <2>4 DEF TallyInv
<1>14. QED
  BY <1>7, <1>8, <1>11, <1>13

LEMMA StayKeepsPlace ==
    ASSUME EditorInv, NEW w \in Workers, Stays(w), UNCHANGED work
    PROVE  PlaceTypes' /\ PlaceInv' /\ TallyInv' /\ Pending' = Pending
<1> USE DEF EditorInv
<1>1. PlaceTypes /\ PlaceInv /\ UNCHANGED <<file_idx, job, cmd, ecount, work>>
  BY DEF EditorTypeOK, WorkTypes, JobInv, PlaceTypes, PlaceInv, Editing, Stays
<1>2. /\ est' \in [Workers -> Programs \cup {"idle", "test", "list", "done"}]
      /\ \A x \in Workers : /\ Editing(x)' <=> Editing(x)
                            /\ est'[x] = "done" <=> est[x] = "done"
  BY <1>1 DEF Stays, Goto, PlaceTypes, Programs, Editing
<1>3. PlaceTypes' /\ PlaceInv'
  BY <1>1, <1>2 DEF PlaceTypes, PlaceInv
<1>4. Commands' = Commands
  BY <1>1 DEF Commands
<1>5. Pending' = Pending
  BY <1>1, <1>2, <1>4 DEF Pending
<1>6. QED
  BY <1>1, <1>3, <1>4, <1>5 DEF TallyInv, Handled

(* A step of a worker changes its own place and program only.               *)
LEMMA OnlyMine ==
    ASSUME EditorInv, NEW w \in Workers, WorkerStep(w)
    PROVE  \A x \in Workers : x # w =>
               /\ est'[x] = est[x] /\ job'[x] = job[x] /\ cmd'[x] = cmd[x]
               /\ rc'[x] = rc[x] /\ child'[x] = child[x] /\ code'[x] = code[x]
               /\ reads'[x] = reads[x]
<1> SUFFICES ASSUME NEW x \in Workers, x # w
             PROVE  /\ est'[x] = est[x] /\ job'[x] = job[x] /\ cmd'[x] = cmd[x]
                    /\ rc'[x] = rc[x] /\ child'[x] = child[x] /\ code'[x] = code[x]
                    /\ reads'[x] = reads[x]
  OBVIOUS
<1>1. /\ est \in [Workers -> Programs \cup {"idle", "test", "list", "done"}]
      /\ job \in [Workers -> Nat] /\ cmd \in [Workers -> Nat]
      /\ reads \in [Workers -> SUBSET (1 .. Len(work))] /\ RCTypeOK
  BY DEF EditorInv, EditorTypeOK, WorkTypes
<1>2. est'[x] = est[x] /\ job'[x] = job[x] /\ cmd'[x] = cmd[x]
  <2>1. CASE TakeWork(w)
    BY <1>1, <2>1 DEF TakeWork, Goto
  <2>2. CASE Passes(w)
    BY <1>1, <2>2 DEF Passes, NextCommand, Goto
  <2>3. CASE Stays(w)
    BY <1>1, <2>3 DEF Stays, Goto
  <2>4. QED
    BY <2>1, <2>2, <2>3, EditorMoves
<1>3. rc'[x] = rc[x] /\ child'[x] = child[x] /\ code'[x] = code[x] /\ reads'[x] = reads[x]
  <2>1. CASE TakeWork(w) \/ Skip(w) \/ Invalid(w) \/ Begin(w) \/ WriteSilenceList(w) \/ ListFails(w)
             \/ DryRun(w)
    BY <2>1 DEF TakeWork, Skip, Invalid, Begin, WriteSilenceList, ListFails, DryRun, rcVars
  <2>2. CASE Pipe(w) \/ ReadOn(w)
    BY <1>1, <2>2 DEF Pipe, ReadOn, Pipes, CloseWrites, EndOfStream, ChildExits, At, RCTypeOK, edLocals
  <2>3. CASE Start(w)
    BY <1>1, <2>3 DEF Start, Fork, At, RCTypeOK
  <2>4. ASSUME NEW outcome \in {"ok", "failed"}, ProgramEnds(w, outcome)
        PROVE  rc'[x] = rc[x] /\ child'[x] = child[x] /\ code'[x] = code[x] /\ reads'[x] = reads[x]
    BY <1>1, <2>4 DEF ProgramEnds, ChildCloses, RCTypeOK, edLocals
  <2>5. CASE Return(w)
    BY <1>1, <2>5 DEF Return, Returns, Reaped, ForkFails, Killed, At, RCTypeOK
  <2>6. QED
    BY <2>1, <2>2, <2>3, <2>4, <2>5 DEF WorkerStep
<1>4. QED
  BY <1>2, <1>3

(* What the steps of a worker do to its program.                            *)
ProgramInv ==
    \A w \in Workers : /\ rc[w] # "idle" => est[w] \in Programs /\ ~aed.dry_run
                       /\ child[w] = "none" => reads[w] = {}
                       /\ est[w] \in {"generate", "list"} => C(w).kind = "silence"

LEMMA WorkerKeepsProgram ==
    ASSUME EditorInv, NEW w \in Workers, WorkerStep(w)
    PROVE  RunInv' /\ ProgramInv'
<1> USE DEF EditorInv
<1>1. /\ RunInv /\ ProgramInv /\ RCTypeOK /\ UNCHANGED <<aed, work>>
      /\ est \in [Workers -> Programs \cup {"idle", "test", "list", "done"}]
      /\ reads \in [Workers -> SUBSET (1 .. Len(work))]
  BY DEF JobInv, ProgramInv, EditorTypeOK, WorkTypes, WorkerStep
<1>2. \A x \in Workers : x # w => C(x)' = C(x)
  BY <1>1, OnlyMine DEF C
<1>3. SUFFICES RunInv' /\ /\ rc'[w] # "idle" => est'[w] \in Programs /\ ~aed.dry_run
                          /\ child'[w] = "none" => reads'[w] = {}
                          /\ est'[w] \in {"generate", "list"} => C(w)'.kind = "silence"
  BY <1>1, <1>2, OnlyMine DEF ProgramInv
<1>4. CASE TakeWork(w) \/ Skip(w) \/ Invalid(w) \/ ListFails(w)
  <2>1. est[w] \in {"idle", "test", "list"} /\ UNCHANGED <<rcVars, reads>>
    BY <1>4 DEF TakeWork, Skip, Invalid, ListFails
  <2>2. est'[w] \in {"test", "idle", "done"}
    BY <1>1, <1>4 DEF TakeWork, Skip, Invalid, ListFails, NextCommand, Goto
  <2>3. RunInv'
    BY <1>1, <2>1 DEF RunInv, RCTypeOK, HoldersWillClose, rcVars
  <2>4. rc'[w] = "idle" /\ child' = child /\ reads' = reads
    BY <1>1, <2>1 DEF ProgramInv, Programs, rcVars
  <2>5. child'[w] = "none" => reads'[w] = {}
    BY <1>1, <2>4 DEF ProgramInv
  <2>6. QED
    BY <2>2, <2>3, <2>4, <2>5
<1>5. CASE Begin(w) \/ WriteSilenceList(w)
  <2>1. /\ est[w] \in {"test", "list"} /\ UNCHANGED <<rcVars, reads, job, cmd>>
        /\ est'[w] \in {"generate", "encode"}
        /\ est'[w] = "generate" => C(w).kind = "silence"
    BY <1>1, <1>5 DEF Begin, WriteSilenceList, Goto
  <2>2. RunInv'
    BY <1>1, <2>1 DEF RunInv, RCTypeOK, HoldersWillClose, rcVars
  <2>3. QED
    BY <1>1, <2>1, <2>2 DEF ProgramInv, Programs, rcVars, C
<1>6. CASE Pipe(w) \/ Start(w) \/ ReadOn(w)
           \/ \E outcome \in {"ok", "failed"} : ProgramEnds(w, outcome)
  <2>1. UNCHANGED <<est, job, cmd>>
    BY <1>6 DEF Pipe, Start, ReadOn, ProgramEnds, edLocals
  <2>2. RunInv'
    BY <1>1, <1>6, RunKeepsInv DEF Pipe, Start, ReadOn, ProgramEnds
  <2>3. CASE Pipe(w)
    BY <1>1, <2>1, <2>2, <2>3 DEF Pipe, Pipes, At, ProgramInv, RCTypeOK, edLocals, C
  <2>4. CASE Start(w)
    BY <1>1, <2>1, <2>2, <2>4 DEF Start, Fork, At, ProgramInv, RCTypeOK, C
  <2>5. CASE ReadOn(w)
    BY <1>1, <2>1, <2>2, <2>5 DEF ReadOn, CloseWrites, EndOfStream, ChildExits, At, ProgramInv,
                                  RCTypeOK, edLocals, C
  <2>6. ASSUME NEW outcome \in {"ok", "failed"}, ProgramEnds(w, outcome)
        PROVE  /\ rc'[w] # "idle" => est'[w] \in Programs /\ ~aed.dry_run
               /\ child'[w] = "none" => reads'[w] = {}
               /\ est'[w] \in {"generate", "list"} => C(w)'.kind = "silence"
    BY <1>1, <2>1, <2>6 DEF ProgramEnds, ChildCloses, ProgramInv, RCTypeOK, edLocals, C
  <2>7. QED
    BY <1>6, <2>2, <2>3, <2>4, <2>5, <2>6
<1>7. ASSUME NEW result \in {"ok", "failed"}, Result(w, result), job' = job
      PROVE  /\ est'[w] \in {"list", "test", "idle"}
             /\ est'[w] = "list" => C(w)'.kind = "silence"
  <2>1. \/ est'[w] \in {"test", "idle"}
        \/ est[w] = "generate" /\ est'[w] = "list" /\ cmd' = cmd
    BY <1>1, <1>7 DEF Result, NextCommand, Goto
  <2>2. QED
    BY <1>1, <1>7, <2>1 DEF ProgramInv, C
<1>8. CASE Return(w)
  <2>1. PICK result \in {"ok", "failed"} : Returns(w, result) /\ Result(w, result)
    BY <1>8 DEF Return
  <2>2. RunInv'
    BY <1>1, <2>1, RunKeepsInv
  <2>3. rc'[w] = "idle" /\ reads'[w] = {} /\ job' = job
    BY <1>1, <1>8, <2>1 DEF Return, Returns, Reaped, ForkFails, Killed, At, RCTypeOK
  <2>4. QED
    BY <1>7, <2>1, <2>2, <2>3
<1>9. CASE DryRun(w)
  <2>1. UNCHANGED <<rcVars, reads, job>> /\ rc[w] = "idle" /\ Result(w, "ok")
    BY <1>1, <1>9 DEF DryRun, ProgramInv
  <2>2. RunInv'
    BY <1>1, <2>1 DEF RunInv, RCTypeOK, HoldersWillClose, rcVars
  <2>3. QED
    BY <1>1, <1>7, <2>1, <2>2 DEF ProgramInv, rcVars
<1>10. QED
  BY <1>4, <1>5, <1>6, <1>8, <1>9 DEF WorkerStep

(* What the steps of a worker do to the files.                              *)
StoreTypes ==
    /\ temp \in [Temps -> 0 .. Len(work)] /\ reads \in [Workers -> SUBSET (1 .. Len(work))]
    /\ audio \in [Outputs -> SUBSET ((1 .. Len(work)) \cup {Partial})] /\ unclean \in BOOLEAN

LEMMA CleanedTypes ==
    ASSUME EditorInv, NEW w \in Workers
    PROVE  Cleaned(w) \in [Temps -> 0 .. Len(work)]
BY DEF EditorInv, EditorTypeOK, WorkTypes, Cleaned

LEMMA WorkerKeepsStores ==
    ASSUME EditorInv, NEW w \in Workers, WorkerStep(w)
    PROVE  StoreTypes'
<1> USE DEF EditorInv
<1>1. /\ StoreTypes /\ work' = work /\ Len(work) \in Nat /\ RCTypeOK
      /\ est \in [Workers -> Programs \cup {"idle", "test", "list", "done"}]
  BY DEF StoreTypes, EditorTypeOK, WorkTypes, WorkerStep
<1>2. Editing(w) => job[w] \in 1 .. Len(work) /\ job[w] \in 0 .. Len(work)
  <2>1. Editing(w) => job[w] \in 1 .. Len(work)
    BY CommandAt
  <2>2. QED
    BY <1>1, <2>1
<1>3. CASE TakeWork(w) \/ Skip(w) \/ Invalid(w)
  BY <1>1, <1>3 DEF TakeWork, Skip, Invalid, StoreTypes
<1>4. CASE Begin(w) \/ WriteSilenceList(w) \/ ListFails(w)
  <2>1. Editing(w) /\ UNCHANGED <<reads, audio, unclean>>
    BY <1>4 DEF Begin, WriteSilenceList, ListFails, Editing
  <2>2. temp' = temp \/ \E t \in Temps, v \in 0 .. Len(work) : temp' = [temp EXCEPT ![t] = v]
    <3>1. 0 \in 0 .. Len(work) /\ job[w] \in 0 .. Len(work)
      BY <1>1, <1>2, <2>1
    <3>2. "merge_list" \in Temps /\ "silence" \in Temps /\ "silence_list" \in Temps
      BY DEF Temps
    <3>3. \/ temp' = temp \/ temp' = [temp EXCEPT !["merge_list"] = job[w]]
          \/ temp' = [temp EXCEPT !["silence_list"] = job[w]]
          \/ temp' = [temp EXCEPT !["silence"] = 0]
      BY <1>4 DEF Begin, WriteSilenceList, ListFails
    <3>4. QED
      BY <3>1, <3>2, <3>3
  <2>3. QED
    BY <1>1, <2>1, <2>2 DEF StoreTypes
<1>5. CASE Pipe(w) \/ ReadOn(w)
  BY <1>1, <1>5 DEF Pipe, ReadOn, edLocals, StoreTypes
<1>6. CASE Start(w)
  <2>1. Editing(w)
    BY <1>1, <1>6 DEF Start, Fork, At, JobInv, Editing, Programs
  <2>2. ReadBy(w) \subseteq 0 .. Len(work)
    BY <1>1, <1>2, <2>1, CommandAt DEF ReadBy, StoreTypes
  <2>3. CanEncode(w) => ReadBy(w) \subseteq 1 .. Len(work)
    <3>1. CanEncode(w) => 0 \notin ReadBy(w)
      BY <1>2, <2>1 DEF CanEncode, ReadBy
    <3>2. QED
      BY <1>1, <2>2, <3>1
  <2>4. reads' \in [Workers -> SUBSET (1 .. Len(work))]
    <3>1. PICK R \in SUBSET (1 .. Len(work)) : reads' = [reads EXCEPT ![w] = R]
      BY <1>2, <1>6, <2>1, <2>3 DEF Start
    <3>2. QED
      BY <1>1, <3>1 DEF StoreTypes
  <2>5. temp' \in [Temps -> 0 .. Len(work)] /\ unclean' = unclean
    BY <1>1, <1>2, <1>6, <2>1 DEF Start, StoreTypes, Temps
  <2>6. audio' \in [Outputs -> SUBSET ((1 .. Len(work)) \cup {Partial})]
    BY <1>1, <1>6 DEF Start, StoreTypes
  <2>7. QED
    BY <1>1, <2>4, <2>5, <2>6 DEF StoreTypes
<1>7. ASSUME NEW outcome \in {"ok", "failed"}, ProgramEnds(w, outcome) PROVE StoreTypes'
  <2>1. UNCHANGED <<reads, temp, unclean>>
    BY <1>7 DEF ProgramEnds, edLocals
  <2>2. audio' \in [Outputs -> SUBSET ((1 .. Len(work)) \cup {Partial})]
    <3>1. CASE audio' = audio
      BY <1>1, <3>1 DEF StoreTypes
    <3>2. CASE audio' = [audio EXCEPT ![C(w).out] = (@ \ {Partial}) \cup reads[w]]
      <4>1. reads[w] \subseteq 1 .. Len(work)
        BY <1>1 DEF StoreTypes
      <4>2. \A o \in Outputs : audio[o] \subseteq (1 .. Len(work)) \cup {Partial}
        BY <1>1 DEF StoreTypes
      <4>3. QED
        BY <1>1, <3>2, <4>1, <4>2 DEF StoreTypes
    <3>3. QED
      BY <1>7, <3>1, <3>2 DEF ProgramEnds
  <2>3. QED
    BY <1>1, <2>1, <2>2 DEF StoreTypes
<1>8. ASSUME NEW result, Result(w, result)
      PROVE  temp' \in [Temps -> 0 .. Len(work)] /\ unclean' \in BOOLEAN
  BY <1>1, <1>8, CleanedTypes DEF Result, StoreTypes
<1>9. CASE Return(w) \/ DryRun(w)
  <2>1. audio' = audio /\ reads' \in [Workers -> SUBSET (1 .. Len(work))]
    BY <1>1, <1>9 DEF Return, DryRun, StoreTypes
  <2>2. QED
    BY <1>1, <1>8, <1>9, <2>1 DEF Return, DryRun, StoreTypes
<1>10. QED
  BY <1>3, <1>4, <1>5, <1>6, <1>7, <1>9 DEF WorkerStep

(* A worker leaves the files that others will remove; it removes its own.   *)
LEMMA OthersWillRemove ==
    ASSUME EditorInv, NEW w \in Workers, WorkerStep(w)
    PROVE  \A x \in Workers, t \in Temps : x # w => (WillRemove(t, x)' <=> WillRemove(t, x))
<1>1. \A x \in Workers : x # w => C(x)' = C(x) /\ est'[x] = est[x]
  BY OnlyMine DEF C, WorkerStep
<1>2. \A x \in Workers, t \in Temps : x # w => (t \in InputsOf(C(x)'))  = (t \in InputsOf(C(x)))
  BY <1>1
<1>3. QED
  BY <1>1, <1>2 DEF WillRemove, InputsOf

LEMMA WorkerKeepsTemps ==
    ASSUME EditorInv, NEW w \in Workers, WorkerStep(w)
    PROVE  TempInv'
<1> USE DEF EditorInv
<1>1. /\ StoreTypes /\ work' = work
      /\ est \in [Workers -> Programs \cup {"idle", "test", "list", "done"}]
  BY DEF StoreTypes, EditorTypeOK, WorkTypes, WorkerStep
(* Each file that is there was left by another or is the worker's to remove.*)
<1>2. SUFFICES ASSUME ~ unclean'
               PROVE  \A t \in Temps : temp'[t] # 0 =>
                          \/ temp[t] # 0 /\ ~ unclean /\ ~ WillRemove(t, w)
                          \/ WillRemove(t, w)'
  BY OthersWillRemove DEF TempInv
<1>3. CASE TakeWork(w) \/ Skip(w) \/ Invalid(w)
  BY <1>2, <1>3 DEF TakeWork, Skip, Invalid, WillRemove
<1>4. CASE Begin(w)
  <2>1. /\ est[w] = "test" /\ C(w)' = C(w) /\ unclean' = unclean
    BY <1>1, <1>4 DEF Begin, C
  <2>2. /\ temp' = temp
        \/ /\ C(w).kind = "merge" /\ est'[w] = "encode"
           /\ \A t \in Temps : t # "merge_list" => temp'[t] = temp[t]
    BY <1>1, <1>4 DEF Begin, Goto, StoreTypes
  <2>3. QED
    BY <1>2, <2>1, <2>2 DEF WillRemove, InputsOf
<1>5. CASE WriteSilenceList(w)
  <2>1. /\ est[w] = "list" /\ est'[w] = "encode" /\ C(w)' = C(w) /\ unclean' = unclean
        /\ C(w).kind = "silence"
        /\ \A t \in Temps : t # "silence_list" => temp'[t] = temp[t]
    BY <1>1, <1>5 DEF WriteSilenceList, Goto, C, StoreTypes, JobInv
  <2>2. QED
    BY <1>2, <2>1 DEF WillRemove, InputsOf
<1>6. CASE ListFails(w)
  <2>1. /\ unclean' = unclean
        /\ \/ est[w] = "test" /\ temp' = temp
           \/ est[w] = "list" /\ temp'["silence"] = 0
              /\ \A t \in Temps : t # "silence" => temp'[t] = temp[t]
    BY <1>1, <1>6 DEF ListFails, StoreTypes, Temps
  <2>2. QED
    BY <1>2, <2>1 DEF WillRemove
<1>7. CASE Pipe(w) \/ ReadOn(w) \/ \E outcome \in {"ok", "failed"} : ProgramEnds(w, outcome)
  <2>1. UNCHANGED <<temp, unclean, est, job, cmd>>
    BY <1>7 DEF Pipe, ReadOn, ProgramEnds, edLocals
  <2>2. \A t \in Temps : WillRemove(t, w)' <=> WillRemove(t, w)
    BY <1>1, <2>1 DEF WillRemove, InputsOf, C
  <2>3. QED
    BY <1>2, <2>1, <2>2
<1>8. CASE Start(w)
  <2>1. /\ UNCHANGED <<unclean, est, job, cmd>>
        /\ \A t \in Temps : temp'[t] = temp[t] \/ (est[w] = "generate" /\ t = "silence")
    BY <1>1, <1>8 DEF Start, StoreTypes
  <2>2. \A t \in Temps : WillRemove(t, w)' <=> WillRemove(t, w)
    BY <1>1, <2>1 DEF WillRemove, InputsOf, C
  <2>3. QED
    BY <1>2, <2>1, <2>2 DEF WillRemove
<1>9. ASSUME NEW result, Result(w, result)
      PROVE  \A t \in Temps : temp'[t] # 0 =>
                 \/ temp[t] # 0 /\ ~ unclean /\ ~ WillRemove(t, w)
                 \/ WillRemove(t, w)'
  <2>1. CASE est[w] = "generate"
    <3>1. est'[w] = "list" /\ UNCHANGED <<temp, unclean>>
      BY <1>1, <1>2, <1>9, <2>1 DEF Result, Goto
    <3>2. QED
      BY <1>2, <2>1, <3>1 DEF WillRemove
  <2>2. CASE est[w] # "generate"
    <3>1. est[w] = "encode" /\ unclean' = unclean /\ temp' = Cleaned(w)
      BY <1>9, <2>2 DEF Result
    <3>2. \A t \in Temps : temp'[t] # 0 => t \notin InputsOf(C(w)) /\ temp[t] # 0
      BY <3>1 DEF Cleaned
    <3>3. QED
      BY <1>2, <3>1, <3>2 DEF WillRemove
  <2>3. QED
    BY <2>1, <2>2
<1>10. QED
  BY <1>3, <1>4, <1>5, <1>6, <1>7, <1>8, <1>9 DEF WorkerStep, Return, DryRun

(* The edits, when the commands keep out of each other's way.               *)
LEMMA OthersWriteElsewhere ==
    ASSUME EditorInv, OneEach, NEW w \in Workers, Editing(w)
    PROVE  /\ \A x \in Workers : x # w /\ Editing(x) => C(x).out # C(w).out
           /\ \A y \in Commands \ Pending : OutOf(y) # C(w).out
           /\ InputsOf(C(w)) # {} => Sharing(job[w])
<1> DEFINE p == <<job[w], cmd[w]>>
<1>1. p \in Commands /\ OutOf(p) = C(w).out
  BY CommandAt
<1>2. ASSUME NEW x \in Workers, x # w, Editing(x) PROVE C(x).out # C(w).out
  <2>1. <<job[x], cmd[x]>> \in Commands /\ OutOf(<<job[x], cmd[x]>>) = C(x).out
    BY <1>2, CommandAt
  <2>2. job[x] # job[w]
    BY <1>2 DEF EditorInv, JobInv
  <2>3. <<job[x], cmd[x]>> # <<job[w], cmd[w]>>
    BY <2>2
  <2>4. QED
    BY <1>1, <2>1, <2>3 DEF OneEach
<1>3. p \in Pending
  <2>1. cmd[w] \in Nat
    BY DEF EditorInv, WorkTypes
  <2>2. cmd[w] <= cmd[w]
    BY <2>1
  <2>3. QED
    BY <1>1, <2>2 DEF Pending
<1>4. \A y \in Commands \ Pending : OutOf(y) # C(w).out
  BY <1>1, <1>3 DEF OneEach
<1>5. InputsOf(C(w)) # {} => Sharing(job[w])
  BY CommandAt DEF Sharing, C
<1>6. QED
  BY <1>2, <1>4, <1>5

(* The three parts of EditInv.                                              *)
SharedBy == \A t \in Temps : temp[t] # 0 => Sharing(temp[t])
EncodedBy(w) ==
    est[w] = "encode" =>
        /\ child[w] = "running" /\ reads[w] # {} => audio[C(w).out] = {Partial} /\ reads[w] = {job[w]}
        /\ code[w] = "ok" => audio[C(w).out] = {job[w]}
Whole == ecount.failed = 0 => \A x \in Commands \ Pending : audio[OutOf(x)] = {x[1]}

LEMMA EditParts == EditInv <=> (OneEach => SharedBy /\ (\A w \in Workers : EncodedBy(w)) /\ Whole)
BY DEF EditInv, SharedBy, EncodedBy, Whole

LEMMA WorkerKeepsShared ==
    ASSUME EditorInv, OneEach, SharedBy, NEW w \in Workers, WorkerStep(w)
    PROVE  SharedBy'
<1> USE DEF EditorInv
<1>1. /\ StoreTypes /\ work' = work /\ RCTypeOK /\ ~ aed.dry_run
      /\ \A i : Sharing(i)' <=> Sharing(i)
  BY DEF StoreTypes, EditorTypeOK, WorkTypes, WorkerStep, Sharing, OneEach
<1>2. Editing(w) /\ InputsOf(C(w)) # {} => Sharing(job[w])
  BY OthersWriteElsewhere
<1>3. SUFFICES \A t \in Temps : temp'[t] = temp[t] \/ temp'[t] = 0 \/ Sharing(temp'[t])
  BY <1>1 DEF SharedBy
<1>4. CASE Begin(w) \/ WriteSilenceList(w)
  <2>1. Editing(w) /\ (temp' # temp => C(w).kind \in {"merge", "silence"})
    BY <1>4 DEF Begin, WriteSilenceList, Editing, JobInv
  <2>2. \A t \in Temps : temp'[t] = temp[t] \/ temp'[t] = job[w]
    BY <1>1, <1>4 DEF Begin, WriteSilenceList, StoreTypes
  <2>3. QED
    BY <1>2, <2>1, <2>2 DEF InputsOf
<1>5. CASE Start(w)
  <2>1. est[w] \in Programs
    BY <1>5 DEF Start, Fork, At, JobInv
  <2>2. est[w] = "generate" => C(w).kind = "silence"
    BY DEF JobInv
  <2>3. \A t \in Temps : temp'[t] = temp[t] \/ (est[w] = "generate" /\ temp'[t] = job[w])
    BY <1>1, <1>5 DEF Start, StoreTypes
  <2>4. QED
    BY <1>2, <2>1, <2>2, <2>3 DEF Editing, Programs, InputsOf
<1>6. CASE ListFails(w)
  BY <1>1, <1>6 DEF ListFails, StoreTypes
<1>7. CASE ~ (Begin(w) \/ WriteSilenceList(w) \/ Start(w) \/ ListFails(w))
  BY <1>1, <1>7 DEF WorkerStep, TakeWork, Skip, Invalid, Pipe, ReadOn, ProgramEnds, Return, DryRun, Result,
              Cleaned, edLocals
<1>8. QED
  BY <1>4, <1>5, <1>6, <1>7

(* The encoder reads the sources of its own file.                           *)
LEMMA ReadsItsOwn ==
    ASSUME EditorInv, OneEach, SharedBy, NEW w \in Workers, Editing(w), CanEncode(w)
    PROVE  ReadBy(w) = {job[w]}
<1>1. \A i, j \in DOMAIN work : Sharing(i) /\ Sharing(j) => i = j
  BY DEF OneEach
<1>2. CASE InputsOf(C(w)) = {}
  BY <1>2 DEF ReadBy
<1>3. CASE InputsOf(C(w)) # {}
  <2>1. Sharing(job[w]) /\ job[w] \in DOMAIN work
    BY <1>3, OthersWriteElsewhere, CommandAt
  <2>2. \A t \in InputsOf(C(w)) : temp[t] \in DOMAIN work /\ Sharing(temp[t])
    <3>1. \A t \in InputsOf(C(w)) : t \in Temps /\ temp[t] # 0 /\ temp[t] \in 0 .. Len(work)
      BY CommandAt DEF CanEncode, EditorInv, EditorTypeOK
    <3>2. DOMAIN work = 1 .. Len(work) /\ Len(work) \in Nat
      BY CommandAt
    <3>3. QED
      BY <3>1, <3>2 DEF SharedBy
  <2>3. \A t \in InputsOf(C(w)) : temp[t] = job[w]
    BY <1>1, <2>1, <2>2
  <2>4. QED
    BY <1>3, <2>3 DEF ReadBy
<1>4. QED
  BY <1>2, <1>3

LEMMA WritesItsOutput ==
    ASSUME EditorInv, NEW w \in Workers, WorkerStep(w)
    PROVE  \/ audio' = audio
           \/ est[w] = "encode" /\ \E v : audio' = [audio EXCEPT ![C(w).out] = v]
<1>1. CASE Start(w)
  BY <1>1 DEF Start
<1>2. ASSUME NEW outcome \in {"ok", "failed"}, ProgramEnds(w, outcome)
      PROVE  \/ audio' = audio
             \/ est[w] = "encode" /\ \E v : audio' = [audio EXCEPT ![C(w).out] = v]
  BY <1>2 DEF ProgramEnds
<1>3. CASE ~ (Start(w) \/ \E outcome \in {"ok", "failed"} : ProgramEnds(w, outcome))
  BY <1>3 DEF WorkerStep, TakeWork, Skip, Invalid, Begin, WriteSilenceList, ListFails, Pipe, ReadOn,
              Return, DryRun
<1>4. QED
  BY <1>1, <1>2, <1>3

LEMMA WorkerKeepsEncoded ==
    ASSUME EditorInv, OneEach, SharedBy, \A x \in Workers : EncodedBy(x),
           NEW w \in Workers, WorkerStep(w)
    PROVE  \A x \in Workers : EncodedBy(x)'
<1> USE DEF EditorInv
<1>1. /\ StoreTypes /\ work' = work /\ RCTypeOK /\ RunInv /\ ~ aed.dry_run
      /\ est \in [Workers -> Programs \cup {"idle", "test", "list", "done"}]
  BY DEF StoreTypes, EditorTypeOK, WorkTypes, WorkerStep, OneEach
<1>2. Editing(w) => C(w).out \in Outputs
  BY CommandAt
<1>3. ASSUME NEW x \in Workers, x # w PROVE EncodedBy(x)'
  <2>1. /\ est'[x] = est[x] /\ child'[x] = child[x] /\ code'[x] = code[x] /\ reads'[x] = reads[x]
        /\ job'[x] = job[x] /\ C(x)' = C(x)
    BY <1>1, <1>3, OnlyMine DEF C
  <2>2. est[x] = "encode" => audio'[C(x).out] = audio[C(x).out]
    <3>1. est[x] = "encode" /\ est[w] = "encode" => C(x).out # C(w).out
      BY <1>3, OthersWriteElsewhere DEF Editing
    <3>2. est[x] = "encode" => C(x).out \in Outputs
      BY CommandAt DEF Editing
    <3>3. QED
      BY <1>1, <3>1, <3>2, WritesItsOutput DEF StoreTypes
  <2>3. EncodedBy(x)
    OBVIOUS
  <2>4. QED
    BY <2>1, <2>2, <2>3 DEF EncodedBy
<1>4. EncodedBy(w)'
  <2>1. CASE Start(w)
    <3>1. /\ rc[w] = "pipes" /\ child'[w] = "running" /\ code' = code /\ UNCHANGED <<est, job, cmd>>
      BY <1>1, <2>1 DEF Start, Fork, At, RCTypeOK
    <3>2. est[w] \in Programs /\ child[w] = "none" /\ code[w] # "ok" /\ Editing(w)
      BY <3>1 DEF JobInv, RunInv, Editing, Programs
    <3>3. C(w)' = C(w) /\ C(w).out \in Outputs
      BY <1>1, <1>2, <3>1, <3>2 DEF C
    <3>4. CASE est[w] = "encode" /\ CanEncode(w)
      <4>1. reads' = [reads EXCEPT ![w] = ReadBy(w)] /\ audio' = [audio EXCEPT ![C(w).out] = {Partial}]
        BY <2>1, <3>4 DEF Start
      <4>2. reads'[w] = {job[w]} /\ audio'[C(w).out] = {Partial}
        BY <1>1, <3>2, <3>3, <3>4, <4>1, ReadsItsOwn DEF StoreTypes
      <4>3. QED
        BY <3>1, <3>2, <3>3, <4>2 DEF EncodedBy
    <3>5. CASE est[w] = "encode" /\ ~ CanEncode(w)
      <4>1. reads'[w] = {}
        BY <1>1, <2>1, <3>5 DEF Start, StoreTypes
      <4>2. QED
        BY <3>1, <3>2, <4>1 DEF EncodedBy
    <3>6. QED
      BY <3>1, <3>4, <3>5 DEF EncodedBy
  <2>2. ASSUME NEW outcome \in {"ok", "failed"}, ProgramEnds(w, outcome) PROVE EncodedBy(w)'
    <3>1. /\ child[w] = "running" /\ child'[w] = "closed" /\ code'[w] = outcome
          /\ UNCHANGED <<est, job, cmd, reads>>
      BY <1>1, <2>2 DEF ProgramEnds, ChildCloses, RCTypeOK, edLocals
    <3>2. C(w)' = C(w)
      BY <1>1, <3>1 DEF C
    <3>3. ASSUME est[w] = "encode", outcome = "ok" PROVE audio'[C(w).out] = {job[w]}
      <4>1. reads[w] # {} /\ audio' = [audio EXCEPT ![C(w).out] = (@ \ {Partial}) \cup reads[w]]
        BY <2>2, <3>3 DEF ProgramEnds
      <4>2. audio[C(w).out] = {Partial} /\ reads[w] = {job[w]}
        BY <3>1, <3>3, <4>1 DEF EncodedBy
      <4>3. C(w).out \in Outputs
        BY <1>2, <3>3 DEF Editing
      <4>4. QED
        BY <1>1, <4>1, <4>2, <4>3 DEF StoreTypes
    <3>4. QED
      BY <3>1, <3>2, <3>3 DEF EncodedBy
  <2>3. CASE Pipe(w) \/ ReadOn(w)
    <3>1. UNCHANGED <<est, job, cmd, reads, audio, code>> /\ C(w)' = C(w)
      BY <1>1, <2>3 DEF Pipe, Pipes, ReadOn, CloseWrites, EndOfStream, ChildExits, edLocals, C
    <3>2. child'[w] = "running" => child[w] = "running"
      BY <1>1, <2>3 DEF Pipe, Pipes, ReadOn, CloseWrites, EndOfStream, ChildExits, RCTypeOK
    <3>3. EncodedBy(w)
      OBVIOUS
    <3>4. QED
      BY <3>1, <3>2, <3>3 DEF EncodedBy
  <2>4. CASE Begin(w) \/ WriteSilenceList(w)
    <3>1. rcVars' = rcVars /\ rc[w] = "idle"
      <4>1. rcVars' = rcVars /\ est[w] \in {"test", "list"}
        <5>1. CASE Begin(w)
          BY <5>1 DEF Begin, rcVars
        <5>2. CASE WriteSilenceList(w)
          BY <5>2 DEF WriteSilenceList, rcVars
        <5>3. QED
          BY <2>4, <5>1, <5>2
      <4>2. est[w] \notin Programs
        BY <4>1 DEF Programs
      <4>3. QED
        BY <4>1, <4>2 DEF JobInv
    <3>2. child'[w] = "none" /\ code'[w] # "ok"
      BY <3>1 DEF RunInv, rcVars
    <3>3. QED
      BY <3>2 DEF EncodedBy
  <2>5. CASE TakeWork(w) \/ Skip(w) \/ Invalid(w) \/ ListFails(w)
    <3>1. est'[w] # "encode"
      BY <1>1, <2>5 DEF TakeWork, Skip, Invalid, ListFails, NextCommand, Goto
    <3>2. QED
      BY <3>1 DEF EncodedBy
  <2>6. CASE Return(w)
    <3>1. est'[w] # "encode"
      BY <1>1, <2>6 DEF Return, Result, NextCommand, Goto
    <3>2. QED
      BY <3>1 DEF EncodedBy
  <2>7. CASE DryRun(w)
    BY <1>1, <2>7 DEF DryRun
  <2>8. QED
    BY <2>1, <2>2, <2>3, <2>4, <2>5, <2>6, <2>7 DEF WorkerStep
<1>5. QED
  BY <1>3, <1>4

LEMMA WorkerKeepsWhole ==
    ASSUME EditorInv, OneEach, Whole, \A x \in Workers : EncodedBy(x), NEW w \in Workers, WorkerStep(w)
    PROVE  Whole'
<1> USE DEF EditorInv
<1>1. /\ StoreTypes /\ UNCHANGED <<work, aed>> /\ RCTypeOK /\ aed.overwrite /\ ~ aed.dry_run
      /\ ecount \in [{"executed", "failed", "skipped"} -> Nat]
      /\ est \in [Workers -> Programs \cup {"idle", "test", "list", "done"}]
  BY DEF StoreTypes, EditorTypeOK, WorkTypes, WorkerStep, OneEach
<1>2. Commands' = Commands /\ \A y : OutOf(y)' = OutOf(y)
  BY <1>1 DEF Commands, OutOf
<1>3. ASSUME NEW y \in Commands \ Pending PROVE audio'[OutOf(y)] = audio[OutOf(y)]
  <2>1. est[w] = "encode" => OutOf(y) # C(w).out
    BY OthersWriteElsewhere DEF Editing
  <2>2. OutOf(y) \in Outputs
    BY DEF EditorTypeOK, Commands, OutOf
  <2>3. QED
    BY <1>1, <2>1, <2>2, WritesItsOutput DEF StoreTypes
<1>4. CASE TakeWork(w) \/ Stays(w)
  <2>1. Pending' = Pending /\ ecount' = ecount
    BY <1>1, <1>4, TakeKeepsPlace, StayKeepsPlace DEF TakeWork, Stays
  <2>2. QED
    BY <1>2, <1>3, <2>1 DEF Whole
<1>5. CASE Passes(w)
  <2>1. Pending' = Pending \ {<<job[w], cmd[w]>>} /\ Editing(w)
    BY <1>1, <1>5, PassKeepsPlace DEF Passes
  <2>2. <<job[w], cmd[w]>> \in Commands /\ OutOf(<<job[w], cmd[w]>>) = C(w).out
    BY <2>1, CommandAt
  <2>3. CASE Outcome("failed")
    <3>1. ecount'.failed = ecount.failed + 1 /\ ecount.failed \in Nat
      BY <1>1, <2>3 DEF Outcome
    <3>2. QED
      BY <3>1 DEF Whole
  <2>4. CASE ~ Outcome("failed")
    <3>1. est[w] = "encode" /\ audio' = audio /\ Outcome("executed") /\ code[w] = "ok"
      <4>1. Return(w)
        <5>1. ~ TakeWork(w)
          BY <2>1 DEF TakeWork, Editing
        <5>2. ~ (Skip(w) \/ Invalid(w) \/ ListFails(w) \/ DryRun(w))
          BY <1>1, <2>4 DEF Skip, Invalid, ListFails, DryRun
        <5>3. ecount' # ecount
          <6>1. PICK o \in {"executed", "failed", "skipped"} : Outcome(o)
            BY <1>5 DEF Passes
          <6>2. ecount'[o] = ecount[o] + 1 /\ ecount[o] \in Nat
            BY <1>1, <6>1 DEF Outcome
          <6>3. QED
            BY <6>2
        <5>4. ~ (Begin(w) \/ WriteSilenceList(w) \/ Pipe(w) \/ Start(w) \/ ReadOn(w)
                 \/ \E outcome \in {"ok", "failed"} : ProgramEnds(w, outcome))
          <6>1. ~ (Begin(w) \/ WriteSilenceList(w) \/ Start(w))
            BY <5>3 DEF Begin, WriteSilenceList, Start, rcVars
          <6>2. ~ (Pipe(w) \/ ReadOn(w))
            BY <5>3 DEF Pipe, ReadOn, edLocals
          <6>3. ASSUME NEW outcome, ProgramEnds(w, outcome) PROVE FALSE
            BY <5>3, <6>3 DEF ProgramEnds, edLocals
          <6>4. QED
            BY <6>1, <6>2, <6>3
        <5>5. QED
          BY <5>1, <5>2, <5>4 DEF WorkerStep
      <4>2. PICK result \in {"ok", "failed"} : Returns(w, result) /\ Result(w, result)
        BY <4>1 DEF Return
      <4>3. ~ (est[w] = "generate" /\ result = "ok" /\ Goto(w, "list"))
        <5>1. est'[w] \in {"test", "idle"}
          BY <1>1, <1>5 DEF Passes, NextCommand, Goto
        <5>2. QED
          BY <1>1, <5>1 DEF Goto
      <4>4. est[w] = "encode" /\ result = "ok" /\ Outcome("executed")
        BY <2>4, <4>2, <4>3 DEF Result
      <4>5. code[w] = "ok"
        BY <4>2, <4>4 DEF Returns, Reaped
      <4>6. QED
        BY <4>1, <4>4, <4>5 DEF Return
    <3>2. audio[C(w).out] = {job[w]}
      BY <3>1 DEF EncodedBy
    <3>3. ecount'.failed = ecount.failed
      BY <1>1, <3>1 DEF Outcome
    <3>4. QED
      BY <1>2, <1>3, <2>1, <2>2, <3>1, <3>2, <3>3 DEF Whole
  <2>5. QED
    BY <2>3, <2>4
<1>6. QED
  BY <1>4, <1>5, EditorMoves

(* A worker's step keeps the whole of the editor's invariant.               *)
LEMMA WorkerIsSafe ==
    ASSUME EditorInv, editor = "run", NEW w \in Workers, WorkerStep(w)
    PROVE  EditorInv'
<1> USE DEF EditorInv
<1>1. UNCHANGED <<editor, aed, work, aed_status>>
  BY DEF WorkerStep
<1>2. RunInv' /\ ProgramInv' /\ StoreTypes' /\ TempInv'
  BY WorkerKeepsProgram, WorkerKeepsStores, WorkerKeepsTemps
<1>3. PlaceTypes' /\ PlaceInv' /\ TallyInv'
  BY <1>1, EditorMoves, TakeKeepsPlace, PassKeepsPlace, StayKeepsPlace
<1>4. EditorTypeOK'
  <2>1. RCTypeOK'
    BY <1>2 DEF RunInv
  <2>2. /\ editor' \in {"idle", "run", "ended"} /\ file_idx' \in Nat \ {0}
        /\ aed_status' \in {"none", "success", "partial", "failed"}
        /\ est' \in [Workers -> Programs \cup {"idle", "test", "list", "done"}]
        /\ (temp \in [Temps -> 0 .. Len(work)])'
        /\ (audio \in [Outputs -> SUBSET ((1 .. Len(work)) \cup {Partial})])'
    BY <1>1, <1>2, <1>3 DEF EditorTypeOK, PlaceTypes, StoreTypes
  <2>3. (\A v \in Workers : est[v] \notin {"idle", "done"} =>
             job[v] \in DOMAIN work /\ cmd[v] \in DOMAIN work[job[v]])'
    BY <1>3 DEF PlaceTypes, Editing
  <2>4. (\A i \in DOMAIN work : \A k \in DOMAIN work[i] :
             work[i][k].kind \in Kinds /\ work[i][k].out \in Outputs)'
    BY <1>1 DEF EditorTypeOK
  <2>5. QED
    BY <2>1, <2>2, <2>3, <2>4 DEF EditorTypeOK
<1>5. WorkTypes'
  BY <1>1, <1>2, <1>3 DEF WorkTypes, PlaceTypes, StoreTypes
<1>6. NodeInv' /\ StatusInv'
  BY <1>1 DEF NodeInv, StatusInv
<1>7. JobInv'
  BY <1>2, <1>3 DEF JobInv, PlaceInv, ProgramInv
<1>8. EditInv'
  <2>1. OneEach' => OneEach
    BY <1>1 DEF OneEach, Commands, OutOf, Sharing
  <2>2. ASSUME OneEach PROVE SharedBy' /\ (\A x \in Workers : EncodedBy(x)') /\ Whole'
    <3>1. SharedBy /\ (\A x \in Workers : EncodedBy(x)) /\ Whole
      BY <2>2, EditParts
    <3>2. QED
      BY <2>2, <3>1, WorkerKeepsShared, WorkerKeepsEncoded, WorkerKeepsWhole
  <2>3. QED
    BY <2>1, <2>2 DEF EditInv, SharedBy, EncodedBy, Whole
<1>9. QED
  BY <1>2, <1>3, <1>4, <1>5, <1>6, <1>7, <1>8

LEMMA EditorKeepsInv == EditorInv /\ EditorStep => EditorInv'
<1> SUFFICES ASSUME EditorInv, EditorStep PROVE EditorInv'
  OBVIOUS
<1>1. CASE EditorEnds
  BY <1>1, EndIsSafe
<1>2. ASSUME NEW w \in Workers, WorkerStep(w) PROVE EditorInv'
  <2>1. CASE editor = "run"
    BY <1>2, <2>1, WorkerIsSafe
  <2>2. CASE editor # "run"
    <3>1. ~ Editing(w) /\ rc[w] = "idle" /\ child[w] = "none"
      BY <2>2 DEF EditorInv, NodeInv, JobInv, Editing, Programs, RunInv
    <3>2. QED
      BY <1>2, <2>2, <3>1 DEF WorkerStep, Editing, Programs, TakeWork, Skip, Invalid, Begin,
            WriteSilenceList, ListFails, Pipe, Start, Fork, ReadOn, CloseWrites, EndOfStream, ChildExits,
            At, Return, DryRun, ProgramEnds, ChildCloses
  <2>3. QED
    BY <2>1, <2>2
<1>3. QED
  BY <1>1, <1>2 DEF EditorStep

(* What the editor promises follows from its invariant.                     *)
LEMMA EditorIsSafe ==
    EditorInv => HoldersWillClose /\ EachCommandCounted /\ SuccessMeansEdited /\ TempFilesGone
<1> SUFFICES ASSUME EditorInv
             PROVE  HoldersWillClose /\ EachCommandCounted /\ SuccessMeansEdited /\ TempFilesGone
  OBVIOUS
<1> USE DEF EditorInv
<1>1. HoldersWillClose
  BY DEF RunInv
<1>2. editor = "ended" => Pending = {}
  <2> SUFFICES ASSUME editor = "ended", NEW x \in Pending PROVE FALSE
    OBVIOUS
  <2>1. x \in Commands /\ ~ \E w \in Workers : Editing(w)
    BY DEF Pending, NodeInv
  <2>2. x[1] \in DOMAIN work /\ x[1] >= file_idx
    BY <2>1 DEF Pending, Commands
  <2>3. Len(work) \in Nat /\ DOMAIN work = 1 .. Len(work)
    BY DEF WorkTypes
  <2>4. \A w \in Workers : est[w] = "done"
    BY <2>2, <2>3 DEF NodeInv
  <2>5. file_idx > Len(work)
    BY <2>4, WorkersAssumption DEF JobInv
  <2>6. QED
    BY <2>2, <2>3, <2>5 DEF EditorTypeOK
<1>3. EachCommandCounted
  <2> SUFFICES ASSUME editor = "ended" PROVE Handled = Cardinality(Commands)
    BY DEF EachCommandCounted, Handled
  <2>1. Cardinality(Pending) = 0
    BY <1>2, FS_EmptySet
  <2>2. Handled \in Nat
    BY DEF WorkTypes, Handled
  <2>3. QED
    BY <2>1, <2>2 DEF TallyInv
<1>4. SuccessMeansEdited
  <2> SUFFICES ASSUME editor = "ended", aed_status = "success", OneEach, NEW x \in Commands
               PROVE  audio[OutOf(x)] = {x[1]}
    BY DEF SuccessMeansEdited, OneEach
  <2>1. ecount.failed = 0
    BY DEF StatusInv
  <2>2. QED
    BY <1>2, <2>1 DEF EditInv
<1>5. TempFilesGone
  BY DEF TempFilesGone, TempInv, NodeInv, Editing, WillRemove
<1>6. QED
  BY <1>1, <1>3, <1>4, <1>5

-----------------------------------------------------------------------------
(* The commands that the editor's node finds are commands.                  *)
LEMMA ExtractedTypes ==
    ASSUME NEW content, content \subseteq Files \cup {Old, Cut}
    PROVE  Extracted(content) \subseteq Seq(EditCommand)
<1>1. \A f \in Files \cup {Old} : Script[f] \in Seq(EditCommand)
  BY ScriptAssumption DEF EditCommand
<1>2. \A f \in Files \cup {Old} : Prefixes(Script[f]) \subseteq Seq(EditCommand)
  <2> TAKE f \in Files \cup {Old}
  <2>1. PICK s \in Seq(EditCommand) : s = Script[f]
    BY <1>1
  <2>2. ASSUME NEW l \in 0 .. Len(s) PROVE SubSeq(s, 1, l) \in Seq(EditCommand)
    <3>1. l \in Int /\ \A i \in 1 .. l : s[i] \in EditCommand
      OBVIOUS
    <3>2. QED
      BY <3>1, SubSeqProperties
  <2>3. QED
    BY <2>1, <2>2 DEF Prefixes
<1>3. \A f \in content \ {Cut} : f \in Files \cup {Old}
  OBVIOUS
<1>4. <<>> \in Seq(EditCommand)
  OBVIOUS
<1>5. CASE Cardinality(content \ {Cut}) = 1 /\ Cut \notin content
  <2>1. Extracted(content) = {Script[f] : f \in content \ {Cut}}
    BY <1>5 DEF Extracted
  <2>2. QED
    BY <1>1, <1>3, <2>1
<1>6. CASE ~ (Cardinality(content \ {Cut}) = 1 /\ Cut \notin content)
  <2>1. Extracted(content) = {<<>>} \cup UNION {Prefixes(Script[f]) : f \in content \ {Cut}}
    BY <1>6 DEF Extracted
  <2>2. QED
    BY <1>2, <1>3, <1>4, <2>1
<1>7. QED
  BY <1>5, <1>6

LEMMA NamesAreCounted == \E n \in Nat : DOMAIN Names = 1 .. n
<1>1. IsFiniteSet(Stems)
  <2> DEFINE f == [i \in DOMAIN Inputs |-> Stem[Inputs[i]]]
  <2>1. IsFiniteSet(1 .. Len(Inputs))
    <3>1. \A n \in Nat : IsFiniteSet(1 .. n)
      <4>1. SUFFICES ASSUME NEW n \in Nat
                     PROVE  IsFiniteSet(1 .. n)
        OBVIOUS
      <4>2. 1 \in Int /\ n \in Int
        OBVIOUS
      <4>3. QED
        BY ONLY <4>2, FS_Interval
    <3>2. Len(Inputs) \in Nat
      BY InputFacts
    <3>3. QED
      BY ONLY <3>1, <3>2
  <2>2. IsFiniteSet(DOMAIN Inputs)
    BY <2>1, InputFacts
  <2>3. f \in Surjection(DOMAIN Inputs, Stems)
    BY DEF Surjection, Stems, Files
  <2>4. QED
    BY <2>2, <2>3, FS_Surjection
<1>2. PICK n \in Nat : n = Cardinality(Stems) /\ ExistsBijection(1 .. n, Stems)
  BY <1>1, FS_CardinalityType
<1>3. PICK f \in [1 .. n -> Stems] : IsInjective(f)
  BY <1>2 DEF ExistsBijection, Bijection, Injection
<1>4. Names = CHOOSE f_1 \in [1 .. n -> Stems] : IsInjective(f_1)
  BY <1>2 DEF Names, SetToSeq
<1>5. Names \in [1 .. n -> Stems]
  BY <1>3, <1>4
<1>6. QED
  BY <1>5

LEMMA FoundTypes ==
    ASSUME AnalyzerInv, NEW r \in Reported,
           NEW t \in [DOMAIN Names -> UNION {Analysed(s) : s \in Stems}]
    PROVE  <<r>> \o t \in Seq(Seq(EditCommand))
<1> USE DEF AnalyzerInv
<1>1. \A s \in Stems : out[s] # Absent =>
          out[s] \in Files \cup {Old} /\ data[out[s]] \subseteq Files \cup {Old, Cut}
  BY DEF AnalyzerTypeOK
<1>2. <<>> \in Seq(EditCommand)
  OBVIOUS
<1>3. r \in Seq(EditCommand)
  <2>1. CASE report = "all"
    <3>1. PICK k \in DOMAIN output_files : r \in Extracted(data[out[output_files[k]]])
      BY <2>1 DEF Reported
    <3>2. output_files[k] \in Stems /\ out[output_files[k]] # Absent
      BY DEF AnalyzerTypeOK, ReportInv
    <3>3. data[out[output_files[k]]] \subseteq Files \cup {Old, Cut}
      BY <1>1, <3>2
    <3>4. QED
      BY <3>1, <3>3, ExtractedTypes
  <2>2. CASE report # "all"
    BY <1>2, <2>2 DEF Reported
  <2>3. QED
    BY <2>1, <2>2
<1>4. \A s \in Stems : Analysed(s) \subseteq Seq(EditCommand)
  <2> TAKE s \in Stems
  <2>1. CASE out[s] = Absent
    BY <1>2, <2>1 DEF Analysed
  <2>2. CASE out[s] # Absent
    <3>1. Analysed(s) = Extracted(data[out[s]])
      BY <2>2 DEF Analysed
    <3>2. QED
      BY <1>1, <2>2, <3>1, ExtractedTypes
  <2>3. QED
    BY <2>1, <2>2
<1>5. PICK n \in Nat : DOMAIN Names = 1 .. n
  BY NamesAreCounted
<1>6. t \in [1 .. n -> Seq(EditCommand)]
  BY <1>4, <1>5
<1>7. t \in Seq(Seq(EditCommand))
  BY <1>6, FunctionIsSeq
<1>8. <<r>> \in Seq(Seq(EditCommand))
  BY <1>3
<1>9. QED
  BY <1>7, <1>8, ConcatProperties

-----------------------------------------------------------------------------
(* A node keeps its invariant while the other one is at work.               *)
LEMMA AnalyzerAside ==
    ASSUME AnalyzerInv, UNCHANGED analyzerVars
    PROVE  AnalyzerInv'
<1>1. UNCHANGED <<analyzer, llm, idx, at, file, segment, text, ofs, count, output_files, out, tmp,
                  data, report, llm_status>>
  BY DEF analyzerVars, analyzerLocals, llmDisk
<1>2. AnalyzerTypeOK'
  BY <1>1 DEF AnalyzerInv, AnalyzerTypeOK
<1>3. PhaseInv' /\ ShareInv' /\ TmpInv' /\ ReportInv'
  BY <1>1 DEF AnalyzerInv, PhaseInv, ShareInv, TmpInv, ReportInv, Busy
<1>4. CountInv'
  BY <1>1 DEF AnalyzerInv, CountInv, Counted, BusyOnes, DoneOnes, TakenFiles, Busy
<1>5. InodeInv' /\ OutputInv'
  BY <1>1 DEF AnalyzerInv, InodeInv, OutputInv, Busy
<1>6. QED
  BY <1>1, <1>2, <1>3, <1>4, <1>5 DEF AnalyzerInv

LEMMA EditorAside ==
    ASSUME EditorInv, UNCHANGED edVars
    PROVE  EditorInv'
<1>1. UNCHANGED <<editor, aed, work, file_idx, job, cmd, est, reads, ecount, temp, audio, unclean,
                  aed_status, rc, child, code, holders, verbose>>
  BY DEF edVars, edLocals, rcVars
<1>2. RunInv' /\ EditorTypeOK' /\ WorkTypes'
  BY <1>1 DEF EditorInv, RunInv, RCTypeOK, HoldersWillClose, EditorTypeOK, WorkTypes
<1>3. NodeInv' /\ StatusInv' /\ JobInv' /\ TempInv'
  BY <1>1 DEF EditorInv, NodeInv, Handled, StatusInv, JobInv, TempInv, WillRemove, C, Editing
<1>4. Commands' = Commands /\ Pending' = Pending
  BY <1>1 DEF Commands, Pending, Editing
<1>5. TallyInv' /\ OneEach' = OneEach
  BY <1>1, <1>4 DEF EditorInv, TallyInv, Handled, OneEach, Sharing, OutOf
<1>6. EditInv'
  BY <1>1, <1>4, <1>5 DEF EditorInv, EditInv, Sharing, OutOf, C
<1>7. QED
  BY <1>2, <1>3, <1>5, <1>6 DEF EditorInv

-----------------------------------------------------------------------------
(* The two nodes share the analyses only, which are read in one step.       *)
PipelineInv == AnalyzerInv /\ EditorInv

(* The invariant is inductive: it holds at first, and every step of either  *)
(* node, the start of the second one included, keeps it.                    *)
THEOREM InductiveInvariant == Spec => []PipelineInv
<1>1. Init => PipelineInv
  BY AnalyzerBegins, EditorBegins DEF Init, PipelineInv
<1>2. PipelineInv /\ [Next]_vars => PipelineInv'
  <2> SUFFICES ASSUME PipelineInv, [Next]_vars PROVE PipelineInv'
    OBVIOUS
  <2> USE DEF PipelineInv
  <2>1. CASE AnalyzerNode
    BY <2>1, AnalyzerKeepsInv, EditorAside DEF AnalyzerNode
  <2>2. CASE StartEditor
    <3>1. AnalyzerInv'
      BY <2>2, ForgottenIsSafe DEF StartEditor
    <3>2. PICK r \in Reported, t \in [DOMAIN Names -> UNION {Analysed(s) : s \in Stems}] :
              EditorStarts(<<r>> \o t)
      BY <2>2 DEF StartEditor
    <3>3. <<r>> \o t \in Seq(Seq(EditCommand))
      BY FoundTypes
    <3>4. EditorInv'
      BY <3>2, <3>3, StartIsSafe
    <3>5. QED
      BY <3>1, <3>4
  <2>3. CASE RefuseEditor
    BY <2>3, RefusalIsSafe, AnalyzerAside DEF RefuseEditor
  <2>4. CASE EditorNode
    BY <2>4, EditorKeepsInv, AnalyzerAside DEF EditorNode
  <2>5. CASE UNCHANGED vars
    BY <2>5, AnalyzerAside, EditorAside DEF vars
  <2>6. QED
    BY <2>1, <2>2, <2>3, <2>4, <2>5 DEF Next
<1>3. QED
  BY <1>1, <1>2, PTL DEF Spec

(* Both nodes keep to their types: the counters do not exceed what there is *)
(* to count, and a worker at a command has one.                             *)
THEOREM TypeCorrect == Spec => []PipelineTypeOK
<1>1. PipelineInv => PipelineTypeOK
  BY DEF PipelineInv, AnalyzerInv, EditorInv, PipelineTypeOK
<1>2. QED
  BY <1>1, InductiveInvariant, PTL

(* Every input file is counted once by the workers of the analyzer, and the *)
(* list of its outputs has those that are counted as analysed.              *)
THEOREM InputsAreCounted == Spec => []CountsAddUp
<1>1. PipelineInv => CountsAddUp
  BY AnalyzerIsSafe DEF PipelineInv
<1>2. QED
  BY <1>1, InductiveInvariant, PTL

(* The analyzer's workers leave no temporary file of an analysis, even when *)
(* several inputs share one and whichever renames fail, if it can be        *)
(* removed.                                                                 *)
THEOREM AnalysesLeaveNoTmp == Spec => []NoTmpLeft
<1>1. PipelineInv => NoTmpLeft
  BY AnalyzerIsSafe DEF PipelineInv
<1>2. QED
  BY <1>1, InductiveInvariant, PTL

(* On a disk that is not full an analysis is absent, of an earlier run or   *)
(* complete when its stem has one source, in every state; else not empty.   *)
THEOREM AnalysesAreWhole == Spec => []OutputsWhole
<1>1. PipelineInv => OutputsWhole
  BY AnalyzerIsSafe DEF PipelineInv
<1>2. QED
  BY <1>1, InductiveInvariant, PTL

(* runCommand(): a stream that a worker reads to its end is held open only  *)
(* by children that run and by parents between fork() and close().          *)
THEOREM StreamsWillEnd == Spec => []HoldersWillClose
<1>1. PipelineInv => HoldersWillClose
  BY EditorIsSafe DEF PipelineInv
<1>2. QED
  BY <1>1, InductiveInvariant, PTL

(* Every command of every instruction file is counted once: executed,       *)
(* failed or skipped.                                                       *)
THEOREM CommandsAreCounted == Spec => []EachCommandCounted
<1>1. PipelineInv => EachCommandCounted
  BY EditorIsSafe DEF PipelineInv
<1>2. QED
  BY <1>1, InductiveInvariant, PTL

(* The editor's "success" means that each output is made of the sources of  *)
(* its own file, when the commands keep out of each other's way.            *)
THEOREM SuccessIsEarned == Spec => []SuccessMeansEdited
<1>1. PipelineInv => SuccessMeansEdited
  BY EditorIsSafe DEF PipelineInv
<1>2. QED
  BY <1>1, InductiveInvariant, PTL

(* The lists and the silences that the workers share are unlinked by one of *)
(* them, unless a generation has failed.                                    *)
THEOREM EditsLeaveNoTemp == Spec => []TempFilesGone
<1>1. PipelineInv => TempFilesGone
  BY EditorIsSafe DEF PipelineInv
<1>2. QED
  BY <1>1, InductiveInvariant, PTL

-----------------------------------------------------------------------------
(* runCommand(): a worker of the editor waits for its own program or for    *)
(* one that has inherited its pipes, and that one can go on without it, as  *)
(* long as no program fills its stderr.  The wait is never longer than      *)
(* that, however many workers fork at once.                                 *)
THEOREM NobodyWaitsInVain == Spec => []NoWaitInVain
<1>1. PipelineInv => NoWaitInVain
  <2> SUFFICES ASSUME EditorInv, ~verbose, NEW w \in Workers, est[w] # "done"
               PROVE  \E v \in {w} \cup (holders[w] \ {Parent}) : CanMove(v)
    BY DEF PipelineInv, NoWaitInVain
  <2> USE DEF EditorInv
  <2>1. /\ est[w] \in Programs \cup {"idle", "test", "list"}
        /\ rc[w] \in {"idle", "pipes", "forked", "stdout", "stderr", "wait"}
        /\ child[w] \in {"none", "running", "closed", "exited"}
    BY DEF EditorTypeOK, RCTypeOK
  <2>2. CASE est[w] \in {"idle", "test", "list"}
    BY <2>2 DEF CanMove
  <2>3. CASE est[w] \in Programs /\ rc[w] \in {"idle", "pipes", "forked"}
    BY <2>3 DEF CanMove
  <2>4. CASE rc[w] \in {"stdout", "stderr"}
    <3>1. CASE holders[w] = {}
      BY <2>4, <3>1 DEF CanMove
    <3>2. ASSUME NEW v \in holders[w] PROVE v # Parent /\ child[v] = "running"
      BY <2>4, <3>2 DEF RunInv, HoldersWillClose
    <3>3. QED
      BY <3>1, <3>2 DEF CanMove
  <2>5. CASE rc[w] = "wait"
    <3>1. child[w] # "none"
      BY <2>5 DEF RunInv
    <3>2. QED
      BY <2>1, <2>5, <3>1 DEF CanMove
  <2>6. QED
    BY <2>1, <2>2, <2>3, <2>4, <2>5
<1>2. QED
  BY <1>1, InductiveInvariant, PTL

-----------------------------------------------------------------------------
(* No step is repeated: what either node can still do is counted, and every *)
(* step of the node makes the count smaller.                                *)

(* What a worker of the analyzer has left to do with its file, and what is  *)
(* left to do with the files.                                               *)
FileRank(w) == CASE at[w] = "check"   -> Segments[file[w]] + 6
                 [] at[w] = "call"    -> Segments[file[w]] - segment[w] + 5
                 [] at[w] = "combine" -> 5
                 [] at[w] = "open"    -> 4
                 [] at[w] = "write"   -> 3
                 [] at[w] = "rename"  -> 2
                 [] at[w] = "remove"  -> 1
Untaken(f)  == \E i \in DOMAIN Inputs : i >= idx /\ Inputs[i] = f
FileSteps   == {p \in Files \X (Nat \ {0}) :
                   /\ p[2] <= Segments[p[1]] + 7
                   /\ \/ Untaken(p[1])
                      \/ \E w \in Analyzers : Busy(w) /\ file[w] = p[1] /\ p[2] <= FileRank(w)}
NotDone     == {w \in Analyzers : at[w] # "done"}
PhaseRank   == CASE analyzer = "collect" -> 4
                 [] analyzer = "run"     -> 3
                 [] analyzer = "merge"   -> 2
                 [] analyzer = "finish"  -> 1
                 [] OTHER                -> 0
AnalyzerTodo == IF analyzer = "ended" THEN 0
                ELSE PhaseRank + Cardinality(NotDone) + Cardinality(FileSteps)

(* A text is analysed while it has pieces left.                             *)
SegmentInv ==
    \A w \in Analyzers : /\ at[w] = "check" => segment[w] = 0
                         /\ at[w] = "call" => segment[w] < Segments[file[w]]

(* The same for the editor: its programs, each with its worker, are steps   *)
(* of a command.                                                            *)
ChildRank(c)      == CASE c = "running" -> 2 [] c = "closed" -> 1 [] OTHER -> 0
ProgramRank(r, c) == CASE r = "idle"   -> 9
                       [] r = "pipes"  -> 8
                       [] r = "forked" -> 5 + ChildRank(c)
                       [] r = "stdout" -> 4 + ChildRank(c)
                       [] r = "stderr" -> 3 + ChildRank(c)
                       [] r = "wait"   -> 2 + ChildRank(c)
PlaceRank(e, r, c) == CASE e = "test"     -> 25
                        [] e = "generate" -> 14 + ProgramRank(r, c)
                        [] e = "list"     -> 13
                        [] e = "encode"   -> ProgramRank(r, c)
CommandRank(w) == PlaceRank(est[w], rc[w], child[w])
IsAt(w, x)     == Editing(w) /\ job[w] = x[1] /\ cmd[w] = x[2]
CommandSteps   == {p \in Pending \X (1 .. 26) :
                      \A w \in Workers : IsAt(w, p[1]) => p[2] <= CommandRank(w)}
Awake          == {w \in Workers : est[w] # "done"}
EditorTodo     == IF editor = "run" THEN 1 + Cardinality(Awake) + Cardinality(CommandSteps)
                  ELSE 0

EachStepCounts ==
    [][/\ AnalyzerNode => AnalyzerTodo' < AnalyzerTodo /\ UNCHANGED edVars
       /\ StartEditor \/ RefuseEditor => editor = "idle" /\ editor' # "idle" /\ analyzer' = "ended"
       /\ EditorNode => EditorTodo' < EditorTodo /\ editor' # "idle" /\ UNCHANGED analyzerVars]_vars

LEMMA Shrinks ==
    ASSUME NEW U, IsFiniteSet(U), NEW T, T \subseteq U
    PROVE  /\ Cardinality(T) \in Nat /\ Cardinality(U) \in Nat
           /\ Cardinality(T) <= Cardinality(U)
           /\ T # U => Cardinality(T) < Cardinality(U)
<1>1. /\ IsFiniteSet(T) /\ Cardinality(T) <= Cardinality(U)
      /\ Cardinality(U) = Cardinality(T) => U = T
  BY FS_Subset
<1>2. Cardinality(T) \in Nat /\ Cardinality(U) \in Nat
  BY <1>1, FS_CardinalityType
<1>3. QED
  BY <1>1, <1>2

LEMMA FileStepsFinite == IsFiniteSet(FileSteps)
<1> DEFINE Row(f) == {f} \X (1 .. Segments[f] + 7)
           Rows   == {Row(f) : f \in Files}
           row    == [f \in Files |-> Row(f)]
<1>1. IsFiniteSet(Files)
  <2> DEFINE nth == [i \in 1 .. Len(Inputs) |-> Inputs[i]]
  <2>1. 1 \in Int /\ Len(Inputs) \in Int
    BY InputFacts
  <2>2. IsFiniteSet(1 .. Len(Inputs))
    BY ONLY <2>1, FS_Interval
  <2>3. nth \in Surjection(1 .. Len(Inputs), Files)
    BY InputFacts DEF Surjection, Files
  <2>4. QED
    BY <2>2, <2>3, FS_Surjection
<1>2. ASSUME NEW f \in Files PROVE IsFiniteSet(Row(f))
  <2>1. 1 \in Int /\ Segments[f] + 7 \in Int
    BY AnalyzerAssumption
  <2>2. IsFiniteSet(1 .. Segments[f] + 7)
    BY ONLY <2>1, FS_Interval
  <2>3. QED
    BY <2>2, FS_Singleton, FS_Product
<1>3. row \in Surjection(Files, Rows)
  BY DEF Surjection
<1>4. IsFiniteSet(Rows)
  BY <1>1, <1>3, FS_Surjection
<1>5. IsFiniteSet(UNION Rows)
  BY <1>2, <1>4, FS_UNION
<1>6. FileSteps \in SUBSET (UNION Rows)
  <2>1. SUFFICES ASSUME NEW p \in FileSteps PROVE p \in UNION Rows
    OBVIOUS
  <2>2. p[1] \in Files /\ p[2] \in 1 .. Segments[p[1]] + 7 /\ p = <<p[1], p[2]>>
    BY <2>1, AnalyzerAssumption DEF FileSteps
  <2>3. p \in Row(p[1])
    BY <2>2
  <2>4. QED
    BY <2>2, <2>3
<1>7. QED
  BY <1>5, <1>6, FS_Subset

(* What a worker's place is worth, before and after a step.                 *)
LEMMA FileRankFacts ==
    ASSUME AnalyzerInv, SegmentInv, NEW w \in Analyzers, Busy(w)
    PROVE  FileRank(w) \in Nat \ {0} /\ FileRank(w) <= Segments[file[w]] + 6
<1>1. /\ at[w] \in {"check", "call", "combine", "open", "write", "rename", "remove"}
      /\ Segments[file[w]] \in Nat \ {0} /\ segment[w] \in Nat
  BY BusyHasFile, AnalyzerAssumption DEF AnalyzerInv, AnalyzerTypeOK, Busy
<1>2. CASE at[w] = "call"
  <2>1. FileRank(w) = Segments[file[w]] - segment[w] + 5 /\ segment[w] < Segments[file[w]]
    BY <1>2 DEF FileRank, SegmentInv
  <2>2. QED
    BY <1>1, <2>1
<1>3. CASE at[w] = "check"
  <2>1. FileRank(w) = Segments[file[w]] + 6
    BY <1>3 DEF FileRank
  <2>2. QED
    BY <1>1, <2>1
<1>4. CASE at[w] \in {"combine", "open", "write", "rename", "remove"}
  BY <1>1, <1>4 DEF FileRank
<1>5. QED
  BY <1>1, <1>2, <1>3, <1>4

LEMMA FileRankDrops ==
    ASSUME AnalyzerInv, SegmentInv, NEW w \in Analyzers, processFile(w)
    PROVE  /\ ~Busy(w)' \/ FileRank(w)' < FileRank(w)
           /\ at'[w] \notin {"check", "done"}
           /\ at'[w] = "call" => segment'[w] < Segments[file[w]]
           /\ Busy(w) /\ UNCHANGED <<idx, file>>
           /\ \A x \in Analyzers : x # w => at'[x] = at[x] /\ segment'[x] = segment[x]
<1>1. Busy(w)
  BY DEF processFile, SkipFile, ReadFile, Analyse, Combine, OpenTmp, WriteTmp, RenameTmp, RenameFails,
         RemoveTmp, Step, Counts, Busy
<1>2. /\ at \in [Analyzers -> {"idle", "check", "call", "combine", "open", "write", "rename",
                                "remove", "done"}]
      /\ segment \in [Analyzers -> Nat] /\ Segments[file[w]] \in Nat \ {0} /\ segment[w] \in Nat
  BY <1>1, BusyHasFile, AnalyzerAssumption DEF AnalyzerInv, AnalyzerTypeOK
<1>3. UNCHANGED <<idx, file>> /\ \A x \in Analyzers : x # w => at'[x] = at[x] /\ segment'[x] = segment[x]
  BY <1>2 DEF processFile, SkipFile, ReadFile, Analyse, Combine, OpenTmp, WriteTmp, RenameTmp,
              RenameFails, RemoveTmp, Step, Counts
<1>4. CASE SkipFile(w)
  <2>1. at'[w] = "idle"
    BY <1>2, <1>4 DEF SkipFile, Counts, Step
  <2>2. QED
    BY <1>1, <1>3, <2>1 DEF Busy
<1>5. CASE ReadFile(w)
  <2>1. at[w] = "check" /\ at'[w] \in {"call", "idle"} /\ segment' = segment /\ file' = file
    BY <1>2, <1>5 DEF ReadFile, Counts, Step
  <2>2. segment[w] = 0
    BY <2>1 DEF SegmentInv
  <2>3. FileRank(w) = Segments[file[w]] + 6
    BY <2>1 DEF FileRank
  <2>4. at'[w] = "call" => FileRank(w)' = Segments[file[w]] - segment[w] + 5
    BY <2>1 DEF FileRank
  <2>5. QED
    BY <1>1, <1>2, <1>3, <2>1, <2>2, <2>3, <2>4 DEF Busy
<1>6. CASE Analyse(w)
  <2>1. /\ at[w] = "call" /\ segment[w] < Segments[file[w]]
        /\ FileRank(w) = Segments[file[w]] - segment[w] + 5
    BY <1>6 DEF Analyse, Counts, Step, SegmentInv, FileRank
  <2>2. CASE at'[w] = "idle"
    BY <1>1, <1>3, <2>2 DEF Busy
  <2>3. CASE at'[w] # "idle"
    <3>1. /\ segment'[w] = segment[w] + 1
          /\ at'[w] = IF segment'[w] < Segments[file[w]] THEN "call"
                      ELSE IF Segments[file[w]] = 1 THEN "open" ELSE "combine"
      BY <1>2, <1>6, <2>3 DEF Analyse, Counts, Step
    <3>2. CASE segment'[w] < Segments[file[w]]
      <4>1. at'[w] = "call" /\ FileRank(w)' = Segments[file[w]] - segment'[w] + 5
        BY <1>3, <3>1, <3>2 DEF FileRank
      <4>2. QED
        BY <1>1, <1>2, <1>3, <2>1, <3>1, <3>2, <4>1
    <3>3. CASE ~ (segment'[w] < Segments[file[w]])
      <4>1. at'[w] \in {"open", "combine"}
        BY <3>1, <3>3
      <4>2. FileRank(w)' \in {4, 5}
        BY <4>1 DEF FileRank
      <4>3. FileRank(w) >= 6
        BY <1>2, <2>1
      <4>4. FileRank(w) \in Nat
        BY <1>2, <2>1
      <4>5. QED
        BY <1>1, <1>3, <4>1, <4>2, <4>3, <4>4
    <3>4. QED
      BY <3>2, <3>3
  <2>4. QED
    BY <2>2, <2>3
<1>7. CASE Combine(w) \/ OpenTmp(w) \/ WriteTmp(w) \/ RenameTmp(w) \/ RenameFails(w) \/ RemoveTmp(w)
  <2>1. \/ at'[w] = "idle"
        \/ at[w] = "combine" /\ at'[w] = "open"
        \/ at[w] = "open" /\ at'[w] = "write"
        \/ at[w] = "write" /\ at'[w] = "rename"
        \/ at[w] = "rename" /\ at'[w] = "remove"
    BY <1>2, <1>7 DEF Combine, OpenTmp, WriteTmp, RenameTmp, RenameFails, RemoveTmp, Step, Counts
  <2>2. ~Busy(w)' \/ FileRank(w)' < FileRank(w)
    BY <2>1 DEF Busy, FileRank
  <2>3. QED
    BY <1>1, <1>3, <2>1, <2>2
<1>8. QED
  BY <1>4, <1>5, <1>6, <1>7 DEF processFile

(* A worker that takes a file has all of its steps before it.               *)
LEMMA TakeUsesUp ==
    ASSUME AnalyzerInv, SegmentInv, NEW w \in Analyzers, TakeFile(w)
    PROVE  /\ SegmentInv'
           /\ NotDone' \subseteq NotDone /\ FileSteps' \subseteq FileSteps
           /\ NotDone' # NotDone \/ FileSteps' # FileSteps
<1>1. /\ at \in [Analyzers -> {"idle", "check", "call", "combine", "open", "write", "rename",
                                "remove", "done"}]
      /\ segment \in [Analyzers -> Nat] /\ idx \in Nat \ {0} /\ at[w] = "idle" /\ idx' = idx + 1
      /\ file \in [Analyzers -> Files \cup {Absent}]
  BY InputFacts DEF AnalyzerInv, AnalyzerTypeOK, TakeFile, Step
<1>2. \A x \in Analyzers : x # w => at'[x] = at[x] /\ file'[x] = file[x] /\ segment'[x] = segment[x]
  BY <1>1 DEF TakeFile, Step
<1>3. segment'[w] = 0 /\ at'[w] # "call" /\ at'[w] # "idle"
  BY <1>1 DEF TakeFile, Step
<1>4. SegmentInv'
  BY <1>2, <1>3 DEF SegmentInv
<1>5. NotDone' \subseteq NotDone
  BY <1>1, <1>2 DEF NotDone
<1>6. \A f \in Files : Untaken(f)' => Untaken(f)
  BY <1>1, InputFacts DEF Untaken
<1>7. \A x \in Analyzers : x # w => /\ Busy(x)' = Busy(x)
                                    /\ FileRank(x)' = FileRank(x)
  BY <1>2 DEF Busy, FileRank
<1>8. CASE idx <= Len(Inputs)
  <2>1. at'[w] = "check" /\ file'[w] = Inputs[idx] /\ idx \in DOMAIN Inputs /\ Inputs[idx] \in Files
    BY <1>1, <1>8, InputFacts DEF TakeFile, Step
  <2>2. PICK f \in Files : f = Inputs[idx]
    BY <2>1
  <2>3. Untaken(f)
    BY <1>1, <2>1, <2>2 DEF Untaken
  <2>4. FileSteps' \subseteq FileSteps
    <3> SUFFICES ASSUME NEW p \in FileSteps' PROVE p \in FileSteps
      OBVIOUS
    <3>1. p \in Files \X (Nat \ {0}) /\ p[2] <= Segments[p[1]] + 7
      BY DEF FileSteps
    <3>2. CASE Untaken(p[1])'
      BY <1>6, <3>1, <3>2 DEF FileSteps
    <3>3. ASSUME NEW x \in Analyzers, Busy(x)', file'[x] = p[1], p[2] <= FileRank(x)'
          PROVE  p \in FileSteps
      <4>1. CASE x = w
        BY <2>1, <2>2, <2>3, <3>1, <3>3, <4>1 DEF FileSteps
      <4>2. CASE x # w
        BY <1>2, <1>7, <3>1, <3>3, <4>2 DEF FileSteps
      <4>3. QED
        BY <4>1, <4>2
    <3>4. QED
      BY <3>2, <3>3 DEF FileSteps
  <2>5. <<f, Segments[f] + 7>> \in FileSteps
    BY <2>2, <2>3, AnalyzerAssumption DEF FileSteps
  <2>6. <<f, Segments[f] + 7>> \notin FileSteps'
    <3>1. ~Untaken(f)'
      BY <1>1, <2>1, <2>2, InputFacts DEF Untaken
    <3>2. \A x \in Analyzers : Busy(x) => file[x] # f
      BY <1>1, <2>1, <2>2, InputFacts DEF AnalyzerInv, ShareInv
    <3>3. FileRank(w)' = Segments[f] + 6
      BY <2>1, <2>2 DEF FileRank
    <3>4. Segments[f] \in Nat
      BY AnalyzerAssumption
    <3>5. ~ (Segments[f] + 7 <= FileRank(w)')
      BY <3>3, <3>4
    <3>6. \A x \in Analyzers : ~ (Busy(x)' /\ file'[x] = f /\ Segments[f] + 7 <= FileRank(x)')
      BY <1>2, <1>7, <3>2, <3>5
    <3>7. QED
      BY <3>1, <3>6 DEF FileSteps
  <2>7. QED
    BY <1>4, <1>5, <2>4, <2>5, <2>6
<1>9. CASE ~ (idx <= Len(Inputs))
  <2>1. at'[w] = "done"
    BY <1>1, <1>9 DEF TakeFile, Step
  <2>2. w \in NotDone /\ w \notin NotDone'
    BY <1>1, <2>1 DEF NotDone
  <2>3. \A x \in Analyzers : Busy(x)' => x # w
    BY <2>1 DEF Busy
  <2>4. FileSteps' \subseteq FileSteps
    <3> SUFFICES ASSUME NEW p \in FileSteps' PROVE p \in FileSteps
      OBVIOUS
    <3>1. p \in Files \X (Nat \ {0}) /\ p[2] <= Segments[p[1]] + 7
      BY DEF FileSteps
    <3>2. CASE Untaken(p[1])'
      BY <1>6, <3>1, <3>2 DEF FileSteps
    <3>3. ASSUME NEW x \in Analyzers, Busy(x)', file'[x] = p[1], p[2] <= FileRank(x)'
          PROVE  p \in FileSteps
      BY <1>2, <1>7, <2>3, <3>1, <3>3 DEF FileSteps
    <3>4. QED
      BY <3>2, <3>3 DEF FileSteps
  <2>5. QED
    BY <1>4, <1>5, <2>2, <2>4
<1>10. QED
  BY <1>8, <1>9

LEMMA FileUsesUp ==
    ASSUME AnalyzerInv, SegmentInv, NEW w \in Analyzers, processFile(w),
           UNCHANGED <<analyzer, llm, report, llm_status>>
    PROVE  SegmentInv' /\ NotDone' = NotDone /\ FileSteps' \subseteq FileSteps /\ FileSteps' # FileSteps
<1>1. /\ ~Busy(w)' \/ FileRank(w)' < FileRank(w)
      /\ at'[w] \notin {"check", "done"} /\ Busy(w) /\ UNCHANGED <<idx, file>>
      /\ at'[w] = "call" => segment'[w] < Segments[file[w]]
      /\ \A x \in Analyzers : x # w => at'[x] = at[x] /\ segment'[x] = segment[x]
  BY FileRankDrops
<1>2. \A x \in Analyzers : x # w => Busy(x)' = Busy(x) /\ FileRank(x)' = FileRank(x)
  BY <1>1 DEF Busy, FileRank
<1>3. /\ \A f : Untaken(f)' <=> Untaken(f)
      /\ file[w] \in Files /\ FileRank(w) \in Nat \ {0} /\ FileRank(w) <= Segments[file[w]] + 6
  BY <1>1, BusyHasFile, FileRankFacts DEF Untaken
<1>4. FileRank(w)' \in Int \/ ~Busy(w)'
  <2>1. /\ at' \in [Analyzers -> {"idle", "check", "call", "combine", "open", "write", "rename",
                                  "remove", "done"}]
        /\ segment' \in [Analyzers -> Nat] /\ Segments[file[w]] \in Nat
    BY <1>3, WorkerKeepsTypes, AnalyzerAssumption DEF AnalyzerTypeOK
  <2>2. QED
    BY <1>1, <2>1 DEF FileRank, Busy
<1>5. SegmentInv'
  BY <1>1 DEF SegmentInv
<1>6. NotDone' = NotDone
  BY <1>1 DEF NotDone, Busy
<1>7. FileSteps' \subseteq FileSteps
  <2> SUFFICES ASSUME NEW p \in FileSteps' PROVE p \in FileSteps
    OBVIOUS
  <2>1. p \in Files \X (Nat \ {0}) /\ p[2] <= Segments[p[1]] + 7 /\ p[2] \in Nat
    BY DEF FileSteps
  <2>2. CASE Untaken(p[1])'
    BY <1>3, <2>1, <2>2 DEF FileSteps
  <2>3. ASSUME NEW x \in Analyzers, Busy(x)', file'[x] = p[1], p[2] <= FileRank(x)'
        PROVE  p \in FileSteps
    <3>1. CASE x = w
      <4>1. p[2] <= FileRank(w)
        BY <1>1, <1>3, <1>4, <2>1, <2>3, <3>1
      <4>2. QED
        BY <1>1, <2>1, <2>3, <3>1, <4>1 DEF FileSteps
    <3>2. CASE x # w
      BY <1>1, <1>2, <2>1, <2>3, <3>2 DEF FileSteps
    <3>3. QED
      BY <3>1, <3>2
  <2>4. QED
    BY <2>2, <2>3 DEF FileSteps
<1>8. <<file[w], FileRank(w)>> \in FileSteps
  <2>1. FileRank(w) <= Segments[file[w]] + 7 /\ FileRank(w) <= FileRank(w)
    BY <1>3, AnalyzerAssumption
  <2>2. QED
    BY <1>1, <1>3, <2>1 DEF FileSteps
<1>9. <<file[w], FileRank(w)>> \notin FileSteps'
  <2>1. ~Untaken(file[w])
    <3>1. PICK i \in DOMAIN Inputs : i < idx /\ file[w] = Inputs[i]
      BY <1>1 DEF AnalyzerInv, ShareInv
    <3>2. \A j \in DOMAIN Inputs : Inputs[j] = Inputs[i] => j = i
      BY AnalyzerAssumption
    <3>3. ~ (i >= idx)
      BY <3>1, InputFacts DEF AnalyzerInv, AnalyzerTypeOK
    <3>4. QED
      BY <3>1, <3>2, <3>3 DEF Untaken
  <2>2. ~ (Busy(w)' /\ FileRank(w) <= FileRank(w)')
    BY <1>1, <1>3, <1>4
  <2>3. \A x \in Analyzers : x # w => ~ (Busy(x)' /\ file'[x] = file[w])
    BY <1>1, <1>2 DEF AnalyzerInv, ShareInv
  <2>4. QED
    BY <1>3, <2>1, <2>2, <2>3 DEF FileSteps
<1>10. QED
  BY <1>5, <1>6, <1>7, <1>8, <1>9

LEMMA AnalyzerTodoCounts ==
    ASSUME AnalyzerTypeOK
    PROVE  /\ AnalyzerTodo \in Nat /\ PhaseRank \in Nat
           /\ Cardinality(NotDone) \in Nat /\ Cardinality(FileSteps) \in Nat
           /\ analyzer # "ended" => AnalyzerTodo > 0
<1>1. NotDone \in SUBSET Analyzers
  BY DEF NotDone
<1>2. Cardinality(NotDone) \in Nat /\ Cardinality(FileSteps) \in Nat
  BY <1>1, FileStepsFinite, InputFacts, FS_Subset, FS_CardinalityType
<1>3. PhaseRank \in Nat /\ analyzer # "ended" => PhaseRank \in Nat \ {0}
  BY DEF AnalyzerTypeOK, PhaseRank
<1>4. PhaseRank \in Nat
  BY DEF AnalyzerTypeOK, PhaseRank
<1>5. QED
  BY <1>2, <1>3, <1>4 DEF AnalyzerTodo

LEMMA AnalyzerUsesUp ==
    ASSUME AnalyzerInv, SegmentInv, AnalyzerStep
    PROVE  AnalyzerTodo' < AnalyzerTodo /\ SegmentInv'
<1>1. AnalyzerTypeOK /\ AnalyzerTypeOK'
  BY AnalyzerKeepsInv DEF AnalyzerInv
<1>2. /\ AnalyzerTodo \in Nat /\ PhaseRank \in Nat
      /\ Cardinality(NotDone) \in Nat /\ Cardinality(FileSteps) \in Nat
      /\ analyzer # "ended" => AnalyzerTodo > 0
  BY <1>1, AnalyzerTodoCounts
<1>3. PhaseRank' \in Nat
  BY <1>1 DEF AnalyzerTypeOK, PhaseRank
<1>4. CASE Refuse \/ CollectFiles \/ Joined \/ MergeOutput \/ Finish
  <2>1. UNCHANGED analyzerLocals
    BY <1>4 DEF Refuse, CollectFiles, Joined, MergeOutput, Finish
  <2>2. NotDone' = NotDone /\ FileSteps' = FileSteps /\ SegmentInv'
    BY <2>1 DEF analyzerLocals, NotDone, FileSteps, Untaken, Busy, FileRank, SegmentInv
  <2>3. analyzer # "ended" /\ PhaseRank' < PhaseRank
    BY <1>4 DEF Refuse, CollectFiles, Joined, MergeOutput, Finish, PhaseRank
  <2>4. QED
    BY <1>2, <1>3, <2>2, <2>3 DEF AnalyzerTodo
<1>5. ASSUME NEW w \in Analyzers, TakeFile(w) \/ processFile(w),
             UNCHANGED <<analyzer, llm, report, llm_status>>
      PROVE  AnalyzerTodo' < AnalyzerTodo /\ SegmentInv'
  <2>1. /\ SegmentInv' /\ NotDone' \subseteq NotDone /\ FileSteps' \subseteq FileSteps
        /\ NotDone' # NotDone \/ FileSteps' # FileSteps
    BY <1>5, TakeUsesUp, FileUsesUp
  <2>2. IsFiniteSet(NotDone)
    <3>1. NotDone \in SUBSET Analyzers
      BY DEF NotDone
    <3>2. QED
      BY <3>1, InputFacts, FS_Subset
  <2>3. /\ Cardinality(NotDone') \in Nat /\ Cardinality(NotDone') <= Cardinality(NotDone)
        /\ NotDone' # NotDone => Cardinality(NotDone') < Cardinality(NotDone)
    BY ONLY <2>1, <2>2, Shrinks
  <2>4. /\ Cardinality(FileSteps') \in Nat /\ Cardinality(FileSteps') <= Cardinality(FileSteps)
        /\ FileSteps' # FileSteps => Cardinality(FileSteps') < Cardinality(FileSteps)
    BY ONLY <2>1, FileStepsFinite, Shrinks
  <2>5. analyzer # "ended" /\ analyzer' = analyzer /\ PhaseRank' = PhaseRank
    BY <1>5, FileRankDrops DEF TakeFile, AnalyzerInv, PhaseInv, PhaseRank
  <2>6. QED
    BY <1>2, <1>3, <2>1, <2>3, <2>4, <2>5 DEF AnalyzerTodo
<1>6. QED
  BY <1>4, <1>5 DEF AnalyzerStep

-----------------------------------------------------------------------------
(* The editor: what a program's place is worth.                             *)
LEMMA RankFacts ==
    /\ \A c : ChildRank(c) \in 0 .. 2
    /\ ChildRank("running") = 2 /\ ChildRank("closed") = 1 /\ ChildRank("exited") = 0
    /\ \A c : /\ ProgramRank("idle", c) = 9 /\ ProgramRank("pipes", c) = 8
              /\ ProgramRank("forked", c) = 5 + ChildRank(c)
              /\ ProgramRank("stdout", c) = 4 + ChildRank(c)
              /\ ProgramRank("stderr", c) = 3 + ChildRank(c)
              /\ ProgramRank("wait", c) = 2 + ChildRank(c)
    /\ \A r \in {"idle", "pipes", "forked", "stdout", "stderr", "wait"} : \A c :
          ProgramRank(r, c) \in 2 .. 9
    /\ \A r, c : /\ PlaceRank("test", r, c) = 25
                 /\ PlaceRank("generate", r, c) = 14 + ProgramRank(r, c)
                 /\ PlaceRank("list", r, c) = 13
                 /\ PlaceRank("encode", r, c) = ProgramRank(r, c)
<1>1. /\ \A c : ChildRank(c) \in 0 .. 2
      /\ ChildRank("running") = 2 /\ ChildRank("closed") = 1 /\ ChildRank("exited") = 0
  BY DEF ChildRank
<1>2. \A c : /\ ProgramRank("idle", c) = 9 /\ ProgramRank("pipes", c) = 8
             /\ ProgramRank("forked", c) = 5 + ChildRank(c)
             /\ ProgramRank("stdout", c) = 4 + ChildRank(c)
             /\ ProgramRank("stderr", c) = 3 + ChildRank(c)
             /\ ProgramRank("wait", c) = 2 + ChildRank(c)
  BY DEF ProgramRank
<1>3. \A r \in {"idle", "pipes", "forked", "stdout", "stderr", "wait"} : \A c :
          ProgramRank(r, c) \in 2 .. 9
  BY <1>1, <1>2
<1>4. \A r, c : /\ PlaceRank("test", r, c) = 25
                /\ PlaceRank("generate", r, c) = 14 + ProgramRank(r, c)
                /\ PlaceRank("list", r, c) = 13
                /\ PlaceRank("encode", r, c) = ProgramRank(r, c)
  BY DEF PlaceRank
<1>5. QED
  BY <1>1, <1>2, <1>3, <1>4

LEMMA ProgramRankDrops ==
    ASSUME EditorInv, NEW w \in Workers,
           \/ Pipe(w) \/ Start(w) \/ ReadOn(w)
           \/ \E outcome \in {"ok", "failed"} : ProgramEnds(w, outcome)
    PROVE  /\ est[w] \in Programs /\ est' = est
           /\ ProgramRank(rc'[w], child'[w]) < ProgramRank(rc[w], child[w])
<1>1. /\ RCTypeOK
      /\ rc[w] # "idle" => est[w] \in Programs
      /\ rc[w] \in {"idle", "pipes"} <=> child[w] = "none"
      /\ rc[w] \in {"idle", "pipes", "forked", "stdout", "stderr", "wait"}
      /\ child[w] \in {"none", "running", "closed", "exited"}
  BY DEF EditorInv, RunInv, JobInv, RCTypeOK
<1>2. CASE Pipe(w)
  <2>1. /\ est[w] \in Programs /\ est' = est
        /\ rc[w] = "idle" /\ rc'[w] = "pipes"
    BY <1>1, <1>2 DEF Pipe, Pipes, At, RCTypeOK, edLocals
  <2>2. QED
    BY <2>1, RankFacts
<1>3. CASE Start(w)
  <2>1. /\ est' = est /\ rc[w] = "pipes" /\ rc'[w] = "forked" /\ child'[w] = "running"
    BY <1>1, <1>3 DEF Start, Fork, At, RCTypeOK
  <2>2. QED
    BY <1>1, <2>1, RankFacts
<1>4. CASE ReadOn(w)
  <2>1. CASE CloseWrites(w) \/ EndOfStream(w)
    <3>1. /\ est' = est /\ child' = child
          /\ \/ rc[w] = "forked" /\ rc'[w] = "stdout"
             \/ rc[w] = "stdout" /\ rc'[w] = "stderr"
             \/ rc[w] = "stderr" /\ rc'[w] = "wait"
      BY <1>1, <1>4, <2>1 DEF ReadOn, CloseWrites, EndOfStream, At, RCTypeOK, edLocals
    <3>2. QED
      BY <1>1, <3>1, RankFacts
  <2>2. CASE ChildExits(w)
    <3>1. est' = est /\ rc' = rc /\ child[w] = "closed" /\ child'[w] = "exited"
      BY <1>1, <1>4, <2>2 DEF ReadOn, ChildExits, RCTypeOK, edLocals
    <3>2. QED
      BY <1>1, <3>1, RankFacts
  <2>3. QED
    BY <1>4, <2>1, <2>2 DEF ReadOn
<1>5. ASSUME NEW outcome \in {"ok", "failed"}, ProgramEnds(w, outcome)
      PROVE  /\ est[w] \in Programs /\ est' = est
             /\ ProgramRank(rc'[w], child'[w]) < ProgramRank(rc[w], child[w])
  <2>1. est' = est /\ rc' = rc /\ child[w] = "running" /\ child'[w] = "closed"
    BY <1>1, <1>5 DEF ProgramEnds, ChildCloses, RCTypeOK, edLocals
  <2>2. QED
    BY <1>1, <2>1, RankFacts
<1>6. QED
  BY <1>2, <1>3, <1>4, <1>5

(* A worker that neither takes a file nor ends a command gets on with the   *)
(* command it is at.                                                        *)
LEMMA CommandRankDrops ==
    ASSUME EditorInv, NEW w \in Workers, WorkerStep(w)
    PROVE  \/ TakeWork(w) \/ Passes(w)
           \/ Stays(w) /\ Editing(w) /\ Editing(w)' /\ CommandRank(w)' < CommandRank(w)
<1> DEFINE GetsOn == Stays(w) /\ Editing(w) /\ Editing(w)' /\ CommandRank(w)' < CommandRank(w)
<1>1. /\ est \in [Workers -> Programs \cup {"idle", "test", "list", "done"}]
      /\ rc[w] \in {"idle", "pipes", "forked", "stdout", "stderr", "wait"}
      /\ rc[w] # "idle" => est[w] \in Programs
  BY DEF EditorInv, EditorTypeOK, RunInv, RCTypeOK, JobInv
<1>2. CASE Skip(w) \/ Invalid(w) \/ ListFails(w)
  BY <1>2 DEF Skip, Invalid, ListFails, Passes, Editing
<1>3. CASE Begin(w) \/ WriteSilenceList(w)
  <2>1. /\ \/ est[w] = "test" /\ est'[w] \in {"encode", "generate"}
           \/ est[w] = "list" /\ est'[w] = "encode"
        /\ rc[w] = "idle" /\ rc' = rc /\ child' = child
    BY <1>1, <1>3 DEF Begin, WriteSilenceList, Goto, Programs, rcVars
  <2>2. Stays(w) /\ Editing(w) /\ Editing(w)'
    BY <1>3, <2>1 DEF Begin, WriteSilenceList, Stays, Editing
  <2>3. CommandRank(w)' < CommandRank(w)
    BY <2>1, RankFacts DEF CommandRank
  <2>4. QED
    BY <2>2, <2>3
<1>4. CASE \/ Pipe(w) \/ Start(w) \/ ReadOn(w)
           \/ \E outcome \in {"ok", "failed"} : ProgramEnds(w, outcome)
  <2>1. /\ est[w] \in Programs /\ est' = est
        /\ ProgramRank(rc'[w], child'[w]) < ProgramRank(rc[w], child[w])
    BY <1>4, ProgramRankDrops
  <2>2. Stays(w)
    BY <1>4 DEF Pipe, Start, ReadOn, ProgramEnds, Stays, edLocals
  <2>3. Editing(w) /\ Editing(w)'
    BY <2>1 DEF Editing, Programs
  <2>4. /\ ProgramRank(rc[w], child[w]) \in 2 .. 9
        /\ rc'[w] \in {"idle", "pipes", "forked", "stdout", "stderr", "wait"}
    BY <1>1, RankFacts, WorkerKeepsProgram DEF RunInv, RCTypeOK
  <2>5. QED
    BY <2>1, <2>2, <2>3, <2>4, RankFacts DEF CommandRank, Programs
<1>5. ASSUME NEW result, Result(w, result), UNCHANGED <<file_idx, job>>
      PROVE  Passes(w) \/ GetsOn
  <2>1. CASE est[w] = "generate" /\ Goto(w, "list") /\ UNCHANGED <<cmd, ecount>>
    <3>1. est'[w] = "list"
      BY <1>1, <2>1 DEF Goto
    <3>2. Stays(w) /\ Editing(w) /\ Editing(w)'
      BY <1>5, <2>1, <3>1 DEF Stays, Editing
    <3>3. CommandRank(w)' = 13 /\ CommandRank(w) = 14 + ProgramRank(rc[w], child[w])
      BY <2>1, <3>1, RankFacts DEF CommandRank
    <3>4. ProgramRank(rc[w], child[w]) \in 2 .. 9
      BY <1>1, RankFacts
    <3>5. QED
      BY <3>2, <3>3, <3>4
  <2>2. QED
    BY <1>5, <2>1 DEF Result, Passes, Editing
<1>6. CASE Return(w) \/ DryRun(w)
  BY <1>5, <1>6 DEF Return, DryRun
<1>7. QED
  BY <1>2, <1>3, <1>4, <1>6 DEF WorkerStep

LEMMA CommandStepsFinite == ASSUME WorkTypes PROVE IsFiniteSet(CommandSteps)
<1>1. 1 \in Int /\ 26 \in Int
  OBVIOUS
<1>2. IsFiniteSet(1 .. 26)
  BY ONLY <1>1, FS_Interval
<1>3. IsFiniteSet(Pending \X (1 .. 26))
  BY <1>2, CommandsFinite, FS_Product
<1>4. CommandSteps \in SUBSET (Pending \X (1 .. 26))
  BY DEF CommandSteps
<1>5. QED
  BY <1>3, <1>4, FS_Subset

LEMMA WorkerUsesUp ==
    ASSUME EditorInv, NEW w \in Workers, WorkerStep(w)
    PROVE  /\ Awake' \subseteq Awake /\ CommandSteps' \subseteq CommandSteps
           /\ Awake' # Awake \/ CommandSteps' # CommandSteps
<1>1. /\ UNCHANGED work
      /\ est \in [Workers -> Programs \cup {"idle", "test", "list", "done"}]
      /\ job \in [Workers -> Nat] /\ cmd \in [Workers -> Nat]
      /\ \A x \in Workers : Editing(x) => job[x] < file_idx
      /\ \A x, y \in Workers : Editing(x) /\ Editing(y) /\ job[x] = job[y] => x = y
  BY DEF EditorInv, EditorTypeOK, WorkTypes, JobInv, WorkerStep
<1>2. \A x \in Workers : x # w => /\ est'[x] = est[x] /\ CommandRank(x)' = CommandRank(x)
                                  /\ Editing(x)' = Editing(x)
                                  /\ \A y : IsAt(x, y)' = IsAt(x, y)
  BY OnlyMine DEF Editing, CommandRank, IsAt
<1>3. TakeWork(w) \/ Editing(w)
  BY CommandRankDrops DEF Passes
<1>4. Awake' \subseteq Awake
  <2>1. est[w] # "done"
    BY <1>3 DEF TakeWork, Editing
  <2>2. QED
    BY <1>2, <2>1 DEF Awake
<1>5. CASE TakeWork(w)
  <2>1. Pending' = Pending /\ est[w] = "idle" /\ ~Editing(w)
    BY <1>1, <1>5, TakeKeepsPlace DEF TakeWork, Editing
  <2>2. CommandSteps' \subseteq CommandSteps
    <3> SUFFICES ASSUME NEW p \in CommandSteps' PROVE p \in CommandSteps
      OBVIOUS
    <3>1. p \in Pending \X (1 .. 26) /\ \A x \in Workers : IsAt(x, p[1])' => p[2] <= CommandRank(x)'
      BY <2>1 DEF CommandSteps
    <3>2. \A x \in Workers : IsAt(x, p[1]) => p[2] <= CommandRank(x)
      BY <1>2, <2>1, <3>1 DEF IsAt
    <3>3. QED
      BY <3>1, <3>2 DEF CommandSteps
  <2>3. CASE file_idx <= Len(work)
    <3>1. /\ job'[w] = file_idx /\ cmd'[w] = 1 /\ est'[w] = "test"
      BY <1>1, <1>5, <2>3 DEF TakeWork, Goto
    <3>2. file_idx \in DOMAIN work /\ 1 \in DOMAIN work[file_idx] /\ file_idx \in Nat
      <4>1. /\ work \in Seq(Seq(EditCommand)) /\ \A i \in DOMAIN work : work[i] # <<>>
            /\ file_idx \in Nat \ {0}
        BY DEF EditorInv, WorkTypes, EditorTypeOK
      <4>2. file_idx \in DOMAIN work
        BY <2>3, <4>1
      <4>3. work[file_idx] \in Seq(EditCommand) /\ work[file_idx] # <<>>
        BY <4>1, <4>2
      <4>4. QED
        BY <4>1, <4>2, <4>3
    <3> DEFINE first == <<file_idx, 1>>
    <3>3. first \in Pending
      BY <3>2 DEF Commands, Pending
    <3>4. \A x \in Workers : ~ IsAt(x, first)
      BY <1>1, <3>2 DEF IsAt
    <3>5. <<first, 26>> \in CommandSteps
      BY <3>3, <3>4 DEF CommandSteps
    <3>6. CommandRank(w)' = 25
      BY <3>1, RankFacts DEF CommandRank
    <3>7. <<first, 26>> \notin CommandSteps'
      <4>1. ~ (26 <= CommandRank(w)')
        BY <3>6
      <4>2. job'[w] = first[1] /\ cmd'[w] = first[2] /\ Editing(w)'
        BY <3>1 DEF Editing
      <4>3. QED
        BY <4>1, <4>2 DEF CommandSteps, IsAt
    <3>8. QED
      BY <1>4, <2>2, <3>5, <3>7
  <2>4. CASE ~ (file_idx <= Len(work))
    <3>1. est'[w] = "done"
      BY <1>1, <1>5, <2>4 DEF TakeWork, Goto
    <3>2. w \in Awake /\ w \notin Awake'
      BY <2>1, <3>1 DEF Awake
    <3>3. QED
      BY <1>4, <2>2, <3>2
  <2>5. QED
    BY <2>3, <2>4
<1>6. ASSUME Editing(w)
      PROVE  /\ CommandRank(w) \in 1 .. 25 /\ <<job[w], cmd[w]>> \in Pending
             /\ \A x \in Workers : IsAt(x, <<job[w], cmd[w]>>) => x = w
  <2>1. CommandRank(w) \in 1 .. 25
    <3>1. est[w] \in {"test", "generate", "list", "encode"}
      BY <1>1, <1>6 DEF Editing, Programs
    <3>2. ProgramRank(rc[w], child[w]) \in 2 .. 9
      BY RankFacts DEF EditorInv, RunInv, RCTypeOK
    <3>3. QED
      BY <3>1, <3>2, RankFacts DEF CommandRank
  <2>2. <<job[w], cmd[w]>> \in Pending
    <3>1. <<job[w], cmd[w]>> \in Commands /\ cmd[w] <= cmd[w]
      BY <1>1, <1>6, CommandAt
    <3>2. QED
      BY <1>6, <3>1 DEF Pending
  <2>3. QED
    BY <1>1, <1>6, <2>1, <2>2 DEF IsAt
<1>7. CASE Passes(w)
  <2> DEFINE mine == <<job[w], cmd[w]>>
  <2>1. Pending' = Pending \ {mine} /\ Editing(w)
    BY <1>1, <1>7, PassKeepsPlace DEF Passes
  <2>2. CommandSteps' \subseteq CommandSteps
    <3> SUFFICES ASSUME NEW p \in CommandSteps' PROVE p \in CommandSteps
      OBVIOUS
    <3>1. /\ p \in Pending \X (1 .. 26) /\ p[1] # mine
          /\ \A x \in Workers : IsAt(x, p[1])' => p[2] <= CommandRank(x)'
      BY <2>1 DEF CommandSteps
    <3>2. ~ IsAt(w, p[1])
      <4>1. PICK i, k : p[1] = <<i, k>>
        BY <3>1 DEF Pending, Commands
      <4>2. QED
        BY <3>1, <4>1 DEF IsAt
    <3>3. \A x \in Workers : IsAt(x, p[1]) => p[2] <= CommandRank(x)
      BY <1>2, <3>1, <3>2
    <3>4. QED
      BY <3>1, <3>3 DEF CommandSteps
  <2>3. <<mine, 1>> \in CommandSteps
    BY <1>6, <2>1 DEF CommandSteps
  <2>4. <<mine, 1>> \notin CommandSteps'
    BY <2>1 DEF CommandSteps
  <2>5. QED
    BY <1>4, <2>2, <2>3, <2>4
<1>8. CASE Stays(w) /\ Editing(w) /\ Editing(w)' /\ CommandRank(w)' < CommandRank(w)
  <2> DEFINE mine == <<job[w], cmd[w]>>
  <2>1. Pending' = Pending /\ job' = job /\ cmd' = cmd
    BY <1>1, <1>8, StayKeepsPlace DEF Stays
  <2>2. CommandRank(w)' \in Int /\ CommandRank(w) \in 1 .. 25
    <3>1. est'[w] \in {"test", "generate", "list", "encode"}
      BY <1>1, <1>8 DEF Stays, Goto, Editing, Programs
    <3>2. rc'[w] \in {"idle", "pipes", "forked", "stdout", "stderr", "wait"}
      BY WorkerKeepsProgram DEF RunInv, RCTypeOK
    <3>3. ProgramRank(rc'[w], child'[w]) \in 2 .. 9
      BY <3>2, RankFacts
    <3>4. CommandRank(w)' \in Int
      BY <3>1, <3>3, RankFacts DEF CommandRank
    <3>5. QED
      BY <1>6, <1>8, <3>4
  <2>3. \A y : IsAt(w, y)' = IsAt(w, y)
    BY <1>8, <2>1 DEF IsAt
  <2>4. CommandSteps' \subseteq CommandSteps
    <3> SUFFICES ASSUME NEW p \in CommandSteps' PROVE p \in CommandSteps
      OBVIOUS
    <3>1. /\ p \in Pending \X (1 .. 26) /\ p[2] \in Int
          /\ \A x \in Workers : IsAt(x, p[1])' => p[2] <= CommandRank(x)'
      BY <2>1 DEF CommandSteps
    <3>2. IsAt(w, p[1]) => p[2] <= CommandRank(w)
      BY <1>8, <2>2, <2>3, <3>1
    <3>3. \A x \in Workers : IsAt(x, p[1]) => p[2] <= CommandRank(x)
      BY <1>2, <3>1, <3>2
    <3>4. QED
      BY <3>1, <3>3 DEF CommandSteps
  <2>5. <<mine, CommandRank(w)>> \in CommandSteps
    <3>1. CommandRank(w) <= CommandRank(w) /\ CommandRank(w) \in 1 .. 26
      BY <2>2
    <3>2. QED
      BY <1>6, <1>8, <3>1 DEF CommandSteps
  <2>6. <<mine, CommandRank(w)>> \notin CommandSteps'
    <3>1. ~ (CommandRank(w) <= CommandRank(w)')
      BY <1>8, <2>2
    <3>2. job'[w] = mine[1] /\ cmd'[w] = mine[2] /\ Editing(w)'
      BY <1>8, <2>1
    <3>3. QED
      BY <3>1, <3>2 DEF CommandSteps, IsAt
  <2>7. QED
    BY <1>4, <2>4, <2>5, <2>6
<1>9. QED
  BY <1>5, <1>7, <1>8, CommandRankDrops

LEMMA EditorTodoCounts ==
    ASSUME WorkTypes
    PROVE  /\ IsFiniteSet(Awake) /\ IsFiniteSet(CommandSteps)
           /\ Cardinality(Awake) \in Nat /\ Cardinality(CommandSteps) \in Nat
           /\ EditorTodo \in Nat
<1>1. Awake \in SUBSET Workers
  BY DEF Awake
<1>2. /\ IsFiniteSet(Awake) /\ IsFiniteSet(CommandSteps)
      /\ Cardinality(Awake) \in Nat /\ Cardinality(CommandSteps) \in Nat
  BY <1>1, WorkersAssumption, CommandStepsFinite, FS_Subset, FS_CardinalityType
<1>3. QED
  BY <1>2 DEF EditorTodo

LEMMA EditorUsesUp ==
    ASSUME EditorInv, EditorStep
    PROVE  EditorTodo' < EditorTodo /\ editor' # "idle"
<1>1. /\ IsFiniteSet(Awake) /\ IsFiniteSet(CommandSteps)
      /\ Cardinality(Awake) \in Nat /\ Cardinality(CommandSteps) \in Nat
  BY EditorTodoCounts DEF EditorInv
<1>2. CASE EditorEnds
  BY <1>1, <1>2 DEF EditorEnds, EditorTodo
<1>3. ASSUME NEW w \in Workers, WorkerStep(w)
      PROVE  EditorTodo' < EditorTodo /\ editor' # "idle"
  <2>1. editor = "run"
    <3> SUFFICES ASSUME editor # "run" PROVE FALSE
      OBVIOUS
    <3>1. ~Editing(w) /\ rc[w] = "idle" /\ child[w] = "none"
      BY DEF EditorInv, NodeInv, JobInv, Editing, Programs, RunInv
    <3>2. QED
      BY <1>3, <3>1 DEF WorkerStep, Editing, Programs, TakeWork, Skip, Invalid, Begin,
            WriteSilenceList, ListFails, Pipe, Start, Fork, ReadOn, CloseWrites, EndOfStream, ChildExits,
            At, Return, DryRun, ProgramEnds, ChildCloses
  <2>2. editor' = editor
    BY <1>3 DEF WorkerStep
  <2>3. /\ Awake' \subseteq Awake /\ CommandSteps' \subseteq CommandSteps
        /\ Awake' # Awake \/ CommandSteps' # CommandSteps
    BY <1>3, WorkerUsesUp
  <2>4. /\ Cardinality(Awake') \in Nat /\ Cardinality(Awake') <= Cardinality(Awake)
        /\ Awake' # Awake => Cardinality(Awake') < Cardinality(Awake)
    BY ONLY <1>1, <2>3, Shrinks
  <2>5. /\ Cardinality(CommandSteps') \in Nat
        /\ Cardinality(CommandSteps') <= Cardinality(CommandSteps)
        /\ CommandSteps' # CommandSteps => Cardinality(CommandSteps') < Cardinality(CommandSteps)
    BY ONLY <1>1, <2>3, Shrinks
  <2>6. QED
    BY <1>1, <2>1, <2>2, <2>3, <2>4, <2>5 DEF EditorTodo
<1>4. QED
  BY <1>2, <1>3 DEF EditorStep

(* The pipeline comes to an end: every step of a node makes the natural     *)
(* number smaller that counts what the node has left to do, and between the *)
(* two the editor starts once.  The workers of the analyzer wait for nobody,*)
(* those of the editor never in vain (NobodyWaitsInVain): both nodes return,*)
(* in a number of steps that is known when each starts.                     *)
THEOREM StepsRunOut ==
    Spec => EachStepCounts /\ [](AnalyzerTodo \in Nat /\ EditorTodo \in Nat)
<1> DEFINE StepCounts ==
        /\ AnalyzerNode => AnalyzerTodo' < AnalyzerTodo /\ UNCHANGED edVars
        /\ StartEditor \/ RefuseEditor => editor = "idle" /\ editor' # "idle" /\ analyzer' = "ended"
        /\ EditorNode => EditorTodo' < EditorTodo /\ editor' # "idle" /\ UNCHANGED analyzerVars
<1>1. Init => SegmentInv
  BY DEF Init, AnalyzerInit, All, SegmentInv
<1>2. PipelineInv /\ SegmentInv /\ [Next]_vars => SegmentInv'
  <2> SUFFICES ASSUME PipelineInv, SegmentInv, [Next]_vars PROVE SegmentInv'
    OBVIOUS
  <2>1. CASE AnalyzerNode
    BY <2>1, AnalyzerUsesUp DEF AnalyzerNode, PipelineInv
  <2>2. CASE StartEditor
    BY <2>2 DEF StartEditor, AnalyzerForgotten, All, SegmentInv
  <2>3. CASE UNCHANGED analyzerVars
    BY <2>3 DEF analyzerVars, analyzerLocals, SegmentInv
  <2>4. QED
    BY <2>1, <2>2, <2>3 DEF Next, RefuseEditor, EditorNode, vars
<1>3. PipelineInv /\ SegmentInv => StepCounts
  <2> SUFFICES ASSUME PipelineInv, SegmentInv PROVE StepCounts
    OBVIOUS
  <2>1. AnalyzerNode => AnalyzerTodo' < AnalyzerTodo /\ UNCHANGED edVars
    BY AnalyzerUsesUp DEF AnalyzerNode, PipelineInv
  <2>2. StartEditor \/ RefuseEditor => editor = "idle" /\ editor' # "idle" /\ analyzer' = "ended"
    BY DEF StartEditor, EditorStarts, AnalyzerForgotten, RefuseEditor, EditorRefuses, analyzerVars
  <2>3. EditorNode => EditorTodo' < EditorTodo /\ editor' # "idle" /\ UNCHANGED analyzerVars
    BY EditorUsesUp DEF EditorNode, PipelineInv
  <2>4. QED
    BY <2>1, <2>2, <2>3
<1>4. PipelineInv => AnalyzerTodo \in Nat /\ EditorTodo \in Nat
  <2> SUFFICES ASSUME AnalyzerTypeOK, WorkTypes PROVE AnalyzerTodo \in Nat /\ EditorTodo \in Nat
    BY DEF PipelineInv, AnalyzerInv, EditorInv
  <2>1. QED
    BY AnalyzerTodoCounts, EditorTodoCounts
<1>5. PipelineInv /\ SegmentInv /\ [Next]_vars => [StepCounts]_vars
  BY <1>3
<1>6. Spec => EachStepCounts
  BY <1>1, <1>2, <1>5, InductiveInvariant, PTL DEF Spec, EachStepCounts
<1>7. QED
  BY <1>4, <1>6, InductiveInvariant, PTL
=============================================================================
