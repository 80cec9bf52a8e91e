--------------------------- MODULE LlmTextAnalyzer ---------------------------
(***************************************************************************)
(* LlmTextAnalyzerNode::execute(): the workers take the input files in     *)
(* turn, ask the model for an analysis of each and write it to a temporary *)
(* file that is renamed to <stem>_analysis.md.  The names are made from    *)
(* the stem, so that two inputs with the same stem share both files; the   *)
(* model has inodes, because a rename moves a file that another worker may *)
(* have open.  The content of a file is the set of those who wrote to it.  *)
(***************************************************************************)
EXTENDS Integers, Sequences, FiniteSets

CONSTANTS
    Analyzers, \* the worker threads, llm_parallel of them
    Inputs,    \* the input files, each once and sorted
    Stem,      \* the stem of each
    Segments,  \* how many pieces splitText() makes of each
    Absent, Old, Cut

Files == {Inputs[i] : i \in DOMAIN Inputs}
Stems == {Stem[f] : f \in Files}

ASSUME AnalyzerAssumption ==
    /\ Inputs \in Seq(Files) /\ \A i, j \in DOMAIN Inputs : Inputs[i] = Inputs[j] => i = j
    /\ Segments \in [Files -> Nat \ {0}]
    /\ IsFiniteSet(Analyzers) /\ Cardinality(Analyzers) \in 1 .. Len(Inputs)
    /\ Absent # Old /\ Cut \notin Files \cup {Old} /\ {Absent, Old} \cap Files = {}

VARIABLES
    analyzer,      \* "collect", "run", "merge", "finish" or "ended"
    llm,           \* llm_overwrite, llm_merge_output; whether the disk is full,
                   \* whether a temporary file may refuse to be removed
    idx,           \* of the next input file
    at, file,      \* of a worker: its step and its input file
    segment, text, \* the pieces analysed and the quality of their analyses
    ofs,           \* the inode a worker writes to
    out, tmp,      \* of a stem: the inode of the output and of its .tmp
    data,          \* of an inode: who wrote to it since it was truncated
    count, output_files,
    report,        \* what _merged_report.md was made from, or "tmp" if only its .tmp was
    llm_status

analyzerLocals == <<idx, at, file, segment, text, ofs, count, output_files>>
llmDisk        == <<out, tmp, data>>
analyzerVars   == <<analyzer, llm, analyzerLocals, llmDisk, report, llm_status>>

-----------------------------------------------------------------------------
(* HttpClient and the extraction of the answer.  A read that returns no     *)
(* byte ends the response, be it the end, a timeout or a reset: how much of *)
(* it has arrived decides what comes out.  A string without its closing     *)
(* quote is returned as far as it goes.                                     *)
readResponse(arrived, status) ==
    CASE arrived \in {"nothing", "status line"} -> [status |-> -1,     body |-> "none"]
      [] arrived = "headers"                    -> [status |-> status, body |-> "none"]
      [] OTHER                                  -> [status |-> status, body |-> arrived]

post == {[status |-> -1, body |-> "none"]} \cup
        {readResponse(a, s) : a \in {"nothing", "status line", "headers", "cut", "whole"},
                              s \in {200, 500}}

extractLlmContent(body) == IF body = "cut" THEN {"none", "cut"} ELSE {body}

callLlm == UNION {IF r.status = 200 THEN extractLlmContent(r.body) ELSE {"none"} : r \in post}

Worse(a, b) == IF "cut" \in {a, b} THEN "cut" ELSE "whole"

-----------------------------------------------------------------------------
All(v)  == [w \in Analyzers |-> v]
NoFile  == [s \in Stems |-> Absent]
NoData  == [i \in Files \cup {Old} |-> IF i = Old THEN {Old} ELSE {}]
NoCount == [analyzed |-> 0, failed |-> 0, skipped |-> 0]

(* Outputs of an earlier run may be there.                                  *)
AnalyzerInit ==
    /\ analyzer = "collect" /\ report = "none" /\ llm_status = "none"
    /\ llm \in [overwrite : BOOLEAN, merge : BOOLEAN, disk_full : BOOLEAN, tmp_stays : BOOLEAN]
    /\ llm.disk_full \/ llm.tmp_stays => llm.overwrite /\ ~llm.merge
    /\ out \in [Stems -> {Absent, Old}] /\ tmp = NoFile /\ data = NoData
    /\ idx = 1 /\ at = All("idle") /\ file = All(Absent) /\ segment = All(0)
    /\ text = All("whole") /\ ofs = All(Absent) /\ count = NoCount /\ output_files = <<>>

(* A missing parameter or path, or no output directory.                     *)
Refuse ==
    /\ analyzer = "collect"
    /\ analyzer' = "ended" /\ llm_status' = "failed"
    /\ UNCHANGED <<llm, analyzerLocals, llmDisk, report>>

CollectFiles ==
    /\ analyzer = "collect" /\ analyzer' = "run"
    /\ UNCHANGED <<llm, analyzerLocals, llmDisk, report, llm_status>>

Step(w, from, to) == at[w] = from /\ at' = [at EXCEPT ![w] = to]
Counts(w, from, outcome) ==
    Step(w, from, "idle") /\ count' = [count EXCEPT ![outcome] = @ + 1]
S(w) == Stem[file[w]]

TakeFile(w) ==
    /\ analyzer = "run" /\ Step(w, "idle", IF idx <= Len(Inputs) THEN "check" ELSE "done")
    /\ file' = [file EXCEPT ![w] = IF idx <= Len(Inputs) THEN Inputs[idx] ELSE Absent]
    /\ idx' = idx + 1
    /\ segment' = [segment EXCEPT ![w] = 0] /\ text' = [text EXCEPT ![w] = "whole"]
    /\ UNCHANGED <<ofs, count, output_files, llmDisk>>

SkipFile(w) ==
    /\ Counts(w, "check", "skipped") /\ ~llm.overwrite /\ out[S(w)] # Absent
    /\ UNCHANGED <<idx, file, segment, text, ofs, output_files, llmDisk>>

ReadFile(w) ==
    /\ \/ Step(w, "check", "call") /\ UNCHANGED count
       \/ Counts(w, "check", "failed")
    /\ llm.overwrite \/ out[S(w)] = Absent
    /\ UNCHANGED <<idx, file, segment, text, ofs, output_files, llmDisk>>

(* One piece, or the pieces of a long text one after the other.             *)
Analyse(w) ==
    /\ \E answer \in callLlm :
          IF answer = "none"
          THEN Counts(w, "call", "failed") /\ UNCHANGED <<segment, text>>
          ELSE /\ segment' = [segment EXCEPT ![w] = @ + 1]
               /\ text' = [text EXCEPT ![w] = Worse(@, answer)]
               /\ Step(w, "call", IF segment'[w] < Segments[file[w]] THEN "call"
                                  ELSE IF Segments[file[w]] = 1 THEN "open" ELSE "combine")
               /\ UNCHANGED count
    /\ UNCHANGED <<idx, file, ofs, output_files, llmDisk>>

(* A last call merges the analyses; without an answer they are kept as such.*)
Combine(w) ==
    /\ Step(w, "combine", "open")
    /\ \E answer \in callLlm \ {"none"} : text' = [text EXCEPT ![w] = Worse(@, answer)]
    /\ UNCHANGED <<idx, file, segment, ofs, count, output_files, llmDisk>>

(* The temporary file is created, or truncated if it is there.              *)
OpenTmp_Mutant(w) ==
    /\ \/ /\ Step(w, "open", "write")
          /\ ofs' = [ofs EXCEPT ![w] = IF tmp[S(w)] = Absent THEN file[w] ELSE tmp[S(w)]]
          /\ tmp' = [tmp EXCEPT ![S(w)] = ofs'[w]]
          /\ out' = [out EXCEPT ![S(w)] = ofs'[w]]
          /\ data' = [data EXCEPT ![ofs'[w]] = {}]
          /\ UNCHANGED count
       \/ Counts(w, "open", "failed") /\ UNCHANGED <<ofs, out, tmp, data>>
    /\ UNCHANGED <<idx, file, segment, text, output_files>>
OpenTmp(w) ==
    /\ \/ /\ Step(w, "open", "write")
          /\ ofs' = [ofs EXCEPT ![w] = IF tmp[S(w)] = Absent THEN file[w] ELSE tmp[S(w)]]
          /\ tmp' = [tmp EXCEPT ![S(w)] = ofs'[w]]
          /\ data' = [data EXCEPT ![ofs'[w]] = {}]
          /\ UNCHANGED count
       \/ Counts(w, "open", "failed") /\ UNCHANGED <<ofs, tmp, data>>
    /\ UNCHANGED <<idx, file, segment, text, out, output_files>>

(* Whether the stream could write is not looked at.                         *)
WriteTmp(w) ==
    /\ Step(w, "write", "rename")
    /\ data' = IF llm.disk_full THEN data
               ELSE [data EXCEPT ![ofs[w]] = @ \cup {file[w]} \cup
                                             (IF text[w] = "cut" THEN {Cut} ELSE {})]
    /\ UNCHANGED <<idx, file, segment, text, ofs, count, output_files, out, tmp>>

(* Another worker with the same stem may have taken the file away.          *)
RenameTmp(w) ==
    /\ Counts(w, "rename", "analyzed") /\ tmp[S(w)] # Absent
    /\ out' = [out EXCEPT ![S(w)] = tmp[S(w)]] /\ tmp' = [tmp EXCEPT ![S(w)] = Absent]
    /\ output_files' = Append(output_files, S(w))
    /\ UNCHANGED <<idx, file, segment, text, ofs, data>>

RenameFails_Mutant(w) ==
    /\ Step(w, "rename", "remove") /\ count' = [count EXCEPT !["failed"] = @ + 1]
    /\ UNCHANGED <<idx, file, segment, text, ofs, output_files, llmDisk>>
RenameFails(w) ==
    /\ Step(w, "rename", "remove")
    /\ UNCHANGED <<idx, file, segment, text, ofs, count, output_files, llmDisk>>

(* Whether the file could be removed is not looked at.                      *)
RemoveTmp_Mutant(w) ==
    /\ Counts(w, "remove", "failed")
    /\ UNCHANGED <<idx, file, segment, text, ofs, output_files, llmDisk>>
RemoveTmp(w) ==
    /\ Counts(w, "remove", "failed")
    /\ \/ tmp' = [tmp EXCEPT ![S(w)] = Absent]
       \/ llm.tmp_stays /\ UNCHANGED tmp
    /\ UNCHANGED <<idx, file, segment, text, ofs, output_files, out, data>>

processFile(w) ==
    /\ SkipFile(w) \/ ReadFile(w) \/ Analyse(w) \/ Combine(w) \/ OpenTmp(w) \/ WriteTmp(w)
       \/ RenameTmp(w) \/ RenameFails(w) \/ RemoveTmp(w)

-----------------------------------------------------------------------------
(* The jthreads have been joined.                                           *)
Joined ==
    /\ analyzer = "run" /\ \A w \in Analyzers : at[w] = "done"
    /\ analyzer' = IF llm.merge /\ output_files # <<>> THEN "merge" ELSE "finish"
    /\ UNCHANGED <<llm, analyzerLocals, llmDisk, report, llm_status>>

(* The report is what the model answers, or all the analyses.  When it      *)
(* cannot be opened or renamed, which is no failure of the node, there is   *)
(* none; one that could not be renamed stays in _merged_report.md.tmp.      *)
MergeOutput ==
    /\ analyzer = "merge" /\ analyzer' = "finish"
    /\ \/ \E answer \in callLlm : report' = IF answer = "none" THEN "all" ELSE "summary"
       \/ report' \in {report, "tmp"}
    /\ UNCHANGED <<llm, analyzerLocals, llmDisk, llm_status>>

StatusOf(done, failed) ==
    IF done > 0 THEN IF failed = 0 THEN "success" ELSE "partial" ELSE "failed"

Finish ==
    /\ analyzer = "finish" /\ analyzer' = "ended"
    /\ llm_status' = StatusOf(count.analyzed, count.failed)
    /\ UNCHANGED <<llm, analyzerLocals, llmDisk, report>>

(* The successor has read the directory: the model keeps nothing of it.     *)
AnalyzerForgotten ==
    /\ UNCHANGED analyzer /\ report' = "none" /\ llm_status' = "none"
    /\ llm' = [o \in DOMAIN llm |-> FALSE]
    /\ out' = NoFile /\ tmp' = NoFile /\ data' = NoData
    /\ idx' = 1 /\ at' = All("idle") /\ file' = All(Absent) /\ segment' = All(0)
    /\ text' = All("whole") /\ ofs' = All(Absent) /\ count' = NoCount /\ output_files' = <<>>

AnalyzerStep ==
    \/ Refuse \/ CollectFiles \/ Joined \/ MergeOutput \/ Finish
    \/ \E w \in Analyzers : /\ TakeFile(w) \/ processFile(w)
                          /\ UNCHANGED <<analyzer, llm, report, llm_status>>

-----------------------------------------------------------------------------
(* Properties.                                                              *)
Sources(s) == {f \in Files : Stem[f] = s}

AnalyzerTypeOK ==
    /\ analyzer \in {"collect", "run", "merge", "finish", "ended"}
    /\ idx \in 1 .. Len(Inputs) + Cardinality(Analyzers) + 1
    /\ at \in [Analyzers -> {"idle", "check", "call", "combine", "open", "write",
                           "rename", "remove", "done"}]
    /\ file \in [Analyzers -> Files \cup {Absent}] /\ segment \in [Analyzers -> Nat]
    /\ text \in [Analyzers -> {"cut", "whole"}] /\ ofs \in [Analyzers -> Files \cup {Absent}]
    /\ out \in [Stems -> Files \cup {Absent, Old}] /\ tmp \in [Stems -> Files \cup {Absent}]
    /\ data \in [Files \cup {Old} -> SUBSET (Files \cup {Old, Cut})]
    /\ count \in [{"analyzed", "failed", "skipped"} -> 0 .. Len(Inputs)]
    /\ output_files \in Seq(Stems) /\ report \in {"none", "summary", "all", "tmp"}
    /\ llm_status \in {"none", "success", "partial", "failed"}

(* However the workers share the files and whichever call fails: each input *)
(* is counted once, and each one counted as analysed is in output_files.    *)
CountsAddUp ==
    analyzer \in {"merge", "finish"} =>
        /\ count.analyzed + count.failed + count.skipped = Len(Inputs)
        /\ Len(output_files) = count.analyzed

(* No worker leaves a temporary file, its own or one of a file with the     *)
(* same stem, whichever rename fails, if fs::remove() succeeds.  The one of *)
(* the report is removed by nobody.                                         *)
NoTmpLeft ==
    analyzer \in {"merge", "finish"} /\ ~llm.tmp_stays => \A s \in Stems : tmp[s] = Absent

(* "Atomic write": in every state, the one after a crash included, the      *)
(* output of a stem with one source is absent, of an earlier run or all     *)
(* that was answered; with several sources it is at least not empty in the  *)
(* end.  A full disk breaks both.                                           *)
OutputsWhole ==
    ~llm.disk_full =>
        \A s \in Stems : out[s] \in {Absent, Old} \/
            /\ \A f \in Files : Sources(s) = {f} => data[out[s]] \ {Cut} = {f}
            /\ analyzer \notin {"collect", "run"} =>
                  data[out[s]] \ {Cut} # {} /\ data[out[s]] \ {Cut} \subseteq Sources(s)
=============================================================================
