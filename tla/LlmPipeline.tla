----------------------------- MODULE LlmPipeline -----------------------------
(***************************************************************************)
(* The end of the pipeline of the README: the analyzer's node, then the    *)
(* editor's, in one graph.  They share the directory of the analyses and   *)
(* nothing else: a node that reports "failed" has returned like any other, *)
(* and the editor runs on what the directory holds.                        *)
(***************************************************************************)
EXTENDS LlmTextAnalyzer, LlmAudioEditor, SequencesExt

(* The commands an analysis of a file contains, Old for an earlier run.     *)
CONSTANT Script

ASSUME ScriptAssumption ==
    Script \in [Files \cup {Old} -> Seq([kind : Kinds, out : Outputs])]

vars == <<analyzerVars, edVars>>

Init == AnalyzerInit /\ EDInit

-----------------------------------------------------------------------------
(* extractJsonCommands() takes the objects that are complete, so that an    *)
(* analysis that was cut gives the commands before the cut.  Of one that    *)
(* two workers have written over each other anything or nothing is left.    *)
Extracted(content) ==
    LET by == content \ {Cut}
    IN  IF Cardinality(by) = 1 /\ Cut \notin content
        THEN {Script[f] : f \in by}
        ELSE {<<>>} \cup UNION {Prefixes(Script[f]) : f \in by}

(* What the instruction files may give, the report of the analyses first.   *)
Reported == IF report = "all"
            THEN UNION {Extracted(data[out[output_files[k]]]) : k \in DOMAIN output_files}
            ELSE {<<>>}
Analysed(s) == IF out[s] = Absent THEN {<<>>} ELSE Extracted(data[out[s]])
Names       == SetToSeq(Stems)

(* The next node of the graph starts when the first one has returned.  The  *)
(* analyses are not read again: the model keeps nothing of them.            *)
AnalyzerNode == AnalyzerStep /\ UNCHANGED edVars

StartEditor ==
    /\ analyzer = "ended"
    /\ \E r \in Reported, t \in [DOMAIN Names -> UNION {Analysed(s) : s \in Stems}] :
          /\ \A k \in DOMAIN Names : t[k] \in Analysed(Names[k])
          /\ EditorStarts(<<r>> \o t)
    /\ AnalyzerForgotten

RefuseEditor == analyzer = "ended" /\ EditorRefuses /\ UNCHANGED analyzerVars

EditorNode == EditorStep /\ UNCHANGED analyzerVars

Next == AnalyzerNode \/ StartEditor \/ RefuseEditor \/ EditorNode

Spec == Init /\ [][Next]_vars

-----------------------------------------------------------------------------
(* Properties.                                                              *)

(* Both nodes keep to their types: no counter exceeds what there is to      *)
(* count, and each worker is at a place its loop has.                       *)
PipelineTypeOK == AnalyzerTypeOK /\ EditorTypeOK

(* Both nodes return, as long as no program writes more to its stderr than *)
(* a pipe holds: a worker waits for its own program and for those that have *)
(* inherited its pipes, and each of them gets on without it.  The analyzer's *)
(* workers wait for nobody.  No step is repeated, so that whoever is never  *)
(* stuck comes to an end.                                                   *)
CanMove(w) ==
    \/ est[w] \in {"idle", "test", "list"} \/ rc[w] = "forked" \/ child[w] = "closed"
    \/ est[w] \in Programs /\ rc[w] \in {"idle", "pipes"}
    \/ rc[w] \in {"stdout", "stderr"} /\ holders[w] = {}
    \/ child[w] = "running" /\ (verbose => rc[w] = "stderr")
    \/ child[w] = "exited" /\ rc[w] = "wait"

NoWaitInVain ==
    editor = "run" /\ ~verbose =>
        \A w \in Workers : est[w] # "done" => \E v \in {w} \cup (holders[w] \ {Parent}) : CanMove(v)

NobodyStuck ==
    /\ analyzer # "ended" => ENABLED AnalyzerStep
    /\ editor = "run" => /\ \A w \in Workers : CanMove(w) <=> ENABLED WorkerStep(w)
                         /\ NoWaitInVain
                         /\ ~verbose => ENABLED EditorStep
=============================================================================
