--------------------------- MODULE LlmAudioEditor ---------------------------
(***************************************************************************)
(* LlmAudioEditorNode::execute(): the workers take the instruction files   *)
(* in turn and run the commands of one file one after the other, each with *)
(* ffmpeg, once or twice.  The list of a merge and the two temporary files *)
(* of a silence are named by the process id, which all workers share.      *)
(* The durations that ffprobe tells are left out: no outcome needs one.    *)
(***************************************************************************)
EXTENDS RunCommand, Sequences

CONSTANTS
    Outputs,  \* the names of edited files
    Partial   \* what a program that has not finished leaves in its output

ASSUME WorkersAssumption == IsFiniteSet(Workers) /\ Workers # {}

VARIABLES
    editor,     \* "idle", "run" or "ended"
    aed,        \* aed_overwrite, aed_dry_run
    work,       \* all_file_cmds: the commands of each file that has some
    file_idx,
    job, cmd,   \* of a worker: its file and the number of its command
    est,        \* of a worker: its step
    reads,      \* of a child: the files whose sources its inputs are made of
    temp,       \* of a temporary file: whose command wrote it, 0 when absent
    audio,      \* of an output: the files whose commands made it, {} when absent
    ecount,     \* executed, failed, skipped
    unclean,    \* whether a generation of silence has failed
    aed_status

edLocals == <<file_idx, job, cmd, est, reads, ecount>>
edVars   == <<editor, aed, work, edLocals, temp, audio, unclean, aed_status, rcVars>>

Temps    == {"merge_list", "silence", "silence_list"}
Programs == {"generate", "encode"}
Kinds    == {"plain", "merge", "silence", "invalid"}
    \* plain: cut, crossfade, delete, speed, fade, volume and normalize

(* The temporary files that the encoder reads for a command.                *)
InputsOf(c) == CASE c.kind = "merge"   -> {"merge_list"}
                 [] c.kind = "silence" -> {"silence", "silence_list"}
                 [] OTHER              -> {}
C(w) == work[job[w]][cmd[w]]
audioOf(w) == audio[C(w).out]

EDInit ==
    /\ RCInit
    /\ editor = "idle" /\ aed_status = "none" /\ work = <<>>
    /\ aed = [overwrite |-> FALSE, dry_run |-> FALSE]
    /\ file_idx = 1 /\ unclean = FALSE
    /\ job = [w \in Workers |-> 0] /\ cmd = [w \in Workers |-> 0]
    /\ est = [w \in Workers |-> "idle"] /\ reads = [w \in Workers |-> {}]
    /\ temp = [t \in Temps |-> 0] /\ audio = [o \in Outputs |-> {}]
    /\ ecount = [executed |-> 0, failed |-> 0, skipped |-> 0]

(* No ffmpeg, no output directory or no input path.                         *)
EditorRefuses ==
    /\ editor = "idle" /\ editor' = "ended" /\ aed_status' = "failed"
    /\ UNCHANGED <<aed, work, edLocals, temp, audio, unclean, rcVars>>

(* The files that have commands are taken in their order.  The outputs may  *)
(* be there in part: an earlier run was killed.                             *)
HaveCommands(scripts) == {i \in DOMAIN scripts : scripts[i] # <<>>}
EditorStarts(scripts) ==
    /\ editor = "idle" /\ editor' = "run"
    /\ \E kept \in [1 .. Cardinality(HaveCommands(scripts)) -> HaveCommands(scripts)] :
          /\ \A i, j \in DOMAIN kept : i < j => kept[i] < kept[j]
          /\ work' = [i \in DOMAIN kept |-> scripts[kept[i]]]
    /\ aed' \in [overwrite : BOOLEAN, dry_run : {FALSE}] \cup [overwrite : {TRUE}, dry_run : {TRUE}]
    /\ \E left \in {{}, {Partial}} : /\ aed'.overwrite => left = {Partial}
                                    /\ audio' = [o \in Outputs |-> left]
    /\ verbose' \in BOOLEAN
    /\ UNCHANGED <<edLocals, temp, unclean, aed_status, rc, child, code, holders>>

-----------------------------------------------------------------------------
Goto(w, step) == est' = [est EXCEPT ![w] = step]
NextCommand_Mutant(w) ==
    IF cmd[w] <= Len(work[job[w]])
    THEN cmd' = [cmd EXCEPT ![w] = @ + 1] /\ Goto(w, "test")
    ELSE cmd' = [cmd EXCEPT ![w] = 0] /\ Goto(w, "idle")
NextCommand(w) ==
    IF cmd[w] < Len(work[job[w]])
    THEN cmd' = [cmd EXCEPT ![w] = @ + 1] /\ Goto(w, "test")
    ELSE cmd' = [cmd EXCEPT ![w] = 0] /\ Goto(w, "idle")
Outcome(o) == ecount' = [ecount EXCEPT ![o] = @ + 1]

TakeWork_Mutant(w) ==
    /\ editor = "run" /\ est[w] = "idle"
    /\ IF file_idx <= Len(work)
       THEN /\ job' = [job EXCEPT ![w] = file_idx] /\ cmd' = [cmd EXCEPT ![w] = 1]
            /\ Goto(w, "test")
            /\ file_idx' \in {file_idx, file_idx + 1}
       ELSE Goto(w, "done") /\ file_idx' = file_idx + 1 /\ UNCHANGED <<job, cmd>>
    /\ UNCHANGED <<reads, ecount, temp, audio, unclean, rcVars>>
TakeWork(w) ==
    /\ editor = "run" /\ est[w] = "idle"
    /\ IF file_idx <= Len(work)
       THEN /\ job' = [job EXCEPT ![w] = file_idx] /\ cmd' = [cmd EXCEPT ![w] = 1]
            /\ Goto(w, "test")
       ELSE Goto(w, "done") /\ UNCHANGED <<job, cmd>>
    /\ file_idx' = file_idx + 1
    /\ UNCHANGED <<reads, ecount, temp, audio, unclean, rcVars>>

(* executeEditCommand() up to its first program.  An unknown type fails     *)
(* before the output is looked for, an incomplete command after that.       *)
Skip(w) ==
    /\ est[w] = "test" /\ ~aed.overwrite /\ audioOf(w) # {}
    /\ Outcome("skipped") /\ NextCommand(w)
    /\ UNCHANGED <<file_idx, job, reads, temp, audio, unclean, rcVars>>

Invalid(w) ==
    /\ est[w] = "test" /\ C(w).kind = "invalid"
    /\ Outcome("failed") /\ NextCommand(w)
    /\ UNCHANGED <<file_idx, job, reads, temp, audio, unclean, rcVars>>

Begin(w) ==
    /\ est[w] = "test" /\ (aed.overwrite \/ audioOf(w) = {})
    /\ \/ C(w).kind = "plain"   /\ Goto(w, "encode")   /\ UNCHANGED temp
       \/ C(w).kind = "silence" /\ Goto(w, "generate") /\ UNCHANGED temp
       \/ C(w).kind = "merge"   /\ Goto(w, "encode")
                                /\ temp' = [temp EXCEPT !["merge_list"] = job[w]]
    /\ UNCHANGED <<file_idx, job, cmd, reads, ecount, audio, unclean, rcVars>>

WriteSilenceList(w) ==
    /\ est[w] = "list" /\ Goto(w, "encode")
    /\ temp' = [temp EXCEPT !["silence_list"] = job[w]]
    /\ UNCHANGED <<file_idx, job, cmd, reads, ecount, audio, unclean, rcVars>>

(* A list that cannot be written ends the command; so far a silence has one *)
(* file to unlink.                                                          *)
ListFails(w) ==
    /\ \/ /\ est[w] = "test" /\ C(w).kind = "merge" /\ UNCHANGED temp
          /\ aed.overwrite \/ audioOf(w) = {}
       \/ est[w] = "list" /\ temp' = [temp EXCEPT !["silence"] = 0]
    /\ Outcome("failed") /\ NextCommand(w)
    /\ UNCHANGED <<file_idx, job, reads, audio, unclean, rcVars>>

-----------------------------------------------------------------------------
(* A program: what it opens when it starts, what it leaves when it ends.    *)
(* The encoder without -y refuses an output that is there.                  *)
Pipe(w) ==
    /\ est[w] \in Programs /\ ~aed.dry_run
    /\ Pipes(w)
    /\ UNCHANGED <<edLocals, temp, audio, unclean>>

CanEncode(w) == /\ \A t \in InputsOf(C(w)) : temp[t] # 0
                /\ aed.overwrite \/ audioOf(w) = {}
ReadBy(w) == IF InputsOf(C(w)) = {} THEN {job[w]} ELSE {temp[t] : t \in InputsOf(C(w))}

Start(w) ==
    /\ Fork(w)
    /\ temp'  = IF est[w] = "generate" THEN [temp EXCEPT !["silence"] = job[w]] ELSE temp
    /\ reads' = [reads EXCEPT ![w] = IF est[w] # "encode" THEN {job[w]}
                                     ELSE IF CanEncode(w) THEN ReadBy(w) ELSE {}]
    /\ audio' = IF est[w] = "encode" /\ CanEncode(w)
                THEN [audio EXCEPT ![C(w).out] = {Partial}] ELSE audio
    /\ UNCHANGED <<file_idx, job, cmd, est, ecount, unclean>>

ProgramEnds(w, outcome) ==
    /\ outcome = "ok" => reads[w] # {}
    /\ ChildCloses(w, outcome)
    /\ audio' = IF est[w] = "encode" /\ outcome = "ok"
                THEN [audio EXCEPT ![C(w).out] = (@ \ {Partial}) \cup reads[w]] ELSE audio
    /\ UNCHANGED <<edLocals, temp, unclean>>

ReadOn(w) ==
    /\ CloseWrites(w) \/ EndOfStream(w) \/ ChildExits(w)
    /\ UNCHANGED <<edLocals, temp, audio, unclean>>

-----------------------------------------------------------------------------
(* What executeEditCommand() and the worker make of a program's result.     *)
(* The destructors unlink the temporary files when a command returns; that  *)
(* of the silence is not constructed before its generation has succeeded.   *)
Cleaned_Mutant(w) == [t \in Temps |-> IF t \in InputsOf(C(w)) \ {"silence"} THEN 0 ELSE temp[t]]
Cleaned(w)        == [t \in Temps |-> IF t \in InputsOf(C(w)) THEN 0 ELSE temp[t]]

Result(w, result) ==
    \/ /\ est[w] = "generate" /\ result = "ok" /\ Goto(w, "list")
       /\ UNCHANGED <<cmd, ecount, temp, unclean>>
    \/ /\ est[w] = "generate" /\ result = "failed" /\ Outcome("failed") /\ NextCommand(w)
       /\ unclean' = TRUE /\ UNCHANGED temp
    \/ /\ est[w] = "encode" /\ result = "failed" /\ Outcome("failed") /\ NextCommand(w)
       /\ temp' = Cleaned(w) /\ UNCHANGED unclean
    \/ /\ est[w] = "encode" /\ result = "ok" /\ Outcome("executed") /\ NextCommand(w)
       /\ temp' = Cleaned(w) /\ UNCHANGED unclean

Return(w) ==
    /\ est[w] \in Programs
    /\ \E result \in {"ok", "failed"} : Returns(w, result) /\ Result(w, result)
    /\ reads' = [reads EXCEPT ![w] = {}]
    /\ UNCHANGED <<file_idx, job, audio>>

DryRun(w) ==
    /\ aed.dry_run /\ est[w] \in Programs /\ Result(w, "ok")
    /\ UNCHANGED <<file_idx, job, reads, audio, rcVars>>

WorkerStep(w) ==
    /\ \/ TakeWork(w) \/ Skip(w) \/ Invalid(w) \/ Begin(w) \/ WriteSilenceList(w) \/ ListFails(w)
       \/ Pipe(w) \/ Start(w) \/ ReadOn(w) \/ Return(w) \/ DryRun(w)
       \/ \E outcome \in {"ok", "failed"} : ProgramEnds(w, outcome)
    /\ UNCHANGED <<editor, aed, work, aed_status>>

EditorStatus(executed, failed) ==
    IF failed = 0 THEN "success" ELSE IF executed > 0 THEN "partial" ELSE "failed"

EditorEnds ==
    /\ editor = "run" /\ \A w \in Workers : est[w] = "done"
    /\ editor' = "ended" /\ aed_status' = EditorStatus(ecount.executed, ecount.failed)
    /\ UNCHANGED <<aed, work, edLocals, temp, audio, unclean, rcVars>>

EditorStep == EditorEnds \/ \E w \in Workers : WorkerStep(w)

-----------------------------------------------------------------------------
(* Properties.                                                              *)
Commands == UNION {{<<i, k>> : k \in DOMAIN work[i]} : i \in DOMAIN work}
OutOf(x) == work[x[1]][x[2]].out

EditorTypeOK ==
    /\ RCTypeOK
    /\ editor \in {"idle", "run", "ended"} /\ file_idx \in Nat \ {0}
    /\ \A i \in DOMAIN work : \A k \in DOMAIN work[i] :
          work[i][k].kind \in Kinds /\ work[i][k].out \in Outputs
    /\ est \in [Workers -> Programs \cup {"idle", "test", "list", "done"}]
    /\ \A w \in Workers : est[w] \notin {"idle", "done"} =>
          job[w] \in DOMAIN work /\ cmd[w] \in DOMAIN work[job[w]]
    /\ temp \in [Temps -> 0 .. Len(work)]
    /\ audio \in [Outputs -> SUBSET ((1 .. Len(work)) \cup {Partial})]
    /\ aed_status \in {"none", "success", "partial", "failed"}

(* Each command of each file is counted once, whichever worker runs it.     *)
EachCommandCounted ==
    editor = "ended" =>
        ecount.executed + ecount.failed + ecount.skipped = Cardinality(Commands)

(* The status says "success" only when every output is complete and made    *)
(* from the sources of its own file: provided that it overwrites, that no   *)
(* two commands name one output and that one file at most uses temporary    *)
(* files.  Without that a skipped output may be partial, and a merge may    *)
(* read the list of another worker.                                         *)
Sharing(i) == \E k \in DOMAIN work[i] : InputsOf(work[i][k]) # {}
SuccessMeansEdited ==
    /\ editor = "ended" /\ aed_status = "success" /\ aed.overwrite /\ ~aed.dry_run
    /\ \A x, y \in Commands : OutOf(x) = OutOf(y) => x = y
    /\ \A i, j \in DOMAIN work : Sharing(i) /\ Sharing(j) => i = j
    => \A x \in Commands : audio[OutOf(x)] = {x[1]}

(* No temporary file is left, even when two workers shared it, unless a     *)
(* generation of silence has failed.                                        *)
TempFilesGone == editor = "ended" /\ ~unclean => \A t \in Temps : temp[t] = 0
=============================================================================
