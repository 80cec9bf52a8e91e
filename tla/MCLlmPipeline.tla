---------------------------- MODULE MCLlmPipeline ----------------------------
(***************************************************************************)
(* Two input files with the same stem and a third, long enough for two     *)
(* pieces; commands of every kind, temporary files in both outputs.        *)
(***************************************************************************)
EXTENDS LlmPipeline

CONSTANTS talk1, talk2, song, o1, o2

MCInputs   == <<talk1, talk2, song>>
MCStem     == talk1 :> "talk" @@ talk2 :> "talk" @@ song :> "song"
MCSegments == talk1 :> 1 @@ talk2 :> 1 @@ song :> 2

Command(k, o) == [kind |-> k, out |-> o]
MCScript ==
    talk1 :> <<Command("merge", o1)>> @@
    talk2 :> <<Command("plain", o1), Command("invalid", o1)>> @@
    song  :> <<Command("silence", o2)>> @@
    Old   :> <<Command("invalid", o2)>>

(* The workers of a node differ in their names only.                        *)
MCSymmetry == Permutations(Analyzers) \cup Permutations(Workers)
=============================================================================
