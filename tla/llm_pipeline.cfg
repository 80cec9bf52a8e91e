SPECIFICATION Spec
CONSTANTS
    Analyzers = {a1, a2}
    Workers = {w1, w2}
    Inputs <- MCInputs
    Stem <- MCStem
    Segments <- MCSegments
    Script <- MCScript
    Outputs = {o1, o2}
    talk1 = talk1
    talk2 = talk2
    song = song
    o1 = o1
    o2 = o2
    Absent = Absent
    Old = Old
    Cut = Cut
    Parent = Parent
    Partial = Partial
SYMMETRY MCSymmetry
INVARIANTS PipelineTypeOK CountsAddUp NoTmpLeft OutputsWhole HoldersWillClose EachCommandCounted SuccessMeansEdited TempFilesGone NobodyStuck
CHECK_DEADLOCK FALSE
