SPECIFICATION Spec
CONSTANTS
    Steps = {s1, s2}
    Writers = {w}
    Stdout = stdout
    MaxRuns = 1
    MaxSetups = 2
    Reports <- MCReports
SYMMETRY Symmetry
INVARIANTS
    TypeOK
    StoryInOrder
    StyleFitsOutput
CHECK_DEADLOCK FALSE
