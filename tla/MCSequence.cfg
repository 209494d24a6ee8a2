SPECIFICATION Spec
CONSTANTS
    Seqs = {s1, s2}
    Nodes = {n1, n2, n3}
    NoSeq = NoSeq
    RemoveCleared = FALSE
INVARIANTS WellLinked
PROPERTIES RefinesDeque IterationExact IterationEnds
CHECK_DEADLOCK FALSE
