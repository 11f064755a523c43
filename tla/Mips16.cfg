CONSTANTS
    Half = 128
    W = 14
    MemSize = 640
    Programs <- MCPrograms
    Exts <- MCExts
SPECIFICATION Spec
INVARIANTS VocabularyIsTheTable ProductsAndQuotients FramesNest SweepAgrees
CHECK_DEADLOCK FALSE
