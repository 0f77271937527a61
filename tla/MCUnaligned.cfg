CONSTANTS
    Width = 4
    MemoryBytes = 8
    Bytes <- MCBytes
    Zero = 0
    None = None
SPECIFICATION MCSpec
INVARIANT PairLoadsWord
