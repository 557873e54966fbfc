CONSTANTS
    Entries = {e1}
    Buffers = {b1, b2, b3, b4, b5, b6, b7}
    Chunks = 5
    Chain = 2
    Cached = FALSE
    Sized = FALSE
    Reload = FALSE
    Width = 2
SPECIFICATION FairSpec
INVARIANTS NoAlias Conserved
 
