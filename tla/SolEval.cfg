CONSTANTS
  Sources <- MCSources
  Spelling <- MCSpelling
  Garbage = Garbage
  MaxHeap = 400
SPECIFICATION Spec
INVARIANTS TypeOK ObjectCount Borrowed ScopesMatch Computes LengthsRead
