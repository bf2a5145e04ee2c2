SPECIFICATION Spec
CONSTANTS
 ChunkSize = 2
 MaxBytes = 4
 MaxLength = 4
 MaxMarks = 2
CHECK_DEADLOCK FALSE
INVARIANTS StreamInv OffsetsOrdered
PROPERTIES GoesAsFarAsAsked CallsReturn ImplementsPlainFile
