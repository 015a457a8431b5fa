CONSTANTS c1 = c1  NoConnection = NoConnection
          s1 = s1  s2 = s2  NoStream = NoStream
          MaxBytes <- const_MaxBytes
SPECIFICATION FairSpec
INVARIANTS NoStreamOutlivesItsConnection ClosesNothingInUse SemaphoreNeverOverfilled LaterStreamHoldsTheWorker
PROPERTIES SessionEnds ServerDrains
CHECK_DEADLOCK FALSE
