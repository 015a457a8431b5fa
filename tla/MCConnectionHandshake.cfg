\* One property, which the code does not keep.
CONSTANTS s1 = s1  s2 = s2  s3 = s3
          Streams <- const_Streams
          NoStream = NoStream
SPECIFICATION Spec
INVARIANT SomeServerAssertHolds
CHECK_DEADLOCK FALSE
