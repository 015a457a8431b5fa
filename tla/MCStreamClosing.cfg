\* One property, which the code does not keep.
CONSTANT MaxBytes <- const_MaxBytes
SPECIFICATION Spec
INVARIANT SomeClosingAssertHolds
CHECK_DEADLOCK FALSE
