\* One property, which the code does not keep.
CONSTANTS MaxBuffers <- const_MaxBuffers
          MaxLen <- const_MaxLen
          Unset = Unset
SPECIFICATION Spec
INVARIANT AllBuffersInOrder
CHECK_DEADLOCK FALSE
