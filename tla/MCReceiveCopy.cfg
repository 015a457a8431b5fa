\* The handler returns after the copy: stopping there is not a deadlock.
CONSTANTS MaxBuffers <- const_MaxBuffers
          MaxLen <- const_MaxLen
          Unset = Unset
SPECIFICATION Spec
INVARIANTS TypeOK AcknowledgesWhatFits SingleBufferInOrder
CHECK_DEADLOCK FALSE
