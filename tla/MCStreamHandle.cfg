\* A closed stream has no further step: stopping there is not a deadlock.
CONSTANT MaxBytes <- const_MaxBytes
SPECIFICATION FairSpec
INVARIANTS TypeOK HandshakeAssertsHold ChannelsNeverMisused NoWaiterStranded NothingOwedAtEnd BytesInOrder
PROPERTIES DeliversByteStream OperationsComplete
CHECK_DEADLOCK FALSE
