\* A closed connection has no further step, and a worker blocked on a stream
\* that nobody accepts waits for ever: stopping is not an error of its own.
CONSTANTS s1 = s1  s2 = s2  s3 = s3
          Streams <- const_Streams
          NoStream = NoStream
SPECIFICATION FairSpec
INVARIANTS TypeOK HandshakeAssertsHold ChannelsNeverMisused TokenPerAccept NoStreamLost NoWaiterStranded BlockedWorkerCanBeFreed
PROPERTIES KeepsAcceptPromise AcceptFreesTheWorker OperationsComplete
CHECK_DEADLOCK FALSE
