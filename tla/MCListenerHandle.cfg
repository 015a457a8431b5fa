\* A closed listener has no further step: stopping there is not a deadlock.
CONSTANTS c1 = c1  c2 = c2  c3 = c3
          Connections <- const_Connections
          NoConnection = NoConnection
SPECIFICATION FairSpec
INVARIANTS TypeOK HandOverIsOrderly TokenPerAccept NoConnectionLost NoWaiterStranded CallbacksNeverStuck
PROPERTIES KeepsAcceptPromise StopCompletes
CHECK_DEADLOCK FALSE
