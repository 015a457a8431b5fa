CONSTANTS w1 = w1  w2 = w2  w3 = w3  w4 = w4
          n1 = n1  n2 = n2  n3 = n3
          x1 = x1  x2 = x2  x3 = x3  x4 = x4
          Wrappers <- const_Wrappers
          Natives <- const_Natives
          Contexts <- const_Contexts
          Null = Null
SPECIFICATION Spec
SYMMETRY Symmetry
INVARIANTS TypeOK OneOwner NothingLeaks EventsReachTheOwner PlaceHoldersAreReusable
