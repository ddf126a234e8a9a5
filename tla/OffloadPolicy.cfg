SPECIFICATION FairSpec
CONSTANTS
  Key = {k1, k2, k3}
  Capacity = 2
  MaxTouch = 2
  MaxWant = 3
INVARIANTS
  BooksAgree
PROPERTIES
  EvictExact
  EvictReturns
