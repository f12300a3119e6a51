CONSTANT MaxFd = 2
SPECIFICATION Spec
INVARIANTS
  TypeOK
  ActiveWhenClient
PROPERTIES
  ClosesGoneOrReused
