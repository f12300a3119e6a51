CONSTANT MaxFd = 2
SPECIFICATION Spec
INVARIANT OnlyOneConnection
