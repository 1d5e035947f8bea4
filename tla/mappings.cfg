\* Three connections over two descriptors, so that one is used again; two
\* endpoints; two messages.
CONSTANTS
  s1 = s1  s2 = s2  s3 = s3
  e1 = e1  e2 = e2
  f1 = f1  f2 = f2
  None = None
  States <- MCStates
  Eps <- MCEps
  Fds <- MCFds
  MaxSends = 2
SPECIFICATION Spec
SYMMETRY MCSymmetry
INVARIANTS
  KeysUnique
  
  NoMappingsLeft
  NobodySkipped
  
CHECK_DEADLOCK FALSE
