SPECIFICATION Spec
CONSTANTS
  a = a
  b = b
  c = c
  getA = getA
  postA = postA
  callA = callA
  none = none
  NoName = none
  Requests <- MCRequests
  GrpcCalls <- MCGrpcCalls
  Routes <- MCRoutes
  MaxRoutes = 3
INVARIANTS
  TypeOK
  SoundDispatch
  CompleteDispatch
  RealAnswer
