SPECIFICATION Spec
CONSTANTS
  Proc = {p1, p2}
  Client = {c1}
  Ino = {i1, i2, i3}
  None = None
  MaxCrashes = 2
INVARIANTS
  ServingIsPublished
  NoLeftovers
PROPERTIES
  OwnerSpec
  StartSucceeds
  ShutdownEnds
