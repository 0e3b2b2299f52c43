\* A worktree of one host, where the promise is full, and one that two hosts share.
CONSTANTS
  s1 = s1  s2 = s2  s3 = s3  h1 = h1  h2 = h2
  Sessions = {s1, s2, s3}
  Hosts = {h1, h2}
  Sites <- MCSites
  NoOwner = NoOwner
SPECIFICATION Spec
SYMMETRY SymmetricPeers
INVARIANTS RecordNamesHolder TakeoverVisible SomebodyGetsThrough MutualExclusion
PROPERTY LeaseRefined
