SPECIFICATION Spec
CONSTANTS
  a = a
  d = d
  Builds = {1, 2, 3, 4}
  Signed = {2, 3}
  Size = 2
  Streams <- MCStreams
  Uploads = {}
  Downloads = {d}
INVARIANT ErrorIsFailed
