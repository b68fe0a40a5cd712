SPECIFICATION Spec
CONSTANTS
  Requesters = {http, loop}
  Workers = {w1, w2}
  Urls = {u1, u2}
  None = None
  ByHand = ByHand
INVARIANTS TypeOK OneWorker HandleMeansWorker
PROPERTIES DownloadsWhatIsPrepared BusyEnds
