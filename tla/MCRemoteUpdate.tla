--------------------------- MODULE MCRemoteUpdate ---------------------------
(* Small instances of RemoteUpdate: the two tasks that make requests, two    *)
(* releases, and one worker more than there should ever be.                  *)
EXTENDS RemoteUpdate
=============================================================================
