-------------------------- MODULE MCFirmwareUpdate --------------------------
(* Small instances of FirmwareUpdate: images of two chunks, build 1 (the     *)
(* factory's, whose manifest is not at hand) and three newer ones, the last  *)
(* without a signed manifest, and streams that are complete, of an unsigned  *)
(* or older build as well, cut short, or mixed up and too long, as when the  *)
(* chunks of two connections alternate.                                      *)
EXTENDS FirmwareUpdate

CONSTANTS a, d

MCStreams == {Image(1), Image(2), Image(3), <<<<2, 1>>>>,
              <<<<2, 1>>, <<3, 2>>, <<2, 2>>>>}
=============================================================================
