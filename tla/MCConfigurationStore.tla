------------------------ MODULE MCConfigurationStore ------------------------
(* Small instances of ConfigurationStore: the empty document, two that the  *)
(* validators accept and one, left by older firmware, that they refuse.     *)
EXTENDS ConfigurationStore

CONSTANTS empty, docA, docB, legacy

MCDocs     == {empty, docA, docB, legacy}
MCAccepted == {empty, docA, docB}
=============================================================================
