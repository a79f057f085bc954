--------------------------- MODULE MCIndexRecovery ---------------------------
(* Small instances of IndexRecovery. *)
EXTENDS IndexRecovery

CONSTANTS proj, settings

ProjectAndSettings == {proj, settings}
Settings == {settings}
=============================================================================
