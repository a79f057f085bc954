---------------------------- MODULE MCSyncRunner ----------------------------
(* The instance TLC checks of SyncRunner.                                     *)
EXTENDS SyncRunner

Budget(f, a, t, r) == [flows |-> f, asks |-> a, trouble |-> t, restarts |-> r]

\* Two Device Flows; a flow and a page; a flow through one trouble and one restart.
SomeBudgets == {Budget(2, 0, 0, 0), Budget(1, 1, 0, 0), Budget(1, 0, 1, 1)}
EveryRate == {"plenty", "low", "empty"}
=============================================================================
