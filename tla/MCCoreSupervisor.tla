---------------------------- MODULE MCCoreSupervisor ----------------------------
(* Instances of CoreSupervisor for TLC. *)
EXTENDS CoreSupervisor

CONSTANTS launch, list

OneWrite == {launch}
WriteAndRead == {launch, list}
\* A write and a read, then a write with a REBUILD, while spawning may fail; a write while the
\* core may be of another build.
SomeScenarios == {
    [trouble |-> "spawn", asked |-> {launch, list}, faults |-> 2, windows |-> 1, rebuilds |-> 0],
    [trouble |-> "spawn", asked |-> {launch}, faults |-> 2, windows |-> 1, rebuilds |-> 1],
    [trouble |-> "protocol", asked |-> {launch}, faults |-> 2, windows |-> 0, rebuilds |-> 1]}
=============================================================================
