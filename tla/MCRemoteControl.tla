--------------------------- MODULE MCRemoteControl ---------------------------
(***************************************************************************)
(* RemoteControl for TLC: two environments that nothing tells apart and    *)
(* one device.  Of the statuses the run has disabled, connected and        *)
(* errored; connecting is covered by the theorems only.                    *)
(***************************************************************************)
EXTENDS RemoteControl, TLC

CONSTANTS e1, e2

Symmetry == Permutations({e1, e2})

=============================================================================
