------------------------------ MODULE MCDrives ------------------------------
(***************************************************************************)
(* Drives on small instances: up to three drivers on one net.             *)
(***************************************************************************)
EXTENDS Drives

CONSTANTS d1, d2, d3, n1

\* Strong drivers on a wire.
MCResolve(f) ==
  LET driven == {f[d] : d \in DOMAIN f} \ {"z"} IN
  IF driven = {} THEN "z"
  ELSE IF Cardinality(driven) = 1 THEN CHOOSE b \in driven : TRUE ELSE "x"

MCNetOf == [d \in Drivers |-> n1]

\* assign #(2, 1, 0), assign, and assign #1.
MCForm == [d \in Drivers |-> CASE d = d1 -> "transitions" [] d = d2 -> "immediate" [] d = d3 -> "single"]
MCDriveDelays ==
  [d \in Drivers |-> CASE d = d1 -> [rise |-> 2, fall |-> 1, off |-> 0]
                       [] d = d2 -> [rise |-> 0, fall |-> 0, off |-> 0]
                       [] d = d3 -> [rise |-> 1, fall |-> 1, off |-> 1]]

\* The first driver is turned on and off, the others meet it with fewer values.
MCDriveVals ==
  [d \in Drivers |-> CASE d = d1 -> {"0", "1", "z"} [] d = d2 -> {"1", "z"} [] d = d3 -> {"0", "1"}]

\* wire #(1, 2).
MCNetDelays == [n \in DrivenNets |-> [rise |-> 1, fall |-> 2, off |-> 1]]
=============================================================================
