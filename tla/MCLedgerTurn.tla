---------------------------- MODULE MCLedgerTurn ----------------------------
(* Instances of LedgerTurn for TLC.  The bounds are in the configurations: *)
(* a fault uses up at most one claim of the run, so MaxFence = MaxFaults + *)
(* 2 leaves every behaviour a claim more than it can need.                 *)
EXTENDS LedgerTurn

NoOrphans == {"crash", "identity", "slack", "transport", "others"}
WithSandbox == NoOrphans \cup {"sandbox"}
StallOnly == {"identity", "stall"}
Orphans == {"stall", "orphan", "others", "slack"}
=============================================================================
