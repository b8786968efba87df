----------------------------- MODULE MCWorkbench -----------------------------
(* The editor with cameras and servers, whose input pins are dynamic. *)
EXTENDS Workbench, TLC

NoPins == [p \in {} |-> "image"]
OnePin == [p \in {0} |-> "image"]
MCInType == [camera |-> NoPins, server |-> OnePin]
MCOutType == [camera |-> OnePin, server |-> NoPins]
MCPropertyType == [camera |-> "Int", server |-> "Enum"]
MCTexts == {"0", "1", "2", "true", "false", "", "fast", "slow", "x", "y", "xy"}

(* A camera that feeds a server on two pins, and on one it does not have:      *)
(* load() fails after the elements and two connections.                       *)
Line(p) == [src |-> 0, out |-> 0, dst |-> 1, in |-> p]
Served ==
    [elements |-> (0 :> [id |-> 0, name |-> "camera", text |-> "0"] @@
                   1 :> [id |-> 1, name |-> "server", text |-> "slow"]),
     connections |-> (0 :> Line(0) @@ 1 :> Line(1) @@ 2 :> Line(3)),
     origin |-> "user"]
WBFiles == [saved |-> NoFile, served |-> Served]
=============================================================================
