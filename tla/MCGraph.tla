------------------------------- MODULE MCGraph -------------------------------
(* A camera, a Sobel filter with one input and one output, and a TCP server   *)
(* whose input pins are dynamic.                                              *)
EXTENDS GraphOrdering, TLC

NoPins == [p \in {} |-> "image"]
OnePin == [p \in {0} |-> "image"]
MCInType == [camera |-> NoPins, sobel |-> OnePin, server |-> OnePin]
MCOutType == [camera |-> OnePin, sobel |-> OnePin, server |-> NoPins]
MCPropertyType == [camera |-> "Int", sobel |-> "Orders", server |-> "Bool"]

Tag(i, n, t) == [id |-> i, name |-> n, text |-> t]
Line(s, o, d, i) == [src |-> s, out |-> o, dst |-> d, in |-> i]

(* A file written by hand: texts of other types, a negative id, an element    *)
(* without an id; it is wrong halfway, with a type that is unknown.           *)
HandMade ==
    [elements |-> (3 :> Tag(-2, "camera", "true") @@ 5 :> Tag(-1, "sobel", "y") @@ 6 :> Tag(0, "sepia", "")),
     connections |-> (1 :> Line(-2, 0, 1, 0)), origin |-> "user"]
(* Three filters in a ring. *)
Ring ==
    [elements |-> [i \in 0 .. 2 |-> Tag(i, "sobel", "xy")],
     connections |-> [i \in 0 .. 2 |-> Line(i, 0, (i + 1) % 3, 0)], origin |-> "user"]
(* A camera whose frames reach a server directly and through a filter, in a    *)
(* file that is wrong at its end: an input connected twice.                    *)
Fork ==
    [elements |-> (1 :> Tag(0, "camera", "0") @@ 2 :> Tag(1, "sobel", "x") @@ 3 :> Tag(2, "server", "1")),
     connections |-> (1 :> Line(0, 0, 1, 0) @@ 2 :> Line(1, 0, 2, 0) @@ 3 :> Line(0, 0, 2, 1) @@
                     4 :> Line(0, 0, 2, 1)),
     origin |-> "user"]
MCFiles == [saved |-> NoFile, hand |-> HandMade, ring |-> Ring, fork |-> Fork]
MCTexts == {"0", "1", "2", "true", "false", "", "fast", "slow", "x", "y", "xy"}

(* generateGraphOrdering reads the graph only, no property and no file, so    *)
(* the instance starts the pipeline only while no file has been saved and no  *)
(* element has the value that the user sets.                                  *)
StartsBeforeSaves ==
    phase = "edit" /\ phase' # "edit" =>
        files = InitialFiles /\ \A e \in Elements : children[e].value \notin UserValues
=============================================================================
