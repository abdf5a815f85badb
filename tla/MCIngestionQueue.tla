--------------------------- MODULE MCIngestionQueue ---------------------------
(* A small instance of IngestionQueue: two uploads whose handlers ask for the *)
(* same index build, or one upload and a candidate request.                   *)
EXTENDS IngestionQueue

CONSTANTS p1, p2, b1, c1

KindOf(j) == IF j \in {p1, p2} THEN "parse" ELSE IF j = b1 THEN "build" ELSE "candidate"
MCKind == [j \in Jobs |-> KindOf(j)]
MCFollow == [j \in Jobs |-> IF KindOf(j) = "parse" THEN {b1} \cap Jobs ELSE {}]
MCMaxAttempts == [j \in Jobs |-> IF j = p2 THEN 1 ELSE 2]
===============================================================================
