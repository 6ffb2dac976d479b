----------------------- MODULE MCBoardPersistence -----------------------
(* Small boards: b refers to a, c is independent of both. *)
EXTENDS BoardPersistence

CONSTANTS a, b, c

MCUpdates == {a, b, c}
MCDeps == [u \in MCUpdates |-> IF u = b THEN {a} ELSE {}]

MCTwo == {a, b}
MCTwoDeps == [u \in MCTwo |-> IF u = b THEN {a} ELSE {}]
=============================================================================
