----------------------- MODULE MCToolAuthorization -----------------------
(* Small instances of ToolAuthorization: ids that identify the calls, and  *)
(* one id that two calls share.                                            *)
EXTENDS ToolAuthorization

CONSTANTS r1, r2, a, b

OwnIds   == [r \in Requests |-> IF r = r1 THEN a ELSE b]
SharedId == [r \in Requests |-> a]
=============================================================================
