----------------------------- MODULE MCAuditTrail ------------------------------
EXTENDS AuditTrail

CONSTANTS r1, r2, r3

\* The third run of the server is given the pid of the first.
Pids == r1 :> 7 @@ r2 :> 8 @@ r3 :> 7
=============================================================================
