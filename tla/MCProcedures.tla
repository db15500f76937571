---------------------------- MODULE MCProcedures ----------------------------
EXTENDS Procedures
CONSTANTS c1, c2, u1
MCActionOf == [e \in Episode |-> "build"]
=============================================================================
