-------------------------- MODULE MCAccessRequests --------------------------
EXTENDS AccessRequests

CONSTANTS own, own2, req, req2

\* two connections of the owner and two of one user, or of two users
OneUser  == [s \in Sessions |-> IF s \in {own, own2} THEN Owner ELSE CHOOSE u \in Users : TRUE]
TwoUsers == [OneUser EXCEPT ![req2] = CHOOSE u \in Users : u # OneUser[req]]

Deciding == {"REQUESTACCESS", "APPROVEREQUEST", "DENYREQUEST"}
All      == Deciding \cup {"ACCESS", "RESYNC"}
=============================================================================
