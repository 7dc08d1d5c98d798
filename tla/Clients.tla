------------------------------ MODULE Clients ------------------------------
(* The two channels between a tab and the backend: requests with cookies   *)
(* and tokens (ApiClient), and the socket with its rooms (Rooms).  They    *)
(* share no variable.                                                      *)
EXTENDS ApiClient, Rooms

\* Whatever the two channels do.
ClientsSpec == ApiSpec /\ RoomsSpec

\* Every variable of both has its type; of ApiClient that includes that no
\* request waits for a refresh that is over, and of Rooms that a connection
\* that is gone or not admitted has no rooms and no messages.
TypesOK == ApiTypeOK /\ RoomsTypeOK

=============================================================================
