--------------------------- MODULE MCOrderStream ---------------------------
(* Instances of OrderStream for TLC. *)
EXTENDS OrderStream, TLC

CONSTANTS c1, c2, h1, h2, h3

\* c1 comes back to the endpoint with events, c2 is at the plain one.
ReturningAndOther == h1 :> c1 @@ h2 :> c1 @@ h3 :> c2

\* Two clients; c2 may come back to the plain endpoint.
TwoClients == h1 :> c1 @@ h2 :> c2 @@ h3 :> c2
=============================================================================
