--------------------------- MODULE BaseTransport ---------------------------
(* The flags every carrier embeds (transport/transport.go): whether it was *)
(* started and not stopped, and whether it says it is connected.           *)

VARIABLES running, connected

FlagsOK == running \in BOOLEAN /\ connected \in BOOLEAN

\* Start has been called, which sets the one and leaves the other.
Started == running = TRUE /\ connected = FALSE

\* BaseTransport.Stop
Stopped == running' = FALSE /\ connected' = FALSE
=============================================================================
