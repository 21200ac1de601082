----------------------------- MODULE MCSession -----------------------------
(* Instances of Session for TLC.                                           *)
EXTENDS Session

\* A process with UDP and one without it.
MCOffered == {{}, {"udp"}}
=============================================================================
