------------------------------- MODULE MCEcho -------------------------------
(* Echo with buffers of a few bytes.                                       *)
EXTENDS EchoContract
=============================================================================
