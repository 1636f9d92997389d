------------------------------ MODULE MCInbound -----------------------------
(* Inbound as its runs check it.                                           *)
EXTENDS Inbound
=============================================================================
