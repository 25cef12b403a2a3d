------------------------------- MODULE MCSocom -------------------------------
(* Two client connectors in turn and one event.                             *)
EXTENDS SocomProperties

CONSTANTS c1, c2, e1
=============================================================================
