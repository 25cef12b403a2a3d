------------------------------ MODULE MCRuntime ------------------------------
(* Two client connectors, a server connector and a bridge on one record.    *)
EXTENDS RuntimeProperties

CONSTANTS c1, c2, s1, b1
=============================================================================
