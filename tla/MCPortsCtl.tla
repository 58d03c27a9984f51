------------------------------ MODULE MCPortsCtl ------------------------------
(* PortsCtl for a range from an even port to an even one, as the default   *)
(* range 20000 .. 30000 is: two pairs and a last port that has no          *)
(* neighbour and whose entry lies behind the bitmap.                       *)
EXTENDS PortsCtl
===============================================================================
