----------------------------- MODULE MCTraceTruck -----------------------------
(* Both builds of the trace shipper with two tracing threads of two lines  *)
(* each, one truck and one stopper.                                        *)
EXTENDS TraceBuilds

CONSTANTS a1, a2

MCTracers == {a1, a2}
OnlyWindows == {"Windows"}
AllBuilds == {"Windows", "POSIX"}
===============================================================================
