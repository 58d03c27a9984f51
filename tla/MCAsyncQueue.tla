----------------------------- MODULE MCAsyncQueue -----------------------------
(* Two producers, two consumers and one drainer: enough for a reset to     *)
(* race with the signal of either producer and with a second consumer.     *)
EXTENDS AsyncQueue

CONSTANTS p1, p2, c1, c2, d1

MCProducers == {p1, p2}
MCConsumers == {c1, c2}
MCDrainers == {d1}
===============================================================================
