------------------------------ MODULE MCIoEngine ------------------------------
(* IoEngine for one or two executors and for either class of the object.   *)
EXTENDS IoEngine

CONSTANTS x1, x2

OneExecutor == {x1}
TwoExecutors == {x1, x2}

OnlyConnection == {"Connection"}
AllClasses == {"Connection", "RtspSession"}

(* The blocks beyond FewOvls are those of a session that reads a second    *)
(* time, in behaviours without a failing system call.                      *)
FewOvls == 5

BoundedNext ==
    /\ Next
    /\ nalloc' <= FewOvls \/ (class = "RtspSession" /\ failures' = 0)

BoundedSpec == Init /\ [][BoundedNext]_vars
===============================================================================
