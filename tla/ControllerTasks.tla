--------------------------- MODULE ControllerTasks ---------------------------
(***************************************************************************)
(* The monitor task of a controller, as node/task.go uses it: it is started *)
(* with Start(false) by one goroutine at a time, its Execute function       *)
(* always returns nil, and it is closed and started again when the panel    *)
(* changes its interval.                                                   *)
(***************************************************************************)
EXTENDS PeriodicTask

(* startTasks, later nodeInfoMonitor: only one of them is in Start.         *)
OwnerStart(c) ==
    /\ \A d \in Chains : ~sync[d]
    /\ Start(c, FALSE)

UseStep(c) ==
    \/ OwnerStart(c)
    \/ Fire(c)
    \/ HasClosed(c)
    \/ ArmFirst(c)
    \/ BeginExecute(c)
    \/ ExecuteOK(c)

(* nodeInfoMonitorPeriodic: its own Execute reaches Close (line 210), whose *)
(* access.Lock() waits for the mutex that this very goroutine holds.        *)
SelfClose(c) ==
    /\ pc[c] = "exec"
    /\ Goto(c, "stuck")
    /\ UNCHANGED <<running, timer, access, first, sync, closing>>

MonitorTaskNext ==
    \/ \E c \in Chains : UseStep(c) \/ SelfClose(c)
    \/ \E k \in Closers : CallClose(k) \/ Close(k)

MonitorTaskSpec == Init /\ [][MonitorTaskNext]_vars /\ Fairness
=============================================================================
