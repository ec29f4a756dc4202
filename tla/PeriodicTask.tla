---------------------------- MODULE PeriodicTask ----------------------------
(***************************************************************************)
(* common/task/task.go: a Task calls Execute every Interval by re-arming a  *)
(* one-shot time.AfterFunc timer at the end of each execution.             *)
(*                                                                         *)
(* A "chain" is one self-perpetuating sequence of checkedExecute calls: it  *)
(* begins in the goroutine that calls Start and goes on in the goroutines   *)
(* of the timers it arms.  Nothing in the code ties a Task to one chain.    *)
(* The mutex `access' is modelled by its holder, and only Execute, which    *)
(* runs while the mutex is held, needs more than one step under it.         *)
(***************************************************************************)
EXTENDS Naturals, FiniteSets

CONSTANTS
    Chains,     \* identities of the chains (bounds how many exist at once)
    Closers,    \* goroutines that may call Close
    None        \* a nil timer, a free mutex

ASSUME ChainsAssumption == None \notin Chains

VARIABLES
    running,    \* Task.running
    timer,      \* Task.timer: the chain that armed the timer it points to
    access,     \* Task.access: the chain executing under the mutex, or None
    pc,         \* where each chain is
    first,      \* the argument of the chain's current checkedExecute
    sync,       \* TRUE while the chain is still inside the call of Start
    closing     \* the goroutines blocked in, or about to enter, Close

vars == <<running, timer, access, pc, first, sync, closing>>

(***************************************************************************)
(* idle    no timer and no goroutine                                       *)
(* armed   its timer is pending                                            *)
(* check   checkedExecute was called, hasClosed is next                    *)
(* lock    hasClosed answered FALSE, access.Lock() is next                 *)
(* exec    Execute is running                                              *)
(* fix     Execute failed inside Start, which will clear running again     *)
(* stuck   Execute itself called Close (see ControllerTasks)                *)
(***************************************************************************)
PCs == {"idle", "armed", "check", "lock", "exec", "fix", "stuck"}

(* Type invariant: timer and mutex name chains, every chain is at one of    *)
(* the places above (the fields of Task, task.go 9-18).                     *)
TypeOK ==
    /\ running \in BOOLEAN
    /\ timer \in Chains \cup {None}
    /\ access \in Chains \cup {None}
    /\ pc \in [Chains -> PCs]
    /\ first \in [Chains -> BOOLEAN]
    /\ sync \in [Chains -> BOOLEAN]
    /\ closing \in SUBSET Closers

Init ==
    /\ running = FALSE
    /\ timer = None
    /\ access = None
    /\ pc = [c \in Chains |-> "idle"]
    /\ first = [c \in Chains |-> FALSE]
    /\ sync = [c \in Chains |-> FALSE]
    /\ closing = {}

Goto(c, l) == pc' = [pc EXCEPT ![c] = l]

(* A plausible slip: arming clears the handle instead of storing it. *)
ArmTimerForgotten(c) ==
    /\ Goto(c, "armed")
    /\ timer' = None
    /\ sync' = [sync EXCEPT ![c] = FALSE]

(* t.timer = time.AfterFunc(...); the Start that called it returns nil. *)
ArmTimer(c) ==
    /\ Goto(c, "armed")
    /\ timer' = c
    /\ sync' = [sync EXCEPT ![c] = FALSE]

-----------------------------------------------------------------------------
(* Start up to its first Unlock.  Starting a running task changes nothing.  *)
Start(c, f) ==
    /\ access = None
    /\ ~running
    /\ pc[c] = "idle"
    /\ running' = TRUE
    /\ Goto(c, "check")
    /\ first' = [first EXCEPT ![c] = f]
    /\ sync' = [sync EXCEPT ![c] = TRUE]
    /\ UNCHANGED <<timer, access, closing>>

FirePassesFalse(c) ==
    /\ pc[c] = "armed"
    /\ Goto(c, "check")
    /\ first' = [first EXCEPT ![c] = FALSE]
    /\ UNCHANGED <<running, timer, access, sync, closing>>

(* The runtime starts the timer's callback, checkedExecute(true). *)
Fire(c) ==
    /\ pc[c] = "armed"
    /\ Goto(c, "check")
    /\ first' = [first EXCEPT ![c] = TRUE]
    /\ UNCHANGED <<running, timer, access, sync, closing>>

HasClosedEnds(c) ==
    /\ access = None
    /\ pc[c] = "check"
    /\ Goto(c, IF running THEN "lock" ELSE "closed")
    /\ sync' = [sync EXCEPT ![c] = @ /\ running]
    /\ UNCHANGED <<running, timer, access, first, closing>>

(* hasClosed takes and releases the mutex: its answer may be stale at once. *)
HasClosed(c) ==
    /\ access = None
    /\ pc[c] = "check"
    /\ Goto(c, IF running THEN "lock" ELSE "idle")
    /\ sync' = [sync EXCEPT ![c] = @ /\ running]
    /\ UNCHANGED <<running, timer, access, first, closing>>

(* checkedExecute(false) under the mutex: arm the timer, do not execute. *)
ArmFirst(c) ==
    /\ access = None
    /\ pc[c] = "lock"
    /\ ~first[c]
    /\ IF running
       THEN ArmTimer(c)
       ELSE /\ Goto(c, "idle")
            /\ sync' = [sync EXCEPT ![c] = FALSE]
            /\ UNCHANGED timer
    /\ UNCHANGED <<running, access, first, closing>>

BeginExecuteUnlocked(c) ==
    /\ pc[c] = "lock"
    /\ first[c]
    /\ access' = c
    /\ Goto(c, "exec")
    /\ UNCHANGED <<running, timer, first, sync, closing>>

(* checkedExecute(true): lock and call Execute, whatever running is now. *)
BeginExecute(c) ==
    /\ access = None
    /\ pc[c] = "lock"
    /\ first[c]
    /\ access' = c
    /\ Goto(c, "exec")
    /\ UNCHANGED <<running, timer, first, sync, closing>>

ExecuteOKNeverArms(c) ==
    /\ pc[c] = "exec"
    /\ Goto(c, "idle")
    /\ sync' = [sync EXCEPT ![c] = FALSE]
    /\ access' = None
    /\ UNCHANGED <<running, timer, first, closing>>

(* Execute returned nil: arm the next timer unless the task was closed. *)
ExecuteOK(c) ==
    /\ pc[c] = "exec"
    /\ IF running
       THEN ArmTimer(c)
       ELSE /\ Goto(c, "idle")
            /\ sync' = [sync EXCEPT ![c] = FALSE]
            /\ UNCHANGED timer
    /\ access' = None
    /\ UNCHANGED <<running, first, closing>>

(* Execute failed: the task stops; a Start in progress will clear running   *)
(* a second time.                                                           *)
ExecuteErr(c) ==
    /\ pc[c] = "exec"
    /\ running' = FALSE
    /\ access' = None
    /\ Goto(c, IF sync[c] THEN "fix" ELSE "idle")
    /\ UNCHANGED <<timer, first, sync, closing>>

StartFailedRetries(c) ==
    /\ access = None
    /\ pc[c] = "fix"
    /\ running' = FALSE
    /\ Goto(c, "lock")
    /\ UNCHANGED <<timer, access, first, sync, closing>>

(* The error path of Start. *)
StartFailed(c) ==
    /\ access = None
    /\ pc[c] = "fix"
    /\ running' = FALSE
    /\ Goto(c, "idle")
    /\ sync' = [sync EXCEPT ![c] = FALSE]
    /\ UNCHANGED <<timer, access, first, closing>>

CallClose(k) ==
    /\ k \notin closing
    /\ closing' = closing \cup {k}
    /\ UNCHANGED <<running, timer, access, pc, first, sync>>

CloseWaitsForChains(k) ==
    /\ k \in closing
    /\ \A c \in Chains : pc[c] = "idle"
    /\ running' = FALSE
    /\ timer' = None
    /\ closing' = closing \ {k}
    /\ UNCHANGED <<access, pc, first, sync>>

(* Close stops the one timer t.timer points to, if it is still pending. *)
Close(k) ==
    /\ k \in closing
    /\ access = None
    /\ running' = FALSE
    /\ timer' = None
    /\ pc' = [c \in Chains |-> IF c = timer /\ pc[c] = "armed" THEN "idle" ELSE pc[c]]
    /\ closing' = closing \ {k}
    /\ UNCHANGED <<access, first, sync>>

ChainStep(c) ==
    \/ Fire(c)
    \/ HasClosed(c)
    \/ ArmFirst(c)
    \/ BeginExecute(c)
    \/ ExecuteOK(c)
    \/ ExecuteErr(c)
    \/ StartFailed(c)

Next ==
    \/ \E c \in Chains, f \in BOOLEAN : Start(c, f)
    \/ \E c \in Chains : ChainStep(c)
    \/ \E k \in Closers : CallClose(k) \/ Close(k)

Spec == Init /\ [][Next]_vars

(***************************************************************************)
(* Timers fire and Execute returns.  A goroutine that waits for a Go mutex  *)
(* gets it (sync.Mutex hands over to a waiter that has starved for 1 ms),   *)
(* which is strong fairness of the steps that lock.                        *)
(***************************************************************************)
Fairness ==
    /\ \A c \in Chains :
         /\ WF_vars(Fire(c))
         /\ WF_vars(ExecuteOK(c) \/ ExecuteErr(c))
         /\ SF_vars(HasClosed(c))
         /\ SF_vars(ArmFirst(c))
         /\ SF_vars(BeginExecute(c))
         /\ SF_vars(StartFailed(c))
    /\ \A k \in Closers : SF_vars(Close(k))

FairSpec == Spec /\ Fairness

-----------------------------------------------------------------------------
Driving(c) == pc[c] \in {"armed", "check", "lock", "exec"}

(* Two executions of one Task never overlap: whoever is in Execute holds    *)
(* the mutex, also when Close and Start left two chains (task.go 32-39).    *)
MutualExclusion ==
    \A c, d \in Chains : pc[c] = "exec" /\ pc[d] = "exec" => c = d

(* A task whose running flag is set has a chain that will execute it.  If   *)
(* this failed, Start would be a no-op (task.go 53-56) and nothing would    *)
(* ever execute again.                                                      *)
RunningHasDriver ==
    running => \E c \in Chains : Driving(c)

(* When a running task has a single chain left, Close can stop its pending  *)
(* timer: t.timer points to it, although other chains may have overwritten  *)
(* or cleared t.timer meanwhile (task.go 43, 74-77).                        *)
LoneTimerIsStoppable ==
    \A c \in Chains :
        (pc[c] = "armed" /\ \A d \in Chains \ {c} : pc[d] = "idle") =>
            (timer = c \/ ~running)

(* After Close, and without a new Start, every chain dies out: late         *)
(* callbacks run at most once more and leave no timer behind.               *)
Quiesces ==
    ~running ~> (running \/ \A c \in Chains : pc[c] = "idle")

(* "Task is a task that runs periodically" (task.go:8): while it is not     *)
(* closed it executes again and again.                                      *)
PeriodicallyExecutes ==
    []<>(~running \/ \E c \in Chains : pc[c] = "exec")

(* A call of Close returns, however many executions compete for the mutex. *)
CloseReturns ==
    \A k \in Closers : k \in closing ~> k \notin closing
=============================================================================
