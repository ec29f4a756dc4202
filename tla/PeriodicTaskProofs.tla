------------------------- MODULE PeriodicTaskProofs -------------------------
(* Safety of common/task/task.go for any number of chains and closers. *)
EXTENDS PeriodicTask, TLAPS

(* The task's variables keep their types: in particular t.timer and the     *)
(* mutex always name a chain that exists.                                   *)
THEOREM TypeCorrect == Spec => []TypeOK
<1>1. Init => TypeOK
  BY DEF Init, TypeOK, PCs
<1>2. TypeOK /\ [Next]_vars => TypeOK'
  <2> SUFFICES ASSUME TypeOK, [Next]_vars PROVE TypeOK'
    OBVIOUS
  <2> USE DEF TypeOK, PCs, Goto
  <2>1. ASSUME NEW c \in Chains, NEW f \in BOOLEAN, Start(c, f) PROVE TypeOK'
    BY <2>1 DEF Start
  <2>2. ASSUME NEW c \in Chains, Fire(c) PROVE TypeOK'
    BY <2>2 DEF Fire
  <2>3. ASSUME NEW c \in Chains, HasClosed(c) PROVE TypeOK'
    BY <2>3 DEF HasClosed
  <2>4. ASSUME NEW c \in Chains, ArmFirst(c) PROVE TypeOK'
    BY <2>4 DEF ArmFirst, ArmTimer
  <2>5. ASSUME NEW c \in Chains, BeginExecute(c) PROVE TypeOK'
    BY <2>5 DEF BeginExecute
  <2>6. ASSUME NEW c \in Chains, ExecuteOK(c) PROVE TypeOK'
    BY <2>6 DEF ExecuteOK, ArmTimer
  <2>7. ASSUME NEW c \in Chains, ExecuteErr(c) PROVE TypeOK'
    BY <2>7 DEF ExecuteErr
  <2>8. ASSUME NEW c \in Chains, StartFailed(c) PROVE TypeOK'
    BY <2>8 DEF StartFailed
  <2>9. ASSUME NEW k \in Closers, CallClose(k) \/ Close(k) PROVE TypeOK'
    BY <2>9 DEF CallClose, Close
  <2>10. CASE UNCHANGED vars
    BY <2>10 DEF vars
  <2> QED
    BY <2>1, <2>2, <2>3, <2>4, <2>5, <2>6, <2>7, <2>8, <2>9, <2>10
       DEF Next, ChainStep
<1> QED
  BY <1>1, <1>2, PTL DEF Spec

-----------------------------------------------------------------------------
(* The mutex is held by the chain that executes: what makes mutual          *)
(* exclusion inductive.                                                     *)
ExecHoldsAccess ==
    \A c \in Chains : pc[c] = "exec" => access = c

(* Executions of one task never overlap, whatever Start, Close and late     *)
(* timer callbacks do.                                                      *)
THEOREM ExecutionsNeverOverlap == Spec => []MutualExclusion
<1>1. Init => ExecHoldsAccess
  BY DEF Init, ExecHoldsAccess
<1>2. TypeOK /\ ExecHoldsAccess /\ [Next]_vars => ExecHoldsAccess'
  <2> SUFFICES ASSUME TypeOK, ExecHoldsAccess, [Next]_vars
               PROVE  ExecHoldsAccess'
    OBVIOUS
  <2> USE ChainsAssumption DEF TypeOK, ExecHoldsAccess, Goto
  <2>1. ASSUME NEW c \in Chains, NEW f \in BOOLEAN, Start(c, f)
        PROVE  ExecHoldsAccess'
    BY <2>1 DEF Start
  <2>2. ASSUME NEW c \in Chains, Fire(c) PROVE ExecHoldsAccess'
    BY <2>2 DEF Fire
  <2>3. ASSUME NEW c \in Chains, HasClosed(c) PROVE ExecHoldsAccess'
    BY <2>3 DEF HasClosed
  <2>4. ASSUME NEW c \in Chains, ArmFirst(c) PROVE ExecHoldsAccess'
    BY <2>4 DEF ArmFirst, ArmTimer
  <2>5. ASSUME NEW c \in Chains, BeginExecute(c) PROVE ExecHoldsAccess'
    BY <2>5 DEF BeginExecute
  <2>6. ASSUME NEW c \in Chains, ExecuteOK(c) PROVE ExecHoldsAccess'
    BY <2>6 DEF ExecuteOK, ArmTimer
  <2>7. ASSUME NEW c \in Chains, ExecuteErr(c) PROVE ExecHoldsAccess'
    BY <2>7 DEF ExecuteErr
  <2>8. ASSUME NEW c \in Chains, StartFailed(c) PROVE ExecHoldsAccess'
    BY <2>8 DEF StartFailed
  <2>9. ASSUME NEW k \in Closers, CallClose(k) \/ Close(k)
        PROVE  ExecHoldsAccess'
    BY <2>9 DEF CallClose, Close
  <2>10. CASE UNCHANGED vars
    BY <2>10 DEF vars
  <2> QED
    BY <2>1, <2>2, <2>3, <2>4, <2>5, <2>6, <2>7, <2>8, <2>9, <2>10
       DEF Next, ChainStep
<1>3. ExecHoldsAccess => MutualExclusion
  BY DEF ExecHoldsAccess, MutualExclusion
<1> QED
  BY <1>1, <1>2, <1>3, TypeCorrect, PTL DEF Spec

-----------------------------------------------------------------------------
(* A pending timer that t.timer does not point to is never the last chain   *)
(* of a running task.                                                       *)
LostTimerHasCompany ==
    \A c \in Chains :
        running /\ pc[c] = "armed" /\ timer # c =>
            \E d \in Chains \ {c} : Driving(d)

DriverInv == RunningHasDriver /\ LostTimerHasCompany

(* As long as a task is running no step ends a chain, and a chain that is   *)
(* begun is another one than those that have a timer.                       *)
LEMMA DriversRemain ==
    ASSUME TypeOK, [Next]_vars, running', NEW c \in Chains, Driving(c),
           running
    PROVE  Driving(c)'
<1> USE DEF TypeOK, Driving, Goto
<1>1. ASSUME NEW x \in Chains, NEW f \in BOOLEAN, Start(x, f)
      PROVE  Driving(c)'
  BY <1>1 DEF Start
<1>2. ASSUME NEW x \in Chains, ChainStep(x) PROVE Driving(c)'
  <2>1. CASE Fire(x)
    BY <2>1 DEF Fire
  <2>2. CASE HasClosed(x)
    BY <2>2 DEF HasClosed
  <2>3. CASE ArmFirst(x)
    BY <2>3 DEF ArmFirst, ArmTimer
  <2>4. CASE BeginExecute(x)
    BY <2>4 DEF BeginExecute
  <2>5. CASE ExecuteOK(x)
    BY <2>5 DEF ExecuteOK, ArmTimer
  <2>6. CASE ExecuteErr(x)
    BY <2>6 DEF ExecuteErr
  <2>7. CASE StartFailed(x)
    BY <2>7 DEF StartFailed
  <2> QED
    BY <1>2, <2>1, <2>2, <2>3, <2>4, <2>5, <2>6, <2>7 DEF ChainStep
<1>3. ASSUME NEW k \in Closers, CallClose(k) \/ Close(k)
      PROVE  Driving(c)'
  BY <1>3 DEF CallClose, Close
<1>4. CASE UNCHANGED vars
  BY <1>4 DEF vars
<1> QED
  BY <1>1, <1>2, <1>3, <1>4 DEF Next

(* Only Start sets running, and it begins a chain that had no timer.        *)
LEMMA StartBeginsChain ==
    ASSUME TypeOK, [Next]_vars, running', ~running
    PROVE  \E c \in Chains : Driving(c)' /\ pc[c] = "idle"
<1> USE DEF TypeOK, Driving, Goto
<1>1. ASSUME NEW x \in Chains, NEW f \in BOOLEAN, Start(x, f)
      PROVE  Driving(x)' /\ pc[x] = "idle"
  BY <1>1 DEF Start
<1>2. ASSUME NEW x \in Chains, ChainStep(x) PROVE FALSE
  BY <1>2 DEF ChainStep, Fire, HasClosed, ArmFirst, BeginExecute, ExecuteOK,
              ExecuteErr, StartFailed
<1>3. ASSUME NEW k \in Closers, CallClose(k) \/ Close(k) PROVE FALSE
  BY <1>3 DEF CallClose, Close
<1>4. CASE UNCHANGED vars
  BY <1>4 DEF vars
<1> QED
  BY <1>1, <1>2, <1>3, <1>4 DEF Next

(* A step of a running task that leaves a pending timer lost either found   *)
(* it lost, or armed the timer of another chain.                            *)
LEMMA TimerLostToAnother ==
    ASSUME TypeOK, [Next]_vars, running', running, NEW c \in Chains,
           pc'[c] = "armed", timer' # c
    PROVE  \/ pc[c] = "armed" /\ timer # c
           \/ \E d \in Chains \ {c} : Driving(d)'
<1> USE DEF TypeOK, Driving, Goto
<1>1. ASSUME NEW x \in Chains, NEW f \in BOOLEAN, Start(x, f) PROVE FALSE
  BY <1>1 DEF Start
<1>2. ASSUME NEW x \in Chains, Fire(x) \/ HasClosed(x) \/ BeginExecute(x)
      PROVE  pc[c] = "armed" /\ timer # c
  BY <1>2 DEF Fire, HasClosed, BeginExecute
<1>3. ASSUME NEW x \in Chains, ArmFirst(x) \/ ExecuteOK(x)
      PROVE  x # c /\ Driving(x)'
  BY <1>3 DEF ArmFirst, ExecuteOK, ArmTimer
<1>4. ASSUME NEW x \in Chains, ExecuteErr(x) \/ StartFailed(x) PROVE FALSE
  BY <1>4 DEF ExecuteErr, StartFailed
<1>5. ASSUME NEW k \in Closers, CallClose(k) \/ Close(k)
      PROVE  pc[c] = "armed" /\ timer # c
  BY <1>5 DEF CallClose, Close
<1>6. CASE UNCHANGED vars
  BY <1>6 DEF vars
<1> QED
  BY <1>1, <1>2, <1>3, <1>4, <1>5, <1>6 DEF Next, ChainStep

(* Every step of a task preserves DriverInv: a running task keeps a chain   *)
(* that drives it, and a timer the task no longer knows is not alone.       *)
LEMMA DriverInvInductive == TypeOK /\ DriverInv /\ [Next]_vars => DriverInv'
<1> SUFFICES ASSUME TypeOK, DriverInv, [Next]_vars PROVE DriverInv'
  OBVIOUS
<1>1. RunningHasDriver'
  <2> SUFFICES ASSUME running' PROVE \E c \in Chains : Driving(c)'
    BY DEF RunningHasDriver
  <2>1. CASE running
    BY <2>1, DriversRemain DEF DriverInv, RunningHasDriver
  <2>2. CASE ~running
    BY <2>2, StartBeginsChain
  <2> QED
    BY <2>1, <2>2 DEF TypeOK
<1>2. LostTimerHasCompany'
  <2> SUFFICES ASSUME NEW c \in Chains, running', pc'[c] = "armed",
                      timer' # c
               PROVE  \E d \in Chains \ {c} : Driving(d)'
    BY DEF LostTimerHasCompany
  <2>1. CASE running
    <3>1. CASE pc[c] = "armed" /\ timer # c
      BY <2>1, <3>1, DriversRemain DEF DriverInv, LostTimerHasCompany
    <3> QED
      BY <2>1, <3>1, TimerLostToAnother
  <2>2. CASE ~running
    <3>1. PICK d \in Chains : Driving(d)' /\ pc[d] = "idle"
      BY <2>2, StartBeginsChain
    <3>2. pc[c] = "armed" \/ c # d
      BY <3>1, <2>2 DEF Next, vars, Start, ChainStep, Fire, HasClosed,
         ArmFirst, ArmTimer, BeginExecute, ExecuteOK, ExecuteErr,
         StartFailed, CallClose, Close, Goto, TypeOK
    <3> QED
      BY <3>1, <3>2
  <2> QED
    BY <2>1, <2>2 DEF TypeOK
<1> QED
  BY <1>1, <1>2 DEF DriverInv

(* A task whose running flag is set always has a chain that will execute    *)
(* it, so a Start that returns early never leaves a dead task behind.       *)
THEOREM RunningTaskIsDriven == Spec => []RunningHasDriver
<1>1. Init => DriverInv
  BY DEF Init, DriverInv, RunningHasDriver, LostTimerHasCompany
<1>2. DriverInv => RunningHasDriver
  BY DEF DriverInv
<1> QED
  BY <1>1, <1>2, DriverInvInductive, TypeCorrect, PTL DEF Spec

(* Close reaches the timer of a running task that has one chain left.       *)
THEOREM CloseReachesLoneTimer == Spec => []LoneTimerIsStoppable
<1>1. Init => DriverInv
  BY DEF Init, DriverInv, RunningHasDriver, LostTimerHasCompany
<1>2. DriverInv => LoneTimerIsStoppable
  BY DEF DriverInv, LostTimerHasCompany, LoneTimerIsStoppable, Driving
<1> QED
  BY <1>1, <1>2, DriverInvInductive, TypeCorrect, PTL DEF Spec
=============================================================================
