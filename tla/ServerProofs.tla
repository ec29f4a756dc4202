---------------------------- MODULE ServerProofs ----------------------------
(* Reloading never leaves a node or an inbound on a core that is gone, for   *)
(* any set of nodes, any set of cores behind the selector and any number of  *)
(* edits and faults.                                                        *)
EXTENDS Server, FiniteSetTheorems, TLAPS

(* The controllers are closed before the core is and are only started again *)
(* on cores that run, of a configuration that is not broken; a round that   *)
(* outlives its controller meets an open core only while the controllers    *)
(* are closed and the core is not.  Only a monitor of a controller that is  *)
(* not closed waits for itself.                                             *)
PhaseInv ==
    /\ pc \in {"load", "closeCore", "newCore", "startCore", "startNodes"} => nodes = {}
    /\ pc = "startNodes" => started = Cores
    /\ pc \in {"startCore", "startNodes"} => conf # Broken
    /\ late = "open" => pc \in {"hung", "closeCore", "panic"}
    /\ wedged \subseteq nodes

(* Between the end of the old cores and the first AddNode there is no       *)
(* inbound at all.                                                          *)
HomeInv ==
    /\ home \in [Nodes -> Cores \cup {"none"}]
    /\ pc \in {"load", "newCore", "startCore", "startNodes"} =>
         \A n \in Nodes : home[n] = "none"

ServerInv == PhaseInv /\ HomeInv /\ NodesOnLiveCore /\ NoStrayInbound

(* ServerInv is inductive: it relates the step a reload is in to what is    *)
(* left of the old service, which the two properties alone do not.          *)
LEMMA ServerInvInductive == ServerInv /\ [Next]_vars => ServerInv'
<1> SUFFICES ASSUME ServerInv, [Next]_vars PROVE ServerInv'
  OBVIOUS
<1> USE DEF ServerInv, PhaseInv, HomeInv, NodesOnLiveCore, NoStrayInbound, Ended,
            Return, fileVars, coreVars, nodeVars
<1>1. CASE Edit
  BY <1>1 DEF Edit, BeginWrite, EndWrite, Replace, EditDns, NodeChanged, SelectorMoves
<1>2. CASE Load
  BY <1>2 DEF Load
<1>3. CASE InstallWatch
  BY <1>3 DEF InstallWatch
<1>4. CASE Debounce
  BY <1>4 DEF Debounce
<1>5. CASE Timeout
  BY <1>5 DEF Timeout
<1>6. CASE CloseNodes \/ CloseNodesHangs
  BY <1>6 DEF CloseNodes, CloseNodesHangs, CloseControllers
<1>7. CASE CloseCore
  BY <1>7 DEF CloseCore, SelectorClose
<1>8. CASE NewCore
  BY <1>8 DEF NewCore
<1>9. CASE StartCore
  BY <1>9 DEF StartCore, SelectorStartFails
<1>10. CASE StartNodes
  BY <1>10 DEF StartNodes
<1>11. CASE LateTask
  BY <1>11 DEF LateTask
<1>12. CASE UNCHANGED vars
  BY <1>12 DEF vars
<1> QED
  BY <1>1, <1>2, <1>3, <1>4, <1>5, <1>6, <1>7, <1>8, <1>9, <1>10, <1>11, <1>12
     DEF Next, Process

(* ServerInv holds from the start on. *)
LEMMA ServerInvAlways == Spec => []ServerInv
<1>1. Init => ServerInv
  BY DEF Init, ServerInv, PhaseInv, HomeInv, NodesOnLiveCore, NoStrayInbound, Ended
<1> QED
  BY <1>1, ServerInvInductive, PTL DEF Spec

(* Whatever edits, faults and late callbacks a reload meets, the running    *)
(* controllers are those of the loaded configuration, on cores that all run *)
(* (cmd/server.go 101-126).                                                 *)
THEOREM NodesRunOnLiveCore == Spec => []NodesOnLiveCore
<1>1. ServerInv => NodesOnLiveCore
  BY DEF ServerInv
<1> QED
  BY <1>1, ServerInvAlways, PTL

(* No inbound outlives the configuration it belongs to or the core that has *)
(* it, whichever of the selector's cores fail (core/selector.go 39-57).     *)
THEOREM InboundsFollowConfig == Spec => []NoStrayInbound
<1>1. ServerInv => NoStrayInbound
  BY DEF ServerInv
<1> QED
  BY <1>1, ServerInvAlways, PTL

-----------------------------------------------------------------------------
(* The files and what the watcher knows of them keep their types.           *)
LEMMA FileTypesStep == TypeOK /\ [Next]_vars => FileTypes'
<1> SUFFICES ASSUME TypeOK, [Next]_vars PROVE FileTypes'
  OBVIOUS
<1> USE DEF TypeOK, FileTypes, fileVars, nodeVars
<1>1. ASSUME NEW S, UpdateDns(S)
      PROVE  dns' \in OwnDns \cup {Broken} /\ event' \in BOOLEAN
  BY <1>1 DEF UpdateDns
<1>2. CASE BeginWrite
  BY <1>2 DEF BeginWrite, Contents
<1>3. ASSUME NEW c \in Contents, EndWrite(c) \/ Replace(c) PROVE FileTypes'
  BY <1>3 DEF EndWrite, Replace
<1>4. CASE EditDns
  BY <1>4 DEF EditDns
<1>5. ASSUME NEW n \in Nodes, NodeChanged(n) PROVE FileTypes'
  BY <1>1, <1>5 DEF NodeChanged
<1>6. CASE Load \/ InstallWatch \/ Debounce \/ Timeout
  BY <1>6 DEF Load, InstallWatch, Debounce, Timeout
<1>7. CASE CloseNodes \/ CloseNodesHangs \/ CloseCore \/ NewCore \/ StartCore
  BY <1>7 DEF CloseNodes, CloseNodesHangs, CloseCore, NewCore, StartCore
<1>8. CASE StartNodes
  <2>1. PICK D \in SUBSET conf : UpdateDns(D)
    BY <1>8 DEF StartNodes
  <2> QED
    BY <1>1, <1>8, <2>1 DEF StartNodes
<1>9. CASE LateTask
  <2>1. CASE UNCHANGED <<home, dns, event>>
    BY <1>9, <2>1 DEF LateTask
  <2>2. CASE \E n \in Nodes : UpdateDns({n})
    BY <1>1, <1>9, <2>2 DEF LateTask
  <2> QED
    BY <1>9, <2>1, <2>2 DEF LateTask
<1>10. CASE UNCHANGED vars
  BY <1>10 DEF vars
<1> QED
  BY <1>2, <1>3, <1>4, <1>5, <1>6, <1>7, <1>8, <1>9, <1>10 DEF Next, Edit, Process

(* What serverHandle and the callback keep, with the cores and nodes, does. *)
LEMMA ServiceTypesStep == TypeOK /\ ServerInv /\ [Next]_vars => ServiceTypes'
<1> SUFFICES ASSUME TypeOK, ServerInv, [Next]_vars PROVE ServiceTypes'
  OBVIOUS
<1> USE DEF TypeOK, ServiceTypes, PCs, nodeVars
<1>1. CASE BeginWrite \/ EditDns \/ \E c \in Contents : EndWrite(c) \/ Replace(c)
  BY <1>1 DEF BeginWrite, EditDns, EndWrite, Replace, coreVars
<1>2. ASSUME NEW n \in Nodes, NodeChanged(n) PROVE ServiceTypes'
  BY <1>2 DEF NodeChanged, SelectorMoves
<1>3. CASE Load \/ InstallWatch \/ Debounce \/ Timeout
  BY <1>3 DEF Load, InstallWatch, Debounce, Timeout, FileTypes, coreVars
<1>4. CASE CloseNodes \/ CloseNodesHangs
  BY <1>4 DEF CloseNodes, CloseNodesHangs, CloseControllers
<1>5. CASE CloseCore
  BY <1>5 DEF CloseCore, SelectorClose, Return, coreVars
<1>6. CASE NewCore
  BY <1>6 DEF NewCore, Return
<1>7. CASE StartCore
  BY <1>7 DEF StartCore, SelectorStartFails, Return
<1>8. CASE StartNodes
  <2>1. conf \in SUBSET Nodes
    BY <1>8 DEF StartNodes, ServerInv, PhaseInv, Contents, Configs
  <2> QED
    BY <1>8, <2>1 DEF StartNodes, Return
<1>9. CASE LateTask
  BY <1>9 DEF LateTask
<1>10. CASE UNCHANGED vars
  BY <1>10 DEF vars, coreVars
<1> QED
  BY <1>1, <1>2, <1>3, <1>4, <1>5, <1>6, <1>7, <1>8, <1>9, <1>10 DEF Next, Edit, Process

(* The bounds are kept.                                                     *)
LEMMA CounterTypesStep == TypeOK /\ ServerInv /\ [Next]_vars => CounterTypes'
<1> SUFFICES ASSUME TypeOK, ServerInv, [Next]_vars PROVE CounterTypes'
  OBVIOUS
<1> USE ServerAssumption DEF TypeOK, CounterTypes, fileVars
<1>1. CASE Edit
  <2>1. /\ \/ edits' = edits
           \/ edits < MaxEdits /\ edits' = edits + 1
        /\ UNCHANGED <<coreFaults, nodeFaults, lates>>
    BY <1>1 DEF Edit, BeginWrite, EditDns, EndWrite, Replace, NodeChanged
  <2> QED
    BY <2>1
<1>2. CASE Load \/ InstallWatch \/ Debounce \/ Timeout
  BY <1>2 DEF Load, InstallWatch, Debounce, Timeout
<1>3. CASE CloseNodes \/ CloseNodesHangs \/ CloseCore \/ NewCore \/ StartCore \/ LateTask
  <2>1. /\ UNCHANGED <<edits, nodeFaults>>
        /\ coreFaults' = coreFaults \/ (coreFaults < MaxCoreFaults /\ coreFaults' = coreFaults + 1)
        /\ lates' = lates \/ (lates < MaxLate /\ lates' = lates + 1)
    BY <1>3 DEF CloseNodes, CloseNodesHangs, CloseControllers, CloseCore, NewCore, StartCore, LateTask
  <2> QED
    BY <2>1
<1>4. CASE StartNodes
  <2>1. PICK S \in SUBSET conf : /\ nodeFaults + Cardinality(conf \ S) =< MaxNodeFaults
                                 /\ nodeFaults' = nodeFaults + Cardinality(conf \ S)
    BY <1>4 DEF StartNodes
  <2>2. conf \in SUBSET Nodes
    BY <1>4 DEF StartNodes, ServerInv, PhaseInv, ServiceTypes, Contents, Configs
  <2>3. conf \ S \in SUBSET Nodes
    BY <2>2
  <2>4. Cardinality(conf \ S) \in Nat
    BY <2>3, FS_Subset, FS_CardinalityType
  <2> QED
    BY <1>4, <2>1, <2>4 DEF StartNodes
<1>5. CASE UNCHANGED vars
  BY <1>5 DEF vars
<1> QED
  BY <1>1, <1>2, <1>3, <1>4, <1>5 DEF Next, Process

(* The process, the file and the DNS file are always in a state the         *)
(* program knows of, whatever edits, faults and late callbacks meet.        *)
THEOREM ServerTypeCorrect == Spec => []TypeOK
<1>1. Init => TypeOK
  <2> SUFFICES ASSUME Init PROVE TypeOK
    OBVIOUS
  <2>1. FileTypes
    BY DEF Init, FileTypes
  <2>2. ServiceTypes
    BY DEF Init, ServiceTypes, Contents, PCs
  <2>3. CounterTypes
    BY ServerAssumption DEF Init, CounterTypes
  <2> QED
    BY <2>1, <2>2, <2>3 DEF TypeOK
<1>2. TypeOK /\ ServerInv /\ [Next]_vars => TypeOK'
  BY FileTypesStep, ServiceTypesStep, CounterTypesStep DEF TypeOK
<1> QED
  BY <1>1, <1>2, ServerInvAlways, PTL DEF Spec
=============================================================================
