------------------------------- MODULE Server -------------------------------
(***************************************************************************)
(* cmd/server.go: the process starts a core and the nodes of its            *)
(* configuration and, with conf/watch.go, rebuilds both whenever the file   *)
(* changes.  The callback runs in the watcher's goroutine, beside whatever  *)
(* edits the file and beside task callbacks of the nodes it has closed.     *)
(*                                                                         *)
(* A configuration that parses and names its cores is the set of its nodes. *)
(* core/selector.go stands between the process and several cores: it starts *)
(* and closes them together and remembers which of them has a node.         *)
(***************************************************************************)
EXTENDS Naturals, FiniteSets

CONSTANTS
    Nodes,          \* nodes a configuration may list
    Cores,          \* the cores a configuration names
    OwnDns,         \* those the panel gives DNS routes, each different ones
    Broken,         \* file contents that give no core: unparsable, half written
    MaxEdits,       \* bound: edits of the files, and node changes on the panel
    MaxCoreFaults,  \* bound: cores that fail to be built, to start or to close
    MaxNodeFaults,  \* bound: controllers that fail to start
    MaxLate         \* bound: task callbacks that outlive their controller

ASSUME ServerAssumption ==
    /\ Nodes # {} /\ IsFiniteSet(Nodes) /\ OwnDns \subseteq Nodes
    /\ Cores # {} /\ "none" \notin Cores
    /\ MaxEdits \in Nat /\ MaxCoreFaults \in Nat
    /\ MaxNodeFaults \in Nat /\ MaxLate \in Nat
    /\ (\A S \in SUBSET Nodes : Broken # S) /\ Broken \notin Nodes

Configs == SUBSET Nodes
Contents == {Broken} \cup Configs

VARIABLES
    file, writing,  \* the file, and is an editor in the middle of writing it
    dns,            \* the DNS file: the node whose routes it has, or Broken
    watched,        \* fsnotify has a watch on the file that is at the path
    event,          \* watcher.Events has something to deliver
    timer,          \* the debounce timer is running
    conf,           \* *p, the configuration in memory
    pc,             \* where serverHandle or the watcher's goroutine is
    boot,           \* TRUE until serverHandle has started everything
    core,           \* vc: nil, or a Selector (or a single core) open or closed
    started,        \* the cores that run
    home,           \* Selector.nodes: the core that has the inbound of a node
    nodes,          \* Node.controllers, those that are not closed
    many,           \* nodes with several DNS routes, written in any order
    wedged,         \* nodes whose monitor waits for the mutex it holds itself
    late,           \* a late task callback: is the core it will use still open
    missed,         \* history: the file was edited while nothing watched it
    edits, coreFaults, nodeFaults, lates

fileVars == <<file, writing, missed, edits>>
coreVars == <<core, started, home>>
nodeVars == <<nodes, many, wedged>>
vars == <<fileVars, dns, watched, event, timer, conf, pc, boot, coreVars, nodeVars,
          late, coreFaults, nodeFaults, lates>>

(* hung: the callback waits in nodes.Close for ever; exited: serverHandle   *)
(* returned; panic: the runtime ended the process                           *)
PCs == {"load", "closeNodes", "hung", "closeCore", "newCore", "startCore",
        "startNodes", "watch", "select", "exited", "panic"}

FileTypes ==
    /\ file \in Contents /\ writing \in BOOLEAN
    /\ dns \in OwnDns \cup {Broken} /\ many \in SUBSET OwnDns
    /\ watched \in BOOLEAN /\ event \in BOOLEAN /\ timer \in BOOLEAN
    /\ missed \in BOOLEAN

ServiceTypes ==
    /\ conf \in Contents
    /\ pc \in PCs /\ boot \in BOOLEAN
    /\ core \in {"nil", "open", "closed"}
    /\ started \in SUBSET Cores /\ home \in [Nodes -> Cores \cup {"none"}]
    /\ nodes \in SUBSET Nodes /\ wedged \in SUBSET Nodes
    /\ late \in {"none", "open", "closed"}

CounterTypes ==
    /\ edits \in 0..MaxEdits /\ coreFaults \in 0..MaxCoreFaults
    /\ nodeFaults \in 0..MaxNodeFaults /\ lates \in 0..MaxLate

(* Type invariant: the variables of serverHandle and of Conf.Watch, and     *)
(* the places the process can be at.                                        *)
TypeOK == FileTypes /\ ServiceTypes /\ CounterTypes

Init ==
    /\ file \in Contents /\ writing = FALSE
    /\ dns = Broken /\ many \in SUBSET OwnDns
    /\ watched = FALSE /\ event = FALSE /\ timer = FALSE
    /\ conf = Broken
    /\ pc = "load" /\ boot = TRUE
    /\ core = "nil" /\ started = {} /\ home = [n \in Nodes |-> "none"]
    /\ nodes = {} /\ wedged = {}
    /\ late = "none" /\ missed = FALSE
    /\ edits = 0 /\ coreFaults = 0 /\ nodeFaults = 0 /\ lates = 0

Ended == pc \in {"exited", "panic"}

ReturnEndsLoop == pc' = IF boot THEN "exited" ELSE "returned"

(* Every error return: of serverHandle at first, of the callback later. *)
Return == pc' = IF boot THEN "exited" ELSE "select"

-----------------------------------------------------------------------------
(* An editor truncates the file and then writes it, ... *)
BeginWrite ==
    /\ ~Ended /\ ~writing
    /\ edits < MaxEdits
    /\ edits' = edits + 1
    /\ file' = Broken /\ writing' = TRUE
    /\ event' = (event \/ watched)
    /\ missed' = (missed \/ ~watched)
    /\ UNCHANGED <<dns, watched, timer, conf, pc, boot, coreVars, nodeVars, late,
                   coreFaults, nodeFaults, lates>>

EndWrite(c) ==
    /\ ~Ended /\ writing
    /\ file' = c /\ writing' = FALSE
    /\ event' = (event \/ watched)
    /\ missed' = (missed \/ ~watched)
    /\ UNCHANGED <<dns, watched, timer, conf, pc, boot, coreVars, nodeVars, late, edits,
                   coreFaults, nodeFaults, lates>>

(* ... or puts another file in its place: the watch goes with the old file. *)
Replace(c) ==
    /\ ~Ended /\ ~writing
    /\ edits < MaxEdits
    /\ edits' = edits + 1
    /\ file' = c
    /\ event' = (event \/ watched)
    /\ missed' = (missed \/ ~watched)
    /\ watched' = FALSE
    /\ UNCHANGED <<writing, dns, timer, conf, pc, boot, coreVars, nodeVars, late,
                   coreFaults, nodeFaults, lates>>

(* A DNS file is edited: the same reload, of the same configuration. *)
EditDns ==
    /\ ~Ended /\ ~boot
    /\ edits < MaxEdits
    /\ edits' = edits + 1
    /\ dns' = Broken
    /\ event' = TRUE
    /\ UNCHANGED <<file, writing, missed, watched, timer, conf, pc, boot, coreVars,
                   nodeVars, late, coreFaults, nodeFaults, lates>>

UpdateDnsAlways(S) ==
    LET W == S \cap OwnDns IN
    /\ dns' = IF W = {} THEN dns ELSE CHOOSE n \in W : TRUE
    /\ event' = (event \/ (W # {} /\ ~boot))

(* updateDNSConfig, called by AddNode for the nodes S one after the other,   *)
(* writes the routes of each that has some and differ from the file's:      *)
(* several routes come in the order a Go map is ranged over, and may differ *)
(* from what the same node wrote before.                                    *)
UpdateDns(S) ==
    LET W == S \cap OwnDns
        Differs == W # {} /\ (Cardinality(W) > 1 \/ dns \notin W)
        MayDiffer == W # {} /\ (Differs \/ dns \in many)
    IN  /\ dns' = IF W = {} THEN dns ELSE CHOOSE n \in W : TRUE
        /\ \E writes \in {Differs, MayDiffer} : event' = (event \/ (writes /\ ~boot))

(* Selector.DelNode where the node is, then Selector.AddNode, which may     *)
(* fail.  A node that names no core goes to one of its type, the last in    *)
(* the order the map happens to have.                                       *)
SelectorMoves(n) ==
    /\ home[n] # "none"
    /\ \E c \in Cores \cup {"none"} : home' = [home EXCEPT ![n] = c]

(* The monitor of a node finds a new configuration.  If that has another    *)
(* interval, the monitor closes its own task and never returns.             *)
NodeChanged(n) ==
    /\ ~Ended /\ ~boot
    /\ edits < MaxEdits
    /\ edits' = edits + 1
    /\ n \in nodes \ wedged
    /\ SelectorMoves(n)
    /\ UpdateDns({n})
    /\ \/ UNCHANGED wedged
       \/ home'[n] # "none" /\ wedged' = wedged \cup {n}
    /\ UNCHANGED <<file, writing, missed, watched, timer, conf, pc, boot, core,
                   started, nodes, many, late, coreFaults, nodeFaults, lates>>

-----------------------------------------------------------------------------
(* serverHandle: LoadFromPath.  A file that parses without a core passes    *)
(* here and fails in NewCore.                                               *)
Load ==
    /\ pc = "load"
    /\ conf' = file
    /\ pc' = "newCore" \/ (file = Broken /\ pc' = "exited")
    /\ UNCHANGED <<fileVars, dns, watched, event, timer, boot, coreVars, nodeVars, late,
                   coreFaults, nodeFaults, lates>>

(* Watch, the last step of serverHandle before it waits for a signal *)
InstallWatch ==
    /\ pc = "watch"
    /\ pc' = "select"
    /\ boot' = FALSE
    /\ watched' = TRUE
    /\ UNCHANGED <<fileVars, dns, event, timer, conf, coreVars, nodeVars, late, coreFaults,
                   nodeFaults, lates>>

(* case e := <-watcher.Events: the debounce timer starts over *)
Debounce ==
    /\ pc = "select"
    /\ event
    /\ event' = FALSE
    /\ timer' = TRUE
    /\ UNCHANGED <<fileVars, dns, watched, conf, pc, boot, coreVars, nodeVars, late,
                   coreFaults, nodeFaults, lates>>

(* case <-timerC: the configuration in memory is reset and read again; an   *)
(* error is logged and the callback runs all the same.                      *)
Timeout ==
    /\ pc = "select"
    /\ timer
    /\ timer' = FALSE
    /\ conf' = file
    /\ pc' = "closeNodes"
    /\ UNCHANGED <<fileVars, dns, watched, event, boot, coreVars, nodeVars, late,
                   coreFaults, nodeFaults, lates>>

CloseNodesKeepsThem ==
    /\ pc = "closeNodes"
    /\ pc' = "closeCore"
    /\ UNCHANGED <<fileVars, dns, watched, event, timer, conf, boot, coreVars, nodeVars,
                   late, coreFaults, nodeFaults, lates>>

CloseNodesDrains ==
    /\ pc = "closeNodes"
    /\ wedged = {}
    /\ pc' = "closeCore"
    /\ nodes' = {}
    /\ event' = FALSE
    /\ UNCHANGED <<fileVars, dns, watched, timer, conf, boot, coreVars, many, wedged,
                   late, coreFaults, nodeFaults, lates>>

(* Controller.Close of the nodes C: DelNode may fail, and a callback of a   *)
(* task that had passed hasClosed is not stopped by it (see PeriodicTask).  *)
CloseControllers(C) ==
    /\ nodes' = nodes \ C
    /\ \E F \in SUBSET C : home' = [n \in Nodes |->
           IF n \in C \ F THEN "none" ELSE home[n]]
    /\ \/ UNCHANGED <<late, lates>>
       \/ /\ C # {} /\ late = "none" /\ lates < MaxLate
          /\ late' = "open" /\ lates' = lates + 1

(* nodes.Close *)
CloseNodes ==
    /\ pc = "closeNodes"
    /\ wedged = {}
    /\ CloseControllers(nodes)
    /\ pc' = "closeCore"
    /\ UNCHANGED <<fileVars, dns, watched, event, timer, conf, boot, core, started,
                   many, wedged, coreFaults, nodeFaults>>

(* It closes the tasks of a node whose monitor never returns, and waits for *)
(* the same mutex.                                                          *)
CloseNodesHangs ==
    /\ pc = "closeNodes"
    /\ wedged # {}
    /\ \E C \in SUBSET (nodes \ wedged) : CloseControllers(C)
    /\ pc' = "hung"
    /\ UNCHANGED <<fileVars, dns, watched, event, timer, conf, boot, core, started,
                   many, wedged, coreFaults, nodeFaults>>

SelectorCloseStops(fails) ==
    \E C \in SUBSET started :
        /\ C # {} => fails
        /\ started' = C
        /\ home' = [n \in Nodes |-> IF home[n] \in C THEN home[n] ELSE "none"]

(* Selector.Close goes on after an error and returns all of them. *)
SelectorClose(fails) ==
    /\ started' = {}
    /\ home' = [n \in Nodes |-> "none"]

(* vc.Close: a nil vc is a nil dereference; an error ends the callback *)
CloseCore ==
    /\ pc = "closeCore"
    /\ IF core = "nil"
       THEN pc' = "panic" /\ UNCHANGED <<coreVars, late, coreFaults>>
       ELSE /\ core' = "closed"
            /\ late' = IF late = "open" THEN "closed" ELSE late
            /\ \/ SelectorClose(FALSE) /\ pc' = "newCore" /\ UNCHANGED coreFaults
               \/ /\ coreFaults < MaxCoreFaults
                  /\ coreFaults' = coreFaults + 1
                  /\ SelectorClose(TRUE)
                  /\ Return
    /\ UNCHANGED <<fileVars, dns, watched, event, timer, conf, boot, nodeVars,
                   nodeFaults, lates>>

(* vc, err = NewCore(...): on an error vc is nil from here on.  A core whose *)
(* own files (route, outbound, DNS) cannot be used panics in getCore.       *)
NewCore ==
    /\ pc = "newCore"
    /\ \/ /\ conf = Broken
          /\ core' = "nil" /\ Return
          /\ UNCHANGED coreFaults
       \/ /\ conf # Broken
          /\ core' = "open" /\ pc' = "startCore"
          /\ UNCHANGED coreFaults
       \/ /\ conf # Broken
          /\ coreFaults < MaxCoreFaults
          /\ coreFaults' = coreFaults + 1
          /\ pc' = "panic"
          /\ UNCHANGED core
    /\ UNCHANGED <<fileVars, dns, watched, event, timer, conf, boot, started, home,
                   nodeVars, late, nodeFaults, lates>>

(* Selector.Start stops at the first core that fails; those before it run.  *)
SelectorStartFails == \E C \in SUBSET Cores : C # Cores /\ started' = C

StartCore ==
    /\ pc = "startCore"
    /\ \/ started' = Cores /\ pc' = "startNodes" /\ UNCHANGED coreFaults
       \/ /\ coreFaults < MaxCoreFaults
          /\ coreFaults' = coreFaults + 1
          /\ SelectorStartFails
          /\ Return
    /\ UNCHANGED <<fileVars, dns, watched, event, timer, conf, boot, core, home,
                   nodeVars, late, nodeFaults, lates>>

(* nodes.Start: a node whose controller fails, before or after AddNode, is  *)
(* skipped, with its inbound if it has one; only when all of them fail, and  *)
(* there are some, is there an error.                                       *)
StartNodes ==
    /\ pc = "startNodes"
    /\ \E D \in SUBSET conf : \E S \in SUBSET D :
         /\ nodeFaults + Cardinality(conf \ S) =< MaxNodeFaults
         /\ nodeFaults' = nodeFaults + Cardinality(conf \ S)
         /\ nodes' = S
         /\ \E h \in [Nodes -> Cores \cup {"none"}] :
              /\ \A n \in Nodes : n \in S => h[n] # "none"
              /\ \A n \in Nodes : n \notin D => h[n] = "none"
              /\ home' = h
         /\ UpdateDns(D)
         /\ IF S = {} /\ conf # {}
            THEN Return
            ELSE pc' = IF boot THEN "watch" ELSE "select"
    /\ UNCHANGED <<fileVars, watched, timer, conf, boot, core, started, many, wedged,
                   late, coreFaults, lates>>

(* The late callback runs: the fields of a closed Xray are nil.  On an open *)
(* one it may be the round that adds a node of the closed controller again. *)
LateTask ==
    /\ ~Ended
    /\ late # "none"
    /\ late' = "none"
    /\ pc' = IF late = "closed" THEN "panic" ELSE pc
    /\ \/ UNCHANGED <<home, dns, event>>
       \/ /\ late = "open"
          /\ \E n \in Nodes, c \in Cores :
               home' = [home EXCEPT ![n] = c] /\ UpdateDns({n})
    /\ UNCHANGED <<fileVars, watched, timer, conf, boot, core, started,
                   nodeVars, coreFaults, nodeFaults, lates>>

Edit ==
    \/ BeginWrite
    \/ \E c \in Contents : EndWrite(c) \/ Replace(c)
    \/ EditDns
    \/ \E n \in Nodes : NodeChanged(n)

Process ==
    \/ Load
    \/ InstallWatch
    \/ Debounce
    \/ Timeout
    \/ CloseNodes
    \/ CloseNodesHangs
    \/ CloseCore
    \/ NewCore
    \/ StartCore
    \/ StartNodes

Next == Edit \/ Process \/ LateTask

Spec == Init /\ [][Next]_vars

(* The process runs, and a write that began ends. *)
FairSpec ==
    /\ Spec
    /\ WF_vars(Process) /\ WF_vars(LateTask)
    /\ WF_vars(\E c \in Contents : EndWrite(c))

-----------------------------------------------------------------------------
(* Controllers only run on a started core and are those of the              *)
(* configuration in memory, between the load and the end of nodes.Close of  *)
(* a reload excepted: no reload leaves a node of an earlier configuration   *)
(* behind, whichever of its steps fails (cmd/server.go 101-126).            *)
NodesOnLiveCore ==
    ~Ended =>
        /\ nodes # {} => started = Cores
        /\ nodes # {} /\ pc \notin {"closeNodes", "hung"} =>
             conf # Broken /\ nodes \subseteq conf

(* Whenever a reload is not taking the old service down, every inbound that *)
(* accepts connections is of a node of the configuration in memory and on   *)
(* a core that runs: also one whose controller failed to start, one that    *)
(* Controller.Close could not delete and one that a late round added again, *)
(* whichever cores fail to start or to close (core/selector.go 39-57).      *)
NoStrayInbound ==
    ~Ended /\ pc \notin {"closeNodes", "hung", "closeCore"} =>
        \A n \in Nodes : home[n] # "none" =>
            /\ home[n] \in started
            /\ conf # Broken /\ n \in conf

(* The last edit takes effect, however edits and reloads overlap: the       *)
(* process comes to run all the nodes of the file, again and again if       *)
(* reloads do not end, unless it has ended or a reload hangs, the file is   *)
(* broken, an edit was made while nothing watched the file, or a core or a  *)
(* node failed, which nothing retries (conf/watch.go 26-72).                *)
LastEditApplied ==
    []<>(\/ Ended \/ pc = "hung" \/ missed \/ file = Broken
         \/ coreFaults > 0 \/ nodeFaults > 0
         \/ conf = file /\ started = Cores /\ nodes = file)

(* The nodes of the configuration write something else to the DNS file in   *)
(* every reload: one has several routes, or two have different ones.        *)
DnsUnsettled ==
    conf # Broken /\ (conf \cap many # {} \/ Cardinality(conf \cap OwnDns) > 1)

(* Reloads end once nobody edits anything: "avoid racey reload storms"      *)
(* (conf/watch.go:33), although each reload may itself write the DNS file   *)
(* that is watched (core/xray/dns.go 59-83), or the process waits in a      *)
(* reload for a node that has closed its own task.  Where DnsUnsettled      *)
(* holds the code does reload for ever.                                     *)
ReloadsEnd ==
    <>[](Ended \/ pc = "hung" \/ DnsUnsettled \/ (pc = "select" /\ ~event /\ ~timer))

(* "No Panic on transient errors - service remains stable" (README.md:26). *)
NoPanic == pc # "panic"
=============================================================================
