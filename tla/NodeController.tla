--------------------------- MODULE NodeController ---------------------------
(***************************************************************************)
(* One node: node/controller.go and node/task.go (Start, nodeInfoMonitor,   *)
(* Close), the panel client they poll (api/panel), and what they keep in    *)
(* step: the controller's user list, the node's limiter and the Xray        *)
(* inbound with its users (core/xray).                                     *)
(*                                                                         *)
(* The handlers are cut where they call the panel or the core, so that      *)
(* panel edits, failures, Close and the asynchronous user import fall       *)
(* between any two calls.  A user list is a function from the listed users  *)
(* to their limits; an ETag is the content it stands for.                   *)
(***************************************************************************)
EXTENDS Naturals, FiniteSets

CONSTANTS
    Users,          \* uuids, numbered in the order in which the panel lists them
    Limits,         \* the limits a user may have (speed and device limit)
    Cfgs,           \* node configurations the panel may serve
    Supported,      \* those that are vless + reality + (tcp | grpc)
    MaxSync,        \* a list of more users is imported in background (10000)
    MaxEdits,       \* bound: panel edits
    MaxApiFaults,   \* bound: failed panel requests
    MaxCoreFaults,  \* bound: AddNode and AddUsers calls the core fails
    Nil             \* no ETag, a 304 answer, no handler

UserLists == UNION {[S -> Limits] : S \in SUBSET Users}

ASSUME ControllerAssumption ==
    /\ Users \subseteq Nat
    /\ Supported \subseteq Cfgs
    /\ IsFiniteSet(Users) /\ MaxSync \in Nat
    /\ MaxEdits \in Nat /\ MaxApiFaults \in Nat /\ MaxCoreFaults \in Nat
    /\ Nil \notin Cfgs /\ Nil \notin UserLists

VARIABLES
    named,                  \* is the node's Options.Name set (never changes)
    pCfg, pUsers,           \* the panel's configuration and user list
    nodeEtag, userEtag,     \* panel.Client
    pc,                     \* where Start or the monitor round is
    newN, newU,             \* locals of nodeInfoMonitor (and of Start)
    userList,               \* Controller.userList
    lim,                    \* Controller.limiter: UserLimitInfo
    registered,             \* TRUE while limiter[tag] is that limiter
    inb, up,                \* the inbound's configuration; is it listening
    served,                 \* the users of the inbound's user manager
    uid,                    \* the users in Xray.users.uidMap
    import, todo,           \* the import goroutine and the users it has left
    closing, stopped,       \* Controller.Close has begun; it has closed the tasks
    closed, closeErr,       \* it has returned; with an error
    late,                   \* a monitor callback that outlives its task
    edits, apiFaults, coreFaults

panelVars == <<pCfg, pUsers, edits>>
clientVars == <<nodeEtag, userEtag, apiFaults>>
localVars == <<newN, newU>>
coreVars == <<inb, up, served, uid>>
limVars == <<lim, registered>>
importVars == <<import, todo>>
closeVars == <<closing, stopped, closed, closeErr, late>>
vars == <<named, panelVars, clientVars, pc, localVars, userList, limVars, coreVars,
          importVars, closeVars, coreFaults>>

PCs == {"off", "startUsers", "startNode", "startImport", "failed",
        "idle", "users", "delNode", "addNode", "addAll", "delUsers", "addUsers"}

PanelTypes ==
    /\ pCfg \in Cfgs /\ pUsers \in UserLists
    /\ nodeEtag \in Cfgs \cup {Nil} /\ userEtag \in UserLists \cup {Nil}
    /\ newN \in Cfgs \cup {Nil} /\ newU \in UserLists \cup {Nil}
    /\ edits \in 0..MaxEdits /\ apiFaults \in 0..MaxApiFaults

ControllerTypes ==
    /\ named \in BOOLEAN
    /\ pc \in PCs
    /\ userList \in UserLists
    /\ lim \in UserLists /\ registered \in BOOLEAN
    /\ closing \in BOOLEAN /\ stopped \in BOOLEAN
    /\ closed \in BOOLEAN /\ closeErr \in BOOLEAN /\ late \in BOOLEAN

CoreTypes ==
    /\ inb \in Cfgs \cup {Nil} /\ up \in BOOLEAN
    /\ served \in SUBSET Users /\ uid \in SUBSET Users
    /\ import \in {"none", "pending", "adding", "stale", "gone"}
    /\ todo \in SUBSET Users
    /\ coreFaults \in 0..MaxCoreFaults

(* Type invariant: the fields of Controller and panel.Client, the locals of *)
(* a round and the core's state; in particular userList is never nil.       *)
TypeOK == PanelTypes /\ ControllerTypes /\ CoreTypes

NoUsers == [u \in {} |-> Nil]

Init ==
    /\ named \in BOOLEAN
    /\ pCfg \in Cfgs /\ pUsers \in UserLists
    /\ nodeEtag = Nil /\ userEtag = Nil
    /\ pc = "off"
    /\ newN = Nil /\ newU = Nil
    /\ userList = NoUsers
    /\ lim = NoUsers /\ registered = FALSE
    /\ inb = Nil /\ up = FALSE /\ served = {} /\ uid = {}
    /\ import = "none" /\ todo = {}
    /\ closing = FALSE /\ stopped = FALSE
    /\ closed = FALSE /\ closeErr = FALSE /\ late = FALSE
    /\ edits = 0 /\ apiFaults = 0 /\ coreFaults = 0

-----------------------------------------------------------------------------
(* The administrator edits the node or the users on the panel. *)
PanelEdit ==
    /\ edits < MaxEdits
    /\ edits' = edits + 1
    /\ \/ pCfg' \in Cfgs \ {pCfg} /\ UNCHANGED pUsers
       \/ pUsers' \in UserLists \ {pUsers} /\ UNCHANGED pCfg
    /\ UNCHANGED <<named, clientVars, pc, localVars, userList, limVars, coreVars,
                   importVars, closeVars, coreFaults>>

GetNodeInfoOKNoEtag ==
    /\ newN' = pCfg
    /\ UNCHANGED <<nodeEtag, userEtag, apiFaults>>

(* GetNodeInfo answered: 304 when the ETag matches, else the configuration. *)
(* A fresh client knows no ETag, so Start never sees the 304.               *)
GetNodeInfoOK ==
    /\ newN' = IF nodeEtag = pCfg THEN Nil ELSE pCfg
    /\ nodeEtag' = pCfg
    /\ UNCHANGED <<userEtag, apiFaults>>

(* It failed: the ETag is overwritten before the answer is checked.  A      *)
(* failed request has none; an answer that cannot be decoded leaves its own.*)
GetNodeInfoFail ==
    /\ apiFaults < MaxApiFaults
    /\ apiFaults' = apiFaults + 1
    /\ newN' = Nil
    /\ nodeEtag' \in {Nil, pCfg}
    /\ UNCHANGED userEtag

(* GetUserList answered; the ETag is saved once the list is decoded. *)
GetUserListOK ==
    /\ newU' = IF userEtag = pUsers THEN Nil ELSE pUsers
    /\ userEtag' = pUsers
    /\ UNCHANGED <<nodeEtag, apiFaults>>

GetUserListFailSavesEtag ==
    /\ apiFaults < MaxApiFaults
    /\ apiFaults' = apiFaults + 1
    /\ newU' = Nil
    /\ userEtag' = pUsers
    /\ UNCHANGED nodeEtag

GetUserListFail ==
    /\ apiFaults < MaxApiFaults
    /\ apiFaults' = apiFaults + 1
    /\ newU' = Nil
    /\ UNCHANGED <<nodeEtag, userEtag>>

-----------------------------------------------------------------------------
(* Xray.AddNode succeeded: the inbound listens with no users yet. *)
AddNodeOK(cfg) ==
    /\ inb = Nil
    /\ inb' = cfg
    /\ up' = TRUE
    /\ served' = {}
    /\ UNCHANGED <<uid, coreFaults>>

(* It failed: the inbound could not be built; its handler is registered and *)
(* could not listen; or it listens and the outbound could not be added.     *)
(* The tag is free whenever this node calls AddNode.                        *)
AddNodeFail(cfg) ==
    /\ coreFaults < MaxCoreFaults
    /\ coreFaults' = coreFaults + 1
    /\ \/ inb' = Nil /\ up' = FALSE
       \/ inb' = cfg /\ up' \in BOOLEAN
    /\ served' = {}
    /\ UNCHANGED uid

(* Xray.DelNode; it fails when there is no handler under the tag.  The      *)
(* background import goes on with the handler it has got hold of.           *)
DelNodeOK ==
    /\ inb # Nil
    /\ inb' = Nil /\ up' = FALSE /\ served' = {}
    /\ import' = IF import = "adding" THEN "stale" ELSE import

(* Xray.AddUsers of a set of users: uidMap first, then one by one into the  *)
(* user manager, ...                                                        *)
AddUsersOK(A) ==
    /\ inb # Nil
    /\ A \cap served = {}
    /\ served' = served \cup A
    /\ uid' = uid \cup A
    /\ UNCHANGED <<inb, up, coreFaults>>

(* ... up to the first user that cannot be added: the user manager has it   *)
(* already, or refuses it.                                                  *)
AddUpTo(A, v) ==
    /\ served' = served \cup {u \in A : u < v}
    /\ uid' = uid \cup A
    /\ UNCHANGED <<inb, up>>

AddUsersFail(A) ==
    \/ inb = Nil /\ UNCHANGED <<coreVars, coreFaults>>
    \/ /\ inb # Nil
       /\ \E v \in A \cap served :
            (\A w \in A \cap served : v =< w) /\ AddUpTo(A, v)
       /\ UNCHANGED coreFaults
    \/ /\ inb # Nil
       /\ A \cap served = {}
       /\ coreFaults < MaxCoreFaults
       /\ coreFaults' = coreFaults + 1
       /\ \E v \in A : AddUpTo(A, v)

DelUsersForgetsUidOnly(D) ==
    /\ inb # Nil
    /\ uid' = uid \ D
    /\ UNCHANGED <<inb, up, served>>

(* Xray.DelUsers: one by one, in any order (compareUserList ranges over a   *)
(* map), out of the user manager, which refuses a user it does not have;    *)
(* uidMap only when all are out.                                            *)
DelUsersOK(D) ==
    /\ D # {} => inb # Nil
    /\ D \subseteq served
    /\ served' = served \ D
    /\ uid' = uid \ D
    /\ UNCHANGED <<inb, up>>

DelUsersFail(D) ==
    /\ D # {}
    /\ \/ inb = Nil /\ UNCHANGED served
       \/ /\ inb # Nil
          /\ ~(D \subseteq served)
          /\ \E R \in SUBSET (D \cap served) : served' = served \ R
    /\ UNCHANGED <<inb, up, uid>>

-----------------------------------------------------------------------------
(* The locals of a round are gone when it is over. *)
Forget == newN' = Nil /\ newU' = Nil

(* compareUserList *)
Deleted(old, new) == DOMAIN old \ DOMAIN new
Added(old, new) == DOMAIN new \ DOMAIN old
Updated(old, new) == {u \in DOMAIN old \cap DOMAIN new : old[u] # new[u]}

LimitsAfterNoUpdate(l, old, new) ==
    [u \in (DOMAIN l \ Deleted(old, new)) \cup Added(old, new) |->
        IF u \in Added(old, new) THEN new[u] ELSE l[u]]

(* Limiter.UpdateUser and then UpdateUserLimits *)
LimitsAfter(l, old, new) ==
    [u \in (DOMAIN l \ Deleted(old, new)) \cup Added(old, new) |->
        IF u \in Added(old, new) \cup Updated(old, new) THEN new[u] ELSE l[u]]

-----------------------------------------------------------------------------
(* Controller.Start: an error makes Node.Start skip the node for good. *)
StartNodeInfo ==
    /\ pc = "off"
    /\ \/ /\ GetNodeInfoOK
          /\ pc' = IF newN' \in Supported THEN "startUsers" ELSE "failed"
       \/ GetNodeInfoFail /\ pc' = "failed"
    /\ UNCHANGED <<named, panelVars, newU, userList, limVars, coreVars, importVars,
                   closeVars, coreFaults>>

StartUserList ==
    /\ pc = "startUsers"
    /\ \/ GetUserListOK /\ userList' = newU' /\ pc' = "startNode"
       \/ GetUserListFail /\ UNCHANGED userList /\ pc' = "failed"
    /\ UNCHANGED <<named, panelVars, newN, limVars, coreVars, importVars, closeVars,
                   coreFaults>>

StartAddNode ==
    /\ pc = "startNode"
    /\ lim' = userList
    /\ registered' = TRUE
    /\ \/ AddNodeOK(newN) /\ pc' = "startImport"
       \/ AddNodeFail(newN) /\ pc' = "failed"
    /\ Forget
    /\ UNCHANGED <<named, panelVars, clientVars, userList, importVars,
                   closeVars>>

(* The users are imported at once or by a goroutine; startTasks follows. *)
StartImport ==
    /\ pc = "startImport"
    /\ IF Cardinality(DOMAIN userList) > MaxSync
       THEN pc' = "idle" /\ import' = "pending" /\ UNCHANGED <<coreVars, coreFaults>>
       ELSE /\ \/ AddUsersOK(DOMAIN userList) /\ pc' = "idle"
               \/ AddUsersFail(DOMAIN userList) /\ pc' = "failed"
            /\ UNCHANGED import
    /\ UNCHANGED <<named, panelVars, clientVars, localVars, userList, limVars, todo,
                   closeVars>>

(* The import goroutine reads the list and the handler when it gets to run. *)
ImportBegin ==
    /\ import = "pending"
    /\ IF inb = Nil
       THEN import' = "gone" /\ UNCHANGED <<uid, todo>>
       ELSE /\ import' = "adding"
            /\ uid' = uid \cup DOMAIN userList
            /\ todo' = DOMAIN userList
    /\ UNCHANGED <<named, panelVars, clientVars, pc, localVars, userList, limVars,
                   inb, up, served, closeVars, coreFaults>>

(* It adds the users to that handler, even one removed meanwhile, and gives *)
(* up at the first user the handler already has.                            *)
ImportUser(u) ==
    /\ import \in {"adding", "stale"}
    /\ u \in todo
    /\ \A v \in todo : u =< v
    /\ IF import = "adding" /\ u \in served
       THEN todo' = {} /\ UNCHANGED served
       ELSE /\ todo' = todo \ {u}
            /\ served' = IF import = "adding" THEN served \cup {u} ELSE served
    /\ UNCHANGED <<named, panelVars, clientVars, pc, localVars, userList, limVars,
                   inb, up, uid, import, closeVars, coreFaults>>

-----------------------------------------------------------------------------
(* nodeInfoMonitor, first panel request *)
MonNodeInfo ==
    /\ pc = "idle"
    /\ stopped => late
    /\ late' = FALSE
    /\ \/ GetNodeInfoOK /\ pc' = "users"
       \/ GetNodeInfoFail /\ UNCHANGED pc
    /\ UNCHANGED <<named, panelVars, newU, userList, limVars, coreVars, importVars,
                   closing, stopped, closed, closeErr, coreFaults>>

MonUserListTakesNil ==
    /\ pc = "users"
    /\ \/ /\ GetUserListOK
          /\ IF newN # Nil
             THEN pc' = "delNode" /\ userList' = newU'
             ELSE /\ UNCHANGED userList
                  /\ pc' = IF newU' \in {Nil, NoUsers} THEN "idle" ELSE "delUsers"
          /\ UNCHANGED newN
       \/ GetUserListFail /\ UNCHANGED userList /\ pc' = "idle" /\ newN' = Nil
    /\ UNCHANGED <<named, panelVars, limVars, coreVars, importVars, closeVars,
                   coreFaults>>

MonUserListNeedsBoth ==
    /\ pc = "users"
    /\ \/ /\ GetUserListOK
          /\ IF newN # Nil /\ newU' # Nil
             THEN pc' = "delNode" /\ userList' = newU'
             ELSE /\ UNCHANGED userList
                  /\ pc' = IF newU' \in {Nil, NoUsers} THEN "idle" ELSE "delUsers"
          /\ UNCHANGED newN
       \/ GetUserListFail /\ UNCHANGED userList /\ pc' = "idle" /\ newN' = Nil
    /\ UNCHANGED <<named, panelVars, limVars, coreVars, importVars, closeVars,
                   coreFaults>>

(* Second request, and the choice of the branch.  A failure drops newN.     *)
(* GetUserAlive, the third request, never fails and feeds the device limit. *)
MonUserList ==
    /\ pc = "users"
    /\ \/ /\ GetUserListOK
          /\ IF newN # Nil
             THEN pc' = "delNode" /\ userList' = IF newU' # Nil THEN newU' ELSE userList
             ELSE /\ UNCHANGED userList
                  /\ pc' = IF newU' \in {Nil, NoUsers} THEN "idle" ELSE "delUsers"
          /\ UNCHANGED newN
       \/ GetUserListFail /\ UNCHANGED userList /\ pc' = "idle" /\ newN' = Nil
    /\ UNCHANGED <<named, panelVars, limVars, coreVars, importVars, closeVars,
                   coreFaults>>

MonDelNodeIgnoresError ==
    /\ pc = "delNode"
    /\ pc' = "addNode"
    /\ newU' = Nil
    /\ inb' = Nil /\ up' = FALSE /\ served' = {}
    /\ lim' = userList
    /\ registered' = TRUE
    /\ UNCHANGED <<named, panelVars, clientVars, newN, userList, uid, importVars,
                   closeVars, coreFaults>>

MonDelNodeDropsLimiter ==
    /\ pc = "delNode"
    /\ inb # Nil
    /\ pc' = "addNode"
    /\ newU' = Nil
    /\ inb' = Nil /\ up' = FALSE /\ served' = {}
    /\ lim' = userList
    /\ registered' = FALSE
    /\ UNCHANGED <<named, panelVars, clientVars, newN, userList, uid, importVars,
                   closeVars, coreFaults>>

(* The configuration changed: DelNode, which fails when there is no handler *)
(* to remove, and a fresh limiter unless the node has a name of its own.    *)
MonDelNode ==
    /\ pc = "delNode"
    /\ IF inb = Nil
       THEN pc' = "idle" /\ Forget /\ UNCHANGED <<inb, up, served, limVars, import>>
       ELSE /\ pc' = "addNode"
            /\ DelNodeOK
            /\ newU' = Nil /\ UNCHANGED newN
            /\ IF named
               THEN UNCHANGED limVars
               ELSE lim' = userList /\ registered' = TRUE
    /\ UNCHANGED <<named, panelVars, clientVars, userList, uid, todo,
                   closeVars, coreFaults>>

MonAddNode ==
    /\ pc = "addNode"
    /\ \/ AddNodeOK(newN) /\ pc' = "addAll"
       \/ AddNodeFail(newN) /\ pc' = "idle"
    /\ Forget
    /\ UNCHANGED <<named, panelVars, clientVars, userList, limVars,
                   importVars, closeVars>>

MonAddAllUsers ==
    /\ pc = "addAll"
    /\ AddUsersOK(DOMAIN userList) \/ AddUsersFail(DOMAIN userList)
    /\ pc' = "idle"
    /\ UNCHANGED <<named, panelVars, clientVars, localVars, userList, limVars,
                   importVars, closeVars>>

(* Only the users changed. *)
MonDelUsers ==
    /\ pc = "delUsers"
    /\ \/ DelUsersOK(Deleted(userList, newU)) /\ pc' = "addUsers" /\ UNCHANGED localVars
       \/ DelUsersFail(Deleted(userList, newU)) /\ pc' = "idle" /\ Forget
    /\ UNCHANGED <<named, panelVars, clientVars, userList, limVars,
                   importVars, closeVars, coreFaults>>

(* AddUsers is called for a nonempty set only; then the limiter follows and *)
(* the list is replaced.                                                    *)
MonAddUsers ==
    /\ pc = "addUsers"
    /\ LET A == Added(userList, newU) IN
       \/ /\ IF A = {} THEN UNCHANGED <<coreVars, coreFaults>> ELSE AddUsersOK(A)
          /\ lim' = LimitsAfter(lim, userList, newU)
          /\ userList' = newU
       \/ A # {} /\ AddUsersFail(A) /\ UNCHANGED <<lim, userList>>
    /\ pc' = "idle"
    /\ Forget
    /\ UNCHANGED <<named, panelVars, clientVars, registered, importVars,
                   closeVars>>

-----------------------------------------------------------------------------
(* Controller.Close: the limiter is unregistered at once ... *)
CloseLimiter ==
    /\ ~closing
    /\ pc \notin {"off", "startUsers", "startNode", "startImport", "failed"}
    /\ closing' = TRUE
    /\ registered' = FALSE
    /\ UNCHANGED <<named, panelVars, clientVars, pc, localVars, userList, lim,
                   coreVars, importVars, stopped, closed, closeErr, late, coreFaults>>

(* ... then the monitor task is closed, which waits for the round in        *)
(* progress but not for a callback that is about to begin one (see          *)
(* PeriodicTask), ...                                                       *)
CloseTasks ==
    /\ closing /\ ~stopped
    /\ pc = "idle"
    /\ stopped' = TRUE
    /\ late' \in BOOLEAN
    /\ UNCHANGED <<named, panelVars, clientVars, pc, localVars, userList, limVars,
                   coreVars, importVars, closing, closed, closeErr, coreFaults>>

(* ... and DelNode is called, after the report task, which may have a       *)
(* request to wait for, is closed too.  The late round may be anywhere.     *)
CloseNode ==
    /\ stopped /\ ~closed
    /\ closed' = TRUE
    /\ IF inb = Nil
       THEN closeErr' = TRUE /\ UNCHANGED <<inb, up, served, import>>
       ELSE DelNodeOK /\ UNCHANGED closeErr
    /\ UNCHANGED <<named, panelVars, clientVars, pc, localVars, userList, limVars,
                   uid, todo, closing, stopped, late, coreFaults>>

Monitor ==
    \/ MonNodeInfo
    \/ MonUserList
    \/ MonDelNode
    \/ MonAddNode
    \/ MonAddAllUsers
    \/ MonDelUsers
    \/ MonAddUsers

StartUp == StartNodeInfo \/ StartUserList \/ StartAddNode \/ StartImport

Import == ImportBegin \/ \E u \in Users : ImportUser(u)

Next ==
    \/ PanelEdit
    \/ StartUp
    \/ Import
    \/ Monitor
    \/ CloseLimiter
    \/ CloseTasks
    \/ CloseNode

Spec == Init /\ [][Next]_vars

(* The periodic task keeps starting rounds and every call returns (see      *)
(* PeriodicTask); the import goroutine is scheduled; Close gets the task's  *)
(* mutex between two rounds.  Nobody has to edit the panel or to call Close.*)
FairSpec ==
    /\ Spec
    /\ WF_vars(StartUp) /\ WF_vars(Monitor) /\ WF_vars(Import)
    /\ SF_vars(CloseTasks) /\ WF_vars(CloseNode)

-----------------------------------------------------------------------------
Open == pc \notin {"off", "startUsers", "startNode", "startImport", "failed"}

(* The panel's list may have changed while the background import had it. *)
ImportBesideEdits == import # "none" /\ edits > 0

(* Between two rounds of an open node, and once an import is through, the   *)
(* core serves exactly the users of the controller's list, and the limiter  *)
(* knows each of them with the limits of that list: failed panel requests   *)
(* and edits made between the requests of a round leave no half-applied     *)
(* list behind ("User list preserved from last successful fetch",           *)
(* README.md:131).  A node with a name keeps its limiter when its           *)
(* configuration changes (node/task.go 143), and nothing undoes a failed    *)
(* AddNode: nothing is claimed of those.                                    *)
InSync ==
    pc = "idle" /\ ~closed /\ import # "pending" /\ todo = {} =>
        \/ named \/ coreFaults > 0 \/ ImportBesideEdits
        \/ /\ inb # Nil /\ up
           /\ served = DOMAIN userList
           /\ lim = userList

(* While the inbound listens, its tag has a limiter: getLink and            *)
(* DispatchLink refuse every connection of a node that has none             *)
(* (default.go 271-278).  Close takes the limiter away first, and a round   *)
(* in progress may even register a new one after that.                      *)
ListeningHasLimiter == up => registered \/ closing

(* Whoever can connect has an entry in uidMap, so that the traffic is       *)
(* reported and not dropped as that of user 0 (core/xray/user.go 93-96).    *)
(* The background import does not ensure it beside edits of the list: it    *)
(* may add a user whom a round has just deleted.                            *)
ServedHaveUid == ImportBesideEdits \/ served \subseteq uid

(* A node whose Close returned no error stays down, although a monitor      *)
(* callback that passed hasClosed before may run a whole round during or    *)
(* after it, and the import goroutine goes on.  Close fails if that round   *)
(* has just taken the handler away to put another in its place, which then  *)
(* stays (node/controller.go 176-198).                                      *)
ClosedStaysDown == closed /\ ~closeErr => inb = Nil /\ served = {}

(* The handler of a running node is only taken down to install another      *)
(* configuration, or by Close, whatever answers (304 or not) the requests   *)
(* of a round get.  A failed request clears the ETag (api/panel/node.go     *)
(* 130), and the next answer then reloads an unchanged node.                *)
OnlyChangesReload ==
    [][apiFaults = 0 /\ inb # Nil /\ inb' = Nil => closed' \/ newN # inb]_vars

(* Once the panel is stable and answers, the node serves the panel's user   *)
(* list with its limits, whatever failed before.  An empty list is never    *)
(* applied by a round that finds the configuration unchanged                *)
(* (node/task.go 227), so nothing is claimed of it, nor of a node that the  *)
(* core refused to add, nor of edits beside the background import, nor of   *)
(* the limiter a node with a name keeps.                                    *)
UsersConverge ==
    <>[](\/ closed \/ pc = "failed"
         \/ pUsers = NoUsers \/ coreFaults > 0 \/ ImportBesideEdits
         \/ (named /\ edits > 0)
         \/ userList = pUsers /\ lim = pUsers /\ served = DOMAIN pUsers)

(* Once the panel is stable and answers, the node runs the panel's          *)
(* configuration: "Get user list failed, will retry next interval"          *)
(* (node/task.go:81).                                                       *)
ConfigConverges ==
    <>[](closed \/ pc = "failed" \/ inb = pCfg)

(* It does as long as every request is answered and the core accepts the    *)
(* node, also when the change comes between the two requests of a round or  *)
(* with an unchanged user list (node/task.go 118-130).                      *)
ChangesArrive ==
    <>[](closed \/ pc = "failed" \/ apiFaults > 0 \/ coreFaults > 0 \/ inb = pCfg)
=============================================================================
