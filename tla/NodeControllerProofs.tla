------------------------ MODULE NodeControllerProofs ------------------------
(***************************************************************************)
(* The safety properties of a node's controller, for any users, limits and  *)
(* configurations and any number of panel edits and faults.                 *)
(***************************************************************************)
EXTENDS NodeController, TLAPS

(* What a round, or Start, has in its hands at the points where it is cut:  *)
(* Start asks with a fresh client, so its list is a list; a handler is only *)
(* added for a configuration; a difference is only taken from a list.       *)
RoundInv ==
    /\ pc \in {"off", "startUsers"} => userEtag = Nil
    /\ pc \in {"startUsers", "startNode", "delNode", "addNode"} => newN # Nil
    /\ pc \in {"delUsers", "addUsers"} => newU # Nil

(* Before Start has added its node, and when a round is about to, there is  *)
(* no handler under the node's tag.                                         *)
TagFreeInv ==
    /\ pc \in {"off", "startUsers", "startNode", "addNode"} => inb = Nil
    /\ pc \in {"off", "startUsers", "startNode"} => ~up /\ served = {}

Starting == {"off", "startUsers", "startNode", "startImport", "failed"}

(* Close is only called after Start.  When its DelNode has succeeded, no    *)
(* round is about to add a handler, and the import has lost its own.        *)
CloseInv ==
    /\ closing => pc \notin Starting
    /\ closed => stopped
    /\ stopped => closing
    /\ closed /\ ~closeErr => pc # "addNode" /\ import # "adding"

TypeInv == TypeOK /\ RoundInv

USE DEF DelNodeOK, Forget

(* From StartAddNode on the tag has a limiter, until Close. *)
LimiterInv == pc \notin {"off", "startUsers", "startNode", "failed"} => registered \/ closing

(* Before the first edit of the panel every request for the users after     *)
(* that of Start is answered with a 304, and no round changes users.        *)
UneditedInv ==
    edits = 0 =>
        /\ pc \notin {"off", "startUsers", "failed"} => userEtag = pUsers /\ userList = pUsers
        /\ pc \notin {"delUsers", "addUsers"}

(* The import begins after Start, adds to the handler in use unless that    *)
(* has been removed since, and whom it has left to add has a uid.           *)
ImportInv ==
    /\ pc \in Starting => import = "none"
    /\ import \in {"none", "pending", "gone"} => todo = {}
    /\ import = "adding" => inb # Nil
    /\ ImportBesideEdits \/ todo \subseteq uid

(* The import goroutine has added those it has not left, lowest first. *)
ImportedSoFar ==
    /\ import = "adding"
    /\ served = DOMAIN userList \ todo
    /\ \A u \in served, v \in todo : u < v

(* Nothing has happened that InSync makes an exception for. *)
Regular == ~named /\ coreFaults = 0 /\ ~closed /\ ~ImportBesideEdits

(* Where the core and the limiter stand at each call of a round. *)
SyncInv ==
    Regular =>
        /\ pc \notin {"off", "startUsers", "startNode", "failed", "addNode"} => inb # Nil /\ up
        /\ pc \notin {"off", "startUsers", "startNode", "failed", "delNode"} => lim = userList
        /\ pc \in {"startImport", "addNode"} => served = {}
        /\ pc = "addAll" => IF import = "adding" THEN ImportedSoFar ELSE served = {}
        /\ pc \in {"idle", "users"} =>
             \/ served = DOMAIN userList
             \/ import = "pending" /\ served = {}
             \/ ImportedSoFar
        /\ pc = "delUsers" => served = DOMAIN userList
        /\ pc = "addUsers" => served = DOMAIN userList \cap DOMAIN newU
        /\ import = "adding" => todo \subseteq DOMAIN userList

(* As long as the panel answers, nodeEtag is the configuration of the       *)
(* handler, but for a round that has been given another one.                *)
EtagInv ==
    apiFaults = 0 =>
        /\ pc \in {"startUsers", "startNode", "addNode"} => newN = nodeEtag
        /\ inb # Nil /\ pc \in {"startImport", "idle", "addAll", "delUsers", "addUsers"} =>
             inb = nodeEtag
        /\ inb # Nil /\ pc \in {"users", "delNode"} =>
             IF newN = Nil THEN inb = nodeEtag ELSE newN = nodeEtag /\ newN # inb

-----------------------------------------------------------------------------
(* A user list is a function from some of the users to limits. *)
LEMMA UserListIsFunction ==
    ASSUME NEW l
    PROVE  l \in UserLists <=> DOMAIN l \subseteq Users /\ l \in [DOMAIN l -> Limits]
  BY DEF UserLists

(* The empty list, which Start and a fresh limiter begin with, is a list. *)
LEMMA NoUsersIsList == NoUsers \in UserLists
<1>1. DOMAIN NoUsers = {} /\ NoUsers \in [{} -> Limits]
  BY DEF NoUsers
<1> QED
  BY <1>1 DEF UserLists

(* UpdateUser and UpdateUserLimits turn one list into another. *)
LEMMA LimitsAfterIsList ==
    ASSUME NEW l \in UserLists, NEW old \in UserLists, NEW new \in UserLists
    PROVE  LimitsAfter(l, old, new) \in UserLists
<1> DEFINE D == (DOMAIN l \ Deleted(old, new)) \cup Added(old, new)
<1>1. /\ DOMAIN l \subseteq Users /\ l \in [DOMAIN l -> Limits]
      /\ DOMAIN old \subseteq Users
      /\ DOMAIN new \subseteq Users /\ new \in [DOMAIN new -> Limits]
  BY UserListIsFunction
<1>2. D \subseteq Users
  BY <1>1 DEF Deleted, Added
<1>3. \A u \in D :
        (IF u \in Added(old, new) \cup Updated(old, new) THEN new[u] ELSE l[u]) \in Limits
  BY <1>1 DEF Deleted, Added, Updated
<1>4. LimitsAfter(l, old, new) \in [D -> Limits]
  BY <1>3 DEF LimitsAfter
<1> QED
  BY <1>2, <1>4 DEF UserLists

(* A limiter that is in step with the old list is in step with the new one  *)
(* after the update: what compareUserList finds is all there is to change.  *)
LEMMA LimitsAfterFollows ==
    ASSUME NEW old \in UserLists, NEW new \in UserLists
    PROVE  LimitsAfter(old, old, new) = new
<1>1. new \in [DOMAIN new -> Limits]
  BY UserListIsFunction
<1>2. (DOMAIN old \ Deleted(old, new)) \cup Added(old, new) = DOMAIN new
  BY DEF Deleted, Added
<1>3. \A u \in DOMAIN new :
        (IF u \in Added(old, new) \cup Updated(old, new) THEN new[u] ELSE old[u]) = new[u]
  BY DEF Deleted, Added, Updated
<1>4. LimitsAfter(old, old, new) = [u \in DOMAIN new |-> new[u]]
  BY <1>2, <1>3 DEF LimitsAfter
<1> QED
  BY <1>1, <1>4

-----------------------------------------------------------------------------
(* Start and the rounds go from one of their calls to another. *)
LEMMA NextCall == pc \in PCs /\ [Next]_vars => pc' \in PCs
<1> SUFFICES ASSUME pc \in PCs, [Next]_vars PROVE pc' \in PCs
  OBVIOUS
<1>1. CASE UNCHANGED pc
  BY <1>1
<1>2. CASE StartUp
  BY <1>2 DEF PCs, StartUp, StartNodeInfo, StartUserList, StartAddNode, StartImport
<1>3. CASE MonNodeInfo \/ MonUserList \/ MonDelNode
  BY <1>3 DEF PCs, MonNodeInfo, MonUserList, MonDelNode
<1>4. CASE MonAddNode \/ MonAddAllUsers \/ MonDelUsers \/ MonAddUsers
  BY <1>4 DEF PCs, MonAddNode, MonAddAllUsers, MonDelUsers, MonAddUsers
<1> QED
  BY <1>1, <1>2, <1>3, <1>4
     DEF Next, vars, PanelEdit, Import, ImportBegin, ImportUser, Monitor, CloseLimiter, CloseTasks,
         CloseNode

(* What the panel has and what the client has of it keep their types. *)
LEMMA PanelTypesStep == TypeInv /\ [Next]_vars => PanelTypes'
<1> SUFFICES ASSUME TypeInv, [Next]_vars PROVE PanelTypes'
  OBVIOUS
<1> USE ControllerAssumption
    DEF TypeInv, TypeOK, PanelTypes, panelVars, clientVars, localVars
<1>1. CASE PanelEdit
  BY <1>1 DEF PanelEdit
<1>2. CASE StartNodeInfo \/ MonNodeInfo
  BY <1>2 DEF StartNodeInfo, MonNodeInfo, GetNodeInfoOK, GetNodeInfoFail
<1>3. CASE StartUserList \/ MonUserList
  BY <1>3 DEF StartUserList, MonUserList, GetUserListOK, GetUserListFail
<1>4. CASE StartAddNode \/ StartImport \/ Import
  BY <1>4 DEF StartAddNode, StartImport, Import, ImportBegin, ImportUser
<1>5. CASE MonDelNode \/ MonAddNode \/ MonAddAllUsers
  BY <1>5 DEF MonDelNode, MonAddNode, MonAddAllUsers
<1>6. CASE MonDelUsers \/ MonAddUsers
  BY <1>6 DEF MonDelUsers, MonAddUsers
<1>7. CASE CloseLimiter \/ CloseTasks \/ CloseNode \/ UNCHANGED vars
  BY <1>7 DEF CloseLimiter, CloseTasks, CloseNode, vars
<1> QED
  BY <1>1, <1>2, <1>3, <1>4, <1>5, <1>6, <1>7 DEF Next, StartUp, Monitor

(* So do the controller's fields.  RoundInv is needed here: without it,     *)
(* userList could become the 304 answer of a panel that Start has not asked *)
(* before.                                                                  *)
LEMMA ControllerTypesStep == TypeInv /\ [Next]_vars => ControllerTypes'
<1> SUFFICES ASSUME TypeInv, [Next]_vars PROVE ControllerTypes'
  OBVIOUS
<1> USE ControllerAssumption
    DEF TypeInv, TypeOK, ControllerTypes, limVars, closeVars
<1> pc' \in PCs
  BY NextCall
<1>1. CASE PanelEdit \/ Import \/ UNCHANGED vars
  BY <1>1 DEF PanelEdit, Import, ImportBegin, ImportUser, vars
<1>2. CASE StartNodeInfo \/ StartAddNode \/ StartImport
  BY <1>2 DEF StartNodeInfo, StartAddNode, StartImport
<1>3. CASE StartUserList
  BY <1>3 DEF StartUserList, GetUserListOK, RoundInv, PanelTypes
<1>4. CASE MonNodeInfo
  BY <1>4 DEF MonNodeInfo
<1>5. CASE MonUserList
  BY <1>5 DEF MonUserList, GetUserListOK, PanelTypes
<1>6. CASE MonDelNode
  BY <1>6 DEF MonDelNode
<1>7. CASE MonAddNode \/ MonAddAllUsers \/ MonDelUsers
  BY <1>7 DEF MonAddNode, MonAddAllUsers, MonDelUsers
<1>8. CASE MonAddUsers
  <2>1. newU \in UserLists
    BY <1>8 DEF MonAddUsers, RoundInv, PanelTypes
  <2>2. LimitsAfter(lim, userList, newU) \in UserLists
    BY <2>1, LimitsAfterIsList
  <2> QED
    BY <1>8, <2>1, <2>2 DEF MonAddUsers
<1>9. CASE CloseLimiter \/ CloseTasks \/ CloseNode
  BY <1>9 DEF CloseLimiter, CloseTasks, CloseNode
<1> QED
  BY <1>1, <1>2, <1>3, <1>4, <1>5, <1>6, <1>7, <1>8, <1>9 DEF Next, StartUp, Monitor

(* AddUsers adds some of the users it is given and nobody else, all of them *)
(* with a uid, and only to a handler.                                       *)
LEMMA AddUsersEffect ==
    ASSUME TypeOK, NEW A, A \subseteq Users, AddUsersOK(A) \/ AddUsersFail(A)
    PROVE  /\ served' \in SUBSET Users /\ uid' \in SUBSET Users
           /\ UNCHANGED <<inb, up>>
           /\ inb = Nil => UNCHANGED <<served, uid>>
           /\ uid \subseteq uid'
           /\ served' \subseteq served \cup uid'
           /\ coreFaults' \in 0..MaxCoreFaults /\ coreFaults =< coreFaults'
<1> USE ControllerAssumption DEF TypeOK, CoreTypes, coreVars
<1>1. CASE AddUsersOK(A)
  BY <1>1 DEF AddUsersOK
<1>2. CASE inb = Nil /\ UNCHANGED <<coreVars, coreFaults>>
  BY <1>2
<1>3. ASSUME NEW v, AddUpTo(A, v), inb # Nil,
             coreFaults' = coreFaults \/ (coreFaults < MaxCoreFaults /\ coreFaults' = coreFaults + 1)
      PROVE  /\ served' \in SUBSET Users /\ uid' \in SUBSET Users
             /\ UNCHANGED <<inb, up>>
             /\ uid \subseteq uid'
             /\ served' \subseteq served \cup uid'
             /\ coreFaults' \in 0..MaxCoreFaults /\ coreFaults =< coreFaults'
  <2>1. PICK B \in SUBSET A : served' = served \cup B
    BY <1>3, {u \in A : u < v} \in SUBSET A DEF AddUpTo
  <2>2. uid' = uid \cup A /\ UNCHANGED <<inb, up>>
    BY <1>3 DEF AddUpTo
  <2>3. coreFaults' \in 0..MaxCoreFaults /\ coreFaults =< coreFaults'
    BY <1>3
  <2> QED
    BY <2>1, <2>2, <2>3
<1>4. CASE inb # Nil /\ UNCHANGED coreFaults /\ \E v \in A \cap served : AddUpTo(A, v)
  BY <1>3, <1>4
<1>5. CASE /\ inb # Nil /\ coreFaults < MaxCoreFaults /\ coreFaults' = coreFaults + 1
           /\ \E v \in A : AddUpTo(A, v)
  BY <1>3, <1>5
<1> QED
  <2> HIDE DEF TypeOK, CoreTypes, coreVars
  <2> QED
    BY <1>1, <1>2, <1>4, <1>5 DEF AddUsersFail

(* And so do the inbound, its users and the import goroutine. *)
LEMMA CoreTypesStep == TypeInv /\ [Next]_vars => CoreTypes'
<1> SUFFICES ASSUME TypeInv, [Next]_vars PROVE CoreTypes'
  OBVIOUS
<1> USE ControllerAssumption
    DEF TypeInv, TypeOK, CoreTypes, coreVars, importVars
<1>1. DOMAIN userList \subseteq Users
  BY UserListIsFunction DEF ControllerTypes
<1>2. CASE PanelEdit \/ CloseLimiter \/ CloseTasks \/ UNCHANGED vars
  BY <1>2 DEF PanelEdit, CloseLimiter, CloseTasks, vars
<1>3. CASE StartNodeInfo \/ StartUserList \/ MonNodeInfo \/ MonUserList
  BY <1>3 DEF StartNodeInfo, StartUserList, MonNodeInfo, MonUserList,
              GetNodeInfoOK, GetNodeInfoFail
<1>4. CASE StartAddNode \/ MonAddNode
  <2> USE <1>4 DEF StartAddNode, MonAddNode, AddNodeOK, AddNodeFail
  <2>1. (inb \in Cfgs \cup {Nil})'
    BY DEF PanelTypes
  <2>2. (up \in BOOLEAN)'
    OBVIOUS
  <2>3. (served \in SUBSET Users /\ uid \in SUBSET Users)'
    OBVIOUS
  <2>4. (import \in {"none", "pending", "adding", "stale", "gone"} /\ todo \in SUBSET Users)'
    OBVIOUS
  <2>5. (coreFaults \in 0..MaxCoreFaults)'
    OBVIOUS
  <2> QED
    BY <2>1, <2>2, <2>3, <2>4, <2>5
<1>5. CASE StartImport \/ MonAddAllUsers
  <2>1. CASE AddUsersOK(DOMAIN userList) \/ AddUsersFail(DOMAIN userList)
    BY <1>1, <1>5, <2>1, AddUsersEffect DEF StartImport, MonAddAllUsers
  <2> QED
    BY <1>5, <2>1 DEF StartImport, MonAddAllUsers
<1>6. CASE ImportBegin
  BY <1>1, <1>6 DEF ImportBegin
<1>7. ASSUME NEW u \in Users, ImportUser(u) PROVE CoreTypes'
  BY <1>7 DEF ImportUser
<1>8. CASE MonDelNode \/ CloseNode
  BY <1>8 DEF MonDelNode, CloseNode
<1>9. CASE MonDelUsers
  BY <1>9 DEF MonDelUsers, DelUsersOK, DelUsersFail
<1>10. CASE MonAddUsers
  <2>1. newU \in UserLists
    BY <1>10 DEF MonAddUsers, RoundInv, PanelTypes
  <2>2. Added(userList, newU) \subseteq Users
    BY <2>1, UserListIsFunction DEF Added
  <2> QED
    BY <1>10, <2>2, AddUsersEffect DEF MonAddUsers
<1> QED
  BY <1>2, <1>3, <1>4, <1>5, <1>6, <1>7, <1>8, <1>9, <1>10
     DEF Next, StartUp, Import, Monitor

(* RoundInv is kept with them. *)
LEMMA RoundStep == TypeInv /\ [Next]_vars => RoundInv'
<1> SUFFICES ASSUME TypeInv, [Next]_vars PROVE RoundInv'
  OBVIOUS
<1> USE ControllerAssumption
    DEF TypeInv, TypeOK, PanelTypes, ControllerTypes, RoundInv, panelVars, clientVars,
        localVars
<1>1. CASE StartUp
  BY <1>1 DEF StartUp, StartNodeInfo, StartUserList, StartAddNode, StartImport,
              GetNodeInfoOK, GetUserListOK, GetNodeInfoFail, GetUserListFail
<1>2. CASE MonNodeInfo
  BY <1>2 DEF MonNodeInfo
<1>3. CASE MonUserList
  BY <1>3 DEF MonUserList, GetUserListOK, GetUserListFail
<1>4. CASE MonDelNode \/ MonAddNode \/ MonAddAllUsers
  BY <1>4 DEF MonDelNode, MonAddNode, MonAddAllUsers
<1>5. CASE MonDelUsers \/ MonAddUsers
  BY <1>5 DEF MonDelUsers, MonAddUsers
<1>6. CASE PanelEdit \/ CloseLimiter \/ CloseTasks \/ CloseNode \/ UNCHANGED vars
  BY <1>6 DEF PanelEdit, CloseLimiter, CloseTasks, CloseNode, vars
<1>7. CASE Import
  BY <1>7 DEF Import, ImportBegin, ImportUser
<1> QED
  BY <1>1, <1>2, <1>3, <1>4, <1>5, <1>6, <1>7 DEF Next, Monitor

(* Start begins with a fresh client and no list. *)
LEMMA InitTypeInv == Init => TypeInv
<1> SUFFICES ASSUME Init PROVE TypeInv
  OBVIOUS
<1>1. PanelTypes
  BY ControllerAssumption DEF Init, PanelTypes
<1>2. ControllerTypes
  BY NoUsersIsList DEF Init, ControllerTypes, PCs
<1>3. CoreTypes
  <2>1. inb \in Cfgs \cup {Nil} /\ served \in SUBSET Users /\ uid \in SUBSET Users
    BY DEF Init
  <2>2. up \in BOOLEAN
    BY DEF Init
  <2>3. import \in {"none", "pending", "adding", "stale", "gone"} /\ todo \in SUBSET Users
    BY DEF Init
  <2>4. coreFaults \in 0..MaxCoreFaults
    BY ControllerAssumption DEF Init
  <2> QED
    BY <2>1, <2>2, <2>3, <2>4 DEF CoreTypes
<1>4. RoundInv
  BY DEF Init, RoundInv
<1> QED
  BY <1>1, <1>2, <1>3, <1>4 DEF TypeInv, TypeOK

(* The controller's fields keep their types; in particular userList, which  *)
(* Start takes from the answer and a round only replaces by a list, is      *)
(* never nil (node/controller.go 70-79, node/task.go 118-130).              *)
THEOREM ControllerTypeCorrect == Spec => []TypeOK
<1>1. Init => TypeInv
  BY InitTypeInv
<1>2. TypeInv /\ [Next]_vars => TypeInv'
  BY PanelTypesStep, ControllerTypesStep, CoreTypesStep, RoundStep DEF TypeInv, TypeOK
<1>3. TypeInv => TypeOK
  BY DEF TypeInv
<1> QED
  BY <1>1, <1>2, <1>3, PTL DEF Spec

-----------------------------------------------------------------------------
ControllerInv ==
    /\ TypeInv /\ TagFreeInv /\ CloseInv /\ LimiterInv /\ UneditedInv /\ ImportInv
    /\ SyncInv /\ EtagInv
    /\ ClosedStaysDown /\ ListeningHasLimiter /\ ServedHaveUid

(* A handler is added under a free tag only. *)
LEMMA TagFreeStep == ControllerInv /\ [Next]_vars => TagFreeInv'
<1> SUFFICES ASSUME ControllerInv, [Next]_vars PROVE TagFreeInv'
  OBVIOUS
<1> USE DEF ControllerInv, TagFreeInv, coreVars
<1>1. CASE StartNodeInfo \/ StartUserList
  BY <1>1 DEF StartNodeInfo, StartUserList
<1>2. CASE StartAddNode \/ StartImport
  BY <1>2 DEF StartAddNode, StartImport
<1>3. CASE Import
  BY <1>3 DEF Import, ImportBegin, ImportUser, ImportInv, Starting
<1>4. CASE MonNodeInfo \/ MonUserList
  BY <1>4 DEF MonNodeInfo, MonUserList
<1>5. CASE MonDelNode \/ MonAddNode \/ MonAddAllUsers
  BY <1>5 DEF MonDelNode, MonAddNode, MonAddAllUsers
<1>6. CASE MonDelUsers \/ MonAddUsers
  BY <1>6 DEF MonDelUsers, MonAddUsers
<1>7. CASE CloseNode
  BY <1>7 DEF CloseNode
<1>8. CASE PanelEdit \/ CloseLimiter \/ CloseTasks \/ UNCHANGED vars
  BY <1>8 DEF PanelEdit, CloseLimiter, CloseTasks, vars
<1> QED
  BY <1>1, <1>2, <1>3, <1>4, <1>5, <1>6, <1>7, <1>8 DEF Next, StartUp, Monitor

(* After Close a round finds no handler, so that it neither takes one down  *)
(* nor gets to add one.                                                     *)
LEMMA CloseStep == ControllerInv /\ [Next]_vars => (CloseInv /\ ClosedStaysDown)'
<1> SUFFICES ASSUME ControllerInv, [Next]_vars PROVE (CloseInv /\ ClosedStaysDown)'
  OBVIOUS
<1> USE DEF ControllerInv, CloseInv, ClosedStaysDown, Starting, coreVars, importVars,
            closeVars
<1>1. CASE StartNodeInfo \/ StartUserList
  BY <1>1 DEF StartNodeInfo, StartUserList
<1>2. CASE StartAddNode \/ StartImport
  BY <1>2 DEF StartAddNode, StartImport
<1>3. CASE Import
  BY <1>3 DEF Import, ImportBegin, ImportUser
<1>4. CASE MonNodeInfo \/ MonUserList
  BY <1>4 DEF MonNodeInfo, MonUserList
<1>5. CASE MonDelNode \/ MonAddNode \/ MonAddAllUsers
  BY <1>5 DEF MonDelNode, MonAddNode, MonAddAllUsers, AddUsersOK, AddUsersFail
<1>6. CASE MonDelUsers
  BY <1>6 DEF MonDelUsers, DelUsersOK, DelUsersFail
<1>7. CASE MonAddUsers
  BY <1>7 DEF MonAddUsers, AddUsersOK, AddUsersFail, AddUpTo
<1>8. CASE CloseNode
  BY <1>8 DEF CloseNode, TagFreeInv
<1>9. CASE PanelEdit \/ CloseLimiter \/ CloseTasks \/ UNCHANGED vars
  BY <1>9 DEF PanelEdit, CloseLimiter, CloseTasks, vars
<1> QED
  BY <1>1, <1>2, <1>3, <1>4, <1>5, <1>6, <1>7, <1>8, <1>9 DEF Next, StartUp, Monitor

(* The limiter is registered before the handler listens, and a reload does  *)
(* not take it away.                                                        *)
LEMMA LimiterStep == ControllerInv /\ [Next]_vars => (LimiterInv /\ ListeningHasLimiter)'
<1> SUFFICES ASSUME ControllerInv, [Next]_vars PROVE (LimiterInv /\ ListeningHasLimiter)'
  OBVIOUS
<1> USE DEF ControllerInv, LimiterInv, ListeningHasLimiter, coreVars, limVars, closeVars
<1>1. CASE StartNodeInfo \/ StartUserList
  BY <1>1 DEF StartNodeInfo, StartUserList
<1>2. CASE StartAddNode \/ StartImport
  BY <1>2 DEF StartAddNode, StartImport, AddUsersOK
<1>3. CASE Import
  BY <1>3 DEF Import, ImportBegin, ImportUser
<1>4. CASE MonNodeInfo \/ MonUserList
  BY <1>4 DEF MonNodeInfo, MonUserList
<1>5. CASE MonDelNode
  BY <1>5 DEF MonDelNode
<1>6. CASE MonAddNode \/ MonAddAllUsers
  BY <1>6 DEF MonAddNode, MonAddAllUsers, AddNodeOK, AddNodeFail, AddUsersOK, AddUsersFail, AddUpTo
<1>7. CASE MonDelUsers \/ MonAddUsers
  BY <1>7 DEF MonDelUsers, MonAddUsers, DelUsersOK, DelUsersFail, AddUsersOK, AddUsersFail, AddUpTo
<1>8. CASE CloseNode \/ CloseLimiter \/ CloseTasks
  BY <1>8 DEF CloseNode, CloseLimiter, CloseTasks
<1>9. CASE PanelEdit \/ UNCHANGED vars
  BY <1>9 DEF PanelEdit, vars
<1> QED
  BY <1>1, <1>2, <1>3, <1>4, <1>5, <1>6, <1>7, <1>8, <1>9 DEF Next, StartUp, Monitor

(* Only an edit of the panel ends the 304 answers. *)
LEMMA UneditedStep == ControllerInv /\ [Next]_vars => UneditedInv'
<1> SUFFICES ASSUME ControllerInv, [Next]_vars PROVE UneditedInv'
  OBVIOUS
<1> USE ControllerAssumption
    DEF ControllerInv, TypeInv, TypeOK, PanelTypes, UneditedInv, panelVars, clientVars
<1>1. CASE PanelEdit
  BY <1>1 DEF PanelEdit
<1>2. CASE StartNodeInfo \/ MonNodeInfo
  BY <1>2 DEF StartNodeInfo, MonNodeInfo, GetNodeInfoOK, GetNodeInfoFail
<1>3. CASE StartUserList
  BY <1>3 DEF StartUserList, GetUserListOK, GetUserListFail, RoundInv
<1>4. CASE MonUserList
  BY <1>4 DEF MonUserList, GetUserListOK, GetUserListFail
<1>5. CASE StartAddNode \/ StartImport \/ Import
  BY <1>5 DEF StartAddNode, StartImport, Import, ImportBegin, ImportUser
<1>6. CASE MonDelNode \/ MonAddNode \/ MonAddAllUsers
  BY <1>6 DEF MonDelNode, MonAddNode, MonAddAllUsers
<1>7. CASE MonDelUsers \/ MonAddUsers
  BY <1>7 DEF MonDelUsers, MonAddUsers
<1>8. CASE CloseNode \/ CloseLimiter \/ CloseTasks \/ UNCHANGED vars
  BY <1>8 DEF CloseNode, CloseLimiter, CloseTasks, vars
<1> QED
  BY <1>1, <1>2, <1>3, <1>4, <1>5, <1>6, <1>7, <1>8 DEF Next, StartUp, Monitor

(* The import goroutine gives uids before it adds users, and while it may   *)
(* run nobody takes them away unless the panel was edited.                  *)
LEMMA ImportStep == ControllerInv /\ [Next]_vars => (ImportInv /\ ServedHaveUid)'
<1> SUFFICES ASSUME ControllerInv, [Next]_vars PROVE (ImportInv /\ ServedHaveUid)'
  OBVIOUS
<1> USE ControllerAssumption
    DEF ControllerInv, TypeInv, TypeOK, PanelTypes, CoreTypes, ImportInv, ServedHaveUid,
        ImportBesideEdits, Starting, panelVars, coreVars, importVars
<1>1. CASE PanelEdit
  BY <1>1 DEF PanelEdit
<1>2. CASE StartNodeInfo \/ StartUserList
  BY <1>2 DEF StartNodeInfo, StartUserList
<1>3. CASE StartAddNode
  BY <1>3 DEF StartAddNode, AddNodeOK, AddNodeFail
<1>4. CASE StartImport
  <2>1. DOMAIN userList \subseteq Users
    BY UserListIsFunction DEF ControllerTypes
  <2>2. CASE AddUsersOK(DOMAIN userList) \/ AddUsersFail(DOMAIN userList)
    BY <1>4, <2>1, <2>2, AddUsersEffect DEF StartImport
  <2> QED
    BY <1>4, <2>2 DEF StartImport
<1>5. CASE ImportBegin
  BY <1>5 DEF ImportBegin
<1>6. ASSUME NEW u \in Users, ImportUser(u) PROVE (ImportInv /\ ServedHaveUid)'
  BY <1>6 DEF ImportUser
<1>7. CASE MonNodeInfo \/ MonUserList
  BY <1>7 DEF MonNodeInfo, MonUserList
<1>8. CASE MonDelNode \/ CloseNode
  BY <1>8 DEF MonDelNode, CloseNode
<1>9. CASE MonAddNode
  BY <1>9 DEF MonAddNode, AddNodeOK, AddNodeFail, TagFreeInv
<1>10. CASE MonAddAllUsers
  BY <1>10 DEF MonAddAllUsers, AddUsersOK, AddUsersFail, AddUpTo
<1>11. CASE MonDelUsers
  <2>1. ImportBesideEdits \/ todo = {}
    BY <1>11 DEF MonDelUsers, UneditedInv
  <2>2. UNCHANGED <<import, todo, edits, inb>>
    BY <1>11 DEF MonDelUsers, DelUsersOK, DelUsersFail
  <2>3. pc' \notin Starting
    BY <1>11 DEF MonDelUsers
  <2>4. ImportInv'
    BY <2>1, <2>2, <2>3
  <2>5. ServedHaveUid'
    BY <1>11, <2>2 DEF MonDelUsers, DelUsersOK, DelUsersFail
  <2> QED
    BY <2>4, <2>5
<1>12. CASE MonAddUsers
  BY <1>12 DEF MonAddUsers, AddUsersOK, AddUsersFail, AddUpTo
<1>13. CASE CloseLimiter \/ CloseTasks \/ UNCHANGED vars
  BY <1>13 DEF CloseLimiter, CloseTasks, vars
<1> QED
  BY <1>1, <1>2, <1>3, <1>4, <1>5, <1>6, <1>7, <1>8, <1>9, <1>10, <1>11, <1>12, <1>13
     DEF Next, StartUp, Import, Monitor

(* nodeEtag follows the handler. *)
LEMMA EtagStep == ControllerInv /\ [Next]_vars => EtagInv'
<1> SUFFICES ASSUME ControllerInv, [Next]_vars PROVE EtagInv'
  OBVIOUS
<1> USE ControllerAssumption
    DEF ControllerInv, TypeInv, TypeOK, PanelTypes, EtagInv, panelVars, clientVars,
        localVars, coreVars
<1>1. CASE PanelEdit \/ CloseLimiter \/ CloseTasks \/ UNCHANGED vars
  BY <1>1 DEF PanelEdit, CloseLimiter, CloseTasks, vars
<1>2. CASE StartNodeInfo
  BY <1>2 DEF StartNodeInfo, GetNodeInfoOK, GetNodeInfoFail, TagFreeInv
<1>3. CASE StartUserList
  BY <1>3 DEF StartUserList, GetUserListOK, GetUserListFail, TagFreeInv
<1>4. CASE StartAddNode \/ MonAddNode
  BY <1>4 DEF StartAddNode, MonAddNode, AddNodeOK, AddNodeFail, TagFreeInv
<1>5. CASE StartImport \/ MonAddAllUsers
  BY <1>5 DEF StartImport, MonAddAllUsers, AddUsersOK, AddUsersFail, AddUpTo
<1>6. CASE Import
  BY <1>6 DEF Import, ImportBegin, ImportUser
<1>7. CASE MonNodeInfo
  BY <1>7 DEF MonNodeInfo, GetNodeInfoOK, GetNodeInfoFail
<1>8. CASE MonUserList
  BY <1>8 DEF MonUserList, GetUserListOK, GetUserListFail
<1>9. CASE MonDelNode
  BY <1>9 DEF MonDelNode, RoundInv
<1>10. CASE MonDelUsers \/ MonAddUsers
  BY <1>10 DEF MonDelUsers, MonAddUsers, DelUsersOK, DelUsersFail, AddUsersOK, AddUsersFail, AddUpTo
<1>11. CASE CloseNode
  BY <1>11 DEF CloseNode
<1> QED
  BY <1>1, <1>2, <1>3, <1>4, <1>5, <1>6, <1>7, <1>8, <1>9, <1>10, <1>11
     DEF Next, StartUp, Monitor

(* None of the exceptions is ever taken back. *)
LEMMA RegularBefore == TypeInv /\ [Next]_vars /\ Regular' => Regular
<1> SUFFICES ASSUME TypeInv, [Next]_vars, Regular' PROVE Regular
  OBVIOUS
<1> USE ControllerAssumption
    DEF TypeInv, TypeOK, PanelTypes, CoreTypes, Regular, ImportBesideEdits, panelVars,
        importVars, closeVars
<1>1. CASE PanelEdit
  BY <1>1 DEF PanelEdit
<1>2. CASE StartNodeInfo \/ StartUserList \/ MonNodeInfo \/ MonUserList
  BY <1>2 DEF StartNodeInfo, StartUserList, MonNodeInfo, MonUserList
<1>3. CASE StartAddNode \/ MonAddNode
  BY <1>3 DEF StartAddNode, MonAddNode, AddNodeOK, AddNodeFail
<1>4. CASE StartImport \/ Import
  BY <1>4 DEF StartImport, AddUsersOK, AddUsersFail, Import, ImportBegin, ImportUser
<1>5. CASE MonDelNode \/ MonAddAllUsers \/ MonDelUsers \/ MonAddUsers
  BY <1>5 DEF MonDelNode, MonAddAllUsers, MonDelUsers, MonAddUsers, AddUsersOK, AddUsersFail
<1>6. CASE CloseLimiter \/ CloseTasks \/ CloseNode \/ UNCHANGED vars
  BY <1>6 DEF CloseLimiter, CloseTasks, CloseNode, vars
<1> QED
  BY <1>1, <1>2, <1>3, <1>4, <1>5, <1>6 DEF Next, StartUp, Monitor

(* The rounds keep the core and the limiter in step with the list: a reload *)
(* and an update both end with what the list says, whatever the background  *)
(* import has added in between.                                             *)
LEMMA SyncStep == ControllerInv /\ [Next]_vars => SyncInv'
<1> SUFFICES ASSUME ControllerInv, [Next]_vars, Regular' PROVE SyncInv'
  BY DEF SyncInv
<1>0. Regular
  BY RegularBefore DEF ControllerInv
<1> USE <1>0, ControllerAssumption DEF ControllerInv, SyncInv
<1>1. CASE PanelEdit \/ CloseLimiter \/ CloseTasks \/ UNCHANGED vars
  BY <1>1 DEF PanelEdit, CloseLimiter, CloseTasks, vars, ImportedSoFar, localVars, coreVars, limVars,
              importVars
<1>2. CASE StartNodeInfo \/ StartUserList
  BY <1>2 DEF StartNodeInfo, StartUserList, ImportInv, Starting, importVars
<1>3. CASE StartAddNode
  <2>1. AddNodeOK(newN) /\ pc' = "startImport"
    BY <1>3 DEF StartAddNode, AddNodeFail, Regular, TypeInv, TypeOK, CoreTypes
  <2>2. import' = "none" /\ newN # Nil
    BY <1>3 DEF StartAddNode, ImportInv, Starting, importVars, RoundInv, TypeInv
  <2> QED
    BY <1>3, <2>1, <2>2 DEF StartAddNode, AddNodeOK
<1>4. CASE StartImport
  BY <1>4 DEF StartImport, AddUsersOK, coreVars, limVars, ImportInv, Starting
<1>5. CASE ImportBegin
  <2>1. UNCHANGED <<pc, newU, userList, lim, inb, up, served>>
    BY <1>5 DEF ImportBegin, localVars, limVars
  <2>2. import = "pending" /\ edits = 0
    BY <1>5 DEF ImportBegin, Regular, ImportBesideEdits, TypeInv, TypeOK, PanelTypes
  <2>3. CASE inb = Nil
    BY <1>5, <2>1, <2>2, <2>3 DEF ImportBegin, ImportedSoFar, UneditedInv, TagFreeInv
  <2>4. CASE inb # Nil
    <3>1. import' = "adding" /\ todo' = DOMAIN userList
      BY <1>5, <2>4 DEF ImportBegin
    <3>2. served = {} => ImportedSoFar'
      BY <2>1, <3>1 DEF ImportedSoFar
    <3> QED
      BY <2>1, <2>2, <3>1, <3>2 DEF ImportedSoFar, UneditedInv
  <2> QED
    BY <2>3, <2>4
<1>6. ASSUME NEW u \in Users, ImportUser(u) PROVE SyncInv'
  <2>1. UNCHANGED <<pc, newU, userList, lim, inb, up, import>>
    BY <1>6 DEF ImportUser, localVars, limVars
  <2>2. import \in {"adding", "stale"} /\ u \in todo /\ \A v \in todo : u =< v
    BY <1>6 DEF ImportUser
  <2>3. pc \notin {"startImport", "delUsers", "addUsers"}
    BY <2>2 DEF Regular, ImportBesideEdits, ImportInv, Starting, UneditedInv, TypeInv,
                TypeOK, PanelTypes
  <2>4. CASE import = "stale"
    BY <1>6, <2>1, <2>3, <2>4 DEF ImportUser, ImportedSoFar
  <2>5. CASE import = "adding" /\ u \in served
    BY <1>6, <2>1, <2>2, <2>3, <2>5 DEF ImportUser, ImportedSoFar, ImportInv, TagFreeInv
  <2>6. CASE import = "adding" /\ u \notin served
    <3>1. todo' = todo \ {u} /\ served' = served \cup {u}
      BY <1>6, <2>6 DEF ImportUser
    <3>2. todo \subseteq DOMAIN userList /\ todo \subseteq Nat /\ served \subseteq Nat
      BY <2>6 DEF TypeInv, TypeOK, CoreTypes
    <3>3. ImportedSoFar => ImportedSoFar'
      BY <2>1, <2>2, <3>1, <3>2 DEF ImportedSoFar
    <3>4. pc # "addNode"
      BY <2>6 DEF ImportInv, TagFreeInv
    <3>5. served # DOMAIN userList
      BY <2>2, <2>6, <3>2
    <3> QED
      BY <2>1, <2>3, <2>6, <3>1, <3>2, <3>3, <3>4, <3>5
  <2> QED
    BY <2>2, <2>4, <2>5, <2>6
<1>7. CASE MonNodeInfo
  BY <1>7 DEF MonNodeInfo, ImportedSoFar, coreVars, limVars, importVars
<1>8. CASE MonUserList
  <2>1. UNCHANGED <<lim, inb, up, served, import, todo, edits>>
    BY <1>8 DEF MonUserList, limVars, coreVars, importVars, panelVars
  <2>2. pc = "users" /\ pc' \in {"delNode", "idle", "delUsers"}
    BY <1>8 DEF MonUserList
  <2>3. import # "none" => userList' = userList /\ pc' # "delUsers"
    BY <1>8, UneditedStep DEF MonUserList, GetUserListOK, UneditedInv, Regular,
       ImportBesideEdits, TypeInv, TypeOK, PanelTypes, panelVars
  <2>4. pc' \in {"idle", "delUsers"} => userList' = userList
    BY <1>8 DEF MonUserList
  <2>5. ImportedSoFar /\ userList' = userList => ImportedSoFar'
    BY <2>1 DEF ImportedSoFar
  <2> QED
    BY <2>1, <2>2, <2>3, <2>4, <2>5 DEF ImportedSoFar
<1>9. CASE MonDelNode
  BY <1>9 DEF MonDelNode, ImportedSoFar, Regular
<1>10. CASE MonAddNode
  <2>1. AddNodeOK(newN) /\ pc' = "addAll"
    BY <1>10 DEF MonAddNode, AddNodeFail, Regular, TypeInv, TypeOK, CoreTypes
  <2>2. import # "adding" /\ newN # Nil
    BY <1>10 DEF MonAddNode, ImportInv, TagFreeInv, RoundInv, TypeInv
  <2> QED
    BY <1>10, <2>1, <2>2 DEF MonAddNode, AddNodeOK, limVars, importVars
<1>11. CASE MonAddAllUsers
  <2>1. UNCHANGED <<userList, lim, inb, up, import, todo>> /\ pc = "addAll" /\ pc' = "idle"
    BY <1>11 DEF MonAddAllUsers, AddUsersOK, AddUsersFail, AddUpTo, limVars, importVars, coreVars
  <2>2. CASE AddUsersOK(DOMAIN userList)
    <3>1. served' = DOMAIN userList
      BY <2>1, <2>2 DEF AddUsersOK, ImportedSoFar
    <3> QED
      BY <2>1, <3>1
  <2>3. CASE AddUsersFail(DOMAIN userList)
    <3>1. PICK v \in DOMAIN userList \cap served :
            /\ \A w \in DOMAIN userList \cap served : v =< w
            /\ AddUpTo(DOMAIN userList, v)
      BY <2>1, <2>3 DEF AddUsersFail, Regular, TypeInv, TypeOK, CoreTypes
    <3>2. ImportedSoFar
      BY <2>1, <3>1
    <3>3. DOMAIN userList \subseteq Nat
      BY UserListIsFunction DEF TypeInv, TypeOK, ControllerTypes
    <3>4. ASSUME NEW u \in DOMAIN userList, u < v
          PROVE  u \in served
      <4>1. u \in served \/ v < u
        BY <3>1, <3>2 DEF ImportedSoFar
      <4> QED
        BY <3>1, <3>3, <3>4, <4>1
    <3>5. served' = served
      BY <3>1, <3>4 DEF AddUpTo
    <3> QED
      BY <2>1, <3>2, <3>5 DEF ImportedSoFar
  <2> QED
    BY <1>11, <2>2, <2>3 DEF MonAddAllUsers
<1>12. CASE MonDelUsers
  <2>1. DelUsersOK(Deleted(userList, newU)) /\ pc = "delUsers" /\ pc' = "addUsers"
    BY <1>12 DEF MonDelUsers, DelUsersFail, Deleted
  <2>2. served' = DOMAIN userList \cap DOMAIN newU
    BY <1>12, <2>1 DEF MonDelUsers, DelUsersOK, Deleted
  <2>3. UNCHANGED <<newU, userList, lim, inb, up, import, todo>>
    BY <1>12, <2>1 DEF MonDelUsers, DelUsersOK, localVars, limVars, importVars
  <2> QED
    BY <2>1, <2>2, <2>3
<1>13. CASE MonAddUsers
  <2> DEFINE A == Added(userList, newU)
  <2>1. pc = "addUsers" /\ pc' = "idle" /\ import' = import /\ import = "none"
    BY <1>13 DEF MonAddUsers, importVars, Regular, ImportBesideEdits, UneditedInv, TypeInv,
                 TypeOK, PanelTypes
  <2>2. A \cap served = {} /\ served \cup A = DOMAIN newU
    BY <2>1 DEF Added
  <2>3. ~AddUsersFail(A)
    BY <2>1, <2>2 DEF AddUsersFail, Regular, TypeInv, TypeOK, CoreTypes
  <2>4. newU \in UserLists /\ userList \in UserLists
    BY <2>1 DEF TypeInv, TypeOK, PanelTypes, ControllerTypes, RoundInv
  <2>5. lim' = newU /\ userList' = newU
    BY <1>13, <2>1, <2>3, <2>4, LimitsAfterFollows DEF MonAddUsers
  <2>6. UNCHANGED <<inb, up>> /\ served' = DOMAIN newU
    BY <1>13, <2>2, <2>3 DEF MonAddUsers, AddUsersOK, coreVars
  <2> QED
    BY <2>1, <2>5, <2>6
<1>14. CASE CloseNode
  BY <1>14 DEF CloseNode, Regular
<1> QED
  BY <1>1, <1>2, <1>3, <1>4, <1>5, <1>6, <1>7, <1>8, <1>9, <1>10, <1>11, <1>12, <1>13,
     <1>14 DEF Next, StartUp, Import, Monitor

-----------------------------------------------------------------------------
(* The parts make up an inductive invariant. *)
LEMMA ControllerInvAlways == Spec => []ControllerInv
<1>1. Init => ControllerInv
  BY InitTypeInv
     DEF Init, ControllerInv, TagFreeInv, CloseInv, LimiterInv, UneditedInv, ImportInv, SyncInv,
         EtagInv, ClosedStaysDown, ListeningHasLimiter, ServedHaveUid, Starting
<1>2. ControllerInv /\ [Next]_vars => ControllerInv'
  <2> SUFFICES ASSUME ControllerInv, [Next]_vars PROVE ControllerInv'
    OBVIOUS
  <2>1. TypeInv'
    BY PanelTypesStep, ControllerTypesStep, CoreTypesStep, RoundStep
       DEF ControllerInv, TypeInv, TypeOK
  <2> QED
    BY <2>1, TagFreeStep, CloseStep, LimiterStep, UneditedStep, ImportStep, SyncStep, EtagStep
       DEF ControllerInv
<1> QED
  BY <1>1, <1>2, PTL DEF Spec

(* Between two rounds the core serves the users of the controller's list,   *)
(* each with the limits of that list (node/task.go 58-285).  It needs the   *)
(* whole of SyncInv, which follows a round from call to call, and, for the  *)
(* background import, that the panel answers 304 until it is edited.        *)
THEOREM ControllerInSync == Spec => []InSync
<1>1. ControllerInv => InSync
  BY DEF ControllerInv, SyncInv, Regular, ImportedSoFar, InSync, TypeInv, TypeOK, CoreTypes
<1> QED
  BY <1>1, ControllerInvAlways, PTL

(* A node that listens has a limiter until Close takes it away, reloads     *)
(* included (node/controller.go 80-103, node/task.go 131-157).              *)
THEOREM ControllerKeepsLimiter == Spec => []ListeningHasLimiter
<1>1. ControllerInv => ListeningHasLimiter
  BY DEF ControllerInv
<1> QED
  BY <1>1, ControllerInvAlways, PTL

(* Whoever the inbound serves has a uid to be charged by                    *)
(* (core/xray/user.go 34-75, 113-194), half-done updates included.          *)
THEOREM ControllerGivesUids == Spec => []ServedHaveUid
<1>1. ControllerInv => ServedHaveUid
  BY DEF ControllerInv
<1> QED
  BY <1>1, ControllerInvAlways, PTL

(* After a Close that returned no error no late round has the node up: a    *)
(* round between its steps that deletes the node first makes Close fail     *)
(* (node/controller.go 176-198, node/task.go 131-142).                      *)
THEOREM ControllerStaysClosed == Spec => []ClosedStaysDown
<1>1. ControllerInv => ClosedStaysDown
  BY DEF ControllerInv
<1> QED
  BY <1>1, ControllerInvAlways, PTL

(* As long as the panel answers, a handler is only taken down for another   *)
(* configuration or by Close (node/task.go 131-142).                        *)
THEOREM ControllerReloadsChanges == Spec => OnlyChangesReload
<1> DEFINE Step == apiFaults = 0 /\ inb # Nil /\ inb' = Nil => closed' \/ newN # inb
<1>1. ControllerInv /\ [Next]_vars => [Step]_vars
  <2> SUFFICES ASSUME ControllerInv, Next PROVE Step
    OBVIOUS
  <2> USE DEF coreVars
  <2>1. CASE PanelEdit \/ CloseLimiter \/ CloseTasks
    BY <2>1 DEF PanelEdit, CloseLimiter, CloseTasks
  <2>2. CASE StartNodeInfo \/ StartUserList \/ MonNodeInfo \/ MonUserList
    BY <2>2 DEF StartNodeInfo, StartUserList, MonNodeInfo, MonUserList
  <2>3. CASE StartAddNode \/ MonAddNode
    BY <2>3 DEF StartAddNode, MonAddNode, ControllerInv, TagFreeInv
  <2>4. CASE StartImport \/ Import \/ MonAddAllUsers
    BY <2>4 DEF StartImport, Import, ImportBegin, ImportUser, MonAddAllUsers, AddUsersOK,
                AddUsersFail, AddUpTo
  <2>5. CASE MonDelNode
    BY <2>5 DEF MonDelNode, ControllerInv, TypeInv, RoundInv, EtagInv
  <2>6. CASE MonDelUsers \/ MonAddUsers
    BY <2>6 DEF MonDelUsers, MonAddUsers, DelUsersOK, DelUsersFail, AddUsersOK, AddUsersFail, AddUpTo
  <2>7. CASE CloseNode
    BY <2>7 DEF CloseNode
  <2> QED
    BY <2>1, <2>2, <2>3, <2>4, <2>5, <2>6, <2>7 DEF Next, StartUp, Monitor
<1> QED
  BY <1>1, ControllerInvAlways, PTL DEF Spec, OnlyChangesReload
=============================================================================
