-------------------------------- MODULE Links --------------------------------
(***************************************************************************)
(* The links of the dispatcher (core/xray/app/mydispatcher): every user has *)
(* a LinkManager through which DelUsers (core/xray/user.go) and the cleanup *)
(* loop close the user's connections.  Connections, DelUsers and the loop   *)
(* run concurrently; each operation on a sync.Map and each critical section *)
(* of a LinkManager is one step.  A LinkManager carries the name of the     *)
(* connection that created it.                                              *)
(***************************************************************************)
EXTENDS Integers, FiniteSets

CONSTANTS
    Conns,       \* connections
    Users,       \* users (emails)
    MaxDeletes,  \* bound: users deleted
    None

ASSUME LinksAssumption == MaxDeletes \in Nat /\ None \notin Conns \cup Users

VARIABLES
    valid,      \* the users the inbound accepts
    lmOf,       \* LinkManagers
    index,      \* LinkManager.index: the connections in each manager
    len,        \* LinkManager.links.Len()
    closers,    \* who has called CloseAll of each manager (history)
    down,       \* a panic has ended the process
    connState,  \* connStates: none, active, or idle past userIdleTimeout
    pc, user, mgr,              \* connections
    dpc, dUser, dMgr, deletes,  \* DelUsers
    kpc, kUser, kMgr            \* userCleanupLoop

connVars == <<pc, user, mgr>>
delVars == <<dpc, dUser, dMgr, deletes>>
loopVars == <<kpc, kUser, kMgr>>
mgrVars == <<index, len, closers, down>>
vars == <<valid, lmOf, mgrVars, connState, connVars, delVars, loopVars>>

Closers == {"DelUsers", "userCleanupLoop"}

(* open: the link is usable; cut: CloseAll closed it under its owner *)
TypeOK ==
    /\ valid \in SUBSET Users
    /\ lmOf \in [Users -> Conns \cup {None}]
    /\ index \in [Conns -> SUBSET Conns]
    /\ len \in [Conns -> Int]
    /\ closers \in [Conns -> SUBSET Closers] /\ down \in BOOLEAN
    /\ connState \in [Users -> {"none", "active", "idle"}]
    /\ pc \in [Conns -> {"new", "store", "mark", "add", "open", "cut", "closed"}]
    /\ user \in [Conns -> Users \cup {None}]
    /\ mgr \in [Conns -> Conns \cup {None}]
    /\ \A c \in Conns : pc[c] \in {"mark", "add", "open"} => mgr[c] # None
    /\ dpc \in {"idle", "load", "close", "delete"}
    /\ dUser \in Users \cup {None} /\ dMgr \in Conns \cup {None}
    /\ deletes \in 0..MaxDeletes
    /\ kpc \in {"idle", "state", "load", "close", "delete", "forget"}
    /\ kUser \in Users \cup {None} /\ kMgr \in Conns \cup {None}

Init ==
    /\ valid = Users
    /\ lmOf = [u \in Users |-> None]
    /\ index = [c \in Conns |-> {}]
    /\ len = [c \in Conns |-> 0]
    /\ closers = [c \in Conns |-> {}] /\ down = FALSE
    /\ connState = [u \in Users |-> "none"]
    /\ pc = [c \in Conns |-> "new"]
    /\ user = [c \in Conns |-> None] /\ mgr = [c \in Conns |-> None]
    /\ dpc = "idle" /\ dUser = None /\ dMgr = None /\ deletes = 0
    /\ kpc = "idle" /\ kUser = None /\ kMgr = None

(* A panic stops them all. *)
ConnAt(c, L) == ~down /\ pc[c] \in L
DelAt(l) == ~down /\ dpc = l
LoopAt(l) == ~down /\ kpc = l

Goto(c, l) == pc' = [pc EXCEPT ![c] = l]

-----------------------------------------------------------------------------
GetLinkManagerNoStore(c, u) ==
    /\ ConnAt(c, {"new"})
    /\ u \in valid
    /\ user' = [user EXCEPT ![c] = u]
    /\ mgr' = [mgr EXCEPT ![c] = lmOf[u]]
    /\ Goto(c, "mark")
    /\ UNCHANGED <<valid, lmOf, mgrVars, connState, delVars, loopVars>>

(* getLinkManager: Load, and a Store when there is none (not LoadOrStore).  *)
(* The connection passed the inbound's authentication and CheckLimit.       *)
GetLinkManager(c, u) ==
    /\ ConnAt(c, {"new"})
    /\ u \in valid
    /\ user' = [user EXCEPT ![c] = u]
    /\ mgr' = [mgr EXCEPT ![c] = lmOf[u]]
    /\ Goto(c, IF lmOf[u] = None THEN "store" ELSE "mark")
    /\ UNCHANGED <<valid, lmOf, mgrVars, connState, delVars, loopVars>>

StoreLinkManager(c) ==
    /\ ConnAt(c, {"store"})
    /\ lmOf' = [lmOf EXCEPT ![user[c]] = c]
    /\ mgr' = [mgr EXCEPT ![c] = c]
    /\ Goto(c, "mark")
    /\ UNCHANGED <<valid, mgrVars, connState, user, delVars, loopVars>>

(* markUserActive *)
MarkUserActive(c) ==
    /\ ConnAt(c, {"mark"})
    /\ connState' = [connState EXCEPT ![user[c]] = "active"]
    /\ Goto(c, "add")
    /\ UNCHANGED <<valid, lmOf, mgrVars, user, mgr, delVars, loopVars>>

AddLink(c) ==
    /\ ConnAt(c, {"add"})
    /\ index' = [index EXCEPT ![mgr[c]] = @ \cup {c}]
    /\ len' = [len EXCEPT ![mgr[c]] = @ + 1]
    /\ Goto(c, "open")
    /\ UNCHANGED <<valid, lmOf, closers, down, connState, user, mgr, delVars, loopVars>>

RemoveWriterKeepsIndex(c) ==
    /\ ConnAt(c, {"open", "cut"})
    /\ len' = [len EXCEPT ![mgr[c]] = @ - 1]
    /\ Goto(c, "closed")
    /\ UNCHANGED <<valid, lmOf, index, closers, down, connState, user, mgr, delVars,
                   loopVars>>

(* The owner closes the link: ManagedWriter.Close calls RemoveWriter, which *)
(* takes the element off the list even when CloseAll has emptied the list.  *)
RemoveWriter(c) ==
    /\ ConnAt(c, {"open", "cut"})
    /\ index' = [index EXCEPT ![mgr[c]] = @ \ {c}]
    /\ len' = [len EXCEPT ![mgr[c]] = @ - 1]
    /\ Goto(c, "closed")
    /\ UNCHANGED <<valid, lmOf, closers, down, connState, user, mgr, delVars, loopVars>>

Connection(c) ==
    \/ \E u \in Users : GetLinkManager(c, u)
    \/ StoreLinkManager(c)
    \/ MarkUserActive(c)
    \/ AddLink(c)
    \/ RemoveWriter(c)

(* What CloseAll may find on its way from the front of the list.  The list  *)
(* is what the index says, until an element from before an earlier CloseAll *)
(* is removed: the length is then behind, and the ends of the list point to *)
(* whatever that element pointed to.  At length 0 the front is nil.         *)
Found(m) ==
    IF len[m] = Cardinality(index[m]) THEN {index[m]}
    ELSE IF len[m] = 0 THEN {{}} ELSE SUBSET index[m]

(* LinkManager.CloseAll.  The front of a list whose length is behind may    *)
(* also be its root, which holds no link: the type assertion panics.        *)
CloseAll(m, who) ==
    /\ closers' = [closers EXCEPT ![m] = @ \cup {who}]
    /\ \/ /\ \E S \in Found(m) :
               pc' = [c \in Conns |-> IF c \in S THEN "cut" ELSE pc[c]]
          /\ index' = [index EXCEPT ![m] = {}]
          /\ len' = [len EXCEPT ![m] = 0]
          /\ UNCHANGED down
       \/ /\ len[m] \notin {0, Cardinality(index[m])}
          /\ down' = TRUE
          /\ UNCHANGED <<pc, index, len>>

-----------------------------------------------------------------------------
(* DelUsers: the inbound forgets the user first ... *)
DelUser(u) ==
    /\ DelAt("idle")
    /\ deletes < MaxDeletes
    /\ deletes' = deletes + 1
    /\ u \in valid
    /\ valid' = valid \ {u}
    /\ dUser' = u
    /\ dpc' = "load"
    /\ UNCHANGED <<lmOf, mgrVars, connState, connVars, dMgr, loopVars>>

(* ... then its link manager is loaded, closed and deleted. *)
DelLoad ==
    /\ DelAt("load")
    /\ dMgr' = lmOf[dUser]
    /\ dpc' = IF lmOf[dUser] = None THEN "idle" ELSE "close"
    /\ UNCHANGED <<valid, lmOf, mgrVars, connState, connVars, dUser, deletes,
                   loopVars>>

DelCloseAll ==
    /\ DelAt("close")
    /\ CloseAll(dMgr, "DelUsers")
    /\ dpc' = "delete"
    /\ UNCHANGED <<valid, lmOf, connState, user, mgr, dUser, dMgr, deletes, loopVars>>

DelDelete ==
    /\ DelAt("delete")
    /\ lmOf' = [lmOf EXCEPT ![dUser] = None]
    /\ dpc' = "idle"
    /\ UNCHANGED <<valid, mgrVars, connState, connVars, dUser, dMgr, deletes,
                   loopVars>>

(* AddUsers gives a deleted user back to the inbound. *)
AddUser(u) ==
    /\ DelAt("idle")
    /\ u \notin valid
    /\ valid' = valid \cup {u}
    /\ UNCHANGED <<lmOf, mgrVars, connState, connVars, delVars, loopVars>>

DelUsers ==
    \/ \E u \in Users : DelUser(u)
    \/ DelLoad
    \/ DelCloseAll
    \/ DelDelete

-----------------------------------------------------------------------------
(* userIdleTimeout, 10 minutes, passes after the user's last new connection:*)
(* far longer than getLink takes from markUserActive to AddLink.  The loop  *)
(* compares with the time at which its round began.                         *)
Idle(u) ==
    /\ ~down /\ connState[u] = "active"
    /\ \A c \in Conns : user[c] = u => pc[c] # "add"
    /\ kpc = "idle" \/ kUser # u
    /\ connState' = [connState EXCEPT ![u] = "idle"]
    /\ UNCHANGED <<valid, lmOf, mgrVars, connVars, delVars, loopVars>>

(* userCleanupLoop visits a user whose manager counts no connection, ... *)
LoopVisit(u) ==
    /\ LoopAt("idle")
    /\ lmOf[u] # None
    /\ len[lmOf[u]] =< 0
    /\ kUser' = u
    /\ kpc' = "state"
    /\ UNCHANGED <<valid, lmOf, mgrVars, connState, connVars, delVars, kMgr>>

LoopStateInverted ==
    /\ LoopAt("state")
    /\ kpc' = IF connState[kUser] = "active" THEN "load" ELSE "idle"
    /\ UNCHANGED <<valid, lmOf, mgrVars, connState, connVars, delVars, kUser, kMgr>>

(* ... skips it unless the last connection is long ago, ... *)
LoopState ==
    /\ LoopAt("state")
    /\ kpc' = IF connState[kUser] = "idle" THEN "load" ELSE "idle"
    /\ UNCHANGED <<valid, lmOf, mgrVars, connState, connVars, delVars, kUser, kMgr>>

(* ... and runs cleanupUserResources. *)
LoopLoad ==
    /\ LoopAt("load")
    /\ kMgr' = lmOf[kUser]
    /\ kpc' = IF lmOf[kUser] = None THEN "forget" ELSE "close"
    /\ UNCHANGED <<valid, lmOf, mgrVars, connState, connVars, delVars, kUser>>

LoopCloseAll ==
    /\ LoopAt("close")
    /\ CloseAll(kMgr, "userCleanupLoop")
    /\ kpc' = "delete"
    /\ UNCHANGED <<valid, lmOf, connState, user, mgr, delVars, kUser, kMgr>>

LoopDeleteForgotten ==
    /\ LoopAt("delete")
    /\ kpc' = "forget"
    /\ UNCHANGED <<valid, lmOf, mgrVars, connState, connVars, delVars, kUser, kMgr>>

LoopDelete ==
    /\ LoopAt("delete")
    /\ lmOf' = [lmOf EXCEPT ![kUser] = None]
    /\ kpc' = "forget"
    /\ UNCHANGED <<valid, mgrVars, connState, connVars, delVars, kUser, kMgr>>

LoopForget ==
    /\ LoopAt("forget")
    /\ connState' = [connState EXCEPT ![kUser] = "none"]
    /\ kpc' = "idle"
    /\ UNCHANGED <<valid, lmOf, mgrVars, connVars, delVars, kUser, kMgr>>

CleanupLoop ==
    \/ LoopState
    \/ LoopLoad
    \/ LoopCloseAll
    \/ LoopDelete
    \/ LoopForget

Next ==
    \/ \E c \in Conns : Connection(c)
    \/ DelUsers
    \/ \E u \in Users : AddUser(u) \/ Idle(u) \/ LoopVisit(u)
    \/ CleanupLoop

Spec == Init /\ [][Next]_vars

(* Goroutines are scheduled, time passes, and the loop, which starts over   *)
(* every userCleanupInterval, comes to every user again and again.          *)
FairSpec ==
    /\ Spec
    /\ \A c \in Conns : WF_vars(StoreLinkManager(c) \/ MarkUserActive(c) \/ AddLink(c))
    /\ WF_vars(DelLoad \/ DelCloseAll \/ DelDelete)
    /\ WF_vars(CleanupLoop)
    /\ \A u \in Users : SF_vars(Idle(u)) /\ SF_vars(LoopVisit(u))

-----------------------------------------------------------------------------
OpenLinks(m) == {c \in Conns : pc[c] = "open" /\ mgr[c] = m}

(* A manager's index holds exactly the open links that were added to it, so *)
(* that CloseAll misses none of those, unless DelUsers and the cleanup loop *)
(* have both closed it (user.go 68-72, default.go 200-203).  It never holds *)
(* a link that is not open.                                                 *)
IndexIsOpenLinks ==
    \A m \in Conns :
        /\ index[m] \subseteq OpenLinks(m)
        /\ closers[m] # Closers => index[m] = OpenLinks(m)

(* CloseAll panics only if DelUsers and the cleanup loop meet at one        *)
(* manager: neither alone closes a manager twice, whatever new connections  *)
(* and owners do meanwhile (linkmanager.go 71-82).                          *)
PanicNeedsBoth ==
    down => \E m \in Conns : closers[m] = Closers

(* A user who has no connection any more is freed in the end: the manager   *)
(* leaves LinkManagers, or the user comes back, or there is no connState to *)
(* tell how long the user has been idle (default.go 168-184).               *)
IdleUserFreed ==
    \A u \in Users :
        (lmOf[u] # None /\ connState[u] # "none") ~>
            (\/ lmOf[u] = None
             \/ connState[u] = "none"
             \/ down
             \/ \E c \in Conns : user[c] = u /\ pc[c] \in {"mark", "add", "open", "cut"})
=============================================================================
