------------------------------- MODULE Limiter -------------------------------
(***************************************************************************)
(* limiter/limiter.go: the limits of one node.  Every new connection runs   *)
(* CheckLimit in a goroutine of its own; the node monitor updates users and *)
(* limits and the report task collects the online devices meanwhile, with   *)
(* no lock but those of the sync.Maps.  Each operation on a sync.Map is one *)
(* step.                                                                   *)
(*                                                                         *)
(* A connection makes one call of CheckLimit, so its name also names the    *)
(* two objects the call may allocate: the IP map it publishes and the       *)
(* bucket it creates (of the rate it computed).                             *)
(* The supported nodes are TCP only, so noSSUDP is TRUE in every call.  The *)
(* dynamic speed limit is left out: Controller.traffic is never filled, so  *)
(* UpdateDynamicSpeedLimit is never called.                                 *)
(***************************************************************************)
EXTENDS Naturals, FiniteSets

CONSTANTS
    Conns,      \* calls of CheckLimit
    Users,      \* users (TagUUID and Uid)
    IPs,        \* client addresses
    Speeds,     \* speed limits a user may have, 0 is unlimited
    Devices,    \* device limits a user may have, 0 is unlimited
    NodeSpeed,  \* Limiter.SpeedLimit
    MaxAlive,   \* bound: devices the panel counts for one user
    MaxUpdates, \* bound: changes made by the node monitor
    MaxReports, \* bound: calls of GetOnlineDevice
    None

(* UserLimitInfo, what CheckLimit reads of it *)
Infos == [speed : Speeds, device : Devices]

ASSUME LimiterAssumption ==
    /\ Speeds \subseteq Nat /\ Devices \subseteq Nat
    /\ NodeSpeed \in Nat /\ MaxAlive \in Nat
    /\ MaxUpdates \in Nat /\ MaxReports \in Nat
    /\ None \notin Conns /\ None \notin Users /\ None \notin Infos

VARIABLES
    info,       \* UserLimitInfo
    alive,      \* AliveList, the panel's count of online devices
    online,     \* UserOnlineIP: the IP map of each user
    ips,        \* the addresses in each IP map
    old,        \* OldUserOnline: who had the address at the last report
    bucket,     \* SpeedLimiter
    pc, user, ip, devLimit, speed, aliveIp, ipMap, got,  \* CheckLimit's locals
    mpc, target, new, updates,                           \* the node monitor
    rpc, visit, visiting, reports              \* the report task

mapVars == <<info, alive, online, ips, old, bucket>>
connVars == <<pc, user, ip, devLimit, speed, aliveIp, ipMap, got>>
monVars == <<mpc, target, new, updates>>
repVars == <<rpc, visit, visiting, reports>>
vars == <<mapVars, connVars, monVars, repVars>>

MapTypes ==
    /\ info \in [Users -> Infos \cup {None}]
    /\ alive \in [Users -> 0..MaxAlive]
    /\ online \in [Users -> Conns \cup {None}]
    /\ ips \in [Conns -> SUBSET IPs]
    /\ old \in [IPs -> Users \cup {None}]
    /\ bucket \in [Users -> Conns \cup {None}]

CheckTypes ==
    /\ pc \in [Conns -> {"new", "online", "addIP", "oldShared", "oldFresh",
                         "forget", "undoIP", "undoAll", "bucket", "store",
                         "admitted", "rejected"}]
    /\ user \in [Conns -> Users \cup {None}] /\ ip \in [Conns -> IPs \cup {None}]
    /\ devLimit \in [Conns -> Devices \cup {0}]
    /\ speed \in [Conns -> Speeds \cup {0, NodeSpeed}]
    /\ aliveIp \in [Conns -> 0..MaxAlive]
    /\ ipMap \in [Conns -> Conns \cup {None}]
    /\ got \in [Conns -> Conns \cup {None}]

TaskTypes ==
    /\ mpc \in {"idle", "dropBucket", "setDevice", "dropOnline", "delOnline", "delBucket"}
    /\ target \in Users \cup {None} /\ new \in Infos \cup {None}
    /\ updates \in 0..MaxUpdates
    /\ rpc \in {"idle", "range"}
    /\ visit \in SUBSET Users /\ visiting \in Users \cup {None}
    /\ reports \in 0..MaxReports

(* Type invariant: the maps of Limiter and the locals of CheckLimit, of the *)
(* monitor and of the report; the rate of a bucket is one of the user's     *)
(* limits or the node's.                                                    *)
TypeOK == MapTypes /\ CheckTypes /\ TaskTypes

(* AddLimiter for some user list *)
Init ==
    /\ info \in [Users -> Infos \cup {None}]
    /\ alive \in [Users -> 0..MaxAlive]
    /\ online = [u \in Users |-> None]
    /\ ips = [c \in Conns |-> {}]
    /\ old = [i \in IPs |-> None]
    /\ bucket = [u \in Users |-> None]
    /\ pc = [c \in Conns |-> "new"]
    /\ user = [c \in Conns |-> None] /\ ip = [c \in Conns |-> None]
    /\ devLimit = [c \in Conns |-> 0] /\ speed = [c \in Conns |-> 0]
    /\ aliveIp = [c \in Conns |-> 0]
    /\ ipMap = [c \in Conns |-> None] /\ got = [c \in Conns |-> None]
    /\ mpc = "idle" /\ target = None /\ new = None /\ updates = 0
    /\ rpc = "idle" /\ visit = {} /\ visiting = None /\ reports = 0

(* dynamic.go: the smaller of two limits, where 0 is no limit *)
determineSpeedLimit(a, b) ==
    IF a = 0 THEN b ELSE IF b = 0 THEN a ELSE IF a < b THEN a ELSE b

Goto(c, l) == pc' = [pc EXCEPT ![c] = l]

OverLimitOffByOne(c) == devLimit[c] > 0 /\ devLimit[c] < aliveIp[c]

(* The panel's last count has reached the user's device limit. *)
OverLimit(c) == devLimit[c] > 0 /\ devLimit[c] =< aliveIp[c]

-----------------------------------------------------------------------------
(* CheckLimit of a connection of user u from address i: an unknown user is  *)
(* rejected, otherwise the limits are read.                                 *)
LoadInfo(c, u, i) ==
    /\ pc[c] = "new"
    /\ user' = [user EXCEPT ![c] = u]
    /\ ip' = [ip EXCEPT ![c] = i]
    /\ IF info[u] = None
       THEN Goto(c, "rejected") /\ UNCHANGED <<devLimit, speed>>
       ELSE /\ Goto(c, "online")
            /\ devLimit' = [devLimit EXCEPT ![c] = info[u].device]
            /\ speed' = [speed EXCEPT ![c] = determineSpeedLimit(NodeSpeed, info[u].speed)]
    /\ UNCHANGED <<mapVars, aliveIp, ipMap, got, monVars, repVars>>

StoreOnline(c) ==
    /\ pc[c] = "online"
    /\ aliveIp' = [aliveIp EXCEPT ![c] = alive[user[c]]]
    /\ online' = [online EXCEPT ![user[c]] = c]
    /\ ips' = [ips EXCEPT ![c] = {ip[c]}]
    /\ ipMap' = [ipMap EXCEPT ![c] = c]
    /\ Goto(c, "oldFresh")
    /\ UNCHANGED <<info, alive, old, bucket, user, ip, devLimit, speed, got,
                   monVars, repVars>>

(* The panel's device count is read, and UserOnlineIP.LoadOrStore.          *)
LoadOrStoreOnline(c) ==
    /\ pc[c] = "online"
    /\ aliveIp' = [aliveIp EXCEPT ![c] = alive[user[c]]]
    /\ IF online[user[c]] = None
       THEN /\ online' = [online EXCEPT ![user[c]] = c]
            /\ ips' = [ips EXCEPT ![c] = {ip[c]}]
            /\ ipMap' = [ipMap EXCEPT ![c] = c]
            /\ Goto(c, "oldFresh")
       ELSE /\ ipMap' = [ipMap EXCEPT ![c] = online[user[c]]]
            /\ Goto(c, "addIP")
            /\ UNCHANGED <<online, ips>>
    /\ UNCHANGED <<info, alive, old, bucket, user, ip, devLimit, speed, got,
                   monVars, repVars>>

(* oldipMap.LoadOrStore: an address that is there already passes. *)
LoadOrStoreIP(c) ==
    /\ pc[c] = "addIP"
    /\ ips' = [ips EXCEPT ![ipMap[c]] = @ \cup {ip[c]}]
    /\ Goto(c, IF ip[c] \in ips[ipMap[c]] THEN "bucket" ELSE "oldShared")
    /\ UNCHANGED <<info, alive, online, old, bucket, user, ip, devLimit, speed,
                   aliveIp, ipMap, got, monVars, repVars>>

(* OldUserOnline.Load and the device check, in both branches: an address    *)
(* that was online at the last report, for whichever user, passes.          *)
CheckOld(c) ==
    /\ pc[c] \in {"oldShared", "oldFresh"}
    /\ Goto(c, CASE old[ip[c]] = user[c]          -> "forget"
                 [] old[ip[c]] \notin {user[c], None} -> "bucket"
                 [] old[ip[c]] = None /\ ~OverLimit(c) -> "bucket"
                 [] OTHER -> IF pc[c] = "oldShared" THEN "undoIP" ELSE "undoAll")
    /\ UNCHANGED <<mapVars, user, ip, devLimit, speed, aliveIp, ipMap, got,
                   monVars, repVars>>

ForgetOld(c) ==
    /\ pc[c] = "forget"
    /\ old' = [old EXCEPT ![ip[c]] = None]
    /\ Goto(c, "bucket")
    /\ UNCHANGED <<info, alive, online, ips, bucket, user, ip, devLimit, speed,
                   aliveIp, ipMap, got, monVars, repVars>>

UndoIPForgotten(c) ==
    /\ pc[c] = "undoIP"
    /\ Goto(c, "rejected")
    /\ UNCHANGED <<mapVars, user, ip, devLimit, speed, aliveIp, ipMap, got,
                   monVars, repVars>>

(* Over the device limit: the address is taken out of the map again ...     *)
UndoIP(c) ==
    /\ pc[c] = "undoIP"
    /\ ips' = [ips EXCEPT ![ipMap[c]] = @ \ {ip[c]}]
    /\ Goto(c, "rejected")
    /\ UNCHANGED <<info, alive, online, old, bucket, user, ip, devLimit, speed,
                   aliveIp, ipMap, got, monVars, repVars>>

(* ... or the user's whole map is dropped, with whatever it holds by now.   *)
UndoAll(c) ==
    /\ pc[c] = "undoAll"
    /\ online' = [online EXCEPT ![user[c]] = None]
    /\ Goto(c, "rejected")
    /\ UNCHANGED <<info, alive, ips, old, bucket, user, ip, devLimit, speed,
                   aliveIp, ipMap, got, monVars, repVars>>

(* SpeedLimiter.Load, if there is a limit at all *)
LoadBucket(c) ==
    /\ pc[c] = "bucket"
    /\ IF speed[c] = 0 \/ bucket[user[c]] # None
       THEN /\ got' = [got EXCEPT ![c] = IF speed[c] = 0 THEN None ELSE bucket[user[c]]]
            /\ Goto(c, "admitted")
       ELSE Goto(c, "store") /\ UNCHANGED got
    /\ UNCHANGED <<mapVars, user, ip, devLimit, speed, aliveIp, ipMap, monVars,
                   repVars>>

StoreOwnBucket(c) ==
    /\ pc[c] = "store"
    /\ bucket' = [bucket EXCEPT ![user[c]] = c]
    /\ got' = [got EXCEPT ![c] = c]
    /\ Goto(c, "admitted")
    /\ UNCHANGED <<info, alive, online, ips, old, user, ip, devLimit, speed,
                   aliveIp, ipMap, monVars, repVars>>

(* SpeedLimiter.LoadOrStore of a new bucket *)
LoadOrStoreBucket(c) ==
    /\ pc[c] = "store"
    /\ bucket' = [bucket EXCEPT ![user[c]] = IF @ = None THEN c ELSE @]
    /\ got' = [got EXCEPT ![c] = bucket'[user[c]]]
    /\ Goto(c, "admitted")
    /\ UNCHANGED <<info, alive, online, ips, old, user, ip, devLimit, speed,
                   aliveIp, ipMap, monVars, repVars>>

CheckLimit(c) ==
    \/ \E u \in Users, i \in IPs : LoadInfo(c, u, i)
    \/ LoadOrStoreOnline(c)
    \/ LoadOrStoreIP(c)
    \/ CheckOld(c)
    \/ ForgetOld(c)
    \/ UndoIP(c)
    \/ UndoAll(c)
    \/ LoadBucket(c)
    \/ LoadOrStoreBucket(c)

-----------------------------------------------------------------------------
(* The node monitor begins to change user u. *)
Update(u) ==
    /\ mpc = "idle"
    /\ updates < MaxUpdates
    /\ updates' = updates + 1
    /\ target' = u

(* UpdateUserLimits: the speed limit, and then the bucket of the old one *)
SetSpeed(u, l) ==
    /\ Update(u)
    /\ info[u] # None
    /\ new' = l
    /\ info' = [info EXCEPT ![u].speed = l.speed]
    /\ mpc' = IF l.speed # info[u].speed THEN "dropBucket" ELSE "setDevice"
    /\ UNCHANGED <<alive, online, ips, old, bucket, connVars, repVars>>

DropBucket ==
    /\ mpc = "dropBucket"
    /\ bucket' = [bucket EXCEPT ![target] = None]
    /\ mpc' = "setDevice"
    /\ UNCHANGED <<info, alive, online, ips, old, connVars, target, new, updates,
                   repVars>>

(* ... the device limit, and a stricter one clears the online devices *)
SetDevice ==
    /\ mpc = "setDevice"
    /\ info' = [info EXCEPT ![target].device = new.device]
    /\ LET was == info[target].device IN
       mpc' = IF new.device > 0 /\ (was = 0 \/ new.device < was)
              THEN "dropOnline" ELSE "idle"
    /\ UNCHANGED <<alive, online, ips, old, bucket, connVars, target, new,
                   updates, repVars>>

DropOnline ==
    /\ mpc = "dropOnline"
    /\ online' = [online EXCEPT ![target] = None]
    /\ mpc' = "idle"
    /\ UNCHANGED <<info, alive, ips, old, bucket, connVars, target, new, updates,
                   repVars>>

(* UpdateUser, a deleted user: three maps one after the other *)
DeleteUser(u) ==
    /\ Update(u)
    /\ info[u] # None
    /\ info' = [info EXCEPT ![u] = None]
    /\ mpc' = "delOnline"
    /\ UNCHANGED <<alive, online, ips, old, bucket, connVars, new, repVars>>

DeleteOnline ==
    /\ mpc = "delOnline"
    /\ online' = [online EXCEPT ![target] = None]
    /\ mpc' = "delBucket"
    /\ UNCHANGED <<info, alive, ips, old, bucket, connVars, target, new, updates,
                   repVars>>

DeleteBucket ==
    /\ mpc = "delBucket"
    /\ bucket' = [bucket EXCEPT ![target] = None]
    /\ alive' = [alive EXCEPT ![target] = 0]
    /\ mpc' = "idle"
    /\ UNCHANGED <<info, online, ips, old, connVars, target, new, updates, repVars>>

(* UpdateUser, an added user *)
AddUser(u, l) ==
    /\ Update(u)
    /\ info[u] = None
    /\ info' = [info EXCEPT ![u] = l]
    /\ UNCHANGED <<alive, online, ips, old, bucket, connVars, mpc, new, repVars>>

SetAliveCountsSelf(u, n) ==
    /\ Update(u)
    /\ alive' = [alive EXCEPT ![u] = n + 1]
    /\ UNCHANGED <<info, online, ips, old, bucket, connVars, mpc, new, repVars>>

(* AliveList = newA, the panel's count of a user's devices on all nodes *)
SetAlive(u, n) ==
    /\ Update(u)
    /\ alive' = [alive EXCEPT ![u] = n]
    /\ UNCHANGED <<info, online, ips, old, bucket, connVars, mpc, new, repVars>>

Monitor ==
    \/ \E u \in Users, l \in Infos : SetSpeed(u, l) \/ AddUser(u, l)
    \/ \E u \in Users : DeleteUser(u) \/ \E n \in 0..MaxAlive : SetAlive(u, n)
    \/ DropBucket
    \/ SetDevice
    \/ DropOnline
    \/ DeleteOnline
    \/ DeleteBucket

-----------------------------------------------------------------------------
(* GetOnlineDevice: OldUserOnline starts empty ... *)
BeginReport ==
    /\ rpc = "idle"
    /\ reports < MaxReports
    /\ reports' = reports + 1
    /\ old' = [i \in IPs |-> None]
    /\ visit' = Users
    /\ rpc' = "range"
    /\ UNCHANGED <<info, alive, online, ips, bucket, connVars, monVars, visiting>>

(* ... the addresses of each user are remembered and reported ... *)
ReportUser(u) ==
    /\ rpc = "range" /\ visiting = None
    /\ u \in visit
    /\ visit' = visit \ {u}
    /\ IF online[u] = None
       THEN UNCHANGED <<old, visiting>>
       ELSE /\ old' = [i \in IPs |-> IF i \in ips[online[u]] THEN u ELSE old[i]]
            /\ visiting' = u
    /\ UNCHANGED <<info, alive, online, ips, bucket, connVars, monVars, rpc, reports>>

(* ... and then that user's entry is deleted. *)
ResetOnline ==
    /\ visiting # None
    /\ online' = [online EXCEPT ![visiting] = None]
    /\ visiting' = None
    /\ UNCHANGED <<info, alive, ips, old, bucket, connVars, monVars, rpc, visit,
                   reports>>

EndReport ==
    /\ rpc = "range" /\ visiting = None
    /\ visit = {}
    /\ rpc' = "idle"
    /\ UNCHANGED <<mapVars, connVars, monVars, visit, visiting, reports>>

Report ==
    \/ BeginReport
    \/ \E u \in Users : ReportUser(u)
    \/ ResetOnline
    \/ EndReport

Next ==
    \/ \E c \in Conns : CheckLimit(c)
    \/ Monitor
    \/ Report

Spec == Init /\ [][Next]_vars

-----------------------------------------------------------------------------
InFlight(c) == pc[c] \notin {"new", "admitted", "rejected"}

(* No connection is being checked, no update and no report is half done. *)
Quiet == mpc = "idle" /\ rpc = "idle" /\ \A c \in Conns : ~InFlight(c)

(* The addresses the next report would give for user u *)
OnlineIPs(u) == IF online[u] = None THEN {} ELSE ips[online[u]]

(* A device that was turned away is not counted as online afterwards: every *)
(* address kept for a user is that of an admitted connection, whatever      *)
(* checks, reports and updates overlapped (limiter.go 186-216).             *)
NoGhostDevice ==
    Quiet => \A u \in Users : \A i \in OnlineIPs(u) :
        \E c \in Conns : pc[c] = "admitted" /\ user[c] = u /\ ip[c] = i

(* A device that was let in is in the next report, also when other first    *)
(* connections of the user publish their address maps at the same time      *)
(* (limiter.go 186-193).  A rejected first connection drops the user's map  *)
(* as it is by then (line 212), and a report the addresses that were added  *)
(* behind its back (line 249): nothing is claimed after those.              *)
AdmittedIsCounted ==
    Quiet /\ updates = 0 /\ reports = 0 =>
        \A c \in Conns : pc[c] = "admitted" =>
            \/ ip[c] \in OnlineIPs(user[c])
            \/ \E d \in Conns : pc[d] = "rejected" /\ user[d] = user[c]

(* A user whose devices are at the limit, by the panel's count, gets no     *)
(* further device in: of connections from different addresses that are      *)
(* checked at the same time none is admitted, and whatever the monitor      *)
(* changes meanwhile (limiter.go 193-212).  An address is published before  *)
(* it is checked, so that another connection from the very same address may *)
(* pass while the first is being rejected; and an address that was online   *)
(* at the last report passes, so this is until the first one.               *)
FullUserStaysFull ==
    reports = 0 =>
        \A c \in Conns : pc[c] = "admitted" /\ devLimit[c] \in 1..aliveIp[c] =>
            \E d \in Conns \ {c} : user[d] = user[c] /\ ip[d] = ip[c]

(* All the connections of a user share one bucket, also the ones that find  *)
(* none at the same time, as long as the monitor does not change the user:  *)
(* otherwise each of them would get the full rate (limiter.go 219-231).     *)
SharedBucket ==
    updates = 0 =>
        \A c, d \in Conns :
            pc[c] = "admitted" /\ pc[d] = "admitted" /\ user[c] = user[d] =>
                got[c] = got[d]
=============================================================================
