---------------------------- MODULE LimiterProofs ----------------------------
(***************************************************************************)
(* Proofs about Limiter: the properties of run Limiter for any number of    *)
(* connections, users, addresses, limits, updates and reports.              *)
(***************************************************************************)
EXTENDS Limiter, TLAPS

(* A connection names its user and address from LoadInfo on; the map it     *)
(* works on is one that a connection of the same user has published.        *)
Published(m) == pc[m] \notin {"new", "online"}

ConnInv ==
    \A c \in Conns :
        /\ pc[c] # "new" => user[c] \in Users /\ ip[c] \in IPs
        /\ pc[c] \notin {"new", "online", "rejected"} =>
             /\ ipMap[c] \in Conns
             /\ user[ipMap[c]] = user[c] /\ Published(ipMap[c])

(* The map of a user is one that a connection of that user has published.   *)
OnlineInv ==
    \A u \in Users : online[u] # None =>
        user[online[u]] = u /\ Published(online[u])

(* The monitor only works on a user that exists, and before its first call  *)
(* it is idle.                                                              *)
MonitorInv ==
    /\ mpc # "idle" => target \in Users
    /\ mpc \in {"dropBucket", "setDevice"} => info[target] # None /\ new \in Infos
    /\ updates = 0 => mpc = "idle"

(* Before the first report no address is remembered.                        *)
ReportInv ==
    reports = 0 => rpc = "idle" /\ visiting = None /\ \A i \in IPs : old[i] = None

TypeInv == TypeOK /\ ConnInv /\ OnlineInv /\ MonitorInv /\ ReportInv

-----------------------------------------------------------------------------
(* The smaller of two limits is one of them.                                *)
LEMMA DeterminedIsOneOf ==
    ASSUME NEW a, NEW b
    PROVE  determineSpeedLimit(a, b) \in {a, b}
BY DEF determineSpeedLimit

(* The maps stay maps.                                                      *)
LEMMA MapTypesStep == TypeInv /\ [Next]_vars => MapTypes'
<1> SUFFICES ASSUME TypeInv, [Next]_vars PROVE MapTypes'
  OBVIOUS
<1> USE LimiterAssumption DEF TypeInv, TypeOK, MapTypes
<1>1. ASSUME NEW c \in Conns, CheckLimit(c) PROVE MapTypes'
  <2> USE DEF CheckTypes, ConnInv
  <2>1. CASE LoadOrStoreOnline(c)
    BY <2>1 DEF LoadOrStoreOnline
  <2>2. CASE LoadOrStoreIP(c)
    BY <2>2 DEF LoadOrStoreIP
  <2>3. CASE ForgetOld(c)
    BY <2>3 DEF ForgetOld
  <2>4. CASE UndoIP(c)
    BY <2>4 DEF UndoIP
  <2>5. CASE UndoAll(c)
    BY <2>5 DEF UndoAll
  <2>6. CASE LoadOrStoreBucket(c)
    BY <2>6 DEF LoadOrStoreBucket
  <2>7. CASE CheckOld(c) \/ LoadBucket(c) \/ \E u \in Users, i \in IPs : LoadInfo(c, u, i)
    BY <2>7 DEF CheckOld, LoadBucket, LoadInfo, mapVars
  <2> QED
    BY <1>1, <2>1, <2>2, <2>3, <2>4, <2>5, <2>6, <2>7 DEF CheckLimit
<1>2. CASE Monitor
  <2> USE DEF TaskTypes, MonitorInv, Infos
  <2>1. ASSUME NEW u \in Users, NEW l \in Infos, SetSpeed(u, l) PROVE MapTypes'
    BY <2>1 DEF SetSpeed, Update
  <2>2. ASSUME NEW u \in Users, NEW l \in Infos, AddUser(u, l) PROVE MapTypes'
    BY <2>2 DEF AddUser
  <2>3. ASSUME NEW u \in Users, DeleteUser(u) PROVE MapTypes'
    BY <2>3 DEF DeleteUser
  <2>4. ASSUME NEW u \in Users, NEW n \in 0..MaxAlive, SetAlive(u, n) PROVE MapTypes'
    BY <2>4 DEF SetAlive
  <2>5. CASE DropBucket \/ DropOnline \/ DeleteOnline
    BY <2>5 DEF DropBucket, DropOnline, DeleteOnline
  <2>6. CASE SetDevice
    BY <2>6 DEF SetDevice
  <2>7. CASE DeleteBucket
    BY <2>7 DEF DeleteBucket
  <2> QED
    BY <1>2, <2>1, <2>2, <2>3, <2>4, <2>5, <2>6, <2>7 DEF Monitor
<1>3. CASE Report
  BY <1>3 DEF Report, BeginReport, ReportUser, ResetOnline, EndReport, TaskTypes, mapVars
<1>4. CASE UNCHANGED vars
  BY <1>4 DEF vars, mapVars
<1> QED
  BY <1>1, <1>2, <1>3, <1>4 DEF Next

(* The locals of CheckLimit keep their types.                               *)
LEMMA CheckTypesStep == TypeInv /\ [Next]_vars => CheckTypes'
<1> SUFFICES ASSUME TypeInv, [Next]_vars PROVE CheckTypes'
  OBVIOUS
<1> USE LimiterAssumption DEF TypeInv, TypeOK, CheckTypes, Goto
<1>1. ASSUME NEW c \in Conns, CheckLimit(c) PROVE CheckTypes'
  <2> USE DEF MapTypes, ConnInv
  <2>1. ASSUME NEW u \in Users, NEW i \in IPs, LoadInfo(c, u, i) PROVE CheckTypes'
    <3>1. CASE info[u] = None
      BY <2>1, <3>1 DEF LoadInfo
    <3>2. CASE info[u] # None
      <4>1. info[u].speed \in Speeds /\ info[u].device \in Devices
        BY <3>2 DEF Infos
      <4>2. determineSpeedLimit(NodeSpeed, info[u].speed) \in Speeds \cup {0, NodeSpeed}
        BY <4>1, DeterminedIsOneOf
      <4> QED
        BY <2>1, <3>2, <4>1, <4>2 DEF LoadInfo
    <3> QED
      BY <3>1, <3>2
  <2>2. CASE LoadOrStoreOnline(c)
    BY <2>2 DEF LoadOrStoreOnline
  <2>3. CASE LoadOrStoreIP(c) \/ ForgetOld(c) \/ UndoIP(c) \/ UndoAll(c)
    BY <2>3 DEF LoadOrStoreIP, ForgetOld, UndoIP, UndoAll
  <2>4. CASE CheckOld(c)
    BY <2>4 DEF CheckOld
  <2>5. CASE LoadBucket(c)
    BY <2>5 DEF LoadBucket
  <2>6. CASE LoadOrStoreBucket(c)
    BY <2>6 DEF LoadOrStoreBucket
  <2> QED
    BY <1>1, <2>1, <2>2, <2>3, <2>4, <2>5, <2>6 DEF CheckLimit
<1>2. CASE Monitor
  BY <1>2 DEF Monitor, SetSpeed, AddUser, DeleteUser, SetAlive, DropBucket, SetDevice,
         DropOnline, DeleteOnline, DeleteBucket, connVars
<1>3. CASE Report
  BY <1>3 DEF Report, BeginReport, ReportUser, ResetOnline, EndReport, connVars
<1>4. CASE UNCHANGED vars
  BY <1>4 DEF vars, connVars
<1> QED
  BY <1>1, <1>2, <1>3, <1>4 DEF Next

(* So do those of the monitor and of the report, and the monitor's target   *)
(* stays a user whose limits it may change.                                 *)
LEMMA TaskStep == TypeInv /\ [Next]_vars => TaskTypes' /\ MonitorInv'
<1> SUFFICES ASSUME TypeInv, [Next]_vars PROVE TaskTypes' /\ MonitorInv'
  OBVIOUS
<1> USE LimiterAssumption DEF TypeInv, TypeOK, TaskTypes, MonitorInv, MapTypes
<1>1. ASSUME NEW c \in Conns, CheckLimit(c) PROVE TaskTypes' /\ MonitorInv'
  BY <1>1 DEF CheckLimit, LoadInfo, LoadOrStoreOnline, LoadOrStoreIP, CheckOld, ForgetOld,
         UndoIP, UndoAll, LoadBucket, LoadOrStoreBucket, mapVars, monVars, repVars
<1>2. CASE Monitor
  <2> USE DEF repVars
  <2>1. ASSUME NEW u \in Users, NEW l \in Infos, SetSpeed(u, l)
        PROVE  TaskTypes' /\ MonitorInv'
    <3>1. info'[u] # None
      BY <2>1 DEF SetSpeed, Update, Infos
    <3> QED
      BY <2>1, <3>1 DEF SetSpeed, Update
  <2>2. ASSUME NEW u \in Users, NEW l \in Infos, AddUser(u, l)
        PROVE  TaskTypes' /\ MonitorInv'
    BY <2>2 DEF AddUser, Update
  <2>3. ASSUME NEW u \in Users, DeleteUser(u) PROVE TaskTypes' /\ MonitorInv'
    BY <2>3 DEF DeleteUser, Update
  <2>4. ASSUME NEW u \in Users, NEW n \in 0..MaxAlive, SetAlive(u, n)
        PROVE  TaskTypes' /\ MonitorInv'
    BY <2>4 DEF SetAlive, Update
  <2>5. CASE DropBucket \/ DropOnline \/ DeleteOnline \/ DeleteBucket
    BY <2>5 DEF DropBucket, DropOnline, DeleteOnline, DeleteBucket
  <2>6. CASE SetDevice
    BY <2>6 DEF SetDevice
  <2> QED
    BY <1>2, <2>1, <2>2, <2>3, <2>4, <2>5, <2>6 DEF Monitor
<1>3. CASE Report
  BY <1>3 DEF Report, BeginReport, ReportUser, ResetOnline, EndReport, monVars, mapVars
<1>4. CASE UNCHANGED vars
  BY <1>4 DEF vars, monVars, repVars, mapVars
<1> QED
  BY <1>1, <1>2, <1>3, <1>4 DEF Next

(* A connection never changes its user and address once it has them, nor    *)
(* its map once it has got one.                                             *)
LEMMA ConnsPersist ==
    TypeInv /\ [Next]_vars =>
        \A d \in Conns :
            /\ pc[d] # "new" => pc'[d] # "new" /\ user'[d] = user[d] /\ ip'[d] = ip[d]
            /\ Published(d) => Published(d)' /\ ipMap'[d] = ipMap[d]
<1> SUFFICES ASSUME TypeInv, [Next]_vars, NEW d \in Conns
             PROVE  /\ pc[d] # "new" => /\ pc'[d] # "new" /\ user'[d] = user[d]
                                        /\ ip'[d] = ip[d]
                    /\ Published(d) => Published(d)' /\ ipMap'[d] = ipMap[d]
  OBVIOUS
<1> USE DEF TypeInv, TypeOK, CheckTypes, Published
<1>1. ASSUME NEW c \in Conns, CheckLimit(c)
      PROVE  /\ pc[d] # "new" => pc'[d] # "new" /\ user'[d] = user[d] /\ ip'[d] = ip[d]
             /\ Published(d) => Published(d)' /\ ipMap'[d] = ipMap[d]
  <2> USE DEF Goto
  <2>1. CASE \E u \in Users, i \in IPs : LoadInfo(c, u, i)
    BY <2>1 DEF LoadInfo
  <2>2. CASE LoadOrStoreOnline(c)
    BY <2>2 DEF LoadOrStoreOnline
  <2>3. CASE LoadOrStoreIP(c) \/ CheckOld(c) \/ ForgetOld(c) \/ UndoIP(c) \/ UndoAll(c)
    BY <2>3 DEF LoadOrStoreIP, CheckOld, ForgetOld, UndoIP, UndoAll
  <2>4. CASE LoadBucket(c) \/ LoadOrStoreBucket(c)
    BY <2>4 DEF LoadBucket, LoadOrStoreBucket
  <2> QED
    BY <1>1, <2>1, <2>2, <2>3, <2>4 DEF CheckLimit
<1>2. CASE Monitor
  BY <1>2 DEF Monitor, SetSpeed, AddUser, DeleteUser, SetAlive, DropBucket, SetDevice,
         DropOnline, DeleteOnline, DeleteBucket, connVars
<1>3. CASE Report
  BY <1>3 DEF Report, BeginReport, ReportUser, ResetOnline, EndReport, connVars
<1>4. CASE UNCHANGED vars
  BY <1>4 DEF vars, connVars
<1> QED
  BY <1>1, <1>2, <1>3, <1>4 DEF Next

(* Nobody but its own goroutine moves a call of CheckLimit on.              *)
LEMMA OnlyItself ==
    ASSUME TypeInv, [Next]_vars, NEW c \in Conns, pc'[c] # pc[c]
    PROVE  CheckLimit(c)
<1>1. PICK d \in Conns : CheckLimit(d)
  BY DEF Next, vars, Monitor, SetSpeed, AddUser, DeleteUser, SetAlive, DropBucket, SetDevice,
         DropOnline, DeleteOnline, DeleteBucket, Report, BeginReport, ReportUser,
         ResetOnline, EndReport, connVars
<1>2. \E l : Goto(d, l)
  BY <1>1 DEF CheckLimit, LoadInfo, LoadOrStoreOnline, LoadOrStoreIP, CheckOld, ForgetOld,
         UndoIP, UndoAll, LoadBucket, LoadOrStoreBucket
<1>3. d = c
  BY <1>2 DEF Goto, TypeInv, TypeOK, CheckTypes
<1> QED
  BY <1>1, <1>3

(* What a step adds to UserOnlineIP is the map of the connection that makes *)
(* it; everything else only takes entries out.                              *)
LEMMA OnlineStep ==
    TypeInv /\ [Next]_vars =>
        \A u \in Users :
            \/ online'[u] \in {online[u], None}
            \/ \E c \in Conns : /\ LoadOrStoreOnline(c) /\ user[c] = u
                                /\ online[u] = None /\ online'[u] = c
<1> SUFFICES ASSUME TypeInv, [Next]_vars, NEW u \in Users
             PROVE  \/ online'[u] \in {online[u], None}
                    \/ \E c \in Conns : /\ LoadOrStoreOnline(c) /\ user[c] = u
                                        /\ online[u] = None /\ online'[u] = c
  OBVIOUS
<1> USE DEF TypeInv, TypeOK, MapTypes
<1>1. ASSUME NEW c \in Conns, CheckLimit(c)
      PROVE  \/ online'[u] \in {online[u], None}
             \/ LoadOrStoreOnline(c) /\ user[c] = u /\ online[u] = None /\ online'[u] = c
  BY <1>1 DEF CheckLimit, LoadInfo, LoadOrStoreOnline, LoadOrStoreIP, CheckOld, ForgetOld,
         UndoIP, UndoAll, LoadBucket, LoadOrStoreBucket, mapVars
<1>2. CASE Monitor
  BY <1>2 DEF Monitor, SetSpeed, AddUser, DeleteUser, SetAlive, DropBucket, SetDevice,
         DropOnline, DeleteOnline, DeleteBucket
<1>3. CASE Report
  BY <1>3 DEF Report, BeginReport, ReportUser, ResetOnline, EndReport, mapVars
<1>4. CASE UNCHANGED vars
  BY <1>4 DEF vars, mapVars
<1> QED
  BY <1>1, <1>2, <1>3, <1>4 DEF Next

(* Maps are published by a connection of their user, and stay with it.      *)
LEMMA ConnStep == TypeInv /\ [Next]_vars => ConnInv' /\ OnlineInv'
<1> SUFFICES ASSUME TypeInv, [Next]_vars PROVE ConnInv' /\ OnlineInv'
  OBVIOUS
<1>1. \A d \in Conns :
        /\ pc[d] # "new" => pc'[d] # "new" /\ user'[d] = user[d] /\ ip'[d] = ip[d]
        /\ Published(d) => Published(d)' /\ ipMap'[d] = ipMap[d]
  BY ConnsPersist
<1>2. ASSUME NEW c \in Conns, LoadOrStoreOnline(c)
      PROVE  Published(c)' /\ user'[c] = user[c] /\ user[c] \in Users
  BY <1>2 DEF LoadOrStoreOnline, Goto, Published, TypeInv, TypeOK, CheckTypes, ConnInv
<1>3. ASSUME NEW u \in Users, online'[u] # None
      PROVE  user'[online'[u]] = u /\ pc'[online'[u]] \notin {"new", "online"}
  <2>1. CASE online'[u] = online[u]
    <3>1. online[u] \in Conns /\ user[online[u]] = u /\ Published(online[u])
      BY <1>3, <2>1 DEF TypeInv, TypeOK, MapTypes, OnlineInv
    <3> QED
      BY <1>1, <2>1, <3>1 DEF Published
  <2>2. CASE online'[u] # online[u]
    <3>1. PICK c \in Conns : LoadOrStoreOnline(c) /\ user[c] = u /\ online'[u] = c
      BY <1>3, <2>2, OnlineStep
    <3> QED
      BY <1>2, <3>1 DEF Published
  <2> QED
    BY <2>1, <2>2
<1>4. OnlineInv'
  BY <1>3 DEF OnlineInv, Published
<1>5. ASSUME NEW c \in Conns, pc'[c] # "new" PROVE user'[c] \in Users /\ ip'[c] \in IPs
  <2>1. CASE pc[c] # "new"
    BY <1>1, <2>1 DEF TypeInv, ConnInv
  <2>2. CASE pc[c] = "new"
    <3>1. PICK u \in Users, i \in IPs : LoadInfo(c, u, i)
      BY <1>5, <2>2, OnlyItself DEF CheckLimit, LoadOrStoreOnline, LoadOrStoreIP, CheckOld,
             ForgetOld, UndoIP, UndoAll, LoadBucket, LoadOrStoreBucket
    <3> QED
      BY <3>1 DEF LoadInfo, TypeInv, TypeOK, CheckTypes
  <2> QED
    BY <2>1, <2>2
<1>6. ASSUME NEW c \in Conns, pc'[c] \notin {"new", "online", "rejected"}
      PROVE  /\ ipMap'[c] \in Conns /\ user'[ipMap'[c]] = user'[c]
             /\ pc'[ipMap'[c]] \notin {"new", "online"}
  <2>1. CASE pc[c] \notin {"new", "online", "rejected"}
    <3>1. ipMap[c] \in Conns /\ user[ipMap[c]] = user[c] /\ Published(ipMap[c])
      BY <2>1 DEF TypeInv, ConnInv
    <3> QED
      BY <1>1, <2>1, <3>1 DEF Published
  <2>2. CASE pc[c] \in {"new", "online", "rejected"}
    <3>1. LoadOrStoreOnline(c)
      <4>1. CheckLimit(c)
        BY <1>6, <2>2, OnlyItself
      <4>2. ASSUME NEW u \in Users, NEW i \in IPs, LoadInfo(c, u, i) PROVE FALSE
        BY <1>6, <4>2 DEF LoadInfo, Goto, TypeInv, TypeOK, CheckTypes
      <4> QED
        BY <2>2, <4>1, <4>2 DEF CheckLimit, LoadOrStoreIP, CheckOld, ForgetOld, UndoIP,
               UndoAll, LoadBucket, LoadOrStoreBucket
    <3>2. Published(c)' /\ user'[c] = user[c] /\ user[c] \in Users
      BY <1>2, <3>1
    <3>3. CASE online[user[c]] = None
      BY <3>1, <3>2, <3>3 DEF LoadOrStoreOnline, Published, TypeInv, TypeOK, CheckTypes
    <3>4. CASE online[user[c]] # None
      <4>1. /\ online[user[c]] \in Conns /\ user[online[user[c]]] = user[c]
            /\ Published(online[user[c]])
        BY <3>2, <3>4 DEF TypeInv, TypeOK, MapTypes, OnlineInv
      <4>2. ipMap'[c] = online[user[c]]
        BY <3>1, <3>4 DEF LoadOrStoreOnline, TypeInv, TypeOK, CheckTypes
      <4> QED
        BY <1>1, <3>2, <4>1, <4>2 DEF Published
    <3> QED
      BY <3>3, <3>4
  <2> QED
    BY <2>1, <2>2
<1> QED
  BY <1>4, <1>5, <1>6 DEF ConnInv, Published

(* Before the first report the old addresses stay empty.                    *)
LEMMA ReportStep == TypeInv /\ [Next]_vars => ReportInv'
<1> SUFFICES ASSUME TypeInv, [Next]_vars PROVE ReportInv'
  OBVIOUS
<1> USE LimiterAssumption DEF TypeInv, TypeOK, MapTypes, TaskTypes, ReportInv
<1>1. ASSUME NEW c \in Conns, CheckLimit(c) PROVE ReportInv'
  <2>1. CASE ForgetOld(c)
    BY <2>1 DEF ForgetOld, repVars
  <2>2. CASE ~ForgetOld(c)
    BY <1>1, <2>2 DEF CheckLimit, LoadInfo, LoadOrStoreOnline, LoadOrStoreIP, CheckOld,
           UndoIP, UndoAll, LoadBucket, LoadOrStoreBucket, mapVars, repVars
  <2> QED
    BY <2>1, <2>2
<1>2. CASE Monitor
  BY <1>2 DEF Monitor, SetSpeed, AddUser, DeleteUser, SetAlive, DropBucket, SetDevice,
         DropOnline, DeleteOnline, DeleteBucket, repVars
<1>3. CASE Report
  BY <1>3 DEF Report, BeginReport, ReportUser, ResetOnline, EndReport
<1>4. CASE UNCHANGED vars
  BY <1>4 DEF vars, mapVars, repVars
<1> QED
  BY <1>1, <1>2, <1>3, <1>4 DEF Next

LEMMA TypeInvAlways == Spec => []TypeInv
<1>1. Init => TypeInv
  <2> SUFFICES ASSUME Init PROVE TypeInv
    OBVIOUS
  <2> USE LimiterAssumption DEF Init
  <2>1. MapTypes
    BY DEF MapTypes
  <2>2. CheckTypes
    BY DEF CheckTypes
  <2>3. TaskTypes
    BY DEF TaskTypes
  <2>4. ConnInv /\ OnlineInv
    BY DEF ConnInv, OnlineInv
  <2>5. MonitorInv /\ ReportInv
    BY DEF MonitorInv, ReportInv
  <2> QED
    BY <2>1, <2>2, <2>3, <2>4, <2>5 DEF TypeInv, TypeOK
<1>2. TypeInv /\ [Next]_vars => TypeInv'
  BY MapTypesStep, CheckTypesStep, TaskStep, ConnStep, ReportStep DEF TypeInv, TypeOK
<1> QED
  BY <1>1, <1>2, PTL DEF Spec

(* The maps and locals of the limiter have their types, whatever calls of   *)
(* CheckLimit, updates and reports overlap; a bucket has the rate of the    *)
(* node or of a user (limiter.go 157-234).                                  *)
THEOREM LimiterTypeCorrect == Spec => []TypeOK
<1>1. TypeInv => TypeOK
  BY DEF TypeInv
<1> QED
  BY <1>1, TypeInvAlways, PTL

-----------------------------------------------------------------------------
(* As long as the monitor has changed nothing, the connections of a user    *)
(* compute the same rate, and those admitted have the bucket that is in     *)
(* SpeedLimiter.                                                            *)
BucketInv ==
    updates = 0 =>
        \A c \in Conns :
            /\ pc[c] \notin {"new", "rejected"} =>
                 /\ info[user[c]] # None
                 /\ speed[c] = determineSpeedLimit(NodeSpeed, info[user[c]].speed)
            /\ pc[c] = "admitted" =>
                 IF speed[c] = 0 THEN got[c] = None
                                 ELSE got[c] # None /\ got[c] = bucket[user[c]]
            /\ pc[c] = "store" => speed[c] # 0

(* A connection that has entered its address in its map and not taken it    *)
(* out again                                                                *)
Entered(d) == pc[d] \notin {"new", "online", "addIP", "rejected"}

(* An address in the map of a user was entered there by a connection that   *)
(* has not been rejected (yet).                                             *)
HolderInv ==
    \A u \in Users : online[u] # None =>
        \A i \in ips[online[u]] :
            \E d \in Conns : Entered(d) /\ ipMap[d] = online[u] /\ user[d] = u /\ ip[d] = i

(* An address in a map, also in one that is no longer its user's, was       *)
(* entered by a connection that has gone on to its device check.            *)
AddressInv ==
    \A m \in Conns : \A i \in ips[m] :
        /\ Published(m)
        /\ \E d \in Conns : /\ pc[d] \notin {"new", "online", "addIP"}
                            /\ user[d] = user[m] /\ ip[d] = i

(* Before the first report who passes in spite of a reached device limit    *)
(* has found its address in the map.                                        *)
FullInv ==
    reports = 0 =>
        \A c \in Conns :
            /\ pc[c] # "forget"
            /\ pc[c] \in {"bucket", "store", "admitted"} /\ devLimit[c] \in 1..aliveIp[c] =>
                 \E d \in Conns \ {c} : pc[d] # "new" /\ user[d] = user[c] /\ ip[d] = ip[c]

(* Before the first report and change, a connection works on the map that   *)
(* will be reported and has its address in it, or one of its user has been  *)
(* rejected.                                                                *)
CountedInv ==
    updates = 0 /\ reports = 0 =>
        \A c \in Conns : pc[c] \notin {"new", "online", "rejected"} =>
            \/ /\ online[user[c]] = ipMap[c]
               /\ pc[c] # "addIP" => ip[c] \in ips[ipMap[c]]
            \/ \E d \in Conns : pc[d] = "rejected" /\ user[d] = user[c]

LimiterInv == TypeInv /\ BucketInv /\ HolderInv /\ AddressInv /\ FullInv /\ CountedInv

(* Before its first call the monitor does nothing.                          *)
LEMMA NoUpdateYet ==
    ASSUME TypeInv, [Next]_vars, updates' = 0
    PROVE  updates = 0 /\ ~Monitor /\ UNCHANGED info
<1> USE DEF TypeInv, TypeOK, TaskTypes, MonitorInv
<1>1. ~Monitor
  BY DEF Monitor, SetSpeed, AddUser, DeleteUser, SetAlive, Update, DropBucket, SetDevice,
         DropOnline, DeleteOnline, DeleteBucket
<1>2. CASE \E c \in Conns : CheckLimit(c)
  BY <1>1, <1>2 DEF CheckLimit, LoadInfo, LoadOrStoreOnline, LoadOrStoreIP, CheckOld,
         ForgetOld, UndoIP, UndoAll, LoadBucket, LoadOrStoreBucket, mapVars, monVars
<1>3. CASE Report
  BY <1>1, <1>3 DEF Report, BeginReport, ReportUser, ResetOnline, EndReport, mapVars, monVars
<1>4. CASE UNCHANGED vars
  BY <1>1, <1>4 DEF vars, mapVars, monVars
<1> QED
  BY <1>1, <1>2, <1>3, <1>4 DEF Next

(* A connection whose goroutine does not move keeps its locals.             *)
LEMMA OthersKeepLocals ==
    ASSUME TypeInv, [Next]_vars, NEW c \in Conns
    PROVE  \/ CheckLimit(c)
           \/ /\ pc'[c] = pc[c] /\ user'[c] = user[c] /\ ip'[c] = ip[c]
              /\ devLimit'[c] = devLimit[c] /\ speed'[c] = speed[c]
              /\ aliveIp'[c] = aliveIp[c] /\ ipMap'[c] = ipMap[c] /\ got'[c] = got[c]
<1>1. ASSUME NEW d \in Conns, CheckLimit(d), d # c
      PROVE  /\ pc'[c] = pc[c] /\ user'[c] = user[c] /\ ip'[c] = ip[c]
             /\ devLimit'[c] = devLimit[c] /\ speed'[c] = speed[c]
             /\ aliveIp'[c] = aliveIp[c] /\ ipMap'[c] = ipMap[c] /\ got'[c] = got[c]
  BY <1>1 DEF CheckLimit, LoadInfo, LoadOrStoreOnline, LoadOrStoreIP, CheckOld, ForgetOld,
         UndoIP, UndoAll, LoadBucket, LoadOrStoreBucket, Goto, TypeInv, TypeOK, CheckTypes
<1>2. CASE Monitor
  BY <1>2 DEF Monitor, SetSpeed, AddUser, DeleteUser, SetAlive, DropBucket, SetDevice,
         DropOnline, DeleteOnline, DeleteBucket, connVars
<1>3. CASE Report
  BY <1>3 DEF Report, BeginReport, ReportUser, ResetOnline, EndReport, connVars
<1>4. CASE UNCHANGED vars
  BY <1>4 DEF vars, connVars
<1> QED
  BY <1>1, <1>2, <1>3, <1>4 DEF Next

(* As long as the monitor changes nothing, a bucket stays where it is.      *)
LEMMA BucketsStay ==
    ASSUME TypeInv, [Next]_vars, updates' = 0, NEW u \in Users, bucket[u] # None
    PROVE  bucket'[u] = bucket[u]
<1>1. CASE \E c \in Conns : CheckLimit(c)
  BY <1>1 DEF CheckLimit, LoadInfo, LoadOrStoreOnline, LoadOrStoreIP, CheckOld,
         ForgetOld, UndoIP, UndoAll, LoadBucket, LoadOrStoreBucket, mapVars,
         TypeInv, TypeOK, MapTypes
<1>2. CASE Report
  BY <1>2 DEF Report, BeginReport, ReportUser, ResetOnline, EndReport, mapVars
<1>3. CASE UNCHANGED vars
  BY <1>3 DEF vars, mapVars
<1> QED
  BY <1>1, <1>2, <1>3, NoUpdateYet DEF Next

(* One step keeps the buckets shared.                                       *)
LEMMA BucketStep == LimiterInv /\ [Next]_vars => BucketInv'
<1> SUFFICES ASSUME LimiterInv, [Next]_vars, updates' = 0, NEW c \in Conns
             PROVE  /\ pc'[c] \notin {"new", "rejected"} =>
                         /\ info'[user'[c]] # None
                         /\ speed'[c] = determineSpeedLimit(NodeSpeed, info'[user'[c]].speed)
                    /\ pc'[c] = "admitted" =>
                         IF speed'[c] = 0
                         THEN got'[c] = None
                         ELSE got'[c] # None /\ got'[c] = bucket'[user'[c]]
                    /\ pc'[c] = "store" => speed'[c] # 0
  BY DEF BucketInv
<1>1. TypeInv /\ updates = 0 /\ info' = info
  BY NoUpdateYet DEF LimiterInv
<1>2. /\ pc[c] \notin {"new", "rejected"} =>
           /\ info[user[c]] # None
           /\ speed[c] = determineSpeedLimit(NodeSpeed, info[user[c]].speed)
      /\ pc[c] = "admitted" =>
           IF speed[c] = 0 THEN got[c] = None
                           ELSE got[c] # None /\ got[c] = bucket[user[c]]
      /\ pc[c] = "store" => speed[c] # 0
      /\ pc[c] # "new" => user[c] \in Users
  BY <1>1 DEF LimiterInv, BucketInv, TypeInv, ConnInv
<1>3. CASE ~CheckLimit(c)
  <2>1. /\ pc'[c] = pc[c] /\ user'[c] = user[c] /\ speed'[c] = speed[c] /\ got'[c] = got[c]
    BY <1>1, <1>3, OthersKeepLocals
  <2>2. pc[c] = "admitted" /\ speed[c] # 0 => bucket'[user[c]] = bucket[user[c]]
    BY <1>1, <1>2, BucketsStay
  <2> QED
    BY <1>1, <1>2, <2>1, <2>2
<1>4. CASE CheckLimit(c)
  <2> USE DEF TypeInv, TypeOK, CheckTypes, MapTypes, Goto
  <2>1. ASSUME NEW u \in Users, NEW i \in IPs, LoadInfo(c, u, i)
        PROVE  /\ pc'[c] \notin {"store", "admitted"} /\ user'[c] = u
               /\ pc'[c] # "rejected" =>
                    /\ info[u] # None
                    /\ speed'[c] = determineSpeedLimit(NodeSpeed, info[u].speed)
    BY <1>1, <2>1 DEF LoadInfo
  <2>2. CASE \/ LoadOrStoreOnline(c) \/ LoadOrStoreIP(c) \/ CheckOld(c)
             \/ ForgetOld(c) \/ UndoIP(c) \/ UndoAll(c)
    <3>1. /\ pc[c] \notin {"new", "rejected"} /\ pc'[c] \notin {"store", "admitted"}
          /\ user' = user /\ speed' = speed
      BY <1>1, <2>2 DEF LoadOrStoreOnline, LoadOrStoreIP, CheckOld, ForgetOld, UndoIP, UndoAll
    <3> QED
      BY <1>1, <1>2, <3>1
  <2>3. CASE LoadBucket(c)
    <3>1. pc[c] = "bucket" /\ user' = user /\ speed' = speed /\ bucket' = bucket
      BY <2>3 DEF LoadBucket, mapVars
    <3>2. /\ pc'[c] = "admitted" => IF speed[c] = 0 THEN got'[c] = None
                                    ELSE got'[c] # None /\ got'[c] = bucket[user[c]]
          /\ pc'[c] = "store" => speed[c] # 0
      BY <1>1, <2>3 DEF LoadBucket
    <3> QED
      BY <1>1, <1>2, <3>1, <3>2
  <2>4. CASE LoadOrStoreBucket(c)
    <3>1. pc[c] = "store" /\ user' = user /\ speed' = speed /\ user[c] \in Users
      BY <1>2, <2>4 DEF LoadOrStoreBucket
    <3>2. pc'[c] = "admitted" /\ got'[c] = bucket'[user[c]] /\ bucket'[user[c]] # None
      BY <1>1, <2>4, <3>1, LimiterAssumption DEF LoadOrStoreBucket
    <3> QED
      BY <1>1, <1>2, <3>1, <3>2
  <2> QED
    BY <1>1, <1>4, <2>1, <2>2, <2>3, <2>4 DEF CheckLimit
<1> QED
  BY <1>3, <1>4

(* The map of a user holds the addresses of connections that are not        *)
(* rejected: a rejected one takes its address out in the step that rejects  *)
(* it, or the whole map.                                                    *)
LEMMA HolderStep == LimiterInv /\ [Next]_vars => HolderInv'
<1> SUFFICES ASSUME LimiterInv, [Next]_vars, NEW u \in Users, online'[u] # None,
                    NEW i \in ips'[online'[u]]
             PROVE  \E d \in Conns : /\ Entered(d)' /\ ipMap'[d] = online'[u]
                                     /\ user'[d] = u /\ ip'[d] = i
  BY DEF HolderInv, Entered
<1>1. TypeInv /\ TypeOK /\ online[u] \in Conns \cup {None}
  BY DEF LimiterInv, TypeInv, TypeOK, MapTypes
<1> DEFINE m == online[u]
<1>2. ASSUME NEW d \in Conns, Entered(d), ipMap[d] = m, user[d] = u, ip[d] = i,
             online'[u] = m, pc'[d] # "rejected"
      PROVE  \E e \in Conns : /\ Entered(e)' /\ ipMap'[e] = online'[u]
                              /\ user'[e] = u /\ ip'[e] = i
  <2>1. user'[d] = u /\ ip'[d] = i /\ ipMap'[d] = m
    BY <1>1, <1>2, ConnsPersist DEF Entered, Published
  <2>2. Entered(d)'
    <3>1. CASE ~CheckLimit(d)
      BY <1>1, <1>2, <3>1, OthersKeepLocals DEF Entered
    <3>2. CASE CheckLimit(d)
      BY <1>1, <1>2, <3>2 DEF Entered, CheckLimit, LoadInfo, LoadOrStoreOnline,
             LoadOrStoreIP, CheckOld, ForgetOld, UndoIP, UndoAll, LoadBucket,
             LoadOrStoreBucket, Goto, TypeOK, CheckTypes
    <3> QED
      BY <3>1, <3>2
  <2> QED
    BY <1>2, <2>1, <2>2
<1>3. ASSUME m # None, i \in ips[m]
      PROVE  \E d \in Conns : Entered(d) /\ ipMap[d] = m /\ user[d] = u /\ ip[d] = i
  BY <1>3 DEF LimiterInv, HolderInv
<1>4. CASE online'[u] # m
  <2>1. PICK c \in Conns : /\ LoadOrStoreOnline(c) /\ user[c] = u
                           /\ online[u] = None /\ online'[u] = c
    BY <1>1, <1>4, OnlineStep
  <2>2. /\ ips'[c] = {ip[c]} /\ pc'[c] = "oldFresh" /\ ipMap'[c] = c
        /\ user'[c] = u /\ ip'[c] = ip[c]
    BY <1>1, <2>1 DEF LoadOrStoreOnline, Goto, TypeOK, CheckTypes, MapTypes
  <2> QED
    BY <2>1, <2>2 DEF Entered
<1>5. CASE online'[u] = m /\ i \in ips[m]
  <2>1. PICK d \in Conns : Entered(d) /\ ipMap[d] = m /\ user[d] = u /\ ip[d] = i
    BY <1>3, <1>5
  <2>2. pc'[d] # "rejected"
    <3>1. SUFFICES ASSUME pc'[d] = "rejected" PROVE FALSE
      OBVIOUS
    <3>2. UndoIP(d) \/ UndoAll(d)
      <4>1. CheckLimit(d)
        BY <1>1, <2>1, <3>1, OnlyItself DEF Entered
      <4> QED
        BY <1>1, <2>1, <3>1, <4>1 DEF CheckLimit, LoadInfo, LoadOrStoreOnline, LoadOrStoreIP,
               CheckOld, ForgetOld, LoadBucket, LoadOrStoreBucket, Goto, Entered,
               TypeOK, CheckTypes
    <3>3. CASE UndoIP(d)
      BY <1>1, <1>5, <2>1, <3>3 DEF UndoIP, TypeOK, MapTypes
    <3>4. CASE UndoAll(d)
      BY <1>1, <1>5, <2>1, <3>4 DEF UndoAll, TypeOK, MapTypes
    <3> QED
      BY <3>2, <3>3, <3>4
  <2> QED
    BY <1>2, <1>5, <2>1, <2>2
<1>6. CASE online'[u] = m /\ i \notin ips[m]
  <2>1. m \in Conns
    BY <1>1, <1>6
  <2>2. PICK c \in Conns : CheckLimit(c) /\ ips' # ips
    BY <1>1, <1>6, <2>1 DEF Next, vars, Monitor, SetSpeed, AddUser, DeleteUser, SetAlive,
           DropBucket, SetDevice, DropOnline, DeleteOnline, DeleteBucket, Report,
           BeginReport, ReportUser, ResetOnline, EndReport, mapVars
  <2>3. LoadOrStoreOnline(c) \/ LoadOrStoreIP(c) \/ UndoIP(c)
    BY <2>2 DEF CheckLimit, LoadInfo, CheckOld, ForgetOld, UndoAll, LoadBucket,
           LoadOrStoreBucket, mapVars
  <2>4. CASE UndoIP(c)
    BY <1>1, <1>6, <2>1, <2>4 DEF UndoIP, TypeOK, MapTypes
  <2>5. CASE LoadOrStoreOnline(c)
    <3>1. c = m
      BY <1>1, <1>6, <2>1, <2>5 DEF LoadOrStoreOnline, TypeOK, MapTypes
    <3>2. Published(m)
      BY <1>1, <2>1, LimiterAssumption DEF TypeInv, OnlineInv
    <3> QED
      BY <2>5, <3>1, <3>2 DEF LoadOrStoreOnline, Published
  <2>6. CASE LoadOrStoreIP(c)
    <3>1. c \in Conns /\ ipMap[c] = m /\ ip[c] = i /\ i \notin ips[ipMap[c]]
      BY <1>1, <1>6, <2>1, <2>6 DEF LoadOrStoreIP, TypeOK, MapTypes
    <3>2. user[c] = user[m] /\ user[m] = u
      BY <1>1, <2>1, <2>6, <3>1, LimiterAssumption DEF LoadOrStoreIP, TypeInv, ConnInv, OnlineInv
    <3>3. pc'[c] = "oldShared" /\ UNCHANGED <<user, ip, ipMap>>
      BY <1>1, <2>6, <3>1 DEF LoadOrStoreIP, Goto, TypeOK, CheckTypes
    <3> QED
      BY <1>6, <3>1, <3>2, <3>3 DEF Entered
  <2> QED
    BY <2>3, <2>4, <2>5, <2>6
<1> QED
  BY <1>4, <1>5, <1>6

(* What a step adds to an address map is the address of the connection that *)
(* makes it, and only a check that fails takes one out.                     *)
LEMMA AddressChange ==
    ASSUME TypeInv, [Next]_vars, NEW m \in Conns, NEW i \in ips'[m], i \notin ips[m]
    PROVE  \E c \in Conns : /\ ip[c] = i
                            /\ \/ LoadOrStoreOnline(c) /\ m = c
                               \/ LoadOrStoreIP(c) /\ m = ipMap[c]
<1> USE DEF TypeInv, TypeOK, MapTypes
<1>1. PICK c \in Conns : CheckLimit(c) /\ ips' # ips
  BY DEF Next, vars, Monitor, SetSpeed, AddUser, DeleteUser, SetAlive,
         DropBucket, SetDevice, DropOnline, DeleteOnline, DeleteBucket, Report,
         BeginReport, ReportUser, ResetOnline, EndReport, mapVars
<1>2. LoadOrStoreOnline(c) \/ LoadOrStoreIP(c) \/ UndoIP(c)
  BY <1>1 DEF CheckLimit, LoadInfo, CheckOld, ForgetOld, UndoAll, LoadBucket,
         LoadOrStoreBucket, mapVars
<1>3. CASE UndoIP(c)
  BY <1>3 DEF UndoIP
<1>4. CASE LoadOrStoreOnline(c)
  <2>1. m = c /\ ip[c] = i
    BY <1>4 DEF LoadOrStoreOnline
  <2> QED
    BY <1>4, <2>1
<1>5. CASE LoadOrStoreIP(c)
  <2>1. m = ipMap[c] /\ ip[c] = i
    BY <1>5 DEF LoadOrStoreIP
  <2> QED
    BY <1>5, <2>1
<1> QED
  BY <1>2, <1>3, <1>4, <1>5

(* Every address in a map was entered by a connection of the map's user.    *)
LEMMA AddressStep == LimiterInv /\ [Next]_vars => AddressInv'
<1> SUFFICES ASSUME LimiterInv, [Next]_vars, NEW m \in Conns, NEW i \in ips'[m]
             PROVE  /\ Published(m)'
                    /\ \E d \in Conns : /\ pc'[d] \notin {"new", "online", "addIP"}
                                        /\ user'[d] = user'[m] /\ ip'[d] = i
  BY DEF AddressInv, Published
<1>1. TypeInv
  BY DEF LimiterInv
<1>2. \A d \in Conns :
        /\ pc[d] # "new" => pc'[d] # "new" /\ user'[d] = user[d] /\ ip'[d] = ip[d]
        /\ Published(d) => Published(d)' /\ ipMap'[d] = ipMap[d]
  BY <1>1, ConnsPersist
<1>3. CASE i \in ips[m]
  <2>1. PICK d \in Conns : /\ pc[d] \notin {"new", "online", "addIP"}
                           /\ user[d] = user[m] /\ ip[d] = i
    BY <1>3 DEF LimiterInv, AddressInv
  <2>2. Published(m)
    BY <1>3 DEF LimiterInv, AddressInv
  <2>3. pc'[d] \notin {"new", "online", "addIP"}
    <3>1. CASE ~CheckLimit(d)
      BY <1>1, <2>1, <3>1, OthersKeepLocals
    <3>2. CASE CheckLimit(d)
      BY <1>1, <2>1, <3>2 DEF CheckLimit, LoadInfo, LoadOrStoreOnline, LoadOrStoreIP,
             CheckOld, ForgetOld, UndoIP, UndoAll, LoadBucket, LoadOrStoreBucket, Goto,
             TypeInv, TypeOK, CheckTypes
    <3> QED
      BY <3>1, <3>2
  <2> QED
    BY <1>2, <2>1, <2>2, <2>3 DEF Published
<1>4. CASE i \notin ips[m]
  <2>1. PICK c \in Conns : /\ ip[c] = i
                           /\ \/ LoadOrStoreOnline(c) /\ m = c
                              \/ LoadOrStoreIP(c) /\ m = ipMap[c]
    BY <1>1, <1>4, AddressChange
  <2>2. pc[c] # "new"
    BY <2>1 DEF LoadOrStoreOnline, LoadOrStoreIP
  <2>3. CASE LoadOrStoreOnline(c) /\ m = c
    <3>1. pc'[c] \notin {"new", "online", "addIP"}
      BY <1>1, <1>4, <2>3 DEF LoadOrStoreOnline, Goto, TypeInv, TypeOK, CheckTypes
    <3> QED
      BY <1>2, <2>1, <2>2, <2>3, <3>1 DEF Published
  <2>4. CASE LoadOrStoreIP(c) /\ m = ipMap[c]
    <3>1. pc'[c] \in {"bucket", "oldShared"}
      BY <1>1, <2>4 DEF LoadOrStoreIP, Goto, TypeInv, TypeOK, CheckTypes
    <3>2. user[m] = user[c] /\ Published(m)
      BY <1>1, <2>4 DEF LoadOrStoreIP, TypeInv, ConnInv
    <3> QED
      BY <1>2, <2>1, <2>2, <3>1, <3>2 DEF Published
  <2> QED
    BY <2>1, <2>3, <2>4
<1> QED
  BY <1>3, <1>4

(* Before the first report a connection at its device limit passes only if  *)
(* its address is in the map already, and then by another connection.       *)
LEMMA FullStep == LimiterInv /\ [Next]_vars => FullInv'
<1> DEFINE Twin(c, d) == pc[d] # "new" /\ user[d] = user[c] /\ ip[d] = ip[c]
<1> SUFFICES ASSUME LimiterInv, [Next]_vars, reports' = 0, NEW c \in Conns
             PROVE  /\ pc'[c] # "forget"
                    /\ pc'[c] \in {"bucket", "store", "admitted"} =>
                         (devLimit'[c] \in 1..aliveIp'[c] =>
                            \E d \in Conns \ {c} : Twin(c, d)')
  BY DEF FullInv
<1>1. TypeInv
  BY DEF LimiterInv
<1>2. reports = 0 /\ \A j \in IPs : old[j] = None
  <2>1. reports = 0
    <3>1. CASE \E d \in Conns : CheckLimit(d)
      BY <3>1 DEF CheckLimit, LoadInfo, LoadOrStoreOnline, LoadOrStoreIP, CheckOld,
             ForgetOld, UndoIP, UndoAll, LoadBucket, LoadOrStoreBucket, repVars
    <3>2. CASE Monitor
      BY <3>2 DEF Monitor, SetSpeed, AddUser, DeleteUser, SetAlive, DropBucket, SetDevice,
             DropOnline, DeleteOnline, DeleteBucket, repVars
    <3>3. CASE Report \/ UNCHANGED vars
      BY <1>1, <3>3 DEF Report, BeginReport, ReportUser, ResetOnline, EndReport, vars,
             repVars, TypeInv, TypeOK, TaskTypes
    <3> QED
      BY <3>1, <3>2, <3>3 DEF Next
  <2> QED
    BY <1>1, <2>1 DEF TypeInv, ReportInv
<1>3. /\ pc[c] # "forget"
      /\ pc[c] \in {"bucket", "store", "admitted"} =>
           (devLimit[c] \in 1..aliveIp[c] => \E d \in Conns \ {c} : Twin(c, d))
  BY <1>2 DEF LimiterInv, FullInv
<1>4. ASSUME pc[c] # "new", NEW d \in Conns, Twin(c, d) PROVE Twin(c, d)'
  BY <1>1, <1>4, ConnsPersist
<1>5. CASE ~CheckLimit(c)
  <2>1. pc'[c] = pc[c] /\ devLimit'[c] = devLimit[c] /\ aliveIp'[c] = aliveIp[c]
    BY <1>1, <1>5, OthersKeepLocals
  <2> QED
    BY <1>3, <1>4, <2>1
<1>6. CASE CheckLimit(c)
  <2> USE DEF TypeInv, TypeOK, CheckTypes, Goto
  <2>1. CASE (\E u \in Users, i \in IPs : LoadInfo(c, u, i)) \/ LoadOrStoreOnline(c)
    BY <1>1, <2>1 DEF LoadInfo, LoadOrStoreOnline
  <2>2. CASE LoadOrStoreIP(c)
    <3>1. pc'[c] \in {"bucket", "oldShared"} /\ pc[c] = "addIP"
      BY <1>1, <2>2 DEF LoadOrStoreIP
    <3>2. CASE ip[c] \in ips[ipMap[c]]
      <4>1. ipMap[c] \in Conns /\ user[ipMap[c]] = user[c]
        BY <1>1, <3>1 DEF ConnInv
      <4>2. PICK d \in Conns : /\ pc[d] \notin {"new", "online", "addIP"}
                               /\ user[d] = user[ipMap[c]] /\ ip[d] = ip[c]
        BY <3>2, <4>1 DEF LimiterInv, AddressInv
      <4>3. d # c /\ Twin(c, d)
        BY <3>1, <4>1, <4>2
      <4> QED
        BY <1>4, <3>1, <4>3
    <3>3. CASE ip[c] \notin ips[ipMap[c]]
      BY <1>1, <2>2, <3>3 DEF LoadOrStoreIP
    <3> QED
      BY <3>2, <3>3
  <2>3. CASE CheckOld(c)
    <3>1. ip[c] \in IPs /\ user[c] \in Users /\ old[ip[c]] = None
      BY <1>1, <1>2, <2>3 DEF CheckOld, ConnInv
    <3>2. old[ip[c]] # user[c]
      BY <3>1, LimiterAssumption
    <3>3. pc'[c] = IF ~OverLimit(c) THEN "bucket"
                   ELSE IF pc[c] = "oldShared" THEN "undoIP" ELSE "undoAll"
      BY <1>1, <2>3, <3>1, <3>2 DEF CheckOld
    <3>4. devLimit' = devLimit /\ aliveIp' = aliveIp
      BY <2>3 DEF CheckOld
    <3>5. devLimit[c] \in Nat /\ aliveIp[c] \in Nat
      <4>1. devLimit[c] \in Devices \cup {0} /\ aliveIp[c] \in 0..MaxAlive
        BY <1>1
      <4>2. \A n \in Devices \cup {0} : n \in Nat
        BY LimiterAssumption
      <4>3. \A n \in 0..MaxAlive : n \in Nat
        OBVIOUS
      <4> QED
        BY <4>1, <4>2, <4>3, Zenon
    <3>6. ~OverLimit(c) => devLimit[c] \notin 1..aliveIp[c]
      BY <3>5 DEF OverLimit
    <3> QED
      BY <3>3, <3>4, <3>6
  <2>4. CASE ForgetOld(c) \/ UndoIP(c) \/ UndoAll(c)
    BY <1>1, <1>3, <2>4 DEF ForgetOld, UndoIP, UndoAll
  <2>5. CASE LoadBucket(c) \/ LoadOrStoreBucket(c)
    <3>1. /\ pc[c] \in {"bucket", "store"} /\ pc'[c] \in {"store", "admitted"}
          /\ devLimit' = devLimit /\ aliveIp' = aliveIp
      BY <1>1, <2>5 DEF LoadBucket, LoadOrStoreBucket
    <3> QED
      BY <1>3, <1>4, <3>1
  <2> QED
    BY <1>6, <2>1, <2>2, <2>3, <2>4, <2>5 DEF CheckLimit
<1> QED
  BY <1>5, <1>6

(* Before the first report and change, what is entered stays, unless a      *)
(* connection of the same user is rejected.                                 *)
LEMMA CountedStep == LimiterInv /\ [Next]_vars => CountedInv'
<1> DEFINE Turned(u) == \E d \in Conns : pc[d] = "rejected" /\ user[d] = u
<1> SUFFICES ASSUME LimiterInv, [Next]_vars, updates' = 0, reports' = 0,
                    NEW c \in Conns, pc'[c] \notin {"new", "online", "rejected"},
                    ~(\E d \in Conns : pc'[d] = "rejected" /\ user'[d] = user'[c])
             PROVE  /\ online'[user'[c]] = ipMap'[c]
                    /\ pc'[c] # "addIP" => ip'[c] \in ips'[ipMap'[c]]
  BY DEF CountedInv
<1>1. TypeInv /\ TypeOK /\ updates = 0 /\ ~Monitor
  BY NoUpdateYet DEF LimiterInv, TypeInv
<1>2. reports = 0 /\ ~Report
  <2>1. ~Report
    BY <1>1 DEF Report, BeginReport, ReportUser, ResetOnline, EndReport, TypeInv, TypeOK,
           TaskTypes, ReportInv
  <2>2. CASE \E d \in Conns : CheckLimit(d)
    BY <2>1, <2>2 DEF CheckLimit, LoadInfo, LoadOrStoreOnline, LoadOrStoreIP, CheckOld,
           ForgetOld, UndoIP, UndoAll, LoadBucket, LoadOrStoreBucket, repVars
  <2>3. CASE UNCHANGED vars
    BY <2>1, <2>3 DEF vars, repVars
  <2> QED
    BY <1>1, <2>1, <2>2, <2>3 DEF Next
<1>3. ASSUME pc[c] # "new" PROVE user'[c] = user[c] /\ ip'[c] = ip[c] /\ ~Turned(user[c])
  <2>1. user'[c] = user[c] /\ ip'[c] = ip[c]
    BY <1>1, <1>3, ConnsPersist
  <2>2. ASSUME NEW d \in Conns, pc[d] = "rejected", user[d] = user[c] PROVE FALSE
    <3>1. user'[d] = user[d]
      BY <1>1, <2>2, ConnsPersist
    <3>2. pc'[d] = "rejected"
      <4>1. ~CheckLimit(d)
        BY <2>2 DEF CheckLimit, LoadInfo, LoadOrStoreOnline, LoadOrStoreIP, CheckOld,
               ForgetOld, UndoIP, UndoAll, LoadBucket, LoadOrStoreBucket
      <4> QED
        BY <1>1, <2>2, <4>1, OnlyItself
    <3> QED
      BY <2>1, <2>2, <3>1, <3>2
  <2> QED
    BY <2>1, <2>2
<1>4. CASE pc[c] \notin {"new", "online", "rejected"}
  <2> DEFINE m == ipMap[c]
  <2>1. /\ online[user[c]] = m /\ (pc[c] # "addIP" => ip[c] \in ips[m])
        /\ m \in Conns /\ user[m] = user[c] /\ Published(m) /\ user[c] \in Users
    BY <1>1, <1>2, <1>3, <1>4 DEF LimiterInv, CountedInv, TypeInv, ConnInv
  <2>2. user'[c] = user[c] /\ ip'[c] = ip[c] /\ ipMap'[c] = m
    BY <1>1, <1>3, <1>4, ConnsPersist DEF Published
  <2>3. ASSUME NEW d \in Conns, user[d] = user[c], pc[d] # "new"
        PROVE  pc'[d] # "rejected"
    BY <1>1, <1>3, <1>4, <2>3, ConnsPersist
  <2>4. ASSUME NEW d \in Conns, CheckLimit(d), user[d] = user[c] PROVE ~UndoAll(d) /\ ~UndoIP(d)
    BY <1>1, <2>3, <2>4 DEF UndoAll, UndoIP, Goto, TypeOK, CheckTypes
  <2>5. ASSUME NEW d \in Conns, UndoIP(d) PROVE ipMap[d] # m
    BY <1>1, <2>1, <2>4, <2>5 DEF UndoIP, CheckLimit, TypeInv, ConnInv
  <2>6. online'[user[c]] = m
    <3>1. CASE \E d \in Conns : CheckLimit(d)
      <4>1. PICK d \in Conns : CheckLimit(d)
        BY <3>1
      <4>2. CASE UndoAll(d)
        <5>1. user[d] # user[c]
          BY <2>4, <4>1, <4>2
        <5> QED
          BY <1>1, <2>1, <4>2, <5>1 DEF UndoAll, TypeOK, MapTypes
      <4>3. CASE LoadOrStoreOnline(d)
        <5>1. user[d] = user[c] => online[user[d]] # None
          BY <2>1, LimiterAssumption
        <5> QED
          BY <1>1, <2>1, <4>3, <5>1 DEF LoadOrStoreOnline, TypeOK, MapTypes
      <4> QED
        BY <2>1, <4>1, <4>2, <4>3 DEF CheckLimit, LoadInfo, LoadOrStoreIP, CheckOld,
               ForgetOld, UndoIP, LoadBucket, LoadOrStoreBucket, mapVars
    <3>2. CASE UNCHANGED vars
      BY <2>1, <3>2 DEF vars, mapVars
    <3> QED
      BY <1>1, <1>2, <3>1, <3>2 DEF Next
  <2>7. ips[m] \subseteq ips'[m]
    <3>1. CASE \E d \in Conns : CheckLimit(d)
      <4>1. PICK d \in Conns : CheckLimit(d)
        BY <3>1
      <4>2. CASE UndoIP(d)
        <5>1. ipMap[d] # m
          BY <2>5, <4>2
        <5> QED
          BY <1>1, <2>1, <4>2, <5>1 DEF UndoIP, TypeOK, MapTypes
      <4>3. CASE LoadOrStoreOnline(d)
        <5>1. d # m
          BY <2>1, <4>3 DEF LoadOrStoreOnline, Published
        <5> QED
          BY <1>1, <2>1, <4>3, <5>1 DEF LoadOrStoreOnline, TypeOK, MapTypes
      <4>4. CASE LoadOrStoreIP(d)
        BY <1>1, <2>1, <4>4 DEF LoadOrStoreIP, TypeOK, MapTypes
      <4> QED
        BY <2>1, <4>1, <4>2, <4>3, <4>4 DEF CheckLimit, LoadInfo, CheckOld,
               ForgetOld, UndoAll, LoadBucket, LoadOrStoreBucket, mapVars
    <3>2. CASE UNCHANGED vars
      BY <3>2 DEF vars, mapVars
    <3> QED
      BY <1>1, <1>2, <3>1, <3>2 DEF Next
  <2>8. CASE pc[c] = "addIP" /\ pc'[c] # "addIP"
    <3>1. CheckLimit(c)
      BY <1>1, <2>8, OnlyItself
    <3>2. LoadOrStoreIP(c)
      BY <2>8, <3>1 DEF CheckLimit, LoadInfo, LoadOrStoreOnline, CheckOld, ForgetOld,
             UndoIP, UndoAll, LoadBucket, LoadOrStoreBucket
    <3>3. ip[c] \in ips'[m]
      BY <1>1, <2>1, <3>2 DEF LoadOrStoreIP, TypeOK, MapTypes
    <3> QED
      BY <2>2, <2>6, <3>3
  <2> QED
    BY <2>1, <2>2, <2>6, <2>7, <2>8
<1>5. CASE pc[c] \in {"new", "online", "rejected"}
  <2>1. CheckLimit(c)
    BY <1>1, <1>5, OnlyItself
  <2>2. ASSUME NEW u \in Users, NEW i \in IPs, LoadInfo(c, u, i) PROVE FALSE
    BY <1>1, <2>2 DEF LoadInfo, Goto, TypeOK, CheckTypes
  <2>3. LoadOrStoreOnline(c)
    BY <1>5, <2>1, <2>2 DEF CheckLimit, LoadOrStoreIP, CheckOld, ForgetOld, UndoIP,
           UndoAll, LoadBucket, LoadOrStoreBucket
  <2>4. user[c] \in Users
    BY <1>1, <2>3 DEF LoadOrStoreOnline, TypeInv, ConnInv
  <2> QED
    BY <1>1, <2>3, <2>4 DEF LoadOrStoreOnline, Goto, TypeOK, CheckTypes, MapTypes
<1> QED
  BY <1>4, <1>5

LEMMA LimiterInvAlways == Spec => []LimiterInv
<1>1. Init => BucketInv /\ HolderInv /\ AddressInv /\ FullInv /\ CountedInv
  BY DEF Init, BucketInv, HolderInv, AddressInv, FullInv, CountedInv
<1>2. LimiterInv /\ [Next]_vars => (BucketInv /\ HolderInv /\ AddressInv /\ FullInv /\ CountedInv)'
  BY BucketStep, HolderStep, AddressStep, FullStep, CountedStep
<1> QED
  BY <1>1, <1>2, TypeInvAlways, PTL DEF Spec, LimiterInv

(* All the connections of a user share one bucket, however many find none   *)
(* at the same time, as long as the monitor changes nothing                 *)
(* (limiter.go 219-231).                                                    *)
THEOREM UsersShareBuckets == Spec => []SharedBucket
<1>1. LimiterInv => SharedBucket
  <2> SUFFICES ASSUME LimiterInv, updates = 0, NEW c \in Conns, NEW d \in Conns,
                      pc[c] = "admitted", pc[d] = "admitted", user[c] = user[d]
               PROVE  got[c] = got[d]
    BY DEF SharedBucket
  <2> QED
    BY DEF LimiterInv, BucketInv
<1> QED
  BY <1>1, LimiterInvAlways, PTL

(* A device that was turned away is not counted afterwards, whatever checks,*)
(* reports and updates overlapped (limiter.go 186-216).                     *)
THEOREM LimiterKeepsNoGhosts == Spec => []NoGhostDevice
<1>1. LimiterInv => NoGhostDevice
  <2> SUFFICES ASSUME LimiterInv, Quiet, NEW u \in Users, NEW i \in OnlineIPs(u)
               PROVE  \E c \in Conns : pc[c] = "admitted" /\ user[c] = u /\ ip[c] = i
    BY DEF NoGhostDevice
  <2>1. online[u] # None /\ i \in ips[online[u]]
    BY DEF OnlineIPs
  <2>2. PICK d \in Conns : Entered(d) /\ user[d] = u /\ ip[d] = i
    BY <2>1 DEF LimiterInv, HolderInv
  <2>3. pc[d] = "admitted"
    BY <2>2 DEF Quiet, InFlight, Entered
  <2> QED
    BY <2>2, <2>3
<1> QED
  BY <1>1, LimiterInvAlways, PTL

(* Until the first report a user at the device limit gets no further        *)
(* address in, whatever is checked at the same time and whatever the        *)
(* monitor changes (limiter.go 193-212).                                    *)
THEOREM FullUsersStayFull == Spec => []FullUserStaysFull
<1>1. LimiterInv => FullUserStaysFull
  <2> SUFFICES ASSUME LimiterInv, reports = 0, NEW c \in Conns,
                      pc[c] = "admitted", devLimit[c] \in 1..aliveIp[c]
               PROVE  \E d \in Conns \ {c} : user[d] = user[c] /\ ip[d] = ip[c]
    BY DEF FullUserStaysFull
  <2> QED
    BY DEF LimiterInv, FullInv
<1> QED
  BY <1>1, LimiterInvAlways, PTL

(* Until the first report and change a device that was let in is in the     *)
(* next report, unless a connection of its user was turned away             *)
(* (limiter.go 186-193).                                                    *)
THEOREM AdmittedAreCounted == Spec => []AdmittedIsCounted
<1>1. LimiterInv => AdmittedIsCounted
  <2> SUFFICES ASSUME LimiterInv, updates = 0, reports = 0, NEW c \in Conns, pc[c] = "admitted",
                      ~(\E d \in Conns : pc[d] = "rejected" /\ user[d] = user[c])
               PROVE  ip[c] \in OnlineIPs(user[c])
    BY DEF AdmittedIsCounted
  <2>1. online[user[c]] = ipMap[c] /\ ip[c] \in ips[ipMap[c]]
    BY DEF LimiterInv, CountedInv
  <2>2. ipMap[c] # None
    BY LimiterAssumption DEF LimiterInv, TypeInv, ConnInv
  <2> QED
    BY <2>1, <2>2 DEF OnlineIPs
<1> QED
  BY <1>1, LimiterInvAlways, PTL
=============================================================================
