------------------------------- MODULE Traffic -------------------------------
(***************************************************************************)
(* Traffic accounting of one node: the counters the dispatcher gives to the *)
(* links (mydispatcher getLink, common/counter), their collection by        *)
(* GetUserTrafficSlice and DelUsers (core/xray/user.go), and the push to    *)
(* the panel (node/user.go reportUserTrafficTask).  Upload and download are *)
(* one amount.                                                             *)
(*                                                                         *)
(* A connection makes one call of getLink, so its name also names the       *)
(* TrafficCounter and the TrafficStorage that call may create.              *)
(***************************************************************************)
EXTENDS Naturals, FiniteSets

CONSTANTS
    Conns,           \* connections
    Users,           \* users (emails)
    MinTraffic,      \* nodeReportMinTrafficBytes
    MaxBytes,        \* bound: bytes carried for each user
    MaxDeletes,      \* bound: users deleted, and idle users cleaned up
    MaxPushFaults,   \* bound: pushes the panel refuses or never gets
    MaxLostReplies,  \* bound: pushes the panel counts but whose reply is lost
    None

ASSUME TrafficAssumption ==
    /\ MinTraffic \in Nat /\ MaxBytes \in Nat /\ MaxDeletes \in Nat
    /\ MaxPushFaults \in Nat /\ MaxLostReplies \in Nat
    /\ None \notin Conns /\ None \notin Users /\ IsFiniteSet(Conns)

VARIABLES
    tcOf,       \* dispatcher.Counter[tag]
    slot,       \* TrafficCounter.Counters of each TrafficCounter
    count,      \* the value of each TrafficStorage
    uidMap,     \* Xray.users.uidMap
    pc, user, tc, storage,                     \* connections
    rpc, rtc, visit, cur, found, loaded, slice, \* the report task
    dpc, dUser, deletes,                       \* DelUsers
    panel, pushFaults, lostReplies,            \* the panel
    carried     \* what the links really carried, for each user

connVars == <<pc, user, tc, storage>>
repVars == <<rpc, rtc, visit, cur, found, loaded, slice>>
delVars == <<dpc, dUser, deletes>>
panelVars == <<panel, pushFaults, lostReplies>>
vars == <<tcOf, slot, count, uidMap, connVars, repVars, delVars, panelVars, carried>>

Amounts == 0..MaxBytes

CounterTypes ==
    /\ tcOf \in Conns \cup {None}
    /\ slot \in [Conns -> [Users -> Conns \cup {None}]]
    /\ count \in [Conns -> Amounts]
    /\ carried \in [Users -> Amounts]

LinkTypes ==
    /\ pc \in [Conns -> {"new", "store", "counter", "open", "closed"}]
    /\ user \in [Conns -> Users \cup {None}]
    /\ tc \in [Conns -> Conns \cup {None}]
    /\ storage \in [Conns -> Conns \cup {None}]
    /\ \A c \in Conns : /\ pc[c] = "counter" => tc[c] # None
                        /\ pc[c] = "open" => storage[c] # None

ReportTypes ==
    /\ rpc \in {"idle", "range", "reset", "push"}
    /\ rtc \in Conns \cup {None}
    /\ visit \in SUBSET Users /\ cur \in Users \cup {None}
    /\ found \in Conns \cup {None}
    /\ loaded \in Amounts
    /\ slice \in [Users -> Amounts]
    /\ panel \in [Users -> Nat]
    /\ pushFaults \in 0..MaxPushFaults /\ lostReplies \in 0..MaxLostReplies

DeleteTypes ==
    /\ uidMap \in SUBSET Users
    /\ dpc \in {"idle", "counter"} /\ dUser \in Users \cup {None}
    /\ deletes \in 0..MaxDeletes

(* Type invariant: counters never exceed what was carried, and a link that  *)
(* is open has a storage to count in (getLink, default.go 310-328).         *)
TypeOK == CounterTypes /\ LinkTypes /\ ReportTypes /\ DeleteTypes

Zero == [u \in Users |-> 0]

Init ==
    /\ tcOf = None
    /\ slot = [c \in Conns |-> [u \in Users |-> None]]
    /\ count = [c \in Conns |-> 0]
    /\ uidMap = Users
    /\ pc = [c \in Conns |-> "new"]
    /\ user = [c \in Conns |-> None]
    /\ tc = [c \in Conns |-> None] /\ storage = [c \in Conns |-> None]
    /\ rpc = "idle" /\ rtc = None /\ visit = {} /\ cur = None /\ found = None
    /\ loaded = 0 /\ slice = Zero
    /\ dpc = "idle" /\ dUser = None /\ deletes = 0
    /\ panel = Zero /\ pushFaults = 0 /\ lostReplies = 0
    /\ carried = Zero

Goto(c, l) == pc' = [pc EXCEPT ![c] = l]

-----------------------------------------------------------------------------
(* getLink of an accepted connection: Counter.Load(tag) ... *)
LoadCounter(c, u) ==
    /\ pc[c] = "new"
    /\ u \in uidMap
    /\ user' = [user EXCEPT ![c] = u]
    /\ tc' = [tc EXCEPT ![c] = tcOf]
    /\ Goto(c, IF tcOf = None THEN "store" ELSE "counter")
    /\ UNCHANGED <<tcOf, slot, count, uidMap, storage, repVars, delVars,
                   panelVars, carried>>

(* ... and a Store when there is none (not LoadOrStore). *)
StoreCounter(c) ==
    /\ pc[c] = "store"
    /\ tcOf' = c
    /\ tc' = [tc EXCEPT ![c] = c]
    /\ Goto(c, "counter")
    /\ UNCHANGED <<slot, count, uidMap, user, storage, repVars, delVars,
                   panelVars, carried>>

GetCounterLoadOnly(c) ==
    /\ pc[c] = "counter"
    /\ storage' = [storage EXCEPT ![c] = slot[tc[c]][user[c]]]
    /\ Goto(c, "open")
    /\ UNCHANGED <<tcOf, slot, count, uidMap, user, tc, repVars, delVars,
                   panelVars, carried>>

(* TrafficCounter.GetCounter *)
GetCounter(c) ==
    /\ pc[c] = "counter"
    /\ slot' = [slot EXCEPT ![tc[c]][user[c]] = IF @ = None THEN c ELSE @]
    /\ storage' = [storage EXCEPT ![c] = slot'[tc[c]][user[c]]]
    /\ Goto(c, "open")
    /\ UNCHANGED <<tcOf, count, uidMap, user, tc, repVars, delVars, panelVars, carried>>

(* The link carries a byte: SizeStatWriter or CounterReader adds it. *)
Carry(c) ==
    /\ pc[c] = "open"
    /\ carried[user[c]] < MaxBytes
    /\ carried' = [carried EXCEPT ![user[c]] = @ + 1]
    /\ count' = [count EXCEPT ![storage[c]] = @ + 1]
    /\ UNCHANGED <<tcOf, slot, uidMap, connVars, repVars, delVars, panelVars>>

CloseLink(c) ==
    /\ pc[c] = "open"
    /\ Goto(c, "closed")
    /\ UNCHANGED <<tcOf, slot, count, uidMap, user, tc, storage, repVars,
                   delVars, panelVars, carried>>

Connection(c) ==
    \/ \E u \in Users : LoadCounter(c, u)
    \/ StoreCounter(c)
    \/ GetCounter(c)
    \/ Carry(c)
    \/ CloseLink(c)

-----------------------------------------------------------------------------
(* reportUserTrafficTask calls GetUserTrafficSlice(tag, true), which holds  *)
(* the uidMap lock for reading all along and ranges over the TrafficCounter *)
(* it finds at the start.                                                   *)
BeginSlice ==
    /\ rpc = "idle"
    /\ tcOf # None
    /\ rpc' = "range"
    /\ rtc' = tcOf
    /\ visit' = {u \in Users : slot[tcOf][u] # None}
    /\ slice' = Zero
    /\ UNCHANGED <<tcOf, slot, count, uidMap, connVars, cur, found, loaded,
                   delVars, panelVars, carried>>

(* The counter of u is read: it may have gone since the range began.  One   *)
(* above the threshold will be reset.                                       *)
LoadCountAbove(u, min) ==
    /\ rpc = "range"
    /\ u \in visit
    /\ visit' = visit \ {u}
    /\ LET s == slot[rtc][u] IN
       IF s # None /\ count[s] > min
       THEN found' = s /\ loaded' = count[s] /\ cur' = u /\ rpc' = "reset"
       ELSE UNCHANGED <<found, loaded, cur, rpc>>
    /\ UNCHANGED <<tcOf, slot, count, uidMap, connVars, rtc, slice, delVars,
                   panelVars, carried>>

LoadCountOffByOne(u) == LoadCountAbove(u, MinTraffic + 1)

LoadCount(u) == LoadCountAbove(u, MinTraffic)

StoreZeroForgotten == UNCHANGED count

(* Store(0) of the storage that was read, whatever was added since. *)
StoreZero == count' = [count EXCEPT ![found] = 0]

(* The traffic of a user without a uid is dropped, with its counter. *)
ResetCount ==
    /\ rpc = "reset"
    /\ rpc' = "range"
    /\ StoreZero
    /\ IF cur \in uidMap
       THEN slice' = [slice EXCEPT ![cur] = loaded] /\ UNCHANGED slot
       ELSE slot' = [slot EXCEPT ![rtc][cur] = None] /\ UNCHANGED slice
    /\ UNCHANGED <<tcOf, uidMap, connVars, rtc, visit, cur, found, loaded,
                   delVars, panelVars, carried>>

EndSlice ==
    /\ rpc = "range"
    /\ visit = {}
    /\ rpc' = IF slice = Zero THEN "idle" ELSE "push"
    /\ UNCHANGED <<tcOf, slot, count, uidMap, connVars, rtc, visit, cur, found, loaded,
                   slice, delVars, panelVars, carried>>

Credit == panel' = [u \in Users |-> panel[u] + slice[u]]

(* ReportUserTraffic succeeded. *)
PushOK ==
    /\ rpc = "push"
    /\ Credit
    /\ rpc' = "idle"
    /\ slice' = Zero
    /\ UNCHANGED <<tcOf, slot, count, uidMap, connVars, rtc, visit, cur, found, loaded,
                   delVars, pushFaults, lostReplies, carried>>

(* It failed after all retries: the slice is gone. *)
PushFail ==
    /\ rpc = "push"
    /\ pushFaults < MaxPushFaults
    /\ pushFaults' = pushFaults + 1
    /\ rpc' = "idle"
    /\ slice' = Zero
    /\ UNCHANGED <<tcOf, slot, count, uidMap, connVars, rtc, visit, cur, found, loaded,
                   delVars, panel, lostReplies, carried>>

(* The panel counted the push but the reply is lost: the HTTP client, set   *)
(* to three retries, sends it again.                                        *)
PushReplyLost ==
    /\ rpc = "push"
    /\ lostReplies < MaxLostReplies
    /\ lostReplies' = lostReplies + 1
    /\ Credit
    /\ UNCHANGED <<tcOf, slot, count, uidMap, connVars, repVars, delVars,
                   pushFaults, carried>>

Report ==
    \/ BeginSlice
    \/ \E u \in Users : LoadCount(u)
    \/ ResetCount
    \/ EndSlice
    \/ PushOK
    \/ PushFail
    \/ PushReplyLost

-----------------------------------------------------------------------------
Locked == rpc \in {"range", "reset"}

(* DelUsers: uidMap under its lock ... *)
DelUid(u) ==
    /\ dpc = "idle"
    /\ deletes < MaxDeletes
    /\ deletes' = deletes + 1
    /\ u \in uidMap
    /\ ~Locked
    /\ uidMap' = uidMap \ {u}
    /\ dUser' = u
    /\ dpc' = "counter"
    /\ UNCHANGED <<tcOf, slot, count, connVars, repVars, panelVars, carried>>

(* ... then the user's counter, without it. *)
DelCounter ==
    /\ dpc = "counter"
    /\ dpc' = "idle"
    /\ IF tcOf = None
       THEN UNCHANGED slot
       ELSE slot' = [slot EXCEPT ![tcOf][dUser] = None]
    /\ UNCHANGED <<tcOf, count, uidMap, connVars, repVars, dUser, deletes,
                   panelVars, carried>>

(* userCleanupLoop: a user who opened no connection for ten minutes loses   *)
(* the counter, the open links' one too (see Links).                        *)
CleanupIdle(u) ==
    /\ deletes < MaxDeletes
    /\ deletes' = deletes + 1
    /\ tcOf # None
    /\ slot[tcOf][u] # None
    /\ slot' = [slot EXCEPT ![tcOf][u] = None]
    /\ UNCHANGED <<tcOf, count, uidMap, connVars, repVars, dpc, dUser,
                   panelVars, carried>>

(* AddUsers *)
AddUid(u) ==
    /\ dpc = "idle"
    /\ u \notin uidMap
    /\ ~Locked
    /\ uidMap' = uidMap \cup {u}
    /\ UNCHANGED <<tcOf, slot, count, connVars, repVars, delVars, panelVars, carried>>

Next ==
    \/ \E c \in Conns : Connection(c)
    \/ Report
    \/ \E u \in Users : DelUid(u) \/ AddUid(u) \/ CleanupIdle(u)
    \/ DelCounter

Spec == Init /\ [][Next]_vars

(* The report task runs again and again (see PeriodicTask). *)
FairSpec == Spec /\ WF_vars(Report) /\ WF_vars(DelCounter)

-----------------------------------------------------------------------------
(* The bytes that the counters of user u hold, those out of reach included *)
Held(u) == {b \in Conns \X (1..MaxBytes) : user[b[1]] = u /\ b[2] =< count[b[1]]}

(* What the next reports can still collect for user u *)
Collectable(u) ==
    IF tcOf = None \/ slot[tcOf][u] = None THEN 0 ELSE count[slot[tcOf][u]]

(* The panel never charges a user for more than the user's links carried:   *)
(* what is charged, about to be pushed and still in counters adds up to at  *)
(* most that, whatever the reset, deletions and new links overlap with.     *)
(* Only a push that was counted but not answered is sent, and charged, once *)
(* more (panel.go 41).                                                      *)
NeverOverCharged ==
    lostReplies = 0 => \A u \in Users : panel[u] + slice[u] + Cardinality(Held(u)) =< carried[u]

(* A counter above the threshold is collected in the end.                   *)
CounterCollected ==
    \A u \in Users : Collectable(u) > MinTraffic ~> Collectable(u) =< MinTraffic

(* "real-time traffic accounting" (README.md:7), and a failed API call is   *)
(* retried at the next interval (README.md:129): with all links closed and  *)
(* no report in progress, what a user carried is with the panel or still    *)
(* to be collected.                                                         *)
NothingLost ==
    (rpc = "idle" /\ deletes = 0 /\ \A c \in Conns : pc[c] \in {"new", "closed"}) =>
        \A u \in Users : panel[u] + Collectable(u) = carried[u]
=============================================================================
