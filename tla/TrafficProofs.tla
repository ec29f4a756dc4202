---------------------------- MODULE TrafficProofs ----------------------------
(***************************************************************************)
(* Proofs about Traffic: for any number of connections, users and bytes no  *)
(* user is charged for more than was carried.                               *)
(***************************************************************************)
EXTENDS Traffic, FiniteSetTheorems, TLAPS

(* Storage s was created for user u. *)
Counts(s, u) == s \in Conns /\ pc[s] # "new" /\ user[s] = u

(* A link counts in a storage of its own user; one that is not set up yet   *)
(* has created none.                                                        *)
LinkInv ==
    \A c \in Conns :
        /\ pc[c] = "new" => count[c] = 0
        /\ pc[c] # "new" => user[c] \in Users
        /\ pc[c] = "open" => Counts(storage[c], user[c])

(* The entries of every TrafficCounter, also of one that another connection *)
(* has replaced, are storages of their users.                               *)
SlotInv ==
    \A t \in Conns, u \in Users : slot[t][u] # None => Counts(slot[t][u], u)

(* The report resets a storage of the user it reads, which holds at least   *)
(* what was read: nobody else resets one.                                   *)
ReportInv ==
    /\ rpc # "idle" => rtc \in Conns
    /\ rpc = "reset" => cur \in Users /\ Counts(found, cur) /\ loaded =< count[found]

DeleteInv == dpc = "counter" => dUser \in Users

(* What is about to be pushed and what the counters hold was carried; and   *)
(* what is charged as well, when no push was counted twice.                 *)
LedgerInv ==
    /\ \A u \in Users : slice[u] + Cardinality(Held(u)) =< carried[u]
    /\ NeverOverCharged

TrafficInv == TypeOK /\ LinkInv /\ SlotInv /\ ReportInv /\ DeleteInv /\ LedgerInv

-----------------------------------------------------------------------------
(* The bytes of a storage that has counted k *)
Bytes(s, k) == {s} \X (1..k)

(* A storage that has counted k bytes holds k bytes.                        *)
LEMMA BytesCardinality ==
    ASSUME NEW s, NEW k \in Nat
    PROVE  IsFiniteSet(Bytes(s, k)) /\ Cardinality(Bytes(s, k)) = k
<1>1. IsFiniteSet({s}) /\ Cardinality({s}) = 1
  BY FS_Singleton
<1>2. IsFiniteSet(1..k) /\ Cardinality(1..k) = k
  BY FS_Interval
<1>3. /\ IsFiniteSet({s} \X (1..k))
      /\ Cardinality({s} \X (1..k)) = Cardinality({s}) * Cardinality(1..k)
  BY <1>1, <1>2, FS_Product
<1> QED
  BY <1>1, <1>2, <1>3 DEF Bytes

(* What the counters hold can be counted.                                   *)
LEMMA SomeBytesFinite ==
    ASSUME NEW S \in SUBSET (Conns \X (1..MaxBytes))
    PROVE  IsFiniteSet(S) /\ Cardinality(S) \in Nat
<1>1. IsFiniteSet(Conns) /\ IsFiniteSet(1..MaxBytes)
  BY TrafficAssumption, FS_Interval
<1>2. IsFiniteSet(Conns \X (1..MaxBytes))
  BY <1>1, FS_Product
<1> QED
  BY <1>2, FS_Subset, FS_CardinalityType

LEMMA HeldFinite ==
    ASSUME NEW u
    PROVE  IsFiniteSet(Held(u)) /\ Cardinality(Held(u)) \in Nat
<1>1. Held(u) \in SUBSET (Conns \X (1..MaxBytes))
  BY DEF Held
<1> QED
  BY <1>1, SomeBytesFinite

(* The bytes of one storage are among those its user's counters hold.       *)
LEMMA BytesHeld ==
    ASSUME CounterTypes, NEW s \in Conns
    PROVE  /\ count[s] \in Nat /\ Bytes(s, count[s]) \subseteq Held(user[s])
           /\ count[s] =< Cardinality(Held(user[s]))
<1>1. count[s] \in Nat /\ count[s] =< MaxBytes /\ MaxBytes \in Nat
  BY TrafficAssumption DEF CounterTypes, Amounts
<1>2. ASSUME NEW b \in Bytes(s, count[s]) PROVE b \in Held(user[s])
  <2>1. b = <<b[1], b[2]>> /\ b[1] = s /\ b[2] \in 1..count[s]
    BY <1>2 DEF Bytes
  <2>2. b[2] \in 1..MaxBytes /\ b[2] =< count[s]
    BY <1>1, <2>1
  <2> QED
    BY <2>1, <2>2 DEF Held
<1>3. Cardinality(Bytes(s, count[s])) = count[s]
  BY <1>1, BytesCardinality
<1> QED
  BY <1>1, <1>2, <1>3, HeldFinite, FS_Subset

-----------------------------------------------------------------------------
(* A connection keeps its user, and so does the storage it has created.     *)
LEMMA CountsPersist ==
    ASSUME TrafficInv, [Next]_vars, NEW s, NEW u, Counts(s, u)
    PROVE  Counts(s, u)'
<1> USE DEF Counts, TrafficInv, TypeOK, LinkTypes
<1>1. ASSUME NEW c \in Conns, Connection(c) PROVE Counts(s, u)'
  BY <1>1 DEF Connection, LoadCounter, StoreCounter, GetCounter, Carry, CloseLink, Goto, connVars
<1>2. CASE Report
  BY <1>2 DEF Report, BeginSlice, LoadCount, LoadCountAbove, ResetCount, EndSlice, PushOK,
         PushFail, PushReplyLost, connVars
<1>3. CASE DelCounter \/ \E v \in Users : DelUid(v) \/ AddUid(v) \/ CleanupIdle(v)
  BY <1>3 DEF DelCounter, DelUid, AddUid, CleanupIdle, connVars
<1>4. CASE UNCHANGED vars
  BY <1>4 DEF vars, connVars
<1> QED
  BY <1>1, <1>2, <1>3, <1>4 DEF Next

(* One entry of a TrafficCounter is set.                                    *)
LEMMA SlotSet ==
    ASSUME CounterTypes, NEW t \in Conns, NEW u \in Users, NEW x \in Conns \cup {None},
           slot' = [slot EXCEPT ![t][u] = x]
    PROVE  /\ slot' \in [Conns -> [Users -> Conns \cup {None}]]
           /\ \A d \in Conns, v \in Users :
                slot'[d][v] = IF d = t /\ v = u THEN x ELSE slot[d][v]
<1> DEFINE row == [slot[t] EXCEPT ![u] = x]
<1>1. slot \in [Conns -> [Users -> Conns \cup {None}]]
  BY DEF CounterTypes
<1>2. /\ row \in [Users -> Conns \cup {None}]
      /\ \A v \in Users : row[v] = IF v = u THEN x ELSE slot[t][v]
  BY <1>1
<1>3. slot' = [slot EXCEPT ![t] = row]
  BY <1>1
<1> HIDE DEF row
<1> QED
  BY <1>1, <1>2, <1>3

(* What a connection gets of GetCounter is the storage that is there, or    *)
(* its own, which then is.                                                  *)
LEMMA GetCounterGives ==
    ASSUME TrafficInv, NEW c \in Conns, GetCounter(c)
    PROVE  /\ tc[c] \in Conns /\ user[c] \in Users
           /\ \E x \in Conns :
                /\ x = IF slot[tc[c]][user[c]] = None THEN c ELSE slot[tc[c]][user[c]]
                /\ slot' = [slot EXCEPT ![tc[c]][user[c]] = x]
                /\ storage' = [storage EXCEPT ![c] = x]
<1> DEFINE t == tc[c]
           u == user[c]
           x == IF slot[t][u] = None THEN c ELSE slot[t][u]
<1>0. pc[c] = "counter"
  BY DEF GetCounter
<1>1. t \in Conns
  BY <1>0 DEF TrafficInv, TypeOK, LinkTypes
<1>2. u \in Users
  BY <1>0 DEF TrafficInv, LinkInv
<1>3. slot[t][u] \in Conns \cup {None}
  BY <1>1, <1>2 DEF TrafficInv, TypeOK, CounterTypes
<1>4. x \in Conns
  BY <1>3
<1>5. slot' = [slot EXCEPT ![t][u] = x]
  BY DEF GetCounter
<1>6. slot'[t][u] = x
  <2>1. CounterTypes /\ x \in Conns \cup {None}
    BY <1>4 DEF TrafficInv, TypeOK
  <2> HIDE DEF t, u, x
  <2>2. \A d \in Conns, v \in Users :
          slot'[d][v] = IF d = t /\ v = u THEN x ELSE slot[d][v]
    BY <1>1, <1>2, <1>5, <2>1, SlotSet
  <2> QED
    BY <1>1, <1>2, <2>2
<1>7. storage' = [storage EXCEPT ![c] = x]
  BY <1>6 DEF GetCounter
<1> QED
  BY <1>1, <1>2, <1>4, <1>5, <1>7

(* The counters stay within what was carried.                               *)
LEMMA CounterTypesStep == TrafficInv /\ [Next]_vars => CounterTypes'
<1> SUFFICES ASSUME TrafficInv, [Next]_vars PROVE CounterTypes'
  OBVIOUS
<1> USE TrafficAssumption DEF TrafficInv, TypeOK, CounterTypes
<1>1. ASSUME NEW c \in Conns, Connection(c) PROVE CounterTypes'
  <2>1. CASE GetCounter(c)
    <3>0. /\ tc[c] \in Conns /\ user[c] \in Users
          /\ \E x \in Conns : slot' = [slot EXCEPT ![tc[c]][user[c]] = x]
      BY <2>1, GetCounterGives
    <3>1. slot' \in [Conns -> [Users -> Conns \cup {None}]]
      BY <3>0, SlotSet
    <3> QED
      BY <2>1, <3>1 DEF GetCounter
  <2>2. CASE Carry(c)
    <3> DEFINE s == storage[c]
               u == user[c]
    <3>1. s \in Conns /\ user[s] = u /\ u \in Users /\ carried[u] < MaxBytes
      BY <2>2 DEF Carry, LinkInv, Counts
    <3>2. count[s] =< Cardinality(Held(u)) /\ count[s] \in Nat
      BY <3>1, BytesHeld
    <3>3. Cardinality(Held(u)) =< carried[u]
      BY <3>1, HeldFinite DEF LedgerInv, ReportTypes, Amounts
    <3>4. count[s] + 1 \in Amounts /\ carried[u] + 1 \in Amounts
      <4>1. Cardinality(Held(u)) \in Nat /\ carried[u] \in Nat
        BY <3>1, HeldFinite DEF Amounts
      <4> QED
        BY <3>1, <3>2, <3>3, <4>1 DEF Amounts
    <3> QED
      BY <2>2, <3>1, <3>4 DEF Carry
  <2>3. CASE CloseLink(c) \/ StoreCounter(c) \/ \E u \in Users : LoadCounter(c, u)
    BY <2>3 DEF CloseLink, StoreCounter, LoadCounter
  <2> QED
    BY <1>1, <2>1, <2>2, <2>3 DEF Connection
<1>2. CASE Report
  <2>1. CASE ResetCount
    <3>1. /\ rtc \in Conns /\ cur \in Users /\ found \in Conns
      BY <2>1 DEF ResetCount, ReportInv, Counts
    <3>2. slot' \in [Conns -> [Users -> Conns \cup {None}]]
      BY <2>1, <3>1, SlotSet DEF ResetCount
    <3>3. count' \in [Conns -> Amounts]
      BY <2>1, <3>1 DEF ResetCount, StoreZero, Amounts
    <3> QED
      BY <2>1, <3>2, <3>3 DEF ResetCount
  <2>2. CASE ~ResetCount
    BY <1>2, <2>2 DEF Report, BeginSlice, LoadCount, LoadCountAbove, EndSlice, PushOK,
           PushFail, PushReplyLost
  <2> QED
    BY <2>1, <2>2
<1>3. CASE DelCounter
  <2>1. slot' \in [Conns -> [Users -> Conns \cup {None}]]
    BY <1>3, SlotSet DEF DelCounter, DeleteInv
  <2> QED
    BY <1>3, <2>1 DEF DelCounter
<1>4. ASSUME NEW v \in Users, DelUid(v) \/ AddUid(v) \/ CleanupIdle(v) PROVE CounterTypes'
  <2>1. slot' \in [Conns -> [Users -> Conns \cup {None}]]
    BY <1>4, SlotSet DEF DelUid, AddUid, CleanupIdle
  <2> QED
    BY <1>4, <2>1 DEF DelUid, AddUid, CleanupIdle
<1>5. CASE UNCHANGED vars
  BY <1>5 DEF vars
<1> QED
  BY <1>1, <1>2, <1>3, <1>4, <1>5 DEF Next

(* The locals of the connections keep their types.                          *)
LEMMA LinkTypesStep == TrafficInv /\ [Next]_vars => LinkTypes'
<1> SUFFICES ASSUME TrafficInv, [Next]_vars PROVE LinkTypes'
  OBVIOUS
<1> USE TrafficAssumption DEF TrafficInv, TypeOK, LinkTypes
<1>1. ASSUME NEW c \in Conns, Connection(c) PROVE LinkTypes'
  <2> USE DEF Goto, CounterTypes
  <2>1. ASSUME NEW u \in Users, LoadCounter(c, u) PROVE LinkTypes'
    BY <2>1 DEF LoadCounter
  <2>2. CASE StoreCounter(c)
    BY <2>2 DEF StoreCounter
  <2>3. CASE GetCounter(c)
    <3>1. PICK x \in Conns : storage' = [storage EXCEPT ![c] = x]
      BY <2>3, GetCounterGives
    <3> QED
      BY <2>3, <3>1 DEF GetCounter
  <2>4. CASE Carry(c) \/ CloseLink(c)
    BY <2>4 DEF Carry, CloseLink, connVars
  <2> QED
    BY <1>1, <2>1, <2>2, <2>3, <2>4 DEF Connection
<1>2. CASE Report
  BY <1>2 DEF Report, BeginSlice, LoadCount, LoadCountAbove, ResetCount, EndSlice, PushOK,
         PushFail, PushReplyLost, connVars
<1>3. CASE DelCounter \/ \E v \in Users : DelUid(v) \/ AddUid(v) \/ CleanupIdle(v)
  BY <1>3 DEF DelCounter, DelUid, AddUid, CleanupIdle, connVars
<1>4. CASE UNCHANGED vars
  BY <1>4 DEF vars, connVars
<1> QED
  BY <1>1, <1>2, <1>3, <1>4 DEF Next

(* So do the report's locals and the panel's ledger ...                     *)
LEMMA ReportTypesStep == TrafficInv /\ [Next]_vars => ReportTypes'
<1> SUFFICES ASSUME TrafficInv, [Next]_vars PROVE ReportTypes'
  OBVIOUS
<1> USE TrafficAssumption DEF TrafficInv, TypeOK, ReportTypes
<1>1. ASSUME NEW c \in Conns, Connection(c) PROVE ReportTypes'
  BY <1>1 DEF Connection, LoadCounter, StoreCounter, GetCounter, Carry, CloseLink,
         repVars, panelVars
<1>2. Zero \in [Users -> Amounts]
  BY DEF Zero, Amounts
<1>3. CASE Report
  <2> USE DEF panelVars
  <2>1. CASE BeginSlice
    BY <1>2, <2>1 DEF BeginSlice, CounterTypes
  <2>2. ASSUME NEW u \in Users, LoadCount(u) PROVE ReportTypes'
    <3>1. CASE UNCHANGED <<found, loaded, cur, rpc>>
      BY <2>2, <3>1 DEF LoadCount, LoadCountAbove
    <3>2. CASE ~UNCHANGED <<found, loaded, cur, rpc>>
      <4> DEFINE s == slot[rtc][u]
      <4>1. /\ s # None /\ found' = s /\ loaded' = count[s] /\ cur' = u /\ rpc' = "reset"
            /\ rpc = "range" /\ visit' = visit \ {u}
            /\ UNCHANGED <<rtc, slice, panel, pushFaults, lostReplies>>
        BY <2>2, <3>2 DEF LoadCount, LoadCountAbove
      <4>2. s \in Conns
        BY <4>1 DEF ReportInv, CounterTypes
      <4> QED
        BY <4>1, <4>2 DEF CounterTypes
    <3> QED
      BY <3>1, <3>2
  <2>3. CASE ResetCount
    BY <2>3 DEF ResetCount, ReportInv
  <2>4. CASE EndSlice \/ PushFail
    BY <1>2, <2>4 DEF EndSlice, PushFail
  <2>5. CASE PushOK \/ PushReplyLost
    <3>1. panel' \in [Users -> Nat]
      BY <2>5 DEF PushOK, PushReplyLost, Credit, Amounts
    <3> QED
      BY <1>2, <2>5, <3>1 DEF PushOK, PushReplyLost, repVars
  <2> QED
    BY <1>3, <2>1, <2>2, <2>3, <2>4, <2>5 DEF Report
<1>4. CASE DelCounter \/ \E v \in Users : DelUid(v) \/ AddUid(v) \/ CleanupIdle(v)
  BY <1>4 DEF DelCounter, DelUid, AddUid, CleanupIdle, repVars, panelVars
<1>5. CASE UNCHANGED vars
  BY <1>5 DEF vars, repVars, panelVars
<1> QED
  BY <1>1, <1>3, <1>4, <1>5 DEF Next

(* ... and DelUsers.                                                        *)
LEMMA DeleteTypesStep == TrafficInv /\ [Next]_vars => DeleteTypes' /\ DeleteInv'
<1> SUFFICES ASSUME TrafficInv, [Next]_vars PROVE DeleteTypes' /\ DeleteInv'
  OBVIOUS
<1> USE TrafficAssumption DEF TrafficInv, TypeOK, DeleteTypes, DeleteInv
<1>1. ASSUME NEW c \in Conns, Connection(c) PROVE DeleteTypes' /\ DeleteInv'
  BY <1>1 DEF Connection, LoadCounter, StoreCounter, GetCounter, Carry, CloseLink, delVars
<1>2. CASE Report
  BY <1>2 DEF Report, BeginSlice, LoadCount, LoadCountAbove, ResetCount, EndSlice, PushOK,
         PushFail, PushReplyLost, delVars
<1>3. CASE DelCounter
  BY <1>3 DEF DelCounter
<1>4. ASSUME NEW v \in Users, DelUid(v) \/ AddUid(v) \/ CleanupIdle(v)
      PROVE  DeleteTypes' /\ DeleteInv'
  BY <1>4 DEF DelUid, AddUid, CleanupIdle, delVars
<1>5. CASE UNCHANGED vars
  BY <1>5 DEF vars, delVars
<1> QED
  BY <1>1, <1>2, <1>3, <1>4, <1>5 DEF Next

(* An entry of a TrafficCounter is removed, set by the connection that      *)
(* found none, or left alone.                                               *)
LEMMA SlotChange ==
    ASSUME TrafficInv, [Next]_vars, NEW t \in Conns, NEW u \in Users
    PROVE  \/ slot'[t][u] \in {slot[t][u], None}
           \/ slot'[t][u] \in Conns /\ GetCounter(slot'[t][u]) /\ user[slot'[t][u]] = u
<1>1. CounterTypes
  BY DEF TrafficInv, TypeOK
<1>2. ASSUME NEW c \in Conns, GetCounter(c)
      PROVE  \/ slot'[t][u] = slot[t][u]
             \/ slot'[t][u] = c /\ user[c] = u
  <2>1. /\ tc[c] \in Conns /\ user[c] \in Users
        /\ \E x \in Conns :
             /\ x = IF slot[tc[c]][user[c]] = None THEN c ELSE slot[tc[c]][user[c]]
             /\ slot' = [slot EXCEPT ![tc[c]][user[c]] = x]
    BY <1>2, GetCounterGives
  <2> QED
    BY <1>1, <2>1, SlotSet
<1>3. ASSUME NEW c \in Conns, Connection(c), ~GetCounter(c) PROVE slot' = slot
  BY <1>3 DEF Connection, LoadCounter, StoreCounter, Carry, CloseLink
<1>4. CASE ResetCount
  <2>1. rtc \in Conns /\ cur \in Users
    BY <1>4 DEF ResetCount, TrafficInv, ReportInv
  <2>2. slot' = slot \/ slot' = [slot EXCEPT ![rtc][cur] = None]
    BY <1>4 DEF ResetCount
  <2> QED
    BY <1>1, <2>1, <2>2, SlotSet
<1>5. CASE Report /\ ~ResetCount
  BY <1>5 DEF Report, BeginSlice, LoadCount, LoadCountAbove, EndSlice, PushOK,
         PushFail, PushReplyLost
<1>6. CASE DelCounter
  <2>1. dUser \in Users /\ tcOf \in Conns \cup {None}
    BY <1>1, <1>6 DEF DelCounter, TrafficInv, DeleteInv, CounterTypes
  <2>2. slot' = slot \/ (tcOf # None /\ slot' = [slot EXCEPT ![tcOf][dUser] = None])
    BY <1>6 DEF DelCounter
  <2> QED
    BY <1>1, <2>1, <2>2, SlotSet
<1>7. ASSUME NEW v \in Users, DelUid(v) \/ AddUid(v) \/ CleanupIdle(v)
      PROVE  slot'[t][u] \in {slot[t][u], None}
  <2>1. tcOf \in Conns \cup {None}
    BY <1>1 DEF CounterTypes
  <2>2. slot' = slot \/ (tcOf # None /\ slot' = [slot EXCEPT ![tcOf][v] = None])
    BY <1>7 DEF DelUid, AddUid, CleanupIdle
  <2> QED
    BY <1>1, <2>1, <2>2, SlotSet
<1>8. CASE UNCHANGED vars
  BY <1>8 DEF vars
<1> QED
  BY <1>2, <1>3, <1>4, <1>5, <1>6, <1>7, <1>8 DEF Next, Connection

LEMMA SlotStep == TrafficInv /\ [Next]_vars => SlotInv'
<1> SUFFICES ASSUME TrafficInv, [Next]_vars, NEW t \in Conns, NEW u \in Users,
                    NEW s, s = slot'[t][u], s # None
             PROVE  Counts(s, u)'
  BY DEF SlotInv, Counts
<1>1. CASE s = slot[t][u]
  BY <1>1, CountsPersist DEF TrafficInv, SlotInv
<1>2. CASE s \in Conns /\ GetCounter(s) /\ user[s] = u
  <2>1. Counts(s, u)
    BY <1>2, Zenon DEF GetCounter, Counts
  <2> QED
    BY <2>1, CountsPersist, Zenon
<1>3. \/ slot'[t][u] \in {slot[t][u], None}
      \/ slot'[t][u] \in Conns /\ GetCounter(slot'[t][u]) /\ user[slot'[t][u]] = u
  BY SlotChange, Zenon
<1>4. s = slot[t][u] \/ (s \in Conns /\ GetCounter(s) /\ user[s] = u)
  BY <1>3, Zenon
<1> QED
  BY <1>1, <1>2, <1>4, Zenon

(* A link gets a storage of its own user, and a storage is only counted in  *)
(* by links, which none has before its connection is set up.                *)
LEMMA LinkStep == TrafficInv /\ [Next]_vars => LinkInv'
<1> SUFFICES ASSUME TrafficInv, [Next]_vars, NEW c \in Conns
             PROVE  /\ pc'[c] = "new" => count'[c] = 0
                    /\ pc'[c] # "new" => user'[c] \in Users
                    /\ pc'[c] = "open" => /\ storage'[c] \in Conns /\ pc'[storage'[c]] # "new"
                                          /\ user'[storage'[c]] = user'[c]
  BY DEF LinkInv, Counts
<1> USE DEF TrafficInv, TypeOK
<1>1. /\ pc[c] = "new" => count[c] = 0
      /\ pc[c] # "new" => user[c] \in Users
      /\ pc[c] = "open" => Counts(storage[c], user[c])
  BY DEF LinkInv
<1>2. pc[c] # "new" => pc'[c] # "new" /\ user'[c] = user[c]
  <2>1. pc[c] # "new" => Counts(c, user[c])
    BY DEF Counts
  <2> QED
    BY <2>1, CountsPersist DEF Counts
<1>3. ASSUME pc'[c] = "new" PROVE count'[c] = 0
  <2>1. pc[c] = "new"
    BY <1>2, <1>3
  <2>2. ASSUME NEW d \in Conns, Carry(d) PROVE count'[c] = count[c]
    <3>1. storage[d] # c
      BY <2>1, <2>2 DEF Carry, LinkInv, Counts
    <3> QED
      BY <2>2, <3>1 DEF Carry, CounterTypes
  <2>3. ASSUME NEW d \in Conns, Connection(d), ~Carry(d) PROVE count' = count
    BY <2>3 DEF Connection, LoadCounter, StoreCounter, GetCounter, CloseLink
  <2>4. CASE Report
    <3>1. CASE ResetCount
      BY <1>1, <2>1, <3>1 DEF ResetCount, StoreZero, CounterTypes
    <3>2. CASE ~ResetCount
      BY <1>1, <2>1, <2>4, <3>2 DEF Report, BeginSlice, LoadCount, LoadCountAbove, EndSlice,
             PushOK, PushFail, PushReplyLost
    <3> QED
      BY <3>1, <3>2
  <2>5. CASE DelCounter \/ \E v \in Users : DelUid(v) \/ AddUid(v) \/ CleanupIdle(v)
    BY <1>1, <2>1, <2>5 DEF DelCounter, DelUid, AddUid, CleanupIdle
  <2>6. CASE UNCHANGED vars
    BY <1>1, <2>1, <2>6 DEF vars
  <2> QED
    BY <1>1, <2>1, <2>2, <2>3, <2>4, <2>5, <2>6 DEF Next
<1>4. ASSUME NEW d \in Conns, Connection(d), d # c
      PROVE  pc'[c] = pc[c] /\ user'[c] = user[c] /\ storage'[c] = storage[c]
  BY <1>4 DEF Connection, LoadCounter, StoreCounter, GetCounter, Carry, CloseLink, Goto,
         connVars, LinkTypes
<1>5. ASSUME ~Connection(c)
      PROVE  pc'[c] = pc[c] /\ user'[c] = user[c] /\ storage'[c] = storage[c]
  <2>1. CASE Report
    BY <2>1 DEF Report, BeginSlice, LoadCount, LoadCountAbove, ResetCount, EndSlice, PushOK,
           PushFail, PushReplyLost, connVars
  <2>2. CASE DelCounter \/ \E v \in Users : DelUid(v) \/ AddUid(v) \/ CleanupIdle(v)
    BY <2>2 DEF DelCounter, DelUid, AddUid, CleanupIdle, connVars
  <2>3. CASE UNCHANGED vars
    BY <2>3 DEF vars, connVars
  <2> QED
    BY <1>4, <1>5, <2>1, <2>2, <2>3 DEF Next
<1>6. ASSUME pc'[c] # "new" PROVE user'[c] \in Users
  <2>1. CASE pc[c] # "new"
    BY <1>1, <1>2, <2>1
  <2>2. CASE pc[c] = "new"
    <3>1. Connection(c)
      BY <1>5, <1>6, <2>2
    <3>2. PICK u \in Users : LoadCounter(c, u)
      BY <2>2, <3>1 DEF Connection, StoreCounter, GetCounter, Carry, CloseLink
    <3> QED
      BY <3>2 DEF LoadCounter, LinkTypes
  <2> QED
    BY <2>1, <2>2
<1>7. ASSUME pc'[c] = "open"
      PROVE  /\ storage'[c] \in Conns /\ pc'[storage'[c]] # "new"
             /\ user'[storage'[c]] = user'[c]
  <2>1. CASE pc[c] = "open"
    <3>1. storage'[c] = storage[c]
      <4>1. CASE Connection(c)
        BY <2>1, <4>1 DEF Connection, LoadCounter, StoreCounter, GetCounter, Carry, CloseLink,
               connVars
      <4> QED
        BY <1>5, <4>1
    <3>2. user'[c] = user[c]
      BY <1>2, <2>1
    <3>3. PICK s, u : s = storage[c] /\ u = user[c] /\ Counts(s, u)
      BY <1>1, <2>1
    <3>4. Counts(s, u)'
      BY <3>3, CountsPersist
    <3> QED
      BY <3>1, <3>2, <3>3, <3>4 DEF Counts
  <2>2. CASE pc[c] # "open"
    <3>1. Connection(c)
      BY <1>5, <1>7, <2>2
    <3>2. GetCounter(c)
      <4>1. ASSUME NEW u \in Users, LoadCounter(c, u) PROVE FALSE
        BY <1>7, <4>1 DEF LoadCounter, Goto, LinkTypes
      <4>2. ~StoreCounter(c)
        BY <1>7 DEF StoreCounter, Goto, LinkTypes
      <4> QED
        BY <2>2, <3>1, <4>1, <4>2 DEF Connection, Carry, CloseLink
    <3>3. PICK x \in Conns :
            /\ x = IF slot[tc[c]][user[c]] = None THEN c ELSE slot[tc[c]][user[c]]
            /\ storage' = [storage EXCEPT ![c] = x]
      BY <3>2, GetCounterGives
    <3>4. tc[c] \in Conns /\ user[c] \in Users /\ pc[c] # "new"
      BY <3>2, GetCounterGives DEF GetCounter
    <3>5. PICK u : u = user[c] /\ Counts(x, u)
      BY <3>3, <3>4 DEF SlotInv, Counts
    <3>6. Counts(x, u)'
      BY <3>5, CountsPersist
    <3>7. user'[c] = user[c] /\ storage'[c] = x
      BY <1>2, <3>3, <3>4 DEF LinkTypes
    <3> QED
      BY <3>5, <3>6, <3>7 DEF Counts
  <2> QED
    BY <2>1, <2>2
<1> QED
  BY <1>3, <1>6, <1>7

(* The report resets what it has read: nobody else takes a byte out of a    *)
(* storage, and the links only add.                                         *)
LEMMA ReportStep == TrafficInv /\ [Next]_vars => ReportInv'
<1> SUFFICES ASSUME TrafficInv, [Next]_vars PROVE ReportInv'
  OBVIOUS
<1> USE DEF TrafficInv, TypeOK
<1>1. ASSUME UNCHANGED <<rpc, rtc, cur, found, loaded>>,
             rpc = "reset" => count'[found] >= count[found]
      PROVE  ReportInv'
  <2>1. ASSUME rpc = "reset"
        PROVE  cur \in Users /\ Counts(found, cur) /\ loaded =< count[found]
    BY <2>1 DEF ReportInv
  <2>2. ASSUME rpc = "reset" PROVE loaded =< count'[found]
    <3>1. count[found] \in Nat /\ count'[found] \in Nat /\ loaded \in Nat
      <4>1. found \in Conns
        BY <2>1, <2>2 DEF Counts
      <4> QED
        BY <4>1, CounterTypesStep, TrafficAssumption DEF CounterTypes, ReportTypes, Amounts
    <3> QED
      BY <1>1, <2>1, <2>2, <3>1
  <2>3. ASSUME rpc = "reset" PROVE pc'[found] # "new" /\ user'[found] = cur /\ found \in Conns
    <3>1. PICK s, u : s = found /\ u = cur /\ Counts(s, u)
      BY <2>1, <2>3
    <3>2. Counts(s, u)'
      BY <3>1, CountsPersist
    <3> QED
      BY <3>1, <3>2 DEF Counts
  <2> QED
    BY <1>1, <2>1, <2>2, <2>3 DEF ReportInv, Counts
<1>2. ASSUME NEW c \in Conns, Connection(c) PROVE ReportInv'
  <2>1. UNCHANGED <<rpc, rtc, cur, found, loaded>>
    BY <1>2 DEF Connection, LoadCounter, StoreCounter, GetCounter, Carry, CloseLink, repVars
  <2>2. ASSUME rpc = "reset" PROVE count'[found] >= count[found]
    <3>1. found \in Conns /\ count[found] \in Nat
      BY <2>2, TrafficAssumption DEF ReportInv, Counts, CounterTypes, Amounts
    <3>2. CASE Carry(c)
      <4>1. count'[found] \in {count[found], count[found] + 1}
        BY <3>1, <3>2 DEF Carry, CounterTypes
      <4> QED
        BY <3>1, <4>1
    <3>3. CASE ~Carry(c)
      <4>1. count' = count
        BY <1>2, <3>3 DEF Connection, LoadCounter, StoreCounter, GetCounter, CloseLink
      <4> QED
        BY <3>1, <4>1
    <3> QED
      BY <3>2, <3>3
  <2> QED
    BY <1>1, <2>1, <2>2
<1>3. ASSUME count' = count PROVE rpc = "reset" => count'[found] >= count[found]
  BY <1>3, TrafficAssumption DEF ReportInv, Counts, CounterTypes, Amounts
<1>4. CASE Report
  <2>1. CASE BeginSlice
    BY <2>1 DEF BeginSlice, ReportInv, CounterTypes
  <2>2. ASSUME NEW u \in Users, LoadCount(u) PROVE ReportInv'
    <3>0. count' = count /\ rtc' = rtc /\ UNCHANGED <<pc, user>>
      BY <2>2 DEF LoadCount, LoadCountAbove, connVars
    <3>1. CASE UNCHANGED <<found, loaded, cur, rpc>>
      BY <1>1, <1>3, <3>0, <3>1
    <3>2. CASE ~UNCHANGED <<found, loaded, cur, rpc>>
      <4> DEFINE s == slot[rtc][u]
      <4>1. /\ s # None /\ found' = s /\ loaded' = count[s] /\ cur' = u /\ rpc' = "reset"
            /\ rpc = "range"
        BY <2>2, <3>2 DEF LoadCount, LoadCountAbove
      <4>2. rtc \in Conns /\ Counts(s, u)
        BY <4>1 DEF ReportInv, SlotInv
      <4>3. count[s] \in Nat
        BY <4>2, TrafficAssumption DEF Counts, CounterTypes, Amounts
      <4> QED
        BY <3>0, <4>1, <4>2, <4>3 DEF ReportInv, Counts
    <3> QED
      BY <3>1, <3>2
  <2>3. CASE ResetCount \/ EndSlice \/ PushOK \/ PushFail
    BY <2>3 DEF ResetCount, EndSlice, PushOK, PushFail, ReportInv
  <2>4. CASE PushReplyLost
    BY <1>1, <2>4 DEF PushReplyLost, repVars
  <2> QED
    BY <1>4, <2>1, <2>2, <2>3, <2>4 DEF Report
<1>5. CASE DelCounter \/ \E v \in Users : DelUid(v) \/ AddUid(v) \/ CleanupIdle(v)
  <2>1. count' = count /\ UNCHANGED <<rpc, rtc, cur, found, loaded>>
    BY <1>5 DEF DelCounter, DelUid, AddUid, CleanupIdle, repVars
  <2> QED
    BY <1>1, <1>3, <2>1
<1>6. CASE UNCHANGED vars
  <2>1. count' = count /\ UNCHANGED <<rpc, rtc, cur, found, loaded>>
    BY <1>6 DEF vars, repVars
  <2> QED
    BY <1>1, <1>3, <2>1
<1> QED
  BY <1>2, <1>4, <1>5, <1>6 DEF Next

-----------------------------------------------------------------------------
(* What is held changes with the counters only: a connection that gets its  *)
(* user has not counted anything.                                           *)
LEMMA HeldUnchanged ==
    ASSUME TrafficInv, [Next]_vars, count' = count, NEW u \in Users
    PROVE  Held(u)' = Held(u)
<1>1. ASSUME NEW s \in Conns PROVE user'[s] = user[s] \/ count[s] = 0
  <2>1. CASE pc[s] = "new"
    BY <2>1 DEF TrafficInv, LinkInv
  <2>2. CASE pc[s] # "new"
    <3>1. PICK v : v = user[s] /\ Counts(s, v)
      BY <2>2 DEF Counts
    <3>2. Counts(s, v)'
      BY <3>1, CountsPersist
    <3> QED
      BY <3>1, <3>2 DEF Counts
  <2> QED
    BY <2>1, <2>2
<1>2. ASSUME NEW b \in Conns \X (1..MaxBytes)
      PROVE  (user'[b[1]] = u /\ b[2] =< count[b[1]]) <=> (user[b[1]] = u /\ b[2] =< count[b[1]])
  <2>1. b[1] \in Conns /\ b[2] \in 1..MaxBytes
    OBVIOUS
  <2>2. count[b[1]] = 0 => ~(b[2] =< count[b[1]])
    BY <2>1, TrafficAssumption
  <2> QED
    BY <1>1, <2>1, <2>2
<1> QED
  BY <1>2 DEF Held

(* A byte that a link carries is one more that its user's counters hold,    *)
(* and no other user's.                                                     *)
LEMMA HeldCarry ==
    ASSUME TrafficInv, NEW c \in Conns, Carry(c), NEW u \in Users
    PROVE  Cardinality(Held(u)') =
             IF user[c] = u THEN Cardinality(Held(u)) + 1 ELSE Cardinality(Held(u))
<1> DEFINE s == storage[c]
           n == count[s] + 1
<1>1. s \in Conns /\ user[s] = user[c] /\ user[c] \in Users
  BY DEF Carry, TrafficInv, LinkInv, Counts
<1>2. count[s] \in Nat /\ MaxBytes \in Nat /\ n \in 1..MaxBytes
  <2>1. count[s] \in Nat /\ count[s] =< Cardinality(Held(user[c]))
    BY <1>1, BytesHeld DEF TrafficInv, TypeOK
  <2>2. Cardinality(Held(user[c])) =< carried[user[c]] /\ carried[user[c]] < MaxBytes
    <3>1. slice[user[c]] \in Nat /\ carried[user[c]] \in Nat
      BY <1>1 DEF TrafficInv, TypeOK, ReportTypes, CounterTypes, Amounts
    <3>2. slice[user[c]] + Cardinality(Held(user[c])) =< carried[user[c]]
      BY <1>1 DEF TrafficInv, LedgerInv
    <3> QED
      BY <3>1, <3>2, HeldFinite DEF Carry
  <2>3. carried[user[c]] \in Nat /\ Cardinality(Held(user[c])) \in Nat
    BY <1>1, HeldFinite DEF TrafficInv, TypeOK, CounterTypes, Amounts
  <2> QED
    BY <2>1, <2>2, <2>3, TrafficAssumption
<1>3. /\ count' = [count EXCEPT ![s] = n] /\ user' = user
      /\ count \in [Conns -> Amounts]
  BY DEF Carry, connVars, TrafficInv, TypeOK, CounterTypes
<1> HIDE DEF s, n
<1>4. ASSUME NEW b \in Conns \X (1..MaxBytes)
      PROVE  b \in Held(u)' <=> b \in Held(u) \/ (user[s] = u /\ b = <<s, n>>)
  <2>1. b = <<b[1], b[2]>> /\ b[1] \in Conns /\ b[2] \in 1..MaxBytes
    OBVIOUS
  <2>2. /\ b \in Held(u)' <=> user[b[1]] = u /\ b[2] =< count'[b[1]]
        /\ b \in Held(u) <=> user[b[1]] = u /\ b[2] =< count[b[1]]
    BY <1>3 DEF Held
  <2>3. CASE b[1] # s
    BY <1>1, <1>3, <2>1, <2>2, <2>3
  <2>4. CASE b[1] = s
    <3>1. count'[b[1]] = n /\ n = count[s] + 1
      BY <1>1, <1>3, <2>4 DEF n
    <3>2. b[2] =< n <=> b[2] =< count[s] \/ b[2] = n
      BY <1>2, <2>1, <3>1
    <3> QED
      BY <2>1, <2>2, <2>4, <3>1, <3>2
  <2> QED
    BY <2>3, <2>4
<1>5. Held(u) \subseteq Conns \X (1..MaxBytes) /\ Held(u)' \subseteq Conns \X (1..MaxBytes)
  BY DEF Held
<1>6. CASE user[s] = u
  <2>1. <<s, n>> \in Conns \X (1..MaxBytes) /\ <<s, n>> \notin Held(u)
    BY <1>1, <1>2 DEF Held, n
  <2>2. Held(u)' = Held(u) \cup {<<s, n>>}
    BY <1>4, <1>5, <1>6, <2>1
  <2> QED
    BY <1>1, <1>6, <2>1, <2>2, HeldFinite, FS_AddElement
<1>7. CASE user[s] # u
  <2>1. Held(u)' = Held(u)
    BY <1>4, <1>5, <1>7
  <2> QED
    BY <1>1, <1>7, <2>1
<1> QED
  BY <1>6, <1>7

(* Store(0) takes out all the bytes of the storage that was read.           *)
LEMMA HeldReset ==
    ASSUME TrafficInv, ResetCount, NEW u \in Users
    PROVE  /\ cur = u => Cardinality(Held(u)') + count[found] = Cardinality(Held(u))
           /\ cur # u => Held(u)' = Held(u)
<1>1. found \in Conns /\ user[found] = cur
  BY DEF ResetCount, TrafficInv, ReportInv, Counts
<1>2. count[found] \in Nat /\ Bytes(found, count[found]) \subseteq Held(user[found])
  BY <1>1, BytesHeld DEF TrafficInv, TypeOK
<1>3. count' = [count EXCEPT ![found] = 0] /\ user' = user /\ count \in [Conns -> Amounts]
  BY DEF ResetCount, StoreZero, connVars, TrafficInv, TypeOK, CounterTypes
<1>4. ASSUME NEW b \in Conns \X (1..MaxBytes)
      PROVE  b \in Held(u)' <=> b \in Held(u) /\ b[1] # found
  <2>1. b[1] \in Conns /\ b[2] \in 1..MaxBytes
    OBVIOUS
  <2>2. /\ b \in Held(u)' <=> user[b[1]] = u /\ b[2] =< count'[b[1]]
        /\ b \in Held(u) <=> user[b[1]] = u /\ b[2] =< count[b[1]]
    BY <1>3 DEF Held
  <2>3. CASE b[1] # found
    BY <1>1, <1>3, <2>1, <2>2, <2>3
  <2>4. CASE b[1] = found
    <3>1. count'[b[1]] = 0
      BY <1>1, <1>3, <2>4
    <3>2. ~(b[2] =< 0)
      BY <2>1, TrafficAssumption
    <3> QED
      BY <2>2, <2>4, <3>1, <3>2
  <2> QED
    BY <2>3, <2>4
<1>5. Held(u) \subseteq Conns \X (1..MaxBytes) /\ Held(u)' \subseteq Conns \X (1..MaxBytes)
  BY DEF Held
<1>6. ASSUME cur = u PROVE Cardinality(Held(u)') + count[found] = Cardinality(Held(u))
  <2> DEFINE B == Bytes(found, count[found])
  <2>1. IsFiniteSet(B) /\ Cardinality(B) = count[found]
    BY <1>2, BytesCardinality
  <2>2. ASSUME NEW b \in Held(u), b[1] = found PROVE b \in B
    <3>1. b = <<b[1], b[2]>> /\ b[2] \in 1..MaxBytes /\ b[2] =< count[found]
      BY <2>2 DEF Held
    <3>2. b[2] \in 1..count[found]
      BY <1>2, <3>1, TrafficAssumption
    <3> QED
      BY <2>2, <3>1, <3>2 DEF Bytes
  <2>3. \A b \in B : b[1] = found
    BY DEF Bytes
  <2>4. B \subseteq Held(u)
    BY <1>1, <1>2, <1>6
  <2> HIDE DEF B
  <2>5. Held(u) = Held(u)' \cup B /\ Held(u)' \cap B = {}
    BY <1>4, <1>5, <2>2, <2>3, <2>4
  <2>6. IsFiniteSet(Held(u)') /\ Cardinality(Held(u)') \in Nat
    BY <2>5, HeldFinite, FS_Subset, FS_CardinalityType
  <2>7. Cardinality(Held(u)' \cup B)
          = Cardinality(Held(u)') + Cardinality(B) - Cardinality(Held(u)' \cap B)
    BY <2>1, <2>6, FS_Union
  <2>8. Cardinality(Held(u)' \cap B) = 0
    BY <2>5, FS_EmptySet
  <2>9. Cardinality(Held(u)) = Cardinality(Held(u)' \cup B)
    BY <2>5
  <2> QED
    BY <1>2, <2>1, <2>6, <2>7, <2>8, <2>9
<1>7. ASSUME cur # u PROVE Held(u)' = Held(u)
  <2>1. \A b \in Held(u) : b[1] # found
    BY <1>1, <1>7 DEF Held
  <2> QED
    BY <1>4, <1>5, <2>1
<1> QED
  BY <1>6, <1>7

(* What one user is owed stays within what was carried, in every step.      *)
LEMMA LedgerStep == TrafficInv /\ [Next]_vars => LedgerInv'
<1> SUFFICES ASSUME TrafficInv, [Next]_vars, NEW u \in Users
             PROVE  /\ slice'[u] + Cardinality(Held(u)') =< carried'[u]
                    /\ lostReplies' = 0 =>
                         panel'[u] + slice'[u] + Cardinality(Held(u)') =< carried'[u]
  BY DEF LedgerInv, NeverOverCharged
<1> DEFINE h == Cardinality(Held(u))
           k == Cardinality(Held(u)')
<1>1. h \in Nat
  BY HeldFinite
<1>2. panel[u] \in Nat /\ slice[u] \in Nat /\ carried[u] \in Nat /\ loaded \in Nat
  BY DEF TrafficInv, TypeOK, ReportTypes, CounterTypes, Amounts
<1>3. /\ slice[u] + h =< carried[u]
      /\ lostReplies = 0 => panel[u] + slice[u] + h =< carried[u]
  BY DEF TrafficInv, LedgerInv, NeverOverCharged
<1>4. count' = count => k = h
  BY HeldUnchanged
<1> HIDE DEF h, k
<1>5. SUFFICES /\ slice'[u] + k =< carried'[u]
               /\ lostReplies' = 0 => panel'[u] + slice'[u] + k =< carried'[u]
  BY DEF k
<1>6. ASSUME count' = count, UNCHANGED <<panel, lostReplies, carried>>, slice'[u] \in {slice[u], 0}
      PROVE  /\ slice'[u] + k =< carried'[u]
             /\ lostReplies' = 0 => panel'[u] + slice'[u] + k =< carried'[u]
  BY <1>1, <1>2, <1>3, <1>4, <1>6
<1>7. ASSUME NEW c \in Conns, Carry(c)
      PROVE  /\ slice'[u] + k =< carried'[u]
             /\ lostReplies' = 0 => panel'[u] + slice'[u] + k =< carried'[u]
  <2>1. k = IF user[c] = u THEN h + 1 ELSE h
    BY <1>7, HeldCarry DEF h, k
  <2>2. carried'[u] = IF user[c] = u THEN carried[u] + 1 ELSE carried[u]
    BY <1>7 DEF Carry, TrafficInv, TypeOK, CounterTypes
  <2>3. UNCHANGED <<slice, panel, lostReplies>>
    BY <1>7 DEF Carry, repVars, panelVars
  <2> QED
    BY <1>1, <1>2, <1>3, <2>1, <2>2, <2>3
<1>8. CASE ResetCount
  <2>1. UNCHANGED <<panel, lostReplies, carried>>
    BY <1>8 DEF ResetCount, panelVars
  <2>2. CASE cur # u
    <3>1. k = h
      BY <1>8, <2>2, HeldReset DEF h, k
    <3>2. slice'[u] = slice[u]
      BY <1>8, <2>2 DEF ResetCount, TrafficInv, TypeOK, ReportTypes
    <3> QED
      BY <1>1, <1>2, <1>3, <2>1, <3>1, <3>2
  <2>3. CASE cur = u
    <3>1. k + count[found] = h
      BY <1>8, <2>3, HeldReset DEF h, k
    <3>2. slice'[u] \in {slice[u], loaded}
      BY <1>8, <2>3 DEF ResetCount, TrafficInv, TypeOK, ReportTypes
    <3>3. loaded =< count[found] /\ count[found] \in Nat
      BY <1>8, BytesHeld DEF ResetCount, TrafficInv, ReportInv, Counts, TypeOK
    <3>4. k \in Nat
      <4>1. Held(u)' \in SUBSET (Conns \X (1..MaxBytes))
        BY DEF Held
      <4> QED
        BY <4>1, SomeBytesFinite DEF k
    <3> QED
      BY <1>1, <1>2, <1>3, <2>1, <3>1, <3>2, <3>3, <3>4
  <2> QED
    BY <2>2, <2>3
<1>9. CASE PushOK
  <2>1. /\ panel'[u] = panel[u] + slice[u] /\ slice'[u] = 0
        /\ UNCHANGED <<count, lostReplies, carried>>
    BY <1>9 DEF PushOK, Credit, Zero
  <2> QED
    BY <1>1, <1>2, <1>3, <1>4, <2>1
<1>10. CASE PushReplyLost
  <2>1. lostReplies' # 0 /\ UNCHANGED <<slice, count, carried>>
    BY <1>10, TrafficAssumption DEF PushReplyLost, repVars, TrafficInv, TypeOK, ReportTypes
  <2> QED
    BY <1>3, <1>4, <2>1
<1>11. CASE BeginSlice \/ EndSlice \/ PushFail \/ \E v \in Users : LoadCount(v)
  <2>1. /\ count' = count /\ UNCHANGED <<panel, lostReplies, carried>>
        /\ slice'[u] \in {slice[u], 0}
    BY <1>11 DEF BeginSlice, EndSlice, PushFail, LoadCount, LoadCountAbove, panelVars, Zero
  <2> QED
    BY <1>6, <2>1
<1>12. ASSUME NEW c \in Conns, Connection(c), ~Carry(c)
       PROVE  /\ slice'[u] + k =< carried'[u]
              /\ lostReplies' = 0 => panel'[u] + slice'[u] + k =< carried'[u]
  <2>1. count' = count /\ UNCHANGED <<panel, lostReplies, carried, slice>>
    BY <1>12 DEF Connection, LoadCounter, StoreCounter, GetCounter, CloseLink, repVars, panelVars
  <2> QED
    BY <1>6, <2>1
<1>13. CASE DelCounter \/ \E v \in Users : DelUid(v) \/ AddUid(v) \/ CleanupIdle(v)
  <2>1. count' = count /\ UNCHANGED <<panel, lostReplies, carried, slice>>
    BY <1>13 DEF DelCounter, DelUid, AddUid, CleanupIdle, repVars, panelVars
  <2> QED
    BY <1>6, <2>1
<1>14. CASE UNCHANGED vars
  <2>1. count' = count /\ UNCHANGED <<panel, lostReplies, carried, slice>>
    BY <1>14 DEF vars, repVars, panelVars
  <2> QED
    BY <1>6, <2>1
<1> QED
  BY <1>7, <1>8, <1>9, <1>10, <1>11, <1>12, <1>13, <1>14 DEF Next, Report

LEMMA TrafficInvAlways == Spec => []TrafficInv
<1>1. Init => TrafficInv
  <2> SUFFICES ASSUME Init PROVE TrafficInv
    OBVIOUS
  <2> USE TrafficAssumption DEF Init, Zero, Amounts
  <2>1. CounterTypes /\ LinkTypes /\ DeleteTypes
    BY DEF CounterTypes, LinkTypes, DeleteTypes
  <2>2. ReportTypes
    BY DEF ReportTypes
  <2>3. LinkInv /\ SlotInv /\ ReportInv /\ DeleteInv
    BY DEF LinkInv, SlotInv, ReportInv, DeleteInv
  <2>4. ASSUME NEW u \in Users PROVE Held(u) = {}
    BY DEF Held
  <2>5. LedgerInv
    BY <2>4, FS_EmptySet DEF LedgerInv, NeverOverCharged
  <2> QED
    BY <2>1, <2>2, <2>3, <2>5 DEF TrafficInv, TypeOK
<1>2. TrafficInv /\ [Next]_vars => TrafficInv'
  BY CounterTypesStep, LinkTypesStep, ReportTypesStep, DeleteTypesStep, SlotStep, LinkStep,
     ReportStep, LedgerStep DEF TrafficInv, TypeOK
<1> QED
  BY <1>1, <1>2, PTL DEF Spec

(* No counter exceeds what was carried, and an open link always has a       *)
(* storage to count in, whatever is reset, deleted or replaced meanwhile    *)
(* (getLink, default.go 310-328).                                           *)
THEOREM TrafficTypeCorrect == Spec => []TypeOK
<1>1. TrafficInv => TypeOK
  BY DEF TrafficInv
<1> QED
  BY <1>1, TrafficInvAlways, PTL

(* As long as no reply of the panel is lost, no user is charged for more    *)
(* than the user's links carried: the reset takes out of a counter at least *)
(* what is reported, although links count, users are deleted and counters   *)
(* replaced between its two steps (GetUserTrafficSlice, user.go).           *)
THEOREM UsersAreNeverOverCharged == Spec => []NeverOverCharged
<1>1. TrafficInv => NeverOverCharged
  BY DEF TrafficInv, LedgerInv
<1> QED
  BY <1>1, TrafficInvAlways, PTL
=============================================================================
