----------------------------- MODULE LinksProofs -----------------------------
(* The link managers of the dispatcher, for any connections and users. *)
EXTENDS Links, FiniteSetTheorems, TLAPS

(* DelUsers and the loop work on a user, and whoever is about to call       *)
(* CloseAll has loaded a manager.  TypeOK says the same of the connections. *)
ClosersHaveManager ==
    /\ dpc # "idle" => dUser # None
    /\ kpc # "idle" => kUser # None
    /\ dpc = "close" => dMgr # None
    /\ kpc = "close" => kMgr # None

TypeInv == TypeOK /\ ClosersHaveManager

(* CloseAll, whatever it finds, keeps the types of what it changes.         *)
LEMMA CloseAllTypes ==
    ASSUME TypeOK, NEW m \in Conns, NEW who \in Closers, CloseAll(m, who)
    PROVE  /\ index' \in [Conns -> SUBSET Conns] /\ len' \in [Conns -> Int]
           /\ closers' \in [Conns -> SUBSET Closers] /\ down' \in BOOLEAN
           /\ pc' \in [Conns -> {"new", "store", "mark", "add", "open", "cut", "closed"}]
           /\ \A c \in Conns : pc'[c] = pc[c] \/ pc'[c] = "cut"
<1>1. closers' \in [Conns -> SUBSET Closers]
  BY DEF CloseAll, TypeOK
<1>2. index' \in [Conns -> SUBSET Conns] /\ len' \in [Conns -> Int]
  BY DEF CloseAll, TypeOK
<1>4. down' \in BOOLEAN
  BY Zenon DEF CloseAll, TypeOK
<1>3. /\ pc' \in [Conns -> {"new", "store", "mark", "add", "open", "cut", "closed"}]
      /\ \A c \in Conns : pc'[c] = pc[c] \/ pc'[c] = "cut"
  BY DEF CloseAll, TypeOK
<1> QED
  BY <1>1, <1>2, <1>3, <1>4

(* The type invariant, with the managers about to be closed, is inductive:  *)
(* getLinkManager, DelUsers and the cleanup loop only go on to use a        *)
(* manager they have.                                                       *)
LEMMA TypeInvInductive == TypeInv /\ [Next]_vars => TypeInv'
<1> SUFFICES ASSUME TypeInv, [Next]_vars PROVE TypeInv'
  OBVIOUS
<1> USE LinksAssumption DEF TypeInv, TypeOK, ClosersHaveManager, Goto, ConnAt, DelAt, LoopAt,
        mgrVars, connVars, delVars, loopVars
<1>1. ASSUME NEW c \in Conns, NEW u \in Users, GetLinkManager(c, u) PROVE TypeInv'
  BY <1>1 DEF GetLinkManager
<1>2. ASSUME NEW c \in Conns, StoreLinkManager(c) PROVE TypeInv'
  BY <1>2 DEF StoreLinkManager
<1>3. ASSUME NEW c \in Conns, MarkUserActive(c) PROVE TypeInv'
  BY <1>3 DEF MarkUserActive
<1>4. ASSUME NEW c \in Conns, AddLink(c) PROVE TypeInv'
  BY <1>4 DEF AddLink
<1>5. ASSUME NEW c \in Conns, RemoveWriter(c) PROVE TypeInv'
  <2>1. index' \in [Conns -> SUBSET Conns]
    BY <1>5 DEF RemoveWriter
  <2>2. len' \in [Conns -> Int]
    <3>1. CASE mgr[c] \in Conns
      BY <1>5, <3>1 DEF RemoveWriter
    <3>2. CASE mgr[c] = None
      BY <1>5, <3>2 DEF RemoveWriter
    <3> QED
      BY <3>1, <3>2
  <2> QED
    BY <1>5, <2>1, <2>2 DEF RemoveWriter
<1>6. ASSUME NEW u \in Users, DelUser(u) \/ AddUser(u) PROVE TypeInv'
  BY <1>6 DEF DelUser, AddUser
<1>7. CASE DelLoad
  BY <1>7 DEF DelLoad
<1>8. CASE DelCloseAll
  <2>1. CloseAll(dMgr, "DelUsers") /\ dMgr \in Conns
    BY <1>8 DEF DelCloseAll
  <2>2. TypeOK
    OBVIOUS
  <2> HIDE DEF TypeOK
  <2>3. /\ index' \in [Conns -> SUBSET Conns] /\ len' \in [Conns -> Int]
        /\ closers' \in [Conns -> SUBSET Closers] /\ down' \in BOOLEAN
        /\ pc' \in [Conns -> {"new", "store", "mark", "add", "open", "cut", "closed"}]
        /\ \A c \in Conns : pc'[c] = pc[c] \/ pc'[c] = "cut"
    BY <2>1, <2>2, CloseAllTypes DEF Closers
  <2> QED
    BY <1>8, <2>3 DEF DelCloseAll, TypeOK
<1>9. CASE DelDelete
  BY <1>9 DEF DelDelete
<1>10. ASSUME NEW u \in Users, Idle(u) \/ LoopVisit(u) PROVE TypeInv'
  BY <1>10 DEF Idle, LoopVisit
<1>11. CASE LoopState
  BY <1>11 DEF LoopState
<1>12. CASE LoopLoad
  BY <1>12 DEF LoopLoad
<1>13. CASE LoopCloseAll
  <2>1. CloseAll(kMgr, "userCleanupLoop") /\ kMgr \in Conns
    BY <1>13 DEF LoopCloseAll
  <2>2. TypeOK
    OBVIOUS
  <2> HIDE DEF TypeOK
  <2>3. /\ index' \in [Conns -> SUBSET Conns] /\ len' \in [Conns -> Int]
        /\ closers' \in [Conns -> SUBSET Closers] /\ down' \in BOOLEAN
        /\ pc' \in [Conns -> {"new", "store", "mark", "add", "open", "cut", "closed"}]
        /\ \A c \in Conns : pc'[c] = pc[c] \/ pc'[c] = "cut"
    BY <2>1, <2>2, CloseAllTypes DEF Closers
  <2> QED
    BY <1>13, <2>3 DEF LoopCloseAll, TypeOK
<1>14. CASE LoopDelete
  BY <1>14 DEF LoopDelete
<1>15. CASE LoopForget
  BY <1>15 DEF LoopForget
<1>16. CASE UNCHANGED vars
  BY <1>16 DEF vars
<1> QED
  BY <1>1, <1>2, <1>3, <1>4, <1>5, <1>6, <1>7, <1>8, <1>9, <1>10, <1>11,
     <1>12, <1>13, <1>14, <1>15, <1>16
     DEF Next, Connection, DelUsers, CleanupLoop

LEMMA InitTypeInv == Init => TypeInv
<1> SUFFICES ASSUME Init PROVE TypeInv
  OBVIOUS
<1>1. deletes \in 0..MaxDeletes
  BY LinksAssumption DEF Init
<1>2. len \in [Conns -> Int] /\ index \in [Conns -> SUBSET Conns]
      /\ closers \in [Conns -> SUBSET Closers]
  BY DEF Init
<1> QED
  BY <1>1, <1>2, ZenonT(30) DEF Init, TypeInv, TypeOK, ClosersHaveManager

(* The dispatcher's maps keep their types, and a connection that uses a     *)
(* link manager has one.                                                    *)
THEOREM LinksTypeCorrect == Spec => []TypeOK
<1>1. Init => TypeInv
  BY InitTypeInv
<1>2. TypeInv => TypeOK
  BY DEF TypeInv
<1> QED
  BY <1>1, <1>2, TypeInvInductive, PTL DEF Spec

-----------------------------------------------------------------------------
(* Who has closed what.  A manager is stored for one user, by the           *)
(* connection whose name it has; a closer that has closed a manager found   *)
(* in LinkManagers is about to delete it there, and so never comes to it    *)
(* again.                                                                   *)
Unused(c) ==
    /\ \A u \in Users : lmOf[u] # c
    /\ dMgr # c /\ kMgr # c
    /\ closers[c] = {}

OwnerInv ==
    /\ \A c \in Conns : pc[c] \in {"new", "store"} => Unused(c)
    /\ \A u \in Users : lmOf[u] # None => user[lmOf[u]] = u
    /\ dpc \in {"close", "delete"} => user[dMgr] = dUser
    /\ kpc \in {"close", "delete"} => user[kMgr] = kUser

CloseOnceInv ==
    /\ dpc = "close" => "DelUsers" \notin closers[dMgr]
    /\ kpc = "close" => "userCleanupLoop" \notin closers[kMgr]
    /\ \A u \in Users :
         lmOf[u] # None /\ "DelUsers" \in closers[lmOf[u]] =>
             dpc = "delete" /\ dMgr = lmOf[u]
    /\ \A u \in Users :
         lmOf[u] # None /\ "userCleanupLoop" \in closers[lmOf[u]] =>
             kpc = "delete" /\ kMgr = lmOf[u]

CloserInv == OwnerInv /\ CloseOnceInv

LEMMA CloserStep == TypeInv /\ CloserInv /\ [Next]_vars => CloserInv'
<1> SUFFICES ASSUME TypeInv, CloserInv, [Next]_vars PROVE CloserInv'
  OBVIOUS
<1>1. /\ lmOf \in [Users -> Conns \cup {None}] /\ closers \in [Conns -> SUBSET Closers]
      /\ pc \in [Conns -> {"new", "store", "mark", "add", "open", "cut", "closed"}]
      /\ user \in [Conns -> Users \cup {None}] /\ None \notin Conns \cup Users
      /\ dMgr \in Conns \cup {None} /\ kMgr \in Conns \cup {None}
      /\ dUser \in Users \cup {None} /\ kUser \in Users \cup {None}
      /\ dpc = "close" => dMgr # None
      /\ kpc = "close" => kMgr # None
      /\ dpc # "idle" => dUser # None
      /\ kpc # "idle" => kUser # None
  BY LinksAssumption DEF TypeInv, TypeOK, ClosersHaveManager
<1> USE DEF CloserInv, OwnerInv, CloseOnceInv, Unused
<1>2. ASSUME NEW c \in Conns, NEW u \in Users, GetLinkManager(c, u) PROVE CloserInv'
  BY <1>1, <1>2 DEF GetLinkManager, ConnAt, Goto, mgrVars, delVars, loopVars
<1>3. ASSUME NEW c \in Conns, StoreLinkManager(c) PROVE CloserInv'
  BY <1>1, <1>3 DEF StoreLinkManager, ConnAt, Goto, mgrVars, delVars, loopVars
<1>4. ASSUME NEW c \in Conns, MarkUserActive(c) \/ AddLink(c) \/ RemoveWriter(c)
      PROVE  CloserInv'
  BY <1>1, <1>4 DEF MarkUserActive, AddLink, RemoveWriter, ConnAt, Goto, mgrVars, delVars, loopVars
<1>5. ASSUME NEW u \in Users, DelUser(u) PROVE CloserInv'
  BY <1>1, <1>5 DEF DelUser, DelAt, mgrVars, connVars, loopVars
<1>6. CASE DelLoad
  BY <1>1, <1>6 DEF DelLoad, DelAt, mgrVars, connVars, loopVars
<1>7. CASE DelCloseAll
  <2>1. /\ dpc = "close" /\ dpc' = "delete" /\ dMgr \in Conns
        /\ CloseAll(dMgr, "DelUsers") /\ UNCHANGED <<lmOf, user, mgr, dUser, dMgr, loopVars>>
    BY <1>1, <1>7 DEF DelCloseAll, DelAt
  <2>2. \A c \in Conns : pc'[c] = pc[c] \/ pc'[c] = "cut"
    BY <2>1, CloseAllTypes DEF TypeInv, Closers
  <2>3. closers' = [closers EXCEPT ![dMgr] = @ \cup {"DelUsers"}]
    BY <2>1 DEF CloseAll
  <2>4. OwnerInv'
    BY <1>1, <2>1, <2>2, <2>3 DEF loopVars
  <2>5. CloseOnceInv'
    BY <1>1, <2>1, <2>3 DEF loopVars
  <2> QED
    BY <2>4, <2>5
<1>8. CASE DelDelete
  BY <1>1, <1>8 DEF DelDelete, DelAt, mgrVars, connVars, loopVars
<1>9. ASSUME NEW u \in Users, AddUser(u) \/ Idle(u) PROVE CloserInv'
  BY <1>1, <1>9 DEF AddUser, Idle, DelAt, mgrVars, connVars, delVars, loopVars
<1>10. ASSUME NEW u \in Users, LoopVisit(u) PROVE CloserInv'
  BY <1>1, <1>10 DEF LoopVisit, LoopAt, mgrVars, connVars, delVars
<1>11. CASE LoopState \/ LoopLoad \/ LoopForget
  BY <1>1, <1>11 DEF LoopState, LoopLoad, LoopForget, LoopAt, mgrVars, connVars, delVars
<1>12. CASE LoopCloseAll
  <2>1. /\ kpc = "close" /\ kpc' = "delete" /\ kMgr \in Conns
        /\ CloseAll(kMgr, "userCleanupLoop")
        /\ UNCHANGED <<lmOf, user, mgr, kUser, kMgr, delVars>>
    BY <1>1, <1>12 DEF LoopCloseAll, LoopAt
  <2>2. \A c \in Conns : pc'[c] = pc[c] \/ pc'[c] = "cut"
    BY <2>1, CloseAllTypes DEF TypeInv, Closers
  <2>3. closers' = [closers EXCEPT ![kMgr] = @ \cup {"userCleanupLoop"}]
    BY <2>1 DEF CloseAll
  <2>4. OwnerInv'
    BY <1>1, <2>1, <2>2, <2>3 DEF delVars
  <2>5. CloseOnceInv'
    BY <1>1, <2>1, <2>3 DEF delVars
  <2> QED
    BY <2>4, <2>5
<1>13. CASE LoopDelete
  BY <1>1, <1>13 DEF LoopDelete, LoopAt, mgrVars, connVars, delVars
<1>14. CASE UNCHANGED vars
  BY <1>14 DEF vars, mgrVars, connVars, delVars, loopVars
<1> HIDE DEF CloserInv
<1> QED
  BY <1>2, <1>3, <1>4, <1>5, <1>6, <1>7, <1>8, <1>9, <1>10, <1>11, <1>12, <1>13, <1>14
     DEF Next, Connection, DelUsers, CleanupLoop

-----------------------------------------------------------------------------
(* What was cut belongs to a manager that was closed; before that, the list *)
(* is as long as the index, and never longer.                               *)
CutInv ==
    \A c \in Conns : pc[c] = "cut" => mgr[c] \in Conns /\ closers[mgr[c]] # {}

LengthInv ==
    \A m \in Conns :
        /\ IsFiniteSet(index[m])
        /\ len[m] =< Cardinality(index[m])
        /\ closers[m] = {} => len[m] = Cardinality(index[m])

IndexInv == IndexIsOpenLinks /\ CutInv /\ LengthInv /\ PanicNeedsBoth

(* Connections on their way to AddLink, and steps of the closers other than *)
(* CloseAll, leave the managers alone.                                      *)
LEMMA ManagersUntouched ==
    ASSUME TypeOK, IndexInv, UNCHANGED mgrVars,
           \A c \in Conns :
               \/ pc'[c] = pc[c] /\ mgr'[c] = mgr[c]
               \/ pc[c] \notin {"open", "cut"} /\ pc'[c] \notin {"open", "cut"}
    PROVE  IndexInv'
<1>1. index' = index /\ len' = len /\ closers' = closers /\ down' = down
  BY DEF mgrVars
<1>2. \A m \in Conns : OpenLinks(m)' = OpenLinks(m)
  BY DEF OpenLinks
<1>3. IndexIsOpenLinks'
  BY <1>1, <1>2 DEF IndexInv, IndexIsOpenLinks
<1>4. CutInv'
  BY <1>1 DEF IndexInv, CutInv
<1>5. LengthInv' /\ PanicNeedsBoth'
  BY <1>1 DEF IndexInv, LengthInv, PanicNeedsBoth
<1> QED
  BY <1>3, <1>4, <1>5 DEF IndexInv

(* The first CloseAll of a manager cuts exactly its links; a second one may *)
(* miss some, and may panic.                                                *)
LEMMA CloseAllStep ==
    ASSUME TypeOK, IndexInv, NEW m \in Conns, NEW who \in Closers, who \notin closers[m],
           CloseAll(m, who), mgr' = mgr
    PROVE  IndexInv'
<1>1. /\ index \in [Conns -> SUBSET Conns] /\ len \in [Conns -> Int]
      /\ closers \in [Conns -> SUBSET Closers]
      /\ pc \in [Conns -> {"new", "store", "mark", "add", "open", "cut", "closed"}]
  BY DEF TypeOK
<1>2. closers' = [closers EXCEPT ![m] = @ \cup {who}]
  BY DEF CloseAll
<1>3. closers[m] # Closers /\ closers'[m] # {} /\ (closers[m] # {} => closers'[m] = Closers)
  BY <1>1, <1>2 DEF Closers
<1>4. index[m] = OpenLinks(m)
  BY <1>3 DEF IndexInv, IndexIsOpenLinks
<1>5. IsFiniteSet({}) /\ Cardinality({}) = 0
  BY FS_EmptySet
<1>6. CASE len[m] \notin {0, Cardinality(index[m])} /\ UNCHANGED <<pc, index, len>>
  <2>1. closers[m] # {} /\ closers'[m] = Closers
    BY <1>3, <1>6 DEF IndexInv, LengthInv
  <2>2. \A n \in Conns : OpenLinks(n)' = OpenLinks(n)
    BY <1>6 DEF OpenLinks
  <2>3. \A n \in Conns : n # m => closers'[n] = closers[n]
    BY <1>1, <1>2
  <2>4. IndexIsOpenLinks'
    BY <1>6, <2>1, <2>2, <2>3 DEF IndexInv, IndexIsOpenLinks
  <2>5. CutInv'
    BY <1>3, <1>6, <2>3 DEF IndexInv, CutInv
  <2>6. LengthInv'
    BY <1>3, <1>6, <2>3 DEF IndexInv, LengthInv
  <2>7. PanicNeedsBoth'
    BY <2>1 DEF PanicNeedsBoth
  <2> QED
    BY <2>4, <2>5, <2>6, <2>7 DEF IndexInv
<1>7. ASSUME NEW S \in Found(m), pc' = [c \in Conns |-> IF c \in S THEN "cut" ELSE pc[c]],
             index' = [index EXCEPT ![m] = {}], len' = [len EXCEPT ![m] = 0], down' = down
      PROVE  IndexInv'
  <2>1. S \subseteq index[m] /\ (closers[m] = {} => S = index[m])
    BY <1>7 DEF Found, IndexInv, LengthInv
  <2>2. \A n \in Conns : n # m => index'[n] = index[n] /\ len'[n] = len[n] /\ closers'[n] = closers[n]
    BY <1>1, <1>2, <1>7
  <2>3. index'[m] = {} /\ len'[m] = 0
    BY <1>1, <1>7
  <2>4. \A n \in Conns : n # m => OpenLinks(n)' = OpenLinks(n)
    BY <1>1, <1>4, <1>7, <2>1 DEF OpenLinks
  <2>5. closers[m] = {} => OpenLinks(m)' = {}
    BY <1>1, <1>4, <1>7, <2>1 DEF OpenLinks
  <2>6. IndexIsOpenLinks'
    BY <1>3, <2>2, <2>3, <2>4, <2>5 DEF IndexInv, IndexIsOpenLinks
  <2>7. CutInv'
    <3> SUFFICES ASSUME NEW c \in Conns, pc'[c] = "cut"
                 PROVE  mgr[c] \in Conns /\ closers'[mgr[c]] # {}
      BY DEF CutInv
    <3>1. CASE c \in S
      BY <1>3, <1>4, <2>1, <3>1 DEF OpenLinks
    <3>2. CASE c \notin S
      BY <1>3, <1>7, <2>2, <3>2 DEF IndexInv, CutInv
    <3> QED
      BY <3>1, <3>2
  <2>8. LengthInv'
    <3> SUFFICES ASSUME NEW n \in Conns
                 PROVE  /\ IsFiniteSet(index'[n])
                        /\ len'[n] =< Cardinality(index'[n])
                        /\ closers'[n] = {} => len'[n] = Cardinality(index'[n])
      BY DEF LengthInv
    <3>1. CASE n = m
      <4>1. IsFiniteSet(index'[m]) /\ Cardinality(index'[m]) = 0
        BY <1>5, <2>3
      <4> QED
        BY <2>3, <3>1, <4>1
    <3>2. CASE n # m
      BY <2>2, <3>2 DEF IndexInv, LengthInv
    <3> QED
      BY <3>1, <3>2
  <2>9. PanicNeedsBoth'
    BY <1>3, <1>7, <2>2 DEF IndexInv, PanicNeedsBoth
  <2> QED
    BY <2>6, <2>7, <2>8, <2>9 DEF IndexInv
<1> QED
  BY <1>6, <1>7 DEF CloseAll

LEMMA AddLinkStep ==
    ASSUME TypeOK, IndexInv, NEW c \in Conns, AddLink(c)
    PROVE  IndexInv'
<1> DEFINE m == mgr[c]
<1>1. /\ index \in [Conns -> SUBSET Conns] /\ len \in [Conns -> Int] /\ m \in Conns
      /\ pc \in [Conns -> {"new", "store", "mark", "add", "open", "cut", "closed"}]
  BY DEF TypeOK, AddLink, ConnAt
<1>2. /\ pc[c] = "add" /\ pc' = [pc EXCEPT ![c] = "open"]
      /\ index' = [index EXCEPT ![m] = @ \cup {c}] /\ len' = [len EXCEPT ![m] = @ + 1]
      /\ UNCHANGED <<closers, down, mgr>>
  BY DEF AddLink, ConnAt, Goto
<1>3. c \notin index[m]
  BY <1>1, <1>2 DEF IndexInv, IndexIsOpenLinks, OpenLinks
<1>4. /\ \A n \in Conns : n # m => index'[n] = index[n] /\ len'[n] = len[n]
      /\ index'[m] = index[m] \cup {c} /\ len'[m] = len[m] + 1
  BY <1>1, <1>2
<1>5. /\ \A n \in Conns : n # m => OpenLinks(n)' = OpenLinks(n)
      /\ OpenLinks(m)' = OpenLinks(m) \cup {c}
  BY <1>1, <1>2 DEF OpenLinks
<1>6. IndexIsOpenLinks'
  BY <1>2, <1>4, <1>5 DEF IndexInv, IndexIsOpenLinks
<1>7. CutInv'
  BY <1>1, <1>2 DEF IndexInv, CutInv
<1>8. IsFiniteSet(index'[m]) /\ Cardinality(index'[m]) = Cardinality(index[m]) + 1
  <2>1. IsFiniteSet(index[m])
    BY <1>1 DEF IndexInv, LengthInv
  <2>2. /\ IsFiniteSet(index[m] \cup {c})
        /\ Cardinality(index[m] \cup {c}) =
             IF c \in index[m] THEN Cardinality(index[m]) ELSE Cardinality(index[m]) + 1
    BY <2>1, FS_AddElement, Zenon
  <2>3. index'[m] = index[m] \cup {c}
    BY <1>4
  <2> QED
    BY <1>3, <2>2, <2>3, Zenon
<1>9. Cardinality(index[m]) \in Nat
  BY <1>1, FS_CardinalityType DEF IndexInv, LengthInv
<1>10. len'[m] =< Cardinality(index'[m]) /\ (closers[m] = {} => len'[m] = Cardinality(index'[m]))
  <2>1. len[m] =< Cardinality(index[m]) /\ (closers[m] = {} => len[m] = Cardinality(index[m]))
    BY <1>1 DEF IndexInv, LengthInv
  <2>2. len[m] \in Int
    BY <1>1
  <2> QED
    BY <1>4, <1>8, <1>9, <2>1, <2>2
<1>11. LengthInv'
  BY <1>2, <1>4, <1>8, <1>10 DEF IndexInv, LengthInv
<1>12. PanicNeedsBoth'
  BY <1>2 DEF IndexInv, PanicNeedsBoth
<1> QED
  BY <1>6, <1>7, <1>11, <1>12 DEF IndexInv

LEMMA RemoveWriterStep ==
    ASSUME TypeOK, IndexInv, NEW c \in Conns, RemoveWriter(c)
    PROVE  IndexInv'
<1> DEFINE m == mgr[c]
<1>1. /\ index \in [Conns -> SUBSET Conns] /\ len \in [Conns -> Int] /\ m \in Conns
      /\ pc \in [Conns -> {"new", "store", "mark", "add", "open", "cut", "closed"}]
  BY DEF TypeOK, RemoveWriter, ConnAt, IndexInv, CutInv
<1>2. /\ pc[c] \in {"open", "cut"} /\ pc' = [pc EXCEPT ![c] = "closed"]
      /\ index' = [index EXCEPT ![m] = @ \ {c}] /\ len' = [len EXCEPT ![m] = @ - 1]
      /\ UNCHANGED <<closers, down, mgr>>
  BY DEF RemoveWriter, ConnAt, Goto
<1>3. /\ \A n \in Conns : n # m => index'[n] = index[n] /\ len'[n] = len[n]
      /\ index'[m] = index[m] \ {c} /\ len'[m] = len[m] - 1
  BY <1>1, <1>2
<1>4. /\ \A n \in Conns : n # m => OpenLinks(n)' = OpenLinks(n)
      /\ OpenLinks(m)' = OpenLinks(m) \ {c}
  BY <1>1, <1>2 DEF OpenLinks
<1>5. IndexIsOpenLinks'
  BY <1>2, <1>3, <1>4 DEF IndexInv, IndexIsOpenLinks
<1>6. CutInv'
  BY <1>1, <1>2 DEF IndexInv, CutInv
<1>7. closers[m] = {} => c \in index[m]
  <2> SUFFICES ASSUME closers[m] = {} PROVE c \in index[m]
    OBVIOUS
  <2>1. pc[c] = "open"
    BY <1>2 DEF IndexInv, CutInv
  <2>2. index[m] = OpenLinks(m)
    BY <1>1 DEF IndexInv, IndexIsOpenLinks, Closers
  <2> QED
    BY <2>1, <2>2 DEF OpenLinks
<1>8. /\ IsFiniteSet(index'[m])
      /\ Cardinality(index'[m]) =
           IF c \in index[m] THEN Cardinality(index[m]) - 1 ELSE Cardinality(index[m])
  <2>1. IsFiniteSet(index[m])
    BY <1>1 DEF IndexInv, LengthInv
  <2>2. /\ IsFiniteSet(index[m] \ {c})
        /\ Cardinality(index[m] \ {c}) =
             IF c \in index[m] THEN Cardinality(index[m]) - 1 ELSE Cardinality(index[m])
    BY <2>1, FS_RemoveElement, Zenon
  <2>3. index'[m] = index[m] \ {c}
    BY <1>3
  <2> QED
    BY <2>2, <2>3, Zenon
<1>9. Cardinality(index[m]) \in Nat
  BY <1>1, FS_CardinalityType DEF IndexInv, LengthInv
<1>10. len'[m] =< Cardinality(index'[m]) /\ (closers[m] = {} => len'[m] = Cardinality(index'[m]))
  <2>1. len[m] =< Cardinality(index[m]) /\ (closers[m] = {} => len[m] = Cardinality(index[m]))
    BY <1>1 DEF IndexInv, LengthInv
  <2>2. len[m] \in Int
    BY <1>1
  <2> QED
    BY <1>3, <1>7, <1>8, <1>9, <2>1, <2>2
<1>11. LengthInv'
  BY <1>2, <1>3, <1>8, <1>10 DEF IndexInv, LengthInv
<1>12. PanicNeedsBoth'
  BY <1>2 DEF IndexInv, PanicNeedsBoth
<1> QED
  BY <1>5, <1>6, <1>11, <1>12 DEF IndexInv

LEMMA IndexStep == TypeInv /\ CloserInv /\ IndexInv /\ [Next]_vars => IndexInv'
<1> SUFFICES ASSUME TypeInv, CloserInv, IndexInv, [Next]_vars PROVE IndexInv'
  OBVIOUS
<1>1. TypeOK /\ pc \in [Conns -> {"new", "store", "mark", "add", "open", "cut", "closed"}]
  BY DEF TypeInv, TypeOK
<1>2. ASSUME NEW c \in Conns, NEW u \in Users, GetLinkManager(c, u) PROVE IndexInv'
  BY <1>1, <1>2, ManagersUntouched DEF GetLinkManager, ConnAt, Goto, TypeOK
<1>3. ASSUME NEW c \in Conns, StoreLinkManager(c) \/ MarkUserActive(c) PROVE IndexInv'
  BY <1>1, <1>3, ManagersUntouched DEF StoreLinkManager, MarkUserActive, ConnAt, Goto, TypeOK
<1>4. ASSUME NEW c \in Conns, AddLink(c) PROVE IndexInv'
  BY <1>1, <1>4, AddLinkStep
<1>5. ASSUME NEW c \in Conns, RemoveWriter(c) PROVE IndexInv'
  BY <1>1, <1>5, RemoveWriterStep
<1>6. CASE DelCloseAll
  <2>1. /\ CloseAll(dMgr, "DelUsers") /\ mgr' = mgr /\ dMgr \in Conns
        /\ "DelUsers" \notin closers[dMgr] /\ "DelUsers" \in Closers
    BY <1>6 DEF DelCloseAll, DelAt, TypeInv, TypeOK, ClosersHaveManager, CloserInv, CloseOnceInv,
                Closers
  <2> QED
    BY <1>1, <2>1, CloseAllStep
<1>7. CASE LoopCloseAll
  <2>1. /\ CloseAll(kMgr, "userCleanupLoop") /\ mgr' = mgr /\ kMgr \in Conns
        /\ "userCleanupLoop" \notin closers[kMgr] /\ "userCleanupLoop" \in Closers
    BY <1>7 DEF LoopCloseAll, LoopAt, TypeInv, TypeOK, ClosersHaveManager, CloserInv, CloseOnceInv,
                Closers
  <2> QED
    BY <1>1, <2>1, CloseAllStep
<1>8. ASSUME NEW u \in Users, DelUser(u) \/ AddUser(u) \/ Idle(u) \/ LoopVisit(u)
      PROVE  IndexInv'
  <2>1. UNCHANGED mgrVars /\ UNCHANGED connVars
    BY <1>8 DEF DelUser, AddUser, Idle, LoopVisit
  <2> QED
    BY <1>1, <2>1, ManagersUntouched DEF connVars
<1>9. CASE DelLoad \/ DelDelete \/ LoopState \/ LoopLoad \/ LoopDelete \/ LoopForget \/ UNCHANGED vars
  <2>1. UNCHANGED mgrVars /\ UNCHANGED connVars
    BY <1>9 DEF DelLoad, DelDelete, LoopState, LoopLoad, LoopDelete, LoopForget, vars
  <2> QED
    BY <1>1, <2>1, ManagersUntouched DEF connVars
<1> QED
  BY <1>2, <1>3, <1>4, <1>5, <1>6, <1>7, <1>8, <1>9 DEF Next, Connection, DelUsers, CleanupLoop

LEMMA LinksInvAlways == Spec => [](TypeInv /\ CloserInv /\ IndexInv)
<1>1. Init => CloserInv /\ IndexInv
  <2> SUFFICES ASSUME Init PROVE CloserInv /\ IndexInv
    OBVIOUS
  <2>1. CloserInv
    BY LinksAssumption DEF Init, CloserInv, OwnerInv, CloseOnceInv, Unused
  <2>2. IsFiniteSet({}) /\ Cardinality({}) = 0
    BY FS_EmptySet
  <2>3. IndexIsOpenLinks /\ CutInv
    BY DEF Init, IndexIsOpenLinks, OpenLinks, CutInv
  <2>4. LengthInv
    BY <2>2 DEF Init, LengthInv
  <2>5. PanicNeedsBoth
    BY DEF Init, PanicNeedsBoth
  <2> QED
    BY <2>1, <2>3, <2>4, <2>5 DEF IndexInv
<1> QED
  BY <1>1, InitTypeInv, TypeInvInductive, CloserStep, IndexStep, PTL DEF Spec

(* A manager's index is exactly the set of its open links, whatever new     *)
(* connections, owners closing, DelUsers and the cleanup loop interleave,   *)
(* as long as only one of the two has closed it.                            *)
THEOREM IndexIsExact == Spec => []IndexIsOpenLinks
<1>1. TypeInv /\ CloserInv /\ IndexInv => IndexIsOpenLinks
  BY DEF IndexInv
<1> QED
  BY <1>1, LinksInvAlways, PTL

(* The count the cleanup loop goes by is never ahead of the links of a      *)
(* manager, although elements are removed from a list that was emptied      *)
(* before (linkmanager.go 57-69): a manager without links is always taken   *)
(* for one.                                                                 *)
CountNotAhead ==
    \A m \in Conns : len[m] =< Cardinality(index[m])

(* GetConnectionCount is never above the number of open links, so that the  *)
(* cleanup loop passes over no manager that has none.                       *)
THEOREM CountIsNotAhead == Spec => []CountNotAhead
<1>1. TypeInv /\ CloserInv /\ IndexInv => CountNotAhead
  BY DEF IndexInv, LengthInv, CountNotAhead
<1> QED
  BY <1>1, LinksInvAlways, PTL

(* CloseAll panics on no list that only one closer has emptied before.      *)
THEOREM PanicTakesBoth == Spec => []PanicNeedsBoth
<1>1. TypeInv /\ CloserInv /\ IndexInv => PanicNeedsBoth
  BY DEF IndexInv
<1> QED
  BY <1>1, LinksInvAlways, PTL
=============================================================================
