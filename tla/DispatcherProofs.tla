-------------------------- MODULE DispatcherProofs --------------------------
(***************************************************************************)
(* One connection through the dispatcher, for any sniffers, any rules and   *)
(* any number of chunks and updates.                                        *)
(***************************************************************************)
EXTENDS Dispatcher, SequenceTheorems, FiniteSetTheorems, TLAPS

Chunk == 1..MaxChunks

(* What is in the pipe, in the cache and with the handler was written. *)
BufferInv ==
    /\ pipe \in Seq(Chunk) /\ cache \in Seq(Chunk) /\ out \in Seq(Chunk)
    /\ sent \in 0..MaxChunks
    /\ Len(pipe) + Len(cache) + Len(out) <= sent

(* The fields that do not hold data *)
FlagTypes ==
    /\ wrapped \in BOOLEAN /\ fake \in BOOLEAN
    /\ sniffing \in {"off", "metadata", "full"}
    /\ verdict \in [Sniffers -> [1..Depth -> Verdicts]]
    /\ eof \in BOOLEAN
    /\ cut \in BOOLEAN /\ downClosed \in BOOLEAN
    /\ pc \in {"meta", "cache", "route", "check", "pick", "reading", "done",
              "rejected", "panicked"}

SniffTypes ==
    /\ pending \in SUBSET Sniffers /\ attempts \in 0..MaxAttempts
    /\ pc = "cache" => attempts < MaxAttempts
    /\ pc = "meta" => attempts = 0
    /\ protocol \in Sniffers \cup {"none", "fakedns"}
    /\ dest \in Sniffers \cup {"original", "fakedns"}

(* The list of domains is being filled with the ones UpdateRule was given.  *)
RuleTypes ==
    /\ target \in RuleSets /\ updates \in 0..MaxUpdates
    /\ domainRules \in Seq(STRING) /\ protocolRules \in Seq(STRING)
    /\ Len(domainRules) <= Len(target.domains)
    /\ \A k \in 1..Len(domainRules) : domainRules[k] = target.domains[k]

LoopTypes ==
    /\ list \in Lists /\ replaced \in SUBSET Lists /\ partial \in BOOLEAN
    /\ bound \in Nat /\ index \in 1..(bound + 1)

(* The verdicts are those of real sniffers. *)
VerdictInv == \A s \in Sniffers : Stable(verdict[s])

(* What an attempt has seen without a match: a sniffer that never asked for *)
(* more data has said no, or has no clue yet and will be asked again.       *)
Clear(s) == \A n \in 1..Depth : verdict[s][n] # "more"

AttemptInv ==
    /\ pc \in {"meta", "cache", "route", "check", "pick"} => out = <<>>
    /\ pc = "meta" => cache = <<>> /\ pending = Sniffers
    /\ pc = "cache" => \A s \in Sniffers : Clear(s) =>
         \/ Verdict(s, Len(cache)) = "no"
         \/ Verdict(s, Len(cache)) = "noclue" /\ s \in pending

(* The only sniffer that recognises what was cached *)
Recognised(s) ==
    /\ Clear(s)
    /\ Verdict(s, Len(cache)) = "match"
    /\ \A r \in Sniffers \ {s} : Verdict(r, Len(cache)) # "match"

(* What sniffing gave when it ended is what the connection is checked for. *)
ResultInv ==
    pc \in {"route", "check", "pick", "reading"} /\ sniffing = "full" /\ out = <<>> /\ cache # <<>> =>
        \A s \in Sniffers : Recognised(s) => protocol = s /\ dest = Destination(Domain(s))

(* A check is in the list of domains, which nobody has replaced: its range  *)
(* is within the list, and all of it if no update was filling it.           *)
InDomains ==
    /\ bound <= Len(domainRules)
    /\ ~partial => bound = Len(domainRules)
    /\ \A k \in 1..(index - 1) : domainRules[k] # dest

(* The same for the list of protocols, which is never filled by and by.     *)
InProtocols ==
    /\ bound = Len(protocolRules)
    /\ \A k \in 1..(index - 1) : protocolRules[k] # protocol

(* The list of domains has been searched to its end.                        *)
DomainsDone == pc \in {"pick", "reading"} \/ (pc = "check" /\ list = "protocol")

(* What a check knows of a list, as long as it has not been replaced since  *)
(* the check took its range.                                                *)
CheckInv ==
    /\ "domain" \notin replaced =>
         /\ pc \in {"check", "pick", "reading"} /\ ~partial => domainRules = target.domains
         /\ pc = "check" /\ list = "domain" => InDomains
         /\ DomainsDone /\ ~partial => ~Listed(domainRules, dest)
    /\ "protocol" \notin replaced =>
         /\ pc = "check" /\ list = "protocol" => InProtocols
         /\ pc \in {"pick", "reading"} /\ protocol # "none" =>
              ~Listed(protocolRules, protocol)

TypeInv == BufferInv /\ FlagTypes /\ SniffTypes /\ RuleTypes /\ LoopTypes

-----------------------------------------------------------------------------
(* A short sequence of chunks is one of Chunks. *)
LEMMA ShortIsChunks ==
    ASSUME NEW q \in Seq(Chunk), Len(q) <= MaxChunks
    PROVE  q \in Chunks
<1>1. Len(q) \in Nat /\ DOMAIN q = 1..Len(q) /\ q = [k \in 1..Len(q) |-> q[k]]
  BY LenProperties
<1>2. \A k \in 1..Len(q) : q[k] \in Chunk
  BY ElementOfSeq
<1>3. Len(q) \in 0..MaxChunks
  BY <1>1, DispatcherAssumption
<1>4. q \in [1..Len(q) -> Chunk]
  <2> HIDE DEF Chunk
  <2> QED
    BY <1>1, <1>2
<1> QED
  BY <1>3, <1>4 DEF Chunks, Chunk

(* Taking the first k chunks of q leaves the others. *)
LEMMA SplitAt ==
    ASSUME NEW S, NEW q \in Seq(S), NEW k \in 1..Len(q)
    PROVE  /\ SubSeq(q, 1, k) \in Seq(S) /\ SubSeq(q, k + 1, Len(q)) \in Seq(S)
           /\ Len(SubSeq(q, 1, k)) = k
           /\ Len(SubSeq(q, k + 1, Len(q))) = Len(q) - k
           /\ SubSeq(q, 1, k) \o SubSeq(q, k + 1, Len(q)) = q
<1>1. Len(q) \in Nat /\ \A i \in 1..Len(q) : q[i] \in S
  BY LenProperties, ElementOfSeq
<1>2. SubSeq(q, 1, k) \in Seq(S) /\ Len(SubSeq(q, 1, k)) = k
  BY <1>1, SubSeqProperties
<1>3. SubSeq(q, k + 1, Len(q)) \in Seq(S) /\ Len(SubSeq(q, k + 1, Len(q))) = Len(q) - k
  <2>1. \A i \in (k + 1)..Len(q) : q[i] \in S
    BY <1>1
  <2>2. k + 1 \in Int /\ Len(q) \in Int
    BY <1>1
  <2>3. /\ SubSeq(q, k + 1, Len(q)) \in Seq(S)
        /\ Len(SubSeq(q, k + 1, Len(q))) =
             IF k + 1 <= Len(q) THEN Len(q) - (k + 1) + 1 ELSE 0
    BY <2>1, <2>2, SubSeqProperties
  <2> QED
    BY <1>1, <2>3
<1>4. SubSeq(q, 1, k) \o SubSeq(q, k + 1, Len(q)) = SubSeq(q, 1, Len(q))
  BY <1>1, ConcatAdjacentSubSeq
<1>5. SubSeq(q, 1, Len(q)) = q
  BY SubSeqFull
<1>6. SubSeq(q, 1, k) \o SubSeq(q, k + 1, Len(q)) = q
  BY <1>4, <1>5, Zenon
<1> QED
  BY <1>2, <1>3, <1>6, Zenon

(* An interruption leaves a buffer as it is or empties it. *)
LEMMA KeptOrEmptied ==
    ASSUME NEW S, NEW q \in Seq(S), NEW p, p = q \/ p = <<>>
    PROVE  p \in Seq(S) /\ Len(p) \in 0..Len(q)
<1>1. Len(q) \in Nat
  BY LenProperties
<1>2. CASE p = <<>>
  <2>1. p \in Seq(S)
    BY <1>2, EmptySeq
  <2>2. Len(p) = 0
    BY <1>2, EmptySeq
  <2> QED
    BY <1>1, <2>1, <2>2
<1>3. CASE p = q
  BY <1>1, <1>3
<1> QED
  BY <1>2, <1>3

(* Chunks move from the pipe to the cache and on to the handler; none is    *)
(* made up.                                                                 *)
LEMMA BufferStep == TypeInv /\ [Next]_vars => BufferInv'
<1> SUFFICES ASSUME TypeInv, [Next]_vars PROVE BufferInv'
  OBVIOUS
<1> USE DispatcherAssumption
    DEF TypeInv, BufferInv, clientVars, readerVars
<1>0. Len(pipe) \in Nat /\ Len(cache) \in Nat /\ Len(out) \in Nat /\ sent \in Nat
  OBVIOUS
<1>1. CASE ClientWrite
  BY <1>1 DEF ClientWrite, Chunk
<1>2. CASE ClientClose
  BY <1>2 DEF ClientClose
<1>3. CASE CloseAll
  <2>1. UNCHANGED pipe \/ pipe' = <<>>
    BY <1>3 DEF CloseAll
  <2>2. UNCHANGED <<sent, cache, out>>
    BY <1>3 DEF CloseAll
  <2>3. pipe' \in Seq(Chunk) /\ Len(pipe') \in 0..Len(pipe)
    BY <2>1, KeptOrEmptied
  <2> QED
    BY <1>0, <2>2, <2>3
<1>4. CASE SniffMetadata \/ CacheTimeout \/ CacheFails
  BY <1>4 DEF SniffMetadata, CacheTimeout, CacheFails
<1>5. CASE CacheData
  <2>1. PICK k \in 1..Len(pipe) : /\ cache' = cache \o SubSeq(pipe, 1, k)
                                  /\ pipe' = SubSeq(pipe, k + 1, Len(pipe))
    BY <1>5 DEF CacheData
  <2>2. UNCHANGED <<sent, out>>
    BY <1>5 DEF CacheData
  <2>3. /\ SubSeq(pipe, 1, k) \in Seq(Chunk) /\ pipe' \in Seq(Chunk)
        /\ Len(SubSeq(pipe, 1, k)) = k /\ Len(pipe') = Len(pipe) - k
    BY <2>1, SplitAt
  <2>4. cache' \in Seq(Chunk) /\ Len(cache') = Len(cache) + k
    BY <2>1, <2>3, ConcatProperties
  <2> QED
    BY <1>0, <2>2, <2>3, <2>4
<1>6. CASE Checking \/ Route
  BY <1>6 DEF Checking, CheckBegins, CheckRule, CheckPanics, CheckEnds, Route
<1>7. CASE Rejecting
  <2>1. UNCHANGED pipe \/ pipe' = <<>>
    BY <1>7 DEF Rejecting, RejectByRule, RejectNoHandler, Rejects
  <2>2. UNCHANGED <<sent, out>> /\ cache' = <<>>
    BY <1>7 DEF Rejecting, RejectByRule, RejectNoHandler, Rejects
  <2>3. pipe' \in Seq(Chunk) /\ Len(pipe') \in 0..Len(pipe)
    BY <2>1, KeptOrEmptied
  <2>4. cache' \in Seq(Chunk) /\ Len(cache') \in 0..Len(cache)
    BY <2>2, KeptOrEmptied
  <2> QED
    BY <1>0, <2>2, <2>3, <2>4
<1>8. CASE ReadCached
  BY <1>0, <1>8, EmptySeq, ConcatProperties DEF ReadCached
<1>9. CASE ReadPipe
  <2>1. PICK k \in 1..Len(pipe) : /\ out' = out \o SubSeq(pipe, 1, k)
                                  /\ pipe' = SubSeq(pipe, k + 1, Len(pipe))
    BY <1>9 DEF ReadPipe
  <2>2. UNCHANGED <<sent, cache>>
    BY <1>9 DEF ReadPipe
  <2>3. /\ SubSeq(pipe, 1, k) \in Seq(Chunk) /\ pipe' \in Seq(Chunk)
        /\ Len(SubSeq(pipe, 1, k)) = k /\ Len(pipe') = Len(pipe) - k
    BY <2>1, SplitAt
  <2>4. out' \in Seq(Chunk) /\ Len(out') = Len(out) + k
    BY <2>1, <2>3, ConcatProperties
  <2> QED
    BY <1>0, <2>2, <2>3, <2>4
<1>10. CASE ReadEnd
  BY <1>10 DEF ReadEnd
<1>11. CASE Update
  BY <1>11 DEF Update, UpdateRule, AppendRule, ReplaceProtocols
<1>12. CASE UNCHANGED vars
  BY <1>12 DEF vars
<1> QED
  BY <1>1, <1>2, <1>3, <1>4, <1>5, <1>6, <1>7, <1>8, <1>9, <1>10, <1>11, <1>12
     DEF Next, Client, Sniffing, Dispatch, Reading

(* The connection is in one of its phases, and what it is does not change. *)
LEMMA FlagStep == TypeInv /\ [Next]_vars => FlagTypes'
<1> SUFFICES ASSUME TypeInv, [Next]_vars PROVE FlagTypes'
  OBVIOUS
<1> USE DispatcherAssumption DEF TypeInv, FlagTypes, connVars, clientVars, readerVars
<1>1. CASE Client
  BY <1>1 DEF Client, ClientWrite, ClientClose
<1>2. CASE CloseAll
  BY <1>2 DEF CloseAll
<1>3. CASE SniffMetadata
  BY <1>3 DEF SniffMetadata, Finish
<1>4. CASE CacheData
  BY <1>4 DEF CacheData, Sniff, Finish
<1>5. CASE CacheTimeout
  BY <1>5 DEF CacheTimeout, Sniff, Finish
<1>6. CASE CacheFails
  BY <1>6 DEF CacheFails, Finish
<1>7. CASE Checking \/ Route
  BY <1>7 DEF Checking, CheckBegins, CheckRule, CheckPanics, CheckEnds, Route
<1>8. CASE Rejecting
  BY <1>8 DEF Rejecting, RejectByRule, RejectNoHandler, Rejects
<1>9. CASE Reading
  BY <1>9 DEF Reading, ReadCached, ReadPipe, ReadEnd
<1>10. CASE Update
  BY <1>10 DEF Update, UpdateRule, AppendRule, ReplaceProtocols
<1>11. CASE UNCHANGED vars
  BY <1>11 DEF vars
<1> QED
  BY <1>1, <1>2, <1>3, <1>4, <1>5, <1>6, <1>7, <1>8, <1>9, <1>10, <1>11
     DEF Next, Sniffing, Dispatch

(* What sniffing gives is a sniffer, the metadata or nothing. *)
LEMMA FinishGives ==
    ASSUME NEW p \in Sniffers \cup {"none"}, Finish(p)
    PROVE  /\ pc' = "route"
           /\ protocol' \in Sniffers \cup {"none", "fakedns"}
           /\ dest' \in Sniffers \cup {"original", "fakedns"}
<1>1. Domain(p) \in Sniffers \cup {"none", "fakedns"}
  BY DEF Domain, MetaResult
<1>2. Destination(Domain(p)) \in Sniffers \cup {"original", "fakedns"}
  BY <1>1, DispatcherAssumption DEF Destination
<1> QED
  BY <1>2 DEF Finish, Protocol, MetaResult

(* A sniffer that finds a protocol gives it, otherwise the loop ends without *)
(* a result or goes on with the sniffers that have no clue.                 *)
LEMMA SniffGives ==
    ASSUME TypeInv, pc = "cache", NEW n \in Nat, NEW timeUp \in BOOLEAN, Sniff(n, timeUp)
    PROVE  SniffTypes'
<1> DEFINE Found == {s \in pending : Verdict(s, n) = "match"}
           Left == {s \in pending : Verdict(s, n) = "noclue"}
<1> USE DEF TypeInv, SniffTypes, MaxAttempts
<1>1. CASE \E s \in Found : Finish(s) /\ UNCHANGED <<pending, attempts>>
  <2>1. PICK s \in Sniffers : Finish(s) /\ UNCHANGED <<pending, attempts>>
    BY <1>1
  <2> QED
    BY <2>1, FinishGives
<1>2. CASE /\ Found = {}
           /\ pending' = (IF Left = {} THEN pending ELSE Left)
           /\ attempts' = (IF Left = {} THEN attempts ELSE attempts + 1)
           /\ IF Left # {} /\ attempts + 1 < MaxAttempts /\ ~timeUp
              THEN UNCHANGED <<pc, protocol, dest>>
              ELSE Finish("none")
  <2>1. pending' \in SUBSET Sniffers /\ attempts' \in 0..MaxAttempts
    BY <1>2
  <2>2. CASE Finish("none")
    BY <2>1, <2>2, FinishGives
  <2>3. CASE Left # {} /\ attempts + 1 < MaxAttempts /\ UNCHANGED <<pc, protocol, dest>>
    BY <1>2, <2>1, <2>3
  <2> QED
    BY <1>2, <2>2, <2>3
<1> QED
  BY <1>1, <1>2 DEF Sniff

(* The sniffing loop makes two attempts at most. *)
LEMMA SniffStep == TypeInv /\ [Next]_vars => SniffTypes'
<1> SUFFICES ASSUME TypeInv, [Next]_vars PROVE SniffTypes'
  OBVIOUS
<1> USE DEF TypeInv, sniffVars
<1>1. CASE SniffMetadata
  <2>1. CASE sniffing = "metadata"
    BY <1>1, <2>1, FinishGives DEF SniffMetadata, SniffTypes
  <2>2. CASE sniffing # "metadata"
    BY <1>1, <2>2 DEF SniffMetadata, SniffTypes, MaxAttempts
  <2> QED
    BY <2>1, <2>2
<1>2. CASE CacheData
  <2>1. PICK timeUp \in BOOLEAN : Sniff(Len(cache'), timeUp)
    BY <1>2 DEF CacheData
  <2>2. Len(cache') \in Nat
    BY BufferStep, LenProperties DEF BufferInv
  <2> QED
    BY <1>2, <2>1, <2>2, SniffGives DEF CacheData
<1>3. CASE CacheTimeout
  BY <1>3, SniffGives, LenProperties DEF CacheTimeout, BufferInv
<1>4. CASE CacheFails
  BY <1>4, FinishGives DEF CacheFails, SniffTypes
<1> USE DEF SniffTypes
<1>5. CASE Client \/ CloseAll
  BY <1>5 DEF Client, ClientWrite, ClientClose, CloseAll
<1>6. CASE Dispatch
  BY <1>6 DEF Dispatch, Checking, CheckBegins, CheckRule, CheckPanics, CheckEnds, Rejecting,
              RejectByRule, RejectNoHandler, Rejects, Route
<1>7. CASE Reading
  BY <1>7 DEF Reading, ReadCached, ReadPipe, ReadEnd
<1>8. CASE Update
  BY <1>8 DEF Update, UpdateRule, AppendRule, ReplaceProtocols
<1>9. CASE UNCHANGED vars
  BY <1>9 DEF vars
<1> QED
  BY <1>1, <1>2, <1>3, <1>4, <1>5, <1>6, <1>7, <1>8, <1>9 DEF Next, Sniffing

(* A list that is not full yet takes the next rule. *)
LEMMA AppendRuleGives ==
    ASSUME RuleTypes, AppendRule
    PROVE  /\ domainRules' \in Seq(STRING) /\ Len(domainRules') = Len(domainRules) + 1
           /\ \A k \in 1..Len(domainRules) : domainRules'[k] = domainRules[k]
           /\ Len(domainRules') <= Len(target.domains)
           /\ \A k \in 1..Len(domainRules') : domainRules'[k] = target.domains[k]
<1> DEFINE n == Len(domainRules)
           r == target.domains[n + 1]
<1>1. /\ target.domains \in Seq(STRING) /\ domainRules \in Seq(STRING)
      /\ n \in Nat /\ Len(target.domains) \in Nat
  BY DispatcherAssumption, LenProperties DEF RuleTypes
<1>2. n # Len(target.domains)
  <2>1. SUFFICES ASSUME n = Len(target.domains) PROVE domainRules = target.domains
    BY DEF AppendRule
  <2>2. \A k \in 1..n : domainRules[k] = target.domains[k]
    BY DEF RuleTypes
  <2> QED
    BY <1>1, <2>1, <2>2, SeqEqual
<1>3. n + 1 <= Len(target.domains) /\ n + 1 \in 1..Len(target.domains)
  BY <1>1, <1>2 DEF RuleTypes
<1>4. r \in STRING
  BY <1>1, <1>3, ElementOfSeq
<1>5. domainRules' = Append(domainRules, r)
  BY DEF AppendRule
<1>6. /\ domainRules' \in Seq(STRING) /\ Len(domainRules') = n + 1
      /\ \A k \in 1..n : domainRules'[k] = domainRules[k]
      /\ domainRules'[n + 1] = r
  <2> HIDE DEF r
  <2> QED
    BY <1>1, <1>4, <1>5, AppendProperties
<1>7. ASSUME NEW k \in 1..Len(domainRules') PROVE domainRules'[k] = target.domains[k]
  <2>1. k \in 1..n \/ k = n + 1
    BY <1>1, <1>6
  <2> QED
    BY <1>6, <2>1 DEF RuleTypes
<1> QED
  BY <1>3, <1>6, <1>7

(* UpdateRule keeps the list of domains a part of what it was given. *)
LEMMA RuleStep == TypeInv /\ [Next]_vars => RuleTypes'
<1> SUFFICES ASSUME TypeInv, [Next]_vars PROVE RuleTypes'
  OBVIOUS
<1> USE DEF TypeInv, RuleTypes
<1>1. ASSUME UNCHANGED limiterVars PROVE RuleTypes'
  BY <1>1 DEF limiterVars
<1>2. ASSUME NEW r \in RuleSets, UpdateRule(r) PROVE RuleTypes'
  <2>1. domainRules' = <<>> /\ target' = r /\ target'.domains \in Seq(STRING)
    BY <1>2, DispatcherAssumption DEF UpdateRule
  <2>2. domainRules' \in Seq(STRING) /\ Len(domainRules') = 0
    BY <2>1, EmptySeq
  <2>3. Len(target'.domains) \in Nat
    BY <2>1, LenProperties
  <2>4. updates' \in 0..MaxUpdates /\ protocolRules' = protocolRules
    BY <1>2, DispatcherAssumption DEF UpdateRule
  <2> QED
    BY <2>1, <2>2, <2>3, <2>4
<1>3. CASE AppendRule
  <2>1. UNCHANGED <<target, updates, protocolRules>>
    BY <1>3 DEF AppendRule
  <2> QED
    BY <1>3, <2>1, AppendRuleGives
<1>4. CASE ReplaceProtocols
  BY <1>4, DispatcherAssumption DEF ReplaceProtocols
<1>5. CASE Client \/ CloseAll \/ Sniffing \/ Dispatch \/ Reading \/ UNCHANGED vars
  BY <1>1, <1>5 DEF Client, ClientWrite, ClientClose, CloseAll, Sniffing, SniffMetadata,
     CacheData, CacheTimeout, CacheFails, Dispatch, Checking, CheckBegins, CheckRule,
     CheckPanics, CheckEnds, Rejecting, RejectByRule, RejectNoHandler, Rejects, Route,
     Reading, ReadCached, ReadPipe, ReadEnd, vars, ruleVars
<1> QED
  BY <1>2, <1>3, <1>4, <1>5 DEF Next, Update

(* A loop goes on as long as its range allows, and one step further. *)
LEMMA LoopStep == TypeInv /\ [Next]_vars => LoopTypes'
<1> SUFFICES ASSUME TypeInv, [Next]_vars PROVE LoopTypes'
  OBVIOUS
<1> USE DEF TypeInv, LoopTypes, Lists
<1>1. ASSUME UNCHANGED checkVars PROVE LoopTypes'
  BY <1>1 DEF checkVars
<1>2. Len(domainRules) \in Nat /\ Len(protocolRules) \in Nat
  BY LenProperties DEF RuleTypes
<1>3. CASE CheckBegins
  BY <1>2, <1>3 DEF CheckBegins
<1>4. CASE CheckRule
  BY <1>4 DEF CheckRule, InRange
<1>5. CASE CheckEnds
  <2>1. /\ index' = 1 /\ bound' \in {0, Len(protocolRules)} /\ UNCHANGED partial
        /\ list' \in {"domain", "protocol"} /\ replaced' \subseteq replaced
    BY <1>5 DEF CheckEnds, EndsLoops
  <2>2. bound' \in Nat
    BY <1>2, <2>1
  <2>3. index' \in 1..(bound' + 1)
    <3>1. \A b \in Nat : 1 \in 1..(b + 1)
      OBVIOUS
    <3> QED
      BY <2>1, <2>2, <3>1, Zenon
  <2>4. list' \in Lists /\ replaced' \in SUBSET Lists /\ partial' \in BOOLEAN
    BY <2>1
  <2> QED
    BY <2>2, <2>3, <2>4
<1>6. CASE Rejecting
  <2>1. list' = "domain" /\ index' = 1 /\ bound' = 0 /\ UNCHANGED <<replaced, partial>>
    BY <1>6 DEF Rejecting, RejectByRule, RejectNoHandler, Rejects, EndsLoops
  <2> QED
    BY <2>1
<1>7. CASE Update
  <2>1. /\ UNCHANGED <<list, index, bound, partial>>
        /\ replaced' \in {replaced, replaced \cup {"domain"}, replaced \cup {"protocol"}}
    BY <1>7 DEF Update, UpdateRule, AppendRule, ReplaceProtocols, Replaces, checkVars
  <2> QED
    BY <2>1
<1>8. CASE Client \/ CloseAll \/ Sniffing \/ CheckPanics \/ Route \/ Reading \/ UNCHANGED vars
  BY <1>1, <1>8 DEF Client, ClientWrite, ClientClose, CloseAll, Sniffing, SniffMetadata,
     CacheData, CacheTimeout, CacheFails, CheckPanics, Route, Reading, ReadCached, ReadPipe,
     ReadEnd, vars, ruleVars
<1> QED
  BY <1>3, <1>4, <1>5, <1>6, <1>7, <1>8 DEF Next, Dispatch, Checking

(* A connection starts with nothing read. *)
LEMMA InitTypeInv == Init => TypeInv
<1> SUFFICES ASSUME Init PROVE TypeInv
  OBVIOUS
<1>1. BufferInv
  <2>1. pipe \in Seq(Chunk) /\ cache \in Seq(Chunk) /\ out \in Seq(Chunk)
    BY EmptySeq DEF Init
  <2>2. Len(pipe) = 0 /\ Len(cache) = 0 /\ Len(out) = 0
    BY EmptySeq DEF Init
  <2> QED
    BY <2>1, <2>2, DispatcherAssumption DEF Init, BufferInv
<1>2. FlagTypes
  BY DEF Init, FlagTypes
<1>3. SniffTypes
  BY DEF Init, SniffTypes, MaxAttempts
<1>4. RuleTypes
  <2>1. /\ target \in RuleSets /\ target.domains \in Seq(STRING)
        /\ target.protocols \in Seq(STRING)
    BY DispatcherAssumption DEF Init
  <2>2. domainRules = target.domains /\ protocolRules = target.protocols /\ updates = 0
    BY DEF Init
  <2>3. Len(target.domains) \in Nat
    BY <2>1, LenProperties
  <2> QED
    BY <2>1, <2>2, <2>3, DispatcherAssumption DEF RuleTypes
<1>5. LoopTypes
  <2>1. list = "domain" /\ index = 1 /\ bound = 0 /\ replaced = {} /\ partial = FALSE
    BY DEF Init
  <2>2. bound \in Nat /\ index \in 1..(bound + 1)
    BY <2>1
  <2>3. list \in Lists /\ replaced \in SUBSET Lists /\ partial \in BOOLEAN
    BY <2>1 DEF Lists
  <2> QED
    BY <2>2, <2>3 DEF LoopTypes
<1> QED
  BY <1>1, <1>2, <1>3, <1>4, <1>5 DEF TypeInv

(* The fields of cachedReader and Sniffer and the locals of routedDispatch  *)
(* keep their types; in particular no buffer ever holds more than the       *)
(* client wrote (default.go 53-110), and the loop makes two attempts        *)
(* (default.go 565-599).                                                    *)
THEOREM DispatcherTypeCorrect == Spec => []TypeOK
<1>1. TypeInv /\ [Next]_vars => TypeInv'
  BY BufferStep, FlagStep, SniffStep, RuleStep, LoopStep DEF TypeInv
<1>2. TypeInv => TypeOK
  <2> SUFFICES ASSUME TypeInv PROVE TypeOK
    OBVIOUS
  <2>1. pipe \in Chunks /\ cache \in Chunks /\ out \in Chunks
    <3>1. /\ Len(pipe) \in Nat /\ Len(cache) \in Nat /\ Len(out) \in Nat
          /\ pipe \in Seq(Chunk) /\ cache \in Seq(Chunk) /\ out \in Seq(Chunk)
      BY LenProperties DEF TypeInv, BufferInv
    <3>2. Len(pipe) <= MaxChunks /\ Len(cache) <= MaxChunks /\ Len(out) <= MaxChunks
      BY <3>1, DispatcherAssumption DEF TypeInv, BufferInv
    <3> QED
      BY <3>1, <3>2, ShortIsChunks
  <2>2. attempts \in 0..2
    BY DEF TypeInv, SniffTypes, MaxAttempts
  <2> QED
    BY <2>1, <2>2, Zenon DEF TypeInv, BufferInv, FlagTypes, SniffTypes, RuleTypes, LoopTypes,
       TypeOK
<1> QED
  BY InitTypeInv, <1>1, <1>2, PTL DEF Spec

-----------------------------------------------------------------------------
DispatcherInv == TypeInv /\ VerdictInv /\ AttemptInv /\ ResultInv /\ CheckInv

(* What a check knows of the lists survives the loops and every update.     *)
LEMMA CheckStep == DispatcherInv /\ [Next]_vars => CheckInv'
<1> SUFFICES ASSUME DispatcherInv, [Next]_vars PROVE CheckInv'
  OBVIOUS
<1>0. /\ RuleTypes /\ LoopTypes /\ CheckInv
      /\ Len(domainRules) \in Nat /\ Len(protocolRules) \in Nat
      /\ bound \in Nat /\ index \in 1..(bound + 1)
  <2>1. RuleTypes /\ LoopTypes /\ CheckInv
    BY DEF DispatcherInv, TypeInv
  <2>2. Len(domainRules) \in Nat /\ Len(protocolRules) \in Nat
    BY <2>1, LenProperties DEF RuleTypes
  <2> QED
    BY <2>1, <2>2 DEF LoopTypes
<1>1. CASE CheckBegins
  <2>1. /\ pc' = "check" /\ list' = "domain" /\ index' = 1 /\ bound' = Len(domainRules)
        /\ partial' = (domainRules # target.domains)
        /\ UNCHANGED <<domainRules, target>>
    BY <1>1 DEF CheckBegins, limiterVars
  <2>2. InDomains'
    BY <1>0, <2>1 DEF InDomains
  <2>3. ~DomainsDone'
    BY <2>1 DEF DomainsDone
  <2> QED
    BY <2>1, <2>2, <2>3 DEF CheckInv
<1>2. CASE CheckRule
  BY <1>0, <1>2 DEF CheckRule, CheckInv, InDomains, InProtocols, DomainsDone, Listed,
     Rules, Searched, InRange, limiterVars, sniffVars
<1>3. CASE CheckEnds
  <2>0. UNCHANGED <<domainRules, protocolRules, target, dest, protocol, partial>>
        /\ pc = "check" /\ index = bound + 1
    BY <1>0, <1>3 DEF CheckEnds, InRange, limiterVars, sniffVars
  <2>1. CASE list = "domain"
    <3>1. "domain" \notin replaced /\ ~partial => ~Listed(domainRules, dest)
      BY <1>0, <2>0, <2>1 DEF CheckInv, InDomains, Listed
    <3>2. "domain" \in replaced' <=> "domain" \in replaced
      BY <1>3 DEF CheckEnds
    <3>3. CASE protocol # "none"
      <4>1. pc' = "check" /\ list' = "protocol" /\ index' = 1 /\ bound' = Len(protocolRules)
        BY <1>3, <2>0, <2>1, <3>3 DEF CheckEnds
      <4> QED
        BY <1>0, <2>0, <3>1, <3>2, <4>1 DEF CheckInv, DomainsDone, InProtocols, Listed
    <3>4. CASE protocol = "none"
      <4>1. pc' = "pick" /\ list' = "domain"
        BY <1>3, <3>4 DEF CheckEnds, EndsLoops
      <4> QED
        BY <1>0, <2>0, <3>1, <3>2, <3>4, <4>1 DEF CheckInv, DomainsDone, Listed
    <3> QED
      BY <3>3, <3>4
  <2>2. CASE list = "protocol"
    <3>1. pc' = "pick" /\ replaced' = replaced
      BY <1>3, <2>2 DEF CheckEnds, EndsLoops
    <3>2. "protocol" \notin replaced => ~Listed(protocolRules, protocol)
      BY <1>0, <2>0, <2>2 DEF CheckInv, InProtocols, Listed
    <3> QED
      BY <1>0, <2>0, <2>2, <3>1, <3>2 DEF CheckInv, DomainsDone, Listed
  <2> QED
    BY <1>0, <2>1, <2>2 DEF LoopTypes, Lists
<1>4. CASE CheckPanics \/ Rejecting
  BY <1>4 DEF CheckPanics, Rejecting, RejectByRule, RejectNoHandler, Rejects, CheckInv,
     DomainsDone
<1>5. CASE Route
  BY <1>0, <1>5 DEF Route, CheckInv, DomainsDone, Listed, ruleVars, limiterVars, checkVars,
     sniffVars
<1>6. ASSUME NEW r \in RuleSets, UpdateRule(r) PROVE CheckInv'
  <2>1. /\ UNCHANGED <<pc, protocolRules, protocol, list, index, bound>>
        /\ "protocol" \in replaced' <=> "protocol" \in replaced
        /\ pc \in {"check", "pick", "reading"} => "domain" \in replaced'
    BY <1>6 DEF UpdateRule, Replaces, sniffVars
  <2> QED
    BY <1>0, <2>1 DEF CheckInv, InProtocols, DomainsDone, Listed
<1>7. CASE AppendRule
  <2>1. /\ domainRules # target.domains
        /\ UNCHANGED <<pc, protocolRules, protocol, dest, target, list, index, bound,
                       replaced, partial>>
    BY <1>7 DEF AppendRule, sniffVars, checkVars
  <2>2. /\ Len(domainRules') = Len(domainRules) + 1
        /\ \A k \in 1..Len(domainRules) : domainRules'[k] = domainRules[k]
    BY <1>0, <1>7, AppendRuleGives
  <2>3. /\ "domain" \notin replaced /\ pc \in {"check", "pick", "reading"} => partial
        /\ "domain" \notin replaced /\ pc = "check" /\ list = "domain" => InDomains'
    BY <1>0, <2>1, <2>2 DEF CheckInv, InDomains
  <2> QED
    BY <1>0, <2>1, <2>3 DEF CheckInv, InProtocols, DomainsDone, Listed
<1>8. CASE ReplaceProtocols
  <2>1. /\ UNCHANGED <<pc, domainRules, dest, protocol, target, list, index, bound, partial>>
        /\ "domain" \in replaced' <=> "domain" \in replaced
        /\ pc \in {"check", "pick", "reading"} => "protocol" \in replaced'
    BY <1>8 DEF ReplaceProtocols, Replaces, sniffVars
  <2> QED
    BY <1>0, <2>1 DEF CheckInv, InDomains, DomainsDone, Listed
<1>9. CASE Sniffing
  <2>1. pc' \in {"meta", "cache", "route"}
    BY <1>9 DEF Sniffing, SniffMetadata, CacheData, CacheTimeout, CacheFails, Sniff, Finish
  <2> QED
    BY <2>1 DEF CheckInv, DomainsDone
<1>10. CASE Client \/ CloseAll \/ Reading \/ UNCHANGED vars
  <2>1. UNCHANGED ruleVars /\ UNCHANGED sniffVars /\ (pc' = pc \/ pc' = "done")
    BY <1>10 DEF Client, ClientWrite, ClientClose, CloseAll, Reading, ReadCached, ReadPipe,
       ReadEnd, vars
  <2> QED
    BY <1>0, <2>1 DEF CheckInv, InDomains, InProtocols, DomainsDone, Listed, ruleVars,
       limiterVars, checkVars, sniffVars
<1> QED
  BY <1>1, <1>2, <1>3, <1>4, <1>5, <1>6, <1>7, <1>8, <1>9, <1>10
     DEF Next, Dispatch, Checking, Update

(* A sniffer that has said no does not change its mind when it is shown     *)
(* more, and one without a match neither finds one in what it has seen.     *)
LEMMA NoStaysNo ==
    ASSUME DispatcherInv, NEW s \in Sniffers, NEW m \in Nat, NEW n \in Nat, m <= n,
           Verdict(s, m) = "no"
    PROVE  Verdict(s, n) = "no"
<1> DEFINE i == IF m > Depth THEN Depth ELSE m
           j == IF n > Depth THEN Depth ELSE n
<1>1. m # 0 /\ verdict[s][i] = "no"
  BY DEF Verdict
<1>2. i \in 1..Depth /\ j \in i..Depth
  BY <1>1, DispatcherAssumption
<1>3. verdict[s][j] = verdict[s][i]
  BY <1>1, <1>2 DEF DispatcherInv, VerdictInv, Stable
<1> QED
  BY <1>1, <1>3 DEF Verdict

(* An attempt without a match leaves AttemptInv true of what it has seen; n *)
(* is at least what the attempt before has seen.                            *)
LEMMA AttemptFails ==
    ASSUME DispatcherInv, pc = "cache", NEW n \in Nat, Len(cache) <= n,
           {s \in pending : Verdict(s, n) = "match"} = {}
    PROVE  \A s \in Sniffers : Clear(s) =>
               \/ Verdict(s, n) = "no"
               \/ Verdict(s, n) = "noclue" /\ s \in pending
<1> SUFFICES ASSUME NEW s \in Sniffers, Clear(s), Verdict(s, n) # "no"
             PROVE  Verdict(s, n) = "noclue" /\ s \in pending
  OBVIOUS
<1>1. Len(cache) \in Nat
  BY LenProperties DEF DispatcherInv, TypeInv, BufferInv
<1>2. s \in pending
  BY <1>1, NoStaysNo DEF DispatcherInv, AttemptInv
<1>3. Verdict(s, n) \in Verdicts
  BY DispatcherAssumption DEF DispatcherInv, TypeInv, FlagTypes, Verdict, Verdicts
<1>4. Verdict(s, n) # "more"
  BY DispatcherAssumption DEF Clear, Verdict
<1> QED
  BY <1>2, <1>3, <1>4 DEF Verdicts

(* Every way an attempt can end keeps AttemptInv and ResultInv. *)
LEMMA AttemptEnds ==
    ASSUME DispatcherInv, pc = "cache", UNCHANGED <<connVars, out>>,
           Len(cache') \in Nat, Len(cache) <= Len(cache'),
           NEW timeUp \in BOOLEAN, Sniff(Len(cache'), timeUp)
    PROVE  (AttemptInv /\ ResultInv)'
<1> DEFINE n == Len(cache')
           Found == {s \in pending : Verdict(s, n) = "match"}
           Left == {s \in pending : Verdict(s, n) = "noclue"}
<1>0. /\ \A s \in Sniffers : Verdict(s, Len(cache))' = Verdict(s, n)
      /\ \A s \in Sniffers : Clear(s)' <=> Clear(s)
      /\ \A s : Destination(Domain(s))' = Destination(Domain(s))
      /\ out' = <<>>
  BY DEF Verdict, Clear, Destination, Domain, MetaResult, connVars, DispatcherInv, AttemptInv
<1>1. ASSUME NEW s \in Found, Finish(s) PROVE (AttemptInv /\ ResultInv)'
  <2>1. pc' = "route" /\ protocol' = s /\ dest' = Destination(Domain(s))
    BY <1>1, DispatcherAssumption DEF Finish, Protocol, DispatcherInv, TypeInv, SniffTypes
  <2>2. ASSUME NEW r \in Sniffers, Recognised(r)' PROVE r = s
    <3>1. \A q \in Sniffers \ {r} : Verdict(q, n) # "match"
      BY <2>2, <1>0 DEF Recognised
    <3> QED
      BY <3>1 DEF DispatcherInv, TypeInv, SniffTypes
  <2> QED
    BY <1>0, <2>1, <2>2 DEF AttemptInv, ResultInv
<1>2. ASSUME Found = {}, Finish("none") PROVE (AttemptInv /\ ResultInv)'
  <2>1. pc' = "route"
    BY <1>2 DEF Finish
  <2>2. \A s \in Sniffers : ~Recognised(s)'
    BY <1>0, <1>2, AttemptFails DEF Recognised
  <2> QED
    BY <1>0, <2>1, <2>2 DEF AttemptInv, ResultInv
<1>3. ASSUME Found = {}, pending' = Left, UNCHANGED pc PROVE (AttemptInv /\ ResultInv)'
  <2>1. \A s \in Sniffers : Clear(s) =>
          \/ Verdict(s, n) = "no"
          \/ Verdict(s, n) = "noclue" /\ s \in pending'
    BY <1>3, AttemptFails
  <2> QED
    BY <1>0, <1>3, <2>1 DEF AttemptInv, ResultInv
<1> QED
  BY <1>1, <1>2, <1>3 DEF Sniff

(* Nothing but an attempt changes what was sniffed until the handler reads. *)
LEMMA ResultStep == DispatcherInv /\ [Next]_vars => (AttemptInv /\ ResultInv)'
<1> SUFFICES ASSUME DispatcherInv, [Next]_vars PROVE (AttemptInv /\ ResultInv)'
  OBVIOUS
<1> DEFINE Kept == UNCHANGED <<connVars, cache, sniffVars>>
<1>0. ASSUME Kept
      PROVE  /\ \A s \in Sniffers : Verdict(s, Len(cache))' = Verdict(s, Len(cache))
             /\ \A s \in Sniffers : Clear(s)' <=> Clear(s)
             /\ \A s \in Sniffers : Recognised(s)' <=> Recognised(s)
             /\ \A s : Destination(Domain(s))' = Destination(Domain(s))
  BY <1>0 DEF Verdict, Clear, Recognised, Destination, Domain, MetaResult, connVars
<1>1. CASE Kept /\ UNCHANGED <<out, pc>>
  BY <1>0, <1>1 DEF DispatcherInv, AttemptInv, ResultInv, connVars, sniffVars
<1>2. CASE SniffMetadata
  <2>1. UNCHANGED <<wrapped, sniffing, fake, verdict, cache, out, pending>>
    BY <1>2 DEF SniffMetadata, connVars, readerVars
  <2>2. out' = <<>> /\ Len(cache') = 0 /\ pending' = Sniffers
    BY <1>2, <2>1, EmptySeq DEF SniffMetadata, DispatcherInv, AttemptInv
  <2>3. \A s \in Sniffers : Verdict(s, Len(cache))' = "noclue"
    BY <2>2 DEF Verdict
  <2>4. pc' = "cache" \/ (pc' = "route" /\ sniffing' # "full")
    BY <1>2, <2>1 DEF SniffMetadata, Finish
  <2> QED
    BY <2>2, <2>3, <2>4 DEF AttemptInv, ResultInv
<1>3. CASE CacheData
  <2>1. PICK k \in 1..Len(pipe), timeUp \in BOOLEAN :
               /\ cache' = cache \o SubSeq(pipe, 1, k)
               /\ Sniff(Len(cache'), timeUp)
    BY <1>3 DEF CacheData
  <2>2. Len(cache') \in Nat /\ Len(cache) <= Len(cache')
    <3>1. /\ pipe \in Seq(Chunk) /\ cache \in Seq(Chunk) /\ Len(cache) \in Nat
          /\ Len(pipe) \in Nat
      BY LenProperties DEF DispatcherInv, TypeInv, BufferInv
    <3>2. SubSeq(pipe, 1, k) \in Seq(Chunk) /\ Len(SubSeq(pipe, 1, k)) = k
      BY <3>1, SplitAt
    <3>3. Len(cache') = Len(cache) + k
      BY <2>1, <3>1, <3>2, ConcatProperties
    <3> QED
      BY <3>1, <3>3
  <2> QED
    BY <1>3, <2>1, <2>2, AttemptEnds DEF CacheData
<1>4. CASE CacheTimeout
  <2>1. Len(cache) \in Nat /\ UNCHANGED cache
    BY <1>4, LenProperties DEF CacheTimeout, readerVars, DispatcherInv, TypeInv, BufferInv
  <2>2. Sniff(Len(cache'), TRUE)
    BY <1>4, <2>1 DEF CacheTimeout
  <2>3. UNCHANGED <<connVars, out>> /\ pc = "cache"
    BY <1>4 DEF CacheTimeout
  <2>4. Len(cache') \in Nat /\ Len(cache) <= Len(cache')
    BY <2>1
  <2> QED
    BY <2>2, <2>3, <2>4, AttemptEnds
<1>5. CASE CacheFails
  <2>1. UNCHANGED <<connVars, cache, out>> /\ pc = "cache" /\ pc' = "route"
    BY <1>5 DEF CacheFails, readerVars, Finish
  <2>2. \A s \in Sniffers : ~Recognised(s)
    BY <2>1 DEF Recognised, DispatcherInv, AttemptInv
  <2>3. \A s \in Sniffers : Recognised(s)' <=> Recognised(s)
    BY <2>1 DEF Recognised, Clear, Verdict, connVars
  <2> QED
    BY <2>1, <2>2, <2>3 DEF DispatcherInv, AttemptInv, ResultInv
<1>6. CASE Checking \/ Route
  <2>1. /\ Kept /\ UNCHANGED out
        /\ pc \in {"route", "check", "pick"}
        /\ pc' \in {"check", "pick", "reading", "panicked"}
    BY <1>6 DEF Checking, CheckBegins, CheckRule, CheckPanics, CheckEnds, Route, readerVars
  <2> QED
    BY <1>0, <2>1 DEF DispatcherInv, AttemptInv, ResultInv, connVars, sniffVars
<1>7. CASE Rejecting
  BY <1>7 DEF Rejecting, RejectByRule, RejectNoHandler, Rejects, AttemptInv, ResultInv
<1>8. CASE ReadCached
  <2>1. out' # <<>>
    BY <1>8, ConcatEqualIffEmpty DEF ReadCached, DispatcherInv, TypeInv, BufferInv
  <2> QED
    BY <1>8, <2>1 DEF ReadCached, AttemptInv, ResultInv
<1>9. CASE ReadPipe
  <2>1. PICK k \in 1..Len(pipe) : out' = out \o SubSeq(pipe, 1, k)
    BY <1>9 DEF ReadPipe
  <2>2. SubSeq(pipe, 1, k) \in Seq(Chunk) /\ Len(SubSeq(pipe, 1, k)) = k /\ k # 0
    BY SplitAt, LenProperties DEF DispatcherInv, TypeInv, BufferInv
  <2>3. Len(out) \in Nat /\ Len(out') = Len(out) + k
    BY <2>1, <2>2, LenProperties, ConcatProperties DEF DispatcherInv, TypeInv, BufferInv
  <2>4. out' # <<>>
    BY <2>2, <2>3, EmptySeq
  <2> QED
    BY <1>9, <2>4 DEF ReadPipe, AttemptInv, ResultInv
<1>10. CASE ReadEnd
  BY <1>10 DEF ReadEnd, AttemptInv, ResultInv
<1>11. CASE Client \/ CloseAll \/ Update \/ UNCHANGED vars
  BY <1>1, <1>11 DEF Client, ClientWrite, ClientClose, CloseAll, Update, UpdateRule,
     AppendRule, ReplaceProtocols, vars, readerVars
<1> QED
  BY <1>2, <1>3, <1>4, <1>5, <1>6, <1>7, <1>8, <1>9, <1>10, <1>11
     DEF Next, Sniffing, Dispatch, Reading

(* The parts make up an inductive invariant. *)
LEMMA DispatcherInvAlways == Spec => []DispatcherInv
<1>1. Init => DispatcherInv
  <2> SUFFICES ASSUME Init PROVE DispatcherInv
    OBVIOUS
  <2>1. VerdictInv
    BY DEF Init, VerdictInv
  <2>2. AttemptInv /\ ResultInv
    BY DEF Init, AttemptInv, ResultInv
  <2>3. CheckInv
    BY DEF Init, CheckInv, DomainsDone
  <2> QED
    BY InitTypeInv, <2>1, <2>2, <2>3 DEF DispatcherInv
<1>2. DispatcherInv /\ [Next]_vars => DispatcherInv'
  <2> SUFFICES ASSUME DispatcherInv, [Next]_vars PROVE DispatcherInv'
    OBVIOUS
  <2>1. TypeInv'
    BY BufferStep, FlagStep, SniffStep, RuleStep, LoopStep DEF DispatcherInv, TypeInv
  <2>2. UNCHANGED verdict
    BY DEF Next, vars, connVars, Client, ClientWrite, ClientClose, CloseAll, Sniffing,
           SniffMetadata, CacheData, CacheTimeout, CacheFails, Dispatch, Checking,
           CheckBegins, CheckRule, CheckPanics, CheckEnds, Rejecting, RejectByRule,
           RejectNoHandler, Rejects, Route, Reading, ReadCached, ReadPipe, ReadEnd, Update,
           UpdateRule, AppendRule, ReplaceProtocols
  <2>3. VerdictInv'
    BY <2>2 DEF DispatcherInv, VerdictInv, Stable
  <2> QED
    BY <2>1, <2>3, ResultStep, CheckStep DEF DispatcherInv
<1> QED
  BY <1>1, <1>2, PTL DEF Spec

(* A connection that was recognised as a protocol, or as going to a domain, *)
(* that the rules reject does not get to an outbound handler                *)
(* (default.go 600-648).  That the sniffers which were dropped between two  *)
(* attempts could not have recognised it is AttemptInv; that a check has    *)
(* seen every rule of a list which nobody filled or replaced is CheckInv.   *)
THEOREM BlockedIsAlwaysStopped == Spec => []BlockedIsStopped
<1>1. DispatcherInv => BlockedIsStopped
  <2> SUFFICES ASSUME DispatcherInv, pc = "reading", out = <<>>, sniffing = "full", Seen > 0,
                      NEW s \in Sniffers, Verdict(s, Seen) = "match", Clear(s),
                      \A r \in Sniffers \ {s} : Verdict(r, Seen) # "match"
               PROVE  /\ Listed(protocolRules, s) => "protocol" \in replaced
                      /\ Listed(domainRules, s) /\ s \in Override =>
                           fake \/ partial \/ "domain" \in replaced
    BY DEF BlockedIsStopped, Clear
  <2>1. Seen = Len(cache) /\ cache # <<>>
    <3>1. Len(cache) \in Nat /\ Len(out) = 0
      BY LenProperties, EmptySeq DEF DispatcherInv, TypeInv, BufferInv
    <3>2. Seen = Len(cache)
      BY <3>1 DEF Seen
    <3> QED
      BY <3>1, <3>2, EmptySeq
  <2>2. protocol = s /\ dest = Destination(Domain(s))
    BY <2>1 DEF DispatcherInv, ResultInv, Recognised
  <2>3. s \in Override /\ ~fake => dest = s
    BY <2>2 DEF Destination, Domain
  <2> QED
    BY <2>2, <2>3, DispatcherAssumption DEF DispatcherInv, CheckInv, DomainsDone
<1> QED
  BY <1>1, DispatcherInvAlways, PTL

(* Checking a connection only indexes past the end of a list that UpdateRule *)
(* has replaced since the check took its range, whatever the rules and      *)
(* however many updates (rule.go 9-28, 31, 40).  While the list of domains  *)
(* is the same one, it is at least as long as the range: that is CheckInv.  *)
THEOREM DispatcherPanicsIfReplaced == Spec => []PanicsOnlyIfReplaced
<1>1. Init => PanicsOnlyIfReplaced
  BY DEF Init, PanicsOnlyIfReplaced
<1>2. DispatcherInv /\ PanicsOnlyIfReplaced /\ [Next]_vars => PanicsOnlyIfReplaced'
  <2> SUFFICES ASSUME DispatcherInv, PanicsOnlyIfReplaced, [Next]_vars, pc' = "panicked"
               PROVE  list' \in replaced'
    BY DEF PanicsOnlyIfReplaced
  <2>1. CASE CheckPanics
    <3>1. pc = "check" /\ index <= bound /\ index > Len(Rules) /\ list' = list /\ replaced' = replaced
      BY <2>1 DEF CheckPanics, InRange, ruleVars, checkVars
    <3>2. /\ Len(domainRules) \in Nat /\ Len(protocolRules) \in Nat /\ bound \in Nat
          /\ index \in Nat /\ list \in {"domain", "protocol"}
      BY LenProperties DEF DispatcherInv, TypeInv, RuleTypes, LoopTypes, Lists
    <3>3. CASE list = "domain"
      BY <3>1, <3>2, <3>3 DEF Rules, DispatcherInv, CheckInv, InDomains
    <3>4. CASE list = "protocol"
      BY <3>1, <3>2, <3>4 DEF Rules, DispatcherInv, CheckInv, InProtocols
    <3> QED
      BY <3>2, <3>3, <3>4
  <2>2. CASE UNCHANGED vars
    BY <2>2 DEF PanicsOnlyIfReplaced, vars, ruleVars, checkVars
  <2>3. CheckPanics \/ UNCHANGED vars
    BY DEF Next, Client, ClientWrite, ClientClose, CloseAll, Sniffing, SniffMetadata,
           CacheData, CacheTimeout, CacheFails, Sniff, Finish, Dispatch, Checking, CheckBegins,
           CheckRule, CheckEnds, Rejecting, RejectByRule, RejectNoHandler, Rejects, Route,
           Reading, ReadCached, ReadPipe, ReadEnd, Update, UpdateRule, AppendRule,
           ReplaceProtocols
  <2> QED
    BY <2>1, <2>2, <2>3
<1> QED
  BY <1>1, <1>2, DispatcherInvAlways, PTL DEF Spec

-----------------------------------------------------------------------------
Queue == IF Given THEN cache \o pipe ELSE <<>>

(* What the stream has is what is cached and what is in the pipe. *)
LEMMA QueueIsSeq ==
    ASSUME TypeInv
    PROVE  /\ pipe \in Seq(Chunk) /\ cache \in Seq(Chunk) /\ out \in Seq(Chunk)
           /\ Len(pipe) \in Nat /\ Len(cache) \in Nat
           /\ cache \o pipe \in Seq(Chunk) /\ Len(cache \o pipe) = Len(cache) + Len(pipe)
           /\ <<>> \o pipe = pipe /\ cache \o <<>> = cache
<1>1. pipe \in Seq(Chunk) /\ cache \in Seq(Chunk) /\ out \in Seq(Chunk)
  BY DEF TypeInv, BufferInv
<1> QED
  BY <1>1, LenProperties, ConcatProperties, ConcatEmptySeq

(* The first chunks of the stream are the cached ones. *)
LEMMA CachedComeFirst ==
    ASSUME TypeInv
    PROVE  /\ SubSeq(cache \o pipe, 1, Len(cache)) = cache
           /\ SubSeq(cache \o pipe, Len(cache) + 1, Len(cache \o pipe)) = pipe
<1>0. /\ pipe \in Seq(Chunk) /\ cache \in Seq(Chunk)
      /\ Len(pipe) \in Nat /\ Len(cache) \in Nat
      /\ Len(cache \o pipe) = Len(cache) + Len(pipe)
  BY QueueIsSeq
<1>1. SubSeq(cache \o pipe, 1, Len(cache)) = cache
  <2>1. CASE Len(cache) = 0
    BY <1>0, <2>1, SubSeqEmpty, EmptySeq
  <2>2. CASE Len(cache) # 0
    <3>1. 1 \in 1..Len(cache) /\ Len(cache) \in 1..Len(cache)
      BY <1>0, <2>2
    <3>2. SubSeq(cache \o pipe, 1, Len(cache)) = SubSeq(cache, 1, Len(cache))
      BY <1>0, <3>1, SubSeqOfConcat1
    <3> QED
      BY <1>0, <3>2, SubSeqFull
  <2> QED
    BY <2>1, <2>2
<1>2. SubSeq(cache \o pipe, Len(cache) + 1, Len(cache \o pipe)) = pipe
  <2>1. CASE Len(pipe) = 0
    BY <1>0, <2>1, SubSeqEmpty, EmptySeq
  <2>2. CASE Len(pipe) # 0
    <3>1. /\ Len(cache) + 1 \in (Len(cache) + 1)..(Len(cache) + Len(pipe))
          /\ Len(cache) + Len(pipe) \in (Len(cache) + 1)..(Len(cache) + Len(pipe))
          /\ (Len(cache) + 1) - Len(cache) = 1
          /\ (Len(cache) + Len(pipe)) - Len(cache) = Len(pipe)
      BY <1>0, <2>2
    <3>2. SubSeq(cache \o pipe, Len(cache) + 1, Len(cache) + Len(pipe))
            = SubSeq(pipe, (Len(cache) + 1) - Len(cache), (Len(cache) + Len(pipe)) - Len(cache))
      BY <1>0, <3>1, SubSeqOfConcat2
    <3> QED
      BY <1>0, <3>1, <3>2, SubSeqFull
  <2> QED
    BY <2>1, <2>2
<1> QED
  BY <1>1, <1>2

(* What the client writes goes behind what is cached. *)
LEMMA WrittenComesLast ==
    ASSUME TypeInv, NEW e \in Chunk
    PROVE  cache \o Append(pipe, e) = Append(cache \o pipe, e)
<1>1. /\ pipe \in Seq(Chunk) /\ cache \in Seq(Chunk) /\ <<e>> \in Seq(Chunk)
      /\ cache \o pipe \in Seq(Chunk)
  BY QueueIsSeq
<1>2. Append(pipe, e) = pipe \o <<e>> /\ Append(cache \o pipe, e) = (cache \o pipe) \o <<e>>
  BY <1>1, AppendIsConcat
<1> QED
  BY <1>1, <1>2, ConcatAssociative

(* Each step of the dispatcher is a step of the stream or none. *)
LEMMA StreamStep == TypeInv /\ TypeInv' /\ [Next]_vars => [Outbound!Next]_(Outbound!vars)
<1> SUFFICES ASSUME TypeInv, TypeInv', [Next]_vars PROVE [Outbound!Next]_(Outbound!vars)
  OBVIOUS
<1> USE DEF Queue
<1>1. ASSUME UNCHANGED <<sent, Queue, out, cut>>, Given' = Given
      PROVE  UNCHANGED Outbound!vars
  BY <1>1 DEF Outbound!vars
<1>2. CASE pc # "panicked" /\ ClientWrite
  <2>1. Given /\ Given' /\ ~cut
    BY <1>2 DEF ClientWrite, Given
  <2>2. sent' = sent + 1 /\ sent' \in Chunk
    BY <1>2, DispatcherAssumption DEF ClientWrite, Chunk, TypeInv, BufferInv
  <2>3. Queue' = Append(Queue, sent')
    BY <1>2, <2>1, <2>2, WrittenComesLast DEF ClientWrite
  <2>4. UNCHANGED <<out, cut>>
    BY <1>2 DEF ClientWrite
  <2> QED
    BY <2>1, <2>2, <2>3, <2>4 DEF Outbound!Next, Outbound!Write
<1>3. CASE CloseAll
  <2>1. UNCHANGED <<sent, out, cache, pc>>
    BY <1>3 DEF CloseAll, clientVars
  <2>2. CASE wrapped
    BY <1>1, <1>3, <2>1, <2>2 DEF CloseAll, Given
  <2>3. CASE ~Given
    <3>1. Given' = Given
      BY <2>1 DEF Given
    <3>2. (cut' \/ ~Given') = (cut \/ ~Given)
      BY <2>3, <3>1
    <3> QED
      BY <2>1, <2>3, <3>1, <3>2 DEF Outbound!vars
  <2>4. CASE ~wrapped /\ Given
    <3>1. pipe' = <<>> /\ cut' /\ Given'
      BY <1>3, <2>1, <2>4 DEF CloseAll, Given
    <3>2. Queue' = SubSeq(Queue, 1, Len(cache))
      BY <2>1, <2>4, <3>1, CachedComeFirst, QueueIsSeq
    <3>3. Len(cache) \in 0..Len(Queue)
      BY <2>4, QueueIsSeq
    <3>4. (cut' \/ ~Given') = TRUE
      BY <3>1
    <3>5. Outbound!Break
      BY <2>1, <3>2, <3>3, <3>4 DEF Outbound!Break
    <3> QED
      BY <3>5 DEF Outbound!Next
  <2> QED
    BY <2>2, <2>4, <2>3
<1>4. CASE CacheData
  <2>1. PICK k \in 1..Len(pipe) : /\ cache' = cache \o SubSeq(pipe, 1, k)
                                  /\ pipe' = SubSeq(pipe, k + 1, Len(pipe))
    BY <1>4 DEF CacheData
  <2>2. UNCHANGED <<sent, out, cut>> /\ Given /\ Given'
    BY <1>4 DEF CacheData, clientVars, Given, Sniff, Finish
  <2>3. cache' \o pipe' = cache \o pipe
    <3>1. /\ SubSeq(pipe, 1, k) \in Seq(Chunk) /\ SubSeq(pipe, k + 1, Len(pipe)) \in Seq(Chunk)
          /\ SubSeq(pipe, 1, k) \o SubSeq(pipe, k + 1, Len(pipe)) = pipe
      BY QueueIsSeq, SplitAt
    <3> DEFINE a == SubSeq(pipe, 1, k)
               b == SubSeq(pipe, k + 1, Len(pipe))
    <3>2. (cache \o a) \o b = cache \o (a \o b)
      <4>1. a \in Seq(Chunk) /\ b \in Seq(Chunk) /\ cache \in Seq(Chunk)
        BY <3>1, QueueIsSeq
      <4> HIDE DEF a, b
      <4> QED
        BY <4>1, ConcatAssociative
    <3> QED
      BY <2>1, <3>1, <3>2 DEF a, b
  <2> QED
    BY <1>1, <2>2, <2>3
<1>5. CASE CheckPanics \/ Rejecting
  <2>1. UNCHANGED <<sent, out>> /\ Given /\ ~Given'
    BY <1>5 DEF CheckPanics, Rejecting, RejectByRule, RejectNoHandler, Rejects, clientVars,
       Given
  <2>2. Queue' = SubSeq(Queue, 1, 0) /\ 0 \in 0..Len(Queue)
    BY <2>1, QueueIsSeq, SubSeqEmpty
  <2>3. (cut' \/ ~Given') = TRUE
    BY <2>1
  <2>4. Outbound!Break
    BY <2>1, <2>2, <2>3 DEF Outbound!Break
  <2> QED
    BY <2>4 DEF Outbound!Next
<1>6. CASE ReadCached
  <2>1. UNCHANGED <<sent, cut, pipe>> /\ Given /\ Given' /\ cache' = <<>> /\ cache # <<>>
    BY <1>6 DEF ReadCached, clientVars, Given
  <2>2. out' = out \o SubSeq(Queue, 1, Len(cache))
    BY <1>6, <2>1, CachedComeFirst DEF ReadCached
  <2>3. Queue' = SubSeq(Queue, Len(cache) + 1, Len(Queue))
    BY <2>1, CachedComeFirst, QueueIsSeq
  <2>4. Len(cache) \in 1..Len(Queue)
    BY <2>1, QueueIsSeq, EmptySeq
  <2>5. Outbound!Read
    BY <2>1, <2>2, <2>3, <2>4 DEF Outbound!Read
  <2> QED
    BY <2>5 DEF Outbound!Next
<1>7. CASE ReadPipe
  <2>1. UNCHANGED <<sent, cut, cache>> /\ Given /\ Given' /\ cache = <<>>
    BY <1>7 DEF ReadPipe, clientVars, Given
  <2>2. pipe \in Seq(Chunk) /\ pipe' \in Seq(Chunk')
    BY DEF TypeInv, BufferInv
  <2>3. /\ UNCHANGED <<sent, cut, cache>> /\ Given /\ Given'
        /\ Queue = pipe /\ Queue' = pipe'
    BY <2>1, <2>2, ConcatEmptySeq
  <2>4. PICK k \in 1..Len(pipe) : /\ out' = out \o SubSeq(pipe, 1, k)
                                  /\ pipe' = SubSeq(pipe, k + 1, Len(pipe))
    BY <1>7 DEF ReadPipe
  <2>5. Outbound!Read
    BY <2>3, <2>4 DEF Outbound!Read
  <2> QED
    BY <2>5 DEF Outbound!Next
<1>8. CASE ClientClose \/ SniffMetadata \/ CacheTimeout \/ CacheFails
  BY <1>8, <1>1 DEF ClientClose, SniffMetadata, CacheTimeout, CacheFails, Sniff, Finish,
         Given, clientVars, readerVars
<1>9. CASE CheckBegins \/ CheckRule \/ CheckEnds \/ Route \/ ReadEnd
  BY <1>9, <1>1 DEF CheckBegins, CheckRule, CheckEnds, Route, ReadEnd, Given, clientVars,
     readerVars
<1>10. CASE Update \/ UNCHANGED vars
  BY <1>10, <1>1 DEF Update, UpdateRule, AppendRule, ReplaceProtocols, vars, Given, clientVars,
     readerVars
<1> QED
  BY <1>2, <1>3, <1>4, <1>5, <1>6, <1>7, <1>8, <1>9, <1>10
     DEF Next, Client, Sniffing, Dispatch, Checking, Reading

(* What sniffing does is invisible to the outbound handler, whatever the    *)
(* protocols, rules and connection: the handler reads what the client wrote *)
(* with nothing lost but the end, nothing repeated and nothing reordered,   *)
(* however the sniffer's reads, the client's writes, the handler's reads    *)
(* and CloseAll interleave (cachedReader, default.go 53-110).  This is the  *)
(* safety part of SniffingIsInvisible; that the data arrives in the end is  *)
(* left to TLC.                                                             *)
THEOREM SniffingKeepsTheStream == Spec => Outbound!Safety
<1>1. Init => Outbound!Init
  <2> SUFFICES ASSUME Init PROVE Outbound!Init
    OBVIOUS
  <2>1. sent = 0 /\ pipe = <<>> /\ cache = <<>> /\ out = <<>> /\ cut = FALSE /\ Given
    BY DEF Init, Given
  <2>2. <<>> \o <<>> = <<>>
    OBVIOUS
  <2>3. (cut \/ ~Given) = FALSE
    BY <2>1
  <2> QED
    BY <2>1, <2>2, <2>3 DEF Outbound!Init
<1>2. Spec => []TypeInv
  BY DispatcherInvAlways, PTL DEF DispatcherInv
<1> QED
  BY <1>1, <1>2, StreamStep, PTL DEF Spec, Outbound!Safety

-----------------------------------------------------------------------------
(* The handler has read the first chunks the client wrote, in order.        *)
ReadInOrder == \A k \in 1..Len(out) : out[k] = k

(* The queue goes on where the handler stopped, and nothing is missing from *)
(* it while nobody has broken the stream.                                   *)
OrderInv ==
    /\ ReadInOrder
    /\ \A k \in 1..Len(Queue) : Queue[k] = Len(out) + k
    /\ Len(out) + Len(Queue) <= sent
    /\ ~(cut \/ ~Given) => Len(out) + Len(Queue) = sent

(* What stands where in a concatenation. *)
LEMMA ConcatElements ==
    ASSUME NEW S, NEW p \in Seq(S), NEW q \in Seq(S)
    PROVE  /\ Len(p \o q) = Len(p) + Len(q)
           /\ \A k \in 1..Len(p \o q) :
                (p \o q)[k] = IF k <= Len(p) THEN p[k] ELSE q[k - Len(p)]
OBVIOUS

(* The numbers of the chunks survive every step of a stream. *)
LEMMA OrderStep ==
    TypeInv /\ TypeInv' /\ OrderInv /\ [Outbound!Next]_(Outbound!vars) => OrderInv'
<1> SUFFICES ASSUME TypeInv, TypeInv', OrderInv, [Outbound!Next]_(Outbound!vars)
             PROVE  OrderInv'
  OBVIOUS
<1> DEFINE broken == cut \/ ~Given
<1>1. /\ out \in Seq(Chunk) /\ Queue \in Seq(Chunk) /\ Len(out) \in Nat /\ Len(Queue) \in Nat
      /\ sent \in Nat
  <2>1. out \in Seq(Chunk) /\ cache \o pipe \in Seq(Chunk) /\ <<>> \in Seq(Chunk)
    BY QueueIsSeq, EmptySeq
  <2>2. Queue \in Seq(Chunk)
    BY <2>1 DEF Queue
  <2>3. sent \in Nat
    BY DispatcherAssumption DEF TypeInv, BufferInv
  <2> QED
    BY <2>1, <2>2, <2>3, LenProperties
<1>2. CASE Outbound!Write
  <2>1. ~broken /\ sent' = sent + 1 /\ Queue' = Append(Queue, sent') /\ out' = out
    BY <1>2 DEF Outbound!Write, Queue
  <2>2. Len(out) + Len(Queue) = sent
    BY <2>1 DEF OrderInv
  <2>3. /\ Len(Queue') = Len(Queue) + 1
        /\ \A k \in 1..Len(Queue) : Queue'[k] = Queue[k]
        /\ Queue'[Len(Queue) + 1] = sent + 1
    <3> HIDE DEF Queue
    <3> QED
      BY <1>1, <2>1, AppendProperties
  <2>4. Len(Queue') = Len(Queue) + 1
    BY <2>3
  <2>5. Len(out') = Len(out)
    BY <2>1
  <2>6. Len(out) \in Nat /\ Len(Queue) \in Nat
    BY <1>1
  <2>7. Len(out') + Len(Queue') = sent' /\ sent' \in Nat
    BY <2>1, <2>2, <2>4, <2>5, <2>6
  <2>8. \A k \in 1..Len(Queue') : Queue'[k] = Len(out') + k
    <3> SUFFICES ASSUME NEW k \in 1..Len(Queue') PROVE Queue'[k] = Len(out') + k
      OBVIOUS
    <3>1. k \in 1..Len(Queue) \/ k = Len(Queue) + 1
      BY <2>4, <2>6
    <3>2. CASE k \in 1..Len(Queue)
      BY <2>3, <2>5, <3>2 DEF OrderInv
    <3>3. CASE k = Len(Queue) + 1
      <4>1. Queue'[k] = sent + 1
        BY <2>3, <3>3
      <4> QED
        BY <2>2, <2>5, <2>6, <3>3, <4>1
    <3> QED
      BY <3>1, <3>2, <3>3
  <2>9. ReadInOrder'
    BY <2>1 DEF OrderInv, ReadInOrder
  <2> QED
    BY <2>7, <2>8, <2>9 DEF OrderInv
<1>3. CASE Outbound!Read
  <2>1. PICK n \in 1..Len(Queue) : /\ out' = out \o SubSeq(Queue, 1, n)
                                   /\ Queue' = SubSeq(Queue, n + 1, Len(Queue))
    BY <1>3 DEF Outbound!Read, Queue
  <2>2. sent' = sent /\ broken' = broken
    BY <1>3 DEF Outbound!Read
  <2> DEFINE a == SubSeq(Queue, 1, n)
  <2>3. /\ a \in Seq(Chunk) /\ Len(a) = n
        /\ \A k \in 1..n : a[k] = Queue[k]
    BY <1>1, SplitAt, SubSeqProperties
  <2>4. /\ Len(Queue') = Len(Queue) - n
        /\ \A k \in 1..(Len(Queue) - n) : Queue'[k] = Queue[n + k]
    BY <1>1, <2>1, SplitAt, SubSeqProperties
  <2>5. /\ Len(out') = Len(out) + n
        /\ \A k \in 1..Len(out') : out'[k] = IF k <= Len(out) THEN out[k] ELSE a[k - Len(out)]
    <3>1. out' = out \o a
      BY <2>1
    <3> HIDE DEF a
    <3> QED
      BY <1>1, <2>3, <3>1, ConcatElements
  <2>6. ReadInOrder'
    <3> SUFFICES ASSUME NEW k \in 1..Len(out') PROVE out'[k] = k
      BY DEF ReadInOrder
    <3>1. CASE k <= Len(out)
      BY <1>1, <2>5, <3>1 DEF OrderInv, ReadInOrder
    <3>2. CASE k > Len(out)
      <4>1. k - Len(out) \in 1..n /\ k - Len(out) \in 1..Len(Queue)
        BY <1>1, <2>5, <3>2
      <4>2. out'[k] = Queue[k - Len(out)]
        BY <1>1, <2>3, <2>5, <3>2, <4>1
      <4> QED
        BY <1>1, <4>1, <4>2 DEF OrderInv
    <3> QED
      BY <1>1, <3>1, <3>2
  <2>7. \A k \in 1..Len(Queue') : Queue'[k] = Len(out') + k
    <3> SUFFICES ASSUME NEW k \in 1..Len(Queue') PROVE Queue'[k] = Len(out') + k
      OBVIOUS
    <3>1. n + k \in 1..Len(Queue) /\ k \in 1..(Len(Queue) - n)
      BY <1>1, <2>4
    <3> QED
      BY <1>1, <2>4, <2>5, <3>1 DEF OrderInv
  <2>8. Len(out') + Len(Queue') = Len(out) + Len(Queue)
    BY <1>1, <2>4, <2>5
  <2> QED
    BY <2>2, <2>6, <2>7, <2>8 DEF OrderInv
<1>4. CASE Outbound!Break
  <2>1. PICK n \in 0..Len(Queue) : Queue' = SubSeq(Queue, 1, n)
    BY <1>4 DEF Outbound!Break, Queue
  <2>2. sent' = sent /\ out' = out /\ broken'
    BY <1>4 DEF Outbound!Break
  <2>3. Len(Queue') = n /\ \A k \in 1..n : Queue'[k] = Queue[k]
    BY <1>1, <2>1, SubSeqProperties
  <2>4. \A k \in 1..Len(Queue') : Queue'[k] = Len(out') + k
    <3> SUFFICES ASSUME NEW k \in 1..Len(Queue') PROVE Queue'[k] = Len(out') + k
      OBVIOUS
    <3>1. k \in 1..n /\ k \in 1..Len(Queue)
      BY <1>1, <2>3
    <3> QED
      BY <2>2, <2>3, <3>1 DEF OrderInv
  <2>5. Len(out') + Len(Queue') <= sent'
    BY <1>1, <2>2, <2>3 DEF OrderInv
  <2> QED
    BY <2>2, <2>4, <2>5 DEF OrderInv, ReadInOrder
<1>5. CASE UNCHANGED Outbound!vars
  <2>1. sent' = sent /\ out' = out /\ broken' = broken /\ Queue' = Queue
    BY <1>5 DEF Outbound!vars, Queue
  <2> QED
    BY <2>1 DEF OrderInv, ReadInOrder
<1> QED
  BY <1>2, <1>3, <1>4, <1>5 DEF Outbound!Next

(* What the handler has read is chunk 1, chunk 2 and so on, each once,      *)
(* whether it came through the sniffer's cache or straight from the pipe    *)
(* and whenever CloseAll interrupted the connection (ReadMultiBuffer,       *)
(* default.go 87-110).                                                      *)
THEOREM HandlerReadsInOrder == Spec => []ReadInOrder
<1>1. Init => OrderInv
  <2> SUFFICES ASSUME Init PROVE OrderInv
    OBVIOUS
  <2>1. sent = 0 /\ pipe = <<>> /\ cache = <<>> /\ out = <<>>
    BY DEF Init
  <2>2. <<>> \o <<>> = <<>>
    OBVIOUS
  <2>3. Queue = <<>> /\ Len(Queue) = 0 /\ Len(out) = 0
    BY <2>1, <2>2 DEF Queue
  <2> QED
    BY <2>1, <2>3 DEF OrderInv, ReadInOrder
<1>2. Spec => []TypeInv
  BY DispatcherInvAlways, PTL DEF DispatcherInv
<1>3. OrderInv => ReadInOrder
  BY DEF OrderInv
<1> QED
  BY <1>1, <1>2, <1>3, OrderStep, SniffingKeepsTheStream, PTL DEF Spec, Outbound!Safety
=============================================================================
