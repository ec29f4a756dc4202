----------------------------- MODULE Dispatcher -----------------------------
(***************************************************************************)
(* core/xray/app/mydispatcher: one connection from the moment its link is   *)
(* set up (see Limiter, Links and Traffic) until an outbound handler reads  *)
(* it: sniffing through the cachedReader, the rules, and the route.         *)
(*                                                                         *)
(* The client writes chunks 1, 2, ... at any time.  A content sniffer is    *)
(* named after the protocol it finds; its verdict depends on how many       *)
(* chunks it is shown.  The destination is named after what gave it, and a  *)
(* domain rule after the destination that it matches.                       *)
(***************************************************************************)
EXTENDS Naturals, Sequences, FiniteSets

CONSTANTS
    Sniffers,       \* the content sniffers of the connection's network
    Override,       \* protocols that shouldOverride lets replace the destination
    RuleSets,       \* panel.Rules: domains, those that compile, and protocols
    MaxChunks,      \* bound: chunks the client writes
    Depth,          \* bound: chunks after which no verdict changes any more
    MaxUpdates      \* bound: calls of UpdateRule

ASSUME DispatcherAssumption ==
    /\ IsFiniteSet(Sniffers) /\ Sniffers # {}
    /\ RuleSets \subseteq [domains : Seq(STRING), protocols : Seq(STRING)]
    /\ {"none", "fakedns", "original"} \cap Sniffers = {}
    /\ "none" \notin Override
    /\ MaxChunks \in Nat /\ Depth \in Nat \ {0} /\ MaxUpdates \in Nat

(* match; no: any other error; noclue: common.ErrNoClue; more: the protocol *)
(* matches and the message is incomplete (protocol.ErrProtoNeedMoreData)    *)
Verdicts == {"match", "no", "noclue", "more"}

(* A sniffer keeps its verdict when it is shown more, unless it was waiting. *)
Stable(f) ==
    \A m \in 1..Depth : \A n \in m..Depth :
        /\ f[m] \in {"match", "no"} => f[n] = f[m]
        /\ f[m] = "more" => f[n] # "noclue"

VARIABLES
    wrapped,        \* DispatchLink: the reader is a CounterReader, not a pipe
    sniffing,       \* content.SniffingRequest: off, metadata or full
    fake,           \* the metadata sniffer knows a domain for the address
    verdict,        \* the content sniffers' verdicts
    sent, eof,      \* the client: chunks written, has it closed its side
    pipe,           \* what the reader has not given out yet
    cut,            \* the pipe is interrupted
    downClosed,     \* the writer back to the client is closed
    cache,          \* cachedReader.cache
    out,            \* what the outbound handler has read
    pc,
    pending, attempts,      \* Sniffer.sniffer, totalAttempt
    protocol, dest,         \* content.Protocol, destination
    target, updates,        \* UpdateRule: its last argument, its calls
    domainRules, protocolRules,     \* Limiter.DomainRules, ProtocolRules
    list, index, bound,     \* the list a check is in, the loop and its range
    replaced,       \* history: lists replaced since a check took their range
    partial         \* history: the range of the domains was taken amid an update

connVars == <<wrapped, sniffing, fake, verdict>>
clientVars == <<sent, eof>>
readerVars == <<pipe, cut, downClosed, cache>>
sniffVars == <<pending, attempts, protocol, dest>>
limiterVars == <<target, updates, domainRules, protocolRules>>
checkVars == <<list, index, bound, replaced, partial>>
ruleVars == <<limiterVars, checkVars>>
vars == <<connVars, clientVars, readerVars, out, pc, sniffVars, ruleVars>>

Chunks == UNION {[1..n -> 1..MaxChunks] : n \in 0..MaxChunks}

Lists == {"domain", "protocol"}

(* Type invariant: the fields of cachedReader and Sniffer, the locals of    *)
(* sniffer and routedDispatch.                                              *)
TypeOK ==
    /\ wrapped \in BOOLEAN /\ fake \in BOOLEAN
    /\ sniffing \in {"off", "metadata", "full"}
    /\ verdict \in [Sniffers -> [1..Depth -> Verdicts]]
    /\ sent \in 0..MaxChunks /\ eof \in BOOLEAN
    /\ pipe \in Chunks /\ cache \in Chunks /\ out \in Chunks
    /\ cut \in BOOLEAN /\ downClosed \in BOOLEAN
    /\ pc \in {"meta", "cache", "route", "check", "pick", "reading", "done",
              "rejected", "panicked"}
    /\ pending \in SUBSET Sniffers /\ attempts \in 0..2
    /\ protocol \in Sniffers \cup {"none", "fakedns"}
    /\ dest \in Sniffers \cup {"original", "fakedns"}
    /\ target \in RuleSets /\ updates \in 0..MaxUpdates
    /\ domainRules \in Seq(STRING) /\ protocolRules \in Seq(STRING)
    /\ list \in Lists /\ replaced \in SUBSET Lists /\ partial \in BOOLEAN
    /\ bound \in Nat /\ index \in 1..(bound + 1)

Init ==
    /\ wrapped \in BOOLEAN /\ fake \in BOOLEAN
    /\ sniffing \in {"off", "metadata", "full"}
    /\ verdict \in [Sniffers -> {f \in [1..Depth -> Verdicts] : Stable(f)}]
    /\ sniffing # "full" => \A s \in Sniffers, n \in 1..Depth : verdict[s][n] = "no"
    /\ sent = 0 /\ eof = FALSE
    /\ pipe = <<>> /\ cache = <<>> /\ out = <<>>
    /\ cut = FALSE /\ downClosed = FALSE
    /\ pc = IF sniffing = "off" THEN "route" ELSE "meta"
    /\ pending = Sniffers /\ attempts = 0
    /\ protocol = "none" /\ dest = "original"
    /\ target \in RuleSets /\ updates = 0
    /\ domainRules = target.domains /\ protocolRules = target.protocols
    /\ list = "domain" /\ index = 1 /\ bound = 0
    /\ replaced = {} /\ partial = FALSE

(* Without data no sniffer has a clue: the loop counts it as an attempt too. *)
Verdict(s, n) ==
    IF n = 0 THEN "noclue" ELSE verdict[s][IF n > Depth THEN Depth ELSE n]

-----------------------------------------------------------------------------
(* The client writes.  Its inbound stops once the connection is rejected. *)
ClientWrite ==
    /\ sent < MaxChunks
    /\ ~eof /\ ~cut /\ pc \notin {"rejected", "done"}
    /\ sent' = sent + 1
    /\ pipe' = Append(pipe, sent')
    /\ UNCHANGED <<connVars, eof, cut, downClosed, cache, out, pc, sniffVars, ruleVars>>

ClientClose ==
    /\ ~eof
    /\ eof' = TRUE
    /\ UNCHANGED <<connVars, sent, readerVars, out, pc, sniffVars, ruleVars>>

(* LinkManager.CloseAll: the user is deleted.  The managed writer is the    *)
(* client's end of the pipe or, in DispatchLink, the way back to it.  Of    *)
(* the readers only the pipe can be interrupted; the cachedReader around it *)
(* is not known to the manager and keeps what it has.                       *)
CloseAll ==
    /\ ~cut /\ ~downClosed
    /\ IF wrapped
       THEN downClosed' = TRUE /\ UNCHANGED <<pipe, cut>>
       ELSE pipe' = <<>> /\ cut' = TRUE /\ UNCHANGED downClosed
    /\ UNCHANGED <<connVars, clientVars, cache, out, pc, sniffVars, ruleVars>>

-----------------------------------------------------------------------------
(* What the metadata sniffer gives: the domain behind a fake address.  The   *)
(* sniffer that would try the others after it has no network, and Sniff     *)
(* skips it.                                                                *)
MetaResult == IF fake THEN "fakedns" ELSE "none"

ProtocolPrefersMetadata(p) == IF fake THEN MetaResult ELSE p

(* The two halves of compositeResult; p is what the content gave, or none:   *)
(* the protocol is that of the content if there is one, ...                 *)
Protocol(p) == IF p = "none" THEN MetaResult ELSE p

(* ... the domain that of the metadata if there is one. *)
Domain(p) == IF fake THEN MetaResult ELSE p

(* The domain a result brings replaces the destination. *)
Destination(p) == IF p \in Override THEN p ELSE "original"

(* sniffer returns *)
Finish(p) ==
    /\ pc' = "route"
    /\ protocol' = Protocol(p)
    /\ dest' = Destination(Domain(p))

SniffMetadata ==
    /\ pc = "meta"
    /\ IF sniffing = "metadata"
       THEN Finish("none")
       ELSE pc' = "cache" /\ UNCHANGED <<protocol, dest>>
    /\ UNCHANGED <<connVars, clientVars, readerVars, out, pending, attempts, ruleVars>>

ThreeAttempts == 3

MaxAttempts == 2

(* Sniffer.Sniff of n chunks, and the loop's decision; timeUp tells whether *)
(* the 200 ms are over.  A sniffer that needs more data is not kept, only   *)
(* one that has no clue.                                                    *)
Sniff(n, timeUp) ==
    LET Found == {s \in pending : Verdict(s, n) = "match"}
        Left == {s \in pending : Verdict(s, n) = "noclue"}
        Again == Left # {} /\ attempts + 1 < MaxAttempts /\ ~timeUp
    IN  \/ \E s \in Found :
             /\ Finish(s)
             /\ UNCHANGED <<pending, attempts>>
        \/ /\ Found = {}
           /\ pending' = IF Left = {} THEN pending ELSE Left
           /\ attempts' = IF Left = {} THEN attempts ELSE attempts + 1
           /\ IF Again THEN UNCHANGED <<pc, protocol, dest>> ELSE Finish("none")

(* cachedReader.Cache got something: the pipe gives all it has, the wrapped *)
(* reader what one read returned.                                           *)
CacheData ==
    /\ pc = "cache"
    /\ \E k \in 1..Len(pipe), timeUp \in BOOLEAN :
         /\ ~wrapped => k = Len(pipe)
         /\ cache' = cache \o SubSeq(pipe, 1, k)
         /\ pipe' = SubSeq(pipe, k + 1, Len(pipe))
         /\ Sniff(Len(cache'), timeUp)
    /\ UNCHANGED <<connVars, clientVars, cut, downClosed, out, ruleVars>>

CacheTimeoutRetries ==
    /\ pc = "cache"
    /\ pipe = <<>> /\ wrapped /\ ~eof
    /\ UNCHANGED vars

(* The wrapped reader answers a timeout with nothing and no error.  It      *)
(* waits for a second whatever the caller allows, so the 200 ms are over.   *)
CacheTimeout ==
    /\ pc = "cache"
    /\ pipe = <<>> /\ wrapped /\ ~eof
    /\ Sniff(Len(cache), TRUE)
    /\ UNCHANGED <<connVars, clientVars, readerVars, out, ruleVars>>

(* The loop ends with an error: Cache met the pipe's timeout, the end of    *)
(* the data or an interruption, or the context is done with the client.     *)
CacheFails ==
    /\ pc = "cache"
    /\ (pipe = <<>> /\ ~wrapped) \/ eof
    /\ Finish("none")
    /\ UNCHANGED <<connVars, clientVars, readerVars, out, pending, attempts, ruleVars>>

-----------------------------------------------------------------------------
Rules == IF list = "domain" THEN domainRules ELSE protocolRules

(* What the list is searched for: destStr or the protocol *)
Searched == IF list = "domain" THEN dest ELSE protocol

(* CheckDomainRule ranges over the list that it finds, ... *)
CheckBegins ==
    /\ pc = "route"
    /\ pc' = "check"
    /\ list' = "domain" /\ index' = 1 /\ bound' = Len(domainRules)
    /\ replaced' = {}
    /\ partial' = (domainRules # target.domains)
    /\ UNCHANGED <<connVars, clientVars, readerVars, out, sniffVars, limiterVars>>

InRangeOffByOne == index =< bound + 1

InRange == index =< bound

(* ... and indexes the one the limiter has by then, ... *)
CheckRule ==
    /\ pc = "check"
    /\ InRange /\ index =< Len(Rules)
    /\ Rules[index] # Searched
    /\ index' = index + 1
    /\ UNCHANGED <<connVars, clientVars, readerVars, out, pc, sniffVars, limiterVars,
                   list, bound, replaced, partial>>

(* ... which may be shorter.  Nothing recovers from the panic. *)
CheckPanics ==
    /\ pc = "check"
    /\ InRange /\ index > Len(Rules)
    /\ pc' = "panicked"
    /\ UNCHANGED <<connVars, clientVars, readerVars, out, sniffVars, ruleVars>>

EndsLoops == list' = "domain" /\ index' = 1 /\ bound' = 0

(* The loop is over: on to CheckProtocolRule, if a protocol was found, or   *)
(* to the choice of a handler.                                              *)
CheckEnds ==
    /\ pc = "check"
    /\ ~InRange
    /\ IF list = "domain" /\ protocol # "none"
       THEN /\ list' = "protocol" /\ index' = 1 /\ bound' = Len(protocolRules)
            /\ replaced' = replaced \ {"protocol"}
            /\ UNCHANGED pc
       ELSE /\ pc' = "pick" /\ EndsLoops
            /\ UNCHANGED replaced
    /\ UNCHANGED <<connVars, clientVars, readerVars, out, sniffVars, limiterVars, partial>>

(* routedDispatch closes the way back and interrupts the reader; a          *)
(* cachedReader passes that on to a pipe only, and a CounterReader cannot   *)
(* be interrupted.                                                          *)
Rejects ==
    /\ pc' = "rejected"
    /\ downClosed' = TRUE
    /\ cache' = <<>>
    /\ IF wrapped THEN UNCHANGED <<pipe, cut>> ELSE pipe' = <<>> /\ cut' = TRUE
    /\ EndsLoops
    /\ UNCHANGED <<connVars, clientVars, out, sniffVars, limiterVars, replaced, partial>>

(* It rejects by a rule, ... *)
RejectByRule ==
    /\ pc = "check"
    /\ InRange /\ index =< Len(Rules)
    /\ Rules[index] = Searched
    /\ Rejects

(* ... for a forced or routed outbound that does not exist, or because      *)
(* there is no default outbound.                                            *)
RejectNoHandler ==
    /\ pc = "pick"
    /\ Rejects

(* A handler begins to read. *)
Route ==
    /\ pc = "pick"
    /\ pc' = "reading"
    /\ UNCHANGED <<connVars, clientVars, readerVars, out, sniffVars, ruleVars>>

ReadCachedKeepsIt ==
    /\ pc = "reading"
    /\ cache # <<>>
    /\ out' = out \o cache
    /\ UNCHANGED <<connVars, clientVars, readerVars, pc, sniffVars, ruleVars>>

(* ReadMultiBuffer: the cache first, all of it, ... *)
ReadCached ==
    /\ pc = "reading"
    /\ cache # <<>>
    /\ out' = out \o cache
    /\ cache' = <<>>
    /\ UNCHANGED <<connVars, clientVars, pipe, cut, downClosed, pc, sniffVars, ruleVars>>

(* ... then the reader below. *)
ReadPipe ==
    /\ pc = "reading"
    /\ cache = <<>>
    /\ \E k \in 1..Len(pipe) :
         /\ ~wrapped => k = Len(pipe)
         /\ out' = out \o SubSeq(pipe, 1, k)
         /\ pipe' = SubSeq(pipe, k + 1, Len(pipe))
    /\ UNCHANGED <<connVars, clientVars, cut, downClosed, cache, pc, sniffVars, ruleVars>>

(* The handler sees the end of the data or the interruption. *)
ReadEnd ==
    /\ pc = "reading"
    /\ cache = <<>> /\ pipe = <<>>
    /\ eof \/ cut
    /\ pc' = "done"
    /\ UNCHANGED <<connVars, clientVars, readerVars, out, sniffVars, ruleVars>>

-----------------------------------------------------------------------------
Updating == domainRules # target.domains \/ protocolRules # target.protocols

(* Has a check taken the range of the list? *)
Replaces(l) ==
    replaced' = IF pc \in {"check", "pick", "reading"} THEN replaced \cup {l} ELSE replaced

(* Limiter.UpdateRule on a limiter in use (a named node keeps its limiter   *)
(* when the node changes, and a new one is known before it has rules): the  *)
(* list of domains is emptied, ...                                          *)
UpdateRule(r) ==
    /\ ~Updating
    /\ updates < MaxUpdates
    /\ updates' = updates + 1
    /\ target' = r
    /\ domainRules' = <<>>
    /\ Replaces("domain")
    /\ UNCHANGED <<connVars, clientVars, readerVars, out, pc, sniffVars, protocolRules,
                   list, index, bound, partial>>

(* ... filled one by one, ... *)
AppendRule ==
    /\ domainRules # target.domains
    /\ domainRules' = Append(domainRules, target.domains[Len(domainRules) + 1])
    /\ UNCHANGED <<connVars, clientVars, readerVars, out, pc, sniffVars, target, updates,
                   protocolRules, checkVars>>

(* ... and then that of the protocols is replaced. *)
ReplaceProtocols ==
    /\ domainRules = target.domains /\ protocolRules # target.protocols
    /\ protocolRules' = target.protocols
    /\ Replaces("protocol")
    /\ UNCHANGED <<connVars, clientVars, readerVars, out, pc, sniffVars, target, updates,
                   domainRules, list, index, bound, partial>>

Client == ClientWrite \/ ClientClose

Sniffing == SniffMetadata \/ CacheData \/ CacheTimeout \/ CacheFails

Checking == CheckBegins \/ CheckRule \/ CheckPanics \/ CheckEnds

Rejecting == RejectByRule \/ RejectNoHandler

Dispatch == Checking \/ Rejecting \/ Route

Reading == ReadCached \/ ReadPipe \/ ReadEnd

Update == (\E r \in RuleSets : UpdateRule(r)) \/ AppendRule \/ ReplaceProtocols

Next ==
    /\ pc # "panicked"
    /\ \/ Client
       \/ CloseAll
       \/ Sniffing
       \/ Dispatch
       \/ Reading
       \/ Update

Spec == Init /\ [][Next]_vars

(* The goroutine runs, deadlines pass and the handler reads; the client and *)
(* the node monitor need not do anything.                                   *)
FairSpec ==
    /\ Spec
    /\ WF_vars(Sniffing) /\ WF_vars(Dispatch) /\ WF_vars(Reading)

-----------------------------------------------------------------------------
Given == pc \notin {"rejected", "panicked"}

(* Sniffing is invisible to the outbound handler: cachedReader over a pipe  *)
(* or a socket is a stream that delivers what the client wrote, completely, *)
(* in order, and in the end, however reads by the sniffer, writes and       *)
(* CloseAll interleave (default.go 53-110).  A rejection breaks the stream. *)
Outbound == INSTANCE Stream WITH
    sent <- sent,
    queue <- IF Given THEN cache \o pipe ELSE <<>>,
    got <- out,
    broken <- cut \/ ~Given

SniffingIsInvisible == Outbound!Spec

(* Sniffing ends, also when the client waits for the server to speak first  *)
(* or sends a message no sniffer understands (default.go 565-599).          *)
SniffingEnds == pc \in {"meta", "cache"} ~> pc \notin {"meta", "cache"}

(* The number of chunks the sniffer has been shown *)
Seen == Len(out) + Len(cache)

Listed(q, x) == \E k \in 1..Len(q) : q[k] = x

(* A connection whose data, as far as the sniffer was shown it, is of a     *)
(* protocol that the rules reject does not get to the outbound, whatever    *)
(* metadata or other sniffers say (default.go 600-606, 629-648), unless the *)
(* list was replaced since it was checked; nor one whose sniffed domain is  *)
(* rejected, unless it is checked amid an UpdateRule.  A sniffer that asked *)
(* for more data is not asked again (sniffer.go 66-70), so nothing is       *)
(* claimed of its protocol.                                                 *)
BlockedIsStopped ==
    pc = "reading" /\ out = <<>> /\ sniffing = "full" /\ Seen > 0 =>
        \A s \in Sniffers :
            /\ Verdict(s, Seen) = "match"
            /\ \A n \in 1..Depth : verdict[s][n] # "more"
            /\ \A r \in Sniffers \ {s} : Verdict(r, Seen) # "match"
            => /\ Listed(protocolRules, s) => "protocol" \in replaced
               /\ Listed(domainRules, s) /\ s \in Override =>
                    fake \/ partial \/ "domain" \in replaced

(* A check indexes past the end of a list only if UpdateRule has replaced   *)
(* that very list since the check took its range (rule.go 9-28); that the   *)
(* update began before, still fills the list, or replaced the other one is  *)
(* not enough.  It may have ended long before the panic.                    *)
PanicsOnlyIfReplaced == pc = "panicked" => list \in replaced
=============================================================================
