--------------------------- MODULE SessionlessObj ---------------------------
(* Sessionless signals between two routing nodes.  The provider keeps the   *)
(* latest signal of each key in its local cache, stamped with a change id,  *)
(* and advertises per interface the latest id.  The consumer finds the      *)
(* advertisements, keeps a remote cache record of the provider, and joins a *)
(* short session to ask for the signals in a range of change ids that match *)
(* a range of its match rules; the provider sends them and leaves.  Both    *)
(* ends run the same class; each of them is shown in one role.              *)
EXTENDS ArdpSeq, FiniteSets, FiniteSetsExt, Sequences

CONSTANTS
    Key,          \* keys of signals, numbered in the order of the map localCache
    IfaceOf,      \* the interface of each key
    SenderOf,     \* the sender of each key
    Ttl,          \* the keys whose signals have a time to live
    MatchRule,    \* match rules, [ep |-> endpoint, iface |-> interface]
    Wild,         \* the interface of a rule, or of an advertisement, that names none
    NoMsg,        \* no signal
    NoCache,      \* no remote cache record
    NoSession,    \* no session
    MaxRetries,   \* retries after which the next one would be later than maxSecs
    MaxPush,      \* bound: signals sent
    MaxRules,     \* bound: rule ids given out
    MaxSame,      \* bound: copies of one rule
    MaxFaults,    \* bound: failed joins and lost sessions
    MaxChanges    \* bound: signals and rules taken back, rules repeated, requests of others

Iface == {IfaceOf[k] : k \in Key} \union {r.iface : r \in MatchRule} \union {Wild}
Name == [iface : Iface, changeId : Seqs]

Msg == [key : Key, serial : 1 .. MaxPush, id : Seqs]
Work == [fromChangeId : Seqs, toChangeId : Seqs, fromRulesId : Seqs, toRulesId : Seqs]
Cache == [ifaces : SUBSET Iface, changeId : Seqs, haveReceived : BOOLEAN,
          receivedChangeId : Seqs, appliedRulesId : Seqs, work : Work,
          state : {"IDLE", "IN_PROGRESS"}, retries : Nat, routedMessages : SUBSET Msg, armed : BOOLEAN]
Session == [phase : {"joining", "asked", "serving", "left"}, from : Seqs, to : Seqs,
            rules : SUBSET MatchRule, pos : Nat, erased : BOOLEAN, chan : Seq(Msg)]

ASSUME SessionlessAssumption ==
    /\ Key \subseteq Nat /\ IsFiniteSet(Key) /\ Ttl \subseteq Key
    /\ \A k \in Key : IfaceOf[k] # Wild
    /\ NoMsg \notin Msg /\ NoCache \notin Cache /\ NoSession \notin Session
    /\ {MaxRetries, MaxPush, MaxRules, MaxSame, MaxFaults, MaxChanges} \subseteq Nat
    \* The ids of the endpoints' rules do not get round to the first one.
    /\ MaxRules < SeqSpace

VARIABLES
    \* the provider
    localCache,          \* the cached signal of each key, or NoMsg
    curChangeId,         \* the change id of the signals being sent
    advanceChangeId,     \* whether the next request advances it
    kicked,              \* whether the worker has an alarm pending
    lastAdvertisements,  \* the advertised change id of each interface
    pushed,              \* the number of signals sent so far, the last serial
    \* the consumer
    rules,               \* the copies and the id of each match rule
    nextRulesId,         \* the id of the next new rule
    findingNames,        \* the interfaces whose advertisements are to be looked for
    findCalls,           \* calls of FindAdvertisementByTransport under way, per interface
    cancelCalls,         \* calls of CancelFindAdvertisementByTransport under way
    discovering,         \* the interfaces that are looked for
    lateCancels,         \* wanted interfaces a late cancel has ended (history)
    remote,              \* the remote cache record of the provider, or NoCache
    worker,              \* the worker's locals around JoinSessionAsync
    hist,                \* what the endpoints have been given (history)
    \* between them
    air,                 \* advertised names on their way to the consumer
    session,             \* the attempt to get signals, or NoSession
    faults, changes      \* counted against their bounds

provider == <<localCache, curChangeId, advanceChangeId, kicked, lastAdvertisements, pushed>>
discovery == <<findingNames, findCalls, cancelCalls, discovering, lateCancels>>
ruleVars == <<rules, nextRulesId, discovery>>
vars == <<provider, ruleVars, remote, worker, hist, air, session, faults, changes>>

-----------------------------------------------------------------------------
(* Change ids and rule ids are unsigned and wrap.                           *)

Half == (SeqSpace - 1) \div 2
Largest == SeqSpace - 1

IN_WINDOW(beg, sz, p) == IN_RANGE(beg, sz, p)
IS_GREATER_OR_EQUAL(a, b) == IN_WINDOW(b, Half, a)
IS_GREATER(a, b) == IS_GREATER_OR_EQUAL(a, b) /\ a # b

InRange(from, to, id) == IN_WINDOW(from, Minus(to, from), id)

-----------------------------------------------------------------------------
(* The match rules, a multimap whose equal entries share an id.             *)

NoRule == [copies |-> 0, id |-> 0]
Live(rs) == {r \in MatchRule : rs[r].copies > 0}
Matches(r, k) == r.iface \in {Wild, IfaceOf[k]}

RulesIn(rs, from, to) == {r \in Live(rs) : InRange(from, to, rs[r].id)}

IsMatch(c, rs, from, to) == \E r \in RulesIn(rs, from, to) : r.iface \in c.ifaces

(* What there is to ask the remote cache for.                               *)
PendingWork(c, rs, next) ==
    IF c.haveReceived /\ IS_GREATER(Minus(next, 1), c.appliedRulesId)
    THEN IF IsMatch(c, rs, Plus(c.appliedRulesId, 1), next)
         THEN "APPLY_NEW_RULES" ELSE "NONE"
    ELSE IF /\ IS_GREATER(c.changeId, c.receivedChangeId)
            /\ IsMatch(c, rs, Minus(c.appliedRulesId, Half), next)
         THEN "REQUEST_NEW_SIGNALS" ELSE "NONE"

-----------------------------------------------------------------------------
(* The remote cache record and its schedule.  An alarm is armed for its     *)
(* next join time; when it fires is left open.                              *)

(* The work item is dead while the record is idle.                          *)
NoWork == [fromChangeId |-> 0, toChangeId |-> 0, fromRulesId |-> 0, toRulesId |-> 0]

RemoteCache(name) ==
    [ifaces |-> {name.iface}, changeId |-> name.changeId, haveReceived |-> FALSE,
     receivedChangeId |-> Largest, appliedRulesId |-> Largest,
     work |-> NoWork, state |-> "IDLE", retries |-> 0, routedMessages |-> {}, armed |-> FALSE]

Exhausted(c) == c.retries > MaxRetries

\* Mutant: the state of the record is not looked at.
ScheduledAlways(c) == IF Exhausted(c) THEN NoCache ELSE [c EXCEPT !.armed = TRUE]

(* ScheduleWork on one record: the record with an alarm, or none when the   *)
(* retries are used up and it is erased.                                    *)
Scheduled(c) ==
    IF c.state # "IDLE" THEN c
    ELSE IF Exhausted(c) THEN NoCache ELSE [c EXCEPT !.armed = TRUE]

\* Mutant: new rules are left for the next advertisement.
ScheduleNewSignals(c, rs, next) ==
    IF c = NoCache \/ PendingWork(c, rs, next) # "REQUEST_NEW_SIGNALS" THEN c ELSE Scheduled(c)

(* ScheduleWork on every record with pending work.                          *)
ScheduleWork(c, rs, next) ==
    IF c = NoCache \/ PendingWork(c, rs, next) = "NONE" THEN c ELSE Scheduled(c)

NoWorker == [busy |-> FALSE, retries |-> 0, ok |-> FALSE, stale |-> FALSE]

NoHistory(gaveUp) ==
    [delivered |-> {}, twice |-> {}, missed |-> {}, forgotten |-> {}, gaveUp |-> gaveUp]

(* The record becomes c.  Its erasure ends what is remembered of it, and    *)
(* leaves the worker's reference to it dangling.                            *)
SetRemote(c, h) ==
    LET erased == remote # NoCache /\ c = NoCache
    IN  /\ remote' = c
        /\ hist' = IF erased THEN NoHistory(TRUE) ELSE h
        /\ worker' = IF erased /\ worker.busy THEN [worker EXCEPT !.stale = TRUE] ELSE worker

-----------------------------------------------------------------------------
(* The provider.                                                            *)

(* An event counted against MaxChanges.                                     *)
Changes == changes < MaxChanges /\ changes' = changes + 1

Cached == {k \in Key : localCache[k] # NoMsg}
Without(gone) == [k \in Key |-> IF k \in gone THEN NoMsg ELSE localCache[k]]

(* Signals of these keys may have expired by now.                           *)
MayExpire == SUBSET (Ttl \intersect Cached)

PushMessage(k) ==
    /\ pushed < MaxPush
    /\ pushed' = pushed + 1
    /\ localCache' = [localCache EXCEPT ![k] =
                          [key |-> k, serial |-> pushed + 1, id |-> curChangeId]]
    /\ advanceChangeId' = TRUE
    /\ kicked' = TRUE
    /\ UNCHANGED <<curChangeId, lastAdvertisements, ruleVars, remote, worker, hist, air, session, faults, changes>>

CancelMessage(k) ==
    /\ Changes
    /\ k \in Cached
    /\ localCache' = Without({k})
    /\ kicked' = TRUE
    /\ UNCHANGED <<curChangeId, advanceChangeId, lastAdvertisements, pushed,
                   ruleVars, remote, worker, hist, air, session, faults>>

(* A sender leaves the bus: its signals go, and the worker is alerted only  *)
(* if no signal is left.                                                    *)
SenderLeaves(s) ==
    LET gone == {k \in Cached : SenderOf[k] = s}
    IN  /\ gone # {}
        /\ Changes
        /\ localCache' = Without(gone)
        /\ kicked' = (kicked \/ gone = Cached)
        /\ UNCHANGED <<curChangeId, advanceChangeId, lastAdvertisements, pushed,
                       ruleVars, remote, worker, hist, air, session, faults>>

NotAdvertised == SeqSpace

(* The latest id of each interface; Wild stands for all of them.            *)
Advertisements(cache) ==
    [i \in Iface |->
        LET ids == {cache[k].id : k \in {j \in Key : cache[j] # NoMsg /\ i \in {Wild, IfaceOf[j]}}}
        IN  IF ids = {} THEN NotAdvertised ELSE Max(ids)]

\* Mutant: an interface that is advertised keeps its advertisement.
AdvertisedOnce(i, id) == lastAdvertisements[i] = NotAdvertised

NeedsAdvertisement(i, id) ==
    lastAdvertisements[i] = NotAdvertised \/ IS_GREATER(id, lastAdvertisements[i])

UpdateAdvertisements(cache) ==
    LET adv == Advertisements(cache)
        new == {i \in Iface : adv[i] # NotAdvertised /\ NeedsAdvertisement(i, adv[i])}
    IN  /\ lastAdvertisements' = [i \in Iface |->
               IF i \in new \/ adv[i] = NotAdvertised THEN adv[i] ELSE lastAdvertisements[i]]
        /\ air' = air \union {[iface |-> i, changeId |-> adv[i]] : i \in new \intersect discovering}

(* The worker at the provider: purge, then advertise.                       *)
ProviderAlarm ==
    /\ kicked
    /\ kicked' = FALSE
    /\ \E gone \in MayExpire :
          /\ localCache' = Without(gone)
          /\ UpdateAdvertisements(Without(gone))
    /\ UNCHANGED <<curChangeId, advanceChangeId, pushed, ruleVars, remote, worker, hist, session, faults, changes>>

\* Mutant: a request leaves the change id alone.
AdvanceNever == UNCHANGED <<curChangeId, advanceChangeId>>

(* The head of HandleRangeRequest.                                          *)
Advance ==
    /\ curChangeId' = IF advanceChangeId THEN Plus(curChangeId, 1) ELSE curChangeId
    /\ advanceChangeId' = FALSE

(* A request at the provider that is not this consumer's: an endpoint of    *)
(* its own adds a rule, or another node asks.                               *)
OtherRequest ==
    /\ Changes
    /\ advanceChangeId
    /\ Advance
    /\ \E gone \in MayExpire :
          /\ localCache' = Without(gone)
          /\ kicked' = (kicked \/ gone # {})
    /\ UNCHANGED <<lastAdvertisements, pushed, ruleVars, remote, worker, hist, air, session, faults>>

(* HandleRangeRequest from key pos to the next send, where the locks are    *)
(* released, or to its end, where it alerts the worker and leaves.          *)
Serve(pos) ==
    LET due == {k \in Cached : /\ k >= pos
                               /\ InRange(session.from, session.to, localCache[k].id)}
        hits == {k \in due : session.rules = {} \/ \E r \in session.rules : Matches(r, k)}
    IN  \E gone \in SUBSET (Ttl \intersect due) :
          /\ localCache' = Without(gone)
          /\ IF hits \ gone # {}
             THEN LET k == Min(hits \ gone)
                  IN  /\ \A j \in gone : j < k
                      /\ session' = [session EXCEPT !.phase = "serving", !.pos = k + 1,
                                         !.erased = @ \/ gone # {},
                                         !.chan = Append(@, localCache[k])]
                      /\ UNCHANGED kicked
             ELSE /\ session' = [session EXCEPT !.phase = "left"]
                  /\ kicked' = (kicked \/ session.erased \/ gone # {})

HandleRangeRequest ==
    /\ session # NoSession /\ session.phase = "asked"
    /\ Advance
    /\ Serve(0)
    /\ UNCHANGED <<lastAdvertisements, pushed, ruleVars, remote, worker, hist, air, faults, changes>>

RangeRequestContinues ==
    /\ session # NoSession /\ session.phase = "serving"
    /\ Serve(session.pos)
    /\ UNCHANGED <<curChangeId, advanceChangeId, lastAdvertisements, pushed,
                   ruleVars, remote, worker, hist, air, faults, changes>>

-----------------------------------------------------------------------------
(* The consumer: match rules and discovery.                                 *)

(* One more call under way for each of these interfaces.                    *)
Called(calls, is) == [i \in Iface |-> IF i \in is THEN calls[i] + 1 ELSE calls[i]]

(* The names are noted, and looked for by blocking calls with the locks     *)
(* released.                                                                *)
FindAdvertisedNames(rs) ==
    LET names == {r.iface : r \in Live(rs)} \union {Wild}
    IN  /\ findingNames' = findingNames \union names
        /\ findCalls' = Called(findCalls, names \ findingNames)
        /\ UNCHANGED <<cancelCalls, discovering, lateCancels>>

AddRule(r) ==
    LET isNewRule == rules[r].copies = 0
        rs == [rules EXCEPT ![r] = [copies |-> @.copies + 1,
                                    id |-> IF isNewRule THEN nextRulesId ELSE @.id]]
        next == IF isNewRule THEN Plus(nextRulesId, 1) ELSE nextRulesId
        Fresh(pairs) == IF isNewRule THEN {p \in pairs : p[2] # r} ELSE pairs
    IN  /\ IF isNewRule THEN nextRulesId < MaxRules /\ UNCHANGED changes ELSE Changes
        /\ rules[r].copies < MaxSame
        /\ rules' = rs
        /\ nextRulesId' = next
        /\ SetRemote(ScheduleWork(remote, rs, next),
                     [hist EXCEPT !.delivered = Fresh(@), !.twice = Fresh(@), !.missed = Fresh(@)])
        /\ FindAdvertisedNames(rs)
        /\ UNCHANGED <<provider, air, session, faults>>

(* The names are forgotten, and cancelled by blocking calls with the locks  *)
(* released.                                                                *)
CancelFindAdvertisedNames ==
    /\ findingNames' = {}
    /\ cancelCalls' = Called(cancelCalls, findingNames)
    /\ UNCHANGED <<findCalls, discovering, lateCancels>>

(* The rules become rs; with none left discovery stops.                     *)
SetRules(rs) ==
    /\ Changes
    /\ rules' = rs
    /\ IF Live(rs) = {} THEN CancelFindAdvertisedNames ELSE UNCHANGED discovery
    /\ UNCHANGED <<provider, nextRulesId, remote, worker, hist, air, session, faults>>

RemoveRule(r) ==
    /\ r \in Live(rules)
    /\ SetRules([rules EXCEPT ![r] = IF @.copies = 1 THEN NoRule ELSE [copies |-> @.copies - 1, id |-> @.id]])

EndpointLeaves(ep) ==
    /\ \E r \in Live(rules) : r.ep = ep
    /\ SetRules([r \in MatchRule |-> IF r.ep = ep THEN NoRule ELSE rules[r]])

(* A name is looked for: what is advertised now is found, unless the name   *)
(* is looked for already.                                                   *)
FindAdvertisementByTransport(i) ==
    /\ findCalls[i] > 0
    /\ findCalls' = [findCalls EXCEPT ![i] = @ - 1]
    /\ discovering' = discovering \union {i}
    /\ lateCancels' = lateCancels \ {i}
    /\ air' = IF i \in discovering \/ lastAdvertisements[i] = NotAdvertised THEN air
              ELSE air \union {[iface |-> i, changeId |-> lastAdvertisements[i]]}
    /\ UNCHANGED <<provider, rules, nextRulesId, findingNames, cancelCalls, remote, worker, hist,
                   session, faults, changes>>

(* A name is looked for no more, also when it has been noted again since.   *)
CancelFindAdvertisementByTransport(i) ==
    /\ cancelCalls[i] > 0
    /\ cancelCalls' = [cancelCalls EXCEPT ![i] = @ - 1]
    /\ discovering' = discovering \ {i}
    /\ lateCancels' = IF i \in findingNames THEN lateCancels \union {i} ELSE lateCancels
    /\ UNCHANGED <<provider, rules, nextRulesId, findingNames, findCalls, remote, worker, hist,
                   air, session, faults, changes>>

FoundAdvertisedName(name) ==
    LET c == IF remote = NoCache THEN RemoteCache(name)
             ELSE LET greater == IS_GREATER(name.changeId, remote.changeId)
                  IN  [remote EXCEPT !.ifaces = @ \union {name.iface},
                                     !.changeId = IF greater THEN name.changeId ELSE @,
                                     !.retries = IF greater THEN 0 ELSE @]
    IN  /\ name \in air
        /\ air' = air \ {name}
        /\ SetRemote(ScheduleWork(c, rules, nextRulesId), hist)
        /\ UNCHANGED <<provider, ruleVars, session, faults, changes>>

(* A name that is no longer advertised may never be found.                  *)
NameMissed(name) ==
    /\ name \in air
    /\ lastAdvertisements[name.iface] # name.changeId
    /\ air' = air \ {name}
    /\ UNCHANGED <<provider, ruleVars, remote, worker, hist, session, faults, changes>>

-----------------------------------------------------------------------------
(* The consumer: attempts to get signals.                                   *)

NewRulesWork(c) ==
    [fromChangeId |-> Minus(c.receivedChangeId, Half), toChangeId |-> Plus(c.receivedChangeId, 1),
     fromRulesId |-> Plus(c.appliedRulesId, 1), toRulesId |-> nextRulesId]

\* Mutant: the id after the received one does not wrap.
NewSignalsUnwrapped(c) ==
    [fromChangeId |-> c.receivedChangeId + 1, toChangeId |-> Plus(c.changeId, 1),
     fromRulesId |-> Minus(c.appliedRulesId, Half), toRulesId |-> nextRulesId]

NewSignalsWork(c) ==
    [fromChangeId |-> Plus(c.receivedChangeId, 1), toChangeId |-> Plus(c.changeId, 1),
     fromRulesId |-> Minus(c.appliedRulesId, Half), toRulesId |-> nextRulesId]

(* The worker takes the work up and calls JoinSessionAsync with the locks   *)
(* released; ok is what the call returns.                                   *)
AlarmTriggered(ok) ==
    LET work == PendingWork(remote, rules, nextRulesId)
        c == [remote EXCEPT !.armed = FALSE]
    IN  /\ remote # NoCache /\ remote.armed /\ ~worker.busy
        /\ IF remote.state = "IDLE" /\ work # "NONE"
           THEN /\ remote' =
                     [c EXCEPT !.state = "IN_PROGRESS",
                               !.work = IF work = "APPLY_NEW_RULES" THEN NewRulesWork(c) ELSE NewSignalsWork(c)]
                /\ worker' = [busy |-> TRUE, retries |-> c.retries, ok |-> ok, stale |-> FALSE]
                /\ session' = IF ok THEN [phase |-> "joining", from |-> 0, to |-> 0, rules |-> {},
                                          pos |-> 0, erased |-> FALSE, chan |-> <<>>]
                              ELSE NoSession
                /\ IF ok THEN UNCHANGED faults ELSE faults < MaxFaults /\ faults' = faults + 1
           ELSE /\ ok
                /\ remote' = c
                /\ UNCHANGED <<worker, session, faults>>
        /\ UNCHANGED <<provider, ruleVars, hist, air, changes>>

(* JoinSessionAsync has returned and the locks are held again.  If the      *)
(* record was erased in between and a new one is there, the code writes     *)
(* through a dangling reference, which may or may not be the new record.    *)
AlarmResumes ==
    LET counted == [remote EXCEPT !.retries = IF @ = worker.retries THEN @ + 1 ELSE @]
    IN  /\ worker.busy
        /\ worker' = NoWorker
        /\ \/ remote = NoCache /\ UNCHANGED remote
           \/ remote # NoCache /\ worker.ok /\ remote' = counted
           \/ remote # NoCache /\ worker.ok /\ worker.stale /\ UNCHANGED remote
           \/ /\ remote # NoCache /\ ~worker.ok
              /\ remote' = [remote EXCEPT !.state = "IDLE", !.work = NoWork, !.armed = TRUE]
        /\ UNCHANGED <<provider, ruleVars, hist, air, session, faults, changes>>

(* The session is joined and the request sent.                              *)
JoinSessionCB ==
    /\ session # NoSession /\ session.phase = "joining"
    /\ session' = [session EXCEPT !.phase = "asked", !.from = remote.work.fromChangeId, !.to = remote.work.toChangeId,
                       !.rules = RulesIn(rules, remote.work.fromRulesId, remote.work.toRulesId)]
    /\ UNCHANGED <<provider, ruleVars, remote, worker, hist, air, faults, changes>>

(* The attempt has failed: the record is idle and its work scheduled again. *)
Retry == SetRemote(Scheduled([remote EXCEPT !.state = "IDLE", !.work = NoWork]), hist)

(* The join fails, or the request cannot be sent.                           *)
JoinFails ==
    /\ session # NoSession /\ session.phase = "joining"
    /\ faults < MaxFaults
    /\ faults' = faults + 1
    /\ session' = NoSession
    /\ Retry
    /\ UNCHANGED <<provider, ruleVars, air, changes>>

\* Mutant: a retry routes everything again.
NeverRouted(msg) == FALSE

AlreadyRouted(msg) == msg \in remote.routedMessages

(* A signal arrives in the session: to every endpoint with a rule of this   *)
(* attempt that it matches, unless an earlier try has already routed it.    *)
RouteSessionlessMessage ==
    /\ session # NoSession /\ session.chan # <<>>
    /\ LET msg == Head(session.chan)
           pairs == {<<msg.serial, r>> : r \in {s \in RulesIn(rules, remote.work.fromRulesId, remote.work.toRulesId) :
                                                  Matches(s, msg.key)}}
       IN  IF AlreadyRouted(msg)
           THEN /\ hist' = [hist EXCEPT !.missed = @ \union (pairs \ hist.delivered)]
                /\ UNCHANGED remote
           ELSE /\ remote' = [remote EXCEPT !.routedMessages = @ \union {msg}]
                /\ hist' = [hist EXCEPT !.delivered = @ \union pairs,
                                        !.twice = @ \union (pairs \intersect hist.delivered)]
    /\ session' = [session EXCEPT !.chan = Tail(@)]
    /\ UNCHANGED <<provider, ruleVars, worker, air, faults, changes>>

(* DoSessionLost when the provider has left: everything asked for has       *)
(* arrived.                                                                 *)
ProviderLeft ==
    /\ session # NoSession /\ session.phase = "left" /\ session.chan = <<>>
    /\ LET c == [remote EXCEPT
                   !.state = "IDLE", !.work = NoWork, !.retries = 0, !.routedMessages = {},
                   !.appliedRulesId = IF IS_GREATER(Minus(remote.work.toRulesId, 1), @)
                                      THEN Minus(remote.work.toRulesId, 1) ELSE @,
                   !.haveReceived = @ \/ IS_GREATER(Minus(remote.work.toChangeId, 1), remote.receivedChangeId),
                   !.receivedChangeId = IF IS_GREATER(Minus(remote.work.toChangeId, 1), @)
                                        THEN Minus(remote.work.toChangeId, 1) ELSE @]
           unasked == {m \in remote.routedMessages :
                         ~InRange(remote.work.fromChangeId, remote.work.toChangeId, m.id)}
       IN  SetRemote(ScheduleWork(c, rules, nextRulesId),
                     [hist EXCEPT !.forgotten = @ \union {m.serial : m \in unasked}])
    /\ session' = NoSession
    /\ UNCHANGED <<provider, ruleVars, air, faults, changes>>

(* DoSessionLost for any other reason: what is under way is lost.           *)
SessionLost ==
    /\ session # NoSession /\ session.phase # "joining"
    /\ faults < MaxFaults
    /\ faults' = faults + 1
    /\ session' = NoSession
    /\ kicked' = (kicked \/ session.erased)
    /\ Retry
    /\ UNCHANGED <<localCache, curChangeId, advanceChangeId, lastAdvertisements, pushed, ruleVars, air, changes>>

-----------------------------------------------------------------------------

Init ==
    /\ localCache = [k \in Key |-> NoMsg]
    /\ curChangeId = 0 /\ advanceChangeId = FALSE /\ kicked = FALSE
    /\ lastAdvertisements = [i \in Iface |-> NotAdvertised]
    /\ pushed = 0
    /\ rules = [r \in MatchRule |-> NoRule]
    /\ nextRulesId = 0
    /\ findingNames = {} /\ discovering = {} /\ lateCancels = {}
    /\ findCalls = [i \in Iface |-> 0] /\ cancelCalls = findCalls
    /\ remote = NoCache /\ worker = NoWorker /\ hist = NoHistory(FALSE)
    /\ air = {} /\ session = NoSession /\ faults = 0 /\ changes = 0

Next ==
    \/ \E k \in Key : PushMessage(k) \/ CancelMessage(k)
    \/ \E s \in {SenderOf[k] : k \in Key} : SenderLeaves(s)
    \/ ProviderAlarm \/ OtherRequest \/ HandleRangeRequest \/ RangeRequestContinues
    \/ \E r \in MatchRule : AddRule(r) \/ RemoveRule(r)
    \/ \E ep \in {r.ep : r \in MatchRule} : EndpointLeaves(ep)
    \/ \E i \in Iface : FindAdvertisementByTransport(i) \/ CancelFindAdvertisementByTransport(i)
    \/ \E name \in air : FoundAdvertisedName(name) \/ NameMissed(name)
    \/ \E ok \in BOOLEAN : AlarmTriggered(ok)
    \/ AlarmResumes \/ JoinSessionCB \/ JoinFails
    \/ RouteSessionlessMessage \/ ProviderLeft \/ SessionLost

Spec == Init /\ [][Next]_vars

-----------------------------------------------------------------------------

Pair == (1 .. MaxPush) \X MatchRule

TypeOK ==
    /\ localCache \in [Key -> Msg \union {NoMsg}]
    /\ curChangeId \in Seqs /\ advanceChangeId \in BOOLEAN /\ kicked \in BOOLEAN
    /\ lastAdvertisements \in [Iface -> Seqs \union {NotAdvertised}]
    /\ pushed \in 0 .. MaxPush
    /\ rules \in [MatchRule -> [copies : 0 .. MaxSame, id : Seqs]]
    /\ nextRulesId \in Seqs
    /\ findingNames \subseteq Iface /\ discovering \subseteq Iface /\ lateCancels \subseteq Iface
    /\ findCalls \in [Iface -> Nat] /\ cancelCalls \in [Iface -> Nat]
    /\ remote \in Cache \union {NoCache}
    /\ worker \in [busy : BOOLEAN, retries : Nat, ok : BOOLEAN, stale : BOOLEAN]
    /\ hist \in [delivered : SUBSET Pair, twice : SUBSET Pair, missed : SUBSET Pair,
                 forgotten : SUBSET (1 .. MaxPush), gaveUp : BOOLEAN]
    /\ air \subseteq Name
    /\ session \in Session \union {NoSession}
    /\ faults \in 0 .. MaxFaults /\ changes \in 0 .. MaxChanges

(* "We got all the signals": when the consumer has counted a change id as   *)
(* received and a rule as applied, every signal still cached up to that id  *)
(* that matches the rule has been given to the rule's endpoint since the    *)
(* rule was added, whatever was pushed, cancelled, added or lost meanwhile. *)
(* The exception is a signal that an earlier failed try had routed before   *)
(* the rule was added: the retry skips it for every rule.                   *)
CaughtUp ==
    remote # NoCache /\ remote.haveReceived =>
        \A k \in Cached, r \in Live(rules) :
            /\ Matches(r, k)
            /\ IS_GREATER_OR_EQUAL(remote.receivedChangeId, localCache[k].id)
            /\ IS_GREATER_OR_EQUAL(remote.appliedRulesId, rules[r].id)
            => <<localCache[k].serial, r>> \in hist.delivered \union hist.missed

(* An endpoint is given a signal at most once for a rule, over any number   *)
(* of failed tries and of rules added between them, as long as the remote   *)
(* cache record lives.  The exception, hist.forgotten: a signal routed by a *)
(* failed try, when an attempt that did not ask for it (one that applied    *)
(* new rules) has succeeded since and cleared its mark.                     *)
AtMostOnce == \A p \in hist.twice : p[1] \in hist.forgotten

(* Work is never stranded: an idle record with pending work has an alarm,   *)
(* however rules, advertisements and failures interleave with the worker.   *)
WorkScheduled ==
    /\ remote # NoCache /\ remote.state = "IDLE"
    /\ PendingWork(remote, rules, nextRulesId) # "NONE"
    => remote.armed

(* A record is in progress exactly while an attempt for it is under way:    *)
(* it is never stuck, and never erased under an attempt.                    *)
InProgressIsAttempt ==
    (remote # NoCache /\ remote.state = "IN_PROGRESS")
        <=> (session # NoSession \/ (worker.busy /\ ~worker.ok))

(* New signals wait behind a rule id that no live matching rule has: the    *)
(* state NoneMeansDone excludes.                                            *)
Overshadowed ==
    /\ remote # NoCache /\ remote.haveReceived
    /\ IS_GREATER(Minus(nextRulesId, 1), remote.appliedRulesId)
    /\ PendingWork(remote, rules, nextRulesId) = "NONE"

(* Nothing is left to happen by itself: no alarm of a worker, no call to    *)
(* find a name or to stop, no name in the air, no attempt.  Each of these   *)
(* ends unless it is renewed, so every run without further calls or faults  *)
(* comes to this.                                                           *)
Quiet ==
    /\ \A i \in Iface : findCalls[i] = 0 /\ cancelCalls[i] = 0
    /\ ~kicked /\ air = {} /\ ~worker.busy /\ session = NoSession
    /\ remote # NoCache => ~remote.armed

(* When all is quiet everyone is served: every cached signal that a rule    *)
(* asks for has reached the rule's endpoint, unless the consumer has given  *)
(* the provider up after its last retry, the signal is one CaughtUp         *)
(* excepts, signals wait behind a rule id without a rule, or the last call  *)
(* about the rule's interface to be answered was the cancel of an earlier   *)
(* discovery, made after the rule had it noted again.                       *)
QuietMeansServed ==
    Quiet => \/ hist.gaveUp \/ Overshadowed
             \/ \A k \in Cached, r \in Live(rules) :
                   Matches(r, k) => \/ <<localCache[k].serial, r>> \in hist.delivered \union hist.missed
                                    \/ r.iface \in lateCancels

(* "No work, we have received all signals and applied all the rules": when  *)
(* an idle record has no pending work, no advertised id is newer than the   *)
(* received one while a rule asks for an interface the provider advertises. *)
NoneMeansDone ==
    /\ remote # NoCache /\ remote.state = "IDLE"
    /\ PendingWork(remote, rules, nextRulesId) = "NONE"
    => ~ \E r \in Live(rules) :
          /\ r.iface \in remote.ifaces
          /\ IS_GREATER(remote.changeId, remote.receivedChangeId)
=============================================================================
