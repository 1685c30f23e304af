------------------------ MODULE SessionlessObjProofs ------------------------
(***************************************************************************)
(* Proofs about sessionless signals, for any keys, rules, bounds and width *)
(* of the change ids.                                                      *)
(*                                                                         *)
(* TypeOK and AttemptInv are inductive only together: the handlers of a    *)
(* session read the work of the remote cache record, which is there        *)
(* because a session is an attempt of that record.  WorkScheduled is       *)
(* inductive on top of them.                                               *)
(*                                                                         *)
(* The rest is about what is delivered, and assumes NoWrap: change ids and *)
(* rule ids are compared by IS_GREATER, which orders them only while the   *)
(* counters are less than half way round.  DeliveryInv follows a signal    *)
(* from the cache through the request and the channel to the rules it was  *)
(* asked for, and gives CaughtUp.  SerialInv and OnceInv follow the marks  *)
(* of what was routed, and give AtMostOnce.  DiscoveryInv follows the      *)
(* advertisements to the record, and with DeliveryInv and WorkScheduled    *)
(* gives QuietMeansServed.                                                 *)
(***************************************************************************)
EXTENDS SessionlessObj, FiniteSetTheorems, TLAPS

USE SessionlessAssumption, SeqSpaceAssumption

-----------------------------------------------------------------------------
\* A session and a call of JoinSessionAsync that is about to return an error are not there at
\* once; either of them is the one attempt of the record in progress.
AttemptInv ==
  /\ InProgressIsAttempt
  /\ ~(session # NoSession /\ worker.busy /\ ~worker.ok)

ProviderOK ==
  /\ localCache \in [Key -> Msg \union {NoMsg}]
  /\ curChangeId \in Seqs /\ advanceChangeId \in BOOLEAN /\ kicked \in BOOLEAN
  /\ lastAdvertisements \in [Iface -> Seqs \union {NotAdvertised}]
  /\ pushed \in 0 .. MaxPush

RulesOK ==
  /\ rules \in [MatchRule -> [copies : 0 .. MaxSame, id : Seqs]]
  /\ nextRulesId \in Seqs
  /\ findingNames \subseteq Iface /\ discovering \subseteq Iface /\ lateCancels \subseteq Iface
  /\ findCalls \in [Iface -> Nat] /\ cancelCalls \in [Iface -> Nat]

History == [delivered : SUBSET Pair, twice : SUBSET Pair, missed : SUBSET Pair,
            forgotten : SUBSET (1 .. MaxPush), gaveUp : BOOLEAN]

RemoteOK ==
  /\ remote \in Cache \union {NoCache}
  /\ worker \in [busy : BOOLEAN, retries : Nat, ok : BOOLEAN, stale : BOOLEAN]
  /\ hist \in History

BetweenOK ==
  /\ air \subseteq Name
  /\ session \in Session \union {NoSession}
  /\ faults \in 0 .. MaxFaults /\ changes \in 0 .. MaxChanges

\* The type invariant by its parts.
LEMMA TypeParts == TypeOK <=> ProviderOK /\ RulesOK /\ RemoteOK /\ BetweenOK
  BY DEF TypeOK, ProviderOK, RulesOK, RemoteOK, BetweenOK, History

LEMMA TypePartsPrime == TypeOK' <=> ProviderOK' /\ RulesOK' /\ RemoteOK' /\ BetweenOK'
  BY DEF TypeOK, ProviderOK, RulesOK, RemoteOK, BetweenOK, History

-----------------------------------------------------------------------------
(* The operators of the model.                                             *)

\* The unsigned sum of two ids is an id.
LEMMA PlusType ==
  ASSUME NEW a \in Seqs, NEW b \in Seqs
  PROVE  Plus(a, b) \in Seqs
  BY DEF Plus, Seqs

\* The unsigned difference of two ids is an id.
LEMMA MinusType ==
  ASSUME NEW a \in Seqs, NEW b \in Seqs
  PROVE  Minus(a, b) \in Seqs
  BY DEF Minus, Seqs

\* The constants the code adds to ids are ids.
LEMMA Offsets == 0 \in Seqs /\ 1 \in Seqs /\ Half \in Seqs /\ Largest \in Seqs
  BY DEF Half, Largest, Seqs

\* A set of numbers, such as the keys RangeRequest still has to send, has a smallest element.
LEMMA SmallestExists ==
  ASSUME NEW I \in SUBSET Nat, I # {}
  PROVE  \E i \in I : \A j \in I : i <= j
<1> DEFINE Below(i) == {j \in I : j <= i}
           F == {Below(i) : i \in I}
<1>1. \A i \in I : Below(i) \in SUBSET Nat /\ IsFiniteSet(Below(i))
  BY FS_BoundedSetOfNaturals
<1>2. F \subseteq FiniteSubsetsOf(Nat) /\ F # {}
  BY <1>1 DEF FiniteSubsetsOf
<1>3. PICK B \in F : \A C \in F : <<C, B>> \notin StrictSubsetOrdering(Nat)
  <2> HIDE DEF F
  <2> QED
    BY <1>2, FS_StrictSubsetOrderingWellFounded, WFMin
<1>4. PICK i \in I : B = Below(i)
  OBVIOUS
<1>5. ASSUME NEW j \in I, ~(i <= j) PROVE FALSE
  <2>1. i \in Nat /\ j \in Nat
    OBVIOUS
  <2>2. \A k \in I : k <= j => k <= i
    BY <1>5, <2>1
  <2>3. Below(j) \subseteq Below(i)
    BY <2>2
  <2>4. i \in Below(i) /\ i \notin Below(j)
    BY <1>5, <2>1
  <2>5. <<Below(j), Below(i)>> \in StrictSubsetOrdering(Nat)
    BY <2>3, <2>4, <1>1 DEF StrictSubsetOrdering
  <2> QED
    BY <2>5, <1>3, <1>4
<1> QED
  BY <1>5

\* The first key the provider sends.
LEMMA MinIn ==
  ASSUME NEW I \in SUBSET Nat, I # {}
  PROVE  Min(I) \in I
  BY SmallestExists DEF Min

\* The latest change id of an interface is the id of one of its signals, and no other is greater.
LEMMA MaxIn ==
  ASSUME NEW I \in SUBSET Seqs, I # {}
  PROVE  Max(I) \in I /\ \A i \in I : i <= Max(I)
<1> DEFINE R == {SeqSpace - i : i \in I}
<1>1. R \in SUBSET Nat /\ R # {}
  <2>1. \A i \in I : SeqSpace - i \in Nat
    BY DEF Seqs
  <2> QED
    BY <2>1
<1>2. PICK m \in R : \A n \in R : m <= n
  <2> HIDE DEF R
  <2> QED
    BY <1>1, SmallestExists
<1>3. PICK x \in I : m = SeqSpace - x
  OBVIOUS
<1>4. \A y \in I : x >= y
  <2> TAKE y \in I
  <2>1. m <= SeqSpace - y
    BY <1>2
  <2> QED
    BY <2>1, <1>3 DEF Seqs
<1>5. Max(I) \in I /\ \A y \in I : Max(I) >= y
  BY <1>4 DEF Max
<1> QED
  BY <1>5 DEF Seqs

\* Signals leave the cache, the others stay as they are.
LEMMA WithoutType ==
  ASSUME ProviderOK, NEW gone
  PROVE  Without(gone) \in [Key -> Msg \union {NoMsg}]
  BY DEF ProviderOK, Without

\* An interface is advertised with the id of a signal, or not at all.
LEMMA AdvertisementsType ==
  ASSUME NEW cache \in [Key -> Msg \union {NoMsg}]
  PROVE  Advertisements(cache) \in [Iface -> Seqs \union {NotAdvertised}]
<1> SUFFICES ASSUME NEW i \in Iface
             PROVE  Advertisements(cache)[i] \in Seqs \union {NotAdvertised}
  BY DEF Advertisements
<1> DEFINE ids == {cache[k].id : k \in {j \in Key : cache[j] # NoMsg /\ i \in {Wild, IfaceOf[j]}}}
<1>1. ids \in SUBSET Seqs
  BY DEF Msg
<1>2. ids # {} => Max(ids) \in Seqs
  <2> HIDE DEF ids
  <2> QED
    BY <1>1, MaxIn
<1>3. Advertisements(cache)[i] = IF ids = {} THEN NotAdvertised ELSE Max(ids)
  BY DEF Advertisements
<1> QED
  BY <1>2, <1>3

\* ScheduleWork on a record leaves a record, or none.
LEMMA ScheduledType ==
  ASSUME NEW c \in Cache
  PROVE  Scheduled(c) \in Cache \union {NoCache}
  BY DEF Scheduled, Cache

LEMMA ScheduleWorkType ==
  ASSUME NEW c \in Cache \union {NoCache}, NEW rs, NEW next
  PROVE  ScheduleWork(c, rs, next) \in Cache \union {NoCache}
  BY ScheduledType DEF ScheduleWork

\* The record an advertisement makes.
LEMMA RemoteCacheType ==
  ASSUME NEW name \in Name
  PROVE  RemoteCache(name) \in Cache /\ RemoteCache(name).state = "IDLE"
  BY Offsets DEF RemoteCache, Cache, Name, NoWork, Work

\* What SetRemote leaves: the worker's call goes on, whatever becomes of the record.
LEMMA SetRemoteStep ==
  ASSUME RemoteOK, NEW c \in Cache \union {NoCache}, NEW h \in History, SetRemote(c, h)
  PROVE  RemoteOK' /\ remote' = c /\ worker'.busy = worker.busy /\ worker'.ok = worker.ok
<1>1. \A b \in BOOLEAN : NoHistory(b) \in History
  BY DEF NoHistory, History
<1>2. hist' \in History
  BY <1>1 DEF SetRemote, RemoteOK
<1>3. worker' \in [busy : BOOLEAN, retries : Nat, ok : BOOLEAN, stale : BOOLEAN]
      /\ worker'.busy = worker.busy /\ worker'.ok = worker.ok
  BY DEF SetRemote, RemoteOK
<1> QED
  BY <1>2, <1>3 DEF SetRemote, RemoteOK

-----------------------------------------------------------------------------
(* Type correctness, and the attempt of the record in progress.            *)

\* An attempt that is under way is the record's.
LEMMA SessionHasRecord ==
  ASSUME TypeOK, AttemptInv, session # NoSession
  PROVE  /\ session \in Session /\ remote \in Cache /\ remote.work \in Work
         /\ remote.state = "IN_PROGRESS" /\ remote # NoCache
         /\ ~(worker.busy /\ ~worker.ok)
<1>1. remote # NoCache /\ remote.state = "IN_PROGRESS" /\ ~(worker.busy /\ ~worker.ok)
  BY DEF AttemptInv, InProgressIsAttempt
<1>2. session \in Session /\ remote \in Cache
  BY <1>1, TypeParts DEF RemoteOK, BetweenOK
<1>3. remote.work \in Work
  BY <1>2 DEF Cache
<1> QED
  BY <1>1, <1>2, <1>3

\* The operations of the provider outside of a session.
LEMMA ProviderStep ==
  ASSUME ProviderOK, BetweenOK, discovering \subseteq Iface,
         \/ \E k \in Key : PushMessage(k) \/ CancelMessage(k)
         \/ \E s \in {SenderOf[k] : k \in Key} : SenderLeaves(s)
         \/ ProviderAlarm \/ OtherRequest
  PROVE  ProviderOK' /\ BetweenOK' /\ UNCHANGED <<ruleVars, remote, worker, hist, session>>
<1>1. \A gone : Without(gone) \in [Key -> Msg \union {NoMsg}]
  BY WithoutType
<1>2. ASSUME NEW k \in Key, PushMessage(k) PROVE ProviderOK' /\ BetweenOK' /\ UNCHANGED <<ruleVars, remote, worker, hist, session>>
  <2>1. pushed + 1 \in 1 .. MaxPush /\ pushed' = pushed + 1 /\ pushed' \in 0 .. MaxPush
    BY <1>2 DEF PushMessage, ProviderOK
  <2>2. [key |-> k, serial |-> pushed + 1, id |-> curChangeId] \in Msg
    BY <2>1 DEF ProviderOK, Msg
  <2>3. localCache' \in [Key -> Msg \union {NoMsg}]
    BY <1>2, <2>2 DEF PushMessage, ProviderOK
  <2>4. advanceChangeId' \in BOOLEAN /\ kicked' \in BOOLEAN
    BY <1>2, Zenon DEF PushMessage
  <2> QED
    BY <1>2, <2>1, <2>3, <2>4 DEF PushMessage, ProviderOK, BetweenOK, ruleVars, discovery
<1>3. ASSUME NEW k \in Key, CancelMessage(k) PROVE ProviderOK' /\ BetweenOK' /\ UNCHANGED <<ruleVars, remote, worker, hist, session>>
  <2>1. kicked' \in BOOLEAN
    BY <1>3, Zenon DEF CancelMessage
  <2>2. changes' \in 0 .. MaxChanges
    BY <1>3 DEF CancelMessage, Changes, BetweenOK
  <2> QED
    BY <1>1, <1>3, <2>1, <2>2 DEF CancelMessage, ProviderOK, BetweenOK, ruleVars, discovery
<1>4. ASSUME NEW s, SenderLeaves(s) PROVE ProviderOK' /\ BetweenOK' /\ UNCHANGED <<ruleVars, remote, worker, hist, session>>
  <2>1. changes' \in 0 .. MaxChanges
    BY <1>4 DEF SenderLeaves, Changes, BetweenOK
  <2> QED
    BY <1>1, <1>4, <2>1 DEF SenderLeaves, ProviderOK, BetweenOK, ruleVars, discovery
<1>5. ASSUME ProviderAlarm PROVE ProviderOK' /\ BetweenOK' /\ UNCHANGED <<ruleVars, remote, worker, hist, session>>
  <2>1. PICK gone \in MayExpire : localCache' = Without(gone) /\ UpdateAdvertisements(Without(gone))
    BY <1>5 DEF ProviderAlarm
  <2> DEFINE adv == Advertisements(Without(gone))
             new == {i \in Iface : adv[i] # NotAdvertised /\ NeedsAdvertisement(i, adv[i])}
  <2>2. adv \in [Iface -> Seqs \union {NotAdvertised}]
    BY <1>1, AdvertisementsType
  <2>3. /\ lastAdvertisements' = [i \in Iface |->
                IF i \in new \/ adv[i] = NotAdvertised THEN adv[i] ELSE lastAdvertisements[i]]
        /\ air' = air \union {[iface |-> i, changeId |-> adv[i]] : i \in new \intersect discovering}
    BY <2>1 DEF UpdateAdvertisements
  <2>4. new \subseteq {i \in Iface : adv[i] # NotAdvertised}
    OBVIOUS
  <2> HIDE DEF adv, new
  <2>5. lastAdvertisements' \in [Iface -> Seqs \union {NotAdvertised}]
    BY <2>2, <2>3 DEF ProviderOK
  <2>6. air' \subseteq Name
    BY <2>2, <2>3, <2>4 DEF BetweenOK, Name
  <2>7. kicked' \in BOOLEAN
    BY <1>5, Zenon DEF ProviderAlarm
  <2> QED
    BY <1>1, <1>5, <2>1, <2>5, <2>6, <2>7 DEF ProviderAlarm, ProviderOK, BetweenOK, ruleVars, discovery
<1>6. ASSUME OtherRequest PROVE ProviderOK' /\ BetweenOK' /\ UNCHANGED <<ruleVars, remote, worker, hist, session>>
  <2>1. changes' \in 0 .. MaxChanges
    BY <1>6 DEF OtherRequest, Changes, BetweenOK
  <2>2. curChangeId' \in Seqs
    BY <1>6, PlusType, Offsets DEF OtherRequest, Advance, ProviderOK
  <2>3. advanceChangeId' \in BOOLEAN
    BY <1>6, Zenon DEF OtherRequest, Advance
  <2>4. localCache' \in [Key -> Msg \union {NoMsg}] /\ kicked' \in BOOLEAN
    BY <1>1, <1>6 DEF OtherRequest, ProviderOK
  <2> QED
    BY <1>6, <2>1, <2>2, <2>3, <2>4 DEF OtherRequest, ProviderOK, BetweenOK, ruleVars, discovery
<1> QED
  BY <1>2, <1>3, <1>4, <1>5, <1>6

\* What the provider sends in a session, from key pos on.
LEMMA ServeStep ==
  ASSUME ProviderOK, session \in Session, NEW pos \in Nat, Serve(pos)
  PROVE  /\ localCache' \in [Key -> Msg \union {NoMsg}] /\ kicked' \in BOOLEAN
         /\ session' \in Session
<1> DEFINE due == {k \in Cached : k >= pos /\ InRange(session.from, session.to, localCache[k].id)}
           hits == {k \in due : session.rules = {} \/ \E r \in session.rules : Matches(r, k)}
<1>1. PICK gone \in SUBSET (Ttl \intersect due) :
        /\ localCache' = Without(gone)
        /\ IF hits \ gone # {}
           THEN LET k == Min(hits \ gone)
                IN  /\ \A j \in gone : j < k
                    /\ session' = [session EXCEPT !.phase = "serving", !.pos = k + 1,
                                       !.erased = @ \/ gone # {},
                                       !.chan = Append(@, localCache[k])]
                    /\ UNCHANGED kicked
           ELSE /\ session' = [session EXCEPT !.phase = "left"]
                /\ kicked' = (kicked \/ session.erased \/ gone # {})
  BY DEF Serve
<1>2. hits \subseteq Cached /\ Cached \subseteq Key
  BY DEF Cached
<1> HIDE DEF due, hits
<1>3. localCache' \in [Key -> Msg \union {NoMsg}]
  BY <1>1, WithoutType
<1>4. CASE hits \ gone # {}
  <2> DEFINE k == Min(hits \ gone)
  <2>1. k \in Cached /\ k \in Key /\ k \in Nat
    BY <1>2, <1>4, MinIn
  <2> HIDE DEF k
  <2>2. localCache[k] \in Msg
    BY <2>1 DEF Cached, ProviderOK
  <2>3. session.chan \in Seq(Msg)
    BY DEF Session
  <2>4. Append(session.chan, localCache[k]) \in Seq(Msg)
    BY <2>2, <2>3
  <2>5. PICK next \in Nat, erased \in BOOLEAN, chan \in Seq(Msg) :
           session' = [session EXCEPT !.phase = "serving", !.pos = next, !.erased = erased, !.chan = chan]
    <3>1. session.erased \in BOOLEAN
      BY DEF Session
    <3>2. (session.erased \/ gone # {}) \in BOOLEAN /\ k + 1 \in Nat
      BY <2>1
    <3>3. session' = [session EXCEPT !.phase = "serving", !.pos = k + 1,
                                     !.erased = session.erased \/ gone # {},
                                     !.chan = Append(session.chan, localCache[k])]
      BY <1>1, <1>4 DEF k
    <3> QED
      BY <2>4, <3>2, <3>3, Zenon
  <2>6. session' \in Session
    BY <2>5 DEF Session
  <2> QED
    BY <1>1, <1>3, <1>4, <2>6 DEF ProviderOK
<1>5. CASE hits \ gone = {}
  BY <1>1, <1>3, <1>5 DEF Session, ProviderOK
<1> QED
  BY <1>4, <1>5

\* The provider's answer to a request.
LEMMA RangeRequestStep ==
  ASSUME ProviderOK, BetweenOK, HandleRangeRequest \/ RangeRequestContinues
  PROVE  ProviderOK' /\ BetweenOK' /\ UNCHANGED <<ruleVars, remote, worker, hist>>
         /\ session # NoSession /\ session' # NoSession
<1>1. session \in Session /\ session # NoSession
  BY DEF BetweenOK, HandleRangeRequest, RangeRequestContinues
<1>2. session.pos \in Nat
  BY <1>1 DEF Session
<1>3. \E pos \in Nat : Serve(pos)
  BY <1>2 DEF HandleRangeRequest, RangeRequestContinues
<1>4. /\ localCache' \in [Key -> Msg \union {NoMsg}] /\ kicked' \in BOOLEAN
      /\ session' \in Session /\ session' # NoSession
  BY <1>1, <1>3, ServeStep
<1>5. curChangeId' \in Seqs
  BY PlusType, Offsets DEF HandleRangeRequest, RangeRequestContinues, Advance, ProviderOK
<1>6. advanceChangeId' \in BOOLEAN
  <2>1. advanceChangeId \in BOOLEAN
    BY DEF ProviderOK
  <2> QED
    BY <2>1, Zenon DEF HandleRangeRequest, RangeRequestContinues, Advance
<1> QED
  BY <1>1, <1>4, <1>5, <1>6 DEF HandleRangeRequest, RangeRequestContinues, ProviderOK, BetweenOK, ruleVars, discovery

\* One more call for some of the interfaces.
LEMMA CalledType ==
  ASSUME NEW calls \in [Iface -> Nat], NEW is
  PROVE  Called(calls, is) \in [Iface -> Nat]
  BY DEF Called

\* Rules that come and go, and what they make of the record.
LEMMA RulesStep ==
  ASSUME TypeOK,
         \/ \E r \in MatchRule : AddRule(r) \/ RemoveRule(r)
         \/ \E ep \in {q.ep : q \in MatchRule} : EndpointLeaves(ep)
  PROVE  TypeOK'
<1>1. ProviderOK /\ RulesOK /\ RemoteOK /\ BetweenOK
  BY TypeParts
<1> DEFINE Rules == [MatchRule -> [copies : 0 .. MaxSame, id : Seqs]]
<1>2. ASSUME NEW r \in MatchRule, AddRule(r) PROVE TypeOK'
  <2> DEFINE isNewRule == rules[r].copies = 0
             rs == [rules EXCEPT ![r] = [copies |-> @.copies + 1,
                                         id |-> IF isNewRule THEN nextRulesId ELSE @.id]]
             next == IF isNewRule THEN Plus(nextRulesId, 1) ELSE nextRulesId
             Fresh(pairs) == IF isNewRule THEN {p \in pairs : p[2] # r} ELSE pairs
             h == [hist EXCEPT !.delivered = Fresh(@), !.twice = Fresh(@), !.missed = Fresh(@)]
  <2>1. /\ IF isNewRule THEN nextRulesId < MaxRules /\ UNCHANGED changes ELSE Changes
        /\ rules[r].copies < MaxSame
        /\ rules' = rs
        /\ nextRulesId' = next
        /\ SetRemote(ScheduleWork(remote, rs, next), h)
        /\ FindAdvertisedNames(rs)
        /\ UNCHANGED <<provider, air, session, faults>>
    BY <1>2 DEF AddRule
  <2>2. rs \in Rules
    <3>1. rules[r] \in [copies : 0 .. MaxSame, id : Seqs]
      BY <1>1 DEF RulesOK
    <3>2. rules[r].copies + 1 \in 0 .. MaxSame
      BY <2>1, <3>1
    <3>3. (IF isNewRule THEN nextRulesId ELSE rules[r].id) \in Seqs
      BY <1>1, <3>1 DEF RulesOK
    <3> QED
      BY <1>1, <3>1, <3>2 DEF RulesOK
  <2>3. next \in Seqs
    BY <1>1, PlusType, Offsets DEF RulesOK
  <2>4. h \in History
    <3>1. hist \in History /\ \A pairs : Fresh(pairs) \subseteq pairs
      BY <1>1 DEF RemoteOK
    <3> HIDE DEF Fresh
    <3> QED
      BY <3>1 DEF History
  <2>5. Changes \/ UNCHANGED changes
    BY <2>1
  <2> HIDE DEF rs, next, h, isNewRule, Fresh
  <2>6. RemoteOK'
    <3>1. ScheduleWork(remote, rs, next) \in Cache \union {NoCache}
      BY <1>1, ScheduleWorkType DEF RemoteOK
    <3> QED
      BY <1>1, <2>1, <2>4, <3>1, SetRemoteStep
  <2>7. /\ findingNames' \subseteq Iface /\ findCalls' \in [Iface -> Nat]
        /\ UNCHANGED <<cancelCalls, discovering, lateCancels>>
    <3> DEFINE names == {q.iface : q \in Live(rs)} \union {Wild}
    <3>1. names \subseteq Iface
      BY DEF Live, Iface
    <3>2. /\ findingNames' = findingNames \union names
          /\ findCalls' = Called(findCalls, names \ findingNames)
          /\ UNCHANGED <<cancelCalls, discovering, lateCancels>>
      BY <2>1 DEF FindAdvertisedNames
    <3> HIDE DEF names
    <3>3. findCalls' \in [Iface -> Nat]
      BY <1>1, <3>2, CalledType DEF RulesOK
    <3> QED
      BY <1>1, <3>1, <3>2, <3>3 DEF RulesOK
  <2>8. changes' \in 0 .. MaxChanges
    BY <1>1, <2>5 DEF Changes, BetweenOK
  <2>9. ProviderOK' /\ session' = session /\ faults' = faults /\ air' = air
    BY <1>1, <2>1 DEF provider, ProviderOK
  <2>10. RulesOK'
    BY <1>1, <2>1, <2>2, <2>3, <2>7 DEF RulesOK
  <2>11. BetweenOK'
    BY <1>1, <2>8, <2>9 DEF BetweenOK
  <2> QED
    BY <2>6, <2>9, <2>10, <2>11, TypePartsPrime
<1>3. ASSUME NEW rs \in Rules, SetRules(rs) PROVE TypeOK'
  <2>1. ProviderOK' /\ UNCHANGED <<nextRulesId, remote, worker, hist, air, session, faults>>
    BY <1>1, <1>3 DEF SetRules, provider, ProviderOK
  <2>2. changes' \in 0 .. MaxChanges
    BY <1>1, <1>3 DEF SetRules, Changes, BetweenOK
  <2>3. RulesOK'
    <3>1. rules' \in Rules /\ nextRulesId' = nextRulesId
      BY <1>3, <2>1 DEF SetRules
    <3>2. CASE CancelFindAdvertisedNames
      BY <1>1, <3>1, <3>2, CalledType DEF CancelFindAdvertisedNames, RulesOK
    <3>3. CASE UNCHANGED discovery
      BY <1>1, <3>1, <3>3 DEF discovery, RulesOK
    <3> QED
      BY <1>3, <3>2, <3>3 DEF SetRules
  <2> QED
    BY <1>1, <2>1, <2>2, <2>3, TypePartsPrime DEF RemoteOK, BetweenOK
<1>4. NoRule \in [copies : 0 .. MaxSame, id : Seqs]
  BY Offsets DEF NoRule
<1>5. ASSUME NEW r \in MatchRule, RemoveRule(r) PROVE TypeOK'
  <2> DEFINE rs == [rules EXCEPT ![r] = IF @.copies = 1 THEN NoRule ELSE [copies |-> @.copies - 1, id |-> @.id]]
  <2>1. rules[r] \in [copies : 0 .. MaxSame, id : Seqs] /\ rules[r].copies - 1 \in 0 .. MaxSame
    BY <1>1, <1>5 DEF RemoveRule, Live, RulesOK
  <2>2. rs \in Rules
    <3> DEFINE e == IF rules[r].copies = 1 THEN NoRule ELSE [copies |-> rules[r].copies - 1, id |-> rules[r].id]
    <3>1. e \in [copies : 0 .. MaxSame, id : Seqs]
      BY <1>4, <2>1
    <3>2. rs = [rules EXCEPT ![r] = e]
      OBVIOUS
    <3> HIDE DEF e, rs
    <3> QED
      BY <1>1, <3>1, <3>2 DEF RulesOK
  <2>3. SetRules(rs)
    BY <1>5 DEF RemoveRule
  <2> HIDE DEF rs, Rules
  <2> QED
    BY <1>3, <2>2, <2>3
<1>6. ASSUME NEW ep, EndpointLeaves(ep) PROVE TypeOK'
  <2> DEFINE rs == [r \in MatchRule |-> IF r.ep = ep THEN NoRule ELSE rules[r]]
  <2>1. rs \in Rules
    BY <1>1, <1>4 DEF RulesOK
  <2>2. SetRules(rs)
    BY <1>6 DEF EndpointLeaves
  <2> HIDE DEF rs, Rules
  <2> QED
    BY <1>3, <2>1, <2>2
<1> QED
  BY <1>2, <1>5, <1>6

\* Names that are found, or never will be.
LEMMA NamesStep ==
  ASSUME TypeOK, NEW name \in air, FoundAdvertisedName(name) \/ NameMissed(name)
  PROVE  TypeOK'
<1>1. ProviderOK /\ RulesOK /\ RemoteOK /\ BetweenOK
  BY TypeParts
<1>2. name \in Name /\ name.iface \in Iface /\ name.changeId \in Seqs
  BY <1>1 DEF BetweenOK, Name
<1>3. CASE FoundAdvertisedName(name)
  <2> DEFINE greater == IS_GREATER(name.changeId, remote.changeId)
             c == IF remote = NoCache THEN RemoteCache(name)
                  ELSE [remote EXCEPT !.ifaces = @ \union {name.iface},
                                      !.changeId = IF greater THEN name.changeId ELSE @,
                                      !.retries = IF greater THEN 0 ELSE @]
  <2>1. /\ air' = air \ {name}
        /\ SetRemote(ScheduleWork(c, rules, nextRulesId), hist)
        /\ UNCHANGED <<provider, ruleVars, session, faults, changes>>
    BY <1>3 DEF FoundAdvertisedName
  <2>2. c \in Cache
    <3>1. CASE remote = NoCache
      BY <1>2, <3>1, RemoteCacheType
    <3>2. CASE remote # NoCache
      <4>1. remote \in Cache
        BY <1>1, <3>2 DEF RemoteOK
      <4> HIDE DEF greater
      <4> QED
        BY <1>2, <3>2, <4>1 DEF Cache
    <3> QED
      BY <3>1, <3>2
  <2> HIDE DEF c
  <2>3. RemoteOK'
    <3>1. ScheduleWork(c, rules, nextRulesId) \in Cache \union {NoCache}
      BY <2>2, ScheduleWorkType
    <3> QED
      BY <1>1, <2>1, <3>1, SetRemoteStep DEF RemoteOK
  <2>4. ProviderOK' /\ RulesOK'
    BY <1>1, <2>1 DEF provider, ruleVars, discovery, ProviderOK, RulesOK
  <2>5. BetweenOK'
    BY <1>1, <2>1 DEF BetweenOK
  <2> QED
    BY <2>3, <2>4, <2>5, TypePartsPrime
<1>4. CASE NameMissed(name)
  <2>1. air' \subseteq air /\ UNCHANGED <<provider, ruleVars, remote, worker, hist, session, faults, changes>>
    BY <1>4 DEF NameMissed
  <2> QED
    BY <1>1, <2>1, TypePartsPrime DEF ProviderOK, RulesOK, RemoteOK, BetweenOK, provider, ruleVars, discovery
<1> QED
  BY <1>3, <1>4

\* A blocking call about a name takes effect.
DiscoveryCall ==
  \E i \in Iface : FindAdvertisementByTransport(i) \/ CancelFindAdvertisementByTransport(i)

\* It changes what is looked for, and may put a name in the air.
LEMMA CallKeeps ==
  ASSUME DiscoveryCall
  PROVE  UNCHANGED <<provider, rules, nextRulesId, findingNames, remote, worker, hist, session, faults, changes>>
  BY DEF DiscoveryCall, FindAdvertisementByTransport, CancelFindAdvertisementByTransport

\* The values keep their types.
LEMMA CallStep ==
  ASSUME TypeOK, DiscoveryCall
  PROVE  TypeOK'
<1>1. ProviderOK /\ RulesOK /\ RemoteOK /\ BetweenOK
  BY TypeParts
<1>2. ASSUME NEW i \in Iface, FindAdvertisementByTransport(i) PROVE RulesOK' /\ air' \subseteq Name
  <2>1. findCalls' \in [Iface -> Nat]
    <3>1. findCalls[i] - 1 \in Nat /\ findCalls' = [findCalls EXCEPT ![i] = findCalls[i] - 1]
      BY <1>1, <1>2 DEF FindAdvertisementByTransport, RulesOK
    <3> QED
      BY <1>1, <3>1 DEF RulesOK
  <2>2. RulesOK'
    BY <1>1, <1>2, <2>1 DEF FindAdvertisementByTransport, RulesOK
  <2>3. lastAdvertisements[i] = NotAdvertised \/ [iface |-> i, changeId |-> lastAdvertisements[i]] \in Name
    BY <1>1 DEF ProviderOK, Name
  <2>4. air' \subseteq Name
    BY <1>1, <1>2, <2>3 DEF FindAdvertisementByTransport, BetweenOK
  <2> QED
    BY <2>2, <2>4
<1>3. ASSUME NEW i \in Iface, CancelFindAdvertisementByTransport(i) PROVE RulesOK' /\ air' \subseteq Name
  <2>1. cancelCalls' \in [Iface -> Nat]
    <3>1. cancelCalls[i] - 1 \in Nat /\ cancelCalls' = [cancelCalls EXCEPT ![i] = cancelCalls[i] - 1]
      BY <1>1, <1>3 DEF CancelFindAdvertisementByTransport, RulesOK
    <3> QED
      BY <1>1, <3>1 DEF RulesOK
  <2>2. RulesOK' /\ air' = air
    BY <1>1, <1>3, <2>1 DEF CancelFindAdvertisementByTransport, RulesOK
  <2> QED
    BY <1>1, <2>2 DEF BetweenOK
<1>4. RulesOK' /\ air' \subseteq Name
  BY <1>2, <1>3 DEF DiscoveryCall
<1>5. ProviderOK' /\ RemoteOK' /\ BetweenOK'
  BY <1>1, <1>4, CallKeeps DEF provider, ProviderOK, RemoteOK, BetweenOK
<1> QED
  BY <1>4, <1>5, TypePartsPrime

\* The work an attempt takes up.
LEMMA WorkType ==
  ASSUME NEW c \in Cache, nextRulesId \in Seqs
  PROVE  NewRulesWork(c) \in Work /\ NewSignalsWork(c) \in Work
  BY PlusType, MinusType, Offsets DEF NewRulesWork, NewSignalsWork, Work, Cache

\* The worker takes work up, or finds that its alarm was for nothing.
LEMMA TriggeredStep ==
  ASSUME TypeOK, NEW ok \in BOOLEAN, AlarmTriggered(ok)
  PROVE  /\ TypeOK' /\ remote \in Cache /\ remote' \in Cache /\ ~worker.busy
         /\ \/ /\ remote.state = "IDLE" /\ remote'.state = "IN_PROGRESS"
               /\ worker'.busy /\ worker'.ok = ok /\ (session' # NoSession <=> ok)
            \/ remote'.state = remote.state /\ UNCHANGED <<worker, session>>
<1> DEFINE work == PendingWork(remote, rules, nextRulesId)
           c == [remote EXCEPT !.armed = FALSE]
           joining == [phase |-> "joining", from |-> 0, to |-> 0, rules |-> {},
                       pos |-> 0, erased |-> FALSE, chan |-> <<>>]
<1>1. ProviderOK /\ RulesOK /\ RemoteOK /\ BetweenOK
  BY TypeParts
<1>2. remote \in Cache /\ c \in Cache /\ c.retries \in Nat /\ c.state = remote.state
  <2>1. remote \in Cache
    BY <1>1 DEF AlarmTriggered, RemoteOK
  <2> QED
    BY <2>1 DEF Cache
<1>3. joining \in Session
  BY Offsets DEF Session
<1>4. /\ UNCHANGED <<provider, ruleVars, hist, air, changes>>
      /\ ~worker.busy
      /\ \/ /\ remote.state = "IDLE"
            /\ remote' = [c EXCEPT !.state = "IN_PROGRESS",
                                   !.work = IF work = "APPLY_NEW_RULES" THEN NewRulesWork(c) ELSE NewSignalsWork(c)]
            /\ worker' = [busy |-> TRUE, retries |-> c.retries, ok |-> ok, stale |-> FALSE]
            /\ session' = IF ok THEN joining ELSE NoSession
            /\ UNCHANGED faults \/ (faults < MaxFaults /\ faults' = faults + 1)
         \/ /\ remote' = c
            /\ UNCHANGED <<worker, session, faults>>
  BY DEF AlarmTriggered
<1> HIDE DEF work, c, joining
<1>5. \/ /\ remote.state = "IDLE" /\ remote' \in Cache /\ remote'.state = "IN_PROGRESS"
         /\ worker' = [busy |-> TRUE, retries |-> c.retries, ok |-> ok, stale |-> FALSE]
         /\ session' = IF ok THEN joining ELSE NoSession
      \/ remote' = c /\ UNCHANGED <<worker, session>>
  <2>1. PICK w \in Work :
           \/ /\ remote' = [c EXCEPT !.state = "IN_PROGRESS", !.work = w]
              /\ remote.state = "IDLE"
              /\ worker' = [busy |-> TRUE, retries |-> c.retries, ok |-> ok, stale |-> FALSE]
              /\ session' = IF ok THEN joining ELSE NoSession
           \/ remote' = c /\ UNCHANGED <<worker, session>>
    BY <1>1, <1>2, <1>4, WorkType DEF RulesOK
  <2>2. [c EXCEPT !.state = "IN_PROGRESS", !.work = w] \in Cache
        /\ [c EXCEPT !.state = "IN_PROGRESS", !.work = w].state = "IN_PROGRESS"
    BY <1>2 DEF Cache
  <2> QED
    BY <2>1, <2>2
<1>6. worker' \in [busy : BOOLEAN, retries : Nat, ok : BOOLEAN, stale : BOOLEAN]
  <2>1. [busy |-> TRUE, retries |-> c.retries, ok |-> ok, stale |-> FALSE]
          \in [busy : BOOLEAN, retries : Nat, ok : BOOLEAN, stale : BOOLEAN]
    BY <1>2, Zenon
  <2> QED
    BY <1>1, <1>5, <2>1 DEF RemoteOK
<1>7. session' \in Session \union {NoSession} /\ faults' \in 0 .. MaxFaults
  BY <1>1, <1>3, <1>4 DEF BetweenOK
<1>8. ProviderOK' /\ RulesOK'
  BY <1>1, <1>4 DEF provider, ruleVars, discovery, ProviderOK, RulesOK
<1>9. RemoteOK' /\ BetweenOK'
  BY <1>1, <1>2, <1>4, <1>5, <1>6, <1>7 DEF RemoteOK, BetweenOK
<1>10. TypeOK'
  BY <1>8, <1>9, TypePartsPrime
<1>11. CASE remote' = c /\ UNCHANGED <<worker, session>>
  BY <1>2, <1>4, <1>10, <1>11
<1>12. CASE ~(remote' = c /\ UNCHANGED <<worker, session>>)
  <2>1. worker'.busy = TRUE /\ worker'.ok = ok
    BY <1>5, <1>12
  <2>2. session' # NoSession <=> ok
    BY <1>3, <1>5, <1>12
  <2> QED
    BY <1>2, <1>4, <1>5, <1>10, <1>12, <2>1, <2>2
<1> QED
  BY <1>11, <1>12

\* The worker goes on after its call, with a record that may be gone.
LEMMA ResumesStep ==
  ASSUME TypeOK, AlarmResumes
  PROVE  /\ TypeOK' /\ worker.busy /\ worker' = NoWorker /\ session' = session
         /\ IF remote = NoCache THEN remote' = NoCache
            ELSE /\ remote \in Cache /\ remote' \in Cache
                 /\ IF worker.ok THEN remote'.state = remote.state ELSE remote'.state = "IDLE"
<1>1. ProviderOK /\ RulesOK /\ RemoteOK /\ BetweenOK
  BY TypeParts
<1>2. /\ worker.busy /\ worker' = NoWorker
      /\ UNCHANGED <<provider, ruleVars, hist, air, session, faults, changes>>
  BY DEF AlarmResumes
<1>3. ASSUME remote # NoCache
      PROVE  /\ remote \in Cache /\ remote' \in Cache
             /\ IF worker.ok THEN remote'.state = remote.state ELSE remote'.state = "IDLE"
  <2>1. remote \in Cache /\ remote.retries \in Nat
    BY <1>1, <1>3 DEF RemoteOK, Cache
  <2>2. NoWork \in Work
    BY Offsets DEF NoWork, Work
  <2>3. \A n \in Nat : LET c == [remote EXCEPT !.retries = n] IN c \in Cache /\ c.state = remote.state
    BY <2>1 DEF Cache
  <2>4. LET c == [remote EXCEPT !.state = "IDLE", !.work = NoWork, !.armed = TRUE]
        IN  c \in Cache /\ c.state = "IDLE"
    BY <2>1, <2>2 DEF Cache
  <2>5. (IF remote.retries = worker.retries THEN remote.retries + 1 ELSE remote.retries) \in Nat
    BY <2>1
  <2>6. CASE worker.ok
    BY <1>3, <2>1, <2>3, <2>5, <2>6 DEF AlarmResumes
  <2>7. CASE ~worker.ok
    <3>1. worker \in [busy : BOOLEAN, retries : Nat, ok : BOOLEAN, stale : BOOLEAN]
      BY <1>1 DEF RemoteOK
    <3> QED
      BY <1>3, <2>1, <2>4, <2>7, <3>1 DEF AlarmResumes
  <2> QED
    BY <2>6, <2>7
<1>4. remote = NoCache => remote' = NoCache
  BY DEF AlarmResumes
<1>5. ProviderOK' /\ RulesOK' /\ BetweenOK'
  BY <1>1, <1>2 DEF provider, ruleVars, discovery, ProviderOK, RulesOK, BetweenOK
<1>6. RemoteOK'
  BY <1>1, <1>2, <1>3, <1>4 DEF RemoteOK, NoWorker
<1> QED
  BY <1>2, <1>3, <1>4, <1>5, <1>6, TypePartsPrime

\* The record when its attempt has ended in vain.
LEMMA RetryStep ==
  ASSUME RemoteOK, remote \in Cache, Retry
  PROVE  /\ RemoteOK' /\ worker'.busy = worker.busy /\ worker'.ok = worker.ok
         /\ remote' = NoCache \/ (remote'.state = "IDLE" /\ remote'.armed)
<1> DEFINE c == [remote EXCEPT !.state = "IDLE", !.work = NoWork]
<1>1. c \in Cache /\ c.state = "IDLE"
  BY Offsets DEF Cache, NoWork, Work
<1>2. SetRemote(Scheduled(c), hist)
  BY DEF Retry
<1> HIDE DEF c
<1>3. Scheduled(c) \in Cache \union {NoCache}
  BY <1>1, ScheduledType
<1>4. Scheduled(c) = NoCache \/ (Scheduled(c).state = "IDLE" /\ Scheduled(c).armed)
  BY <1>1 DEF Scheduled, Cache
<1>5. hist \in History
  BY DEF RemoteOK
<1> QED
  BY <1>2, <1>3, <1>4, <1>5, SetRemoteStep

\* What the record becomes when the provider has sent everything asked for, before its work is scheduled.
Answered ==
  [remote EXCEPT
     !.state = "IDLE", !.work = NoWork, !.retries = 0, !.routedMessages = {},
     !.appliedRulesId = IF IS_GREATER(Minus(remote.work.toRulesId, 1), @)
                        THEN Minus(remote.work.toRulesId, 1) ELSE @,
     !.haveReceived = @ \/ IS_GREATER(Minus(remote.work.toChangeId, 1), remote.receivedChangeId),
     !.receivedChangeId = IF IS_GREATER(Minus(remote.work.toChangeId, 1), @)
                          THEN Minus(remote.work.toChangeId, 1) ELSE @]

LEMMA AnsweredType ==
  ASSUME remote \in Cache
  PROVE  Answered \in Cache /\ Answered.state = "IDLE"
<1>1. remote.work \in Work /\ remote.appliedRulesId \in Seqs /\ remote.receivedChangeId \in Seqs
      /\ remote.haveReceived \in BOOLEAN
  BY DEF Cache
<1>2. Minus(remote.work.toRulesId, 1) \in Seqs /\ Minus(remote.work.toChangeId, 1) \in Seqs
  BY <1>1, MinusType, Offsets DEF Work
<1>3. PICK a \in Seqs, h \in BOOLEAN, q \in Seqs :
        Answered = [remote EXCEPT !.state = "IDLE", !.work = NoWork, !.retries = 0, !.routedMessages = {},
                                  !.appliedRulesId = a, !.haveReceived = h, !.receivedChangeId = q]
  <2>1. (remote.haveReceived \/ IS_GREATER(Minus(remote.work.toChangeId, 1), remote.receivedChangeId)) \in BOOLEAN
    OBVIOUS
  <2>2. (IF IS_GREATER(Minus(remote.work.toRulesId, 1), remote.appliedRulesId)
         THEN Minus(remote.work.toRulesId, 1) ELSE remote.appliedRulesId) \in Seqs
    BY <1>1, <1>2
  <2>3. (IF IS_GREATER(Minus(remote.work.toChangeId, 1), remote.receivedChangeId)
         THEN Minus(remote.work.toChangeId, 1) ELSE remote.receivedChangeId) \in Seqs
    BY <1>1, <1>2
  <2> QED
    BY <2>1, <2>2, <2>3, Zenon DEF Answered
<1>4. NoWork \in Work
  BY Offsets DEF NoWork, Work
<1> QED
  BY <1>3, <1>4 DEF Cache

\* A signal that arrives in the session.
LEMMA RouteStep ==
  ASSUME TypeOK, AttemptInv, RouteSessionlessMessage
  PROVE  TypeOK' /\ remote'.state = remote.state /\ remote' # NoCache /\ session' # NoSession
         /\ UNCHANGED worker
<1>1. ProviderOK /\ RulesOK /\ RemoteOK /\ BetweenOK
  BY TypeParts
<1>2. session \in Session /\ session # NoSession /\ remote \in Cache
  BY SessionHasRecord DEF RouteSessionlessMessage
<1> DEFINE msg == Head(session.chan)
           pairs == {<<msg.serial, r>> : r \in {s \in RulesIn(rules, remote.work.fromRulesId, remote.work.toRulesId) :
                                                  Matches(s, msg.key)}}
<1>3. /\ \/ /\ hist' = [hist EXCEPT !.missed = @ \union (pairs \ hist.delivered)]
            /\ remote' = remote
         \/ /\ remote' = [remote EXCEPT !.routedMessages = @ \union {msg}]
            /\ hist' = [hist EXCEPT !.delivered = @ \union pairs,
                                    !.twice = @ \union (pairs \intersect hist.delivered)]
      /\ session' = [session EXCEPT !.chan = Tail(@)]
      /\ UNCHANGED <<provider, ruleVars, worker, air, faults, changes>>
  BY DEF RouteSessionlessMessage
<1>4. msg \in Msg /\ Tail(session.chan) \in Seq(Msg)
  <2>1. session.chan \in Seq(Msg) /\ session.chan # <<>>
    BY <1>2 DEF Session, RouteSessionlessMessage
  <2> QED
    BY <2>1
<1>5. pairs \in SUBSET Pair
  <2>1. msg.serial \in 1 .. MaxPush
    BY <1>4 DEF Msg
  <2> HIDE DEF msg
  <2> QED
    BY <2>1 DEF Pair, RulesIn, Live
<1> HIDE DEF msg, pairs
<1>6. remote' \in Cache /\ remote'.state = remote.state
  <2>1. remote.routedMessages \union {msg} \in SUBSET Msg
    BY <1>2, <1>4 DEF Cache
  <2>2. PICK ms \in SUBSET Msg : remote' \in {remote, [remote EXCEPT !.routedMessages = ms]}
    BY <1>3, <2>1, Zenon
  <2> QED
    BY <1>2, <2>2 DEF Cache
<1>7. hist' \in History
  <2>1. hist \in History
    BY <1>1 DEF RemoteOK
  <2> QED
    BY <1>3, <1>5, <2>1 DEF History
<1>8. session' \in Session
  BY <1>2, <1>3, <1>4 DEF Session
<1>9. ProviderOK' /\ RulesOK'
  BY <1>1, <1>3 DEF provider, ruleVars, discovery, ProviderOK, RulesOK
<1>10. RemoteOK' /\ BetweenOK'
  BY <1>1, <1>3, <1>6, <1>7, <1>8 DEF RemoteOK, BetweenOK
<1> QED
  BY <1>3, <1>6, <1>8, <1>9, <1>10, TypePartsPrime

\* The joiner's callbacks: joined, or not; and the end of a session.
LEMMA SessionStep ==
  ASSUME TypeOK, AttemptInv, JoinSessionCB \/ JoinFails \/ ProviderLeft \/ SessionLost
  PROVE  TypeOK' /\ (JoinSessionCB => session' # NoSession)
<1>1. ProviderOK /\ RulesOK /\ RemoteOK /\ BetweenOK
  BY TypeParts
<1>2. session \in Session /\ session # NoSession /\ remote \in Cache /\ remote.work \in Work
  BY SessionHasRecord DEF JoinSessionCB, JoinFails, ProviderLeft, SessionLost
<1>3. ASSUME JoinSessionCB PROVE TypeOK' /\ session' # NoSession
  <2>1. PICK from \in Seqs, to \in Seqs, rs \in SUBSET MatchRule :
          session' = [session EXCEPT !.phase = "asked", !.from = from, !.to = to, !.rules = rs]
    BY <1>2, <1>3 DEF JoinSessionCB, Work, RulesIn, Live
  <2>2. session' \in Session
    BY <1>2, <2>1 DEF Session
  <2>3. UNCHANGED <<provider, ruleVars, remote, worker, hist, air, faults, changes>>
    BY <1>3 DEF JoinSessionCB
  <2> QED
    BY <1>1, <1>3, <2>2, <2>3, TypePartsPrime DEF provider, ruleVars, discovery, ProviderOK, RulesOK, RemoteOK, BetweenOK
<1>4. ASSUME JoinFails PROVE TypeOK'
  <2>1. RemoteOK'
    BY <1>1, <1>2, <1>4, RetryStep DEF JoinFails
  <2>2. session' = NoSession /\ faults' \in 0 .. MaxFaults /\ UNCHANGED <<provider, ruleVars, air, changes>>
    BY <1>1, <1>4 DEF JoinFails, BetweenOK
  <2> QED
    BY <1>1, <2>1, <2>2, TypePartsPrime DEF provider, ruleVars, discovery, ProviderOK, RulesOK, BetweenOK
<1>5. ASSUME ProviderLeft PROVE TypeOK'
  <2>1. PICK h \in History : SetRemote(ScheduleWork(Answered, rules, nextRulesId), h)
    <3> DEFINE unasked == {m \in remote.routedMessages :
                             ~InRange(remote.work.fromChangeId, remote.work.toChangeId, m.id)}
               lost == {m.serial : m \in unasked}
               h == [hist EXCEPT !.forgotten = @ \union lost]
    <3>1. SetRemote(ScheduleWork(Answered, rules, nextRulesId), h)
      BY <1>5 DEF ProviderLeft, Answered
    <3>2. lost \in SUBSET (1 .. MaxPush)
      BY <1>2 DEF Cache, Msg
    <3>3. hist \in History
      BY <1>1 DEF RemoteOK
    <3> HIDE DEF lost
    <3>4. h \in History
      BY <3>2, <3>3 DEF History
    <3> QED
      BY <3>1, <3>4
  <2>2. RemoteOK'
    <3>1. ScheduleWork(Answered, rules, nextRulesId) \in Cache \union {NoCache}
      BY <1>2, AnsweredType, ScheduleWorkType
    <3> QED
      BY <1>1, <2>1, <3>1, SetRemoteStep
  <2>3. session' = NoSession /\ UNCHANGED <<provider, ruleVars, air, faults, changes>>
    BY <1>5 DEF ProviderLeft
  <2> QED
    BY <1>1, <2>2, <2>3, TypePartsPrime DEF provider, ruleVars, discovery, ProviderOK, RulesOK, BetweenOK
<1>6. ASSUME SessionLost PROVE TypeOK'
  <2>1. RemoteOK'
    BY <1>1, <1>2, <1>6, RetryStep DEF SessionLost
  <2>2. /\ session' = NoSession /\ faults' \in 0 .. MaxFaults /\ kicked' \in BOOLEAN
        /\ UNCHANGED <<localCache, curChangeId, advanceChangeId, lastAdvertisements, pushed, ruleVars, air, changes>>
    BY <1>1, <1>6 DEF SessionLost, BetweenOK
  <2> QED
    BY <1>1, <2>1, <2>2, TypePartsPrime DEF ruleVars, discovery, ProviderOK, RulesOK, BetweenOK
<1> QED
  BY <1>3, <1>4, <1>5, <1>6

\* ScheduleWork erases a record only when it is idle.
LEMMA ScheduleWorkState ==
  ASSUME NEW c \in Cache, NEW rs, NEW next
  PROVE  LET r == ScheduleWork(c, rs, next)
         IN  IF r = NoCache THEN c.state = "IDLE" ELSE r.state = c.state
<1>1. c # NoCache
  OBVIOUS
<1>2. [c EXCEPT !.armed = TRUE].state = c.state
  BY DEF Cache
<1> QED
  BY <1>1, <1>2 DEF ScheduleWork, Scheduled

InProgress(c) == c # NoCache /\ c.state = "IN_PROGRESS"

\* The record that is as much in progress as it was leaves the attempt as it is.
LEMMA KeepsAttempt ==
  ASSUME RemoteOK, AttemptInv, NEW c \in Cache \union {NoCache}, NEW h \in History,
         SetRemote(c, h), session' = session, InProgress(c) <=> InProgress(remote)
  PROVE  AttemptInv'
<1>1. remote' = c /\ worker'.busy = worker.busy /\ worker'.ok = worker.ok
  BY SetRemoteStep
<1> QED
  BY <1>1 DEF AttemptInv, InProgressIsAttempt, InProgress

\* The record that has become idle, or is gone, ends the attempt.
LEMMA EndsAttempt ==
  ASSUME AttemptInv, session # NoSession, session' = NoSession,
         worker'.busy = worker.busy /\ worker'.ok = worker.ok,
         remote' = NoCache \/ remote'.state = "IDLE"
  PROVE  AttemptInv'
<1>1. remote' = NoCache \/ remote'.state # "IN_PROGRESS"
  BY "IDLE" # "IN_PROGRESS"
<1> QED
  BY <1>1 DEF AttemptInv, InProgressIsAttempt

\* A record is in progress exactly while its attempt is under way.
LEMMA AttemptStep ==
  ASSUME TypeOK, AttemptInv, Next
  PROVE  AttemptInv'
<1>1. ProviderOK /\ RulesOK /\ RemoteOK /\ BetweenOK /\ hist \in History
  BY TypeParts DEF RemoteOK
<1>2. ASSUME UNCHANGED <<remote, worker, session>> PROVE AttemptInv'
  BY <1>2 DEF AttemptInv, InProgressIsAttempt
<1>3. ASSUME \/ \E k \in Key : PushMessage(k) \/ CancelMessage(k)
             \/ \E s \in {SenderOf[k] : k \in Key} : SenderLeaves(s)
             \/ ProviderAlarm \/ OtherRequest
      PROVE  AttemptInv'
  BY <1>1, <1>2, <1>3, ProviderStep DEF RulesOK
<1>4. ASSUME HandleRangeRequest \/ RangeRequestContinues PROVE AttemptInv'
  BY <1>1, <1>4, RangeRequestStep DEF AttemptInv, InProgressIsAttempt
<1>5. ASSUME NEW r \in MatchRule, AddRule(r) PROVE AttemptInv'
  <2>1. PICK rs, next, h : SetRemote(ScheduleWork(remote, rs, next), h) /\ session' = session
    BY <1>5 DEF AddRule
  <2>2. InProgress(ScheduleWork(remote, rs, next)) <=> InProgress(remote)
    <3>1. CASE remote = NoCache
      BY <3>1 DEF ScheduleWork
    <3>2. CASE remote # NoCache
      BY <1>1, <3>2, ScheduleWorkState DEF InProgress, RemoteOK
    <3> QED
      BY <3>1, <3>2
  <2>3. worker'.busy = worker.busy /\ worker'.ok = worker.ok /\ remote' = ScheduleWork(remote, rs, next)
    BY <1>1, <2>1 DEF SetRemote, RemoteOK
  <2> QED
    BY <2>1, <2>2, <2>3 DEF AttemptInv, InProgressIsAttempt, InProgress
<1>6. ASSUME (\E r \in MatchRule : RemoveRule(r)) \/ (\E ep \in {q.ep : q \in MatchRule} : EndpointLeaves(ep))
      PROVE  AttemptInv'
  BY <1>2, <1>6 DEF RemoveRule, EndpointLeaves, SetRules
<1>7. ASSUME NEW name \in air, FoundAdvertisedName(name) PROVE AttemptInv'
  <2>1. name \in Name
    BY <1>1 DEF BetweenOK
  <2> DEFINE greater == IS_GREATER(name.changeId, remote.changeId)
             c == IF remote = NoCache THEN RemoteCache(name)
                  ELSE [remote EXCEPT !.ifaces = @ \union {name.iface},
                                      !.changeId = IF greater THEN name.changeId ELSE @,
                                      !.retries = IF greater THEN 0 ELSE @]
  <2>2. SetRemote(ScheduleWork(c, rules, nextRulesId), hist) /\ session' = session
    BY <1>7 DEF FoundAdvertisedName
  <2>3. c \in Cache /\ (InProgress(c) <=> InProgress(remote))
    <3>1. CASE remote = NoCache
      <4>1. c = RemoteCache(name) /\ c \in Cache /\ c.state = "IDLE"
        BY <2>1, <3>1, RemoteCacheType
      <4> QED
        BY <3>1, <4>1 DEF InProgress
    <3>2. CASE remote # NoCache
      <4>1. remote \in Cache /\ name.iface \in Iface /\ name.changeId \in Seqs
        BY <1>1, <2>1, <3>2 DEF RemoteOK, Name
      <4> HIDE DEF greater
      <4>2. c \in Cache /\ c.state = remote.state
        BY <3>2, <4>1 DEF Cache
      <4> QED
        BY <3>2, <4>2 DEF InProgress
    <3> QED
      BY <3>1, <3>2
  <2> HIDE DEF c
  <2>4. InProgress(ScheduleWork(c, rules, nextRulesId)) <=> InProgress(remote)
    BY <2>3, ScheduleWorkState DEF InProgress
  <2>5. ScheduleWork(c, rules, nextRulesId) \in Cache \union {NoCache}
    BY <2>3, ScheduleWorkType
  <2> QED
    BY <1>1, <2>2, <2>4, <2>5, KeepsAttempt
<1>8. ASSUME NEW name \in air, NameMissed(name) PROVE AttemptInv'
  BY <1>2, <1>8 DEF NameMissed
<1>9. ASSUME NEW ok \in BOOLEAN, AlarmTriggered(ok) PROVE AttemptInv'
  BY <1>9, TriggeredStep DEF AttemptInv, InProgressIsAttempt
<1>10. ASSUME AlarmResumes PROVE AttemptInv'
  <2>1. worker' = NoWorker /\ ~worker'.busy
    BY <1>10 DEF AlarmResumes, NoWorker
  <2> QED
    BY <1>10, <2>1, ResumesStep DEF AttemptInv, InProgressIsAttempt
<1>11. ASSUME JoinSessionCB PROVE AttemptInv'
  <2>1. session # NoSession /\ session' # NoSession
    BY <1>11, SessionStep DEF JoinSessionCB
  <2> QED
    BY <1>11, <2>1 DEF JoinSessionCB, AttemptInv, InProgressIsAttempt
<1>12. ASSUME JoinFails \/ SessionLost PROVE AttemptInv'
  <2>1. remote \in Cache /\ Retry /\ session # NoSession /\ session' = NoSession
    BY <1>12, SessionHasRecord DEF JoinFails, SessionLost
  <2> QED
    BY <1>1, <2>1, RetryStep, EndsAttempt
<1>13. ASSUME RouteSessionlessMessage PROVE AttemptInv'
  BY <1>13, RouteStep DEF AttemptInv, InProgressIsAttempt, RouteSessionlessMessage
<1>14. ASSUME ProviderLeft PROVE AttemptInv'
  <2>1. remote \in Cache /\ session # NoSession /\ session' = NoSession
    BY <1>14, SessionHasRecord DEF ProviderLeft
  <2>2. PICK h : SetRemote(ScheduleWork(Answered, rules, nextRulesId), h)
    BY <1>14 DEF ProviderLeft, Answered
  <2>3. worker'.busy = worker.busy /\ worker'.ok = worker.ok
        /\ remote' = ScheduleWork(Answered, rules, nextRulesId)
    BY <1>1, <2>2 DEF SetRemote, RemoteOK
  <2>4. remote' = NoCache \/ remote'.state = "IDLE"
    BY <2>1, <2>3, AnsweredType, ScheduleWorkState
  <2> QED
    BY <2>1, <2>3, <2>4, EndsAttempt
<1>15. ASSUME DiscoveryCall PROVE AttemptInv'
  BY <1>2, <1>15, CallKeeps
<1> QED
  BY <1>3, <1>4, <1>5, <1>6, <1>7, <1>8, <1>9, <1>10, <1>11, <1>12, <1>13, <1>14, <1>15 DEF Next, DiscoveryCall

\* The values every run starts with.
LEMMA InitStep ==
  ASSUME Init
  PROVE  TypeOK /\ AttemptInv
<1>1. NoRule \in [copies : 0 .. MaxSame, id : Seqs]
  BY Offsets DEF NoRule
<1>2. NoHistory(FALSE) \in History /\ NoWorker \in [busy : BOOLEAN, retries : Nat, ok : BOOLEAN, stale : BOOLEAN]
  BY DEF NoHistory, History, NoWorker
<1>3. ProviderOK
  <2>1. advanceChangeId \in BOOLEAN /\ kicked \in BOOLEAN
    BY Zenon DEF Init
  <2> QED
    BY <2>1, Offsets DEF Init, ProviderOK
<1>4. RulesOK
  <2>1. findCalls \in [Iface -> Nat] /\ cancelCalls = findCalls
    BY DEF Init
  <2> QED
    BY <1>1, <2>1, Offsets DEF Init, RulesOK
<1>5. RemoteOK
  BY <1>2 DEF Init, RemoteOK
<1>6. BetweenOK
  BY DEF Init, BetweenOK
<1>7. AttemptInv
  BY DEF Init, AttemptInv, InProgressIsAttempt, NoWorker
<1> QED
  BY <1>3, <1>4, <1>5, <1>6, <1>7, TypeParts

\* Every step keeps the types and the attempt.
LEMMA TypeStep ==
  ASSUME TypeOK, AttemptInv, [Next]_vars
  PROVE  TypeOK' /\ AttemptInv'
<1>1. ProviderOK /\ RulesOK /\ RemoteOK /\ BetweenOK
  BY TypeParts
<1>2. ASSUME UNCHANGED vars PROVE TypeOK' /\ AttemptInv'
  <2>1. ProviderOK' /\ RulesOK' /\ RemoteOK' /\ BetweenOK'
    BY <1>1, <1>2 DEF vars, provider, ruleVars, discovery, ProviderOK, RulesOK, RemoteOK, BetweenOK
  <2>2. AttemptInv'
    BY <1>2 DEF vars, AttemptInv, InProgressIsAttempt
  <2> QED
    BY <2>1, <2>2, TypePartsPrime
<1>3. ASSUME \/ \E k \in Key : PushMessage(k) \/ CancelMessage(k)
             \/ \E s \in {SenderOf[k] : k \in Key} : SenderLeaves(s)
             \/ ProviderAlarm \/ OtherRequest \/ HandleRangeRequest \/ RangeRequestContinues
      PROVE  TypeOK'
  <2>1. ProviderOK' /\ BetweenOK' /\ UNCHANGED <<ruleVars, remote, worker, hist>>
    BY <1>1, <1>3, ProviderStep, RangeRequestStep DEF RulesOK
  <2> QED
    BY <1>1, <2>1, TypePartsPrime DEF ruleVars, discovery, RulesOK, RemoteOK
<1>4. ASSUME Next PROVE TypeOK'
  BY <1>3, <1>4, RulesStep, NamesStep, CallStep, TriggeredStep, ResumesStep, RouteStep, SessionStep
     DEF Next, DiscoveryCall
<1>5. ASSUME Next PROVE AttemptInv'
  BY <1>5, AttemptStep
<1> QED
  BY <1>2, <1>4, <1>5

\* The values have their types, and a session or a failed call is the one attempt of a record in progress.
THEOREM AttemptInvariant == Spec => [](TypeOK /\ AttemptInv)
<1>1. Init => TypeOK /\ AttemptInv
  BY InitStep
<1>2. TypeOK /\ AttemptInv /\ [Next]_vars => (TypeOK /\ AttemptInv)'
  BY TypeStep
<1> QED
  BY <1>1, <1>2, PTL DEF Spec

\* The variables of both routing nodes have their types: in particular every change id and rule id
\* stays in the range of its counter, and the sends of a session are cached signals.
THEOREM TypeCorrect == Spec => []TypeOK
<1>1. TypeOK /\ AttemptInv => TypeOK
  OBVIOUS
<1> QED
  BY <1>1, AttemptInvariant, PTL

\* A record is in progress exactly while a session or a call for it is under way: whatever fails,
\* and whenever it fails, the record does not stay in progress, and it is not erased meanwhile.
THEOREM AttemptCorrect == Spec => []InProgressIsAttempt
<1>1. TypeOK /\ AttemptInv => InProgressIsAttempt
  BY DEF AttemptInv
<1> QED
  BY <1>1, AttemptInvariant, PTL

-----------------------------------------------------------------------------
(* Work is never stranded.                                                 *)

\* An idle record with pending work has an alarm.
HasAlarm(c, rs, next) ==
  c # NoCache /\ c.state = "IDLE" /\ PendingWork(c, rs, next) # "NONE" => c.armed

\* What there is to ask for does not depend on the schedule, the retries or the signals routed.
LEMMA SamePending ==
  ASSUME NEW c, NEW d, NEW rs, NEW next,
         /\ c.haveReceived = d.haveReceived /\ c.appliedRulesId = d.appliedRulesId
         /\ c.changeId = d.changeId /\ c.receivedChangeId = d.receivedChangeId
         /\ c.ifaces = d.ifaces
  PROVE  PendingWork(c, rs, next) = PendingWork(d, rs, next)
<1>1. \A from, to : IsMatch(c, rs, from, to) <=> IsMatch(d, rs, from, to)
  BY DEF IsMatch
<1> QED
  BY <1>1 DEF PendingWork

\* ScheduleWork leaves no idle record without an alarm.
LEMMA ScheduleWorkHasAlarm ==
  ASSUME NEW c \in Cache \union {NoCache}, NEW rs, NEW next
  PROVE  HasAlarm(ScheduleWork(c, rs, next), rs, next)
<1>1. CASE c = NoCache
  BY <1>1 DEF ScheduleWork, HasAlarm
<1>2. CASE c \in Cache
  <2> DEFINE d == [c EXCEPT !.armed = TRUE]
  <2>1. d.armed
    BY <1>2 DEF Cache
  <2>2. \/ ScheduleWork(c, rs, next) = c /\ (PendingWork(c, rs, next) = "NONE" \/ c.state # "IDLE")
        \/ ScheduleWork(c, rs, next) \in {NoCache, d}
    BY DEF ScheduleWork, Scheduled
  <2> HIDE DEF d
  <2> QED
    BY <2>1, <2>2 DEF HasAlarm
<1> QED
  BY <1>1, <1>2

\* With fewer rules there is no more to ask for.
LEMMA FewerRules ==
  ASSUME NEW c, NEW rs, NEW next, HasAlarm(c, rules, next),
         \A r \in Live(rs) : r \in Live(rules) /\ rs[r].id = rules[r].id
  PROVE  HasAlarm(c, rs, next)
<1>1. \A from, to : RulesIn(rs, from, to) \subseteq RulesIn(rules, from, to)
  BY DEF RulesIn
<1>2. \A from, to : IsMatch(c, rs, from, to) => IsMatch(c, rules, from, to)
  BY <1>1 DEF IsMatch
<1>3. PendingWork(c, rs, next) # "NONE" => PendingWork(c, rules, next) # "NONE"
  BY <1>2 DEF PendingWork
<1> QED
  BY <1>3 DEF HasAlarm

\* The record keeps its alarm while rules come and go, names are found, attempts are made and fail.
LEMMA AlarmStep ==
  ASSUME TypeOK, AttemptInv, WorkScheduled, [Next]_vars
  PROVE  WorkScheduled'
<1>1. ProviderOK /\ RulesOK /\ RemoteOK /\ BetweenOK
  BY TypeParts
<1>2. HasAlarm(remote, rules, nextRulesId)
  BY DEF WorkScheduled, HasAlarm
<1>3. SUFFICES HasAlarm(remote', rules', nextRulesId')
  BY DEF WorkScheduled, HasAlarm
<1>4. ASSUME UNCHANGED <<rules, nextRulesId, remote>> PROVE HasAlarm(remote', rules', nextRulesId')
  BY <1>2, <1>4
<1>5. ASSUME \/ \E k \in Key : PushMessage(k) \/ CancelMessage(k)
             \/ \E s \in {SenderOf[k] : k \in Key} : SenderLeaves(s)
             \/ ProviderAlarm \/ OtherRequest \/ HandleRangeRequest \/ RangeRequestContinues
             \/ \E name \in air : NameMissed(name)
             \/ JoinSessionCB
      PROVE  HasAlarm(remote', rules', nextRulesId')
  <2>1. UNCHANGED <<ruleVars, remote>>
    <3>1. CASE (\E name \in air : NameMissed(name)) \/ JoinSessionCB
      BY <3>1 DEF NameMissed, JoinSessionCB
    <3>2. CASE ~((\E name \in air : NameMissed(name)) \/ JoinSessionCB)
      BY <1>1, <1>5, <3>2, ProviderStep, RangeRequestStep DEF RulesOK
    <3> QED
      BY <3>1, <3>2
  <2> QED
    BY <1>4, <2>1 DEF ruleVars
<1>6. ASSUME NEW r \in MatchRule, AddRule(r) PROVE HasAlarm(remote', rules', nextRulesId')
  <2>1. PICK h : SetRemote(ScheduleWork(remote, rules', nextRulesId'), h)
    BY <1>6 DEF AddRule
  <2>2. remote' = ScheduleWork(remote, rules', nextRulesId')
    BY <2>1 DEF SetRemote
  <2> QED
    BY <1>1, <2>2, ScheduleWorkHasAlarm DEF RemoteOK
<1>7. ASSUME NEW rs, SetRules(rs), \A r \in Live(rs) : r \in Live(rules) /\ rs[r].id = rules[r].id
      PROVE  HasAlarm(remote', rules', nextRulesId')
  BY <1>2, <1>7, FewerRules DEF SetRules
<1>8. ASSUME NEW r \in MatchRule, RemoveRule(r) PROVE HasAlarm(remote', rules', nextRulesId')
  <2> DEFINE e == IF rules[r].copies = 1 THEN NoRule ELSE [copies |-> rules[r].copies - 1, id |-> rules[r].id]
             rs == [rules EXCEPT ![r] = e]
  <2>1. SetRules(rs) /\ r \in Live(rules)
    BY <1>8 DEF RemoveRule
  <2>2. e.copies > 0 => e.id = rules[r].id
    BY DEF NoRule
  <2>3. rs[r] = e /\ \A q \in MatchRule \ {r} : rs[q] = rules[q]
    BY <1>1 DEF RulesOK
  <2> HIDE DEF e, rs
  <2>4. \A q \in Live(rs) : q \in Live(rules) /\ rs[q].id = rules[q].id
    BY <2>1, <2>2, <2>3 DEF Live
  <2> QED
    BY <1>7, <2>1, <2>4
<1>9. ASSUME NEW ep, EndpointLeaves(ep) PROVE HasAlarm(remote', rules', nextRulesId')
  <2> DEFINE rs == [r \in MatchRule |-> IF r.ep = ep THEN NoRule ELSE rules[r]]
  <2>1. SetRules(rs)
    BY <1>9 DEF EndpointLeaves
  <2>2. \A q \in Live(rs) : q \in Live(rules) /\ rs[q].id = rules[q].id
    BY DEF Live, NoRule
  <2> HIDE DEF rs
  <2> QED
    BY <1>7, <2>1, <2>2
<1>10. ASSUME NEW c \in Cache, NEW h, SetRemote(ScheduleWork(c, rules, nextRulesId), h),
              UNCHANGED ruleVars
       PROVE  HasAlarm(remote', rules', nextRulesId')
  <2>1. remote' = ScheduleWork(c, rules, nextRulesId)
    BY <1>10 DEF SetRemote
  <2> QED
    BY <1>10, <2>1, ScheduleWorkHasAlarm DEF ruleVars, discovery
<1>11. ASSUME NEW name \in air, FoundAdvertisedName(name) PROVE HasAlarm(remote', rules', nextRulesId')
  <2>1. name \in Name /\ name.iface \in Iface /\ name.changeId \in Seqs
    BY <1>1 DEF BetweenOK, Name
  <2> DEFINE greater == IS_GREATER(name.changeId, remote.changeId)
             c == IF remote = NoCache THEN RemoteCache(name)
                  ELSE [remote EXCEPT !.ifaces = @ \union {name.iface},
                                      !.changeId = IF greater THEN name.changeId ELSE @,
                                      !.retries = IF greater THEN 0 ELSE @]
  <2>2. SetRemote(ScheduleWork(c, rules, nextRulesId), hist) /\ UNCHANGED ruleVars
    BY <1>11 DEF FoundAdvertisedName
  <2>3. c \in Cache
    <3>1. CASE remote = NoCache
      BY <2>1, <3>1, RemoteCacheType
    <3>2. CASE remote # NoCache
      <4>1. remote \in Cache
        BY <1>1, <3>2 DEF RemoteOK
      <4> HIDE DEF greater
      <4> QED
        BY <2>1, <3>2, <4>1 DEF Cache
    <3> QED
      BY <3>1, <3>2
  <2> HIDE DEF c
  <2> QED
    BY <1>10, <2>2, <2>3
<1>12. ASSUME NEW ok \in BOOLEAN, AlarmTriggered(ok) PROVE HasAlarm(remote', rules', nextRulesId')
  <2>1. remote \in Cache
    BY <1>12, TriggeredStep
  <2>2. CASE remote'.state # "IDLE"
    BY <2>2 DEF HasAlarm
  <2>3. CASE remote'.state = "IDLE"
    <3>1. remote'.state = remote.state
      BY <1>12, <2>3, TriggeredStep
    <3>2. ~(remote.state = "IDLE" /\ PendingWork(remote, rules, nextRulesId) # "NONE")
      <4> SUFFICES ASSUME remote.state = "IDLE", PendingWork(remote, rules, nextRulesId) # "NONE" PROVE FALSE
        OBVIOUS
      <4>1. worker'.busy /\ ~worker.busy
        <5>1. PICK n : worker' = [busy |-> TRUE, retries |-> n, ok |-> ok, stale |-> FALSE]
          BY <1>12 DEF AlarmTriggered
        <5> QED
          BY <1>12, <5>1 DEF AlarmTriggered
      <4> QED
        BY <1>12, <2>3, <4>1, TriggeredStep
    <3>3. remote' = [remote EXCEPT !.armed = FALSE] /\ UNCHANGED ruleVars
      BY <1>12, <3>2 DEF AlarmTriggered
    <3>4. PendingWork(remote', rules, nextRulesId) = PendingWork(remote, rules, nextRulesId)
      BY <2>1, <3>3, SamePending DEF Cache
    <3> QED
      BY <2>3, <3>1, <3>2, <3>3, <3>4 DEF HasAlarm, ruleVars, discovery
  <2> QED
    BY <2>2, <2>3
<1>13. ASSUME AlarmResumes PROVE HasAlarm(remote', rules', nextRulesId')
  <2>1. UNCHANGED ruleVars
    BY <1>13 DEF AlarmResumes
  <2>2. CASE remote = NoCache
    <3>1. remote' = NoCache
      BY <1>13, <2>2, ResumesStep
    <3> QED
      BY <3>1 DEF HasAlarm
  <2>3. CASE remote # NoCache
    <3>1. remote \in Cache
      BY <1>13, <2>3, ResumesStep
    <3>2. CASE remote'.armed
      BY <3>2 DEF HasAlarm
    <3>3. CASE ~remote'.armed
      <4>1. PICK n : remote' \in {remote, [remote EXCEPT !.retries = n],
                                  [remote EXCEPT !.state = "IDLE", !.work = NoWork, !.armed = TRUE]}
        BY <1>13 DEF AlarmResumes
      <4>2. [remote EXCEPT !.state = "IDLE", !.work = NoWork, !.armed = TRUE].armed
        BY <3>1 DEF Cache
      <4>3. remote' \in {remote, [remote EXCEPT !.retries = n]}
        BY <3>3, <4>1, <4>2
      <4>4. PendingWork(remote', rules, nextRulesId) = PendingWork(remote, rules, nextRulesId)
        BY <3>1, <4>3, SamePending DEF Cache
      <4>5. remote'.state = remote.state /\ remote'.armed = remote.armed
        BY <3>1, <4>3 DEF Cache
      <4> QED
        BY <1>2, <2>1, <2>3, <4>4, <4>5 DEF HasAlarm, ruleVars, discovery
    <3> QED
      BY <3>2, <3>3
  <2> QED
    BY <2>2, <2>3
<1>14. ASSUME JoinFails \/ SessionLost PROVE HasAlarm(remote', rules', nextRulesId')
  <2>1. remote \in Cache /\ Retry
    BY <1>14, SessionHasRecord DEF JoinFails, SessionLost
  <2> QED
    BY <1>1, <2>1, RetryStep DEF HasAlarm
<1>15. ASSUME RouteSessionlessMessage PROVE HasAlarm(remote', rules', nextRulesId')
  <2>1. remote.state = "IN_PROGRESS"
    BY <1>15, SessionHasRecord DEF RouteSessionlessMessage
  <2> QED
    BY <1>15, <2>1, RouteStep DEF HasAlarm
<1>16. ASSUME ProviderLeft PROVE HasAlarm(remote', rules', nextRulesId')
  <2>1. PICK h : SetRemote(ScheduleWork(Answered, rules, nextRulesId), h)
    BY <1>16 DEF ProviderLeft, Answered
  <2>2. Answered \in Cache
    BY <1>16, SessionHasRecord, AnsweredType DEF ProviderLeft
  <2>3. UNCHANGED ruleVars
    BY <1>16 DEF ProviderLeft
  <2> QED
    BY <1>10, <2>1, <2>2, <2>3
<1>17. ASSUME UNCHANGED vars PROVE HasAlarm(remote', rules', nextRulesId')
  BY <1>4, <1>17 DEF vars, ruleVars
<1>18. ASSUME DiscoveryCall PROVE HasAlarm(remote', rules', nextRulesId')
  BY <1>4, <1>18, CallKeeps
<1>19. CASE Next
  BY <1>5, <1>6, <1>8, <1>9, <1>11, <1>12, <1>13, <1>14, <1>15, <1>16, <1>18, <1>19 DEF Next, DiscoveryCall
<1> QED
  BY <1>17, <1>19

\* An idle record with pending work has an alarm: whatever rules are added, names found and
\* sessions lost around the worker's unlocked call, the signals that can be asked for will be.
THEOREM ScheduleCorrect == Spec => []WorkScheduled
<1>1. Init => WorkScheduled
  BY DEF Init, WorkScheduled
<1>2. TypeOK /\ AttemptInv /\ WorkScheduled /\ [Next]_vars => WorkScheduled'
  BY AlarmStep
<1> QED
  BY <1>1, <1>2, AttemptInvariant, PTL DEF Spec

-----------------------------------------------------------------------------
(* The order of the ids.                                                *)

\* The ids in their order: Largest, which stands for "none yet", comes first.
Rank(id) == Plus(id, 1)

\* The ids less than half way round after Largest: what the counters give out, and Largest.
Near == {id \in Seqs : Rank(id) < Half}

\* The counters stay less than half way round: IS_GREATER orders their ids only then.
NoWrap == MaxPush + 1 < Half /\ MaxRules + 1 < Half

\* Half is just under half of the ids.
LEMMA HalfWay == Half \in Nat /\ SeqSpace = 2 * Half + 2
<1>1. PICK h \in Nat : SeqSpace = 2 * h
  <2>1. SeqSpace = 2 * (SeqSpace \div 2) + (SeqSpace % 2) /\ SeqSpace \div 2 \in Nat
    OBVIOUS
  <2>2. SeqSpace = 2 * (SeqSpace \div 2)
    BY <2>1
  <2> QED
    BY <2>1, <2>2
<1>2. h >= 1
  BY <1>1
<1>3. (SeqSpace - 1) \div 2 = h - 1
  <2>1. SeqSpace - 1 = 2 * (h - 1) + 1
    BY <1>1
  <2> QED
    BY <1>2, <2>1
<1> QED
  BY <1>1, <1>2, <1>3 DEF Half

\* A counter id comes right after its rank's predecessors, Largest before all.
LEMMA RankOf ==
  ASSUME NEW id \in Seqs
  PROVE  /\ Rank(id) \in Seqs /\ Minus(Rank(id), 1) = id /\ Rank(Minus(id, 1)) = id
         /\ Rank(id) = IF id = Largest THEN 0 ELSE id + 1
  BY DEF Rank, Plus, Minus, Seqs, Largest

\* On near ids IS_GREATER is the order of their ranks.
LEMMA GreaterIsRank ==
  ASSUME NEW a \in Near, NEW b \in Near
  PROVE  /\ IS_GREATER_OR_EQUAL(a, b) <=> Rank(a) >= Rank(b)
         /\ IS_GREATER(a, b) <=> Rank(a) > Rank(b)
<1>1. a \in Seqs /\ b \in Seqs /\ Rank(a) < Half /\ Rank(b) < Half
  BY DEF Near
<1>2. IS_GREATER_OR_EQUAL(a, b) <=> Rank(a) >= Rank(b)
  BY <1>1, HalfWay, RankOf DEF IS_GREATER_OR_EQUAL, IN_WINDOW, IN_RANGE, Plus, Seqs, Largest
<1>3. a = b <=> Rank(a) = Rank(b)
  BY <1>1, RankOf DEF Seqs
<1>4. Rank(a) \in Int /\ Rank(b) \in Int
  BY <1>1, RankOf DEF Seqs
<1> QED
  BY <1>2, <1>3, <1>4 DEF IS_GREATER

\* A range goes from its first id up to its end, round the end of the ids if need be.
LEMMA RangeOf ==
  ASSUME NEW from \in Seqs, NEW to \in Seqs, NEW id \in Seqs
  PROVE  InRange(from, to, id) <=> \/ from < to /\ from <= id /\ id < to
                                   \/ to < from /\ (from <= id \/ id < to)
<1>1. Plus(from, Minus(to, from)) = to
  BY DEF Plus, Minus, Seqs
<1> QED
  BY <1>1 DEF InRange, IN_WINDOW, IN_RANGE, Seqs

\* The range from half way before a near id up to a near rank holds the near ids below that rank,
\* Largest apart.
LEMMA RangeBelow ==
  ASSUME NEW a \in Near, NEW to \in Seqs, to < Half, NEW id \in Near, id # Largest
  PROVE  InRange(Minus(a, Half), to, id) <=> id < to
<1>1. /\ a \in Seqs /\ id \in Seqs /\ Rank(a) < Half /\ Rank(id) < Half
  BY DEF Near
<1>2. Minus(a, Half) \in Seqs /\ Minus(a, Half) > Half
  BY <1>1, HalfWay, RankOf DEF Minus, Seqs, Largest
<1>3. id < Half
  BY <1>1, RankOf, HalfWay DEF Seqs
<1> QED
  BY <1>1, <1>2, <1>3, RangeOf, HalfWay DEF Seqs

-----------------------------------------------------------------------------
(* What the provider counts.                                            *)

\* An id that some signal has been stamped with.
Issued(id) == id < curChangeId \/ (id = curChangeId /\ advanceChangeId)

\* A change id is behind the signals that made it advance.
CountInv == curChangeId <= pushed /\ (advanceChangeId => curChangeId < pushed)

\* The counters of the provider only grow.
CountStep ==
  /\ curChangeId <= curChangeId' /\ pushed <= pushed'
  /\ \A id \in Seqs : Issued(id) => Issued(id)'

\* Every cached signal was cached before, or is the one just sent.
CacheStep ==
  \A k \in Key : localCache'[k] # NoMsg =>
      \/ localCache'[k] = localCache[k]
      \/ /\ localCache'[k] = [key |-> k, serial |-> pushed + 1, id |-> curChangeId]
         /\ pushed' = pushed + 1 /\ advanceChangeId' /\ curChangeId' = curChangeId

\* The bounds are numbers.
LEMMA BoundsType == MaxPush \in Nat /\ MaxRules \in Nat /\ MaxRetries \in Nat
  OBVIOUS

\* The head of HandleRangeRequest advances the id past all that were issued.
LEMMA AdvanceStep ==
  ASSUME NoWrap, ProviderOK, CountInv, Advance, pushed' = pushed
  PROVE  CountInv' /\ CountStep /\ \A id \in Seqs : Issued(id) => id < curChangeId'
<1>1. /\ curChangeId \in Seqs /\ pushed \in Nat /\ pushed' = pushed
      /\ curChangeId' = IF advanceChangeId THEN Plus(curChangeId, 1) ELSE curChangeId
      /\ advanceChangeId' = FALSE
  BY DEF ProviderOK, Advance
<1>2. CASE advanceChangeId
  <2>1. curChangeId' = curChangeId + 1
    <3>1. curChangeId' = Plus(curChangeId, 1)
      BY <1>1, <1>2, Zenon
    <3>2. curChangeId < pushed
      BY <1>2, Zenon DEF CountInv
    <3>3. pushed <= MaxPush /\ curChangeId \in Nat
      BY DEF ProviderOK, Seqs
    <3>4. curChangeId + 1 < SeqSpace
      BY <1>1, <3>2, <3>3, HalfWay, BoundsType DEF NoWrap
    <3> QED
      BY <3>1, <3>4 DEF Plus
  <2> QED
    BY <1>1, <1>2, <2>1 DEF CountInv, CountStep, Issued, Seqs
<1>3. CASE ~advanceChangeId
  BY <1>1, <1>3 DEF CountInv, CountStep, Issued, Seqs
<1> QED
  BY <1>2, <1>3

\* Signals that leave the cache leave the others as they are.
LEMMA WithoutStep ==
  ASSUME NEW gone, localCache' = Without(gone)
  PROVE  CacheStep
  BY DEF CacheStep, Without

\* No step takes an id back, and what is cached has an id that was issued.
LEMMA ProviderCounts ==
  ASSUME NoWrap, TypeOK, CountInv, [Next]_vars
  PROVE  CountInv' /\ CountStep /\ CacheStep
<1>1. ProviderOK /\ RulesOK /\ RemoteOK /\ BetweenOK
  BY TypeParts
<1>2. ASSUME UNCHANGED <<curChangeId, advanceChangeId, pushed>> PROVE CountInv' /\ CountStep
  BY <1>1, <1>2 DEF CountInv, CountStep, Issued, ProviderOK, Seqs
<1>3. ASSUME UNCHANGED localCache PROVE CacheStep
  BY <1>3 DEF CacheStep
<1>4. ASSUME NEW k \in Key, PushMessage(k) PROVE CountInv' /\ CountStep /\ CacheStep
  <2>1. /\ pushed \in Nat /\ pushed' = pushed + 1 /\ advanceChangeId' = TRUE
        /\ localCache' = [localCache EXCEPT ![k] = [key |-> k, serial |-> pushed + 1, id |-> curChangeId]]
        /\ curChangeId' = curChangeId /\ curChangeId \in Nat
    BY <1>1, <1>4 DEF PushMessage, ProviderOK, Seqs
  <2>2. CountInv' /\ CountStep
    BY <2>1 DEF CountInv, CountStep, Issued, Seqs
  <2>3. CacheStep
    BY <1>1, <2>1 DEF CacheStep, ProviderOK
  <2> QED
    BY <2>2, <2>3
<1>5. ASSUME NEW k \in Key, CancelMessage(k) PROVE CountInv' /\ CountStep /\ CacheStep
  BY <1>2, <1>5, WithoutStep DEF CancelMessage
<1>6. ASSUME NEW s, SenderLeaves(s) PROVE CountInv' /\ CountStep /\ CacheStep
  BY <1>2, <1>6, WithoutStep DEF SenderLeaves
<1>7. ASSUME ProviderAlarm PROVE CountInv' /\ CountStep /\ CacheStep
  BY <1>2, <1>7, WithoutStep DEF ProviderAlarm
<1>8. ASSUME OtherRequest PROVE CountInv' /\ CountStep /\ CacheStep
  BY <1>1, <1>8, WithoutStep, AdvanceStep DEF OtherRequest
<1>9. ASSUME NEW pos, Serve(pos) PROVE CacheStep
  BY <1>9, WithoutStep DEF Serve
<1>10. ASSUME HandleRangeRequest PROVE CountInv' /\ CountStep /\ CacheStep
  BY <1>1, <1>9, <1>10, AdvanceStep DEF HandleRangeRequest
<1>11. ASSUME RangeRequestContinues PROVE CountInv' /\ CountStep /\ CacheStep
  BY <1>2, <1>9, <1>11 DEF RangeRequestContinues
<1>12. ASSUME UNCHANGED <<localCache, curChangeId, advanceChangeId, pushed>> PROVE CountInv' /\ CountStep /\ CacheStep
  BY <1>2, <1>3, <1>12
<1>13. ASSUME \/ \E r \in MatchRule : AddRule(r) \/ RemoveRule(r)
              \/ \E ep \in {r.ep : r \in MatchRule} : EndpointLeaves(ep)
              \/ \E name \in air : FoundAdvertisedName(name) \/ NameMissed(name)
              \/ DiscoveryCall
              \/ \E ok \in BOOLEAN : AlarmTriggered(ok)
              \/ AlarmResumes \/ JoinSessionCB \/ JoinFails
              \/ RouteSessionlessMessage \/ ProviderLeft \/ SessionLost
       PROVE  UNCHANGED <<localCache, curChangeId, advanceChangeId, pushed, lastAdvertisements>>
  BY <1>13, CallKeeps DEF AddRule, RemoveRule, EndpointLeaves, SetRules, FoundAdvertisedName, NameMissed,
               AlarmTriggered, AlarmResumes, JoinSessionCB, JoinFails, RouteSessionlessMessage,
               ProviderLeft, SessionLost, provider
<1>14. ASSUME UNCHANGED vars PROVE CountInv' /\ CountStep /\ CacheStep
  BY <1>12, <1>14 DEF vars, provider
<1>15. CASE Next
  BY <1>4, <1>5, <1>6, <1>7, <1>8, <1>10, <1>11, <1>12, <1>13, <1>15 DEF Next, DiscoveryCall
<1> QED
  BY <1>14, <1>15

-----------------------------------------------------------------------------
(* The rules and their ids.                                             *)

\* The rules' ids are those given out.
RulesInv == nextRulesId <= MaxRules /\ \A r \in Live(rules) : rules[r].id < nextRulesId

\* A rule keeps its id while it is there; a new one gets the next id, and has been given nothing yet.
RulesChange ==
  /\ nextRulesId <= nextRulesId'
  /\ \A r \in Live(rules') :
        \/ r \in Live(rules) /\ rules'[r].id = rules[r].id
        \/ /\ r \notin Live(rules) /\ rules'[r].id = nextRulesId /\ nextRulesId' = nextRulesId + 1
           /\ \A p \in hist'.delivered \union hist'.missed : p[2] # r

\* AddRule gives the rule the next id, unless it is there already.
LEMMA AddRuleChange ==
  ASSUME NoWrap, TypeOK, RulesInv, NEW r \in MatchRule, AddRule(r)
  PROVE  RulesInv' /\ RulesChange
<1>1. RulesOK /\ RemoteOK /\ rules[r] \in [copies : 0 .. MaxSame, id : Seqs]
  BY TypeParts DEF RulesOK
<1> DEFINE isNewRule == rules[r].copies = 0
           e == [copies |-> rules[r].copies + 1, id |-> IF isNewRule THEN nextRulesId ELSE rules[r].id]
           Fresh(pairs) == IF isNewRule THEN {p \in pairs : p[2] # r} ELSE pairs
           h == [hist EXCEPT !.delivered = Fresh(@), !.twice = Fresh(@), !.missed = Fresh(@)]
<1>2. /\ rules' = [rules EXCEPT ![r] = e]
      /\ nextRulesId' = IF isNewRule THEN Plus(nextRulesId, 1) ELSE nextRulesId
      /\ isNewRule => nextRulesId < MaxRules
      /\ hist' = h \/ hist' = NoHistory(TRUE)
  BY DEF AddRule, SetRemote
<1>3. nextRulesId \in Nat /\ (isNewRule => nextRulesId' = nextRulesId + 1)
  BY <1>1, <1>2, BoundsType, HalfWay DEF RulesOK, Seqs, Plus, NoWrap
<1>4. isNewRule => \A p \in hist'.delivered \union hist'.missed : p[2] # r
  <2>1. hist \in History
    BY <1>1 DEF RemoteOK
  <2> SUFFICES ASSUME isNewRule PROVE \A p \in hist'.delivered \union hist'.missed : p[2] # r
    OBVIOUS
  <2>2. h.delivered = Fresh(hist.delivered) /\ h.missed = Fresh(hist.missed)
    <3> HIDE DEF Fresh
    <3> QED
      BY <2>1 DEF History
  <2> HIDE DEF h
  <2> QED
    BY <1>2, <2>2 DEF NoHistory
<1>5. isNewRule <=> r \notin Live(rules)
  BY <1>1 DEF Live
<1>6. rules'[r] = e /\ \A q \in MatchRule \ {r} : rules'[q] = rules[q]
  BY <1>1, <1>2 DEF RulesOK
<1>7. \A q \in Live(rules') : q = r \/ (q \in Live(rules) /\ rules'[q] = rules[q])
  BY <1>6 DEF Live
<1>8. rules'[r].id = IF isNewRule THEN nextRulesId ELSE rules[r].id
  BY <1>6
<1>9. nextRulesId <= nextRulesId' /\ nextRulesId' <= MaxRules /\ nextRulesId' \in Nat
  BY <1>2, <1>3, BoundsType DEF RulesInv
<1>10. \A q \in Live(rules) : rules[q].id \in Nat
  BY <1>1 DEF RulesOK, Live, Seqs
<1> HIDE DEF isNewRule
<1>11. RulesChange
  BY <1>3, <1>4, <1>5, <1>7, <1>8, <1>9, <1>2 DEF RulesChange
<1>12. \A q \in Live(rules') : rules'[q].id < nextRulesId'
  <2> TAKE q \in Live(rules')
  <2>1. CASE q \in Live(rules) /\ rules'[q].id = rules[q].id
    BY <1>3, <1>9, <1>10, <2>1, BoundsType DEF RulesInv
  <2>2. CASE ~(q \in Live(rules) /\ rules'[q].id = rules[q].id)
    BY <1>3, <1>11, <2>2 DEF RulesChange
  <2> QED
    BY <2>1, <2>2
<1> QED
  BY <1>9, <1>11, <1>12 DEF RulesInv

\* The rules and their ids stay those given out.
LEMMA RulesCount ==
  ASSUME NoWrap, TypeOK, RulesInv, [Next]_vars
  PROVE  RulesInv' /\ RulesChange
<1>1. ProviderOK /\ RulesOK /\ RemoteOK /\ BetweenOK /\ nextRulesId \in Nat
  BY TypeParts DEF RulesOK, Seqs
<1>2. ASSUME UNCHANGED <<rules, nextRulesId>> PROVE RulesInv' /\ RulesChange
  BY <1>1, <1>2 DEF RulesInv, RulesChange, Live
<1>3. ASSUME NEW rs, SetRules(rs), \A r \in Live(rs) : r \in Live(rules) /\ rs[r].id = rules[r].id
      PROVE  RulesInv' /\ RulesChange
  BY <1>1, <1>3 DEF SetRules, RulesInv, RulesChange
<1>4. ASSUME NEW r \in MatchRule, RemoveRule(r) PROVE RulesInv' /\ RulesChange
  <2> DEFINE e == IF rules[r].copies = 1 THEN NoRule ELSE [copies |-> rules[r].copies - 1, id |-> rules[r].id]
             rs == [rules EXCEPT ![r] = e]
  <2>1. SetRules(rs) /\ r \in Live(rules)
    BY <1>4 DEF RemoveRule
  <2>2. e.copies > 0 => e.id = rules[r].id
    BY DEF NoRule
  <2>3. rs[r] = e /\ \A q \in MatchRule \ {r} : rs[q] = rules[q]
    BY <1>1 DEF RulesOK
  <2> HIDE DEF e, rs
  <2>4. \A q \in Live(rs) : q \in Live(rules) /\ rs[q].id = rules[q].id
    BY <2>1, <2>2, <2>3 DEF Live
  <2> QED
    BY <1>3, <2>1, <2>4
<1>5. ASSUME NEW ep, EndpointLeaves(ep) PROVE RulesInv' /\ RulesChange
  <2> DEFINE rs == [r \in MatchRule |-> IF r.ep = ep THEN NoRule ELSE rules[r]]
  <2>1. SetRules(rs)
    BY <1>5 DEF EndpointLeaves
  <2>2. \A q \in Live(rs) : q \in Live(rules) /\ rs[q].id = rules[q].id
    BY DEF Live, NoRule
  <2> HIDE DEF rs
  <2> QED
    BY <1>3, <2>1, <2>2
<1>6. ASSUME \/ \E k \in Key : PushMessage(k) \/ CancelMessage(k)
             \/ \E s \in {SenderOf[k] : k \in Key} : SenderLeaves(s)
             \/ ProviderAlarm \/ OtherRequest \/ HandleRangeRequest \/ RangeRequestContinues
      PROVE  UNCHANGED <<rules, nextRulesId>>
  BY <1>1, <1>6, ProviderStep, RangeRequestStep DEF RulesOK, ruleVars
<1>7. ASSUME \/ \E name \in air : FoundAdvertisedName(name) \/ NameMissed(name)
             \/ DiscoveryCall
             \/ \E ok \in BOOLEAN : AlarmTriggered(ok)
             \/ AlarmResumes \/ JoinSessionCB \/ JoinFails
             \/ RouteSessionlessMessage \/ ProviderLeft \/ SessionLost
      PROVE  UNCHANGED <<rules, nextRulesId>>
  BY <1>7, CallKeeps DEF FoundAdvertisedName, NameMissed, AlarmTriggered, AlarmResumes, JoinSessionCB,
              JoinFails, RouteSessionlessMessage, ProviderLeft, SessionLost, ruleVars
<1>8. ASSUME UNCHANGED vars PROVE RulesInv' /\ RulesChange
  BY <1>2, <1>8 DEF vars, ruleVars
<1>9. CASE Next
  BY <1>2, <1>4, <1>5, <1>6, <1>7, <1>9, AddRuleChange DEF Next, DiscoveryCall
<1> QED
  BY <1>8, <1>9

-----------------------------------------------------------------------------
(* How the record of the remote cache changes.                          *)

\* What a record counts as received and applied.
SameCount(c, d) ==
  /\ d.haveReceived = c.haveReceived /\ d.receivedChangeId = c.receivedChangeId
  /\ d.appliedRulesId = c.appliedRulesId

\* ... and what it has to do.
SameWork(c, d) == SameCount(c, d) /\ d.routedMessages = c.routedMessages /\ d.state = c.state /\ d.work = c.work

\* The record begins.
Begins ==
  /\ remote = NoCache /\ remote' # NoCache
  /\ ~remote'.haveReceived /\ remote'.receivedChangeId = Largest /\ remote'.appliedRulesId = Largest
  /\ remote'.routedMessages = {} /\ remote'.state = "IDLE"

\* The record goes on, or its attempt is over.
GoesOn ==
  /\ SameCount(remote, remote') /\ remote'.routedMessages = remote.routedMessages
  /\ remote'.state = "IDLE" \/ SameWork(remote, remote')

\* The worker takes its work up.
TakesUp ==
  /\ SameCount(remote, remote') /\ remote'.routedMessages = remote.routedMessages
  /\ remote.state = "IDLE" /\ remote'.state = "IN_PROGRESS"
  /\ \/ /\ PendingWork(remote, rules, nextRulesId) = "APPLY_NEW_RULES" /\ remote'.work = NewRulesWork(remote)
     \/ /\ PendingWork(remote, rules, nextRulesId) = "REQUEST_NEW_SIGNALS" /\ remote'.work = NewSignalsWork(remote)

\* What the record counts changes in the one place where its signals have arrived.
RecordChange ==
  \/ remote' = NoCache
  \/ Begins
  \/ /\ remote \in Cache /\ remote' \in Cache
     /\ \/ GoesOn
        \/ TakesUp /\ session' \in {NoSession} \cup {s \in Session : s.phase = "joining" /\ s.chan = <<>>}
        \/ RouteSessionlessMessage /\ SameCount(remote, remote') /\ remote'.state = remote.state
           /\ remote'.work = remote.work
        \/ ProviderLeft /\ SameCount(Answered, remote') /\ remote'.state = "IDLE" /\ remote'.routedMessages = {}

\* ScheduleWork touches nothing but the alarm.
LEMMA ScheduleWorkKeeps ==
  ASSUME NEW c \in Cache, NEW rs, NEW next, ScheduleWork(c, rs, next) # NoCache
  PROVE  /\ SameWork(c, ScheduleWork(c, rs, next)) /\ ScheduleWork(c, rs, next).changeId = c.changeId
         /\ ScheduleWork(c, rs, next).ifaces = c.ifaces /\ ScheduleWork(c, rs, next) \in Cache
<1> DEFINE d == [c EXCEPT !.armed = TRUE]
<1>1. SameWork(c, d) /\ d.changeId = c.changeId /\ d.ifaces = c.ifaces /\ d \in Cache
  BY DEF SameWork, SameCount, Cache
<1>2. SameWork(c, c)
  BY DEF SameWork, SameCount
<1>3. ScheduleWork(c, rs, next) \in {c, d, NoCache}
  BY DEF ScheduleWork, Scheduled
<1> HIDE DEF d
<1> QED
  BY <1>1, <1>2, <1>3

\* Every step changes the record in one of these ways.
LEMMA RecordStep ==
  ASSUME TypeOK, AttemptInv, [Next]_vars
  PROVE  RecordChange
<1>1. ProviderOK /\ RulesOK /\ RemoteOK /\ BetweenOK /\ (remote = NoCache \/ remote \in Cache)
  BY TypeParts DEF RemoteOK
<1>2. remote' = NoCache \/ remote' \in Cache
  BY TypeStep, TypePartsPrime DEF RemoteOK
<1>3. ASSUME UNCHANGED remote PROVE RecordChange
  BY <1>1, <1>2, <1>3 DEF RecordChange, GoesOn, SameWork, SameCount
<1>4. ASSUME NEW r \in MatchRule, AddRule(r) PROVE RecordChange
  <2>1. remote' = ScheduleWork(remote, rules', nextRulesId')
    BY <1>4 DEF AddRule, SetRemote
  <2>2. CASE remote = NoCache
    BY <2>1, <2>2 DEF ScheduleWork, RecordChange
  <2>3. CASE remote \in Cache /\ remote' # NoCache
    <3>1. SameWork(remote, remote')
      BY <2>1, <2>3, ScheduleWorkKeeps
    <3> QED
      BY <1>2, <2>3, <3>1 DEF RecordChange, GoesOn, SameWork
  <2> QED
    BY <1>1, <2>2, <2>3 DEF RecordChange
<1>5. ASSUME NEW name \in air, FoundAdvertisedName(name) PROVE RecordChange
  <2>1. name \in Name /\ name.iface \in Iface /\ name.changeId \in Seqs
    BY <1>1 DEF BetweenOK, Name
  <2> DEFINE greater == IS_GREATER(name.changeId, remote.changeId)
             c == [remote EXCEPT !.ifaces = @ \union {name.iface},
                                 !.changeId = IF greater THEN name.changeId ELSE @,
                                 !.retries = IF greater THEN 0 ELSE @]
  <2>2. remote' = ScheduleWork(IF remote = NoCache THEN RemoteCache(name) ELSE c, rules, nextRulesId)
    BY <1>5 DEF FoundAdvertisedName, SetRemote
  <2>3. CASE remote = NoCache /\ remote' # NoCache
    <3>1. SameWork(RemoteCache(name), remote')
      BY <2>1, <2>2, <2>3, RemoteCacheType, ScheduleWorkKeeps
    <3> QED
      BY <2>3, <3>1 DEF SameWork, SameCount, RemoteCache, RecordChange, Begins
  <2>4. CASE remote \in Cache /\ remote' # NoCache
    <3> HIDE DEF greater
    <3>1. c \in Cache /\ SameWork(remote, c)
      BY <2>1, <2>4 DEF Cache, SameWork, SameCount
    <3>2. remote' = ScheduleWork(c, rules, nextRulesId)
      BY <2>2, <2>4
    <3> HIDE DEF c
    <3>3. SameWork(c, remote')
      BY <2>4, <3>1, <3>2, ScheduleWorkKeeps
    <3>4. SameWork(remote, remote')
      BY <3>1, <3>3 DEF SameWork, SameCount
    <3> QED
      BY <1>2, <2>4, <3>4 DEF RecordChange, GoesOn, SameWork
  <2> QED
    BY <1>1, <2>3, <2>4 DEF RecordChange
<1>6. ASSUME NEW ok \in BOOLEAN, AlarmTriggered(ok) PROVE RecordChange
  <2> DEFINE c == [remote EXCEPT !.armed = FALSE]
             work == PendingWork(remote, rules, nextRulesId)
             w == IF work = "APPLY_NEW_RULES" THEN NewRulesWork(c) ELSE NewSignalsWork(c)
             joining == [phase |-> "joining", from |-> 0, to |-> 0, rules |-> {},
                         pos |-> 0, erased |-> FALSE, chan |-> <<>>]
  <2>1. remote \in Cache /\ remote' \in Cache
    BY <1>6, TriggeredStep
  <2>2. c \in Cache /\ SameWork(remote, c)
    BY <2>1 DEF Cache, SameWork, SameCount
  <2>3. CASE remote.state = "IDLE" /\ work # "NONE"
    <3>1. remote' = [c EXCEPT !.state = "IN_PROGRESS", !.work = w]
      BY <1>6, <2>3 DEF AlarmTriggered
    <3>2. w = IF work = "APPLY_NEW_RULES" THEN NewRulesWork(remote) ELSE NewSignalsWork(remote)
      BY <2>1 DEF NewRulesWork, NewSignalsWork, Cache
    <3>3. work \in {"APPLY_NEW_RULES", "REQUEST_NEW_SIGNALS"}
      BY <2>3 DEF PendingWork
    <3>4. session' \in {NoSession, joining} /\ joining \in Session /\ joining.phase = "joining" /\ joining.chan = <<>>
      BY <1>6, <2>3, Offsets DEF AlarmTriggered, Session
    <3> HIDE DEF c, w, joining
    <3>5. SameCount(c, remote') /\ remote'.routedMessages = c.routedMessages /\ remote'.state = "IN_PROGRESS" /\ remote'.work = w
      BY <2>2, <3>1 DEF Cache, SameCount
    <3>6. SameCount(remote, remote') /\ remote'.routedMessages = remote.routedMessages
      BY <2>2, <3>5 DEF SameCount, SameWork
    <3>7. TakesUp
      BY <2>3, <3>2, <3>3, <3>5, <3>6 DEF TakesUp
    <3> QED
      BY <2>1, <3>4, <3>7 DEF RecordChange
  <2>4. CASE ~(remote.state = "IDLE" /\ work # "NONE")
    <3>1. remote' = c
      BY <1>6, <2>4 DEF AlarmTriggered
    <3> HIDE DEF c
    <3> QED
      BY <2>1, <2>2, <3>1 DEF RecordChange, GoesOn, SameWork
  <2> QED
    BY <2>3, <2>4
<1>7. ASSUME AlarmResumes PROVE RecordChange
  <2>1. CASE remote = NoCache
    BY <1>3, <1>7, <2>1, ResumesStep
  <2>2. CASE remote \in Cache
    <3>1. PICK n : remote' \in {remote, [remote EXCEPT !.retries = n],
                                [remote EXCEPT !.state = "IDLE", !.work = NoWork, !.armed = TRUE]}
      BY <1>7, <2>2 DEF AlarmResumes
    <3>2. GoesOn
      BY <2>2, <3>1 DEF Cache, GoesOn, SameWork, SameCount
    <3> QED
      BY <1>7, <2>2, <3>2, ResumesStep DEF RecordChange
  <2> QED
    BY <1>1, <2>1, <2>2
<1>8. ASSUME JoinFails \/ SessionLost PROVE RecordChange
  <2> DEFINE c == [remote EXCEPT !.state = "IDLE", !.work = NoWork]
             d == [c EXCEPT !.armed = TRUE]
  <2>1. remote \in Cache /\ remote' = Scheduled(c)
    BY <1>8, SessionHasRecord DEF JoinFails, SessionLost, Retry, SetRemote
  <2>2. Scheduled(c) \in {NoCache, c, d}
    BY DEF Scheduled
  <2>3. SameCount(remote, c) /\ c.routedMessages = remote.routedMessages /\ c.state = "IDLE"
    BY <2>1 DEF Cache, SameCount
  <2>4. SameCount(remote, d) /\ d.routedMessages = remote.routedMessages /\ d.state = "IDLE"
    BY <2>1 DEF Cache, SameCount
  <2> HIDE DEF c, d
  <2> QED
    BY <1>2, <2>1, <2>2, <2>3, <2>4 DEF RecordChange, GoesOn
<1>9. ASSUME RouteSessionlessMessage PROVE RecordChange
  <2>1. remote \in Cache
    BY <1>9, SessionHasRecord DEF RouteSessionlessMessage
  <2>2. PICK ms : remote' \in {remote, [remote EXCEPT !.routedMessages = ms]}
    BY <1>9 DEF RouteSessionlessMessage
  <2>3. SameCount(remote, remote') /\ remote'.state = remote.state /\ remote'.work = remote.work
    BY <2>1, <2>2 DEF Cache, SameCount
  <2> QED
    BY <1>2, <1>9, <2>1, <2>3, RouteStep DEF RecordChange
<1>10. ASSUME ProviderLeft PROVE RecordChange
  <2>1. remote \in Cache /\ Answered \in Cache /\ Answered.state = "IDLE"
    BY <1>10, SessionHasRecord, AnsweredType DEF ProviderLeft
  <2>2. remote' = ScheduleWork(Answered, rules, nextRulesId)
    BY <1>10 DEF ProviderLeft, Answered, SetRemote
  <2>3. Answered.routedMessages = {}
    BY <2>1 DEF Answered, Cache
  <2>4. CASE remote' # NoCache
    <3>1. SameWork(Answered, remote')
      BY <2>1, <2>2, <2>4, ScheduleWorkKeeps
    <3> QED
      BY <1>2, <1>10, <2>1, <2>3, <2>4, <3>1 DEF RecordChange, SameWork
  <2> QED
    BY <2>4 DEF RecordChange
<1>11. ASSUME \/ \E k \in Key : PushMessage(k) \/ CancelMessage(k)
              \/ \E s \in {SenderOf[k] : k \in Key} : SenderLeaves(s)
              \/ ProviderAlarm \/ OtherRequest \/ HandleRangeRequest \/ RangeRequestContinues
       PROVE  UNCHANGED remote
  BY <1>1, <1>11, ProviderStep, RangeRequestStep DEF RulesOK
<1>12. ASSUME \/ \E r \in MatchRule : RemoveRule(r)
              \/ \E ep \in {r.ep : r \in MatchRule} : EndpointLeaves(ep)
              \/ \E name \in air : NameMissed(name)
              \/ DiscoveryCall
              \/ JoinSessionCB
       PROVE  UNCHANGED remote
  BY <1>12, CallKeeps DEF RemoveRule, EndpointLeaves, SetRules, NameMissed, JoinSessionCB
<1>13. CASE Next
  BY <1>3, <1>4, <1>5, <1>6, <1>7, <1>8, <1>9, <1>10, <1>11, <1>12, <1>13 DEF Next, DiscoveryCall
<1> QED
  BY <1>3, <1>13 DEF vars

-----------------------------------------------------------------------------
(* The ids in use have been given out.                                  *)

\* Every id that is cached, advertised, in the air or in the record has been issued.
IssuedInv ==
  /\ \A k \in Cached : Issued(localCache[k].id) /\ localCache[k].key = k
  /\ \A i \in Iface : lastAdvertisements[i] # NotAdvertised => Issued(lastAdvertisements[i])
  /\ \A n \in air : Issued(n.changeId)
  /\ remote # NoCache => Issued(remote.changeId)

\* A name that is found is known to the record, which keeps the greater id.
LEMMA FoundKnows ==
  ASSUME TypeOK, NEW name \in air, FoundAdvertisedName(name), remote' # NoCache
  PROVE  /\ name.iface \in remote'.ifaces
         /\ remote = NoCache => remote'.changeId = name.changeId
         /\ remote # NoCache =>
               /\ remote.ifaces \subseteq remote'.ifaces
               /\ remote'.changeId = IF IS_GREATER(name.changeId, remote.changeId)
                                     THEN name.changeId ELSE remote.changeId
<1>1. RemoteOK /\ BetweenOK /\ (remote = NoCache \/ remote \in Cache)
  BY TypeParts DEF RemoteOK
<1>2. name \in Name /\ name.iface \in Iface /\ name.changeId \in Seqs
  BY <1>1 DEF BetweenOK, Name
<1> DEFINE greater == IS_GREATER(name.changeId, remote.changeId)
           c == [remote EXCEPT !.ifaces = @ \union {name.iface},
                               !.changeId = IF greater THEN name.changeId ELSE @,
                               !.retries = IF greater THEN 0 ELSE @]
<1>3. remote' = ScheduleWork(IF remote = NoCache THEN RemoteCache(name) ELSE c, rules, nextRulesId)
  BY DEF FoundAdvertisedName, SetRemote
<1>4. CASE remote = NoCache
  <2>1. /\ remote'.changeId = RemoteCache(name).changeId /\ remote'.ifaces = RemoteCache(name).ifaces
    BY <1>2, <1>3, <1>4, RemoteCacheType, ScheduleWorkKeeps
  <2> QED
    BY <1>4, <2>1 DEF RemoteCache
<1>5. CASE remote \in Cache
  <2>1. PICK g \in BOOLEAN : g = greater
    BY DEF IS_GREATER, IS_GREATER_OR_EQUAL, IN_WINDOW, IN_RANGE
  <2> HIDE DEF greater
  <2>2. c \in Cache /\ c.changeId = (IF greater THEN name.changeId ELSE remote.changeId)
        /\ c.ifaces = remote.ifaces \union {name.iface}
    BY <1>2, <1>5, <2>1 DEF Cache
  <2>3. remote' = ScheduleWork(c, rules, nextRulesId)
    BY <1>3, <1>5
  <2> HIDE DEF c
  <2>4. remote'.changeId = c.changeId /\ remote'.ifaces = c.ifaces
    BY <2>2, <2>3, ScheduleWorkKeeps
  <2> QED
    BY <1>5, <2>2, <2>4 DEF greater
<1> QED
  BY <1>1, <1>4, <1>5

\* Nothing else changes what the record knows of the advertisements.
LEMMA RecordKeeps ==
  ASSUME TypeOK, AttemptInv, [Next]_vars, remote' # NoCache
  PROVE  \/ remote # NoCache /\ remote'.changeId = remote.changeId /\ remote'.ifaces = remote.ifaces
         \/ \E name \in air : FoundAdvertisedName(name)
<1> DEFINE P == remote # NoCache /\ remote'.changeId = remote.changeId /\ remote'.ifaces = remote.ifaces
<1>1. ProviderOK /\ RulesOK /\ RemoteOK /\ BetweenOK /\ (remote = NoCache \/ remote \in Cache)
  BY TypeParts DEF RemoteOK
<1>2. ASSUME UNCHANGED remote PROVE P
  BY <1>2
<1>3. ASSUME NEW r \in MatchRule, AddRule(r) PROVE P
  <2>1. remote' = ScheduleWork(remote, rules', nextRulesId')
    BY <1>3 DEF AddRule, SetRemote
  <2>2. remote # NoCache
    BY <2>1 DEF ScheduleWork
  <2> QED
    BY <1>1, <2>1, <2>2, ScheduleWorkKeeps
<1>4. ASSUME NEW ok \in BOOLEAN, AlarmTriggered(ok) PROVE P
  <2>1. remote \in Cache
    BY <1>4, TriggeredStep
  <2> DEFINE c == [remote EXCEPT !.armed = FALSE]
  <2>2. PICK w : remote' \in {c, [c EXCEPT !.state = "IN_PROGRESS", !.work = w]}
    BY <1>4 DEF AlarmTriggered
  <2>3. c \in Cache /\ c.changeId = remote.changeId /\ c.ifaces = remote.ifaces
    BY <2>1 DEF Cache
  <2> HIDE DEF c
  <2>4. remote'.changeId = c.changeId /\ remote'.ifaces = c.ifaces
    BY <2>2, <2>3 DEF Cache
  <2> QED
    BY <2>1, <2>3, <2>4
<1>5. ASSUME AlarmResumes PROVE P
  <2>1. remote \in Cache
    BY <1>5, ResumesStep
  <2>2. PICK n : remote' \in {remote, [remote EXCEPT !.retries = n],
                              [remote EXCEPT !.state = "IDLE", !.work = NoWork, !.armed = TRUE]}
    BY <1>5 DEF AlarmResumes
  <2> QED
    BY <2>1, <2>2 DEF Cache
<1>6. ASSUME JoinFails \/ SessionLost PROVE P
  <2> DEFINE c == [remote EXCEPT !.state = "IDLE", !.work = NoWork]
  <2>1. remote \in Cache /\ remote' = Scheduled(c)
    BY <1>6, SessionHasRecord DEF JoinFails, SessionLost, Retry, SetRemote
  <2>2. Scheduled(c) \in {NoCache, c, [c EXCEPT !.armed = TRUE]}
    BY DEF Scheduled
  <2> QED
    BY <2>1, <2>2 DEF Cache
<1>7. ASSUME RouteSessionlessMessage PROVE P
  <2>1. remote \in Cache
    BY <1>7, SessionHasRecord DEF RouteSessionlessMessage
  <2>2. PICK ms : remote' \in {remote, [remote EXCEPT !.routedMessages = ms]}
    BY <1>7 DEF RouteSessionlessMessage
  <2> QED
    BY <2>1, <2>2 DEF Cache
<1>8. ASSUME ProviderLeft PROVE P
  <2>1. remote \in Cache /\ Answered \in Cache
    BY <1>8, SessionHasRecord, AnsweredType DEF ProviderLeft
  <2>2. remote' = ScheduleWork(Answered, rules, nextRulesId)
    BY <1>8 DEF ProviderLeft, Answered, SetRemote
  <2>3. Answered.changeId = remote.changeId /\ Answered.ifaces = remote.ifaces
    BY <2>1 DEF Answered, Cache
  <2> QED
    BY <2>1, <2>2, <2>3, ScheduleWorkKeeps
<1> DEFINE Provider == \/ \E k \in Key : PushMessage(k) \/ CancelMessage(k)
                       \/ \E s \in {SenderOf[k] : k \in Key} : SenderLeaves(s)
                       \/ ProviderAlarm \/ OtherRequest \/ HandleRangeRequest \/ RangeRequestContinues
           Consumer == \/ \E r \in MatchRule : RemoveRule(r)
                       \/ \E ep \in {r.ep : r \in MatchRule} : EndpointLeaves(ep)
                       \/ \E name \in air : NameMissed(name)
                       \/ DiscoveryCall
                       \/ JoinSessionCB
<1>9. ASSUME Provider PROVE UNCHANGED remote
  BY <1>1, <1>9, ProviderStep, RangeRequestStep DEF RulesOK
<1>10. ASSUME Consumer PROVE UNCHANGED remote
  BY <1>10, CallKeeps DEF RemoveRule, EndpointLeaves, SetRules, NameMissed, JoinSessionCB
<1> HIDE DEF P
<1>11. ASSUME Next PROVE P \/ \E name \in air : FoundAdvertisedName(name)
  <2>1. \/ Provider \/ Consumer
        \/ \E r \in MatchRule : AddRule(r)
        \/ \E name \in air : FoundAdvertisedName(name)
        \/ \E ok \in BOOLEAN : AlarmTriggered(ok)
        \/ AlarmResumes \/ JoinFails \/ SessionLost \/ RouteSessionlessMessage \/ ProviderLeft
    BY <1>11, Zenon DEF Next, DiscoveryCall
  <2> HIDE DEF Provider, Consumer
  <2>2. Provider \/ Consumer => UNCHANGED remote
    BY <1>9, <1>10
  <2> QED
    BY <2>1, <2>2, <1>2, <1>3, <1>4, <1>5, <1>6, <1>7, <1>8
<1>12. ASSUME UNCHANGED vars PROVE P
  BY <1>2, <1>12 DEF vars
<1> QED
  BY <1>11, <1>12 DEF P

\* The advertised id of the record is that of a name found.
LEMMA ChangeIdStep ==
  ASSUME TypeOK, AttemptInv, [Next]_vars, remote' # NoCache
  PROVE  \/ remote # NoCache /\ remote'.changeId = remote.changeId
         \/ \E n \in air : remote'.changeId = n.changeId
  BY RecordKeeps, FoundKnows

\* An interface is advertised with the id of a signal that is cached.
LEMMA AdvertisedIsCached ==
  ASSUME NEW cache \in [Key -> Msg \union {NoMsg}], NEW i \in Iface, Advertisements(cache)[i] # NotAdvertised
  PROVE  \E k \in Key : cache[k] # NoMsg /\ Advertisements(cache)[i] = cache[k].id
<1> DEFINE ids == {cache[k].id : k \in {j \in Key : cache[j] # NoMsg /\ i \in {Wild, IfaceOf[j]}}}
<1>1. ids \in SUBSET Seqs
  BY DEF Msg
<1>2. Advertisements(cache)[i] = IF ids = {} THEN NotAdvertised ELSE Max(ids)
  BY DEF Advertisements
<1>3. ids # {} => Max(ids) \in ids
  <2> HIDE DEF ids
  <2> QED
    BY <1>1, MaxIn
<1> QED
  BY <1>2, <1>3

\* What is advertised, and what is in the air, after a step.
LEMMA AirStep ==
  ASSUME TypeOK, [Next]_vars
  PROVE  \/ /\ UNCHANGED <<lastAdvertisements, curChangeId, advanceChangeId>>
            /\ \A n \in air' : n \in air \/ \E i \in Iface : n.changeId = lastAdvertisements[i] /\ lastAdvertisements[i] # NotAdvertised
         \/ UNCHANGED <<lastAdvertisements, air>>
         \/ /\ UNCHANGED <<curChangeId, advanceChangeId, pushed>>
            /\ \A i \in Iface : \/ lastAdvertisements'[i] \in {lastAdvertisements[i], NotAdvertised}
                                \/ \E k \in Cached : lastAdvertisements'[i] = localCache[k].id
            /\ \A n \in air' : n \in air \/ \E k \in Cached : n.changeId = localCache[k].id
<1> DEFINE P == \/ /\ UNCHANGED <<lastAdvertisements, curChangeId, advanceChangeId>>
                   /\ \A n \in air' : n \in air \/ \E i \in Iface : n.changeId = lastAdvertisements[i] /\ lastAdvertisements[i] # NotAdvertised
                \/ UNCHANGED <<lastAdvertisements, air>>
                \/ /\ UNCHANGED <<curChangeId, advanceChangeId, pushed>>
                   /\ \A i \in Iface : \/ lastAdvertisements'[i] \in {lastAdvertisements[i], NotAdvertised}
                                       \/ \E k \in Cached : lastAdvertisements'[i] = localCache[k].id
                   /\ \A n \in air' : n \in air \/ \E k \in Cached : n.changeId = localCache[k].id
<1>1. ProviderOK /\ RulesOK /\ RemoteOK /\ BetweenOK
  BY TypeParts
<1>2. ASSUME ProviderAlarm PROVE P
  <2>1. PICK gone \in MayExpire : localCache' = Without(gone) /\ UpdateAdvertisements(Without(gone))
    BY <1>2 DEF ProviderAlarm
  <2> DEFINE adv == Advertisements(Without(gone))
             new == {i \in Iface : adv[i] # NotAdvertised /\ NeedsAdvertisement(i, adv[i])}
  <2>2. Without(gone) \in [Key -> Msg \union {NoMsg}]
    BY <1>1, WithoutType
  <2>3. \A i \in Iface : adv[i] # NotAdvertised => \E k \in Cached : adv[i] = localCache[k].id
    <3> TAKE i \in Iface
    <3>1. adv[i] # NotAdvertised => \E k \in Key : Without(gone)[k] # NoMsg /\ adv[i] = Without(gone)[k].id
      BY <2>2, AdvertisedIsCached
    <3>2. \A k \in Key : Without(gone)[k] # NoMsg => k \in Cached /\ Without(gone)[k] = localCache[k]
      BY DEF Without, Cached
    <3> HIDE DEF adv
    <3> QED
      BY <3>1, <3>2
  <2>4. /\ lastAdvertisements' = [i \in Iface |->
                IF i \in new \/ adv[i] = NotAdvertised THEN adv[i] ELSE lastAdvertisements[i]]
        /\ air' = air \union {[iface |-> i, changeId |-> adv[i]] : i \in new \intersect discovering}
    BY <2>1 DEF UpdateAdvertisements
  <2>5. new \subseteq {i \in Iface : adv[i] # NotAdvertised}
    OBVIOUS
  <2>6. UNCHANGED <<curChangeId, advanceChangeId, pushed>>
    BY <1>2 DEF ProviderAlarm
  <2> HIDE DEF adv, new
  <2>7. \A i \in Iface : \/ lastAdvertisements'[i] \in {lastAdvertisements[i], NotAdvertised}
                         \/ \E k \in Cached : lastAdvertisements'[i] = localCache[k].id
    BY <2>3, <2>4, <2>5
  <2>8. \A n \in air' : n \in air \/ \E k \in Cached : n.changeId = localCache[k].id
    BY <2>3, <2>4, <2>5
  <2> QED
    BY <2>6, <2>7, <2>8
<1>3. ASSUME DiscoveryCall PROVE P
  <2>1. UNCHANGED <<lastAdvertisements, curChangeId, advanceChangeId>>
    BY <1>3, CallKeeps DEF provider
  <2>2. PICK i \in Iface : \/ air' = air
                           \/ /\ lastAdvertisements[i] # NotAdvertised
                              /\ air' = air \union {[iface |-> i, changeId |-> lastAdvertisements[i]]}
    BY <1>3 DEF DiscoveryCall, FindAdvertisementByTransport, CancelFindAdvertisementByTransport
  <2>3. \A n \in air' : n \in air \/ (n.changeId = lastAdvertisements[i] /\ lastAdvertisements[i] # NotAdvertised)
    BY <2>2
  <2> QED
    BY <2>1, <2>3
<1>4. ASSUME UNCHANGED <<lastAdvertisements, curChangeId, advanceChangeId>>, air' \subseteq air PROVE P
  BY <1>4
<1>5. ASSUME NEW name, FoundAdvertisedName(name) \/ NameMissed(name) PROVE P
  BY <1>4, <1>5 DEF FoundAdvertisedName, NameMissed, provider
<1>6. ASSUME \/ \E k \in Key : PushMessage(k) \/ CancelMessage(k)
             \/ \E s \in {SenderOf[k] : k \in Key} : SenderLeaves(s)
             \/ OtherRequest \/ HandleRangeRequest \/ RangeRequestContinues
      PROVE  UNCHANGED <<lastAdvertisements, air>>
  BY <1>6 DEF PushMessage, CancelMessage, SenderLeaves, OtherRequest, HandleRangeRequest, RangeRequestContinues
<1>7. ASSUME \/ \E r \in MatchRule : AddRule(r) \/ RemoveRule(r)
             \/ \E ep \in {r.ep : r \in MatchRule} : EndpointLeaves(ep)
             \/ \E ok \in BOOLEAN : AlarmTriggered(ok)
             \/ AlarmResumes \/ JoinSessionCB \/ JoinFails
             \/ RouteSessionlessMessage \/ ProviderLeft \/ SessionLost
      PROVE  UNCHANGED <<lastAdvertisements, air>>
  BY <1>7 DEF AddRule, RemoveRule, EndpointLeaves, SetRules, AlarmTriggered, AlarmResumes, JoinSessionCB, JoinFails,
              RouteSessionlessMessage, ProviderLeft, SessionLost, provider
<1>8. ASSUME UNCHANGED <<lastAdvertisements, air>> PROVE P
  BY <1>8
<1> HIDE DEF P
<1>9. ASSUME Next PROVE P
  BY <1>2, <1>3, <1>5, <1>6, <1>7, <1>8, <1>9 DEF Next, DiscoveryCall
<1>10. ASSUME UNCHANGED vars PROVE P
  BY <1>8, <1>10 DEF vars, provider
<1>11. P
  BY <1>9, <1>10
<1> QED
  BY <1>11 DEF P

\* The ids in use stay issued ones.
LEMMA IssuedStep ==
  ASSUME NoWrap, TypeOK, AttemptInv, CountInv, IssuedInv, [Next]_vars
  PROVE  IssuedInv'
<1>1. ProviderOK /\ BetweenOK /\ RemoteOK
  BY TypeParts
<1>2. CountStep /\ CacheStep
  BY ProviderCounts
<1>3. /\ \A k \in Cached : localCache[k].id \in Seqs
      /\ \A i \in Iface : lastAdvertisements[i] # NotAdvertised => lastAdvertisements[i] \in Seqs
      /\ \A n \in air : n.changeId \in Seqs
      /\ remote # NoCache => remote.changeId \in Seqs
  BY <1>1 DEF ProviderOK, BetweenOK, RemoteOK, Cached, Msg, Name, Cache
<1>4. ASSUME NEW k \in Key, localCache'[k] # NoMsg, NEW id, id = localCache'[k].id
      PROVE  Issued(id)' /\ localCache'[k].key = k
  <2>1. CASE localCache'[k] = localCache[k]
    <3>1. k \in Cached
      BY <1>4, <2>1 DEF Cached
    <3> QED
      BY <1>2, <1>3, <1>4, <2>1, <3>1 DEF IssuedInv, CountStep
  <2>2. CASE localCache'[k] # localCache[k]
    <3>1. localCache'[k] = [key |-> k, serial |-> pushed + 1, id |-> curChangeId]
      BY <1>2, <1>4, <2>2 DEF CacheStep
    <3>2. id = curChangeId /\ localCache'[k].key = k
      BY <1>4, <3>1
    <3>3. curChangeId' = curChangeId /\ advanceChangeId'
      BY <1>2, <1>4, <2>2, Zenon DEF CacheStep
    <3>4. Issued(id)'
      BY <3>2, <3>3, Zenon DEF Issued
    <3> QED
      BY <3>2, <3>4
  <2> QED
    BY <2>1, <2>2
<1>5. /\ \A id \in Seqs, i \in Iface : lastAdvertisements'[i] # NotAdvertised /\ id = lastAdvertisements'[i] => Issued(id)'
      /\ \A n \in air' : Issued(n.changeId)'
  BY <1>2, <1>3, AirStep DEF IssuedInv, CountStep
<1>6. ASSUME remote' # NoCache, NEW id, id = remote'.changeId PROVE Issued(id)'
  BY <1>2, <1>3, <1>6, ChangeIdStep DEF IssuedInv, CountStep
<1>7. ProviderOK'
  BY TypeStep, TypePartsPrime
<1> QED
  BY <1>4, <1>5, <1>6, <1>7 DEF IssuedInv, Issued, Cached, ProviderOK

-----------------------------------------------------------------------------
(* What the record counts, and its work.                                *)

\* What the record counts as received and applied has been given out.
ReceivedInv ==
  remote # NoCache =>
    /\ IF remote.haveReceived THEN remote.receivedChangeId < curChangeId
       ELSE remote.receivedChangeId = Largest
    /\ Rank(remote.appliedRulesId) <= nextRulesId

\* Work for the rules added since: the signals received so far.
AppliesRules ==
  /\ remote.haveReceived
  /\ remote.work.fromChangeId = Minus(remote.receivedChangeId, Half)
  /\ remote.work.toChangeId = Rank(remote.receivedChangeId)
  /\ remote.work.fromRulesId = Rank(remote.appliedRulesId)

\* Work for the signals advertised since: all rules, none of which is newer than the applied ones.
RequestsSignals ==
  /\ remote.work.fromChangeId = Rank(remote.receivedChangeId)
  /\ remote.work.fromChangeId < remote.work.toChangeId /\ Issued(Minus(remote.work.toChangeId, 1))
  /\ remote.work.fromRulesId = Minus(remote.appliedRulesId, Half)
  /\ remote.haveReceived => remote.work.toRulesId = Rank(remote.appliedRulesId)

\* The work of an attempt.
WorkInv ==
  remote # NoCache /\ remote.state = "IN_PROGRESS" =>
    /\ Rank(remote.appliedRulesId) <= remote.work.toRulesId /\ remote.work.toRulesId <= nextRulesId
    /\ AppliesRules \/ RequestsSignals

\* The request of a session that was served is behind the id of the signals sent since.
BehindInv ==
  session # NoSession /\ session.phase \in {"serving", "left"} => remote.work.toChangeId <= curChangeId

CounterInv == CountInv /\ RulesInv /\ IssuedInv /\ ReceivedInv

\* The counters have not gone half way round, so that their ids are near.
LEMMA NearIds ==
  ASSUME NoWrap, TypeOK, CounterInv
  PROVE  /\ \A id \in Seqs : Issued(id) => id \in Near /\ id # Largest /\ Rank(id) = id + 1 /\ id <= pushed
         /\ Minus(nextRulesId, 1) \in Near /\ Rank(Minus(nextRulesId, 1)) = nextRulesId
         /\ remote # NoCache => /\ remote.receivedChangeId \in Near /\ remote.appliedRulesId \in Near
                                /\ remote.changeId \in Near
         /\ remote # NoCache /\ remote.haveReceived =>
                /\ remote.receivedChangeId # Largest
                /\ Rank(remote.receivedChangeId) = remote.receivedChangeId + 1
<1>1. /\ ProviderOK /\ RulesOK /\ CountInv /\ RulesInv /\ IssuedInv /\ ReceivedInv
      /\ (remote = NoCache \/ remote \in Cache)
  BY TypeParts DEF RemoteOK, CounterInv
<1>2. curChangeId \in Nat /\ pushed \in Nat /\ curChangeId <= pushed /\ pushed <= MaxPush /\ nextRulesId \in Seqs
  BY <1>1 DEF ProviderOK, RulesOK, CountInv, Seqs
<1>3. MaxPush + 1 < Half /\ MaxRules + 1 < Half
  BY DEF NoWrap
<1>4. ASSUME NEW id \in Seqs, id <= pushed PROVE id \in Near /\ id # Largest /\ Rank(id) = id + 1
  <2>1. id < Half /\ id # Largest
    BY <1>2, <1>3, <1>4, BoundsType, HalfWay DEF Seqs, Largest
  <2> QED
    BY <1>2, <1>3, <1>4, <2>1, BoundsType, HalfWay, RankOf DEF Near, Seqs
<1>5. \A id \in Seqs : Issued(id) => id <= pushed
  BY <1>2 DEF Issued, Seqs
<1>6. Minus(nextRulesId, 1) \in Near /\ Rank(Minus(nextRulesId, 1)) = nextRulesId
  <2>1. Minus(nextRulesId, 1) \in Seqs /\ Rank(Minus(nextRulesId, 1)) = nextRulesId
    BY <1>2, RankOf, MinusType, Offsets
  <2>2. nextRulesId < Half
    BY <1>1, <1>2, <1>3, BoundsType, HalfWay DEF RulesInv, Seqs
  <2> QED
    BY <2>1, <2>2 DEF Near
<1>7. ASSUME remote # NoCache
      PROVE  /\ remote.receivedChangeId \in Near /\ remote.appliedRulesId \in Near /\ remote.changeId \in Near
             /\ remote.haveReceived => /\ remote.receivedChangeId # Largest
                                       /\ Rank(remote.receivedChangeId) = remote.receivedChangeId + 1
  <2>1. remote.receivedChangeId \in Seqs /\ remote.appliedRulesId \in Seqs /\ remote.changeId \in Seqs
    BY <1>1, <1>7 DEF Cache
  <2>2. Largest \in Near
    BY Offsets, RankOf, <1>3, BoundsType, HalfWay DEF Near
  <2>3. remote.changeId \in Near
    BY <1>1, <1>4, <1>5, <1>7, <2>1 DEF IssuedInv
  <2>4. Rank(remote.appliedRulesId) <= nextRulesId /\ nextRulesId <= MaxRules
    BY <1>1, <1>7 DEF ReceivedInv, RulesInv
  <2>5. remote.appliedRulesId \in Near
    <3>1. Rank(remote.appliedRulesId) \in Seqs
      BY <2>1, RankOf
    <3> QED
      BY <1>2, <1>3, <2>1, <2>4, <3>1, BoundsType, HalfWay DEF Near, Seqs
  <2>6. CASE remote.haveReceived
    <3>1. remote.receivedChangeId < curChangeId
      BY <1>1, <1>7, <2>6 DEF ReceivedInv
    <3>2. remote.receivedChangeId <= pushed
      BY <1>2, <2>1, <3>1 DEF Seqs
    <3> QED
      BY <1>4, <2>1, <2>3, <2>5, <3>2
  <2>7. CASE ~remote.haveReceived
    <3>1. remote.receivedChangeId = Largest
      BY <1>1, <1>7, <2>7 DEF ReceivedInv
    <3> QED
      BY <2>2, <2>3, <2>5, <2>7, <3>1
  <2> QED
    BY <2>6, <2>7
<1> QED
  BY <1>4, <1>5, <1>6, <1>7

\* When everything asked for has arrived, what was asked for counts as received and applied.
LEMMA AnsweredCounts ==
  ASSUME NoWrap, TypeOK, AttemptInv, CounterInv, WorkInv, BehindInv, ProviderLeft
  PROVE  /\ Answered.haveReceived = TRUE
         /\ Rank(Answered.receivedChangeId) = remote.work.toChangeId
         /\ Rank(Answered.appliedRulesId) = remote.work.toRulesId
         /\ Answered.receivedChangeId < curChangeId /\ Answered.receivedChangeId # Largest
<1>1. /\ remote \in Cache /\ remote.work \in Work /\ remote.state = "IN_PROGRESS" /\ remote # NoCache
      /\ remote.work.toChangeId <= curChangeId
  BY SessionHasRecord DEF ProviderLeft, BehindInv
<1> DEFINE c == Minus(remote.work.toChangeId, 1)
           r == Minus(remote.work.toRulesId, 1)
<1>2. /\ remote.receivedChangeId \in Near /\ remote.appliedRulesId \in Near
      /\ remote.haveReceived => Rank(remote.receivedChangeId) = remote.receivedChangeId + 1
  BY <1>1, NearIds
<1>3. /\ remote.work.toChangeId \in Seqs /\ remote.work.toRulesId \in Seqs
      /\ remote.receivedChangeId \in Seqs /\ remote.appliedRulesId \in Seqs
      /\ remote.haveReceived \in BOOLEAN
  BY <1>1 DEF Cache, Work
<1>4. c \in Seqs /\ Rank(c) = remote.work.toChangeId /\ r \in Seqs /\ Rank(r) = remote.work.toRulesId
  BY <1>3, MinusType, Offsets, RankOf
<1>5. /\ curChangeId \in Nat /\ curChangeId <= pushed /\ pushed <= MaxPush /\ pushed \in Nat
      /\ nextRulesId <= MaxRules /\ nextRulesId \in Nat
      /\ MaxPush + 1 < Half /\ MaxRules + 1 < Half
  BY TypeParts DEF ProviderOK, RulesOK, CounterInv, CountInv, RulesInv, NoWrap, Seqs
<1>6. Rank(remote.appliedRulesId) <= remote.work.toRulesId /\ remote.work.toRulesId <= nextRulesId
      /\ (AppliesRules \/ RequestsSignals)
  BY <1>1 DEF WorkInv
<1>7. c \in Near /\ r \in Near
  BY <1>1, <1>3, <1>4, <1>5, <1>6, BoundsType, HalfWay DEF Near, Seqs
<1>8. /\ Rank(remote.receivedChangeId) <= remote.work.toChangeId /\ 0 < remote.work.toChangeId
      /\ remote.haveReceived \/ Rank(remote.receivedChangeId) < remote.work.toChangeId
  <2>1. Rank(remote.receivedChangeId) \in Nat /\ remote.work.toChangeId \in Nat /\ remote.receivedChangeId \in Nat
    BY <1>3, RankOf DEF Seqs
  <2> QED
    BY <1>2, <1>6, <2>1 DEF AppliesRules, RequestsSignals
<1>9. IS_GREATER(c, remote.receivedChangeId) <=> Rank(c) > Rank(remote.receivedChangeId)
  BY <1>2, <1>7, GreaterIsRank
<1>10. IS_GREATER(r, remote.appliedRulesId) <=> Rank(r) > Rank(remote.appliedRulesId)
  BY <1>2, <1>7, GreaterIsRank
<1>11. /\ Answered.haveReceived = (remote.haveReceived \/ IS_GREATER(c, remote.receivedChangeId))
       /\ Answered.receivedChangeId = IF IS_GREATER(c, remote.receivedChangeId) THEN c ELSE remote.receivedChangeId
       /\ Answered.appliedRulesId = IF IS_GREATER(r, remote.appliedRulesId) THEN r ELSE remote.appliedRulesId
  <2>1. Answered = [remote EXCEPT !.state = "IDLE", !.work = NoWork, !.retries = 0, !.routedMessages = {},
                       !.appliedRulesId = IF IS_GREATER(r, remote.appliedRulesId) THEN r ELSE remote.appliedRulesId,
                       !.haveReceived = remote.haveReceived \/ IS_GREATER(c, remote.receivedChangeId),
                       !.receivedChangeId = IF IS_GREATER(c, remote.receivedChangeId) THEN c ELSE remote.receivedChangeId]
    BY Zenon DEF Answered
  <2> HIDE DEF c, r
  <2>2. PICK a, h, q :
          /\ Answered = [remote EXCEPT !.state = "IDLE", !.work = NoWork, !.retries = 0, !.routedMessages = {},
                                       !.appliedRulesId = a, !.haveReceived = h, !.receivedChangeId = q]
          /\ h = (remote.haveReceived \/ IS_GREATER(c, remote.receivedChangeId))
          /\ q = IF IS_GREATER(c, remote.receivedChangeId) THEN c ELSE remote.receivedChangeId
          /\ a = IF IS_GREATER(r, remote.appliedRulesId) THEN r ELSE remote.appliedRulesId
    BY <2>1, Zenon
  <2>3. Answered.haveReceived = h /\ Answered.receivedChangeId = q /\ Answered.appliedRulesId = a
    BY <1>1, <2>2 DEF Cache
  <2> QED
    BY <2>2, <2>3
<1> HIDE DEF c, r
<1>12. /\ Rank(remote.receivedChangeId) \in Nat /\ remote.work.toChangeId \in Nat
       /\ Rank(remote.appliedRulesId) \in Nat /\ remote.work.toRulesId \in Nat
  BY <1>3, RankOf DEF Seqs
<1>13. Rank(Answered.receivedChangeId) = remote.work.toChangeId
  BY <1>4, <1>8, <1>9, <1>11, <1>12
<1>14. Rank(Answered.appliedRulesId) = remote.work.toRulesId
  BY <1>4, <1>6, <1>10, <1>11, <1>12
<1>15. Answered.haveReceived = TRUE
  BY <1>3, <1>4, <1>8, <1>9, <1>11
<1>16. Answered.receivedChangeId \in Seqs
  BY <1>3, <1>4, <1>11
<1>17. Answered.receivedChangeId < curChangeId /\ Answered.receivedChangeId # Largest
  BY <1>1, <1>5, <1>8, <1>12, <1>13, <1>16, RankOf DEF Seqs
<1> QED
  BY <1>13, <1>14, <1>15, <1>17

\* How the attempt changes.
SessionChange ==
  \/ session' = NoSession
  \/ session' \in Session /\ session'.phase = "joining" /\ session'.chan = <<>>
  \/ UNCHANGED session
  \/ JoinSessionCB \/ HandleRangeRequest \/ RangeRequestContinues \/ RouteSessionlessMessage

\* Every step changes the attempt in one of these ways.
LEMMA SessionChanges ==
  ASSUME TypeOK, [Next]_vars
  PROVE  SessionChange
<1>1. ProviderOK /\ RulesOK /\ BetweenOK
  BY TypeParts
<1>2. ASSUME NEW ok, AlarmTriggered(ok) PROVE SessionChange
  <2> DEFINE joining == [phase |-> "joining", from |-> 0, to |-> 0, rules |-> {},
                         pos |-> 0, erased |-> FALSE, chan |-> <<>>]
  <2>1. session' \in {session, NoSession, joining}
    BY <1>2 DEF AlarmTriggered
  <2>2. joining \in Session /\ joining.phase = "joining" /\ joining.chan = <<>>
    BY Offsets DEF Session
  <2> HIDE DEF joining
  <2> QED
    BY <2>1, <2>2 DEF SessionChange
<1>3. ASSUME \/ \E k \in Key : PushMessage(k) \/ CancelMessage(k)
             \/ \E s \in {SenderOf[k] : k \in Key} : SenderLeaves(s)
             \/ ProviderAlarm \/ OtherRequest
      PROVE  UNCHANGED session
  BY <1>1, <1>3, ProviderStep DEF RulesOK
<1>4. ASSUME \/ \E r \in MatchRule : AddRule(r) \/ RemoveRule(r)
             \/ \E ep \in {r.ep : r \in MatchRule} : EndpointLeaves(ep)
             \/ \E name \in air : FoundAdvertisedName(name) \/ NameMissed(name)
             \/ DiscoveryCall
             \/ AlarmResumes
      PROVE  UNCHANGED session
  BY <1>4, CallKeeps DEF AddRule, RemoveRule, EndpointLeaves, SetRules, FoundAdvertisedName, NameMissed, AlarmResumes
<1>5. ASSUME JoinFails \/ ProviderLeft \/ SessionLost PROVE session' = NoSession
  BY <1>5 DEF JoinFails, ProviderLeft, SessionLost
<1>6. CASE UNCHANGED vars
  BY <1>6 DEF vars, SessionChange
<1>7. CASE Next
  BY <1>2, <1>3, <1>4, <1>5, <1>7 DEF Next, DiscoveryCall, SessionChange
<1> QED
  BY <1>6, <1>7

\* While an attempt lasts its record counts what it counted and has the same work.
LEMMA AttemptKeepsWork ==
  ASSUME TypeOK, AttemptInv, [Next]_vars, session # NoSession, session' # NoSession
  PROVE  /\ SameCount(remote, remote') /\ remote'.work = remote.work
         /\ remote \in Cache /\ remote' \in Cache /\ remote.work \in Work
         /\ remote.state = "IN_PROGRESS" /\ remote'.state = "IN_PROGRESS"
<1>1. remote \in Cache /\ remote.state = "IN_PROGRESS" /\ remote # NoCache /\ remote.work \in Work
  BY SessionHasRecord
<1>2. TypeOK' /\ AttemptInv'
  BY TypeStep
<1>3. remote' # NoCache /\ remote'.state = "IN_PROGRESS"
  BY <1>2 DEF AttemptInv, InProgressIsAttempt
<1>4. RecordChange
  BY RecordStep
<1> QED
  BY <1>1, <1>3, <1>4 DEF RecordChange, Begins, GoesOn, TakesUp, SameWork

\* What is received and applied stays given out.
LEMMA ReceivedStep ==
  ASSUME NoWrap, TypeOK, AttemptInv, CounterInv, WorkInv, BehindInv, [Next]_vars
  PROVE  ReceivedInv'
<1>1. /\ CountStep /\ RulesChange /\ RecordChange /\ curChangeId \in Nat /\ nextRulesId \in Nat
      /\ (remote = NoCache \/ remote \in Cache)
  BY ProviderCounts, RulesCount, RecordStep, TypeParts DEF CounterInv, ProviderOK, RulesOK, RemoteOK, Seqs
<1>2. curChangeId' \in Nat /\ nextRulesId' \in Nat
  BY TypeStep, TypePartsPrime DEF ProviderOK, RulesOK, Seqs
<1>3. curChangeId <= curChangeId' /\ nextRulesId <= nextRulesId'
  BY <1>1 DEF CountStep, RulesChange
<1>4. SUFFICES ASSUME remote' # NoCache PROVE ReceivedInv'
  BY DEF ReceivedInv
<1>5. CASE Begins
  <2>1. Rank(Largest) = 0
    BY Offsets, RankOf
  <2> QED
    BY <1>2, <1>5, <2>1 DEF Begins, ReceivedInv
<1>6. CASE remote \in Cache /\ SameCount(remote, remote')
  <2>1. remote.receivedChangeId \in Nat /\ Rank(remote.appliedRulesId) \in Nat
    BY <1>6, RankOf DEF Cache, Seqs
  <2>2. /\ IF remote.haveReceived THEN remote.receivedChangeId < curChangeId ELSE remote.receivedChangeId = Largest
        /\ Rank(remote.appliedRulesId) <= nextRulesId
    BY <1>6 DEF CounterInv, ReceivedInv
  <2> QED
    BY <1>1, <1>2, <1>3, <1>6, <2>1, <2>2 DEF SameCount, ReceivedInv
<1>7. CASE ProviderLeft /\ SameCount(Answered, remote')
  <2>1. /\ Answered.haveReceived = TRUE /\ Answered.receivedChangeId < curChangeId
        /\ Rank(Answered.appliedRulesId) = remote.work.toRulesId
    BY <1>7, AnsweredCounts
  <2>2. remote.work.toRulesId <= nextRulesId /\ remote.work.toRulesId \in Nat
    BY <1>7, SessionHasRecord DEF ProviderLeft, WorkInv, Work, Seqs
  <2>3. UNCHANGED <<curChangeId, nextRulesId>>
    BY <1>7 DEF ProviderLeft, provider, ruleVars, discovery
  <2> QED
    BY <1>7, <2>1, <2>2, <2>3 DEF SameCount, ReceivedInv
<1> QED
  BY <1>1, <1>4, <1>5, <1>6, <1>7 DEF RecordChange, GoesOn, TakesUp

\* The work of a record stays of one of the two kinds.
LEMMA WorkStep ==
  ASSUME NoWrap, TypeOK, AttemptInv, CounterInv, WorkInv, [Next]_vars
  PROVE  WorkInv'
<1>1. /\ CountStep /\ RulesChange /\ RecordChange /\ nextRulesId \in Nat
      /\ (remote = NoCache \/ remote \in Cache)
  BY ProviderCounts, RulesCount, RecordStep, TypeParts DEF CounterInv, RulesOK, RemoteOK, Seqs
<1>2. nextRulesId' \in Nat /\ nextRulesId <= nextRulesId'
  BY <1>1, TypeStep, TypePartsPrime DEF RulesOK, Seqs, RulesChange
<1>3. SUFFICES ASSUME remote' # NoCache, remote'.state = "IN_PROGRESS" PROVE WorkInv'
  BY DEF WorkInv
<1>4. remote \in Cache /\ remote # NoCache /\ SameCount(remote, remote')
      /\ (TakesUp \/ (remote.state = "IN_PROGRESS" /\ remote'.work = remote.work))
  BY <1>1, <1>3 DEF RecordChange, Begins, GoesOn, SameWork, TakesUp
<1>5. CASE remote.state = "IN_PROGRESS" /\ remote'.work = remote.work
  <2>1. PICK id \in Seqs : id = Minus(remote.work.toChangeId, 1)
    BY <1>4, MinusType, Offsets DEF Cache, Work
  <2>2. Issued(id) => Issued(id)'
    BY <1>1 DEF CountStep
  <2>3. remote.work.toRulesId \in Nat
    BY <1>4 DEF Cache, Work, Seqs
  <2>4. /\ Rank(remote.appliedRulesId) <= remote.work.toRulesId /\ remote.work.toRulesId <= nextRulesId
        /\ (AppliesRules \/ RequestsSignals)
    BY <1>4, <1>5 DEF WorkInv
  <2>5. AppliesRules => AppliesRules'
    BY <1>4, <1>5 DEF AppliesRules, SameCount
  <2>6. RequestsSignals => RequestsSignals'
    BY <1>4, <1>5, <2>1, <2>2 DEF RequestsSignals, SameCount, Issued
  <2>7. Rank(remote'.appliedRulesId) <= remote'.work.toRulesId /\ remote'.work.toRulesId <= nextRulesId'
    BY <1>1, <1>2, <1>4, <1>5, <2>3, <2>4 DEF SameCount
  <2> QED
    BY <2>4, <2>5, <2>6, <2>7 DEF WorkInv
<1>6. CASE TakesUp
  <2>1. /\ remote.receivedChangeId \in Near /\ remote.appliedRulesId \in Near /\ remote.changeId \in Near
        /\ Minus(nextRulesId, 1) \in Near /\ Rank(Minus(nextRulesId, 1)) = nextRulesId
        /\ remote.receivedChangeId \in Seqs /\ remote.appliedRulesId \in Seqs /\ remote.changeId \in Seqs
    BY <1>4, NearIds DEF Near
  <2>2. Rank(remote.appliedRulesId) <= nextRulesId /\ Rank(remote.appliedRulesId) \in Nat
        /\ Issued(remote.changeId)
    BY <1>4, <2>1, RankOf DEF CounterInv, ReceivedInv, IssuedInv, Seqs
  <2>3. CASE /\ PendingWork(remote, rules, nextRulesId) = "APPLY_NEW_RULES"
             /\ remote'.work = NewRulesWork(remote)
    <3>1. remote.haveReceived
      BY <2>3 DEF PendingWork
    <3>2. AppliesRules' /\ remote'.work.toRulesId = nextRulesId
      BY <1>4, <2>3, <3>1 DEF NewRulesWork, AppliesRules, SameCount, Rank
    <3> QED
      BY <1>2, <1>4, <2>2, <3>2 DEF WorkInv, SameCount
  <2>4. CASE /\ PendingWork(remote, rules, nextRulesId) = "REQUEST_NEW_SIGNALS"
             /\ remote'.work = NewSignalsWork(remote)
    <3>1. /\ ~(remote.haveReceived /\ IS_GREATER(Minus(nextRulesId, 1), remote.appliedRulesId))
          /\ IS_GREATER(remote.changeId, remote.receivedChangeId)
      BY <2>4 DEF PendingWork
    <3>2. Rank(remote.receivedChangeId) < Rank(remote.changeId)
      BY <2>1, <3>1, GreaterIsRank
    <3>3. remote.haveReceived => Rank(remote.appliedRulesId) = nextRulesId
      <4>1. remote.haveReceived => ~(nextRulesId > Rank(remote.appliedRulesId))
        BY <2>1, <3>1, GreaterIsRank
      <4> QED
        BY <1>1, <2>2, <4>1
    <3>4. PICK id \in Seqs : id = remote.changeId
      BY <2>1
    <3>5. Issued(id)' /\ Minus(Rank(id), 1) = id
      BY <1>1, <2>2, <3>4, RankOf DEF CountStep
    <3>6. /\ remote'.work.fromChangeId = Rank(remote.receivedChangeId)
          /\ remote'.work.toChangeId = Rank(id)
          /\ remote'.work.fromRulesId = Minus(remote.appliedRulesId, Half)
          /\ remote'.work.toRulesId = nextRulesId
      BY <2>4, <3>4 DEF NewSignalsWork, Rank
    <3>7. Minus(remote'.work.toChangeId, 1) = id
      BY <3>5, <3>6
    <3>8. RequestsSignals'
      BY <1>4, <3>2, <3>3, <3>4, <3>5, <3>6, <3>7 DEF RequestsSignals, SameCount, Issued
    <3> QED
      BY <1>2, <1>4, <2>2, <3>6, <3>8 DEF WorkInv, SameCount
  <2> QED
    BY <1>6, <2>3, <2>4 DEF TakesUp
<1> QED
  BY <1>4, <1>5, <1>6

\* A served request stays behind the signals sent since.
LEMMA BehindStep ==
  ASSUME NoWrap, TypeOK, AttemptInv, CounterInv, WorkInv, BehindInv, [Next]_vars
  PROVE  BehindInv'
<1>1. SUFFICES ASSUME session' # NoSession, session'.phase \in {"serving", "left"}
               PROVE  remote'.work.toChangeId <= curChangeId'
  BY DEF BehindInv
<1>2. CountStep /\ SessionChange /\ ProviderOK /\ CountInv /\ curChangeId \in Nat
  BY ProviderCounts, SessionChanges, TypeParts DEF CounterInv, ProviderOK, Seqs
<1>3. curChangeId' \in Nat /\ curChangeId <= curChangeId'
  BY <1>2, TypeStep, TypePartsPrime DEF ProviderOK, CountStep, Seqs
<1>4. session # NoSession /\ session'.phase # "joining"
  BY <1>1, <1>2 DEF SessionChange, HandleRangeRequest, RangeRequestContinues, JoinSessionCB, RouteSessionlessMessage
<1>5. session \in Session /\ remote \in Cache /\ remote.work \in Work /\ remote.state = "IN_PROGRESS" /\ remote # NoCache
      /\ remote'.work = remote.work
  BY <1>1, <1>4, SessionHasRecord, AttemptKeepsWork
<1>6. remote.work.toChangeId \in Nat
  BY <1>5 DEF Work, Seqs
<1>7. ASSUME session.phase \in {"serving", "left"} PROVE remote.work.toChangeId <= curChangeId'
  BY <1>2, <1>3, <1>4, <1>6, <1>7 DEF BehindInv
<1>8. CASE HandleRangeRequest
  <2>1. \A id \in Seqs : Issued(id) => id < curChangeId'
    BY <1>2, <1>8, AdvanceStep DEF HandleRangeRequest
  <2>2. AppliesRules \/ RequestsSignals
    BY <1>5 DEF WorkInv
  <2>3. CASE AppliesRules
    <3>1. remote.receivedChangeId < curChangeId /\ Rank(remote.receivedChangeId) = remote.receivedChangeId + 1
          /\ remote.receivedChangeId \in Nat
      BY <1>5, <2>3, NearIds DEF CounterInv, ReceivedInv, AppliesRules, Cache, Seqs
    <3> QED
      BY <1>2, <1>3, <1>5, <2>3, <3>1 DEF AppliesRules
  <2>4. CASE RequestsSignals
    <3>1. PICK id \in Seqs : id = Minus(remote.work.toChangeId, 1)
      BY <1>5, MinusType, Offsets DEF Work
    <3>2. id < curChangeId'
      BY <2>1, <2>4, <3>1 DEF RequestsSignals
    <3>3. remote.work.toChangeId = Rank(id) /\ Rank(id) <= id + 1
      <4>1. remote.work.toChangeId = Rank(id) /\ (Rank(id) = 0 \/ Rank(id) = id + 1)
        BY <1>5, <3>1, RankOf DEF Work
      <4> QED
        BY <4>1 DEF Seqs
    <3> QED
      BY <1>3, <1>5, <1>6, <3>2, <3>3 DEF Seqs
  <2> QED
    BY <2>2, <2>3, <2>4
<1>9. CASE UNCHANGED session \/ RangeRequestContinues
  BY <1>1, <1>5, <1>7, <1>9 DEF RangeRequestContinues
<1>10. CASE RouteSessionlessMessage
  <2>1. session' = [session EXCEPT !.chan = Tail(@)]
    BY <1>10 DEF RouteSessionlessMessage
  <2>2. session'.phase = session.phase
    BY <1>5, <2>1 DEF Session
  <2> QED
    BY <1>1, <1>5, <1>7, <2>2
<1>11. CASE JoinSessionCB
  <2>1. PICK f, t, rs : session' = [session EXCEPT !.phase = "asked", !.from = f, !.to = t, !.rules = rs]
    BY <1>11 DEF JoinSessionCB
  <2>2. session'.phase = "asked"
    BY <1>5, <2>1 DEF Session
  <2> QED
    BY <1>1, <2>2
<1> QED
  BY <1>1, <1>2, <1>4, <1>8, <1>9, <1>10, <1>11 DEF SessionChange

-----------------------------------------------------------------------------
(* What was asked for, served, and given.                               *)

\* The signals a session has sent that have not arrived.
Elements(s) == {s[i] : i \in DOMAIN s}
UnderWay == Elements(session.chan)

\* The rules and the ids an attempt asks for.
AskedRuleId(id) == InRange(remote.work.fromRulesId, remote.work.toRulesId, id)
AskedRules == RulesIn(rules, remote.work.fromRulesId, remote.work.toRulesId)
AskedId(id) == InRange(remote.work.fromChangeId, remote.work.toChangeId, id)

\* A rule was given the cached signal of a key, or missed it in the way the code logs.
Given(k, r) == <<localCache[k].serial, r>> \in hist.delivered \union hist.missed

\* A request asks for the work of its record.
RequestInv ==
  session # NoSession =>
    /\ session.phase \in {"joining", "asked"} => session.chan = <<>>
    /\ session.phase # "joining" => /\ session.from = remote.work.fromChangeId
                                    /\ session.to = remote.work.toChangeId
                                    /\ AskedRules \subseteq session.rules

\* The part of a request that was served has arrived or is under way.
ServedInv ==
  session # NoSession /\ session.phase \in {"serving", "left"} =>
    \A k \in Cached : \A r \in AskedRules :
        Matches(r, k) /\ AskedId(localCache[k].id) /\ (session.phase = "left" \/ k < session.pos)
        => localCache[k] \in UnderWay \/ Given(k, r)

\* CaughtUp in the order of the ids.
CountedGiven ==
  remote # NoCache /\ remote.haveReceived =>
    \A k \in Cached : \A r \in Live(rules) :
        /\ Matches(r, k)
        /\ localCache[k].id < Rank(remote.receivedChangeId)
        /\ rules[r].id < Rank(remote.appliedRulesId)
        => Given(k, r)

\* What an attempt asks for is older than the counters it was made from, and together with what
\* the record counts already it is all of that.
LEMMA AskedMeans ==
  ASSUME NoWrap, TypeOK, AttemptInv, CounterInv, WorkInv, session # NoSession
  PROVE  /\ \A id \in Seqs : id <= nextRulesId /\ AskedRuleId(id) => id < remote.work.toRulesId
         /\ \A id \in Seqs : id <= curChangeId /\ AskedId(id) => id < remote.work.toChangeId
         /\ \A id \in Seqs, q \in Seqs :
               id < remote.work.toChangeId /\ id <= curChangeId /\ q < remote.work.toRulesId
               => \/ AskedId(id) /\ AskedRuleId(q)
                  \/ /\ remote.haveReceived /\ id < Rank(remote.receivedChangeId)
                     /\ q < Rank(remote.appliedRulesId)
         /\ \A id \in Seqs, q \in Seqs :
               id <= curChangeId /\ AskedId(id) /\ q <= nextRulesId /\ AskedRuleId(q)
               => Rank(remote.receivedChangeId) <= id \/ Rank(remote.appliedRulesId) <= q
<1>1. remote \in Cache /\ remote # NoCache /\ remote.state = "IN_PROGRESS" /\ remote.work \in Work
      /\ ReceivedInv /\ RulesInv /\ CountInv
  BY SessionHasRecord DEF CounterInv
<1> DEFINE fc == remote.work.fromChangeId
           tc == remote.work.toChangeId
           fr == remote.work.fromRulesId
           tr == remote.work.toRulesId
           rc == Rank(remote.receivedChangeId)
           ra == Rank(remote.appliedRulesId)
<1>2. fc \in Seqs /\ tc \in Seqs /\ fr \in Seqs /\ tr \in Seqs /\ rc \in Seqs /\ ra \in Seqs
      /\ remote.receivedChangeId \in Seqs /\ remote.appliedRulesId \in Seqs
  BY <1>1, RankOf DEF Work, Cache
<1>3. remote.receivedChangeId \in Near /\ remote.appliedRulesId \in Near
  BY <1>1, NearIds
<1>4. /\ curChangeId \in Seqs /\ nextRulesId \in Seqs
      /\ curChangeId <= MaxPush /\ nextRulesId <= MaxRules
  BY <1>1, TypeParts, BoundsType DEF ProviderOK, RulesOK, RulesInv, CountInv, Seqs
<1>5. /\ ra <= tr /\ tr <= nextRulesId
      /\ AppliesRules \/ RequestsSignals
  BY <1>1 DEF WorkInv
<1>6. \A id \in Seqs : id <= curChangeId \/ id <= nextRulesId => id \in Near /\ id # Largest
  <2> TAKE id \in Seqs
  <2>1. id <= curChangeId \/ id <= nextRulesId => id + 1 < Half
    BY <1>4, BoundsType, HalfWay DEF NoWrap, Seqs
  <2>2. id + 1 < Half => id # Largest
    BY HalfWay DEF Largest, Seqs
  <2> QED
    BY <2>1, <2>2, RankOf DEF Near
<1>7. tr < Half /\ rc < Half
  BY <1>2, <1>3, <1>4, <1>5, BoundsType, HalfWay DEF NoWrap, Near, Seqs
<1>8. remote.haveReceived \/ rc = 0
  BY <1>1, <1>2, RankOf DEF ReceivedInv
<1>9. CASE AppliesRules
  <2>1. fr = ra /\ tc = rc /\ fc = Minus(remote.receivedChangeId, Half) /\ remote.haveReceived
    BY <1>9 DEF AppliesRules
  <2>2. \A q \in Seqs : AskedRuleId(q) <=> ra <= q /\ q < tr
    <3> TAKE q \in Seqs
    <3>1. AskedRuleId(q) <=> \/ fr < tr /\ fr <= q /\ q < tr
                             \/ tr < fr /\ (fr <= q \/ q < tr)
      BY <1>2, RangeOf DEF AskedRuleId
    <3> QED
      BY <1>2, <1>5, <2>1, <3>1 DEF Seqs
  <2>3. \A id \in Seqs : id <= curChangeId => (AskedId(id) <=> id < tc)
    BY <1>2, <1>3, <1>6, <1>7, <2>1, RangeBelow DEF AskedId
  <2>4. \A id \in Seqs : id \in Nat
    BY DEF Seqs
  <2> QED
    BY <1>2, <2>1, <2>2, <2>3, <2>4 DEF Seqs
<1>10. CASE RequestsSignals
  <2>1. fc = rc /\ fc < tc /\ fr = Minus(remote.appliedRulesId, Half) /\ (remote.haveReceived => tr = ra)
    BY <1>10 DEF RequestsSignals
  <2>2. \A id \in Seqs : AskedId(id) <=> rc <= id /\ id < tc
    <3> TAKE id \in Seqs
    <3>1. AskedId(id) <=> \/ fc < tc /\ fc <= id /\ id < tc
                          \/ tc < fc /\ (fc <= id \/ id < tc)
      BY <1>2, RangeOf DEF AskedId
    <3> QED
      BY <1>2, <2>1, <3>1 DEF Seqs
  <2>3. \A q \in Seqs : q <= nextRulesId => (AskedRuleId(q) <=> q < tr)
    BY <1>2, <1>3, <1>6, <1>7, <2>1, RangeBelow DEF AskedRuleId
  <2>4. \A q \in Seqs : q < tr => q <= nextRulesId
    BY <1>2, <1>4, <1>5 DEF Seqs
  <2>5. \A id \in Seqs : id < rc => remote.haveReceived
    BY <1>8 DEF Seqs
  <2>6. \A id \in Seqs : id < rc \/ rc <= id
    BY <1>2 DEF Seqs
  <2> QED
    BY <2>1, <2>2, <2>3, <2>4, <2>5, <2>6
<1> QED
  BY <1>5, <1>9, <1>10

\* What has been given to a rule stays given while the rule and the record are there, and more is
\* given in one place.
HistChange ==
  \/ remote' = NoCache /\ hist'.delivered = {} /\ hist'.twice = {} /\ hist'.gaveUp = TRUE
  \/ RouteSessionlessMessage
  \/ /\ hist'.delivered \subseteq hist.delivered /\ hist'.twice \subseteq hist.twice
     /\ hist.forgotten \subseteq hist'.forgotten /\ hist'.gaveUp = hist.gaveUp
     /\ \A p \in hist.delivered \union hist.missed :
            p[2] \in Live(rules) => p \in hist'.delivered \union hist'.missed

\* Every step changes the history in one of these ways.
LEMMA HistStep ==
  ASSUME TypeOK, AttemptInv, [Next]_vars
  PROVE  HistChange
<1>1. ProviderOK /\ RulesOK /\ RemoteOK /\ BetweenOK /\ hist \in History
  BY TypeParts DEF RemoteOK
<1>2. ASSUME NEW c, NEW h, SetRemote(c, h) PROVE hist' = h \/ (remote' = NoCache /\ hist' = NoHistory(TRUE))
  BY <1>2 DEF SetRemote
<1>3. ASSUME hist' = hist PROVE HistChange
  BY <1>3 DEF HistChange
<1>4. ASSUME remote' = NoCache, hist' = NoHistory(TRUE) PROVE HistChange
  BY <1>4 DEF HistChange, NoHistory
<1>5. ASSUME NEW r \in MatchRule, AddRule(r) PROVE HistChange
  <2> DEFINE isNewRule == rules[r].copies = 0
             Fresh(pairs) == IF isNewRule THEN {p \in pairs : p[2] # r} ELSE pairs
             h == [hist EXCEPT !.delivered = Fresh(@), !.twice = Fresh(@), !.missed = Fresh(@)]
  <2>1. hist' = h \/ (remote' = NoCache /\ hist' = NoHistory(TRUE))
    BY <1>5 DEF AddRule, SetRemote
  <2>2. isNewRule => r \notin Live(rules)
    BY DEF Live
  <2>3. \A pairs : Fresh(pairs) \subseteq pairs /\ \A p \in pairs : p[2] \in Live(rules) => p \in Fresh(pairs)
    BY <2>2
  <2> HIDE DEF isNewRule, Fresh
  <2>4. h.delivered = Fresh(hist.delivered) /\ h.twice = Fresh(hist.twice) /\ h.missed = Fresh(hist.missed)
        /\ h.forgotten = hist.forgotten /\ h.gaveUp = hist.gaveUp
    BY <1>1 DEF History
  <2> HIDE DEF h
  <2>5. CASE hist' = h
    BY <2>3, <2>4, <2>5 DEF HistChange
  <2> QED
    BY <1>4, <2>1, <2>5
<1>6. ASSUME NEW name \in air, FoundAdvertisedName(name) PROVE HistChange
  BY <1>3, <1>4, <1>6 DEF FoundAdvertisedName, SetRemote
<1>7. ASSUME JoinFails \/ SessionLost PROVE HistChange
  BY <1>3, <1>4, <1>7 DEF JoinFails, SessionLost, Retry, SetRemote
<1>8. ASSUME ProviderLeft PROVE HistChange
  <2>1. PICK f : hist' = [hist EXCEPT !.forgotten = hist.forgotten \union f]
                 \/ (remote' = NoCache /\ hist' = NoHistory(TRUE))
    BY <1>8 DEF ProviderLeft, SetRemote
  <2>2. CASE hist' = [hist EXCEPT !.forgotten = hist.forgotten \union f]
    <3>1. hist'.delivered = hist.delivered /\ hist'.twice = hist.twice /\ hist'.missed = hist.missed
          /\ hist'.forgotten = hist.forgotten \union f /\ hist'.gaveUp = hist.gaveUp
      BY <1>1, <2>2 DEF History
    <3> QED
      BY <3>1 DEF HistChange
  <2> QED
    BY <1>4, <2>1, <2>2
<1>9. ASSUME \/ \E k \in Key : PushMessage(k) \/ CancelMessage(k)
             \/ \E s \in {SenderOf[k] : k \in Key} : SenderLeaves(s)
             \/ ProviderAlarm \/ OtherRequest \/ HandleRangeRequest \/ RangeRequestContinues
      PROVE  HistChange
  <2>1. UNCHANGED hist
    BY <1>1, <1>9, ProviderStep, RangeRequestStep DEF RulesOK
  <2> QED
    BY <1>3, <2>1
<1>10. ASSUME \/ \E r \in MatchRule : RemoveRule(r)
              \/ \E ep \in {r.ep : r \in MatchRule} : EndpointLeaves(ep)
              \/ \E name \in air : NameMissed(name)
              \/ DiscoveryCall
              \/ \E ok \in BOOLEAN : AlarmTriggered(ok)
              \/ AlarmResumes \/ JoinSessionCB
       PROVE  UNCHANGED hist
  BY <1>10, CallKeeps DEF RemoveRule, EndpointLeaves, SetRules, NameMissed, AlarmTriggered, AlarmResumes, JoinSessionCB
<1>11. ASSUME RouteSessionlessMessage PROVE HistChange
  BY <1>11 DEF HistChange
<1>12. ASSUME NEW r \in MatchRule, AddRule(r) \/ RemoveRule(r)
       PROVE  HistChange
  BY <1>3, <1>5, <1>10, <1>12
<1>13. ASSUME NEW name \in air, FoundAdvertisedName(name) \/ NameMissed(name)
       PROVE  HistChange
  BY <1>3, <1>6, <1>10, <1>13
<1>14. ASSUME \/ \E ep \in {r.ep : r \in MatchRule} : EndpointLeaves(ep)
              \/ DiscoveryCall
              \/ \E ok \in BOOLEAN : AlarmTriggered(ok)
              \/ AlarmResumes \/ JoinSessionCB
       PROVE  HistChange
  BY <1>3, <1>10, <1>14
<1>15. ASSUME Next PROVE HistChange
  BY <1>7, <1>8, <1>9, <1>11, <1>12, <1>13, <1>14, <1>15 DEF Next, DiscoveryCall
<1> QED
  BY <1>3, <1>15 DEF vars

\* RouteSessionlessMessage: the signal at the head is given to the rules it matches.
LEMMA RouteGives ==
  ASSUME TypeOK, AttemptInv, RouteSessionlessMessage
  PROVE  /\ session.chan \in Seq(Msg) /\ session.chan # <<>> /\ Head(session.chan) \in Msg
         /\ session' = [session EXCEPT !.chan = Tail(session.chan)]
         /\ hist.delivered \subseteq hist'.delivered /\ hist.missed \subseteq hist'.missed
         /\ hist'.forgotten = hist.forgotten /\ hist'.gaveUp = hist.gaveUp
         /\ \A r \in AskedRules : Matches(r, Head(session.chan).key)
               => <<Head(session.chan).serial, r>> \in hist'.delivered \union hist'.missed
         /\ \A p \in hist'.delivered \ hist.delivered :
               /\ \E r \in AskedRules : p = <<Head(session.chan).serial, r>>
               /\ Head(session.chan) \in remote'.routedMessages
         /\ \A p \in hist'.twice \ hist.twice :
               /\ p \in hist.delivered /\ Head(session.chan) \notin remote.routedMessages
               /\ \E r \in AskedRules : p = <<Head(session.chan).serial, r>>
         /\ remote.routedMessages \subseteq remote'.routedMessages
         /\ remote'.routedMessages \subseteq remote.routedMessages \union {Head(session.chan)}
         /\ UNCHANGED <<provider, ruleVars>>
<1>1. session \in Session /\ remote \in Cache /\ hist \in History /\ session.chan # <<>>
  BY SessionHasRecord, TypeParts DEF RouteSessionlessMessage, RemoteOK
<1>2. session.chan \in Seq(Msg)
  BY <1>1 DEF Session
<1>3. PICK msg : msg = Head(session.chan) /\ msg \in Msg
  BY <1>1, <1>2
<1> DEFINE P == {<<msg.serial, r>> : r \in {s \in AskedRules : Matches(s, msg.key)}}
<1>4. PICK pairs : pairs = P
  OBVIOUS
<1>5. /\ session' = [session EXCEPT !.chan = Tail(session.chan)]
      /\ UNCHANGED <<provider, ruleVars>>
      /\ IF msg \in remote.routedMessages
         THEN hist' = [hist EXCEPT !.missed = @ \union (pairs \ hist.delivered)] /\ remote' = remote
         ELSE /\ remote' = [remote EXCEPT !.routedMessages = @ \union {msg}]
              /\ hist' = [hist EXCEPT !.delivered = @ \union pairs,
                                      !.twice = @ \union (pairs \intersect hist.delivered)]
  BY <1>3, <1>4 DEF RouteSessionlessMessage, AlreadyRouted, AskedRules
<1>6. \A r \in AskedRules : Matches(r, msg.key) => <<msg.serial, r>> \in pairs
  BY <1>4
<1>7. \A p \in pairs : \E r \in AskedRules : p = <<msg.serial, r>>
  BY <1>4
<1> HIDE DEF P
<1>8. CASE msg \in remote.routedMessages
  <2>1. /\ hist'.delivered = hist.delivered /\ hist'.twice = hist.twice /\ hist'.forgotten = hist.forgotten
        /\ hist'.missed = hist.missed \union (pairs \ hist.delivered) /\ hist'.gaveUp = hist.gaveUp
        /\ remote' = remote
    BY <1>1, <1>5, <1>8 DEF History
  <2> QED
    BY <1>1, <1>2, <1>3, <1>5, <1>6, <1>7, <2>1
<1>9. CASE msg \notin remote.routedMessages
  <2>1. /\ hist'.delivered = hist.delivered \union pairs /\ hist'.forgotten = hist.forgotten
        /\ hist'.twice = hist.twice \union (pairs \intersect hist.delivered)
        /\ hist'.missed = hist.missed /\ hist'.gaveUp = hist.gaveUp
    BY <1>1, <1>5, <1>9 DEF History
  <2>2. remote'.routedMessages = remote.routedMessages \union {msg}
    BY <1>1, <1>5, <1>9 DEF Cache
  <2> QED
    BY <1>1, <1>2, <1>3, <1>5, <1>6, <1>7, <1>9, <2>1, <2>2
<1> QED
  BY <1>8, <1>9

-----------------------------------------------------------------------------
(* Serving and arriving.                                                *)

\* The signals of a channel with one more of them at its end, or without the one at its head.
LEMMA ChannelElements ==
  ASSUME NEW S, NEW s \in Seq(S)
  PROVE  /\ \A m \in S : Elements(Append(s, m)) = Elements(s) \union {m}
         /\ s # <<>> => Elements(s) = Elements(Tail(s)) \union {Head(s)}
<1>1. ASSUME NEW m \in S
      PROVE  Elements(Append(s, m)) = Elements(s) \union {m}
  <2>1. /\ DOMAIN s = 1 .. Len(s) /\ DOMAIN Append(s, m) = 1 .. Len(s) + 1 /\ Len(s) \in Nat
        /\ \A i \in 1 .. Len(s) : Append(s, m)[i] = s[i]
        /\ Append(s, m)[Len(s) + 1] = m
    OBVIOUS
  <2>2. PICK n \in Nat : n = Len(s)
    BY <2>1
  <2>3. 1 .. n + 1 = (1 .. n) \union {n + 1}
    OBVIOUS
  <2> QED
    BY <2>1, <2>2, <2>3 DEF Elements
<1>2. ASSUME s # <<>>
      PROVE  Elements(s) = Elements(Tail(s)) \union {Head(s)}
  <2>1. PICK n \in Nat : n + 1 = Len(s)
    <3>1. Len(s) \in Nat \ {0}
      BY <1>2
    <3> QED
      BY <3>1
  <2>2. /\ DOMAIN s = 1 .. n + 1 /\ DOMAIN Tail(s) = 1 .. n /\ Head(s) = s[1]
        /\ \A i \in 1 .. n : Tail(s)[i] = s[i + 1]
    BY <1>2, <2>1
  <2>3. \A i \in 1 .. n + 1 : i = 1 \/ \E j \in 1 .. n : i = j + 1
    <3> TAKE i \in 1 .. n + 1
    <3>1. i # 1 => i - 1 \in 1 .. n /\ i = (i - 1) + 1
      OBVIOUS
    <3> QED
      BY <3>1
  <2>4. \A j \in 1 .. n : j + 1 \in 1 .. n + 1
    OBVIOUS
  <2>5. 1 \in 1 .. n + 1
    OBVIOUS
  <2>6. ASSUME NEW x \in Elements(s) PROVE x \in Elements(Tail(s)) \union {Head(s)}
    <3>1. PICK i \in 1 .. n + 1 : x = s[i]
      BY <2>2, <2>6 DEF Elements
    <3>2. CASE i = 1
      BY <2>2, <3>1, <3>2
    <3>3. ASSUME NEW j \in 1 .. n, i = j + 1 PROVE x \in Elements(Tail(s))
      BY <2>2, <3>1, <3>3 DEF Elements
    <3> QED
      BY <2>3, <3>2, <3>3
  <2>7. ASSUME NEW x \in Elements(Tail(s)) \union {Head(s)} PROVE x \in Elements(s)
    BY <2>2, <2>4, <2>5, <2>7 DEF Elements
  <2> QED
    BY <2>6, <2>7
<1> QED
  BY <1>1, <1>2

\* Serve sends, or has sent, every signal it goes past that the request matches.
LEMMA ServeSends ==
  ASSUME ProviderOK, session \in Session, NEW pos \in Nat, Serve(pos)
  PROVE  /\ session' \in Session /\ session'.phase \in {"serving", "left"}
         /\ session'.from = session.from /\ session'.to = session.to /\ session'.rules = session.rules
         /\ UnderWay \subseteq UnderWay'
         /\ \A m \in UnderWay' : m \in UnderWay \/ \E k \in Cached :
                m = localCache[k] /\ InRange(session.from, session.to, localCache[k].id)
         /\ \A k \in Key : localCache'[k] # NoMsg => localCache'[k] = localCache[k]
         /\ \A k \in Cached' : \A r \in session.rules :
               /\ Matches(r, k) /\ InRange(session.from, session.to, localCache'[k].id)
               /\ pos <= k /\ (session'.phase = "left" \/ k < session'.pos)
               => localCache'[k] \in UnderWay'
<1> DEFINE due == {k \in Cached : k >= pos /\ InRange(session.from, session.to, localCache[k].id)}
           hits == {k \in due : session.rules = {} \/ \E r \in session.rules : Matches(r, k)}
<1>1. PICK gone \in SUBSET (Ttl \intersect due) :
          /\ localCache' = Without(gone)
          /\ IF hits \ gone # {}
             THEN session' = [session EXCEPT !.phase = "serving", !.pos = Min(hits \ gone) + 1,
                                             !.erased = @ \/ gone # {},
                                             !.chan = Append(@, localCache[Min(hits \ gone)])]
             ELSE session' = [session EXCEPT !.phase = "left"]
  BY DEF Serve
<1>2. session.chan \in Seq(Msg) /\ Key \subseteq Nat /\ localCache \in [Key -> Msg \union {NoMsg}]
  BY DEF Session, ProviderOK
<1>3. \A k \in Key : localCache'[k] # NoMsg => localCache'[k] = localCache[k] /\ k \in Cached /\ k \notin gone
  BY <1>1 DEF Without, Cached
<1>4. \A k \in Cached' : \A r \in session.rules :
          Matches(r, k) /\ InRange(session.from, session.to, localCache'[k].id) /\ pos <= k
          => k \in hits \ gone /\ localCache'[k] = localCache[k]
  <2> TAKE k \in Cached'
  <2> TAKE r \in session.rules
  <2>1. k \in Key /\ k \in Nat /\ localCache'[k] = localCache[k] /\ k \in Cached /\ k \notin gone
    BY <1>2, <1>3 DEF Cached
  <2> QED
    BY <2>1
<1>5. hits \ gone \subseteq Cached /\ hits \ gone \in SUBSET Nat
  BY <1>2 DEF Cached
<1>6. \A k \in hits \ gone : InRange(session.from, session.to, localCache[k].id)
  OBVIOUS
<1>7. PICK hg : hg = hits \ gone
  OBVIOUS
<1> HIDE DEF due, hits
<1>8. CASE hg # {}
  <2>1. PICK k0 \in hg : k0 = Min(hg) /\ \A j \in hg : k0 <= j
    <3>1. PICK i \in hg : \A j \in hg : i <= j
      BY <1>5, <1>7, <1>8, SmallestExists
    <3>2. Min(hg) \in hg /\ \A j \in hg : Min(hg) <= j
      BY <3>1 DEF Min
    <3> QED
      BY <3>2
  <2>2. k0 \in Cached /\ k0 \in Key /\ k0 \in Nat /\ localCache[k0] \in Msg
    BY <1>2, <1>5, <1>7 DEF Cached
  <2>3. Append(session.chan, localCache[k0]) \in Seq(Msg)
    BY <1>2, <2>2
  <2>4. PICK next \in Nat, e \in BOOLEAN, chan \in Seq(Msg) :
           /\ session' = [session EXCEPT !.phase = "serving", !.pos = next, !.erased = e, !.chan = chan]
           /\ next = k0 + 1 /\ chan = Append(session.chan, localCache[k0])
    <3>1. (session.erased \/ gone # {}) \in BOOLEAN /\ k0 + 1 \in Nat
      BY <2>2 DEF Session
    <3>2. session' = [session EXCEPT !.phase = "serving", !.pos = k0 + 1,
                                     !.erased = session.erased \/ gone # {},
                                     !.chan = Append(session.chan, localCache[k0])]
      BY <1>1, <1>7, <1>8, <2>1
    <3> QED
      BY <2>3, <3>1, <3>2, Zenon
  <2>5. /\ session' \in Session /\ session'.phase = "serving" /\ session'.pos = k0 + 1
        /\ session'.from = session.from /\ session'.to = session.to /\ session'.rules = session.rules
        /\ session'.chan = Append(session.chan, localCache[k0])
    BY <2>4 DEF Session
  <2>6. UnderWay' = UnderWay \union {localCache[k0]}
    <3>1. UnderWay' = Elements(Append(session.chan, localCache[k0]))
      BY <2>5 DEF UnderWay, Elements
    <3>2. Elements(Append(session.chan, localCache[k0])) = Elements(session.chan) \union {localCache[k0]}
      BY <1>2, <2>2, ChannelElements
    <3> QED
      BY <3>1, <3>2 DEF UnderWay
  <2>7. \A k \in Nat : k < k0 + 1 /\ k0 <= k => k = k0
    BY <2>2
  <2>8. \A k \in hg : k < k0 + 1 => k = k0
    BY <1>5, <1>7, <2>1, <2>7
  <2>9. \A k \in Cached' : \A r \in session.rules :
           /\ Matches(r, k) /\ InRange(session.from, session.to, localCache'[k].id)
           /\ pos <= k /\ (session'.phase = "left" \/ k < session'.pos)
           => localCache'[k] \in UnderWay'
    BY <1>4, <1>7, <2>5, <2>6, <2>8
  <2> QED
    BY <1>3, <1>6, <1>7, <2>2, <2>5, <2>6, <2>9
<1>9. CASE hg = {}
  <2>1. session' = [session EXCEPT !.phase = "left"]
    BY <1>1, <1>7, <1>9
  <2>2. /\ session' \in Session /\ session'.phase = "left"
        /\ session'.from = session.from /\ session'.to = session.to /\ session'.rules = session.rules
        /\ session'.chan = session.chan
    BY <2>1 DEF Session
  <2> QED
    BY <1>3, <1>4, <1>7, <1>9, <2>2 DEF UnderWay
<1> QED
  BY <1>8, <1>9

\* While an attempt lasts no rule is added that it asks for.
LEMMA AskedRulesStep ==
  ASSUME NoWrap, TypeOK, AttemptInv, CounterInv, WorkInv, [Next]_vars, session # NoSession, session' # NoSession
  PROVE  /\ AskedRules' \subseteq AskedRules
         /\ \A r \in AskedRules' : r \in Live(rules) /\ rules'[r].id = rules[r].id
         /\ remote'.work = remote.work
<1>1. remote'.work = remote.work /\ RulesChange
  BY AttemptKeepsWork, RulesCount DEF CounterInv
<1>2. nextRulesId \in Seqs /\ remote.work.toRulesId \in Seqs /\ rules' \in [MatchRule -> [copies : 0 .. MaxSame, id : Seqs]]
  BY SessionHasRecord, TypeParts, TypeStep, TypePartsPrime DEF RulesOK, Work
<1>3. ~AskedRuleId(nextRulesId)
  <2>1. remote.work.toRulesId <= nextRulesId
    BY SessionHasRecord DEF WorkInv
  <2> QED
    BY <1>2, <2>1, AskedMeans DEF Seqs
<1>4. ASSUME NEW r \in AskedRules' PROVE r \in AskedRules /\ r \in Live(rules) /\ rules'[r].id = rules[r].id
  <2>1. r \in Live(rules') /\ InRange(remote.work.fromRulesId, remote.work.toRulesId, rules'[r].id)
    BY <1>1, <1>4 DEF AskedRules, RulesIn
  <2>2. rules'[r].id # nextRulesId
    BY <1>3, <2>1 DEF AskedRuleId
  <2>3. r \in Live(rules) /\ rules'[r].id = rules[r].id
    BY <1>1, <2>1, <2>2 DEF RulesChange
  <2> QED
    BY <2>1, <2>3 DEF AskedRules, RulesIn
<1> QED
  BY <1>1, <1>4

\* A session serves from where it was, or from the first key.
LEMMA ServesFrom ==
  ASSUME TypeOK, HandleRangeRequest \/ RangeRequestContinues
  PROVE  /\ session \in Session /\ session # NoSession
         /\ UNCHANGED <<rules, nextRulesId, remote, hist, pushed>>
         /\ \/ session.phase = "asked" /\ Serve(0)
            \/ session.phase = "serving" /\ session.pos \in Nat /\ Serve(session.pos)
<1>1. session \in Session /\ session # NoSession
  BY TypeParts DEF BetweenOK, HandleRangeRequest, RangeRequestContinues
<1> QED
  BY <1>1 DEF HandleRangeRequest, RangeRequestContinues, ruleVars, discovery, Session

\* The request is made when the session is joined, from the work of the record.
LEMMA RequestStep ==
  ASSUME NoWrap, TypeOK, AttemptInv, CounterInv, WorkInv, RequestInv, [Next]_vars
  PROVE  RequestInv'
<1>1. SUFFICES ASSUME session' # NoSession PROVE RequestInv'
  BY DEF RequestInv
<1>2. SessionChange /\ ProviderOK
  BY SessionChanges, TypeParts
<1>3. CASE session'.phase = "joining" /\ session'.chan = <<>>
  BY <1>1, <1>3 DEF RequestInv
<1>4. ASSUME session # NoSession
      PROVE  /\ session \in Session /\ remote'.work = remote.work /\ AskedRules' \subseteq AskedRules
             /\ session.phase \in {"joining", "asked"} => session.chan = <<>>
             /\ session.phase # "joining" => /\ session.from = remote.work.fromChangeId
                                             /\ session.to = remote.work.toChangeId
                                             /\ AskedRules \subseteq session.rules
  BY <1>1, <1>4, AskedRulesStep, SessionHasRecord DEF RequestInv
<1>5. CASE UNCHANGED session
  BY <1>1, <1>4, <1>5 DEF RequestInv
<1>6. CASE JoinSessionCB
  <2>1. session' = [session EXCEPT !.phase = "asked", !.from = remote.work.fromChangeId,
                                   !.to = remote.work.toChangeId, !.rules = AskedRules]
        /\ session # NoSession /\ session.phase = "joining"
    BY <1>6 DEF JoinSessionCB, AskedRules
  <2>2. session'.phase = "asked" /\ session'.from = remote.work.fromChangeId
        /\ session'.to = remote.work.toChangeId /\ session'.rules = AskedRules /\ session'.chan = session.chan
    BY <1>4, <2>1 DEF Session
  <2> QED
    BY <1>4, <2>1, <2>2 DEF RequestInv
<1>7. CASE HandleRangeRequest \/ RangeRequestContinues
  <2>1. session # NoSession /\ session.phase # "joining"
    BY <1>7, ServesFrom
  <2>2. /\ session'.phase \in {"serving", "left"}
        /\ session'.from = session.from /\ session'.to = session.to /\ session'.rules = session.rules
    <3>1. 0 \in Nat
      OBVIOUS
    <3> QED
      BY <1>2, <1>7, <3>1, ServesFrom, ServeSends
  <2> QED
    BY <1>4, <2>1, <2>2 DEF RequestInv
<1>8. CASE RouteSessionlessMessage
  <2>1. session # NoSession /\ session.chan # <<>> /\ session' = [session EXCEPT !.chan = Tail(session.chan)]
    BY <1>8, RouteGives DEF RouteSessionlessMessage
  <2>2. session'.phase = session.phase /\ session'.from = session.from /\ session'.to = session.to
        /\ session'.rules = session.rules
    BY <1>4, <2>1 DEF Session
  <2> QED
    BY <1>4, <2>1, <2>2 DEF RequestInv
<1> QED
  BY <1>1, <1>2, <1>3, <1>5, <1>6, <1>7, <1>8 DEF SessionChange

\* A cached signal was cached before, or has the current id and the next serial.
LEMMA OldOrNew ==
  ASSUME CacheStep, NEW k \in Key, localCache'[k] # NoMsg
  PROVE  \/ localCache'[k] = localCache[k]
         \/ /\ localCache'[k].id = curChangeId /\ localCache'[k].serial = pushed + 1
            /\ pushed' = pushed + 1
<1>1. CASE localCache'[k] = localCache[k]
  BY <1>1
<1>2. CASE localCache'[k] = [key |-> k, serial |-> pushed + 1, id |-> curChangeId] /\ pushed' = pushed + 1
  <2>1. PICK i, n : i = curChangeId /\ n = pushed + 1
    OBVIOUS
  <2>2. PICK m : m = localCache'[k]
    OBVIOUS
  <2>3. m = [key |-> k, serial |-> n, id |-> i]
    BY <1>2, <2>1, <2>2
  <2>4. m.id = i /\ m.serial = n
    BY <2>3
  <2> QED
    BY <1>2, <2>1, <2>2, <2>4
<1> QED
  BY <1>1, <1>2, Zenon DEF CacheStep

\* What was given to a rule of before, for a signal of before, is still given.
LEMMA GivenStays ==
  ASSUME TypeOK, AttemptInv, [Next]_vars, remote' # NoCache,
         NEW k \in Cached, NEW r \in Live(rules), localCache'[k] = localCache[k], Given(k, r)
  PROVE  Given(k, r)'
<1> DEFINE p == <<localCache[k].serial, r>>
<1>1. p \in hist.delivered \union hist.missed /\ p[2] = r
  BY DEF Given
<1>2. Given(k, r)' <=> p \in hist'.delivered \union hist'.missed
  BY DEF Given
<1> HIDE DEF p
<1>3. CASE RouteSessionlessMessage
  BY <1>1, <1>2, <1>3, RouteGives
<1> QED
  BY <1>1, <1>2, <1>3, HistStep DEF HistChange

\* Serving goes on: what is sent stays under way until it is given to the rules it was asked for.
LEMMA ServedStep ==
  ASSUME NoWrap, TypeOK, AttemptInv, CounterInv, WorkInv, BehindInv, RequestInv, ServedInv, [Next]_vars
  PROVE  ServedInv'
<1>1. SUFFICES ASSUME session' # NoSession, session'.phase \in {"serving", "left"},
                      NEW k \in Cached', NEW r \in AskedRules',
                      Matches(r, k), AskedId(localCache[k].id)',
                      session'.phase = "left" \/ k < session'.pos
               PROVE  localCache'[k] \in UnderWay' \/ Given(k, r)'
  BY DEF ServedInv
<1>2. /\ ProviderOK /\ SessionChange /\ CountStep /\ CacheStep /\ IssuedInv
      /\ curChangeId \in Seqs /\ curChangeId' \in Seqs /\ pushed \in Nat
  BY SessionChanges, ProviderCounts, TypeParts, TypeStep, TypePartsPrime DEF CounterInv, ProviderOK
<1>3. session # NoSession /\ session.phase # "joining"
  <2>1. session # NoSession
    BY <1>1, <1>2 DEF SessionChange, HandleRangeRequest, RangeRequestContinues, JoinSessionCB, RouteSessionlessMessage
  <2>2. session \in Session
    BY <2>1, SessionHasRecord
  <2>3. CASE UNCHANGED session \/ HandleRangeRequest \/ RangeRequestContinues
    BY <1>1, <2>1, <2>3, ServesFrom
  <2>4. CASE RouteSessionlessMessage
    <3>1. session' = [session EXCEPT !.chan = Tail(session.chan)]
      BY <2>4, RouteGives
    <3> QED
      BY <1>1, <2>1, <2>2, <3>1 DEF Session
  <2>5. ~JoinSessionCB
    <3>1. ASSUME JoinSessionCB PROVE FALSE
      <4>1. session' = [session EXCEPT !.phase = "asked", !.from = remote.work.fromChangeId,
                                       !.to = remote.work.toChangeId, !.rules = AskedRules]
        BY <3>1 DEF JoinSessionCB, AskedRules
      <4>2. session'.phase = "asked"
        BY <2>2, <4>1 DEF Session
      <4> QED
        BY <1>1, <4>2
    <3> QED
      BY <3>1
  <2> QED
    BY <1>1, <1>2, <2>1, <2>3, <2>4, <2>5 DEF SessionChange
<1>4. /\ session \in Session /\ remote'.work = remote.work /\ remote' # NoCache
      /\ r \in AskedRules /\ r \in Live(rules)
      /\ remote.work.toChangeId \in Seqs
  BY <1>1, <1>3, SessionHasRecord, AttemptKeepsWork, AskedRulesStep DEF Work
<1>5. /\ session.phase = "asked" => session.chan = <<>>
      /\ session.from = remote.work.fromChangeId /\ session.to = remote.work.toChangeId
      /\ AskedRules \subseteq session.rules
  BY <1>3 DEF RequestInv
<1>6. k \in Key /\ k \in Nat /\ localCache'[k] # NoMsg
  BY <1>1 DEF Cached
<1>7. localCache'[k] = localCache[k] /\ k \in Cached /\ AskedId(localCache[k].id)
  <2>1. PICK m : m = localCache'[k]
    OBVIOUS
  <2>2. AskedId(m.id)
    BY <1>1, <1>4, <2>1 DEF AskedId
  <2>3. m = localCache[k] \/ (m.id = curChangeId /\ pushed' = pushed + 1)
    BY <1>2, <1>6, <2>1, OldOrNew
  <2>4. ASSUME m.id = curChangeId, pushed' = pushed + 1 PROVE FALSE
    <3>1. curChangeId < remote.work.toChangeId
      BY <1>2, <1>3, <2>2, <2>4, AskedMeans DEF Seqs
    <3>2. session.phase \notin {"serving", "left"}
      BY <1>2, <1>3, <1>4, <3>1 DEF BehindInv, Seqs
    <3>3. ~(HandleRangeRequest \/ RangeRequestContinues)
      BY <1>2, <2>4, ServesFrom
    <3>4. session' = session \/ RouteSessionlessMessage
      BY <1>1, <1>2, <1>3, <3>3 DEF SessionChange, JoinSessionCB
    <3>5. session'.phase = session.phase
      <4>1. ASSUME RouteSessionlessMessage PROVE session'.phase = session.phase
        BY <1>4, <4>1, RouteGives DEF Session
      <4> QED
        BY <3>4, <4>1
    <3> QED
      BY <1>1, <3>2, <3>5
  <2>5. m = localCache[k]
    BY <2>3, <2>4
  <2> QED
    BY <1>6, <2>1, <2>2, <2>5 DEF Cached
<1>8. ASSUME Given(k, r) PROVE Given(k, r)'
  BY <1>4, <1>7, <1>8, GivenStays
<1>9. ASSUME session.phase \in {"serving", "left"}, session.phase = "left" \/ k < session.pos
      PROVE  localCache[k] \in UnderWay \/ Given(k, r)'
  BY <1>1, <1>3, <1>4, <1>7, <1>8, <1>9 DEF ServedInv
<1>10. CASE UNCHANGED session
  BY <1>1, <1>7, <1>9, <1>10 DEF UnderWay
<1>11. CASE RouteSessionlessMessage
  <2>1. session' = [session EXCEPT !.chan = Tail(session.chan)]
        /\ session.chan \in Seq(Msg) /\ session.chan # <<>>
    BY <1>11, RouteGives
  <2>2. session'.phase = session.phase /\ session'.pos = session.pos /\ session'.chan = Tail(session.chan)
    BY <1>4, <2>1 DEF Session
  <2>3. UnderWay = UnderWay' \union {Head(session.chan)}
    BY <2>1, <2>2, ChannelElements DEF UnderWay
  <2>4. ASSUME localCache[k] = Head(session.chan) PROVE Given(k, r)'
    <3>1. localCache[k].key = k
      BY <1>2, <1>7 DEF IssuedInv
    <3>2. <<localCache[k].serial, r>> \in hist'.delivered \union hist'.missed
      BY <1>1, <1>4, <1>11, <2>4, <3>1, RouteGives
    <3> QED
      BY <1>7, <3>2 DEF Given
  <2> QED
    BY <1>1, <1>7, <1>9, <2>2, <2>3, <2>4
<1>12. CASE HandleRangeRequest \/ RangeRequestContinues
  <2>1. PICK pos \in Nat : Serve(pos) /\ \/ session.phase = "asked" /\ pos = 0
                                         \/ session.phase = "serving" /\ pos = session.pos
    <3>1. 0 \in Nat
      OBVIOUS
    <3> QED
      BY <1>12, <3>1, ServesFrom
  <2>2. /\ UnderWay \subseteq UnderWay'
        /\ pos <= k => localCache'[k] \in UnderWay'
    <3>1. r \in session.rules /\ InRange(session.from, session.to, localCache'[k].id)
      BY <1>4, <1>5, <1>7 DEF AskedId
    <3> QED
      BY <1>1, <1>2, <1>4, <2>1, <3>1, ServeSends
  <2>3. CASE k < pos
    BY <1>6, <1>7, <1>9, <2>1, <2>2, <2>3
  <2>4. pos <= k \/ k < pos
    BY <1>6
  <2> QED
    BY <2>2, <2>3, <2>4
<1> QED
  BY <1>1, <1>2, <1>3, <1>10, <1>11, <1>12 DEF SessionChange, JoinSessionCB

\* The record counts signals and rules when all that it asked for has arrived.
LEMMA CountedStep ==
  ASSUME NoWrap, TypeOK, AttemptInv, CounterInv, WorkInv, BehindInv, RequestInv, ServedInv, CountedGiven,
         [Next]_vars
  PROVE  CountedGiven'
<1>1. SUFFICES ASSUME remote' # NoCache, remote'.haveReceived,
                      NEW k \in Cached', NEW r \in Live(rules'), Matches(r, k),
                      (localCache[k].id < Rank(remote.receivedChangeId))',
                      (rules[r].id < Rank(remote.appliedRulesId))'
               PROVE  Given(k, r)'
  BY DEF CountedGiven
<1>2. /\ ProviderOK /\ RulesOK /\ RecordChange /\ CountStep /\ CacheStep /\ RulesChange /\ IssuedInv
      /\ curChangeId \in Seqs /\ nextRulesId \in Seqs
      /\ remote' \in Cache /\ k \in Key /\ localCache'[k] # NoMsg
  BY <1>1, RecordStep, ProviderCounts, RulesCount, TypeParts, TypeStep, TypePartsPrime
     DEF CounterInv, ProviderOK, RulesOK, RemoteOK, Cached
<1>3. CASE remote \in Cache /\ SameCount(remote, remote')
  <2>1. /\ remote.haveReceived /\ remote # NoCache
        /\ localCache'[k].id < Rank(remote.receivedChangeId)
        /\ rules'[r].id < Rank(remote.appliedRulesId)
    BY <1>1, <1>3 DEF SameCount
  <2>2. Rank(remote.receivedChangeId) <= curChangeId /\ Rank(remote.appliedRulesId) <= nextRulesId
    <3>1. remote.receivedChangeId < curChangeId /\ Rank(remote.receivedChangeId) = remote.receivedChangeId + 1
          /\ Rank(remote.appliedRulesId) <= nextRulesId /\ remote.receivedChangeId \in Nat
      BY <1>3, <2>1, NearIds DEF CounterInv, ReceivedInv, Cache, Seqs
    <3> QED
      BY <1>2, <3>1 DEF Seqs
  <2>3. Rank(remote.receivedChangeId) \in Nat /\ Rank(remote.appliedRulesId) \in Nat
    BY <1>3, RankOf DEF Cache, Seqs
  <2>4. localCache'[k] = localCache[k] /\ k \in Cached
    <3>1. localCache'[k].id # curChangeId
      BY <1>2, <2>1, <2>2, <2>3 DEF Seqs
    <3>2. localCache'[k] = localCache[k]
      BY <1>2, <3>1, OldOrNew
    <3> QED
      BY <1>2, <3>2 DEF Cached
  <2>5. r \in Live(rules) /\ rules'[r].id = rules[r].id
    <3>1. rules'[r].id # nextRulesId
      BY <1>2, <2>1, <2>2, <2>3 DEF Seqs
    <3> QED
      BY <1>1, <1>2, <3>1 DEF RulesChange
  <2>6. Given(k, r)
    BY <1>1, <2>1, <2>4, <2>5 DEF CountedGiven
  <2> QED
    BY <1>1, <2>4, <2>5, <2>6, GivenStays
<1>4. CASE ProviderLeft /\ SameCount(Answered, remote')
  <2>1. /\ session # NoSession /\ session.phase = "left" /\ session.chan = <<>>
        /\ UNCHANGED <<localCache, rules>>
    BY <1>4 DEF ProviderLeft, provider, ruleVars, discovery
  <2>2. /\ Rank(remote'.receivedChangeId) = remote.work.toChangeId
        /\ Rank(remote'.appliedRulesId) = remote.work.toRulesId
    BY <1>4, AnsweredCounts DEF SameCount
  <2>3. /\ k \in Cached /\ r \in Live(rules) /\ localCache[k] \in Msg /\ rules[r].id \in Seqs
        /\ localCache[k].id < remote.work.toChangeId /\ rules[r].id < remote.work.toRulesId
    BY <1>1, <1>2, <2>1, <2>2 DEF Cached, Live, ProviderOK, RulesOK
  <2>4. localCache[k].id \in Seqs /\ localCache[k].id <= curChangeId
    <3>1. Issued(localCache[k].id) /\ localCache[k].id \in Seqs
      BY <1>2, <2>3 DEF IssuedInv, Msg
    <3> QED
      BY <1>2, <3>1 DEF Issued, Seqs
  <2>5. \/ AskedId(localCache[k].id) /\ AskedRuleId(rules[r].id)
        \/ /\ remote.haveReceived /\ localCache[k].id < Rank(remote.receivedChangeId)
           /\ rules[r].id < Rank(remote.appliedRulesId)
    BY <2>1, <2>3, <2>4, AskedMeans
  <2>6. Given(k, r)
    <3>1. CASE AskedId(localCache[k].id) /\ AskedRuleId(rules[r].id)
      <4>1. r \in AskedRules
        BY <2>3, <3>1 DEF AskedRules, RulesIn, AskedRuleId
      <4>2. localCache[k] \notin UnderWay
        BY <2>1 DEF UnderWay, Elements
      <4> QED
        BY <1>1, <2>1, <2>3, <3>1, <4>1, <4>2 DEF ServedInv
    <3>2. remote # NoCache
      BY <2>1, SessionHasRecord
    <3> QED
      BY <1>1, <2>3, <2>5, <3>1, <3>2 DEF CountedGiven
  <2> QED
    BY <1>1, <2>1, <2>3, <2>6, GivenStays
<1>5. ~Begins
  BY <1>1 DEF Begins
<1> QED
  BY <1>1, <1>2, <1>3, <1>4, <1>5 DEF RecordChange, GoesOn, TakesUp

\* The delivery invariant.
DeliveryInv == CounterInv /\ WorkInv /\ BehindInv /\ RequestInv /\ ServedInv /\ CountedGiven

\* The delivery invariant is inductive.
LEMMA DeliveryStep ==
  ASSUME NoWrap, TypeOK, AttemptInv, DeliveryInv, [Next]_vars
  PROVE  DeliveryInv'
<1>1. CountInv' /\ RulesInv' /\ IssuedInv' /\ ReceivedInv'
  BY ProviderCounts, RulesCount, IssuedStep, ReceivedStep DEF DeliveryInv, CounterInv
<1>2. WorkInv' /\ BehindInv' /\ RequestInv' /\ ServedInv' /\ CountedGiven'
  BY WorkStep, BehindStep, RequestStep, ServedStep, CountedStep DEF DeliveryInv
<1> QED
  BY <1>1, <1>2 DEF DeliveryInv, CounterInv

\* The delivery invariant holds initially: nothing is cached and nobody has asked.
LEMMA DeliveryInit ==
  ASSUME Init
  PROVE  DeliveryInv
<1>1. /\ \A k \in Key : localCache[k] = NoMsg
      /\ \A i \in Iface : lastAdvertisements[i] = NotAdvertised
      /\ \A r \in MatchRule : rules[r].copies = 0
      /\ curChangeId = 0 /\ advanceChangeId = FALSE /\ pushed = 0 /\ nextRulesId = 0
      /\ remote = NoCache /\ air = {} /\ session = NoSession
  BY DEF Init, NoRule
<1>2. Cached = {} /\ Live(rules) = {}
  <2>1. Cached = {}
    BY <1>1 DEF Cached
  <2>2. Live(rules) = {}
    BY <1>1 DEF Live
  <2> QED
    BY <2>1, <2>2
<1>3. CounterInv
  BY <1>1, <1>2, BoundsType DEF CounterInv, CountInv, RulesInv, IssuedInv, ReceivedInv
<1> QED
  BY <1>1, <1>3 DEF DeliveryInv, WorkInv, BehindInv, RequestInv, ServedInv, CountedGiven

\* In the order of the ids CountedGiven is CaughtUp.
LEMMA CountedIsCaughtUp ==
  ASSUME NoWrap, TypeOK, CounterInv, CountedGiven
  PROVE  CaughtUp
<1>1. SUFFICES ASSUME remote # NoCache, remote.haveReceived, NEW k \in Cached, NEW r \in Live(rules),
                      Matches(r, k),
                      IS_GREATER_OR_EQUAL(remote.receivedChangeId, localCache[k].id),
                      IS_GREATER_OR_EQUAL(remote.appliedRulesId, rules[r].id)
               PROVE  Given(k, r)
  BY DEF CaughtUp, Given
<1>2. /\ ProviderOK /\ RulesOK /\ IssuedInv /\ RulesInv
      /\ remote.receivedChangeId \in Near /\ remote.appliedRulesId \in Near /\ remote \in Cache
  BY <1>1, NearIds, TypeParts DEF CounterInv, RemoteOK
<1>3. localCache[k].id \in Near /\ localCache[k].id \in Nat /\ Rank(localCache[k].id) = localCache[k].id + 1
  <2>1. localCache[k] \in Msg /\ localCache[k].id \in Seqs
    BY <1>2 DEF ProviderOK, Cached, Msg
  <2> QED
    BY <1>2, <2>1, NearIds DEF IssuedInv, Seqs
<1>4. rules[r].id \in Near /\ rules[r].id \in Nat /\ Rank(rules[r].id) = rules[r].id + 1
  <2>1. rules[r].id \in Seqs /\ rules[r].id + 1 < Half /\ rules[r].id # Largest
    BY <1>2, BoundsType, HalfWay DEF RulesOK, RulesInv, Live, NoWrap, Seqs, Largest
  <2> QED
    BY <2>1, RankOf DEF Near, Seqs
<1>5. Rank(remote.receivedChangeId) \in Nat /\ Rank(remote.appliedRulesId) \in Nat
  BY <1>2, RankOf DEF Cache, Seqs
<1>6. localCache[k].id < Rank(remote.receivedChangeId)
  <2>1. Rank(remote.receivedChangeId) >= Rank(localCache[k].id)
    BY <1>1, <1>2, <1>3, GreaterIsRank
  <2> QED
    BY <1>3, <1>5, <2>1
<1>7. rules[r].id < Rank(remote.appliedRulesId)
  <2>1. Rank(remote.appliedRulesId) >= Rank(rules[r].id)
    BY <1>1, <1>2, <1>4, GreaterIsRank
  <2> QED
    BY <1>4, <1>5, <2>1
<1> QED
  BY <1>1, <1>6, <1>7 DEF CountedGiven

\* What is counted as received and applied has been given: no pushes, cancels, rules, faults and
\* retries of any number and order leave a signal out, short of counters half way round.
THEOREM CaughtUpCorrect ==
  ASSUME NoWrap
  PROVE  Spec => []CaughtUp
<1>1. Init => DeliveryInv
  BY DeliveryInit
<1>2. TypeOK /\ AttemptInv /\ DeliveryInv /\ [Next]_vars => DeliveryInv'
  BY DeliveryStep
<1>3. TypeOK /\ DeliveryInv => CaughtUp
  BY CountedIsCaughtUp DEF DeliveryInv
<1> QED
  BY <1>1, <1>2, <1>3, AttemptInvariant, PTL DEF Spec

-----------------------------------------------------------------------------
(* The signals in the system, by their serials.                         *)

\* The signals somebody has: cached, under way, or marked as routed.
Stored == {localCache[k] : k \in Cached}
Sent == IF session = NoSession THEN {} ELSE UnderWay
Routed == IF remote = NoCache THEN {} ELSE remote.routedMessages
Signals == Stored \union Sent \union Routed

\* A serial is that of one signal, and what is under way was asked for.
SerialInv ==
  /\ \A m \in Signals : m.serial <= pushed /\ Issued(m.id)
  /\ \A m \in Signals, n \in Signals : m.serial = n.serial => m = n
  /\ \A p \in hist.delivered : p[1] <= pushed
  /\ \A m \in Sent : AskedId(m.id)

\* A step brings one new signal at most, the one that is sent.
SignalsChange ==
  \/ Signals' \subseteq Signals
  \/ /\ pushed' = pushed + 1
     /\ \E n \in Msg : /\ Signals' \subseteq Signals \union {n}
                       /\ n.serial = pushed + 1 /\ n.id = curChangeId
                       /\ curChangeId' = curChangeId /\ advanceChangeId'

\* Only PushMessage sends a signal.
LEMMA PushedStep ==
  ASSUME TypeOK, [Next]_vars
  PROVE  pushed' = pushed \/ \E k \in Key : PushMessage(k)
<1>1. ASSUME \/ \E k \in Key : CancelMessage(k)
             \/ \E s \in {SenderOf[k] : k \in Key} : SenderLeaves(s)
             \/ ProviderAlarm \/ OtherRequest \/ HandleRangeRequest \/ RangeRequestContinues
      PROVE  pushed' = pushed
  BY <1>1 DEF CancelMessage, SenderLeaves, ProviderAlarm, OtherRequest, HandleRangeRequest, RangeRequestContinues
<1>2. ASSUME \/ \E r \in MatchRule : AddRule(r) \/ RemoveRule(r)
             \/ \E ep \in {r.ep : r \in MatchRule} : EndpointLeaves(ep)
             \/ \E name \in air : FoundAdvertisedName(name) \/ NameMissed(name)
             \/ DiscoveryCall
             \/ \E ok \in BOOLEAN : AlarmTriggered(ok)
             \/ AlarmResumes \/ JoinSessionCB \/ JoinFails
             \/ RouteSessionlessMessage \/ ProviderLeft \/ SessionLost
      PROVE  pushed' = pushed
  BY <1>2, CallKeeps DEF AddRule, RemoveRule, EndpointLeaves, SetRules, FoundAdvertisedName, NameMissed,
              AlarmTriggered, AlarmResumes, JoinSessionCB, JoinFails, RouteSessionlessMessage,
              ProviderLeft, SessionLost, provider
<1>3. CASE UNCHANGED vars
  BY <1>3 DEF vars, provider
<1>4. CASE Next
  BY <1>1, <1>2, <1>4 DEF Next, DiscoveryCall
<1> QED
  BY <1>3, <1>4

\* Signals that are sent in a session are cached ones the attempt asks for.
LEMMA SentStep ==
  ASSUME NoWrap, TypeOK, AttemptInv, CounterInv, WorkInv, RequestInv, [Next]_vars
  PROVE  \A m \in Sent' : m \in Sent \/ (m \in Stored /\ AskedId(m.id))
<1>1. SessionChange /\ ProviderOK
  BY SessionChanges, TypeParts
<1>2. CASE session' = NoSession
  BY <1>2 DEF Sent
<1>3. CASE session' # NoSession /\ session'.chan = <<>>
  BY <1>3 DEF Sent, UnderWay, Elements
<1>4. CASE UNCHANGED session
  BY <1>4 DEF Sent, UnderWay
<1>5. CASE JoinSessionCB
  <2>1. session # NoSession /\ session \in Session
        /\ session' = [session EXCEPT !.phase = "asked", !.from = remote.work.fromChangeId,
                                      !.to = remote.work.toChangeId, !.rules = AskedRules]
    BY <1>5, SessionHasRecord DEF JoinSessionCB, AskedRules
  <2>2. session'.chan = session.chan
    BY <2>1 DEF Session
  <2> QED
    BY <2>1, <2>2 DEF Sent, UnderWay
<1>6. CASE HandleRangeRequest \/ RangeRequestContinues
  <2>1. session \in Session /\ session # NoSession /\ session.phase # "joining"
        /\ \E pos \in Nat : Serve(pos)
    <3>1. 0 \in Nat
      OBVIOUS
    <3> QED
      BY <1>6, <3>1, ServesFrom
  <2>2. session.from = remote.work.fromChangeId /\ session.to = remote.work.toChangeId
    BY <2>1 DEF RequestInv
  <2>3. \A m \in UnderWay' : m \in UnderWay \/ \E k \in Cached :
             m = localCache[k] /\ InRange(session.from, session.to, localCache[k].id)
    BY <1>1, <2>1, ServeSends
  <2> QED
    BY <2>1, <2>2, <2>3 DEF Sent, Stored, AskedId
<1>7. CASE RouteSessionlessMessage
  <2>1. session \in Session /\ session # NoSession
        /\ session' = [session EXCEPT !.chan = Tail(session.chan)]
        /\ session.chan \in Seq(Msg) /\ session.chan # <<>>
    BY <1>7, SessionHasRecord, RouteGives DEF RouteSessionlessMessage
  <2>2. session'.chan = Tail(session.chan)
    BY <2>1 DEF Session
  <2>3. UnderWay = UnderWay' \union {Head(session.chan)}
    BY <2>1, <2>2, ChannelElements DEF UnderWay
  <2> QED
    BY <2>1, <2>3 DEF Sent
<1>8. ASSUME session' \in Session PROVE session' # NoSession
  BY <1>8
<1> QED
  BY <1>1, <1>2, <1>3, <1>4, <1>5, <1>6, <1>7, <1>8 DEF SessionChange

\* Signals that are marked as routed have arrived in the session.
LEMMA RoutedStep ==
  ASSUME TypeOK, AttemptInv, [Next]_vars
  PROVE  Routed' \subseteq Routed \union Sent
<1>1. RecordChange
  BY RecordStep
<1>2. CASE remote' = NoCache
  BY <1>2 DEF Routed
<1>3. CASE Begins
  BY <1>3 DEF Begins, Routed
<1>4. ASSUME remote # NoCache, remote' # NoCache PROVE Routed = remote.routedMessages /\ Routed' = remote'.routedMessages
  BY <1>4 DEF Routed
<1>5. ASSUME remote \in Cache, remote' \in Cache PROVE remote # NoCache /\ remote' # NoCache
  BY <1>5
<1>6. CASE remote \in Cache /\ remote' \in Cache /\ (GoesOn \/ TakesUp)
  BY <1>4, <1>5, <1>6 DEF GoesOn, TakesUp
<1>7. CASE remote \in Cache /\ remote' \in Cache /\ RouteSessionlessMessage
  <2>1. session # NoSession /\ session.chan \in Seq(Msg) /\ session.chan # <<>>
        /\ remote'.routedMessages \subseteq remote.routedMessages \union {Head(session.chan)}
    BY <1>7, RouteGives DEF RouteSessionlessMessage
  <2>2. Head(session.chan) \in UnderWay
    BY <2>1, ChannelElements DEF UnderWay
  <2> QED
    BY <1>4, <1>5, <1>7, <2>1, <2>2 DEF Sent
<1>8. CASE remote \in Cache /\ remote' \in Cache /\ remote'.routedMessages = {}
  BY <1>4, <1>5, <1>8
<1> QED
  BY <1>1, <1>2, <1>3, <1>6, <1>7, <1>8 DEF RecordChange

\* The signals change in that way.
LEMMA SignalsStep ==
  ASSUME NoWrap, TypeOK, AttemptInv, CounterInv, WorkInv, RequestInv, [Next]_vars
  PROVE  SignalsChange
<1>1. CacheStep /\ ProviderOK /\ pushed \in Nat
  BY ProviderCounts, TypeParts DEF CounterInv, ProviderOK
<1>2. Sent' \cup Routed' \subseteq Signals
  BY SentStep, RoutedStep DEF Signals
<1>3. CASE pushed' = pushed
  <2>1. \A k \in Key : localCache'[k] # NoMsg => localCache'[k] = localCache[k]
    <3>1. pushed' # pushed + 1
      BY <1>1, <1>3
    <3> QED
      BY <1>1, <3>1, OldOrNew
  <2>2. Stored' \subseteq Stored
    BY <2>1 DEF Stored, Cached
  <2> QED
    BY <1>2, <2>2 DEF SignalsChange, Signals
<1>4. ASSUME NEW k \in Key, PushMessage(k) PROVE SignalsChange
  <2>1. PICK n : n = [key |-> k, serial |-> pushed + 1, id |-> curChangeId]
    OBVIOUS
  <2>2. /\ n \in Msg /\ n.serial = pushed + 1 /\ n.id = curChangeId
        /\ pushed' = pushed + 1 /\ advanceChangeId' /\ curChangeId' = curChangeId
        /\ localCache' = [localCache EXCEPT ![k] = n]
    BY <1>1, <1>4, <2>1, BoundsType DEF PushMessage, Msg, ProviderOK
  <2>3. Stored' \subseteq Stored \union {n}
    BY <1>1, <2>2 DEF Stored, Cached, ProviderOK
  <2> QED
    BY <1>2, <2>2, <2>3 DEF SignalsChange, Signals
<1> QED
  BY <1>3, <1>4, PushedStep

-----------------------------------------------------------------------------
(* A signal is delivered once.                                          *)

\* What a record counts as received and applied.
Settled(m, r) == /\ Rank(m.id) <= Rank(remote.receivedChangeId)
                 /\ Rank(rules[r].id) <= Rank(remote.appliedRulesId)

\* A signal delivered for a rule is not asked for again with that rule: it is marked as routed, it
\* is counted, or its mark is forgotten.
OnceInv ==
  /\ remote = NoCache => hist.delivered = {} /\ hist.twice = {}
  /\ \A r \in Live(rules) : \A m \in Signals :
        <<m.serial, r>> \in hist.delivered =>
            m.serial \in hist.forgotten \/ m \in Routed \/ Settled(m, r)
  /\ \A p \in hist.delivered :
        remote # NoCache /\ remote.state = "IN_PROGRESS" /\ p[2] \in Live(rules)
        => rules[p[2]].id < remote.work.toRulesId

\* The signals of the model are signals.
LEMMA SignalsType ==
  ASSUME TypeOK
  PROVE  Signals \subseteq Msg
<1>1. ProviderOK /\ RemoteOK /\ BetweenOK
  BY TypeParts
<1>2. Stored \subseteq Msg
  BY <1>1 DEF ProviderOK, Stored, Cached
<1>3. Sent \subseteq Msg
  <2>1. CASE session \in Session
    <3>1. session.chan \in Seq(Msg)
      BY <2>1 DEF Session
    <3>2. UnderWay \subseteq Msg
      BY <3>1 DEF UnderWay, Elements
    <3> QED
      BY <3>2 DEF Sent
  <2> QED
    BY <1>1, <2>1 DEF BetweenOK, Sent
<1>4. Routed \subseteq Msg
  BY <1>1 DEF RemoteOK, Routed, Cache
<1> QED
  BY <1>2, <1>3, <1>4 DEF Signals

\* RouteSessionlessMessage takes its signal from those under way.
LEMMA RoutedWasSent ==
  ASSUME TypeOK, AttemptInv, RouteSessionlessMessage
  PROVE  Head(session.chan) \in Sent /\ Head(session.chan) \in Signals
<1>1. session # NoSession /\ session.chan \in Seq(Msg) /\ session.chan # <<>>
  BY RouteGives DEF RouteSessionlessMessage
<1> QED
  BY <1>1, ChannelElements DEF Sent, Signals, UnderWay

\* Everything delivered was sent before this step.
LEMMA DeliveredStep ==
  ASSUME TypeOK, AttemptInv, SerialInv, [Next]_vars
  PROVE  \A p \in hist'.delivered : p[1] <= pushed
<1>1. CASE RouteSessionlessMessage
  <2>1. Head(session.chan).serial <= pushed
    BY <1>1, RoutedWasSent DEF SerialInv
  <2>2. \A p \in hist'.delivered \ hist.delivered : \E r \in AskedRules : p = <<Head(session.chan).serial, r>>
    BY <1>1, RouteGives
  <2>3. \A p \in hist.delivered : p[1] <= pushed
    BY DEF SerialInv
  <2> QED
    BY <2>1, <2>2, <2>3
<1> QED
  BY <1>1, HistStep DEF HistChange, SerialInv

\* Serials are given out in order.
LEMMA SerialStep ==
  ASSUME NoWrap, TypeOK, AttemptInv, CounterInv, WorkInv, RequestInv, SerialInv, [Next]_vars
  PROVE  SerialInv'
<1>1. /\ SignalsChange /\ CountStep /\ pushed \in Nat /\ pushed' \in Nat /\ Signals \subseteq Msg
      /\ Signals' \subseteq Msg /\ hist' \in History
  <2>1. SignalsChange /\ Signals \subseteq Msg
    BY SignalsStep, SignalsType
  <2>2. Signals' \subseteq Msg
    BY <2>1 DEF SignalsChange
  <2> QED
    BY <2>1, <2>2, TypeStep, ProviderCounts, TypeParts, TypePartsPrime DEF CounterInv, ProviderOK, RemoteOK
<1>2. pushed <= pushed' /\ \A id \in Seqs : Issued(id) => Issued(id)'
  BY <1>1 DEF CountStep
<1>3. \A m \in Msg : m.serial \in Nat /\ m.id \in Seqs
  BY BoundsType DEF Msg
<1>4. \A m \in Signals : m.serial <= pushed' /\ Issued(m.id)'
  <2> TAKE m \in Signals
  <2>1. m.serial <= pushed /\ Issued(m.id) /\ m \in Msg
    BY <1>1 DEF SerialInv
  <2>2. PICK id \in Seqs : id = m.id
    BY <1>3, <2>1
  <2> QED
    BY <1>1, <1>2, <1>3, <2>1, <2>2
<1>5. \A m \in Signals, n \in Signals : m.serial = n.serial => m = n
  BY DEF SerialInv
<1>6. /\ \A m \in Signals' : m.serial <= pushed' /\ Issued(m.id)'
      /\ \A m \in Signals', n \in Signals' : m.serial = n.serial => m = n
  <2>1. CASE Signals' \subseteq Signals
    BY <1>4, <1>5, <2>1
  <2>2. CASE ~(Signals' \subseteq Signals)
    <3>1. pushed' = pushed + 1
      BY <1>1, <2>2 DEF SignalsChange
    <3>2. PICK s \in Msg : /\ Signals' \subseteq Signals \union {s}
                           /\ s.serial = pushed + 1 /\ s.id = curChangeId
                           /\ curChangeId' = curChangeId /\ advanceChangeId'
      BY <1>1, <2>2 DEF SignalsChange
    <3>3. s.serial <= pushed' /\ Issued(s.id)'
      BY <1>1, <3>1, <3>2 DEF Issued
    <3>4. \A m \in Signals : m.serial # s.serial
      BY <1>1, <1>3, <3>2 DEF SerialInv
    <3> QED
      BY <1>4, <1>5, <3>2, <3>3, <3>4
  <2> QED
    BY <2>1, <2>2
<1>7. \A p \in hist'.delivered : p[1] <= pushed'
  <2> TAKE p \in hist'.delivered
  <2>1. p[1] \in Nat /\ p[1] <= pushed
    BY <1>1, DeliveredStep, BoundsType DEF History, Pair
  <2> QED
    BY <1>1, <1>2, <2>1
<1>8. \A m \in Sent' : AskedId(m.id)'
  <2> TAKE m \in Sent'
  <2>1. AskedId(m.id)
    BY SentStep DEF SerialInv
  <2>2. remote'.work = remote.work
    <3>1. session' # NoSession /\ session'.chan # <<>>
      BY DEF Sent, UnderWay, Elements
    <3>2. session # NoSession
      BY <3>1, SessionChanges
         DEF SessionChange, JoinSessionCB, HandleRangeRequest, RangeRequestContinues, RouteSessionlessMessage
    <3> QED
      BY <3>1, <3>2, AttemptKeepsWork
  <2> QED
    BY <2>1, <2>2 DEF AskedId
<1> QED
  BY <1>6, <1>7, <1>8 DEF SerialInv

\* The erasure of a record ends what is remembered of it.
LEMMA ErasureForgets ==
  ASSUME TypeOK, AttemptInv, [Next]_vars, remote # NoCache, remote' = NoCache
  PROVE  hist' = NoHistory(TRUE)
<1>1. ProviderOK /\ RulesOK /\ BetweenOK /\ remote \in Cache
  BY TypeParts DEF RemoteOK
<1>2. ASSUME \/ \E r \in MatchRule : AddRule(r)
             \/ \E name \in air : FoundAdvertisedName(name)
             \/ JoinFails \/ SessionLost \/ ProviderLeft
      PROVE  hist' = NoHistory(TRUE)
  BY <1>2 DEF AddRule, FoundAdvertisedName, JoinFails, SessionLost, Retry, ProviderLeft, SetRemote
<1>3. ASSUME \/ \E k \in Key : PushMessage(k) \/ CancelMessage(k)
             \/ \E s \in {SenderOf[k] : k \in Key} : SenderLeaves(s)
             \/ ProviderAlarm \/ OtherRequest \/ HandleRangeRequest \/ RangeRequestContinues
      PROVE  UNCHANGED remote
  BY <1>1, <1>3, ProviderStep, RangeRequestStep DEF RulesOK
<1>4. ASSUME \/ \E r \in MatchRule : RemoveRule(r)
             \/ \E ep \in {r.ep : r \in MatchRule} : EndpointLeaves(ep)
             \/ \E name \in air : NameMissed(name)
             \/ DiscoveryCall
             \/ JoinSessionCB
      PROVE  UNCHANGED remote
  BY <1>4, CallKeeps DEF RemoveRule, EndpointLeaves, SetRules, NameMissed, JoinSessionCB
<1>5. ASSUME \/ \E ok \in BOOLEAN : AlarmTriggered(ok)
             \/ AlarmResumes \/ RouteSessionlessMessage
      PROVE  remote' # NoCache
  BY <1>1, <1>5, TriggeredStep, ResumesStep, RouteStep
<1>6. CASE Next
  BY <1>2, <1>3, <1>4, <1>5, <1>6 DEF Next, DiscoveryCall
<1> QED
  BY <1>6 DEF vars

\* ProviderLeft forgets the marks of the signals it did not ask for.
LEMMA LeftForgets ==
  ASSUME TypeOK, AttemptInv, ProviderLeft, remote' # NoCache, NEW m \in remote.routedMessages, ~AskedId(m.id)
  PROVE  m.serial \in hist'.forgotten
<1> DEFINE unasked == {n \in remote.routedMessages :
                         ~InRange(remote.work.fromChangeId, remote.work.toChangeId, n.id)}
<1>1. hist' = [hist EXCEPT !.forgotten = @ \union {n.serial : n \in unasked}]
  BY SessionHasRecord DEF ProviderLeft, SetRemote
<1>2. hist \in History
  BY TypeParts DEF RemoteOK
<1>3. m \in unasked
  BY DEF AskedId
<1> HIDE DEF unasked
<1>4. hist'.forgotten = hist.forgotten \union {n.serial : n \in unasked}
  BY <1>1, <1>2 DEF History
<1> QED
  BY <1>3, <1>4

\* A rule of before keeps its id; nothing was given to a new one.
LEMMA OldRule ==
  ASSUME RulesChange, NEW r \in Live(rules'), NEW p \in hist'.delivered, p[2] = r
  PROVE  r \in Live(rules) /\ rules'[r].id = rules[r].id
BY DEF RulesChange

\* The record counts what it counted, or what it asked for.
LEMMA SettledStep ==
  ASSUME NoWrap, TypeOK, AttemptInv, CounterInv, WorkInv, BehindInv, [Next]_vars, remote' # NoCache, remote # NoCache
  PROVE  /\ Rank(remote.receivedChangeId) <= Rank(remote'.receivedChangeId)
         /\ Rank(remote.appliedRulesId) <= Rank(remote'.appliedRulesId)
<1>1. remote \in Cache /\ RecordChange
  BY RecordStep, TypeParts DEF RemoteOK
<1>2. Rank(remote.receivedChangeId) \in Nat /\ Rank(remote.appliedRulesId) \in Nat
  BY <1>1, RankOf DEF Cache, Seqs
<1>3. CASE SameCount(remote, remote')
  BY <1>2, <1>3 DEF SameCount
<1>4. CASE ProviderLeft /\ SameCount(Answered, remote')
  <2>1. /\ Rank(remote'.receivedChangeId) = remote.work.toChangeId
        /\ Rank(remote'.appliedRulesId) = remote.work.toRulesId
    BY <1>4, AnsweredCounts DEF SameCount
  <2>2. /\ remote.state = "IN_PROGRESS" /\ remote.work \in Work /\ remote.receivedChangeId \in Seqs
    BY <1>1, <1>4, SessionHasRecord DEF ProviderLeft, Cache
  <2>3. Rank(remote.appliedRulesId) <= remote.work.toRulesId /\ (AppliesRules \/ RequestsSignals)
    BY <2>2 DEF WorkInv
  <2>4. Rank(remote.receivedChangeId) <= remote.work.toChangeId
    BY <1>2, <2>2, <2>3 DEF AppliesRules, RequestsSignals, Work, Seqs
  <2> QED
    BY <2>1, <2>3, <2>4
<1> QED
  BY <1>1, <1>3, <1>4 DEF RecordChange, Begins, GoesOn, TakesUp

\* Delivered signals stay marked, become counted, or have their mark forgotten.
LEMMA OnceMarked ==
  ASSUME NoWrap, TypeOK, AttemptInv, CounterInv, WorkInv, BehindInv, RequestInv, SerialInv, OnceInv, [Next]_vars,
         remote' # NoCache, NEW r \in Live(rules'), NEW m \in Signals', <<m.serial, r>> \in hist'.delivered
  PROVE  m.serial \in hist'.forgotten \/ m \in Routed' \/ Settled(m, r)'
<1>1. /\ SignalsChange /\ RulesChange /\ RecordChange /\ HistChange /\ Signals \subseteq Msg /\ pushed \in Nat
      /\ curChangeId \in Seqs /\ ProviderOK /\ RulesOK
  BY SignalsStep, RulesCount, RecordStep, HistStep, SignalsType, TypeParts DEF CounterInv, ProviderOK
<1>2. PICK p \in hist'.delivered : p = <<m.serial, r>>
  OBVIOUS
<1>3. r \in Live(rules) /\ rules'[r].id = rules[r].id
  BY <1>1, <1>2, OldRule
<1>4. m.serial <= pushed
  BY <1>2, DeliveredStep
<1>5. m \in Signals /\ m \in Msg
  BY <1>1, <1>4 DEF SignalsChange
<1>6. CASE p \notin hist.delivered
  <2>1. RouteSessionlessMessage
    BY <1>2, <1>6, <1>1 DEF HistChange
  <2>2. m.serial = Head(session.chan).serial /\ Head(session.chan) \in remote'.routedMessages
    BY <1>2, <1>6, <2>1, RouteGives
  <2>3. m = Head(session.chan)
    BY <1>5, <2>1, <2>2, RoutedWasSent DEF SerialInv
  <2> QED
    BY <2>2, <2>3 DEF Routed
<1>7. CASE p \in hist.delivered
  <2>1. remote # NoCache /\ remote \in Cache
    BY <1>7, TypeParts DEF OnceInv, RemoteOK
  <2>2. m.serial \in hist.forgotten \/ m \in Routed \/ Settled(m, r)
    BY <1>2, <1>3, <1>5, <1>7 DEF OnceInv
  <2>3. CASE m.serial \in hist.forgotten
    BY <1>1, <2>3, RouteGives DEF HistChange
  <2>4. CASE Settled(m, r)
    <3>1. /\ Rank(m.id) \in Nat /\ Rank(rules[r].id) \in Nat
          /\ Rank(remote.receivedChangeId) \in Nat /\ Rank(remote.appliedRulesId) \in Nat
          /\ Rank(remote'.receivedChangeId) \in Nat /\ Rank(remote'.appliedRulesId) \in Nat
      <4>1. remote' \in Cache
        BY TypeStep, TypePartsPrime DEF RemoteOK
      <4>2. m.id \in Seqs /\ rules[r].id \in Seqs
        BY <1>1, <1>3, <1>5 DEF Msg, RulesOK, Live
      <4> QED
        BY <2>1, <4>1, <4>2, RankOf DEF Cache, Seqs
    <3> QED
      BY <1>3, <2>1, <2>4, <3>1, SettledStep DEF Settled
  <2>5. CASE m \in Routed
    <3>1. m \in remote.routedMessages
      BY <2>1, <2>5 DEF Routed
    <3>2. CASE remote'.routedMessages = remote.routedMessages
      BY <3>1, <3>2 DEF Routed
    <3>3. CASE RouteSessionlessMessage
      BY <3>1, <3>3, RouteGives DEF Routed
    <3>4. CASE ProviderLeft /\ SameCount(Answered, remote')
      <4>1. CASE ~AskedId(m.id)
        BY <3>1, <3>4, <4>1, LeftForgets
      <4>2. CASE AskedId(m.id)
        <5>1. /\ session # NoSession /\ remote.state = "IN_PROGRESS" /\ remote.work \in Work
          BY <3>4, SessionHasRecord DEF ProviderLeft
        <5>2. /\ Rank(remote'.receivedChangeId) = remote.work.toChangeId
              /\ Rank(remote'.appliedRulesId) = remote.work.toRulesId
          BY <3>4, AnsweredCounts DEF SameCount
        <5>3. rules[r].id < remote.work.toRulesId
          BY <1>2, <1>3, <1>7, <2>1, <5>1 DEF OnceInv
        <5>4. m.id \in Seqs /\ Issued(m.id)
          BY <1>5 DEF SerialInv, Msg
        <5>5. m.id < remote.work.toChangeId
          <6>1. m.id <= curChangeId
            BY <1>1, <5>4 DEF Issued, Seqs
          <6> QED
            BY <4>2, <5>1, <5>4, <6>1, AskedMeans
        <5>6. Rank(m.id) = m.id + 1 /\ m.id \in Nat
          BY <5>4, NearIds DEF Seqs
        <5>7. rules[r].id \in Seqs /\ (Rank(rules[r].id) = 0 \/ Rank(rules[r].id) = rules[r].id + 1)
          BY <1>1, <1>3, RankOf DEF RulesOK, Live
        <5> QED
          BY <1>3, <5>1, <5>2, <5>3, <5>5, <5>6, <5>7 DEF Settled, Work, Seqs
      <4> QED
        BY <4>1, <4>2
    <3> QED
      BY <1>1, <2>1, <3>2, <3>3, <3>4 DEF RecordChange, Begins, GoesOn, TakesUp
  <2> QED
    BY <2>2, <2>3, <2>4, <2>5
<1> QED
  BY <1>6, <1>7

\* What was delivered for a rule was asked for with the rules of before the attempt's limit.
LEMMA OnceAsked ==
  ASSUME NoWrap, TypeOK, AttemptInv, CounterInv, WorkInv, OnceInv, [Next]_vars,
         remote' # NoCache, remote'.state = "IN_PROGRESS",
         NEW p \in hist'.delivered, p[2] \in Live(rules')
  PROVE  rules'[p[2]].id < remote'.work.toRulesId
<1>1. PICK r : r = p[2]
  OBVIOUS
<1>2. RulesChange /\ RecordChange /\ HistChange /\ RulesOK /\ RulesInv /\ (remote = NoCache \/ remote \in Cache)
  BY RulesCount, RecordStep, HistStep, TypeParts DEF CounterInv, RemoteOK
<1>3. r \in Live(rules) /\ rules'[r].id = rules[r].id /\ rules[r].id \in Seqs
  BY <1>1, <1>2, OldRule DEF RulesOK, Live
<1>4. remote \in Cache /\ remote # NoCache
      /\ (TakesUp \/ (remote.state = "IN_PROGRESS" /\ remote'.work = remote.work))
  BY <1>2 DEF RecordChange, Begins, GoesOn, SameWork, TakesUp
<1>5. CASE TakesUp
  <2>1. remote'.work.toRulesId = nextRulesId
    <3>1. remote'.work = NewRulesWork(remote) \/ remote'.work = NewSignalsWork(remote)
      BY <1>5 DEF TakesUp
    <3> QED
      BY <3>1 DEF NewRulesWork, NewSignalsWork
  <2> QED
    BY <1>1, <1>2, <1>3, <2>1 DEF RulesInv
<1>6. CASE remote.state = "IN_PROGRESS" /\ remote'.work = remote.work
  <2>1. CASE p \in hist.delivered
    BY <1>1, <1>3, <1>4, <1>6, <2>1 DEF OnceInv
  <2>2. CASE p \notin hist.delivered
    <3>1. RouteSessionlessMessage
      BY <1>2, <2>2 DEF HistChange
    <3>2. \E q \in AskedRules : p = <<Head(session.chan).serial, q>>
      BY <2>2, <3>1, RouteGives
    <3>3. r \in AskedRules
      BY <1>1, <3>2
    <3>4. AskedRuleId(rules[r].id)
      BY <3>3 DEF AskedRules, RulesIn, AskedRuleId
    <3>5. rules[r].id <= nextRulesId
      BY <1>2, <1>3 DEF RulesInv, RulesOK, Seqs
    <3>6. session # NoSession
      BY <3>1 DEF RouteSessionlessMessage
    <3> QED
      BY <1>1, <1>3, <1>6, <3>4, <3>5, <3>6, AskedMeans
  <2> QED
    BY <2>1, <2>2
<1> QED
  BY <1>4, <1>5, <1>6

\* OnceInv is kept.
LEMMA OnceStep ==
  ASSUME NoWrap, TypeOK, AttemptInv, CounterInv, WorkInv, BehindInv, RequestInv, SerialInv, OnceInv, [Next]_vars
  PROVE  OnceInv'
<1>1. ASSUME remote' = NoCache PROVE hist'.delivered = {} /\ hist'.twice = {}
  <2>1. HistChange
    BY HistStep
  <2>2. CASE RouteSessionlessMessage
    BY <1>1, <2>2, RouteStep
  <2>3. CASE hist'.delivered \subseteq hist.delivered /\ hist'.twice \subseteq hist.twice
    <3>1. CASE remote = NoCache
      BY <2>3, <3>1 DEF OnceInv
    <3>2. CASE remote # NoCache
      BY <1>1, <3>2, ErasureForgets DEF NoHistory
    <3> QED
      BY <3>1, <3>2
  <2> QED
    BY <2>1, <2>2, <2>3 DEF HistChange
<1>2. \A r \in Live(rules') : \A m \in Signals' :
        <<m.serial, r>> \in hist'.delivered =>
            m.serial \in hist'.forgotten \/ m \in Routed' \/ Settled(m, r)'
  BY <1>1, OnceMarked
<1>3. \A p \in hist'.delivered :
        remote' # NoCache /\ remote'.state = "IN_PROGRESS" /\ p[2] \in Live(rules')
        => rules'[p[2]].id < remote'.work.toRulesId
  BY OnceAsked
<1> QED
  BY <1>1, <1>2, <1>3 DEF OnceInv

\* A signal is delivered again only when its mark was forgotten.
LEMMA TwiceStep ==
  ASSUME NoWrap, TypeOK, AttemptInv, CounterInv, WorkInv, SerialInv, OnceInv, AtMostOnce, [Next]_vars
  PROVE  AtMostOnce'
<1>1. SUFFICES ASSUME NEW p \in hist'.twice PROVE p[1] \in hist'.forgotten
  BY DEF AtMostOnce
<1>2. HistChange /\ ProviderOK /\ RulesOK /\ RulesInv
  BY HistStep, TypeParts DEF CounterInv
<1>3. CASE p \in hist.twice
  BY <1>1, <1>2, <1>3, RouteGives DEF HistChange, AtMostOnce
<1>4. CASE p \notin hist.twice
  <2>1. RouteSessionlessMessage
    BY <1>1, <1>2, <1>4 DEF HistChange
  <2>2. PICK m : m = Head(session.chan)
    OBVIOUS
  <2>3. PICK r \in AskedRules : p = <<m.serial, r>>
    BY <1>1, <1>4, <2>1, <2>2, RouteGives
  <2>4. /\ p \in hist.delivered /\ m \notin remote.routedMessages /\ m \in Msg
        /\ hist'.forgotten = hist.forgotten /\ m \in Sent /\ m \in Signals
    BY <1>1, <1>4, <2>1, <2>2, RouteGives, RoutedWasSent
  <2>5. /\ session # NoSession /\ remote # NoCache /\ remote \in Cache /\ m \notin Routed
        /\ r \in Live(rules) /\ AskedRuleId(rules[r].id)
    BY <2>1, <2>3, <2>4, SessionHasRecord DEF RouteSessionlessMessage, Routed, AskedRules, RulesIn, AskedRuleId
  <2>6. ~Settled(m, r)
    <3>1. AskedId(m.id) /\ Issued(m.id) /\ m.id \in Seqs
      BY <2>4 DEF SerialInv, Msg
    <3>2. m.id <= curChangeId
      BY <1>2, <3>1 DEF Issued, ProviderOK, Seqs
    <3>3. rules[r].id \in Seqs /\ rules[r].id < nextRulesId /\ nextRulesId \in Seqs
      BY <1>2, <2>5 DEF RulesOK, RulesInv, Live
    <3>4. rules[r].id <= nextRulesId
      BY <3>3 DEF Seqs
    <3>5. Rank(remote.receivedChangeId) <= m.id \/ Rank(remote.appliedRulesId) <= rules[r].id
      BY <2>5, <3>1, <3>2, <3>3, <3>4, AskedMeans
    <3>6. Rank(m.id) = m.id + 1
      BY <3>1, NearIds
    <3>7. Rank(rules[r].id) = rules[r].id + 1
      <4>1. rules[r].id < MaxRules
        BY <1>2, <3>3, BoundsType DEF RulesInv, Seqs
      <4>2. rules[r].id # Largest
        BY <3>3, <4>1, BoundsType DEF Largest, Seqs
      <4> QED
        BY <3>3, <4>2, RankOf
    <3>8. Rank(remote.receivedChangeId) \in Nat /\ Rank(remote.appliedRulesId) \in Nat
      BY <2>5, RankOf DEF Cache, Seqs
    <3> QED
      BY <3>1, <3>3, <3>5, <3>6, <3>7, <3>8 DEF Settled, Seqs
  <2>7. <<m.serial, r>> \in hist.delivered => m.serial \in hist.forgotten
    BY <2>4, <2>5, <2>6 DEF OnceInv
  <2> QED
    BY <2>3, <2>4, <2>7
<1> QED
  BY <1>3, <1>4

\* Initially nothing is delivered.
LEMMA OnceInit ==
  ASSUME Init
  PROVE  SerialInv /\ OnceInv /\ AtMostOnce
<1>1. /\ \A k \in Key : localCache[k] = NoMsg
      /\ \A r \in MatchRule : rules[r].copies = 0
      /\ remote = NoCache /\ session = NoSession /\ hist.delivered = {} /\ hist.twice = {}
  BY DEF Init, NoRule, NoHistory
<1>2. Stored = {} /\ Sent = {} /\ Routed = {}
  BY <1>1 DEF Stored, Sent, Routed, Cached
<1>3. Signals = {}
  BY <1>2 DEF Signals
<1> QED
  BY <1>1, <1>2, <1>3 DEF SerialInv, OnceInv, AtMostOnce

\* No endpoint is given a signal twice for a rule, over any number of failed tries and of rules
\* added between them, but for a signal whose mark an application of new rules cleared.
THEOREM AtMostOnceCorrect ==
  ASSUME NoWrap
  PROVE  Spec => []AtMostOnce
<1> DEFINE Inv == DeliveryInv /\ SerialInv /\ OnceInv /\ AtMostOnce
<1>1. Init => Inv
  BY DeliveryInit, OnceInit
<1>2. ASSUME TypeOK, AttemptInv, Inv, [Next]_vars PROVE Inv'
  <2>1. DeliveryInv'
    BY <1>2, DeliveryStep
  <2>2. SerialInv' /\ OnceInv' /\ AtMostOnce'
    BY <1>2, SerialStep, OnceStep, TwiceStep DEF DeliveryInv
  <2> QED
    BY <2>1, <2>2
<1>3. TypeOK /\ AttemptInv /\ Inv /\ [Next]_vars => Inv'
  BY <1>2
<1>4. Inv => AtMostOnce
  OBVIOUS
<1> QED
  BY <1>1, <1>3, <1>4, AttemptInvariant, PTL DEF Spec

-----------------------------------------------------------------------------
(* What is advertised is found.                                         *)

\* Unless its worker has an alarm pending, the provider advertises what it caches.
AdvertisedInv ==
  ~kicked => \A k \in Cached : \A i \in {Wild, IfaceOf[k]} :
                 lastAdvertisements[i] # NotAdvertised /\ localCache[k].id <= lastAdvertisements[i]

\* The consumer looks for the interfaces of its rules.
FindingInv == \A r \in Live(rules) : r.iface \in findingNames

\* What is to be looked for is, or a call is under way for it, or a late cancel has ended it.
SearchInv == \A i \in findingNames : i \in discovering \/ findCalls[i] > 0 \/ i \in lateCancels

\* An advertisement that is looked for is on its way, or the record knows it.
KnownInv ==
  ~hist.gaveUp => \A i \in discovering : lastAdvertisements[i] # NotAdvertised =>
      \/ [iface |-> i, changeId |-> lastAdvertisements[i]] \in air
      \/ remote # NoCache /\ i \in remote.ifaces /\ lastAdvertisements[i] <= remote.changeId

\* A record that has tries left is not erased when its work is scheduled.
LEMMA ScheduleWorkNotErased ==
  ASSUME NEW c \in Cache, ~Exhausted(c), NEW rs, NEW next
  PROVE  ScheduleWork(c, rs, next) # NoCache
<1>1. [c EXCEPT !.armed = TRUE] \in Cache
  BY DEF Cache
<1>2. ScheduleWork(c, rs, next) \in {c, [c EXCEPT !.armed = TRUE]}
  BY DEF ScheduleWork, Scheduled
<1> QED
  BY <1>1, <1>2

\* The worker's alarm stays pending until it goes off, and only then is anything advertised.
LEMMA KickedStep ==
  ASSUME TypeOK, [Next]_vars
  PROVE  ProviderAlarm \/ (lastAdvertisements' = lastAdvertisements /\ (kicked => kicked'))
<1> DEFINE P == lastAdvertisements' = lastAdvertisements /\ (kicked => kicked')
<1>1. ASSUME \/ \E k \in Key : PushMessage(k) \/ CancelMessage(k)
             \/ \E s \in {SenderOf[k] : k \in Key} : SenderLeaves(s)
             \/ OtherRequest
      PROVE  P
  BY <1>1, Zenon DEF PushMessage, CancelMessage, SenderLeaves, OtherRequest
<1>2. ASSUME NEW pos, Serve(pos) PROVE kicked => kicked'
  BY <1>2, Zenon DEF Serve
<1>3. ASSUME HandleRangeRequest \/ RangeRequestContinues
      PROVE  P
  BY <1>2, <1>3 DEF HandleRangeRequest, RangeRequestContinues
<1>4. ASSUME \/ \E r \in MatchRule : AddRule(r) \/ RemoveRule(r)
             \/ \E ep \in {r.ep : r \in MatchRule} : EndpointLeaves(ep)
             \/ \E name \in air : FoundAdvertisedName(name) \/ NameMissed(name)
             \/ DiscoveryCall
             \/ \E ok \in BOOLEAN : AlarmTriggered(ok)
             \/ AlarmResumes \/ JoinSessionCB \/ JoinFails
             \/ RouteSessionlessMessage \/ ProviderLeft
      PROVE  P
  <2>1. lastAdvertisements' = lastAdvertisements /\ kicked' = kicked
    BY <1>4, CallKeeps DEF AddRule, RemoveRule, EndpointLeaves, SetRules, FoundAdvertisedName, NameMissed,
                AlarmTriggered, AlarmResumes, JoinSessionCB, JoinFails, RouteSessionlessMessage,
                ProviderLeft, provider
  <2> QED
    BY <2>1, Zenon
<1>5. ASSUME SessionLost PROVE P
  <2>1. lastAdvertisements' = lastAdvertisements
    BY <1>5 DEF SessionLost
  <2>2. kicked => kicked'
    BY <1>5, Zenon DEF SessionLost
  <2> QED
    BY <2>1, <2>2
<1>6. ASSUME UNCHANGED vars PROVE P
  BY <1>6 DEF vars, provider
<1> HIDE DEF P
<1>7. ASSUME Next PROVE ProviderAlarm \/ P
  BY <1>1, <1>3, <1>4, <1>5, <1>7 DEF Next, DiscoveryCall
<1> QED
  BY <1>6, <1>7 DEF P

\* What is advertised is no older than what is cached.
LEMMA AdvertisedIsLatest ==
  ASSUME NEW cache \in [Key -> Msg \union {NoMsg}], NEW k \in Key, cache[k] # NoMsg, NEW i \in {Wild, IfaceOf[k]}
  PROVE  /\ i \in Iface /\ Advertisements(cache)[i] # NotAdvertised /\ Advertisements(cache)[i] \in Seqs
         /\ cache[k].id <= Advertisements(cache)[i]
<1> DEFINE ids == {cache[j].id : j \in {l \in Key : cache[l] # NoMsg /\ i \in {Wild, IfaceOf[l]}}}
<1>1. ids \in SUBSET Seqs
  BY DEF Msg
<1>2. cache[k].id \in ids
  OBVIOUS
<1>3. i \in Iface
  BY DEF Iface
<1>4. Advertisements(cache)[i] = IF ids = {} THEN NotAdvertised ELSE Max(ids)
  BY <1>3 DEF Advertisements
<1> HIDE DEF ids
<1>5. Max(ids) \in Seqs /\ cache[k].id <= Max(ids)
  BY <1>1, <1>2, MaxIn
<1> QED
  BY <1>2, <1>3, <1>4, <1>5 DEF NotAdvertised, Seqs

\* The provider keeps advertising what it caches, or has its alarm pending.
LEMMA AdvertisedStep ==
  ASSUME NoWrap, TypeOK, AttemptInv, CounterInv, AdvertisedInv, [Next]_vars
  PROVE  AdvertisedInv'
<1>1. /\ CacheStep /\ IssuedInv /\ ProviderOK /\ pushed \in Nat
      /\ localCache' \in [Key -> Msg \union {NoMsg}]
  BY ProviderCounts, TypeParts, TypeStep, TypePartsPrime DEF CounterInv, ProviderOK
<1>2. SUFFICES ASSUME ~kicked', NEW k \in Cached', NEW i \in {Wild, IfaceOf[k]}
               PROVE  lastAdvertisements'[i] # NotAdvertised /\ localCache'[k].id <= lastAdvertisements'[i]
  BY DEF AdvertisedInv
<1>3. k \in Key /\ localCache'[k] # NoMsg
  BY DEF Cached
<1>4. ~\E j \in Key : PushMessage(j)
  BY <1>2 DEF PushMessage
<1>5. localCache'[k] = localCache[k] /\ k \in Cached
  <2>1. pushed' # pushed + 1
    BY <1>1, <1>4, PushedStep
  <2> QED
    BY <1>1, <1>3, <2>1, OldOrNew DEF Cached
<1>6. CASE lastAdvertisements' = lastAdvertisements /\ (kicked => kicked')
  BY <1>2, <1>5, <1>6 DEF AdvertisedInv
<1>7. CASE ProviderAlarm
  <2> DEFINE adv == Advertisements(localCache')
             new == {j \in Iface : adv[j] # NotAdvertised /\ NeedsAdvertisement(j, adv[j])}
  <2>1. i \in Iface /\ adv[i] # NotAdvertised /\ adv[i] \in Seqs /\ localCache'[k].id <= adv[i]
    BY <1>1, <1>3, AdvertisedIsLatest
  <2>2. lastAdvertisements'[i] = IF i \in new THEN adv[i] ELSE lastAdvertisements[i]
    <3>1. PICK gone : localCache' = Without(gone) /\ UpdateAdvertisements(Without(gone))
      BY <1>7 DEF ProviderAlarm
    <3> QED
      BY <2>1, <3>1 DEF UpdateAdvertisements
  <2>3. CASE i \in new
    BY <2>1, <2>2, <2>3
  <2>4. CASE i \notin new
    <3>1. lastAdvertisements[i] # NotAdvertised /\ ~IS_GREATER(adv[i], lastAdvertisements[i])
          /\ lastAdvertisements[i] \in Seqs
      BY <1>1, <2>1, <2>4 DEF NeedsAdvertisement, ProviderOK
    <3>2. Issued(lastAdvertisements[i])
      BY <1>1, <2>1, <3>1 DEF IssuedInv
    <3>3. PICK a \in Seqs : a = adv[i] /\ Issued(a)
      <4>1. PICK j \in Key : localCache'[j] # NoMsg /\ adv[i] = localCache'[j].id
        BY <1>1, <2>1, AdvertisedIsCached
      <4>2. localCache'[j] = localCache[j]
        <5>1. pushed' # pushed + 1
          BY <1>1, <1>4, PushedStep
        <5> QED
          BY <1>1, <4>1, <5>1, OldOrNew
      <4> QED
        BY <1>1, <2>1, <4>1, <4>2 DEF IssuedInv, Cached
    <3>4. a <= lastAdvertisements[i]
      <4>1. /\ a \in Near /\ Rank(a) = a + 1
            /\ lastAdvertisements[i] \in Near /\ Rank(lastAdvertisements[i]) = lastAdvertisements[i] + 1
        BY <3>1, <3>2, <3>3, NearIds
      <4>2. ~(Rank(a) > Rank(lastAdvertisements[i]))
        BY <3>1, <3>3, <4>1, GreaterIsRank
      <4> QED
        BY <3>1, <3>3, <4>1, <4>2 DEF Seqs
    <3>5. localCache'[k].id \in Nat
      <4>1. localCache'[k] \in Msg
        BY <1>1, <1>3
      <4> QED
        BY <4>1 DEF Msg, Seqs
    <3> QED
      BY <2>1, <2>2, <2>4, <3>1, <3>3, <3>4, <3>5 DEF Seqs
  <2> QED
    BY <2>3, <2>4
<1> QED
  BY <1>6, <1>7, KickedStep

\* The rules and the names change when rules come and go, and with the calls about the names.
LEMMA NamesChange ==
  ASSUME TypeOK, [Next]_vars
  PROVE  \/ UNCHANGED ruleVars
         \/ \E r \in MatchRule : AddRule(r)
         \/ \E rs : SetRules(rs)
         \/ DiscoveryCall
<1>1. ProviderOK /\ RulesOK /\ BetweenOK
  BY TypeParts
<1>2. ASSUME \/ \E k \in Key : PushMessage(k) \/ CancelMessage(k)
             \/ \E s \in {SenderOf[k] : k \in Key} : SenderLeaves(s)
             \/ ProviderAlarm \/ OtherRequest \/ HandleRangeRequest \/ RangeRequestContinues
      PROVE  UNCHANGED ruleVars
  BY <1>1, <1>2, ProviderStep, RangeRequestStep DEF RulesOK
<1>3. ASSUME \/ \E name \in air : FoundAdvertisedName(name) \/ NameMissed(name)
             \/ \E ok \in BOOLEAN : AlarmTriggered(ok)
             \/ AlarmResumes \/ JoinSessionCB \/ JoinFails
             \/ RouteSessionlessMessage \/ ProviderLeft \/ SessionLost
      PROVE  UNCHANGED ruleVars
  BY <1>3 DEF FoundAdvertisedName, NameMissed, AlarmTriggered, AlarmResumes, JoinSessionCB, JoinFails,
              RouteSessionlessMessage, ProviderLeft, SessionLost
<1>4. ASSUME \/ \E r \in MatchRule : RemoveRule(r)
             \/ \E ep \in {r.ep : r \in MatchRule} : EndpointLeaves(ep)
      PROVE  \E rs : SetRules(rs)
  BY <1>4 DEF RemoveRule, EndpointLeaves
<1>5. CASE Next
  BY <1>2, <1>3, <1>4, <1>5 DEF Next, DiscoveryCall
<1> QED
  BY <1>5 DEF vars

\* What becomes of the names when rules go.
LEMMA FewerNames ==
  ASSUME NEW rs, SetRules(rs)
  PROVE  /\ findingNames' = IF Live(rs) = {} THEN {} ELSE findingNames
         /\ UNCHANGED <<findCalls, discovering, lateCancels, air, lastAdvertisements, nextRulesId>>
         /\ rules' = rs
  BY DEF SetRules, CancelFindAdvertisedNames, discovery, provider

\* Rules are added with the search for their names, and it ends with the last of them.
LEMMA FindingStep ==
  ASSUME NoWrap, TypeOK, AttemptInv, RulesInv, FindingInv, [Next]_vars
  PROVE  FindingInv'
<1>1. RulesChange /\ nextRulesId \in Nat
  BY RulesCount, TypeParts DEF RulesOK, Seqs
<1>2. ASSUME NEW r \in MatchRule, AddRule(r) PROVE FindingInv'
  <2>1. findingNames' = findingNames \union ({q.iface : q \in Live(rules')} \union {Wild})
    BY <1>2 DEF AddRule, FindAdvertisedNames
  <2> QED
    BY <2>1 DEF FindingInv
<1>3. ASSUME NEW rs, SetRules(rs) PROVE FindingInv'
  <2>1. nextRulesId' = nextRulesId /\ findingNames' = IF Live(rules') = {} THEN {} ELSE findingNames
    BY <1>3, FewerNames
  <2>2. Live(rules') \subseteq Live(rules)
    <3>1. nextRulesId' # nextRulesId + 1
      BY <1>1, <2>1
    <3> QED
      BY <1>1, <3>1 DEF RulesChange
  <2> QED
    BY <2>1, <2>2 DEF FindingInv
<1>4. ASSUME UNCHANGED <<rules, findingNames>> PROVE FindingInv'
  BY <1>4 DEF FindingInv
<1>5. CASE UNCHANGED ruleVars
  BY <1>4, <1>5 DEF ruleVars, discovery
<1>6. CASE DiscoveryCall
  BY <1>4, <1>6, CallKeeps
<1> QED
  BY <1>2, <1>3, <1>5, <1>6, NamesChange

\* A name that is noted has a call under way; the call starts the search, and only a late cancel ends it.
LEMMA SearchStep ==
  ASSUME TypeOK, SearchInv, [Next]_vars
  PROVE  SearchInv'
<1>1. /\ findCalls \in [Iface -> Nat]
      /\ findingNames \subseteq Iface /\ discovering \subseteq Iface /\ findingNames' \subseteq Iface
  <2>1. CASE DiscoveryCall
    BY <2>1, CallKeeps DEF TypeOK
  <2>2. CASE UNCHANGED ruleVars
    BY <2>2 DEF TypeOK, ruleVars, discovery
  <2>3. ASSUME NEW r \in MatchRule, AddRule(r) PROVE findingNames' \subseteq Iface
    BY <2>3 DEF AddRule, FindAdvertisedNames, Live, Iface, TypeOK
  <2>4. ASSUME NEW rs, SetRules(rs) PROVE findingNames' \subseteq Iface
    BY <2>4, FewerNames DEF TypeOK
  <2> QED
    BY <2>1, <2>2, <2>3, <2>4, NamesChange DEF TypeOK
<1>2. ASSUME NEW r \in MatchRule, AddRule(r) PROVE SearchInv'
  <2> DEFINE names == {q.iface : q \in Live(rules')} \union {Wild}
  <2>1. /\ findingNames' = findingNames \union names
        /\ findCalls' = Called(findCalls, names \ findingNames)
        /\ UNCHANGED <<discovering, lateCancels>>
    BY <1>2 DEF AddRule, FindAdvertisedNames
  <2> HIDE DEF names
  <2>2. SUFFICES ASSUME NEW i \in findingNames'
                 PROVE  i \in discovering \/ findCalls'[i] > 0 \/ i \in lateCancels
    BY <2>1 DEF SearchInv
  <2>3. i \in Iface /\ findCalls[i] \in Nat
        /\ findCalls'[i] = IF i \in names \ findingNames THEN findCalls[i] + 1 ELSE findCalls[i]
    BY <1>1, <2>1 DEF Called
  <2>4. CASE i \in findingNames
    BY <2>3, <2>4 DEF SearchInv
  <2>5. CASE i \notin findingNames
    BY <2>1, <2>3, <2>5
  <2> QED
    BY <2>4, <2>5
<1>3. ASSUME NEW rs, SetRules(rs) PROVE SearchInv'
  <2>1. findingNames' \subseteq findingNames /\ UNCHANGED <<findCalls, discovering, lateCancels>>
    BY <1>3, FewerNames
  <2> QED
    BY <2>1 DEF SearchInv
<1>4. ASSUME NEW j \in Iface, FindAdvertisementByTransport(j) PROVE SearchInv'
  <2>1. /\ findingNames' = findingNames /\ discovering' = discovering \union {j} /\ lateCancels' = lateCancels \ {j}
        /\ findCalls' = [findCalls EXCEPT ![j] = findCalls[j] - 1]
    BY <1>4 DEF FindAdvertisementByTransport
  <2>2. SUFFICES ASSUME NEW i \in findingNames
                 PROVE  i \in discovering' \/ findCalls'[i] > 0 \/ i \in lateCancels'
    BY <2>1 DEF SearchInv
  <2>3. i # j => findCalls'[i] = findCalls[i]
    BY <1>1, <2>1
  <2> QED
    BY <2>1, <2>3 DEF SearchInv
<1>5. ASSUME NEW j \in Iface, CancelFindAdvertisementByTransport(j) PROVE SearchInv'
  <2>1. /\ findingNames' = findingNames /\ discovering' = discovering \ {j} /\ findCalls' = findCalls
        /\ lateCancels \subseteq lateCancels' /\ (j \in findingNames => j \in lateCancels')
    BY <1>5 DEF CancelFindAdvertisementByTransport
  <2> QED
    BY <2>1 DEF SearchInv
<1>6. CASE UNCHANGED ruleVars
  BY <1>6 DEF SearchInv, ruleVars, discovery
<1>7. CASE DiscoveryCall
  BY <1>4, <1>5, <1>7 DEF DiscoveryCall
<1> QED
  BY <1>2, <1>3, <1>6, <1>7, NamesChange

\* What is advertised reaches the record, however it changes on the way.
LEMMA KnownStep ==
  ASSUME NoWrap, TypeOK, AttemptInv, CounterInv, KnownInv, [Next]_vars
  PROVE  KnownInv'
<1>1. SUFFICES ASSUME ~hist'.gaveUp, NEW i \in discovering', lastAdvertisements'[i] # NotAdvertised
               PROVE  \/ [iface |-> i, changeId |-> lastAdvertisements'[i]] \in air'
                      \/ /\ remote' # NoCache /\ i \in remote'.ifaces
                         /\ lastAdvertisements'[i] <= remote'.changeId
  BY DEF KnownInv
<1>2. /\ IssuedInv /\ ProviderOK /\ BetweenOK /\ RulesOK /\ hist \in History
  BY TypeParts DEF CounterInv, RemoteOK
<1>3. ~hist.gaveUp /\ (remote # NoCache => remote' # NoCache)
  <2>1. ~hist.gaveUp
    <3>1. HistChange
      BY HistStep
    <3>2. CASE RouteSessionlessMessage
      BY <1>1, <3>2, RouteGives
    <3> QED
      BY <1>1, <3>1, <3>2 DEF HistChange
  <2>2. ASSUME remote # NoCache, remote' = NoCache PROVE FALSE
    <3>1. hist'.gaveUp = TRUE
      BY <2>2, ErasureForgets DEF NoHistory
    <3> QED
      BY <1>1, <3>1
  <2> QED
    BY <2>1, <2>2
<1> DEFINE Known(last) == \/ [iface |-> i, changeId |-> last] \in air
                          \/ remote # NoCache /\ i \in remote.ifaces /\ last <= remote.changeId
           Known1(last) == \/ [iface |-> i, changeId |-> last] \in air'
                           \/ remote' # NoCache /\ i \in remote'.ifaces /\ last <= remote'.changeId
<1>4. ASSUME i \in discovering, lastAdvertisements[i] # NotAdvertised
      PROVE  Known(lastAdvertisements[i])
  BY <1>3, <1>4 DEF KnownInv
<1>5. ASSUME NEW last, Known(last), air \subseteq air',
             ~\E name \in air : FoundAdvertisedName(name)
      PROVE  Known1(last)
  BY <1>3, <1>5, RecordKeeps
<1>6. CASE ProviderAlarm
  <2>1. ~\E name \in air : FoundAdvertisedName(name)
    <3>1. ASSUME NEW name \in air, FoundAdvertisedName(name) PROVE FALSE
      <4>1. air' = air \ {name}
        BY <3>1 DEF FoundAdvertisedName
      <4>2. air \subseteq air'
        BY <1>6 DEF ProviderAlarm, UpdateAdvertisements
      <4> QED
        BY <4>1, <4>2
    <3> QED
      BY <3>1
  <2>2. PICK gone : localCache' = Without(gone) /\ UpdateAdvertisements(Without(gone))
    BY <1>6 DEF ProviderAlarm
  <2> DEFINE adv == Advertisements(Without(gone))
             new == {j \in Iface : adv[j] # NotAdvertised /\ NeedsAdvertisement(j, adv[j])}
  <2>3. discovering' = discovering /\ i \in Iface
    BY <1>1, <1>2, <1>6 DEF ProviderAlarm, ruleVars, discovery, RulesOK
  <2>4. /\ lastAdvertisements'[i] = IF i \in new \/ adv[i] = NotAdvertised THEN adv[i] ELSE lastAdvertisements[i]
        /\ air' = air \union {[iface |-> j, changeId |-> adv[j]] : j \in new \intersect discovering}
    BY <2>2, <2>3 DEF UpdateAdvertisements
  <2>5. CASE i \in new
    BY <1>1, <2>3, <2>4, <2>5
  <2>6. CASE i \notin new
    <3>1. lastAdvertisements'[i] = lastAdvertisements[i] /\ air \subseteq air'
      BY <1>1, <2>4, <2>6
    <3> HIDE DEF Known, Known1
    <3>2. Known1(lastAdvertisements[i])
      BY <1>1, <1>4, <1>5, <2>1, <2>3, <3>1
    <3> QED
      BY <3>1, <3>2 DEF Known1
  <2> QED
    BY <2>5, <2>6
<1>7. ASSUME lastAdvertisements' = lastAdvertisements, air' = air, discovering' \subseteq discovering
      PROVE  Known1(lastAdvertisements'[i])
  <2>1. ~\E name \in air : FoundAdvertisedName(name)
    BY <1>7 DEF FoundAdvertisedName
  <2> HIDE DEF Known, Known1
  <2> QED
    BY <1>1, <1>4, <1>5, <1>7, <2>1
<1>8. ASSUME DiscoveryCall PROVE Known1(lastAdvertisements'[i])
  <2>1. lastAdvertisements' = lastAdvertisements
    BY <1>8, CallKeeps DEF provider
  <2>2. PICK j \in Iface : FindAdvertisementByTransport(j) \/ CancelFindAdvertisementByTransport(j)
    BY <1>8 DEF DiscoveryCall
  <2>3. CASE FindAdvertisementByTransport(j)
    <3>1. /\ discovering' = discovering \union {j}
          /\ air' = IF j \in discovering \/ lastAdvertisements[j] = NotAdvertised THEN air
                    ELSE air \union {[iface |-> j, changeId |-> lastAdvertisements[j]]}
      BY <2>3 DEF FindAdvertisementByTransport
    <3>2. CASE i \in discovering
      <4>1. air \subseteq air'
        BY <3>1
      <4>2. ~\E name \in air : FoundAdvertisedName(name)
        BY <4>1 DEF FoundAdvertisedName
      <4> HIDE DEF Known, Known1
      <4> QED
        BY <1>1, <1>4, <1>5, <2>1, <3>2, <4>1, <4>2
    <3>3. CASE i \notin discovering
      <4>1. i = j
        BY <1>1, <3>1, <3>3
      <4> QED
        BY <1>1, <2>1, <3>1, <3>3, <4>1
    <3> QED
      BY <3>2, <3>3
  <2>4. CASE CancelFindAdvertisementByTransport(j)
    <3>1. air' = air /\ discovering' \subseteq discovering
      BY <2>4 DEF CancelFindAdvertisementByTransport
    <3> QED
      BY <1>7, <2>1, <3>1
  <2> QED
    BY <2>2, <2>3, <2>4
<1>9. ASSUME NEW name \in air, FoundAdvertisedName(name) PROVE Known1(lastAdvertisements'[i])
  <2>1. /\ air' = air \ {name} /\ discovering' = discovering /\ lastAdvertisements' = lastAdvertisements
    BY <1>9 DEF FoundAdvertisedName, provider, ruleVars, discovery
  <2>2. remote' # NoCache
    <3>1. CASE remote = NoCache
      <4>1. ASSUME remote' = NoCache PROVE FALSE
        <5>1. remote' = ScheduleWork(RemoteCache(name), rules, nextRulesId)
          BY <1>9, <3>1 DEF FoundAdvertisedName, SetRemote
        <5>2. name \in Name
          BY <1>2 DEF BetweenOK
        <5>3. RemoteCache(name) \in Cache /\ ~Exhausted(RemoteCache(name))
          BY <5>2, RemoteCacheType, BoundsType DEF RemoteCache, Exhausted
        <5>4. ScheduleWork(RemoteCache(name), rules, nextRulesId) # NoCache
          BY <5>3, ScheduleWorkNotErased
        <5> QED
          BY <4>1, <5>1, <5>4
      <4> QED
        BY <4>1
    <3> QED
      BY <1>3, <3>1
  <2>3. /\ name.iface \in remote'.ifaces
        /\ remote = NoCache => remote'.changeId = name.changeId
        /\ remote # NoCache => /\ remote.ifaces \subseteq remote'.ifaces
                               /\ remote'.changeId = IF IS_GREATER(name.changeId, remote.changeId)
                                                     THEN name.changeId ELSE remote.changeId
    BY <1>9, <2>2, FoundKnows
  <2>4. /\ name.changeId \in Near /\ name.changeId \in Nat /\ Rank(name.changeId) = name.changeId + 1
    <3>1. name.changeId \in Seqs /\ Issued(name.changeId)
      BY <1>2 DEF BetweenOK, Name, IssuedInv
    <3> QED
      BY <3>1, NearIds DEF Seqs
  <2>5. ASSUME remote # NoCache
        PROVE  /\ remote.changeId \in Nat /\ remote.changeId <= remote'.changeId
               /\ name.changeId <= remote'.changeId
    <3>1. remote.changeId \in Seqs /\ Issued(remote.changeId)
      BY <1>2, <2>5, TypeParts DEF RemoteOK, Cache, IssuedInv
    <3>2. /\ remote.changeId \in Near /\ remote.changeId \in Nat /\ Rank(remote.changeId) = remote.changeId + 1
      BY <3>1, NearIds DEF Seqs
    <3>3. IS_GREATER(name.changeId, remote.changeId) <=> name.changeId + 1 > remote.changeId + 1
      BY <2>4, <3>2, GreaterIsRank
    <3> QED
      BY <2>3, <2>4, <2>5, <3>2, <3>3
  <2>6. lastAdvertisements[i] \in Seqs
    BY <1>1, <1>2, <2>1 DEF ProviderOK, RulesOK
  <2>7. Known(lastAdvertisements[i])
    <3> HIDE DEF Known
    <3> QED
      BY <1>1, <1>4, <2>1
  <2>8. CASE name = [iface |-> i, changeId |-> lastAdvertisements[i]]
    <3>1. name.iface = i /\ name.changeId = lastAdvertisements[i]
      BY <2>8
    <3> QED
      BY <2>1, <2>2, <2>3, <2>4, <2>5, <3>1
  <2>9. CASE /\ [iface |-> i, changeId |-> lastAdvertisements[i]] \in air
             /\ name # [iface |-> i, changeId |-> lastAdvertisements[i]]
    BY <2>1, <2>9
  <2>10. CASE remote # NoCache /\ i \in remote.ifaces /\ lastAdvertisements[i] <= remote.changeId
    <3>1. remote'.changeId \in Nat
      BY <2>3, <2>4, <2>5, <2>10
    <3> QED
      BY <2>1, <2>2, <2>3, <2>5, <2>6, <2>10, <3>1 DEF Seqs
  <2> QED
    BY <2>7, <2>8, <2>9, <2>10
<1>10. ASSUME NEW name \in air, NameMissed(name) PROVE Known1(lastAdvertisements'[i])
  <2>1. /\ air' = air \ {name} /\ discovering' = discovering /\ lastAdvertisements' = lastAdvertisements
        /\ lastAdvertisements[name.iface] # name.changeId /\ remote' = remote
    BY <1>10 DEF NameMissed, provider, ruleVars, discovery
  <2>2. name # [iface |-> i, changeId |-> lastAdvertisements[i]]
    <3>1. ASSUME name = [iface |-> i, changeId |-> lastAdvertisements[i]] PROVE FALSE
      <4>1. name.iface = i /\ name.changeId = lastAdvertisements[i]
        BY <3>1
      <4> QED
        BY <2>1, <4>1
    <3> QED
      BY <3>1
  <2>3. Known(lastAdvertisements[i])
    <3> HIDE DEF Known
    <3> QED
      BY <1>1, <1>4, <2>1
  <2> QED
    BY <2>1, <2>2, <2>3
<1>11. ASSUME (\E r \in MatchRule : AddRule(r)) \/ (\E rs : SetRules(rs)) PROVE Known1(lastAdvertisements'[i])
  <2>1. lastAdvertisements' = lastAdvertisements /\ air' = air /\ discovering' = discovering
    BY <1>11, FewerNames DEF AddRule, FindAdvertisedNames, provider
  <2> QED
    BY <1>7, <2>1
<1>12. ASSUME \/ \E k \in Key : PushMessage(k) \/ CancelMessage(k)
              \/ \E s \in {SenderOf[k] : k \in Key} : SenderLeaves(s)
              \/ OtherRequest \/ HandleRangeRequest \/ RangeRequestContinues
       PROVE  Known1(lastAdvertisements'[i])
  <2>1. lastAdvertisements' = lastAdvertisements /\ air' = air /\ discovering' = discovering
    BY <1>12 DEF PushMessage, CancelMessage, SenderLeaves, OtherRequest, HandleRangeRequest,
                 RangeRequestContinues, ruleVars, discovery
  <2> QED
    BY <1>7, <2>1
<1>13. ASSUME \/ \E ok \in BOOLEAN : AlarmTriggered(ok)
              \/ AlarmResumes \/ JoinSessionCB \/ JoinFails
              \/ RouteSessionlessMessage \/ ProviderLeft \/ SessionLost
       PROVE  Known1(lastAdvertisements'[i])
  <2>1. lastAdvertisements' = lastAdvertisements /\ air' = air /\ discovering' = discovering
    BY <1>13 DEF AlarmTriggered, AlarmResumes, JoinSessionCB, JoinFails, RouteSessionlessMessage, ProviderLeft,
                 SessionLost, provider, ruleVars, discovery
  <2> QED
    BY <1>7, <2>1
<1>14. ASSUME \/ \E r \in MatchRule : AddRule(r) \/ RemoveRule(r)
              \/ \E ep \in {r.ep : r \in MatchRule} : EndpointLeaves(ep)
       PROVE  Known1(lastAdvertisements'[i])
  BY <1>11, <1>14 DEF RemoveRule, EndpointLeaves
<1>15. ASSUME UNCHANGED vars PROVE Known1(lastAdvertisements'[i])
  BY <1>7, <1>15 DEF vars, provider, ruleVars, discovery
<1>16. Known1(lastAdvertisements'[i])
  <2>1. CASE ProviderAlarm
    BY <1>6, <2>1
  <2> HIDE DEF Known1
  <2>2. CASE Next
    BY <1>8, <1>9, <1>10, <1>12, <1>13, <1>14, <2>1, <2>2 DEF Next, DiscoveryCall
  <2> QED
    BY <1>15, <2>2
<1> QED
  BY <1>16

-----------------------------------------------------------------------------
(* With nothing on its way, everything is served.                       *)

\* The discovery invariant.
DiscoveryInv == AdvertisedInv /\ FindingInv /\ SearchInv /\ KnownInv

\* Initially nothing is advertised and nothing looked for.
LEMMA DiscoveryInit ==
  ASSUME Init
  PROVE  DiscoveryInv
<1>1. /\ \A k \in Key : localCache[k] = NoMsg
      /\ \A r \in MatchRule : rules[r].copies = 0
      /\ findingNames = {} /\ discovering = {}
  BY DEF Init, NoRule
<1>2. Cached = {}
  BY <1>1 DEF Cached
<1>3. Live(rules) = {}
  BY <1>1 DEF Live
<1> QED
  BY <1>1, <1>2, <1>3 DEF DiscoveryInv, AdvertisedInv, FindingInv, SearchInv, KnownInv

\* With nothing on its way, what a rule asks for is known, and with no alarm armed it is counted.
LEMMA QuietIsServed ==
  ASSUME NoWrap, TypeOK, AttemptInv, DeliveryInv, DiscoveryInv, WorkScheduled
  PROVE  QuietMeansServed
<1>1. SUFFICES ASSUME Quiet, ~hist.gaveUp, ~Overshadowed, NEW k \in Cached, NEW r \in Live(rules), Matches(r, k),
                      r.iface \notin lateCancels
               PROVE  Given(k, r)
  BY DEF QuietMeansServed, Given
<1>2. /\ ProviderOK /\ RulesOK /\ CounterInv /\ IssuedInv /\ RulesInv /\ ReceivedInv /\ CountedGiven
  BY TypeParts DEF DeliveryInv, CounterInv
<1>3. ~kicked /\ air = {} /\ ~worker.busy /\ session = NoSession /\ (remote # NoCache => ~remote.armed)
  BY <1>1 DEF Quiet
<1>4. PICK i : i = r.iface /\ i \in {Wild, IfaceOf[k]}
  BY <1>1 DEF Matches
<1>5. lastAdvertisements[i] # NotAdvertised /\ localCache[k].id <= lastAdvertisements[i]
  BY <1>3, <1>4 DEF DiscoveryInv, AdvertisedInv
<1>6. i \in discovering
  <2>1. i \in findingNames /\ i \in Iface
    BY <1>2, <1>4 DEF DiscoveryInv, FindingInv, RulesOK
  <2>2. ~(findCalls[i] > 0)
    BY <1>1, <2>1 DEF Quiet
  <2> QED
    BY <1>1, <1>4, <2>1, <2>2 DEF DiscoveryInv, SearchInv
<1>7. remote # NoCache /\ i \in remote.ifaces /\ lastAdvertisements[i] <= remote.changeId
  BY <1>1, <1>3, <1>5, <1>6 DEF DiscoveryInv, KnownInv
<1>8. remote \in Cache /\ remote.state = "IDLE"
  <2>1. remote \in Cache
    BY <1>7, TypeParts DEF RemoteOK
  <2>2. remote.state # "IN_PROGRESS"
    BY <1>3, <1>7 DEF AttemptInv, InProgressIsAttempt
  <2> QED
    BY <2>1, <2>2 DEF Cache
<1>9. PendingWork(remote, rules, nextRulesId) = "NONE"
  BY <1>3, <1>7, <1>8 DEF WorkScheduled
<1>10. ~(remote.haveReceived /\ IS_GREATER(Minus(nextRulesId, 1), remote.appliedRulesId))
  BY <1>1, <1>7, <1>9 DEF Overshadowed
<1>11. /\ remote.receivedChangeId \in Near /\ remote.appliedRulesId \in Near /\ remote.changeId \in Near
       /\ Minus(nextRulesId, 1) \in Near /\ Rank(Minus(nextRulesId, 1)) = nextRulesId
  BY <1>2, <1>7, NearIds
<1>12. nextRulesId \in Nat /\ nextRulesId \in Seqs /\ nextRulesId < Half
  BY <1>2, BoundsType, HalfWay DEF RulesOK, RulesInv, NoWrap, Seqs
<1>13. /\ rules[r].id \in Seqs /\ rules[r].id \in Nat /\ rules[r].id < nextRulesId
       /\ rules[r].id \in Near /\ rules[r].id # Largest
  <2>1. rules[r].id \in Seqs /\ rules[r].id < nextRulesId
    BY <1>2 DEF RulesOK, RulesInv, Live
  <2>2. rules[r].id # Largest /\ rules[r].id + 1 < Half
    BY <1>2, <1>12, <2>1, BoundsType, HalfWay DEF Largest, Seqs, RulesInv, NoWrap
  <2> QED
    BY <2>1, <2>2, RankOf DEF Near, Seqs
<1>14. IsMatch(remote, rules, Minus(remote.appliedRulesId, Half), nextRulesId)
  <2>1. InRange(Minus(remote.appliedRulesId, Half), nextRulesId, rules[r].id)
    BY <1>11, <1>12, <1>13, RangeBelow
  <2> QED
    BY <1>4, <1>7, <2>1 DEF IsMatch, RulesIn
<1>15. ~IS_GREATER(remote.changeId, remote.receivedChangeId)
  BY <1>9, <1>10, <1>14 DEF PendingWork
<1>16. Rank(remote.changeId) <= Rank(remote.receivedChangeId)
       /\ Rank(remote.changeId) = remote.changeId + 1 /\ remote.changeId \in Nat
       /\ Rank(remote.receivedChangeId) \in Nat
  <2>1. remote.changeId \in Seqs /\ Issued(remote.changeId) /\ remote.receivedChangeId \in Seqs
    BY <1>2, <1>7, <1>8 DEF IssuedInv, Cache
  <2>2. Rank(remote.changeId) = remote.changeId + 1 /\ remote.changeId \in Nat
    BY <1>2, <2>1, NearIds DEF Seqs
  <2>3. Rank(remote.receivedChangeId) \in Nat
    BY <2>1, RankOf DEF Seqs
  <2>4. ~(Rank(remote.changeId) > Rank(remote.receivedChangeId))
    BY <1>11, <1>15, GreaterIsRank
  <2> QED
    BY <2>2, <2>3, <2>4
<1>17. remote.haveReceived
  <2>1. remote.receivedChangeId # Largest
    <3>1. Rank(Largest) = 0
      BY Offsets, RankOf
    <3> QED
      BY <1>16, <3>1
  <2> QED
    BY <1>2, <1>7, <2>1 DEF ReceivedInv
<1>18. nextRulesId <= Rank(remote.appliedRulesId) /\ Rank(remote.appliedRulesId) \in Nat
  <2>1. Rank(remote.appliedRulesId) \in Nat
    BY <1>8, RankOf DEF Cache, Seqs
  <2>2. ~(nextRulesId > Rank(remote.appliedRulesId))
    BY <1>10, <1>11, <1>17, GreaterIsRank
  <2> QED
    BY <1>12, <2>1, <2>2
<1>19. localCache[k].id < Rank(remote.receivedChangeId)
  <2>1. localCache[k] \in Msg /\ k \in Key
    BY <1>2 DEF ProviderOK, Cached
  <2>2. localCache[k].id \in Nat
    BY <2>1 DEF Msg, Seqs
  <2>3. lastAdvertisements[i] \in Nat
    BY <1>2, <1>4, <1>5, <2>1 DEF ProviderOK, Iface, Seqs
  <2> QED
    BY <1>5, <1>7, <1>16, <2>2, <2>3
<1>20. rules[r].id < Rank(remote.appliedRulesId)
  BY <1>12, <1>13, <1>18
<1> QED
  BY <1>1, <1>2, <1>7, <1>17, <1>19, <1>20 DEF CountedGiven

\* When nothing is left to happen by itself everyone is served: no interleaving of pushes, rules,
\* advertisements, requests and failures leaves a signal that a rule asks for behind, but for what
\* QuietMeansServed excepts.
THEOREM QuietCorrect ==
  ASSUME NoWrap
  PROVE  Spec => []QuietMeansServed
<1> DEFINE Inv == DeliveryInv /\ DiscoveryInv
<1>1. Init => Inv
  BY DeliveryInit, DiscoveryInit
<1>2. ASSUME TypeOK, AttemptInv, Inv, [Next]_vars PROVE Inv'
  <2>1. DeliveryInv'
    BY <1>2, DeliveryStep
  <2>2. AdvertisedInv' /\ FindingInv' /\ SearchInv' /\ KnownInv'
    BY <1>2, AdvertisedStep, FindingStep, SearchStep, KnownStep DEF DeliveryInv, CounterInv, DiscoveryInv
  <2> QED
    BY <2>1, <2>2 DEF DiscoveryInv
<1>3. TypeOK /\ AttemptInv /\ Inv /\ [Next]_vars => Inv'
  BY <1>2
<1>4. TypeOK /\ AttemptInv /\ Inv /\ WorkScheduled => QuietMeansServed
  BY QuietIsServed
<1> QED
  BY <1>1, <1>3, <1>4, AttemptInvariant, ScheduleCorrect, PTL DEF Spec

=============================================================================
