---------------------------- MODULE EventChannel ----------------------------
(***************************************************************************)
(* What the Node binding promises its JavaScript listeners: every native   *)
(* callback posted on a holder (foundName, lostName, nameChanged,          *)
(* signalCallback, joinedCallback) reaches the JavaScript function of that *)
(* holder exactly once and in the order of the posts.  Nothing is promised *)
(* between two holders.                                                    *)
(***************************************************************************)
EXTENDS Sequences

CONSTANTS Holder,  \* the callback holders, one JavaScript function each
          Event    \* the payloads

VARIABLES inflight,   \* posted and not yet seen by JavaScript, per holder
          delivered   \* the calls JavaScript received, per holder

channelVars == <<inflight, delivered>>

Init == /\ inflight = [h \in Holder |-> <<>>]
        /\ delivered = [h \in Holder |-> <<>>]

Post(h, e) == /\ inflight' = [inflight EXCEPT ![h] = Append(@, e)]
              /\ UNCHANGED delivered

Deliver(h) == /\ inflight[h] # <<>>
              /\ delivered' = [delivered EXCEPT ![h] = Append(@, Head(inflight[h]))]
              /\ inflight' = [inflight EXCEPT ![h] = Tail(@)]

Next == \E h \in Holder : Deliver(h) \/ \E e \in Event : Post(h, e)

\* The safety part alone, for the proofs.
SafeSpec == Init /\ [][Next]_channelVars

Spec == SafeSpec /\ \A h \in Holder : WF_channelVars(Deliver(h))
=============================================================================
