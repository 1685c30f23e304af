-------------------------- MODULE MCSessionlessObj --------------------------
(* Small instances of SessionlessObj: signals of one sender on one interface; *)
(* rules of two endpoints, for any interface or for that one.               *)
EXTENDS SessionlessObj

MCIface == [k \in Key |-> "I"]
MCSender == [k \in Key |-> "s"]
RuleOf(e, i) == [ep |-> e, iface |-> i]
NamedAndWild == {RuleOf("e", "I"), RuleOf("f", Wild)}
BothWild == {RuleOf("e", Wild), RuleOf("f", Wild)}
=============================================================================
