------------------------------ MODULE MCParams ------------------------------
(* Three interfaces, a network, an endpoint and a flow, and assignments of  *)
(* every kind.                                                             *)
EXTENDS Params

NamesOf == {"i1", "i2", "i3", "n1", "e1", "f1"}

KindOf == [i1 |-> "Interface", i2 |-> "Interface", i3 |-> "Interface",
           n1 |-> "Network", e1 |-> "Endpoint", f1 |-> "Flow"]

AttributesOf ==
  [i1 |-> {<<"name", "i1">>, <<"group", "g">>, <<"media", "wired">>, <<"devtype", "Switch">>},
   i2 |-> {<<"name", "i2">>, <<"media", "wired">>},
   i3 |-> {<<"name", "i3">>, <<"group", "g">>, <<"media", "wired">>, <<"devtype", "Router">>},
   n1 |-> {<<"name", "n1">>, <<"media", "wired">>},
   e1 |-> {<<"name", "e1">>, <<"group", "g">>},
   f1 |-> {<<"name", "f1">>}]

ModelOf == [o \in NamesOf |-> 1]

Order == <<"MTU", "bandwidth", "bckgrndSrv", "latency", "model", "reqrate", "trace">>

V(kind, num, rank) == [kind |-> kind, num |-> num, rank |-> rank]
A(obj, attributes, param, v) ==
  [paramObj |-> obj, attributes |-> attributes, param |-> param, value |-> v]

\* As strings, "100" comes before "20", then "30", "5.5" and "7".
Assignments ==
  {A("Interface", <<<<"*", "">>>>, "bandwidth", V("int", 7, 5)),
   A("Interface", <<<<"media", "wired">>>>, "bandwidth", V("int", 100, 1)),
   A("Interface", <<<<"group", "g">>>>, "bandwidth", V("float", 5, 4)),
   A("Interface", <<<<"group", "g">>, <<"devtype", "Switch">>>>, "bandwidth", V("int", 20, 2)),
   A("Interface", <<<<"name", "i1">>>>, "bandwidth", V("int", 30, 3)),
   A("Interface", <<<<"name", "i1">>, <<"group", "g">>>>, "bandwidth", V("int", 100, 1)),
   A("Interface", <<<<"name", "i2">>>>, "trace", V("true", 1, 9)),
   A("Endpoint", <<<<"name", "e1">>>>, "model", V("text", 2, 8)),
   A("Endpoint", <<<<"model", 1>>>>, "bckgrndSrv", V("float", 5, 4)),
   A("Flow", <<<<"name", "f1">>>>, "reqrate", V("int", 20, 2))}

\* Between an assignment and a more general one stands a third, incomparable to
\* both, of another parameter.
OneBetween ==
  {A("Interface", <<<<"group", "g">>, <<"devtype", "Switch">>>>, "bandwidth", V("int", 20, 2)),
   A("Interface", <<<<"media", "wired">>>>, "latency", V("int", 7, 5)),
   A("Interface", <<<<"group", "g">>>>, "bandwidth", V("float", 5, 4))}
=============================================================================
