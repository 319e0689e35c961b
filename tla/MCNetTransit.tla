---------------------------- MODULE MCNetTransit ----------------------------
(* Endpoints a and b reach endpoint c through one switch: their routes share *)
(* the interface out of the switch and the interface of c.                   *)
EXTENDS NetTransit

CONSTANTS a, b, sa, sb, sc, c

SharedIntrfcs == {a, b, sa, sb, sc, c}

FromA == <<[src |-> a, dst |-> sa], [src |-> sc, dst |-> c]>>
FromB == <<[src |-> b, dst |-> sb], [src |-> sc, dst |-> c]>>

SharedRoutes == {FromA, FromB}

FlowFromA == {FromA}

\* a's side of the switch has an MTU smaller than the messages.
SmallMTU == [i \in SharedIntrfcs |-> IF i = sa THEN 1 ELSE 0]

=============================================================================
