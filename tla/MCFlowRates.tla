---------------------------- MODULE MCFlowRates ----------------------------
(* Endpoints a and b send flows through one switch to endpoint c, over the   *)
(* networks n1 (a, sa), n2 (b, sb) and n3 (sc, c).                           *)
EXTENDS FlowRates, TLC

CONSTANTS a, b, sa, sb, sc, c, f1, f2, f3

FromA == <<[src |-> a, dst |-> sa], [src |-> sc, dst |-> c]>>
FromB == <<[src |-> b, dst |-> sb], [src |-> sc, dst |-> c]>>

TwoRoutes == f1 :> FromA @@ f2 :> FromB
ThreeFlows == f1 :> FromA @@ f2 :> FromB @@ f3 :> FromA

SixEach == [i \in {a, b, sa, sb, sc, c} |-> 6]

\* Networks faster than two interfaces together, but for n3.
WideNets == [i \in {a, b, sa, sb, sc, c} |-> IF i \in {sc, c} THEN 9 ELSE 24]

AnyElastic == SUBSET Flows

\* None, the flow from b, or the two flows from a, which may trade places.
NoneOneOrTwo == {{}, {f2}, {f1, f3}}
Symmetry == Permutations({f1, f3})

=============================================================================
