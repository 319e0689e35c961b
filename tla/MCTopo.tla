-------------------------------- MODULE MCTopo --------------------------------
(***************************************************************************)
(* Two endpoints, a router, and another router that ConnectNetworks        *)
(* may create, between a wired and a wireless network.                     *)
(***************************************************************************)
EXTENDS Routes, TLC

CONSTANTS e1, e2, h, r, wired, wireless

FourDevs == {e1, e2, h, r}
TypeOfDev == e1 :> "Endpt" @@ e2 :> "Endpt" @@ h :> "Router" @@ r :> "Router"
OneSpare == {r}
TwoNets == {wired, wireless}
MediaOfNet == wired :> "wired" @@ wireless :> "wireless"

Symmetry == Permutations({e1, e2})
=============================================================================
