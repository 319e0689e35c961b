------------------------------ MODULE TopoDesc -------------------------------
(***************************************************************************)
(* Construction of a topology (desc-topo.go): the calls with which a       *)
(* program gives devices their interfaces and connects them.  Each call    *)
(* looks for interfaces it can use before it creates others, so what a     *)
(* call does depends on the calls before it.                               *)
(*                                                                         *)
(* An interface is known by its device and its place in the device's list  *)
(* (the pointer), and has a name made of its device and a number.          *)
(***************************************************************************)
EXTENDS Integers, Sequences, FiniteSets, SequencesExt, FiniteSetsExt

CONSTANTS
  Devs,       \* endpoints, switches and routers
  DevType,    \* "Endpt", "Switch" or "Router"
  Spare,      \* routers that ConnectNetworks may create; the others exist
  Nets,       \* networks
  NetMedia,   \* "wired" or "wireless"
  ChosenNames, \* names that the program gives interfaces
  MaxIntrfcs  \* calls are explored while there are fewer interfaces

ASSUME TopoAssumption ==
  /\ IsFiniteSet(Devs) /\ Devs # {} /\ Spare \subseteq Devs
  /\ DevType \in [Devs -> {"Endpt", "Switch", "Router"}]
  /\ \A d \in Spare : DevType[d] = "Router"
  /\ NetMedia \in [Nets -> {"wired", "wireless"}]
  /\ ChosenNames \subseteq Nat /\ MaxIntrfcs \in Nat

VARIABLES
  frames,    \* the frames under construction
  connected  \* devConnected: pairs that ConnectDevs has connected

vars == <<frames, connected>>

Media == {"wired", "wireless"}
Ids == Devs \X (1..(MaxIntrfcs + 4))

\* IntrfcFrame; cable has one member, or none for nil.
FrameType == [name : Nat, media : Media, faces : Nets, cable : SUBSET Ids,
              carry : SUBSET Ids, wireless : SUBSET Ids]

\* intrfcs is the Interfaces list of each device, members what a network has
\* in Routers, Endpts and Switches, count numberOfIntrfcs, built the routers
\* that ConnectNetworks has created.  A call that panics has no result: panics
\* tells so while the call is worked out, and is FALSE in every state.
FramesType == [intrfcs : [Devs -> Seq(FrameType)], members : [Nets -> SUBSET Devs],
               count : Nat, built : SUBSET Spare, panics : {FALSE}]

TypeOK ==
  /\ frames \in FramesType
  /\ connected \in SUBSET {{d, e} : d, e \in Devs}

----------------------------------------------------------------------------
(* Interfaces.                                                             *)

Existing == UNION {{d} \X DOMAIN frames.intrfcs[d] : d \in Devs}
At(s, i) == s.intrfcs[i[1]][i[2]]
Intrfc(i) == At(frames, i)

Change(s, i, frame) ==
  [s EXCEPT !.intrfcs = [s.intrfcs EXCEPT ![i[1]] = ReplaceAt(s.intrfcs[i[1]], i[2], frame)]]

NewFrame(name, media, n) ==
  [name |-> name, media |-> media, faces |-> n, cable |-> {}, carry |-> {}, wireless |-> {}]

\* CreateIntrfc for a device, and its addition to the device's list.  It counts
\* before it makes up a name; its callers that make up the name count after.
\* The network learns of a router.
CreateIntrfc(s, d, name, media, n) ==
  [s EXCEPT !.intrfcs = [s.intrfcs EXCEPT ![d] = Append(s.intrfcs[d], NewFrame(name, media, n))],
            !.members = [s.members EXCEPT ![n] = IF DevType[d] = "Router"
                                                 THEN s.members[n] \cup {d} ELSE s.members[n]],
            !.count = s.count + 1]

\* Defect: the counter before the last interface.
DefaultIntrfcNameBefore(s) == s.count - 1

\* DefaultIntrfcName.
DefaultIntrfcName(s) == s.count

\* AddIntrfc refuses a name that the device has.
AddRefused(s, d, name) == \E k \in DOMAIN s.intrfcs[d] : s.intrfcs[d][k].name = name

\* An interface with a default name, added by AddIntrfc; the connecting calls
\* panic when it refuses.
CreateNamed(s, d, media, n) ==
  [CreateIntrfc(s, d, DefaultIntrfcName(s), media, n)
     EXCEPT !.panics = s.panics \/ AddRefused(s, d, DefaultIntrfcName(s))]

FacedBy(s, d, n) == \E k \in DOMAIN s.intrfcs[d] : s.intrfcs[d][k].faces = n

\* IncludeDev with chkIntrfc, of a medium that the network admits.  It adds the
\* interface without asking AddIntrfc.
IncludeDev(s, d, media, n) ==
  LET t == IF FacedBy(s, d, n) THEN s
           ELSE CreateIntrfc(s, d, DefaultIntrfcName(s), media, n)
  IN  [t EXCEPT !.members = [t.members EXCEPT ![n] = t.members[n] \cup {d}]]

\* Interfaces of d that face n, in the order of the device's list.
Facing(s, d, n, media) ==
  {k \in DOMAIN s.intrfcs[d] : s.intrfcs[d][k].faces = n /\ s.intrfcs[d][k].media = media}

\* Defect: an interface is free whatever network it faces.
FreeAnywhere(s, d, n) == {k \in DOMAIN s.intrfcs[d] : s.intrfcs[d][k].cable = {}}

\* Defect: an interface that has a cable is free.
FreeAlthoughCabled(s, d, n) == Facing(s, d, n, "wired")

\* Interfaces of d that ConnectDevs takes for free.
Free(s, d, n) == {k \in Facing(s, d, n, "wired") : s.intrfcs[d][k].cable = {}}

\* The first pair of P, in the order of the two nested loops.
FirstPair(P) ==
  LET k == Min({p[1] : p \in P})
  IN  <<k, Min({p[2] : p \in {q \in P : q[1] = k}})>>

\* Go compares pointers and names; a name tells its device.
SameName(s, i, j) == i[1] = j[1] /\ At(s, i).name = At(s, j).name

\* Is i carried by j?
CarryContained(s, i, j) == \E c \in At(s, j).carry : SameName(s, c, i)

\* Defect: the cable is known at one end.
CableIntrfcsHalf(s, i, j) == Change(s, i, [At(s, i) EXCEPT !.cable = {j}])

CableIntrfcs(s, i, j) ==
  LET t == Change(s, i, [At(s, i) EXCEPT !.cable = {j}])
  IN  Change(t, j, [At(t, j) EXCEPT !.cable = {i}])

\* Defect: an interface carries one other.
AddCarryOnly(s, i, j) == Change(s, i, [At(s, i) EXCEPT !.carry = {j}])

AddCarry(s, i, j) == Change(s, i, [At(s, i) EXCEPT !.carry = @ \cup {j}])

----------------------------------------------------------------------------
(* ConnectDevs.                                                            *)

\* Pairs of interfaces that can be cabled, or are.
Cablable(s, d, e, n) ==
  {p \in Facing(s, d, n, "wired") \X Facing(s, e, n, "wired") :
     /\ s.intrfcs[d][p[1]].cable \in {{}, {<<e, p[2]>>}}
     /\ s.intrfcs[e][p[2]].cable \in {{}, {<<d, p[1]>>}}}

\* Pairs one of which carries the other, and not the reverse.
HalfCarried(s, d, e, n) ==
  {p \in Facing(s, d, n, "wired") \X Facing(s, e, n, "wired") :
     CarryContained(s, <<d, p[1]>>, <<e, p[2]>>) # CarryContained(s, <<e, p[2]>>, <<d, p[1]>>)}

\* The device with a free interface.
WithFree(s, d, n) == IF Free(s, d, n) # {} THEN s ELSE CreateNamed(s, d, "wired", n)

\* Cable or carry between free interfaces.
ConnectFree(s, d, e, cable, n) ==
  LET t == WithFree(WithFree(s, d, n), e, n)
      i == <<d, Min(Free(t, d, n))>>
      j == <<e, Min(Free(t, e, n))>>
  IN  IF cable THEN CableIntrfcs(t, i, j) ELSE AddCarry(AddCarry(t, i, j), j, i)

\* What ConnectDevs does once both devices are included.  Where d's interface
\* carries e's and not the reverse, the code adds d's interface to its own list.
\* That never happens to interfaces that only these calls link: ReachIsMutual.
Connect(s, d, e, cable, n) ==
  IF cable /\ Cablable(s, d, e, n) # {}
  THEN LET p == FirstPair(Cablable(s, d, e, n))
       IN  CableIntrfcs(s, <<d, p[1]>>, <<e, p[2]>>)
  ELSE IF ~ cable /\ HalfCarried(s, d, e, n) # {}
  THEN LET p == FirstPair(HalfCarried(s, d, e, n))
           i == <<d, p[1]>>
           j == <<e, p[2]>>
       IN  IF CarryContained(s, i, j) THEN AddCarry(s, j, i) ELSE AddCarry(s, i, i)
  ELSE ConnectFree(s, d, e, cable, n)

----------------------------------------------------------------------------
Init ==
  /\ frames = [intrfcs |-> [d \in Devs |-> << >>], members |-> [n \in Nets |-> {}],
               count |-> 0, built |-> {}, panics |-> FALSE]
  /\ connected = {}

Present == (Devs \ Spare) \cup frames.built

MoreToBuild == frames.count < MaxIntrfcs

ConnectDevs(d, e, cable, n) ==
  /\ {d, e} \notin connected
  /\ LET included == IncludeDev(IncludeDev(frames, d, "wired", n), e, "wired", n)
         s == Connect(included, d, e, cable, n)
     IN  /\ ~ s.panics
         /\ frames' = s
  /\ connected' = connected \cup {{d, e}}

\* The wireless interface of d that faces n, created when there is none.
WithWireless(s, d, n) ==
  IF Facing(s, d, n, "wireless") # {} THEN s ELSE CreateNamed(s, d, "wireless", n)

AddWireless(s, i, j) ==
  IF \E c \in At(s, i).wireless : SameName(s, c, j) THEN s
  ELSE Change(s, i, [At(s, i) EXCEPT !.wireless = @ \cup {j}])

WirelessConnectTo(hub, d, n) ==
  /\ NetMedia[n] = "wireless"
  /\ LET included == IncludeDev(IncludeDev(frames, hub, "wireless", n), d, "wireless", n)
         s == WithWireless(WithWireless(included, hub, n), d, n)
         i == <<hub, Min(Facing(s, hub, n, "wireless"))>>
         j == <<d, Min(Facing(s, d, n, "wireless"))>>
     IN  /\ ~ s.panics
         /\ frames' = AddWireless(AddWireless(s, i, j), j, i)
  /\ UNCHANGED connected

\* IncludeDev called by the program.
Include(d, media, n) ==
  /\ media = "wireless" => NetMedia[n] = "wireless"
  /\ frames' = IncludeDev(frames, d, media, n)
  /\ UNCHANGED connected

\* Defect: the program's interface is added whatever its name is.
AddIntrfcAnyway(d, name, media, n) ==
  /\ name \in ChosenNames \cup {frames.count + 1}
  /\ frames' = CreateIntrfc(frames, d, name, media, n)
  /\ UNCHANGED connected

\* An interface that the program creates, with a name or without one, and adds
\* to a device.  Where the device refuses it, its creation has been counted and
\* has entered a router in the network.
AddIntrfc(d, name, media, n) ==
  /\ name \in ChosenNames \cup {frames.count + 1}
  /\ LET t == CreateIntrfc(frames, d, name, media, n)
     IN  frames' = IF AddRefused(frames, d, name) THEN [t EXCEPT !.intrfcs = frames.intrfcs] ELSE t
  /\ UNCHANGED connected

\* ConnectNetworks creates a router, unless there is one in both networks and
\* no other is asked for.
ConnectNetworks(n, m, newRtr, r) ==
  /\ r \in Spare \ frames.built
  /\ newRtr \/ ~ \E q \in frames.members[n] \cap frames.members[m] : DevType[q] = "Router"
  /\ LET s == [frames EXCEPT !.built = @ \cup {r}]
         t == CreateIntrfc(s, r, s.count + 1, NetMedia[n], n)
     IN  frames' = CreateIntrfc(t, r, t.count + 1, NetMedia[m], m)
  /\ UNCHANGED connected

Next ==
  /\ MoreToBuild
  /\ \/ \E d, e \in Present, n \in Nets :
          /\ d # e
          /\ \/ \E cable \in BOOLEAN : ConnectDevs(d, e, cable, n)
             \/ DevType[d] = "Router" /\ WirelessConnectTo(d, e, n)
     \/ \E d \in Present, media \in Media, n \in Nets :
          \/ Include(d, media, n)
          \/ \E name \in ChosenNames \cup {frames.count + 1} : AddIntrfc(d, name, media, n)
     \/ \E n, m \in Nets, newRtr \in BOOLEAN, r \in Spare :
          n # m /\ ConnectNetworks(n, m, newRtr, r)

Spec == Init /\ [][Next]_vars

----------------------------------------------------------------------------
(* Properties.                                                             *)

\* A cable has two ends, on two devices, that are wired and face one network,
\* whatever order of calls has looked for interfaces to use again: no call takes
\* the cable of another.  The network has both devices in its lists.
CablesJoinTwo ==
  \A i \in Existing : \A j \in Intrfc(i).cable :
    /\ j[1] # i[1] /\ Intrfc(i).cable = {j} /\ Intrfc(j).cable = {i}
    /\ Intrfc(i).media = "wired" /\ Intrfc(j).media = "wired"
    /\ Intrfc(i).faces = Intrfc(j).faces
    /\ {i[1], j[1]} \subseteq frames.members[Intrfc(i).faces]

\* Carrying and wireless reach are mutual, and within one network, which has both
\* devices in its lists: what one interface sends the other can answer.
ReachIsMutual ==
  \A i \in Existing :
    /\ \A j \in Intrfc(i).carry : j[1] # i[1] /\ i \in Intrfc(j).carry
    /\ \A j \in Intrfc(i).wireless : j[1] # i[1] /\ i \in Intrfc(j).wireless
    /\ \A j \in Intrfc(i).carry \cup Intrfc(i).wireless :
         /\ Intrfc(i).faces = Intrfc(j).faces
         /\ {i[1], j[1]} \subseteq frames.members[Intrfc(i).faces]

\* Two devices that ConnectDevs has connected stay connected in both directions,
\* through a cable or by carrying, whatever later calls do with their
\* interfaces: ConnectDevs does nothing when it is asked again.
ConnectionsKept ==
  \A pair \in connected : \E i, j \in Existing :
    /\ pair = {i[1], j[1]}
    /\ j \in Intrfc(i).cable \cup Intrfc(i).carry
    /\ i \in Intrfc(j).cable \cup Intrfc(j).carry

\* "name for interface, unique among interfaces on endpting device"
\* (desc-topo.go:219), and DefaultIntrfcName "generates a unique string"
\* (desc-topo.go:249).  The loaded topology finds interfaces by name.  A premise:
\* calls can break it, when one of them counts before it names and one after.
NamesUnique ==
  \A i, j \in Existing : SameName(frames, i, j) => i = j

\* What is true of names: whatever names the program chooses and the calls make
\* up, they tell the interfaces of a device that face one network apart, which
\* is all that the connecting calls ask when they compare interfaces by name.
NamesTellApart ==
  \A i, j \in Existing :
    SameName(frames, i, j) /\ Intrfc(i).faces = Intrfc(j).faces => i = j
=============================================================================
