----------------------------- MODULE TopoProofs -----------------------------
(***************************************************************************)
(* Proofs about TopoDesc and Routes, for any devices and networks:         *)
(* whatever order of calls builds a topology, cables and reach join two    *)
(* interfaces of one network, no call undoes the connection that another   *)
(* has made, and the routes through every such topology are sound.         *)
(***************************************************************************)
EXTENDS Routes, Iteration, SequenceTheorems

----------------------------------------------------------------------------
(* The inductive invariant, as a predicate of the frames under             *)
(* construction, for a call works them out in several steps.               *)

Places == Devs \X (Nat \ {0})

Frame == [name : Nat, media : Media, faces : Nets, cable : SUBSET Places,
          carry : SUBSET Places, wireless : SUBSET Places]

Shape == [intrfcs : [Devs -> Seq(Frame)], members : [Nets -> SUBSET Devs],
          count : Nat, built : SUBSET Spare, panics : BOOLEAN]

In(s, i) == i \in Places /\ i[2] \in DOMAIN s.intrfcs[i[1]]

\* What links two interfaces: two devices of one network.
Mutual(s, i, j) == In(s, j) /\ j[1] # i[1] /\ At(s, i).faces = At(s, j).faces

LinksOK(s, i) ==
  /\ \A j \in At(s, i).cable :
       /\ Mutual(s, i, j) /\ At(s, i).cable = {j} /\ At(s, j).cable = {i}
       /\ At(s, i).media = "wired" /\ At(s, j).media = "wired"
  /\ \A j \in At(s, i).carry : Mutual(s, i, j) /\ i \in At(s, j).carry
  /\ \A j \in At(s, i).wireless : Mutual(s, i, j) /\ i \in At(s, j).wireless
  /\ At(s, i).carry # {} => At(s, i).media = "wired"
  /\ At(s, i).wireless # {} => At(s, i).media = "wireless"
  /\ At(s, i).cable \cup At(s, i).carry \cup At(s, i).wireless # {} =>
       i[1] \in s.members[At(s, i).faces]

\* The invariant of every step of a call.  Names repeat (NamesUnique does not
\* hold), but not among the interfaces of a device that face one network.
TopoOK(s) ==
  /\ s \in Shape
  /\ \A i : In(s, i) => LinksOK(s, i)
  /\ \A i, j : In(s, i) /\ In(s, j) /\ SameName(s, i, j) /\ At(s, i).faces = At(s, j).faces => i = j
  /\ \A d \in Spare \ s.built : s.intrfcs[d] = << >>
  /\ \A d \in Devs : Len(s.intrfcs[d]) <= s.count

Linked(s, d, e) ==
  \E i, j : /\ In(s, i) /\ In(s, j) /\ {d, e} = {i[1], j[1]}
            /\ j \in At(s, i).cable \cup At(s, i).carry

\* The inductive invariant.
IInv ==
  /\ TopoOK(frames) /\ frames.panics = FALSE /\ frames.count < MaxIntrfcs + 4
  /\ connected \in SUBSET {{d, e} : d, e \in Devs}
  /\ \A d, e \in Devs : {d, e} \in connected => Linked(frames, d, e)

\* What a call may do: interfaces stay what and where they are, and keep their
\* links; devices stay in their networks.
Grows(s, t) ==
  /\ \A i : In(s, i) => /\ In(t, i)
                        /\ At(t, i).name = At(s, i).name /\ At(t, i).faces = At(s, i).faces
                        /\ At(t, i).media = At(s, i).media
                        /\ At(s, i).cable \subseteq At(t, i).cable
                        /\ At(s, i).carry \subseteq At(t, i).carry
  /\ \A n \in Nets : s.members[n] \subseteq t.members[n]
  /\ s.built \subseteq t.built

LEMMA GrowsTransitive ==
  ASSUME NEW s, NEW t, NEW u, Grows(s, t), Grows(t, u)
  PROVE  Grows(s, u)
<1>1. ASSUME NEW i, In(s, i)
      PROVE  /\ In(u, i)
             /\ At(u, i).name = At(s, i).name /\ At(u, i).faces = At(s, i).faces
             /\ At(u, i).media = At(s, i).media
             /\ At(s, i).cable \subseteq At(u, i).cable
             /\ At(s, i).carry \subseteq At(u, i).carry
  <2>1. /\ In(t, i)
        /\ At(t, i).name = At(s, i).name /\ At(t, i).faces = At(s, i).faces
        /\ At(t, i).media = At(s, i).media
        /\ At(s, i).cable \subseteq At(t, i).cable
        /\ At(s, i).carry \subseteq At(t, i).carry
    BY <1>1 DEF Grows
  <2>2. /\ In(u, i)
        /\ At(u, i).name = At(t, i).name /\ At(u, i).faces = At(t, i).faces
        /\ At(u, i).media = At(t, i).media
        /\ At(t, i).cable \subseteq At(u, i).cable
        /\ At(t, i).carry \subseteq At(u, i).carry
    BY <2>1 DEF Grows
  <2>3. QED
    BY <2>1, <2>2
<1>2. \A n \in Nets : s.members[n] \subseteq u.members[n]
  BY DEF Grows
<1>3. s.built \subseteq u.built
  BY DEF Grows
<1>4. QED
  BY <1>1, <1>2, <1>3 DEF Grows

LEMMA GrowsReflexive ==
  ASSUME NEW s
  PROVE  Grows(s, s)
BY DEF Grows

LEMMA StillLinked ==
  ASSUME NEW s, NEW t, Grows(s, t), NEW d, NEW e, Linked(s, d, e)
  PROVE  Linked(t, d, e)
<1>1. PICK i, j : /\ In(s, i) /\ In(s, j) /\ {d, e} = {i[1], j[1]}
                  /\ j \in At(s, i).cable \cup At(s, i).carry
  BY DEF Linked
<1>2. In(t, i) /\ In(t, j) /\ j \in At(t, i).cable \cup At(t, i).carry
  BY <1>1 DEF Grows
<1>3. QED
  BY <1>1, <1>2 DEF Linked

\* An interface that is there has a frame.
LEMMA FrameThere ==
  ASSUME NEW s \in Shape, NEW i, In(s, i)
  PROVE  /\ At(s, i) \in Frame /\ i = <<i[1], i[2]>>
         /\ i[1] \in Devs /\ i[2] \in 1..Len(s.intrfcs[i[1]])
         /\ s.intrfcs[i[1]] \in Seq(Frame)
<1>1. i[1] \in Devs /\ i[2] \in Nat /\ i = <<i[1], i[2]>>
  BY DEF In, Places
<1>2. s.intrfcs[i[1]] \in Seq(Frame)
  BY <1>1 DEF Shape
<1>3. i[2] \in 1..Len(s.intrfcs[i[1]])
  BY <1>2 DEF In
<1>4. At(s, i) \in Frame
  BY <1>2, <1>3, ElementOfSeq DEF At
<1>5. QED
  BY <1>1, <1>2, <1>3, <1>4

----------------------------------------------------------------------------
(* A new interface.                                                        *)

NewPlace(s, d) == <<d, Len(s.intrfcs[d]) + 1>>

\* The same interfaces and one more, of the device d, that faces n.
OneMore(s, t, d, name, media, n) ==
  /\ t \in Shape
  /\ \A i : In(t, i) <=> In(s, i) \/ i = NewPlace(s, d)
  /\ \A i : In(s, i) => At(t, i) = At(s, i)
  /\ At(t, NewPlace(s, d)) = NewFrame(name, media, n)
  /\ \A e \in Devs : e # d => t.intrfcs[e] = s.intrfcs[e]
  /\ Len(t.intrfcs[d]) = Len(s.intrfcs[d]) + 1
  /\ \A m \in Nets : s.members[m] \subseteq t.members[m]
  /\ t.count = s.count + 1 /\ t.built = s.built /\ t.panics = s.panics

LEMMA CreateIntrfcFacts ==
  ASSUME NEW s \in Shape, NEW d \in Devs, NEW name \in Nat, NEW media \in Media, NEW n \in Nets
  PROVE  OneMore(s, CreateIntrfc(s, d, name, media, n), d, name, media, n)
<1> DEFINE t == CreateIntrfc(s, d, name, media, n)
           q == s.intrfcs[d]
           x == NewFrame(name, media, n)
           ms == IF DevType[d] = "Router" THEN s.members[n] \cup {d} ELSE s.members[n]
<1>1. q \in Seq(Frame) /\ Len(q) \in Nat /\ s.intrfcs \in [Devs -> Seq(Frame)]
      /\ s.members \in [Nets -> SUBSET Devs]
  BY DEF Shape
<1>2. x \in Frame
  BY DEF NewFrame, Frame
<1> HIDE DEF x
<1>3. /\ Append(q, x) \in Seq(Frame) /\ Len(Append(q, x)) = Len(q) + 1
      /\ DOMAIN Append(q, x) = 1..(Len(q) + 1) /\ DOMAIN q = 1..Len(q)
      /\ Append(q, x)[Len(q) + 1] = x
      /\ \A k \in 1..Len(q) : Append(q, x)[k] = q[k]
  BY <1>1, <1>2
<1>4. /\ [s.intrfcs EXCEPT ![d] = Append(q, x)] \in [Devs -> Seq(Frame)]
      /\ [s.members EXCEPT ![n] = ms] \in [Nets -> SUBSET Devs]
  BY <1>1, <1>3
<1>5. /\ t.intrfcs = [s.intrfcs EXCEPT ![d] = Append(q, x)]
      /\ t.members = [s.members EXCEPT ![n] = ms]
      /\ t.count = s.count + 1 /\ t.built = s.built /\ t.panics = s.panics
  BY DEF CreateIntrfc, Shape, x
<1>6. t \in Shape
  <2>1. s.count + 1 \in Nat
    BY DEF Shape
  <2>2. QED
    BY <1>4, <2>1 DEF CreateIntrfc, Shape, x
<1> HIDE DEF t
<1>7. /\ t.intrfcs[d] = Append(q, x)
      /\ \A e \in Devs : e # d => t.intrfcs[e] = s.intrfcs[e]
      /\ \A m \in Nets : s.members[m] \subseteq t.members[m]
  BY <1>1, <1>5
<1>8. ASSUME NEW i
      PROVE  In(t, i) <=> In(s, i) \/ i = NewPlace(s, d)
  <2>1. CASE i \in Places /\ i[1] = d
    <3>1. i[2] \in 1..(Len(q) + 1) <=> i[2] \in 1..Len(q) \/ i[2] = Len(q) + 1
      BY <1>1
    <3>2. i = <<d, i[2]>>
      BY <2>1 DEF Places
    <3>3. i[2] = Len(q) + 1 <=> i = NewPlace(s, d)
      BY <3>2 DEF NewPlace
    <3>4. QED
      BY <1>3, <1>7, <2>1, <3>1, <3>3 DEF In
  <2>2. CASE i \in Places /\ i[1] # d
    BY <1>7, <2>2 DEF In, NewPlace, Places
  <2>3. CASE i \notin Places
    BY <1>1, <2>3 DEF In, NewPlace, Places
  <2>4. QED
    BY <2>1, <2>2, <2>3
<1>9. ASSUME NEW i, In(s, i)
      PROVE  At(t, i) = At(s, i)
  <2>1. i[1] \in Devs /\ i[2] \in 1..Len(s.intrfcs[i[1]])
    BY <1>9, FrameThere
  <2>2. QED
    BY <1>3, <1>7, <2>1 DEF At
<1>10. At(t, NewPlace(s, d)) = x
  BY <1>3, <1>7 DEF At, NewPlace
<1>11. QED
  BY <1>3, <1>5, <1>6, <1>7, <1>8, <1>9, <1>10 DEF OneMore, x, t

\* No interface of d that faces n has the name.
NameFree(s, d, name, n) ==
  \A k \in DOMAIN s.intrfcs[d] : s.intrfcs[d][k].faces = n => s.intrfcs[d][k].name # name

\* An interface that has no links yet does no harm when its name can be told
\* from the others.
LEMMA OneMoreOK ==
  ASSUME NEW s, TopoOK(s), NEW d \in Devs, d \in Spare => d \in s.built,
         NEW name \in Nat, NEW media \in Media, NEW n \in Nets, NameFree(s, d, name, n),
         NEW t, OneMore(s, t, d, name, media, n)
  PROVE  TopoOK(t) /\ Grows(s, t)
<1> DEFINE new == NewPlace(s, d)
<1>1. s \in Shape /\ t \in Shape
  BY DEF TopoOK, OneMore
<1>2. /\ \A i : In(t, i) <=> In(s, i) \/ i = new
      /\ \A i : In(s, i) => At(t, i) = At(s, i)
      /\ \A m \in Nets : s.members[m] \subseteq t.members[m]
      /\ t.count = s.count + 1 /\ t.built = s.built /\ t.panics = s.panics
      /\ \A e \in Devs : e # d => t.intrfcs[e] = s.intrfcs[e]
      /\ Len(t.intrfcs[d]) = Len(s.intrfcs[d]) + 1
  BY DEF OneMore
<1>3. /\ At(t, new).name = name /\ At(t, new).faces = n /\ new[1] = d
      /\ At(t, new).cable = {} /\ At(t, new).carry = {} /\ At(t, new).wireless = {}
  BY DEF OneMore, NewFrame, NewPlace
<1> HIDE DEF new
<1>4. ASSUME NEW i, In(s, i)
      PROVE  LinksOK(t, i)
  <2>1. LinksOK(s, i) /\ At(t, i) = At(s, i) /\ At(s, i).faces \in Nets
    BY <1>1, <1>2, <1>4, FrameThere DEF TopoOK, Frame
  <2>2. \A j : Mutual(s, i, j) => Mutual(t, i, j) /\ At(t, j) = At(s, j)
    BY <1>2, <2>1 DEF Mutual
  <2>3. /\ \A j \in At(t, i).cable :
             /\ Mutual(t, i, j) /\ At(t, i).cable = {j} /\ At(t, j).cable = {i}
             /\ At(t, i).media = "wired" /\ At(t, j).media = "wired"
        /\ \A j \in At(t, i).carry : Mutual(t, i, j) /\ i \in At(t, j).carry
        /\ \A j \in At(t, i).wireless : Mutual(t, i, j) /\ i \in At(t, j).wireless
    BY <2>1, <2>2 DEF LinksOK
  <2>4. /\ At(t, i).cable \cup At(t, i).carry \cup At(t, i).wireless # {} =>
             i[1] \in t.members[At(t, i).faces]
        /\ At(t, i).carry # {} => At(t, i).media = "wired"
        /\ At(t, i).wireless # {} => At(t, i).media = "wireless"
    BY <1>2, <2>1 DEF LinksOK
  <2>5. QED
    BY <2>3, <2>4 DEF LinksOK
<1>5. LinksOK(t, new)
  BY <1>3 DEF LinksOK
<1>6. ASSUME NEW i, NEW j, In(t, i), In(t, j), SameName(t, i, j), At(t, i).faces = At(t, j).faces
      PROVE  i = j
  <2>1. ASSUME NEW k, In(s, k), k[1] = d, At(s, k).faces = n
        PROVE  At(s, k).name # name
    <3>1. k[2] \in DOMAIN s.intrfcs[d] /\ At(s, k) = s.intrfcs[d][k[2]]
      BY <2>1 DEF In, At
    <3>2. QED
      BY <2>1, <3>1 DEF NameFree
  <2>2. CASE In(s, i) /\ In(s, j)
    BY <1>2, <1>6, <2>2 DEF TopoOK, SameName
  <2>3. CASE In(s, i) /\ j = new
    BY <1>2, <1>3, <1>6, <2>1, <2>3 DEF SameName
  <2>4. CASE i = new /\ In(s, j)
    BY <1>2, <1>3, <1>6, <2>1, <2>4 DEF SameName
  <2>5. QED
    BY <1>2, <1>6, <2>2, <2>3, <2>4
<1>7. \A e \in Spare \ t.built : t.intrfcs[e] = << >>
  BY <1>2, TopoAssumption DEF TopoOK
<1>8. ASSUME NEW e \in Devs
      PROVE  Len(t.intrfcs[e]) <= t.count
  <2>1. Len(s.intrfcs[e]) \in Nat /\ s.count \in Nat /\ Len(s.intrfcs[e]) <= s.count
    BY <1>1 DEF TopoOK, Shape
  <2>2. Len(t.intrfcs[e]) = Len(s.intrfcs[e]) \/ Len(t.intrfcs[e]) = Len(s.intrfcs[e]) + 1
    BY <1>2
  <2>3. QED
    BY <1>2, <2>1, <2>2
<1>9. Grows(s, t)
  BY <1>2 DEF Grows
<1>10. QED
  BY <1>1, <1>2, <1>4, <1>5, <1>6, <1>7, <1>8, <1>9 DEF TopoOK

----------------------------------------------------------------------------
(* The steps that calls share.                                             *)

\* A device becomes a member of a network.
WithMember(s, d, n) ==
  [s EXCEPT !.members = [s.members EXCEPT ![n] = s.members[n] \cup {d}]]

LEMMA MemberOK ==
  ASSUME NEW s, TopoOK(s), NEW d \in Devs, NEW n \in Nets
  PROVE  LET t == WithMember(s, d, n)
         IN  /\ TopoOK(t) /\ Grows(s, t) /\ d \in t.members[n]
             /\ t.count = s.count /\ t.panics = s.panics /\ t.built = s.built
<1> DEFINE t == WithMember(s, d, n)
<1>1. s \in Shape /\ s.members \in [Nets -> SUBSET Devs]
  BY DEF TopoOK, Shape
<1>2. [s.members EXCEPT ![n] = s.members[n] \cup {d}] \in [Nets -> SUBSET Devs]
  BY <1>1
<1>3. /\ t \in Shape /\ t.members = [s.members EXCEPT ![n] = s.members[n] \cup {d}]
      /\ t.count = s.count /\ t.panics = s.panics /\ t.built = s.built /\ t.intrfcs = s.intrfcs
  BY <1>1, <1>2 DEF Shape, WithMember
<1> HIDE DEF t
<1>4. d \in t.members[n] /\ \A m \in Nets : s.members[m] \subseteq t.members[m]
  BY <1>1, <1>3
<1>5. /\ \A i : In(t, i) <=> In(s, i)
      /\ \A i : At(t, i) = At(s, i)
  BY <1>3 DEF In, At
<1>6. ASSUME NEW i, In(s, i)
      PROVE  LinksOK(t, i)
  <2>1. LinksOK(s, i) /\ At(s, i).faces \in Nets
    BY <1>1, <1>6, FrameThere DEF TopoOK, Frame
  <2>2. \A j : Mutual(s, i, j) => Mutual(t, i, j)
    BY <1>5 DEF Mutual
  <2>3. QED
    BY <1>4, <1>5, <2>1, <2>2 DEF LinksOK
<1>7. \A i, j : In(t, i) /\ In(t, j) /\ SameName(t, i, j) /\ At(t, i).faces = At(t, j).faces => i = j
  BY <1>5 DEF TopoOK, SameName
<1>8. TopoOK(t)
  BY <1>3, <1>5, <1>6, <1>7 DEF TopoOK
<1>9. Grows(s, t)
  BY <1>3, <1>4, <1>5 DEF Grows
<1>10. QED
  BY <1>3, <1>4, <1>8, <1>9 DEF t

\* A device that may be asked for an interface.
There(s, d) == d \in Devs /\ (d \in Spare => d \in s.built)

Included(s, t, d, n) ==
  /\ TopoOK(t) /\ Grows(s, t) /\ d \in t.members[n]
  /\ t.count >= s.count /\ t.count <= s.count + 1
  /\ t.panics = s.panics /\ t.built = s.built

LEMMA IncludeDevFacts ==
  ASSUME NEW s, TopoOK(s), NEW d, There(s, d), NEW media \in Media, NEW n \in Nets
  PROVE  Included(s, IncludeDev(s, d, media, n), d, n)
<1> DEFINE u == IF FacedBy(s, d, n) THEN s
                ELSE CreateIntrfc(s, d, DefaultIntrfcName(s), media, n)
           t == IncludeDev(s, d, media, n)
<1>1. s \in Shape /\ s.count \in Nat /\ d \in Devs
  BY DEF TopoOK, Shape, There
<1>2. /\ TopoOK(u) /\ Grows(s, u) /\ u.panics = s.panics /\ u.built = s.built
      /\ u.count = s.count \/ u.count = s.count + 1
  <2>1. CASE FacedBy(s, d, n)
    BY <2>1, GrowsReflexive
  <2>2. CASE ~ FacedBy(s, d, n)
    <3>1. u = CreateIntrfc(s, d, s.count, media, n)
      BY <2>2 DEF DefaultIntrfcName
    <3>2. OneMore(s, u, d, s.count, media, n)
      BY <1>1, <3>1, CreateIntrfcFacts
    <3>3. NameFree(s, d, s.count, n)
      BY <2>2 DEF NameFree, FacedBy
    <3> HIDE DEF u
    <3>4. TopoOK(u) /\ Grows(s, u)
      BY <1>1, <3>2, <3>3, OneMoreOK DEF There
    <3>5. QED
      BY <3>2, <3>4 DEF OneMore
  <2>3. QED
    BY <2>1, <2>2
<1>3. t = WithMember(u, d, n)
  BY DEF IncludeDev, WithMember
<1> HIDE DEF u, t
<1>4. /\ TopoOK(t) /\ Grows(u, t) /\ d \in t.members[n]
      /\ t.count = u.count /\ t.panics = u.panics /\ t.built = u.built
  BY <1>1, <1>2, <1>3, MemberOK
<1>5. Grows(s, t)
  BY <1>2, <1>4, GrowsTransitive
<1>6. t.count >= s.count /\ t.count <= s.count + 1
  BY <1>1, <1>2, <1>4
<1>7. QED
  BY <1>2, <1>4, <1>5, <1>6 DEF Included, t

\* An interface with a default name, unless the call panics.
Named(s, t, d, media, n) ==
  /\ t.panics \in BOOLEAN
  /\ s.panics => t.panics
  /\ ~ t.panics => /\ TopoOK(t) /\ Grows(s, t)
                   /\ t.count >= s.count /\ t.count <= s.count + 1 /\ t.built = s.built
                   /\ \A e \in Devs : e # d => t.intrfcs[e] = s.intrfcs[e]

LEMMA CreateNamedFacts ==
  ASSUME NEW s, TopoOK(s), NEW d, There(s, d), NEW media \in Media, NEW n \in Nets
  PROVE  LET t == CreateNamed(s, d, media, n)
             k == Len(s.intrfcs[d]) + 1
         IN  /\ Named(s, t, d, media, n)
             /\ ~ t.panics => k \in Facing(t, d, n, media) /\ t.intrfcs[d][k].cable = {}
<1> DEFINE u == CreateIntrfc(s, d, s.count, media, n)
           t == CreateNamed(s, d, media, n)
           k == Len(s.intrfcs[d]) + 1
<1>1. s \in Shape /\ s.count \in Nat /\ d \in Devs /\ s.panics \in BOOLEAN
  BY DEF TopoOK, Shape, There
<1>2. OneMore(s, u, d, s.count, media, n)
  BY <1>1, CreateIntrfcFacts
<1>3. t = [u EXCEPT !.panics = s.panics \/ AddRefused(s, d, s.count)]
  BY DEF CreateNamed, DefaultIntrfcName
<1>4. u \in Shape /\ AddRefused(s, d, s.count) \in BOOLEAN
  BY <1>2 DEF OneMore, AddRefused
<1> HIDE DEF u, t
<1>5. /\ t.panics = (s.panics \/ AddRefused(s, d, s.count))
      /\ t.intrfcs = u.intrfcs /\ t.members = u.members
      /\ t.count = u.count /\ t.built = u.built
  BY <1>3, <1>4 DEF Shape
<1>6. t.panics \in BOOLEAN /\ (s.panics => t.panics)
  BY <1>1, <1>4, <1>5
<1>7. t \in Shape
  BY <1>3, <1>4, <1>5, <1>6 DEF Shape
<1>8. ASSUME ~ t.panics
      PROVE  /\ TopoOK(t) /\ Grows(s, t)
             /\ k \in Facing(t, d, n, media) /\ t.intrfcs[d][k].cable = {}
  <2>1. ~ s.panics /\ ~ AddRefused(s, d, s.count)
    BY <1>5, <1>8
  <2>2. NameFree(s, d, s.count, n)
    BY <2>1 DEF AddRefused, NameFree
  <2>3. OneMore(s, t, d, s.count, media, n)
    <3>1. t.panics = FALSE /\ s.panics = FALSE
      BY <1>1, <1>6, <1>8, <2>1
    <3>2. /\ \A i : In(t, i) <=> In(u, i)
          /\ \A i : At(t, i) = At(u, i)
      BY <1>5 DEF In, At
    <3>3. QED
      BY <1>2, <1>5, <1>7, <3>1, <3>2 DEF OneMore
  <2>4. TopoOK(t) /\ Grows(s, t)
    BY <1>1, <2>2, <2>3, OneMoreOK DEF There
  <2>5. At(t, <<d, k>>) = NewFrame(s.count, media, n) /\ k \in DOMAIN t.intrfcs[d]
    BY <2>3 DEF OneMore, NewPlace, In
  <2>6. t.intrfcs[d][k] = NewFrame(s.count, media, n)
    BY <2>5 DEF At
  <2>7. QED
    BY <2>4, <2>5, <2>6 DEF Facing, NewFrame
<1>9. /\ t.count >= s.count /\ t.count <= s.count + 1 /\ t.built = s.built
      /\ \A e \in Devs : e # d => t.intrfcs[e] = s.intrfcs[e]
  BY <1>1, <1>2, <1>5 DEF OneMore
<1>10. QED
  BY <1>6, <1>8, <1>9 DEF Named, t

\* Whatever it does, a call that has panicked stays so.
PanicsStay(s, t) == t \in Shape /\ (s.panics => t.panics)

LEMMA CreateNamedPanics ==
  ASSUME NEW s \in Shape, NEW d \in Devs, NEW media \in Media, NEW n \in Nets
  PROVE  PanicsStay(s, CreateNamed(s, d, media, n))
<1> DEFINE u == CreateIntrfc(s, d, s.count, media, n)
           t == CreateNamed(s, d, media, n)
<1>1. s.count \in Nat /\ s.panics \in BOOLEAN
  BY DEF Shape
<1>2. OneMore(s, u, d, s.count, media, n)
  BY <1>1, CreateIntrfcFacts
<1>3. t = [u EXCEPT !.panics = s.panics \/ AddRefused(s, d, s.count)]
  BY DEF CreateNamed, DefaultIntrfcName
<1>4. u \in Shape /\ AddRefused(s, d, s.count) \in BOOLEAN
  BY <1>2 DEF OneMore, AddRefused
<1> HIDE DEF u, t
<1>5. (s.panics \/ AddRefused(s, d, s.count)) \in BOOLEAN
  BY <1>1, <1>4
<1>6. t \in Shape /\ t.panics = (s.panics \/ AddRefused(s, d, s.count))
  BY <1>3, <1>4, <1>5 DEF Shape
<1>7. QED
  BY <1>6 DEF PanicsStay, t

LEMMA WithPanics ==
  ASSUME NEW s \in Shape, NEW d \in Devs, NEW n \in Nets
  PROVE  PanicsStay(s, WithFree(s, d, n)) /\ PanicsStay(s, WithWireless(s, d, n))
<1>1. PanicsStay(s, s) /\ "wired" \in Media /\ "wireless" \in Media
  BY DEF PanicsStay, Media
<1>2. /\ PanicsStay(s, CreateNamed(s, d, "wired", n))
      /\ PanicsStay(s, CreateNamed(s, d, "wireless", n))
  BY <1>1, CreateNamedPanics
<1>3. QED
  BY <1>1, <1>2 DEF WithFree, WithWireless

LEMMA WithFreeFacts ==
  ASSUME NEW s, TopoOK(s), NEW d, There(s, d), NEW n \in Nets
  PROVE  LET t == WithFree(s, d, n)
         IN  /\ Named(s, t, d, "wired", n)
             /\ ~ t.panics => Free(t, d, n) # {}
<1> DEFINE t == WithFree(s, d, n)
<1>1. s \in Shape /\ s.count \in Nat /\ s.panics \in BOOLEAN
  BY DEF TopoOK, Shape
<1>2. CASE Free(s, d, n) # {}
  <2>1. t = s
    BY <1>2 DEF WithFree
  <2>2. QED
    BY <1>1, <1>2, <2>1, GrowsReflexive DEF Named
<1>3. CASE Free(s, d, n) = {}
  <2>1. t = CreateNamed(s, d, "wired", n) /\ "wired" \in Media
    BY <1>3 DEF WithFree, Media
  <2> DEFINE k == Len(s.intrfcs[d]) + 1
  <2>2. /\ Named(s, t, d, "wired", n)
        /\ ~ t.panics => k \in Facing(t, d, n, "wired") /\ t.intrfcs[d][k].cable = {}
    BY <2>1, CreateNamedFacts
  <2> HIDE DEF t, k
  <2>3. ~ t.panics => k \in Free(t, d, n)
    BY <2>2 DEF Free
  <2>4. QED
    BY <2>2, <2>3 DEF t
<1>4. QED
  BY <1>2, <1>3

LEMMA WithWirelessFacts ==
  ASSUME NEW s, TopoOK(s), NEW d, There(s, d), NEW n \in Nets
  PROVE  LET t == WithWireless(s, d, n)
         IN  /\ Named(s, t, d, "wireless", n)
             /\ ~ t.panics => Facing(t, d, n, "wireless") # {}
<1> DEFINE t == WithWireless(s, d, n)
<1>1. s \in Shape /\ s.count \in Nat /\ s.panics \in BOOLEAN
  BY DEF TopoOK, Shape
<1>2. CASE Facing(s, d, n, "wireless") # {}
  <2>1. t = s
    BY <1>2 DEF WithWireless
  <2>2. QED
    BY <1>1, <1>2, <2>1, GrowsReflexive DEF Named
<1>3. CASE Facing(s, d, n, "wireless") = {}
  <2>1. t = CreateNamed(s, d, "wireless", n)
    BY <1>3 DEF WithWireless
  <2>2. QED
    BY <2>1, CreateNamedFacts DEF Media
<1>4. QED
  BY <1>2, <1>3

----------------------------------------------------------------------------
(* Links.                                                                  *)

\* The frame of i is now x, and nothing else has changed.
Changed(s, t, i, x) ==
  /\ t \in Shape
  /\ \A k : In(t, k) <=> In(s, k)
  /\ At(t, i) = x
  /\ \A k : In(s, k) /\ k # i => At(t, k) = At(s, k)
  /\ \A e \in Devs : Len(t.intrfcs[e]) = Len(s.intrfcs[e])
  /\ t.members = s.members /\ t.count = s.count /\ t.built = s.built /\ t.panics = s.panics

LEMMA ChangeFacts ==
  ASSUME NEW s \in Shape, NEW i, In(s, i), NEW x \in Frame
  PROVE  Changed(s, Change(s, i, x), i, x)
<1> DEFINE t == Change(s, i, x)
           d == i[1]
           q == ReplaceAt(s.intrfcs[d], i[2], x)
<1>1. /\ d \in Devs /\ i[2] \in 1..Len(s.intrfcs[d]) /\ s.intrfcs[d] \in Seq(Frame)
      /\ i = <<d, i[2]>>
  BY FrameThere
<1>2. /\ q \in Seq(Frame) /\ Len(q) = Len(s.intrfcs[d]) /\ q[i[2]] = x
      /\ \A k \in 1..Len(s.intrfcs[d]) : k # i[2] => q[k] = s.intrfcs[d][k]
  BY <1>1, ExceptSeq DEF ReplaceAt
<1>3. DOMAIN q = 1..Len(s.intrfcs[d]) /\ DOMAIN s.intrfcs[d] = 1..Len(s.intrfcs[d])
  BY <1>1, <1>2
<1> HIDE DEF q
<1>4. /\ s.intrfcs \in [Devs -> Seq(Frame)]
      /\ [s.intrfcs EXCEPT ![d] = q] \in [Devs -> Seq(Frame)]
  BY <1>1, <1>2 DEF Shape
<1>5. /\ t.intrfcs = [s.intrfcs EXCEPT ![d] = q]
      /\ t.members = s.members /\ t.count = s.count /\ t.built = s.built /\ t.panics = s.panics
  BY DEF Change, Shape, q
<1>6. t \in Shape
  BY <1>4 DEF Change, Shape, q
<1> HIDE DEF t
<1>7. t.intrfcs[d] = q /\ \A e \in Devs : e # d => t.intrfcs[e] = s.intrfcs[e]
  BY <1>1, <1>4, <1>5
<1>8. \A e \in Devs : Len(t.intrfcs[e]) = Len(s.intrfcs[e]) /\ DOMAIN t.intrfcs[e] = DOMAIN s.intrfcs[e]
  BY <1>2, <1>3, <1>7
<1>9. \A k : In(t, k) <=> In(s, k)
  BY <1>8 DEF In, Places
<1>10. At(t, i) = x
  BY <1>2, <1>7 DEF At
<1>11. ASSUME NEW k, In(s, k), k # i
       PROVE  At(t, k) = At(s, k)
  <2>1. k = <<k[1], k[2]>> /\ k[1] \in Devs /\ k[2] \in 1..Len(s.intrfcs[k[1]])
    BY <1>11, FrameThere
  <2>2. CASE k[1] = d
    <3>1. k[2] # i[2]
      BY <1>1, <1>11, <2>1, <2>2
    <3>2. QED
      BY <1>2, <1>7, <2>1, <2>2, <3>1 DEF At
  <2>3. CASE k[1] # d
    BY <1>7, <2>1, <2>3 DEF At
  <2>4. QED
    BY <2>2, <2>3
<1>12. QED
  BY <1>5, <1>6, <1>8, <1>9, <1>10, <1>11 DEF Changed, t

\* The interfaces that a link can join: of two devices, in one network that
\* knows both.
Joinable(s, i, j) ==
  /\ In(s, i) /\ In(s, j) /\ i[1] # j[1]
  /\ At(s, i).faces = At(s, j).faces
  /\ {i[1], j[1]} \subseteq s.members[At(s, i).faces]

\* The links of k in t are those that it has in s and ones of the peer.
Adds(s, t, k, peer, cable, carry, wireless) ==
  /\ At(t, k).name = At(s, k).name /\ At(t, k).media = At(s, k).media
  /\ At(t, k).faces = At(s, k).faces
  /\ At(t, k).cable = IF cable THEN {peer} ELSE At(s, k).cable
  /\ At(t, k).carry = IF carry THEN At(s, k).carry \cup {peer} ELSE At(s, k).carry
  /\ At(t, k).wireless = IF wireless THEN At(s, k).wireless \cup {peer} ELSE At(s, k).wireless

Joined(s, t, i, j, cable, carry, wireless) ==
  /\ t \in Shape
  /\ \A k : In(t, k) <=> In(s, k)
  /\ Adds(s, t, i, j, cable, carry, wireless) /\ Adds(s, t, j, i, cable, carry, wireless)
  /\ \A k : In(s, k) /\ k # i /\ k # j => At(t, k) = At(s, k)
  /\ \A e \in Devs : Len(t.intrfcs[e]) = Len(s.intrfcs[e])
  /\ t.members = s.members /\ t.count = s.count /\ t.built = s.built /\ t.panics = s.panics

\* A link that both ends know, of their medium; a cable needs two ends that have
\* no other.
LEMMA JoinedOK ==
  ASSUME NEW s, TopoOK(s), NEW i, NEW j, Joinable(s, i, j),
         NEW cable \in BOOLEAN, NEW carry \in BOOLEAN, NEW wireless \in BOOLEAN,
         cable \/ carry => At(s, i).media = "wired" /\ At(s, j).media = "wired",
         wireless => At(s, i).media = "wireless" /\ At(s, j).media = "wireless",
         cable => At(s, i).cable \in {{}, {j}} /\ At(s, j).cable \in {{}, {i}},
         NEW t, Joined(s, t, i, j, cable, carry, wireless)
  PROVE  TopoOK(t) /\ Grows(s, t)
<1>1. /\ s \in Shape /\ t \in Shape
      /\ In(s, i) /\ In(s, j) /\ i[1] # j[1] /\ i # j /\ At(s, i).faces = At(s, j).faces
      /\ i[1] \in s.members[At(s, i).faces] /\ j[1] \in s.members[At(s, i).faces]
      /\ \A k : In(t, k) <=> In(s, k)
      /\ \A k : In(s, k) /\ k # i /\ k # j => At(t, k) = At(s, k)
      /\ \A e \in Devs : Len(t.intrfcs[e]) = Len(s.intrfcs[e])
      /\ t.members = s.members /\ t.count = s.count /\ t.built = s.built /\ t.panics = s.panics
  BY DEF TopoOK, Joined, Joinable
<1>2. /\ At(t, i).name = At(s, i).name /\ At(t, i).media = At(s, i).media
      /\ At(t, i).faces = At(s, i).faces
      /\ At(t, i).cable = (IF cable THEN {j} ELSE At(s, i).cable)
      /\ At(t, i).carry = (IF carry THEN At(s, i).carry \cup {j} ELSE At(s, i).carry)
      /\ At(t, i).wireless = (IF wireless THEN At(s, i).wireless \cup {j} ELSE At(s, i).wireless)
  BY DEF Joined, Adds
<1>3. /\ At(t, j).name = At(s, j).name /\ At(t, j).media = At(s, j).media
      /\ At(t, j).faces = At(s, j).faces
      /\ At(t, j).cable = (IF cable THEN {i} ELSE At(s, j).cable)
      /\ At(t, j).carry = (IF carry THEN At(s, j).carry \cup {i} ELSE At(s, j).carry)
      /\ At(t, j).wireless = (IF wireless THEN At(s, j).wireless \cup {i} ELSE At(s, j).wireless)
  BY DEF Joined, Adds
<1>4. ASSUME NEW k, In(s, k)
      PROVE  /\ At(t, k).name = At(s, k).name /\ At(t, k).media = At(s, k).media
             /\ At(t, k).faces = At(s, k).faces
             /\ At(s, k).cable \subseteq At(t, k).cable
             /\ At(s, k).carry \subseteq At(t, k).carry
             /\ At(s, k).wireless \subseteq At(t, k).wireless
  BY <1>1, <1>2, <1>3, <1>4
<1>5. \A k, l : In(s, k) /\ Mutual(s, k, l) => Mutual(t, k, l)
  BY <1>1, <1>4 DEF Mutual
<1>6. Mutual(t, i, j) /\ Mutual(t, j, i)
  BY <1>1, <1>2, <1>3 DEF Mutual
<1>7. ASSUME NEW k, In(s, k), NEW l \in At(t, k).cable
      PROVE  /\ Mutual(t, k, l) /\ At(t, k).cable = {l} /\ At(t, l).cable = {k}
             /\ At(t, k).media = "wired" /\ At(t, l).media = "wired"
  <2>1. LinksOK(s, k) /\ LinksOK(s, i) /\ LinksOK(s, j)
    BY <1>1, <1>7 DEF TopoOK
  <2>2. CASE cable /\ k = i
    BY <1>2, <1>3, <1>6, <1>7, <2>2
  <2>3. CASE cable /\ k = j
    BY <1>2, <1>3, <1>6, <1>7, <2>3
  <2>4. CASE cable /\ k # i /\ k # j
    <3>1. l \in At(s, k).cable /\ At(t, k) = At(s, k)
      BY <1>1, <1>7, <2>4
    <3>2. /\ Mutual(s, k, l) /\ At(s, k).cable = {l} /\ At(s, l).cable = {k}
          /\ At(s, k).media = "wired" /\ At(s, l).media = "wired"
      BY <2>1, <3>1 DEF LinksOK
    <3>3. l # i /\ l # j
      BY <2>4, <3>2
    <3>4. At(t, l) = At(s, l)
      BY <1>1, <3>2, <3>3 DEF Mutual
    <3>5. QED
      BY <1>5, <1>7, <3>1, <3>2, <3>4
  <2>5. CASE ~ cable
    <3>1. \A m : In(s, m) => At(t, m).cable = At(s, m).cable
      BY <1>1, <1>2, <1>3, <2>5
    <3>2. l \in At(s, k).cable
      BY <1>7, <3>1
    <3>3. /\ Mutual(s, k, l) /\ At(s, k).cable = {l} /\ At(s, l).cable = {k}
          /\ At(s, k).media = "wired" /\ At(s, l).media = "wired"
      BY <2>1, <3>2 DEF LinksOK
    <3>4. In(s, l)
      BY <3>3 DEF Mutual
    <3>5. QED
      BY <1>4, <1>5, <1>7, <3>1, <3>3, <3>4
  <2>6. QED
    BY <2>2, <2>3, <2>4, <2>5
<1>8. ASSUME NEW k, In(s, k), NEW l \in At(t, k).carry
      PROVE  Mutual(t, k, l) /\ k \in At(t, l).carry
  <2>1. LinksOK(s, k)
    BY <1>8 DEF TopoOK
  <2>2. CASE l \in At(s, k).carry
    <3>1. Mutual(s, k, l) /\ k \in At(s, l).carry
      BY <2>1, <2>2 DEF LinksOK
    <3>2. In(s, l)
      BY <3>1 DEF Mutual
    <3>3. QED
      BY <1>4, <1>5, <1>8, <3>1, <3>2
  <2>3. CASE l \notin At(s, k).carry
    <3>1. carry /\ ((k = i /\ l = j) \/ (k = j /\ l = i))
      BY <1>1, <1>2, <1>3, <1>8, <2>3
    <3>2. QED
      BY <1>2, <1>3, <1>6, <3>1
  <2>4. QED
    BY <2>2, <2>3
<1>9. ASSUME NEW k, In(s, k), NEW l \in At(t, k).wireless
      PROVE  Mutual(t, k, l) /\ k \in At(t, l).wireless
  <2>1. LinksOK(s, k)
    BY <1>9 DEF TopoOK
  <2>2. CASE l \in At(s, k).wireless
    <3>1. Mutual(s, k, l) /\ k \in At(s, l).wireless
      BY <2>1, <2>2 DEF LinksOK
    <3>2. In(s, l)
      BY <3>1 DEF Mutual
    <3>3. QED
      BY <1>4, <1>5, <1>9, <3>1, <3>2
  <2>3. CASE l \notin At(s, k).wireless
    <3>1. wireless /\ ((k = i /\ l = j) \/ (k = j /\ l = i))
      BY <1>1, <1>2, <1>3, <1>9, <2>3
    <3>2. QED
      BY <1>2, <1>3, <1>6, <3>1
  <2>4. QED
    BY <2>2, <2>3
<1>10. ASSUME NEW k, In(s, k), At(t, k).cable \cup At(t, k).carry \cup At(t, k).wireless # {}
       PROVE  k[1] \in t.members[At(t, k).faces]
  <2>1. CASE k = i \/ k = j
    BY <1>1, <1>2, <1>3, <2>1
  <2>2. CASE k # i /\ k # j
    <3>1. At(t, k) = At(s, k) /\ LinksOK(s, k)
      BY <1>1, <1>10, <2>2 DEF TopoOK
    <3>2. QED
      BY <1>1, <1>10, <3>1 DEF LinksOK
  <2>3. QED
    BY <2>1, <2>2
<1>11. \A k : In(t, k) => LinksOK(t, k)
  <2>1. ASSUME NEW k, In(s, k)
        PROVE  /\ At(t, k).carry # {} => At(t, k).media = "wired"
               /\ At(t, k).wireless # {} => At(t, k).media = "wireless"
    <3>1. /\ At(s, k).carry # {} => At(s, k).media = "wired"
          /\ At(s, k).wireless # {} => At(s, k).media = "wireless"
      BY <2>1 DEF TopoOK, LinksOK
    <3>2. CASE k = i
      BY <1>2, <3>1, <3>2
    <3>3. CASE k = j
      BY <1>3, <3>1, <3>3
    <3>4. CASE k # i /\ k # j
      BY <1>1, <2>1, <3>1, <3>4
    <3>5. QED
      BY <3>2, <3>3, <3>4
  <2>2. QED
    BY <1>1, <1>7, <1>8, <1>9, <1>10, <2>1 DEF LinksOK
<1>12. ASSUME NEW k, NEW l, In(t, k), In(t, l), SameName(t, k, l), At(t, k).faces = At(t, l).faces
       PROVE  k = l
  BY <1>1, <1>4, <1>12 DEF TopoOK, SameName
<1>13. \A e \in Spare \ t.built : t.intrfcs[e] = << >>
  <2>1. ASSUME NEW e \in Spare \ t.built
        PROVE  t.intrfcs[e] = << >>
    <3>1. t.intrfcs[e] \in Seq(Frame) /\ s.intrfcs[e] = << >> /\ Len(t.intrfcs[e]) = Len(s.intrfcs[e])
      BY <1>1, TopoAssumption DEF TopoOK, Shape
    <3>2. QED
      BY <3>1, EmptySeq
  <2>2. QED
    BY <2>1
<1>14. \A e \in Devs : Len(t.intrfcs[e]) <= t.count
  BY <1>1 DEF TopoOK
<1>15. Grows(s, t)
  BY <1>1, <1>4 DEF Grows
<1>16. QED
  BY <1>1, <1>11, <1>12, <1>13, <1>14, <1>15 DEF TopoOK

\* CableIntrfcs, AddCarry both ways, AddWireless both ways: each joins i and j.
LEMMA CableJoins ==
  ASSUME NEW s, TopoOK(s), NEW i, NEW j, Joinable(s, i, j)
  PROVE  Joined(s, CableIntrfcs(s, i, j), i, j, TRUE, FALSE, FALSE)
<1> DEFINE x == [At(s, i) EXCEPT !.cable = {j}]
           u == Change(s, i, x)
           y == [At(u, j) EXCEPT !.cable = {i}]
           t == CableIntrfcs(s, i, j)
<1>1. /\ s \in Shape /\ In(s, i) /\ In(s, j) /\ i # j
      /\ At(s, i) \in Frame /\ At(s, j) \in Frame /\ i \in Places /\ j \in Places
  BY FrameThere DEF TopoOK, Joinable, In
<1>2. /\ x \in Frame /\ x.cable = {j} /\ x.name = At(s, i).name /\ x.media = At(s, i).media
      /\ x.faces = At(s, i).faces /\ x.carry = At(s, i).carry /\ x.wireless = At(s, i).wireless
  BY <1>1 DEF Frame
<1>3. t = Change(u, j, y)
  BY DEF CableIntrfcs
<1> HIDE DEF x, t
<1>4. Changed(s, u, i, x)
  BY <1>1, <1>2, ChangeFacts
<1> HIDE DEF u
<1>5. u \in Shape /\ In(u, j) /\ At(u, j) = At(s, j)
  BY <1>1, <1>4 DEF Changed
<1>6. /\ y \in Frame /\ y.cable = {i} /\ y.name = At(s, j).name /\ y.media = At(s, j).media
      /\ y.faces = At(s, j).faces /\ y.carry = At(s, j).carry /\ y.wireless = At(s, j).wireless
  BY <1>1, <1>5 DEF Frame
<1> HIDE DEF y
<1>7. Changed(u, t, j, y)
  BY <1>3, <1>5, <1>6, ChangeFacts
<1>8. /\ t \in Shape /\ \A k : In(t, k) <=> In(s, k)
      /\ At(t, i) = x /\ At(t, j) = y
      /\ \A k : In(s, k) /\ k # i /\ k # j => At(t, k) = At(s, k)
      /\ \A e \in Devs : Len(t.intrfcs[e]) = Len(s.intrfcs[e])
      /\ t.members = s.members /\ t.count = s.count /\ t.built = s.built /\ t.panics = s.panics
  BY <1>1, <1>4, <1>7 DEF Changed
<1>9. Joined(s, t, i, j, TRUE, FALSE, FALSE)
  BY <1>2, <1>6, <1>8 DEF Joined, Adds
<1>10. QED
  BY <1>9 DEF t

LEMMA CarryJoins ==
  ASSUME NEW s, TopoOK(s), NEW i, NEW j, Joinable(s, i, j)
  PROVE  Joined(s, AddCarry(AddCarry(s, i, j), j, i), i, j, FALSE, TRUE, FALSE)
<1> DEFINE x == [At(s, i) EXCEPT !.carry = @ \cup {j}]
           u == Change(s, i, x)
           y == [At(u, j) EXCEPT !.carry = @ \cup {i}]
           t == AddCarry(AddCarry(s, i, j), j, i)
<1>1. /\ s \in Shape /\ In(s, i) /\ In(s, j) /\ i # j
      /\ At(s, i) \in Frame /\ At(s, j) \in Frame /\ i \in Places /\ j \in Places
  BY FrameThere DEF TopoOK, Joinable, In
<1>2. /\ x.carry = At(s, i).carry \cup {j} /\ x.name = At(s, i).name /\ x.media = At(s, i).media
      /\ x.faces = At(s, i).faces /\ x.cable = At(s, i).cable /\ x.wireless = At(s, i).wireless
  BY <1>1 DEF Frame
<1>3. x \in Frame
  <2>1. At(s, i).carry \cup {j} \in SUBSET Places
    BY <1>1 DEF Frame
  <2>2. QED
    BY <1>1, <2>1 DEF Frame
<1>4. t = Change(u, j, y)
  BY DEF AddCarry
<1> HIDE DEF x, t
<1>5. Changed(s, u, i, x)
  BY <1>1, <1>3, ChangeFacts
<1> HIDE DEF u
<1>6. u \in Shape /\ In(u, j) /\ At(u, j) = At(s, j)
  BY <1>1, <1>5 DEF Changed
<1>7. /\ y.carry = At(s, j).carry \cup {i} /\ y.name = At(s, j).name /\ y.media = At(s, j).media
      /\ y.faces = At(s, j).faces /\ y.cable = At(s, j).cable /\ y.wireless = At(s, j).wireless
  BY <1>1, <1>6 DEF Frame
<1>8. y \in Frame
  <2>1. At(u, j).carry \cup {i} \in SUBSET Places
    BY <1>1, <1>6 DEF Frame
  <2>2. QED
    BY <1>1, <1>6, <2>1 DEF Frame
<1> HIDE DEF y
<1>9. Changed(u, t, j, y)
  BY <1>4, <1>6, <1>8, ChangeFacts
<1>10. /\ t \in Shape /\ \A k : In(t, k) <=> In(s, k)
       /\ At(t, i) = x /\ At(t, j) = y
       /\ \A k : In(s, k) /\ k # i /\ k # j => At(t, k) = At(s, k)
       /\ \A e \in Devs : Len(t.intrfcs[e]) = Len(s.intrfcs[e])
       /\ t.members = s.members /\ t.count = s.count /\ t.built = s.built /\ t.panics = s.panics
  BY <1>1, <1>5, <1>9 DEF Changed
<1>11. Joined(s, t, i, j, FALSE, TRUE, FALSE)
  BY <1>2, <1>7, <1>10 DEF Joined, Adds
<1>12. QED
  BY <1>11 DEF t

\* AddWireless finds an interface by name: among those of one device in one
\* network, the name tells it.
LEMMA AddWirelessFacts ==
  ASSUME NEW s \in Shape, NEW i, NEW j, In(s, i), j \in Places,
         \A k \in At(s, i).wireless : SameName(s, k, j) => k = j
  PROVE  \E x \in Frame :
           /\ Changed(s, AddWireless(s, i, j), i, x)
           /\ x.name = At(s, i).name /\ x.media = At(s, i).media /\ x.faces = At(s, i).faces
           /\ x.cable = At(s, i).cable /\ x.carry = At(s, i).carry
           /\ x.wireless = At(s, i).wireless \cup {j}
<1> DEFINE t == AddWireless(s, i, j)
<1>1. At(s, i) \in Frame
  BY FrameThere
<1>2. CASE \E c \in At(s, i).wireless : SameName(s, c, j)
  <2>1. t = s /\ j \in At(s, i).wireless
    BY <1>2 DEF AddWireless
  <2>2. Changed(s, t, i, At(s, i)) /\ At(s, i).wireless = At(s, i).wireless \cup {j}
    BY <2>1 DEF Changed
  <2>3. QED
    BY <1>1, <2>2
<1>3. CASE ~ \E c \in At(s, i).wireless : SameName(s, c, j)
  <2> DEFINE x == [At(s, i) EXCEPT !.wireless = @ \cup {j}]
  <2>1. /\ x.name = At(s, i).name /\ x.media = At(s, i).media /\ x.faces = At(s, i).faces
        /\ x.cable = At(s, i).cable /\ x.carry = At(s, i).carry
        /\ x.wireless = At(s, i).wireless \cup {j}
    BY <1>1 DEF Frame
  <2>2. At(s, i).wireless \cup {j} \in SUBSET Places
    BY <1>1 DEF Frame
  <2>3. x \in Frame
    BY <1>1, <2>2 DEF Frame
  <2>4. t = Change(s, i, x)
    BY <1>3 DEF AddWireless
  <2> HIDE DEF x, t
  <2>5. Changed(s, t, i, x)
    BY <2>3, <2>4, ChangeFacts
  <2>6. QED
    BY <2>1, <2>3, <2>5 DEF t
<1>4. QED
  BY <1>2, <1>3

LEMMA WirelessJoins ==
  ASSUME NEW s, TopoOK(s), NEW i, NEW j, Joinable(s, i, j)
  PROVE  Joined(s, AddWireless(AddWireless(s, i, j), j, i), i, j, FALSE, FALSE, TRUE)
<1> DEFINE u == AddWireless(s, i, j)
           t == AddWireless(u, j, i)
<1>1. /\ s \in Shape /\ In(s, i) /\ In(s, j) /\ i # j
      /\ i \in Places /\ j \in Places /\ At(s, i).faces = At(s, j).faces
  BY DEF TopoOK, Joinable, In
<1>2. ASSUME NEW k \in At(s, i).wireless, SameName(s, k, j)
      PROVE  k = j
  <2>1. In(s, k) /\ At(s, k).faces = At(s, i).faces
    BY <1>1 DEF TopoOK, LinksOK, Mutual
  <2>2. QED
    BY <1>1, <1>2, <2>1 DEF TopoOK
<1>3. PICK x \in Frame :
        /\ Changed(s, u, i, x)
        /\ x.name = At(s, i).name /\ x.media = At(s, i).media /\ x.faces = At(s, i).faces
        /\ x.cable = At(s, i).cable /\ x.carry = At(s, i).carry
        /\ x.wireless = At(s, i).wireless \cup {j}
  BY <1>1, <1>2, AddWirelessFacts
<1> HIDE DEF u
<1>4. u \in Shape /\ In(u, j) /\ At(u, j) = At(s, j) /\ At(u, i) = x
  BY <1>1, <1>3 DEF Changed
<1>5. ASSUME NEW k \in At(u, j).wireless, SameName(u, k, i)
      PROVE  k = i
  <2>1. In(s, k) /\ At(s, k).faces = At(s, j).faces
    BY <1>1, <1>4 DEF TopoOK, LinksOK, Mutual
  <2>2. At(u, k).name = At(s, k).name
    BY <1>3, <2>1 DEF Changed
  <2>3. SameName(s, k, i)
    BY <1>3, <1>4, <1>5, <2>2 DEF SameName
  <2>4. QED
    BY <1>1, <2>1, <2>3 DEF TopoOK
<1>6. PICK y \in Frame :
        /\ Changed(u, t, j, y)
        /\ y.name = At(u, j).name /\ y.media = At(u, j).media /\ y.faces = At(u, j).faces
        /\ y.cable = At(u, j).cable /\ y.carry = At(u, j).carry
        /\ y.wireless = At(u, j).wireless \cup {i}
  BY <1>1, <1>4, <1>5, AddWirelessFacts
<1> HIDE DEF t
<1>7. /\ t \in Shape /\ \A k : In(t, k) <=> In(s, k)
      /\ At(t, i) = x /\ At(t, j) = y
      /\ \A k : In(s, k) /\ k # i /\ k # j => At(t, k) = At(s, k)
      /\ \A e \in Devs : Len(t.intrfcs[e]) = Len(s.intrfcs[e])
      /\ t.members = s.members /\ t.count = s.count /\ t.built = s.built /\ t.panics = s.panics
  BY <1>1, <1>3, <1>6 DEF Changed
<1>8. Joined(s, t, i, j, FALSE, FALSE, TRUE)
  BY <1>3, <1>4, <1>6, <1>7 DEF Joined, Adds
<1>9. QED
  BY <1>8 DEF t, u

----------------------------------------------------------------------------
(* The interfaces that the calls choose.                                   *)

LEMMA MinFacts ==
  ASSUME NEW S, S \subseteq Nat, S # {}
  PROVE  Min(S) \in S /\ \A y \in S : Min(S) <= y
BY LeastOf DEF Min

LEMMA FirstPairFacts ==
  ASSUME NEW P, P \subseteq Nat \X Nat, P # {}
  PROVE  FirstPair(P) \in P
<1> DEFINE S == {p[1] : p \in P}
           k == Min(S)
           T == {p[2] : p \in {q \in P : q[1] = k}}
<1>1. k \in S
  <2>1. S \subseteq Nat /\ S # {}
    OBVIOUS
  <2> HIDE DEF S
  <2>2. QED
    BY <2>1, MinFacts
<1> HIDE DEF k
<1>2. T \subseteq Nat /\ T # {}
  BY <1>1
<1>3. Min(T) \in T
  BY <1>2, MinFacts
<1>4. PICK p \in P : p[1] = k /\ p[2] = Min(T)
  BY <1>3
<1>5. p = <<k, Min(T)>>
  BY <1>4
<1>6. QED
  BY <1>4, <1>5 DEF FirstPair, k

LEMMA FacingFacts ==
  ASSUME NEW s, TopoOK(s), NEW d \in Devs, NEW n, NEW media, NEW k \in Facing(s, d, n, media)
  PROVE  /\ k \in Nat /\ In(s, <<d, k>>)
         /\ At(s, <<d, k>>) = s.intrfcs[d][k]
         /\ At(s, <<d, k>>).faces = n /\ At(s, <<d, k>>).media = media
<1>1. s.intrfcs[d] \in Seq(Frame) /\ k \in DOMAIN s.intrfcs[d]
  BY DEF TopoOK, Shape, Facing
<1>2. k \in Nat \ {0}
  BY <1>1
<1>3. QED
  BY <1>1, <1>2 DEF In, Places, At, Facing

\* What one interface carries answers: two interfaces of one network that are
\* found by name are the ones that were linked.
LEMMA CarryAnswered ==
  ASSUME NEW s, TopoOK(s), NEW i, NEW j, In(s, i), In(s, j),
         At(s, i).faces = At(s, j).faces, CarryContained(s, i, j)
  PROVE  CarryContained(s, j, i)
<1>1. PICK c \in At(s, j).carry : SameName(s, c, i)
  BY DEF CarryContained
<1>2. In(s, c) /\ At(s, j).faces = At(s, c).faces /\ j \in At(s, c).carry
  BY <1>1 DEF TopoOK, LinksOK, Mutual
<1>3. c = i
  BY <1>1, <1>2 DEF TopoOK
<1>4. QED
  BY <1>2, <1>3 DEF CarryContained, SameName

\* ConnectDevs never meets interfaces one of which carries the other only.
LEMMA HalfCarriedNever ==
  ASSUME NEW s, TopoOK(s), NEW d \in Devs, NEW e \in Devs, NEW n
  PROVE  HalfCarried(s, d, e, n) = {}
<1>1. ASSUME NEW p \in Facing(s, d, n, "wired") \X Facing(s, e, n, "wired")
      PROVE  CarryContained(s, <<d, p[1]>>, <<e, p[2]>>) <=> CarryContained(s, <<e, p[2]>>, <<d, p[1]>>)
  <2>1. /\ In(s, <<d, p[1]>>) /\ At(s, <<d, p[1]>>).faces = n
        /\ In(s, <<e, p[2]>>) /\ At(s, <<e, p[2]>>).faces = n
    BY FacingFacts
  <2>2. QED
    BY <2>1, CarryAnswered
<1>2. \A i, j : CarryContained(s, i, j) \in BOOLEAN
  BY DEF CarryContained
<1>3. QED
  BY <1>1, <1>2 DEF HalfCarried

----------------------------------------------------------------------------
(* ConnectDevs.                                                            *)

\* A step that a call may take, with what it counts.
Within(s, t, n) ==
  /\ TopoOK(t) /\ Grows(s, t) /\ t.built = s.built
  /\ t.count >= s.count /\ t.count <= s.count + n

Connected(s, t, d, e) == Within(s, t, 2) /\ Linked(t, d, e)

\* Two devices of a network, of which the interfaces are to be joined.
TwoIn(s, d, e, n) ==
  /\ There(s, d) /\ There(s, e) /\ d # e /\ n \in Nets /\ {d, e} \subseteq s.members[n]

LEMMA FacingJoinable ==
  ASSUME NEW s, TopoOK(s), NEW d, NEW e, NEW n, TwoIn(s, d, e, n), NEW media,
         NEW k \in Facing(s, d, n, media), NEW l \in Facing(s, e, n, media)
  PROVE  /\ Joinable(s, <<d, k>>, <<e, l>>)
         /\ At(s, <<d, k>>) = s.intrfcs[d][k] /\ At(s, <<e, l>>) = s.intrfcs[e][l]
         /\ At(s, <<d, k>>).media = media /\ At(s, <<e, l>>).media = media
<1>1. d \in Devs /\ e \in Devs /\ d # e /\ {d, e} \subseteq s.members[n]
  BY DEF TwoIn, There
<1>2. /\ In(s, <<d, k>>) /\ At(s, <<d, k>>) = s.intrfcs[d][k]
      /\ At(s, <<d, k>>).faces = n /\ At(s, <<d, k>>).media = media
  BY <1>1, FacingFacts
<1>3. /\ In(s, <<e, l>>) /\ At(s, <<e, l>>) = s.intrfcs[e][l]
      /\ At(s, <<e, l>>).faces = n /\ At(s, <<e, l>>).media = media
  BY <1>1, FacingFacts
<1>4. QED
  BY <1>1, <1>2, <1>3 DEF Joinable

\* Joining two interfaces by a cable or by carrying connects their devices.
LEMMA JoinedConnected ==
  ASSUME NEW s, TopoOK(s), NEW i, NEW j, Joinable(s, i, j),
         NEW cable \in BOOLEAN,
         At(s, i).media = "wired", At(s, j).media = "wired",
         cable => At(s, i).cable \in {{}, {j}} /\ At(s, j).cable \in {{}, {i}},
         NEW t, t = IF cable THEN CableIntrfcs(s, i, j) ELSE AddCarry(AddCarry(s, i, j), j, i)
  PROVE  Within(s, t, 0) /\ Linked(t, i[1], j[1])
<1>1. Joined(s, t, i, j, cable, ~ cable, FALSE)
  BY CableJoins, CarryJoins
<1>2. TopoOK(t) /\ Grows(s, t)
  BY <1>1, JoinedOK
<1>3. In(t, i) /\ In(t, j) /\ j \in At(t, i).cable \cup At(t, i).carry
  BY <1>1 DEF Joined, Joinable, Adds
<1>4. Linked(t, i[1], j[1])
  BY <1>3 DEF Linked
<1>5. t.count = s.count /\ t.built = s.built /\ s.count \in Nat
  BY <1>1 DEF Joined, TopoOK, Shape
<1>6. QED
  BY <1>2, <1>4, <1>5 DEF Within

LEMMA ConnectFreeFacts ==
  ASSUME NEW s, TopoOK(s), NEW d, NEW e, NEW n, TwoIn(s, d, e, n), NEW cable \in BOOLEAN,
         NEW u, u = ConnectFree(s, d, e, cable, n), ~ u.panics
  PROVE  Connected(s, u, d, e)
<1> DEFINE r == WithFree(s, d, n)
           t == WithFree(r, e, n)
           k == Min(Free(t, d, n))
           l == Min(Free(t, e, n))
<1>1. /\ There(s, d) /\ There(s, e) /\ d # e /\ n \in Nets /\ {d, e} \subseteq s.members[n]
      /\ d \in Devs /\ e \in Devs
  BY DEF TwoIn, There
<1>2. s.count \in Nat
  BY DEF TopoOK, Shape
<1>3. Named(s, r, d, "wired", n) /\ (~ r.panics => Free(r, d, n) # {})
  BY <1>1, WithFreeFacts
<1>4. u = IF cable THEN CableIntrfcs(t, <<d, k>>, <<e, l>>)
          ELSE AddCarry(AddCarry(t, <<d, k>>, <<e, l>>), <<e, l>>, <<d, k>>)
  BY DEF ConnectFree
<1>5. s \in Shape /\ PanicsStay(s, r)
  BY <1>1, WithPanics DEF TopoOK
<1>6. PanicsStay(r, t)
  BY <1>1, <1>5, WithPanics DEF PanicsStay
<1>7. t.panics = u.panics
  <2>1. t \in Shape
    BY <1>6 DEF PanicsStay
  <2> HIDE DEF t, k, l
  <2>2. QED
    BY <1>4, <2>1 DEF CableIntrfcs, AddCarry, Change, Shape
<1>8. ~ t.panics /\ ~ r.panics
  BY <1>6, <1>7 DEF PanicsStay
<1>9. /\ TopoOK(r) /\ Grows(s, r) /\ r.built = s.built
      /\ r.count >= s.count /\ r.count <= s.count + 1 /\ Free(r, d, n) # {}
  BY <1>3, <1>8 DEF Named
<1>10. There(r, e)
  BY <1>1, <1>9 DEF There
<1> HIDE DEF r
<1>11. Named(r, t, e, "wired", n) /\ (~ t.panics => Free(t, e, n) # {})
  BY <1>1, <1>9, <1>10, WithFreeFacts
<1> HIDE DEF t
<1>12. /\ TopoOK(t) /\ Grows(r, t) /\ t.built = s.built /\ t.intrfcs[d] = r.intrfcs[d]
       /\ t.count >= r.count /\ t.count <= r.count + 1 /\ Free(t, e, n) # {}
  BY <1>1, <1>8, <1>9, <1>11 DEF Named
<1>13. Free(t, d, n) # {}
  BY <1>9, <1>12 DEF Free, Facing
<1>14. /\ k \in Facing(t, d, n, "wired") /\ t.intrfcs[d][k].cable = {}
       /\ l \in Facing(t, e, n, "wired") /\ t.intrfcs[e][l].cable = {}
  <2>1. Free(t, d, n) \subseteq Nat /\ Free(t, e, n) \subseteq Nat
    BY <1>1, <1>12, FacingFacts DEF Free
  <2>2. k \in Free(t, d, n) /\ l \in Free(t, e, n)
    BY <1>12, <1>13, <2>1, MinFacts
  <2>3. QED
    BY <2>2 DEF Free
<1> HIDE DEF k, l
<1>15. Grows(s, t)
  BY <1>9, <1>12, GrowsTransitive
<1>16. TwoIn(t, d, e, n)
  BY <1>1, <1>12, <1>15 DEF TwoIn, There, Grows
<1>17. /\ Joinable(t, <<d, k>>, <<e, l>>)
       /\ At(t, <<d, k>>).cable = {} /\ At(t, <<e, l>>).cable = {}
       /\ At(t, <<d, k>>).media = "wired" /\ At(t, <<e, l>>).media = "wired"
  <2>1. /\ Joinable(t, <<d, k>>, <<e, l>>)
        /\ At(t, <<d, k>>) = t.intrfcs[d][k] /\ At(t, <<e, l>>) = t.intrfcs[e][l]
        /\ At(t, <<d, k>>).media = "wired" /\ At(t, <<e, l>>).media = "wired"
    BY <1>12, <1>14, <1>16, FacingJoinable
  <2>2. QED
    BY <1>14, <2>1
<1>18. Within(t, u, 0) /\ Linked(u, <<d, k>>[1], <<e, l>>[1])
  BY <1>4, <1>12, <1>17, JoinedConnected
<1>19. TopoOK(u) /\ Grows(t, u) /\ u.built = s.built /\ u.count = t.count /\ u.count \in Nat
  BY <1>12, <1>18 DEF Within, TopoOK, Shape
<1>20. Grows(s, u)
  BY <1>15, <1>19, GrowsTransitive
<1>21. r.count \in Nat /\ t.count \in Nat
  BY <1>9, <1>12 DEF TopoOK, Shape
<1>22. QED
  BY <1>2, <1>9, <1>12, <1>18, <1>19, <1>20, <1>21 DEF Connected, Within

\* Once both devices are included, they are connected: by a cable between ends
\* that have no other, or by carrying.
LEMMA ConnectFacts ==
  ASSUME NEW s, TopoOK(s), NEW d, NEW e, NEW n, TwoIn(s, d, e, n), NEW cable \in BOOLEAN,
         NEW u, u = Connect(s, d, e, cable, n), ~ u.panics
  PROVE  Connected(s, u, d, e)
<1>1. d \in Devs /\ e \in Devs
  BY DEF TwoIn, There
<1>2. HalfCarried(s, d, e, n) = {}
  BY <1>1, HalfCarriedNever
<1>3. CASE cable /\ Cablable(s, d, e, n) # {}
  <2> DEFINE p == FirstPair(Cablable(s, d, e, n))
             i == <<d, p[1]>>
             j == <<e, p[2]>>
  <2>1. u = CableIntrfcs(s, i, j)
    BY <1>3 DEF Connect
  <2>2. Cablable(s, d, e, n) \subseteq Nat \X Nat
    <3>1. \A k \in Facing(s, d, n, "wired") : k \in Nat
      BY <1>1, FacingFacts
    <3>2. \A k \in Facing(s, e, n, "wired") : k \in Nat
      BY <1>1, FacingFacts
    <3>3. QED
      BY <3>1, <3>2 DEF Cablable
  <2>3. p \in Cablable(s, d, e, n)
    BY <1>3, <2>2, FirstPairFacts
  <2> HIDE DEF p
  <2>4. /\ p[1] \in Facing(s, d, n, "wired") /\ p[2] \in Facing(s, e, n, "wired")
        /\ s.intrfcs[d][p[1]].cable \in {{}, {j}} /\ s.intrfcs[e][p[2]].cable \in {{}, {i}}
    BY <2>3 DEF Cablable
  <2>5. /\ Joinable(s, i, j)
        /\ At(s, i).cable \in {{}, {j}} /\ At(s, j).cable \in {{}, {i}}
        /\ At(s, i).media = "wired" /\ At(s, j).media = "wired"
    BY <2>4, FacingJoinable
  <2>6. i[1] = d /\ j[1] = e
    OBVIOUS
  <2> HIDE DEF i, j
  <2>7. u = IF TRUE THEN CableIntrfcs(s, i, j) ELSE AddCarry(AddCarry(s, i, j), j, i)
    BY <2>1
  <2>8. Within(s, u, 0) /\ Linked(u, i[1], j[1])
    BY <2>5, <2>7, JoinedConnected
  <2>9. s.count \in Nat /\ u.count \in Nat
    BY <2>8 DEF Within, TopoOK, Shape
  <2>10. QED
    BY <2>6, <2>8, <2>9 DEF Connected, Within
<1>4. CASE ~ (cable /\ Cablable(s, d, e, n) # {})
  <2>1. u = ConnectFree(s, d, e, cable, n)
    BY <1>2, <1>4 DEF Connect
  <2>2. QED
    BY <2>1, ConnectFreeFacts
<1>5. QED
  BY <1>3, <1>4

----------------------------------------------------------------------------
(* The calls.                                                              *)

StepDone ==
  /\ TopoOK(frames') /\ frames'.panics = FALSE
  /\ Grows(frames, frames') /\ frames'.count <= frames.count + 4

BothIncluded(s, t, d, e, n) ==
  /\ Within(s, t, 2) /\ t.panics = s.panics
  /\ TwoIn(t, d, e, n)

LEMMA BothIncludedFacts ==
  ASSUME NEW s, TopoOK(s), NEW d, NEW e, There(s, d), There(s, e), d # e,
         NEW media \in Media, NEW n \in Nets
  PROVE  BothIncluded(s, IncludeDev(IncludeDev(s, d, media, n), e, media, n), d, e, n)
<1> DEFINE t == IncludeDev(s, d, media, n)
           u == IncludeDev(t, e, media, n)
<1>1. Included(s, t, d, n)
  BY IncludeDevFacts
<1> HIDE DEF t
<1>2. TopoOK(t) /\ There(t, e) /\ t.built = s.built
  BY <1>1 DEF Included, There
<1>3. Included(t, u, e, n)
  BY <1>2, IncludeDevFacts
<1> HIDE DEF u
<1>4. Grows(s, u)
  BY <1>1, <1>3, GrowsTransitive DEF Included
<1>5. {d, e} \subseteq u.members[n]
  BY <1>1, <1>3 DEF Included, Grows
<1>6. There(u, d) /\ There(u, e)
  BY <1>2, <1>3 DEF Included, There
<1>7. s.count \in Nat /\ t.count \in Nat /\ u.count \in Nat
  BY <1>1, <1>3 DEF Included, TopoOK, Shape
<1>8. Within(s, u, 2) /\ u.panics = s.panics
  BY <1>1, <1>3, <1>4, <1>7 DEF Included, Within
<1>9. QED
  BY <1>5, <1>6, <1>8 DEF BothIncluded, TwoIn, t, u

LEMMA PresentThere ==
  ASSUME NEW d \in Present, IInv
  PROVE  There(frames, d)
BY TopoAssumption DEF Present, There, IInv, TopoOK, Shape

LEMMA ConnectDevsDone ==
  ASSUME IInv, NEW d \in Present, NEW e \in Present, d # e, NEW n \in Nets, NEW cable \in BOOLEAN,
         ConnectDevs(d, e, cable, n)
  PROVE  StepDone /\ Linked(frames', d, e)
<1> DEFINE s == IncludeDev(IncludeDev(frames, d, "wired", n), e, "wired", n)
<1>1. TopoOK(frames) /\ There(frames, d) /\ There(frames, e) /\ frames.panics = FALSE
  <2>1. There(frames, d) /\ There(frames, e)
    BY PresentThere
  <2>2. QED
    BY <2>1 DEF IInv
<1>2. frames' = Connect(s, d, e, cable, n) /\ ~ frames'.panics
  BY DEF ConnectDevs
<1>3. BothIncluded(frames, s, d, e, n)
  BY <1>1, BothIncludedFacts DEF Media
<1> HIDE DEF s
<1>4. TopoOK(s) /\ TwoIn(s, d, e, n) /\ Within(frames, s, 2)
  BY <1>3 DEF BothIncluded, Within
<1>5. Connected(s, frames', d, e)
  BY <1>2, <1>4, ConnectFacts
<1>6. Grows(frames, frames')
  BY <1>4, <1>5, GrowsTransitive DEF Within, Connected
<1>7. frames.count \in Nat /\ s.count \in Nat /\ frames'.count \in Nat /\ frames'.panics \in BOOLEAN
  BY <1>1, <1>4, <1>5 DEF Connected, Within, TopoOK, Shape
<1>8. frames'.count <= frames.count + 4 /\ frames'.panics = FALSE
  BY <1>2, <1>4, <1>5, <1>7 DEF Connected, Within
<1>9. QED
  BY <1>5, <1>6, <1>8 DEF StepDone, Connected, Within

LEMMA WirelessConnectToDone ==
  ASSUME IInv, NEW hub \in Present, NEW d \in Present, hub # d, NEW n \in Nets,
         WirelessConnectTo(hub, d, n)
  PROVE  StepDone
<1> DEFINE s == IncludeDev(IncludeDev(frames, hub, "wireless", n), d, "wireless", n)
           r == WithWireless(s, hub, n)
           t == WithWireless(r, d, n)
           k == Min(Facing(t, hub, n, "wireless"))
           l == Min(Facing(t, d, n, "wireless"))
<1>1. TopoOK(frames) /\ There(frames, hub) /\ There(frames, d) /\ frames.panics = FALSE
  <2>1. There(frames, hub) /\ There(frames, d)
    BY PresentThere
  <2>2. QED
    BY <2>1 DEF IInv
<1>2. /\ ~ t.panics
      /\ frames' = AddWireless(AddWireless(t, <<hub, k>>, <<d, l>>), <<d, l>>, <<hub, k>>)
  BY DEF WirelessConnectTo
<1>3. BothIncluded(frames, s, hub, d, n)
  BY <1>1, BothIncludedFacts DEF Media
<1> HIDE DEF s
<1>4. TopoOK(s) /\ TwoIn(s, hub, d, n) /\ Within(frames, s, 2) /\ s \in Shape
  BY <1>3 DEF BothIncluded, Within, TopoOK
<1>5. There(s, hub) /\ There(s, d) /\ hub \in Devs /\ d \in Devs
  BY <1>4 DEF TwoIn, There
<1>6. Named(s, r, hub, "wireless", n) /\ (~ r.panics => Facing(r, hub, n, "wireless") # {})
  BY <1>4, <1>5, WithWirelessFacts
<1>7. PanicsStay(s, r)
  BY <1>4, <1>5, WithPanics
<1> HIDE DEF r
<1>8. PanicsStay(r, t)
  BY <1>5, <1>7, WithPanics DEF PanicsStay
<1>9. ~ r.panics
  BY <1>2, <1>8 DEF PanicsStay
<1>10. /\ TopoOK(r) /\ Grows(s, r) /\ r.built = s.built
       /\ r.count >= s.count /\ r.count <= s.count + 1 /\ Facing(r, hub, n, "wireless") # {}
  BY <1>6, <1>9 DEF Named
<1>11. There(r, d)
  BY <1>5, <1>10 DEF There
<1>12. Named(r, t, d, "wireless", n) /\ (~ t.panics => Facing(t, d, n, "wireless") # {})
  BY <1>10, <1>11, WithWirelessFacts
<1> HIDE DEF t
<1>13. /\ TopoOK(t) /\ Grows(r, t) /\ t.built = s.built /\ t.intrfcs[hub] = r.intrfcs[hub]
       /\ t.count >= r.count /\ t.count <= r.count + 1 /\ Facing(t, d, n, "wireless") # {}
  BY <1>2, <1>5, <1>10, <1>12 DEF Named
<1>14. Facing(t, hub, n, "wireless") # {}
  BY <1>10, <1>13 DEF Facing
<1>15. k \in Facing(t, hub, n, "wireless") /\ l \in Facing(t, d, n, "wireless")
  <2>1. /\ \A x \in Facing(t, hub, n, "wireless") : x \in Nat
        /\ \A x \in Facing(t, d, n, "wireless") : x \in Nat
    BY <1>5, <1>13, FacingFacts
  <2>2. Facing(t, hub, n, "wireless") \subseteq Nat /\ Facing(t, d, n, "wireless") \subseteq Nat
    BY <2>1
  <2>3. QED
    BY <1>13, <1>14, <2>2, MinFacts
<1> HIDE DEF k, l
<1>16. Grows(s, t)
  BY <1>10, <1>13, GrowsTransitive
<1>17. TwoIn(t, hub, d, n)
  BY <1>4, <1>13, <1>16 DEF TwoIn, There, Grows
<1>18. /\ Joinable(t, <<hub, k>>, <<d, l>>)
       /\ At(t, <<hub, k>>).media = "wireless" /\ At(t, <<d, l>>).media = "wireless"
  BY <1>13, <1>15, <1>17, FacingJoinable
<1>19. Joined(t, frames', <<hub, k>>, <<d, l>>, FALSE, FALSE, TRUE)
  BY <1>2, <1>13, <1>18, WirelessJoins
<1>20. TopoOK(frames') /\ Grows(t, frames')
  BY <1>13, <1>18, <1>19, JoinedOK
<1>21. frames'.count = t.count /\ frames'.panics = t.panics
  BY <1>19 DEF Joined
<1>22. /\ frames.count \in Nat /\ s.count \in Nat /\ r.count \in Nat /\ t.count \in Nat
       /\ t.panics \in BOOLEAN
  BY <1>1, <1>4, <1>10, <1>13 DEF TopoOK, Shape
<1>23. frames'.count <= frames.count + 4 /\ frames'.panics = FALSE
  BY <1>2, <1>4, <1>10, <1>13, <1>21, <1>22 DEF Within
<1>24. Grows(frames, t)
  BY <1>4, <1>16, GrowsTransitive DEF Within
<1>25. Grows(frames, frames')
  BY <1>20, <1>24, GrowsTransitive
<1>26. QED
  BY <1>20, <1>23, <1>25 DEF StepDone

LEMMA IncludeDone ==
  ASSUME IInv, NEW d \in Present, NEW media \in Media, NEW n \in Nets, Include(d, media, n)
  PROVE  StepDone
<1>1. TopoOK(frames) /\ There(frames, d) /\ frames.panics = FALSE /\ frames.count \in Nat
  <2>1. There(frames, d)
    BY PresentThere
  <2>2. QED
    BY <2>1 DEF IInv, TopoOK, Shape
<1>2. Included(frames, frames', d, n)
  BY <1>1, IncludeDevFacts DEF Include
<1>3. frames'.count \in Nat
  BY <1>2 DEF Included, TopoOK, Shape
<1>4. QED
  BY <1>1, <1>2, <1>3 DEF Included, StepDone

LEMMA AddIntrfcDone ==
  ASSUME IInv, NEW d \in Present, NEW name, NEW media \in Media, NEW n \in Nets,
         AddIntrfc(d, name, media, n)
  PROVE  StepDone
<1> DEFINE t == CreateIntrfc(frames, d, name, media, n)
<1>1. /\ TopoOK(frames) /\ There(frames, d) /\ frames.panics = FALSE /\ frames.count \in Nat
      /\ frames \in Shape /\ d \in Devs
  <2>1. There(frames, d)
    BY PresentThere
  <2>2. QED
    BY <2>1 DEF IInv, TopoOK, Shape, There
<1>2. name \in Nat
  BY <1>1, TopoAssumption DEF AddIntrfc
<1>3. OneMore(frames, t, d, name, media, n)
  BY <1>1, <1>2, CreateIntrfcFacts
<1>4. CASE ~ AddRefused(frames, d, name)
  <2>1. frames' = t
    BY <1>4 DEF AddIntrfc
  <2> HIDE DEF t
  <2>2. NameFree(frames, d, name, n)
    BY <1>4 DEF AddRefused, NameFree
  <2>3. TopoOK(frames') /\ Grows(frames, frames')
    BY <1>1, <1>2, <1>3, <2>1, <2>2, OneMoreOK DEF There
  <2>4. QED
    BY <1>1, <1>3, <2>1, <2>3 DEF OneMore, StepDone
<1>5. CASE AddRefused(frames, d, name)
  <2> DEFINE s == [t EXCEPT !.intrfcs = frames.intrfcs]
  <2>1. frames' = s
    BY <1>5 DEF AddIntrfc
  <2> HIDE DEF t
  <2>2. /\ s \in Shape /\ s.intrfcs = frames.intrfcs /\ s.count = frames.count + 1
        /\ s.built = frames.built /\ s.panics = FALSE
        /\ \A m \in Nets : frames.members[m] \subseteq s.members[m]
    BY <1>1, <1>3 DEF OneMore, Shape
  <2> HIDE DEF s
  <2>3. /\ \A i : In(s, i) <=> In(frames, i)
        /\ \A i : At(s, i) = At(frames, i)
    BY <2>2 DEF In, At
  <2>4. ASSUME NEW i, In(s, i)
        PROVE  LinksOK(s, i)
    <3>1. LinksOK(frames, i) /\ At(frames, i).faces \in Nets
      BY <1>1, <2>3, <2>4, FrameThere DEF TopoOK, Frame
    <3>2. \A j : Mutual(frames, i, j) => Mutual(s, i, j)
      BY <2>3 DEF Mutual
    <3>3. QED
      BY <2>2, <2>3, <3>1, <3>2 DEF LinksOK
  <2>5. \A i, j : In(s, i) /\ In(s, j) /\ SameName(s, i, j) /\ At(s, i).faces = At(s, j).faces => i = j
    BY <1>1, <2>3 DEF TopoOK, SameName
  <2>6. ASSUME NEW e \in Devs
        PROVE  Len(s.intrfcs[e]) <= s.count
    <3>1. Len(frames.intrfcs[e]) \in Nat /\ Len(frames.intrfcs[e]) <= frames.count
      BY <1>1 DEF TopoOK, Shape
    <3>2. QED
      BY <1>1, <2>2, <3>1
  <2>7. TopoOK(s)
    BY <1>1, <2>2, <2>4, <2>5, <2>6 DEF TopoOK
  <2>8. Grows(frames, s)
    BY <2>2, <2>3 DEF Grows
  <2>9. QED
    BY <1>1, <2>1, <2>2, <2>7, <2>8 DEF StepDone
<1>6. QED
  BY <1>4, <1>5

LEMMA ConnectNetworksDone ==
  ASSUME IInv, NEW n \in Nets, NEW m \in Nets, n # m, NEW newRtr \in BOOLEAN, NEW r \in Spare,
         ConnectNetworks(n, m, newRtr, r)
  PROVE  StepDone
<1> DEFINE s == [frames EXCEPT !.built = @ \cup {r}]
           t == CreateIntrfc(s, r, s.count + 1, NetMedia[n], n)
           u == CreateIntrfc(t, r, t.count + 1, NetMedia[m], m)
<1>1. /\ TopoOK(frames) /\ frames \in Shape /\ frames.panics = FALSE /\ frames.count \in Nat
      /\ r \in Devs /\ NetMedia[n] \in Media /\ NetMedia[m] \in Media
      /\ frames.intrfcs[r] = << >> /\ frames.intrfcs \in [Devs -> Seq(Frame)]
  BY TopoAssumption DEF IInv, TopoOK, Shape, Media, ConnectNetworks
<1>2. frames' = u
  BY DEF ConnectNetworks
<1>3. /\ s \in Shape
      /\ s.intrfcs = frames.intrfcs /\ s.members = frames.members /\ s.count = frames.count
      /\ s.panics = frames.panics /\ s.built = frames.built \cup {r}
  BY <1>1 DEF Shape
<1> HIDE DEF s, t, u
<1>4. /\ \A i : In(s, i) <=> In(frames, i)
      /\ \A i : At(s, i) = At(frames, i)
  BY <1>3 DEF In, At
<1>5. TopoOK(s)
  <2>1. \A i : LinksOK(frames, i) => LinksOK(s, i)
    BY <1>3, <1>4 DEF LinksOK, Mutual
  <2>2. \A i : In(s, i) => LinksOK(s, i)
    BY <1>1, <1>4, <2>1 DEF TopoOK
  <2>3. \A i, j : In(s, i) /\ In(s, j) /\ SameName(s, i, j) /\ At(s, i).faces = At(s, j).faces => i = j
    BY <1>1, <1>4 DEF TopoOK, SameName
  <2>4. /\ \A d \in Spare \ s.built : s.intrfcs[d] = << >>
        /\ \A d \in Devs : Len(s.intrfcs[d]) <= s.count
    BY <1>1, <1>3 DEF TopoOK
  <2>5. QED
    BY <1>3, <2>2, <2>3, <2>4 DEF TopoOK
<1>6. Grows(frames, s)
  BY <1>3, <1>4 DEF Grows
<1>7. OneMore(s, t, r, s.count + 1, NetMedia[n], n)
  <2>1. s.count + 1 \in Nat
    BY <1>1, <1>3
  <2>2. QED
    BY <1>1, <1>3, <2>1, CreateIntrfcFacts DEF t
<1>8. NameFree(s, r, s.count + 1, n)
  BY <1>1, <1>3 DEF NameFree
<1>9. r \in s.built /\ s.count + 1 \in Nat
  BY <1>1, <1>3
<1>10. TopoOK(t) /\ Grows(s, t)
  BY <1>1, <1>5, <1>7, <1>8, <1>9, OneMoreOK
<1>11. /\ t \in Shape /\ r \in t.built /\ t.count = frames.count + 1 /\ t.count + 1 \in Nat
       /\ t.panics = FALSE
  BY <1>1, <1>3, <1>7 DEF OneMore
<1>12. NameFree(t, r, t.count + 1, m)
  <2>1. t.intrfcs[r] \in Seq(Frame) /\ Len(t.intrfcs[r]) = 1
    <3>1. t.intrfcs[r] \in Seq(Frame) /\ Len(t.intrfcs[r]) = Len(s.intrfcs[r]) + 1
      BY <1>1, <1>7, <1>11 DEF OneMore, Shape
    <3>2. Len(s.intrfcs[r]) = 0
      BY <1>1, <1>3
    <3>3. QED
      BY <3>1, <3>2
  <2>2. At(t, <<r, 1>>) = NewFrame(s.count + 1, NetMedia[n], n)
    <3>1. NewPlace(s, r) = <<r, 1>>
      BY <1>1, <1>3 DEF NewPlace
    <3>2. QED
      BY <1>7, <3>1 DEF OneMore
  <2>3. t.intrfcs[r][1].faces = n
    BY <2>2 DEF At, NewFrame
  <2>4. \A k \in DOMAIN t.intrfcs[r] : k = 1
    BY <2>1
  <2>5. QED
    BY <2>3, <2>4 DEF NameFree
<1>13. OneMore(t, u, r, t.count + 1, NetMedia[m], m)
  BY <1>1, <1>11, CreateIntrfcFacts DEF u
<1>14. TopoOK(u) /\ Grows(t, u)
  BY <1>1, <1>10, <1>11, <1>12, <1>13, OneMoreOK
<1>15. Grows(frames, u)
  BY <1>6, <1>10, <1>14, GrowsTransitive
<1>16. u.count = frames.count + 2 /\ u.panics = FALSE
  BY <1>1, <1>11, <1>13 DEF OneMore
<1>17. QED
  BY <1>1, <1>2, <1>14, <1>15, <1>16 DEF StepDone

----------------------------------------------------------------------------
(* The invariant.                                                          *)

LEMMA InitIInv ==
  ASSUME Init
  PROVE  IInv
<1>1. /\ frames = [intrfcs |-> [d \in Devs |-> << >>], members |-> [n \in Nets |-> {}],
                   count |-> 0, built |-> {}, panics |-> FALSE]
      /\ connected = {}
  BY DEF Init
<1>2. /\ frames.intrfcs = [d \in Devs |-> << >>] /\ frames.members = [n \in Nets |-> {}]
      /\ frames.count = 0 /\ frames.built = {} /\ frames.panics = FALSE
  BY <1>1
<1>3. frames \in Shape
  <2>1. << >> \in Seq(Frame)
    OBVIOUS
  <2>2. [d \in Devs |-> << >>] \in [Devs -> Seq(Frame)] /\ [n \in Nets |-> {}] \in [Nets -> SUBSET Devs]
    BY <2>1
  <2>3. QED
    BY <1>1, <2>2 DEF Shape
<1>4. \A i : ~ In(frames, i)
  BY <1>2 DEF In, Places
<1>5. TopoOK(frames)
  BY <1>2, <1>3, <1>4, TopoAssumption DEF TopoOK
<1>6. frames.count < MaxIntrfcs + 4
  BY <1>2, TopoAssumption
<1>7. QED
  BY <1>1, <1>2, <1>5, <1>6 DEF IInv

\* A call keeps the invariant when it keeps the frames in order and connects
\* what it says it has connected.
LEMMA StepKeepsIInv ==
  ASSUME IInv, MoreToBuild, StepDone, connected' \in SUBSET {{d, e} : d, e \in Devs},
         \A d, e \in Devs : {d, e} \in connected' \ connected => Linked(frames', d, e)
  PROVE  IInv'
<1>1. frames.count \in Nat /\ frames.count < MaxIntrfcs /\ frames'.count <= frames.count + 4
      /\ frames'.count \in Nat /\ MaxIntrfcs \in Nat
  BY TopoAssumption DEF IInv, TopoOK, Shape, MoreToBuild, StepDone
<1>2. frames'.count < MaxIntrfcs + 4
  BY <1>1
<1>3. ASSUME NEW d \in Devs, NEW e \in Devs, {d, e} \in connected'
      PROVE  Linked(frames', d, e)
  <2>1. CASE {d, e} \in connected
    BY <2>1, StillLinked DEF IInv, StepDone
  <2>2. CASE {d, e} \notin connected
    BY <1>3, <2>2
  <2>3. QED
    BY <2>1, <2>2
<1>4. TopoOK(frames') /\ frames'.panics = FALSE
  BY DEF StepDone
<1>5. QED
  BY <1>2, <1>3, <1>4 DEF IInv

LEMMA StepIInv ==
  ASSUME IInv, [Next]_vars
  PROVE  IInv'
<1>1. connected \in SUBSET {{d, e} : d, e \in Devs}
  BY DEF IInv
<1>2. Present \subseteq Devs
  BY TopoAssumption DEF Present, IInv, TopoOK, Shape
<1>3. ASSUME MoreToBuild, NEW d \in Present, NEW e \in Present, d # e, NEW n \in Nets,
             NEW cable \in BOOLEAN, ConnectDevs(d, e, cable, n)
      PROVE  IInv'
  <2>1. StepDone /\ Linked(frames', d, e)
    BY <1>3, ConnectDevsDone
  <2>2. connected' = connected \cup {{d, e}}
    BY <1>3 DEF ConnectDevs
  <2>3. connected' \in SUBSET {{x, y} : x, y \in Devs}
    BY <1>1, <1>2, <2>2
  <2>4. ASSUME NEW x \in Devs, NEW y \in Devs, {x, y} \in connected' \ connected
        PROVE  Linked(frames', x, y)
    <3>1. {x, y} = {d, e}
      BY <2>2, <2>4
    <3>2. QED
      BY <2>1, <3>1 DEF Linked
  <2>5. QED
    BY <1>3, <2>1, <2>3, <2>4, StepKeepsIInv
<1>4. ASSUME MoreToBuild, StepDone, UNCHANGED connected
      PROVE  IInv'
  BY <1>1, <1>4, StepKeepsIInv
<1>5. ASSUME MoreToBuild, NEW d \in Present, NEW e \in Present, d # e, NEW n \in Nets,
             WirelessConnectTo(d, e, n)
      PROVE  IInv'
  <2>1. UNCHANGED connected
    BY <1>5 DEF WirelessConnectTo
  <2>2. QED
    BY <1>4, <1>5, <2>1, WirelessConnectToDone
<1>6. ASSUME MoreToBuild, NEW d \in Present, NEW media \in Media, NEW n \in Nets,
             Include(d, media, n) \/ \E name : AddIntrfc(d, name, media, n)
      PROVE  IInv'
  <2>1. UNCHANGED connected
    BY <1>6 DEF Include, AddIntrfc
  <2>2. StepDone
    BY <1>6, IncludeDone, AddIntrfcDone
  <2>3. QED
    BY <1>4, <1>6, <2>1, <2>2
<1>7. ASSUME MoreToBuild, NEW n \in Nets, NEW m \in Nets, NEW newRtr \in BOOLEAN, NEW r \in Spare,
             n # m, ConnectNetworks(n, m, newRtr, r)
      PROVE  IInv'
  <2>1. UNCHANGED connected
    BY <1>7 DEF ConnectNetworks
  <2>2. StepDone
    BY <1>7, ConnectNetworksDone
  <2>3. QED
    BY <1>4, <1>7, <2>1, <2>2
<1>8. CASE Next
  BY <1>3, <1>5, <1>6, <1>7, <1>8 DEF Next
<1>9. CASE UNCHANGED vars
  <2>1. frames' = frames /\ connected' = connected
    BY <1>9 DEF vars
  <2>2. QED
    BY <2>1 DEF IInv
<1>10. QED
  BY <1>8, <1>9

\* Whatever the calls and their order, the invariant holds.
THEOREM Invariance == Spec => []IInv
<1>1. Init => IInv
  BY InitIInv
<1>2. IInv /\ [Next]_vars => IInv'
  BY StepIInv
<1>3. QED
  BY <1>1, <1>2, PTL DEF Spec

LEMMA ExistingIn ==
  ASSUME IInv, NEW i
  PROVE  i \in Existing <=> In(frames, i)
<1>1. \A d \in Devs : DOMAIN frames.intrfcs[d] \subseteq Nat \ {0}
  <2>1. \A d \in Devs : frames.intrfcs[d] \in Seq(Frame)
    BY DEF IInv, TopoOK, Shape
  <2>2. QED
    BY <2>1
<1>2. i \in Existing <=> \E d \in Devs : i \in {d} \X DOMAIN frames.intrfcs[d]
  BY DEF Existing
<1>3. QED
  BY <1>1, <1>2 DEF In, Places

LEMMA LinksThere ==
  ASSUME IInv, NEW i \in Existing
  PROVE  LinksOK(frames, i)
<1>1. In(frames, i)
  BY ExistingIn
<1>2. QED
  BY <1>1 DEF IInv, TopoOK

\* TypeOK, for any topology under construction.
THEOREM TypeCorrect == Spec => []TypeOK
<1>1. ASSUME IInv
      PROVE  TypeOK
  <2>1. /\ frames \in Shape /\ frames.panics = FALSE /\ frames.count < MaxIntrfcs + 4
        /\ frames.count \in Nat /\ MaxIntrfcs \in Nat
        /\ connected \in SUBSET {{d, e} : d, e \in Devs}
    BY <1>1, TopoAssumption DEF IInv, TopoOK, Shape
  <2>2. ASSUME NEW i, In(frames, i)
        PROVE  i \in Ids
    <3>1. /\ i = <<i[1], i[2]>> /\ i[1] \in Devs /\ i[2] \in 1..Len(frames.intrfcs[i[1]])
          /\ frames.intrfcs[i[1]] \in Seq(Frame)
      BY <2>1, <2>2, FrameThere
    <3>2. Len(frames.intrfcs[i[1]]) <= frames.count /\ Len(frames.intrfcs[i[1]]) \in Nat
      BY <1>1, <3>1 DEF IInv, TopoOK
    <3>3. i[2] \in 1..(MaxIntrfcs + 4)
      BY <2>1, <3>1, <3>2
    <3>4. QED
      BY <3>1, <3>3 DEF Ids
  <2>3. ASSUME NEW i, In(frames, i)
        PROVE  At(frames, i) \in FrameType
    <3>1. LinksOK(frames, i)
      BY <1>1, <2>3 DEF IInv, TopoOK
    <3>2. /\ At(frames, i).cable \subseteq Ids /\ At(frames, i).carry \subseteq Ids
          /\ At(frames, i).wireless \subseteq Ids
      BY <2>2, <3>1 DEF LinksOK, Mutual
    <3>3. At(frames, i) \in Frame
      BY <2>1, <2>3, FrameThere
    <3>4. QED
      BY <3>2, <3>3 DEF Frame, FrameType
  <2>4. ASSUME NEW d \in Devs
        PROVE  frames.intrfcs[d] \in Seq(FrameType)
    <3> DEFINE q == frames.intrfcs[d]
    <3>1. q \in Seq(Frame)
      BY <2>1 DEF Shape
    <3>2. ASSUME NEW k \in 1..Len(q)
          PROVE  q[k] \in FrameType
      <4>1. In(frames, <<d, k>>)
        BY <3>1 DEF In, Places
      <4>2. QED
        BY <2>3, <4>1 DEF At
    <3> HIDE DEF q
    <3>3. q \in [1..Len(q) -> FrameType] /\ Len(q) \in Nat
      BY <3>1, <3>2
    <3>4. q \in Seq(FrameType)
      BY <3>3, SeqDef
    <3>5. QED
      BY <3>4 DEF q
  <2>5. frames.intrfcs \in [Devs -> Seq(FrameType)]
    BY <2>1, <2>4 DEF Shape
  <2>6. frames \in FramesType
    <3>1. frames.members \in [Nets -> SUBSET Devs] /\ frames.built \in SUBSET Spare
      BY <2>1 DEF Shape
    <3>2. frames = [intrfcs |-> frames.intrfcs, members |-> frames.members, count |-> frames.count,
                    built |-> frames.built, panics |-> frames.panics]
      BY <2>1 DEF Shape
    <3>3. \A a, b, c, u, p :
            a \in [Devs -> Seq(FrameType)] /\ b \in [Nets -> SUBSET Devs] /\ c \in Nat
              /\ u \in SUBSET Spare /\ p = FALSE =>
            [intrfcs |-> a, members |-> b, count |-> c, built |-> u, panics |-> p] \in FramesType
      BY DEF FramesType
    <3>4. [intrfcs |-> frames.intrfcs, members |-> frames.members, count |-> frames.count,
           built |-> frames.built, panics |-> frames.panics] \in FramesType
      BY <2>1, <2>5, <3>1, <3>3
    <3>5. QED
      BY <3>2, <3>4, Zenon
  <2>7. QED
    BY <2>1, <2>6 DEF TypeOK
<1>2. QED
  BY <1>1, Invariance, PTL

\* CablesJoinTwo: no call takes the cable of another.
THEOREM CablesJoin == Spec => []CablesJoinTwo
<1>1. ASSUME IInv
      PROVE  CablesJoinTwo
  <2>1. \A i \in Existing : LinksOK(frames, i)
    BY <1>1, LinksThere
  <2>2. \A j : In(frames, j) => j \in Existing
    BY <1>1, ExistingIn
  <2>3. QED
    BY <2>1, <2>2 DEF CablesJoinTwo, LinksOK, Mutual, Intrfc
<1>2. QED
  BY <1>1, Invariance, PTL

\* ReachIsMutual: what one interface sends the other can answer, so ConnectDevs
\* never meets the case in which it would link an interface to itself.
THEOREM ReachMutual == Spec => []ReachIsMutual
<1>1. ASSUME IInv
      PROVE  ReachIsMutual
  <2>1. \A i \in Existing : LinksOK(frames, i)
    BY <1>1, LinksThere
  <2>2. \A j : In(frames, j) => j \in Existing
    BY <1>1, ExistingIn
  <2>3. QED
    BY <2>1, <2>2 DEF ReachIsMutual, LinksOK, Mutual, Intrfc
<1>2. QED
  BY <1>1, Invariance, PTL

\* NamesTellApart: also with names that the program chooses, and after calls
\* that were refused.
THEOREM NamesTell == Spec => []NamesTellApart
<1>1. ASSUME IInv
      PROVE  NamesTellApart
  <2>1. ASSUME NEW i \in Existing, NEW j \in Existing, SameName(frames, i, j),
               Intrfc(i).faces = Intrfc(j).faces
        PROVE  i = j
    <3>1. In(frames, i) /\ In(frames, j)
      BY <1>1, ExistingIn
    <3>2. QED
      BY <1>1, <2>1, <3>1 DEF IInv, TopoOK, Intrfc
  <2>2. QED
    BY <2>1 DEF NamesTellApart
<1>2. QED
  BY <1>1, Invariance, PTL

\* ConnectionsKept: what ConnectDevs has connected no later call disconnects.
THEOREM ConnectionsStay == Spec => []ConnectionsKept
<1>1. ASSUME IInv
      PROVE  ConnectionsKept
  <2>1. ASSUME NEW pair \in connected
        PROVE  \E i, j \in Existing : /\ pair = {i[1], j[1]}
                                      /\ j \in Intrfc(i).cable \cup Intrfc(i).carry
                                      /\ i \in Intrfc(j).cable \cup Intrfc(j).carry
    <3>1. PICK d, e \in Devs : pair = {d, e}
      BY <1>1 DEF IInv
    <3>2. Linked(frames, d, e)
      BY <1>1, <3>1 DEF IInv
    <3>3. PICK i, j : /\ In(frames, i) /\ In(frames, j) /\ {d, e} = {i[1], j[1]}
                      /\ j \in At(frames, i).cable \cup At(frames, i).carry
      BY <3>2 DEF Linked
    <3>4. i \in Existing /\ j \in Existing
      BY <1>1, <3>3, ExistingIn
    <3>5. i \in At(frames, j).cable \cup At(frames, j).carry
      BY <1>1, <3>3, <3>4, LinksThere DEF LinksOK
    <3>6. QED
      BY <3>1, <3>3, <3>4, <3>5 DEF Intrfc
  <2>2. QED
    BY <2>1 DEF ConnectionsKept
<1>2. QED
  BY <1>1, Invariance, PTL

----------------------------------------------------------------------------
(* Paths: what the recursive function of Paths computes.                   *)

Edge(graph, d, e) == <<<<d, "src">>, <<e, "dst">>>> \in graph
Through(graph, d) == <<<<d, "dst">>, <<d, "src">>>> \in graph

\* p leads from d over n edges, through devices that pass messages on, and comes
\* to no device twice.
IsPath(graph, p, d, n) ==
  /\ p \in Seq(Devs) /\ Len(p) = n + 1 /\ p[1] = d
  /\ \A k \in 1..n : Edge(graph, p[k], p[k + 1])
  /\ \A k \in 2..n : Through(graph, p[k])
  /\ \A k, l \in 1..(n + 1) : p[k] = p[l] => k = l

\* One device more, as in Paths.
Longer(graph, Q) == UNION {{Append(p, e) : e \in {x \in Devs : Extends(graph, p, x)}} : p \in Q}

MaxSteps == Cardinality(Devs) - 1

LEMMA MaxStepsNatural == MaxSteps \in Nat
<1>1. Cardinality(Devs) \in Nat /\ Cardinality(Devs) # 0
  BY TopoAssumption, FS_CardinalityType, FS_EmptySet
<1>2. QED
  BY <1>1 DEF MaxSteps

\* The recursive function is there and satisfies its equation.
LEMMA PathsDefined ==
  ASSUME NEW graph, NEW d \in Devs
  PROVE  Paths(graph, d) =
           [n \in 0..MaxSteps |-> IF n = 0 THEN {<<d>>}
                                  ELSE Longer(graph, Paths(graph, d)[n - 1])]
<1> DEFINE step == [Q \in SUBSET Seq(Devs) |-> Longer(graph, Q)]
           Defines(f) == f = [n \in 0..MaxSteps |-> IF n = 0 THEN {<<d>>} ELSE Longer(graph, f[n - 1])]
           chosen == CHOOSE f : Defines(f)
<1>1. step \in [SUBSET Seq(Devs) -> SUBSET Seq(Devs)]
  <2>1. ASSUME NEW Q \in SUBSET Seq(Devs)
        PROVE  Longer(graph, Q) \in SUBSET Seq(Devs)
    <3>1. \A p \in Q, e \in Devs : Append(p, e) \in Seq(Devs)
      OBVIOUS
    <3>2. QED
      BY <3>1 DEF Longer
  <2>2. QED
    BY <2>1
<1>2. \A Q \in SUBSET Seq(Devs) : step[Q] = Longer(graph, Q)
  OBVIOUS
<1>3. {<<d>>} \in SUBSET Seq(Devs)
  OBVIOUS
<1> HIDE DEF step
<1>4. PICK f : Iterates(f, SUBSET Seq(Devs), {<<d>>}, step, MaxSteps)
  BY <1>1, <1>3, MaxStepsNatural, IterationExists
<1>5. Defines(f)
  <2>1. /\ f \in [0..MaxSteps -> SUBSET Seq(Devs)] /\ f[0] = {<<d>>}
        /\ \A n \in 1..MaxSteps : f[n] = step[f[n - 1]]
    BY <1>4 DEF Iterates
  <2>2. \A n \in 1..MaxSteps : n - 1 \in 0..MaxSteps
    BY MaxStepsNatural
  <2>3. \A n \in 1..MaxSteps : f[n] = Longer(graph, f[n - 1])
    BY <1>2, <2>1, <2>2
  <2>4. \A n \in 0..MaxSteps : n # 0 => n \in 1..MaxSteps
    BY MaxStepsNatural
  <2>5. \A n \in 0..MaxSteps : f[n] = IF n = 0 THEN {<<d>>} ELSE Longer(graph, f[n - 1])
    BY <2>1, <2>3, <2>4
  <2>6. QED
    BY <2>1, <2>5
<1>6. Defines(chosen)
  <2> HIDE DEF Defines
  <2>1. QED
    BY <1>5
<1>7. Paths(graph, d) = chosen
  BY DEF Paths, Longer, MaxSteps
<1>8. QED
  BY <1>6, <1>7

\* A path goes on to a device that is not on it yet.
LEMMA PathExtends ==
  ASSUME NEW graph, NEW d \in Devs, NEW n \in Nat, NEW q, IsPath(graph, q, d, n),
         NEW e \in Devs, Extends(graph, q, e)
  PROVE  IsPath(graph, Append(q, e), d, n + 1)
<1> DEFINE p == Append(q, e)
<1>1. /\ q \in Seq(Devs) /\ Len(q) = n + 1 /\ q[1] = d
      /\ \A k \in 1..n : Edge(graph, q[k], q[k + 1])
      /\ \A k \in 2..n : Through(graph, q[k])
      /\ \A k, l \in 1..(n + 1) : q[k] = q[l] => k = l
  BY DEF IsPath
<1>2. /\ \A k \in 1..(n + 1) : q[k] # e
      /\ Edge(graph, q[n + 1], e)
      /\ n > 0 => Through(graph, q[n + 1])
  BY <1>1 DEF Extends, Contains, Last, Edge, Through
<1>3. /\ p \in Seq(Devs) /\ Len(p) = n + 2 /\ p[n + 2] = e
      /\ \A k \in 1..(n + 1) : p[k] = q[k]
  BY <1>1
<1> HIDE DEF p
<1>4. p[1] = d
  BY <1>1, <1>3
<1>5. ASSUME NEW k \in 1..(n + 1)
      PROVE  Edge(graph, p[k], p[k + 1])
  <2>1. CASE k = n + 1
    BY <1>2, <1>3, <2>1
  <2>2. CASE k # n + 1
    <3>1. k \in 1..n /\ k \in 1..(n + 1) /\ k + 1 \in 1..(n + 1)
      BY <2>2
    <3>2. QED
      BY <1>1, <1>3, <3>1
  <2>3. QED
    BY <2>1, <2>2
<1>6. ASSUME NEW k \in 2..(n + 1)
      PROVE  Through(graph, p[k])
  <2>1. k \in 1..(n + 1) /\ n > 0 /\ (k = n + 1 \/ k \in 2..n)
    OBVIOUS
  <2>2. QED
    BY <1>1, <1>2, <1>3, <2>1
<1>7. ASSUME NEW k \in 1..(n + 2), NEW l \in 1..(n + 2), p[k] = p[l]
      PROVE  k = l
  <2>1. (k \in 1..(n + 1) \/ k = n + 2) /\ (l \in 1..(n + 1) \/ l = n + 2)
    OBVIOUS
  <2>2. QED
    BY <1>1, <1>2, <1>3, <1>7, <2>1
<1>8. Len(p) = (n + 1) + 1
  BY <1>3
<1>9. \A k, l \in 1..((n + 1) + 1) : p[k] = p[l] => k = l
  BY <1>7
<1>10. IsPath(graph, p, d, n + 1)
  BY <1>3, <1>4, <1>5, <1>6, <1>8, <1>9 DEF IsPath
<1>11. QED
  BY <1>10 DEF p

GoesOn(graph, p, d, n) ==
  \E q, e : /\ IsPath(graph, q, d, n) /\ e \in Devs /\ Extends(graph, q, e)
            /\ p = Append(q, e)

\* A path without its last device is a path that goes on to that device.
LEMMA PathShortens ==
  ASSUME NEW graph, NEW d \in Devs, NEW n \in Nat, NEW p, IsPath(graph, p, d, n + 1)
  PROVE  GoesOn(graph, p, d, n)
<1> DEFINE q == SubSeq(p, 1, n + 1)
           e == p[n + 2]
<1>1. /\ p \in Seq(Devs) /\ Len(p) = n + 2 /\ p[1] = d
      /\ \A k \in 1..(n + 1) : Edge(graph, p[k], p[k + 1])
      /\ \A k \in 2..(n + 1) : Through(graph, p[k])
      /\ \A k, l \in 1..(n + 2) : p[k] = p[l] => k = l
  BY DEF IsPath
<1>2. e \in Devs /\ \A k \in 1..(n + 1) : p[k] \in Devs
  BY <1>1
<1>3. q \in Seq(Devs) /\ Len(q) = n + 1 /\ \A k \in 1..(n + 1) : q[k] = p[k]
  BY <1>1
<1> HIDE DEF q
<1>4. IsPath(graph, q, d, n)
  <2>1. q[1] = d
    BY <1>1, <1>3
  <2>2. ASSUME NEW k \in 1..n
        PROVE  Edge(graph, q[k], q[k + 1])
    <3>1. k \in 1..(n + 1) /\ k + 1 \in 1..(n + 1)
      OBVIOUS
    <3>2. QED
      BY <1>1, <1>3, <3>1
  <2>3. ASSUME NEW k \in 2..n
        PROVE  Through(graph, q[k])
    <3>1. k \in 1..(n + 1) /\ k \in 2..(n + 1)
      OBVIOUS
    <3>2. QED
      BY <1>1, <1>3, <3>1
  <2>4. ASSUME NEW k \in 1..(n + 1), NEW l \in 1..(n + 1), q[k] = q[l]
        PROVE  k = l
    <3>1. k \in 1..(n + 2) /\ l \in 1..(n + 2)
      OBVIOUS
    <3>2. QED
      BY <1>1, <1>3, <2>4, <3>1
  <2>5. QED
    BY <1>3, <2>1, <2>2, <2>3, <2>4 DEF IsPath
<1>5. Extends(graph, q, e)
  <2>1. ~ Contains(q, e)
    <3>1. \A k \in 1..(n + 1) : k \in 1..(n + 2) /\ n + 2 \in 1..(n + 2) /\ k # n + 2
      OBVIOUS
    <3>2. \A k \in 1..(n + 1) : q[k] # e
      BY <1>1, <1>3, <3>1
    <3>3. QED
      BY <1>3, <3>2 DEF Contains
  <2>2. Last(q) = p[n + 1]
    BY <1>3 DEF Last
  <2>3. Edge(graph, p[n + 1], e)
    BY <1>1
  <2>4. Len(q) > 1 => Through(graph, p[n + 1])
    BY <1>1, <1>3
  <2>5. QED
    BY <2>1, <2>2, <2>3, <2>4 DEF Extends, Edge, Through
<1>6. p = Append(q, e)
  <2>1. /\ Append(q, e) \in Seq(Devs) /\ Len(Append(q, e)) = n + 2
        /\ Append(q, e)[n + 2] = e
        /\ \A k \in 1..(n + 1) : Append(q, e)[k] = q[k]
    BY <1>2, <1>3
  <2>2. \A k \in 1..(n + 2) : k \in 1..(n + 1) \/ k = n + 2
    OBVIOUS
  <2>3. \A k \in 1..Len(p) : p[k] = Append(q, e)[k]
    BY <1>1, <1>3, <2>1, <2>2
  <2>4. QED
    BY <1>1, <2>1, <2>3, SeqEqual
<1> HIDE DEF e
<1>7. QED
  BY <1>2, <1>4, <1>5, <1>6 DEF GoesOn

PathSet(graph, d, n) == {p \in Seq(Devs) : IsPath(graph, p, d, n)}

\* Paths has exactly the paths, up to the number of devices in length.
LEMMA PathsAre ==
  ASSUME NEW graph, NEW d \in Devs
  PROVE  /\ DOMAIN Paths(graph, d) = 0..MaxSteps
         /\ \A n \in 0..MaxSteps : Paths(graph, d)[n] = PathSet(graph, d, n)
<1> DEFINE paths == Paths(graph, d)
           P == {n \in 0..MaxSteps : paths[n] = PathSet(graph, d, n)}
<1>1. paths = [n \in 0..MaxSteps |-> IF n = 0 THEN {<<d>>} ELSE Longer(graph, paths[n - 1])]
  BY PathsDefined
<1> HIDE DEF paths
<1>2. DOMAIN paths = 0..MaxSteps /\ paths[0] = {<<d>>}
  BY <1>1, MaxStepsNatural
<1>3. ASSUME NEW n \in 0..(MaxSteps - 1)
      PROVE  paths[n + 1] = Longer(graph, paths[n])
  <2>1. n + 1 \in 0..MaxSteps /\ n + 1 # 0 /\ (n + 1) - 1 = n
    BY MaxStepsNatural
  <2>2. QED
    BY <1>1, <2>1
<1>4. 0 \in P
  <2>1. IsPath(graph, <<d>>, d, 0)
    BY DEF IsPath
  <2>2. ASSUME NEW p \in Seq(Devs), IsPath(graph, p, d, 0)
        PROVE  p = <<d>>
    BY <2>2 DEF IsPath
  <2>3. <<d>> \in Seq(Devs)
    OBVIOUS
  <2>4. \A p : p \in PathSet(graph, d, 0) <=> p = <<d>>
    BY <2>1, <2>2, <2>3 DEF PathSet
  <2>5. PathSet(graph, d, 0) = {<<d>>}
    BY <2>4
  <2>6. 0 \in 0..MaxSteps
    BY MaxStepsNatural
  <2>7. QED
    BY <1>2, <2>5, <2>6
<1>5. ASSUME NEW n \in 0..(MaxSteps - 1), n \in P
      PROVE  n + 1 \in P
  <2>1. n \in Nat /\ n + 1 \in 0..MaxSteps
    BY MaxStepsNatural
  <2>2. paths[n + 1] = Longer(graph, PathSet(graph, d, n))
    BY <1>3, <1>5
  <2>3. ASSUME NEW p \in Longer(graph, PathSet(graph, d, n))
        PROVE  p \in PathSet(graph, d, n + 1)
    <3>1. PICK q \in PathSet(graph, d, n), e \in Devs : Extends(graph, q, e) /\ p = Append(q, e)
      BY <2>3 DEF Longer
    <3>2. IsPath(graph, p, d, n + 1)
      BY <2>1, <3>1, PathExtends DEF PathSet
    <3>3. QED
      BY <3>2 DEF PathSet, IsPath
  <2>4. ASSUME NEW p \in PathSet(graph, d, n + 1)
        PROVE  p \in Longer(graph, PathSet(graph, d, n))
    <3>1. IsPath(graph, p, d, n + 1)
      BY DEF PathSet
    <3>2. GoesOn(graph, p, d, n)
      BY <2>1, <3>1, PathShortens
    <3>3. PICK q, e : /\ IsPath(graph, q, d, n) /\ e \in Devs /\ Extends(graph, q, e)
                      /\ p = Append(q, e)
      BY <3>2 DEF GoesOn
    <3>4. q \in PathSet(graph, d, n)
      BY <3>3 DEF PathSet, IsPath
    <3>5. QED
      BY <3>3, <3>4 DEF Longer
  <2>5. QED
    BY <2>1, <2>2, <2>3, <2>4
<1> HIDE DEF P
<1>6. 0..MaxSteps \subseteq P
  BY <1>4, <1>5, MaxStepsNatural, BoundedInduction
<1>7. QED
  BY <1>2, <1>6 DEF P, paths

----------------------------------------------------------------------------
(* Routes: the shortest of the paths.                                      *)

IsRoute(graph, p, d, e, n) == IsPath(graph, p, d, n) /\ p[n + 1] = e

\* p is a route of n steps, and no route takes fewer.
Shortest(graph, p, d, e, n) ==
  /\ n \in 0..MaxSteps /\ IsRoute(graph, p, d, e, n)
  /\ \A m \in 0..MaxSteps : \A q : IsRoute(graph, q, d, e, m) => n <= m

LEMMA PathLast ==
  ASSUME NEW graph, NEW d, NEW n, NEW p, IsPath(graph, p, d, n), NEW e
  PROVE  Last(p) = e <=> IsRoute(graph, p, d, e, n)
BY DEF IsPath, IsRoute, Last

\* FindRoute finds just the shortest routes.
LEMMA FindRouteIs ==
  ASSUME NEW graph, NEW d \in Devs, NEW e, NEW p
  PROVE  p \in FindRoute(graph, d, e) <=> \E n : Shortest(graph, p, d, e, n)
<1> DEFINE paths == Paths(graph, d)
           reached == {n \in DOMAIN paths : \E q \in paths[n] : Last(q) = e}
<1>1. /\ DOMAIN paths = 0..MaxSteps
      /\ \A n \in 0..MaxSteps : paths[n] = PathSet(graph, d, n)
  BY PathsAre
<1>2. FindRoute(graph, d, e) =
        IF reached = {} THEN {} ELSE {q \in paths[Min(reached)] : Last(q) = e}
  BY DEF FindRoute
<1> HIDE DEF paths
<1>3. ASSUME NEW n \in 0..MaxSteps, NEW q
      PROVE  q \in paths[n] /\ Last(q) = e <=> IsRoute(graph, q, d, e, n)
  <2>1. q \in paths[n] <=> IsPath(graph, q, d, n)
    BY <1>1 DEF PathSet, IsPath
  <2>2. IsPath(graph, q, d, n) => (Last(q) = e <=> IsRoute(graph, q, d, e, n))
    BY PathLast
  <2>3. QED
    BY <2>1, <2>2 DEF IsRoute
<1>4. \A n : n \in reached <=> n \in 0..MaxSteps /\ \E q : IsRoute(graph, q, d, e, n)
  BY <1>1, <1>3
<1>5. reached \subseteq Nat
  BY <1>1, MaxStepsNatural
<1> HIDE DEF reached
<1>6. reached # {} => Min(reached) \in reached /\ \A n \in reached : Min(reached) <= n
  BY <1>5, MinFacts
<1>7. ASSUME p \in FindRoute(graph, d, e)
      PROVE  Shortest(graph, p, d, e, Min(reached))
  <2>1. reached # {} /\ p \in paths[Min(reached)] /\ Last(p) = e
    BY <1>2, <1>7
  <2>2. Min(reached) \in 0..MaxSteps
    BY <1>4, <1>6, <2>1
  <2>3. IsRoute(graph, p, d, e, Min(reached))
    BY <1>3, <2>1, <2>2
  <2>4. \A m \in 0..MaxSteps : \A q : IsRoute(graph, q, d, e, m) => Min(reached) <= m
    BY <1>4, <1>6, <2>1
  <2>5. QED
    BY <2>2, <2>3, <2>4 DEF Shortest
<1>8. ASSUME NEW n, Shortest(graph, p, d, e, n)
      PROVE  p \in FindRoute(graph, d, e)
  <2>1. /\ n \in 0..MaxSteps /\ IsRoute(graph, p, d, e, n)
        /\ \A m \in 0..MaxSteps : \A q : IsRoute(graph, q, d, e, m) => n <= m
    BY <1>8 DEF Shortest
  <2>2. n \in reached
    BY <1>4, <2>1
  <2>3. Min(reached) \in 0..MaxSteps /\ n <= Min(reached) /\ Min(reached) <= n
    BY <1>4, <1>6, <2>1, <2>2
  <2>4. Min(reached) = n
    BY <2>1, <2>3, MaxStepsNatural
  <2>5. p \in paths[n] /\ Last(p) = e
    BY <1>3, <2>1
  <2>6. QED
    BY <1>2, <2>2, <2>4, <2>5
<1>9. QED
  BY <1>7, <1>8

----------------------------------------------------------------------------
(* The graph of a topology.                                                *)

\* Edges between devices are the links that loading derives; edges through a
\* device are those of switches and routers.
LEMMA GraphFacts ==
  /\ \A d, e : Edge(DirectedTopoGraph, d, e) <=>
                 \E i \in Existing : \E j \in Peers(i) : i[1] = d /\ j[1] = e
  /\ \A d : Through(DirectedTopoGraph, d) => d \in Devs /\ DevType[d] # "Endpt"
<1>1. ASSUME NEW d, NEW e
      PROVE  Edge(DirectedTopoGraph, d, e) <=>
               \E i \in Existing : \E j \in Peers(i) : i[1] = d /\ j[1] = e
  <2>1. <<<<d, "src">>, <<e, "dst">>>> \in Links <=>
          \E i \in Existing : \E j \in Peers(i) : i[1] = d /\ j[1] = e
    BY DEF Links
  <2>2. <<<<d, "src">>, <<e, "dst">>>> \notin {<<<<x, "dst">>, <<x, "src">>>> : x \in {y \in Devs : DevType[y] # "Endpt"}}
    OBVIOUS
  <2>3. QED
    BY <2>1, <2>2 DEF Edge, DirectedTopoGraph
<1>2. ASSUME NEW d, Through(DirectedTopoGraph, d)
      PROVE  d \in Devs /\ DevType[d] # "Endpt"
  <2>1. <<<<d, "dst">>, <<d, "src">>>> \notin Links
    BY DEF Links
  <2>2. <<<<d, "dst">>, <<d, "src">>>> \in {<<<<x, "dst">>, <<x, "src">>>> : x \in {y \in Devs : DevType[y] # "Endpt"}}
    BY <1>2, <2>1 DEF Through, DirectedTopoGraph
  <2>3. QED
    BY <2>2
<1>3. QED
  BY <1>1, <1>2

\* Interfaces that ConnectDevs has linked, and those that a program has linked
\* without wires, are connected in both directions, unless one has both a cable
\* and something it carries.
LEMMA PeersAreMutual ==
  ASSUME IInv, Unmixed, NEW i \in Existing, NEW j \in Peers(i)
  PROVE  j \in Existing /\ i \in Peers(j)
<1>1. LinksOK(frames, i)
  BY LinksThere
<1>2. Unmixed
  OBVIOUS
<1>3. CASE j \in Cabled(i)
  <2>1. /\ Mutual(frames, i, j) /\ Intrfc(i).cable = {j} /\ Intrfc(j).cable = {i}
    BY <1>1, <1>3 DEF LinksOK, Cabled, Intrfc
  <2>2. j \in Existing
    BY <2>1, ExistingIn DEF Mutual
  <2>3. i \in Cabled(j)
    BY <2>1 DEF Cabled, Compatible
  <2>4. QED
    BY <2>2, <2>3 DEF Peers
<1>4. CASE Cabled(i) = {} /\ j \in Carried(i)
  <2>1. Mutual(frames, i, j) /\ j \in Intrfc(i).carry /\ i \in Intrfc(j).carry
    BY <1>1, <1>4 DEF LinksOK, Carried, Intrfc
  <2>2. j \in Existing
    BY <2>1, ExistingIn DEF Mutual
  <2>3. Intrfc(j).cable = {}
    BY <1>2, <2>1, <2>2 DEF Unmixed
  <2>4. Cabled(j) = {} /\ i \in Carried(j)
    BY <2>1, <2>3 DEF Cabled, Carried, Compatible
  <2>5. QED
    BY <2>2, <2>4 DEF Peers
<1>5. CASE Cabled(i) = {} /\ Carried(i) = {}
  <2>1. j \in Intrfc(i).wireless
    BY <1>5 DEF Peers
  <2>2. Mutual(frames, i, j) /\ i \in Intrfc(j).wireless
    BY <1>1, <2>1 DEF LinksOK, Intrfc
  <2>3. j \in Existing
    BY <2>2, ExistingIn DEF Mutual
  <2>4. LinksOK(frames, j)
    BY <2>3, LinksThere
  <2>5. Intrfc(j).media = "wireless"
    BY <2>2, <2>4 DEF LinksOK, Intrfc
  <2>6. Intrfc(j).cable = {} /\ Intrfc(j).carry = {}
    BY <2>4, <2>5 DEF LinksOK, Intrfc
  <2>7. QED
    BY <2>2, <2>3, <2>6 DEF Peers, Cabled, Carried
<1>6. QED
  BY <1>3, <1>4, <1>5 DEF Peers

LEMMA EdgesAreMutual ==
  ASSUME IInv, Unmixed, NEW d, NEW e, Edge(DirectedTopoGraph, d, e)
  PROVE  Edge(DirectedTopoGraph, e, d)
<1>1. PICK i \in Existing : \E j \in Peers(i) : i[1] = d /\ j[1] = e
  BY GraphFacts
<1>2. PICK j \in Peers(i) : i[1] = d /\ j[1] = e
  BY <1>1
<1>3. j \in Existing /\ i \in Peers(j)
  BY PeersAreMutual
<1>4. QED
  BY <1>2, <1>3, GraphFacts

\* A route backwards is a route.
LEMMA RouteBack ==
  ASSUME NEW graph, \A a, b : Edge(graph, a, b) => Edge(graph, b, a),
         NEW d \in Devs, NEW e, NEW n \in Nat, NEW p, IsRoute(graph, p, d, e, n)
  PROVE  e \in Devs /\ IsRoute(graph, Reverse(p), e, d, n)
<1> DEFINE r == Reverse(p)
           back(k) == n + 2 - k
<1>1. /\ p \in Seq(Devs) /\ Len(p) = n + 1 /\ p[1] = d /\ p[n + 1] = e
      /\ \A k \in 1..n : Edge(graph, p[k], p[k + 1])
      /\ \A k \in 2..n : Through(graph, p[k])
      /\ \A k, l \in 1..(n + 1) : p[k] = p[l] => k = l
  BY DEF IsRoute, IsPath
<1>2. \A k \in 1..(n + 1) : back(k) \in 1..(n + 1) /\ (n + 1 - k) + 1 = back(k)
  OBVIOUS
<1>3. \A k \in 1..(n + 1) : p[k] \in Devs
  BY <1>1
<1>4. r \in Seq(Devs) /\ Len(r) = n + 1 /\ \A k \in 1..(n + 1) : r[k] = p[back(k)]
  BY <1>1, <1>2, <1>3 DEF Reverse
<1> HIDE DEF r
<1>5. r[1] = e /\ r[n + 1] = d
  BY <1>1, <1>4
<1>6. ASSUME NEW k \in 1..n
      PROVE  Edge(graph, r[k], r[k + 1])
  <2>1. /\ back(k + 1) \in 1..n /\ back(k + 1) + 1 = back(k)
        /\ k \in 1..(n + 1) /\ k + 1 \in 1..(n + 1)
    OBVIOUS
  <2>2. Edge(graph, p[back(k + 1)], p[back(k + 1) + 1])
    BY <1>1, <2>1
  <2>3. r[k] = p[back(k)] /\ r[k + 1] = p[back(k + 1)]
    BY <1>4, <2>1
  <2>4. QED
    BY <2>1, <2>2, <2>3
<1>7. ASSUME NEW k \in 2..n
      PROVE  Through(graph, r[k])
  <2>1. back(k) \in 2..n /\ k \in 1..(n + 1)
    OBVIOUS
  <2>2. QED
    BY <1>1, <1>4, <2>1
<1>8. ASSUME NEW k \in 1..(n + 1), NEW l \in 1..(n + 1), r[k] = r[l]
      PROVE  k = l
  <2>1. back(k) = back(l)
    BY <1>1, <1>2, <1>4, <1>8
  <2>2. QED
    BY <2>1
<1>9. IsPath(graph, r, e, n)
  BY <1>4, <1>5, <1>6, <1>7, <1>8 DEF IsPath
<1>10. e \in Devs
  BY <1>1, <1>3
<1>11. QED
  BY <1>5, <1>9, <1>10 DEF IsRoute, r

----------------------------------------------------------------------------
(* The theorems.                                                           *)

\* NoEndptInTransit: whatever the topology, a route passes through switches and
\* routers only, also where endpoints with several interfaces join its parts.
THEOREM EndptsKeepOut == Spec => []NoEndptInTransit
<1>1. NoEndptInTransit
  <2>1. ASSUME NEW d \in Devs, NEW e \in Devs, NEW p \in FindRoute(DirectedTopoGraph, d, e),
               NEW k \in 2..(Len(p) - 1)
        PROVE  DevType[p[k]] # "Endpt"
    <3>1. PICK n : Shortest(DirectedTopoGraph, p, d, e, n)
      BY FindRouteIs
    <3>2. IsPath(DirectedTopoGraph, p, d, n) /\ n \in Nat
      BY <3>1, MaxStepsNatural DEF Shortest, IsRoute
    <3>3. k \in 2..n
      BY <3>2 DEF IsPath
    <3>4. Through(DirectedTopoGraph, p[k])
      BY <3>2, <3>3 DEF IsPath
    <3>5. QED
      BY <3>4, GraphFacts
  <2>2. QED
    BY <2>1 DEF NoEndptInTransit
<1>2. QED
  BY <1>1, PTL

\* RoutesThereAndBack: what routeFrom takes for granted when it reverses a path
\* holds of topologies without a twice used name and without an interface that
\* has both a cable and something it carries.
THEOREM RoutesReverse == Spec => []RoutesThereAndBack
<1>1. ASSUME IInv
      PROVE  RoutesThereAndBack
  <2>1. ASSUME Unmixed, NEW d \in Devs, NEW e \in Devs,
               NEW p \in FindRoute(DirectedTopoGraph, d, e)
        PROVE  Reverse(p) \in FindRoute(DirectedTopoGraph, e, d)
    <3> DEFINE graph == DirectedTopoGraph
    <3>1. \A a, b : Edge(graph, a, b) => Edge(graph, b, a)
      BY <1>1, <2>1, EdgesAreMutual
    <3> HIDE DEF graph
    <3>2. PICK n : Shortest(graph, p, d, e, n)
      BY FindRouteIs DEF graph
    <3>3. /\ n \in 0..MaxSteps /\ n \in Nat /\ IsRoute(graph, p, d, e, n)
          /\ \A m \in 0..MaxSteps : \A q : IsRoute(graph, q, d, e, m) => n <= m
      BY <3>2, MaxStepsNatural DEF Shortest
    <3>4. IsRoute(graph, Reverse(p), e, d, n)
      BY <3>1, <3>3, RouteBack
    <3>5. ASSUME NEW m \in 0..MaxSteps, NEW q, IsRoute(graph, q, e, d, m)
          PROVE  n <= m
      <4>1. m \in Nat
        BY MaxStepsNatural
      <4>2. IsRoute(graph, Reverse(q), d, e, m)
        BY <3>1, <3>5, <4>1, RouteBack
      <4>3. QED
        BY <3>3, <4>2
    <3>6. Shortest(graph, Reverse(p), e, d, n)
      BY <3>3, <3>4, <3>5 DEF Shortest
    <3>7. QED
      BY <3>6, FindRouteIs DEF graph
  <2>2. QED
    BY <2>1 DEF RoutesThereAndBack
<1>2. QED
  BY <1>1, Invariance, PTL

\* Devices that ConnectDevs has linked are next to each other in the graph.
LEMMA ConnectedEdges ==
  ASSUME IInv, Unmixed, NEW pair \in connected, NEW d \in pair, NEW e \in pair, d # e
  PROVE  d \in Devs /\ e \in Devs /\ Edge(DirectedTopoGraph, d, e)
<1>1. PICK a \in Devs, b \in Devs : pair = {a, b}
  BY DEF IInv
<1>2. d \in Devs /\ e \in Devs /\ pair = {d, e}
  BY <1>1
<1>3. Linked(frames, d, e)
  BY <1>2 DEF IInv
<1>4. PICK i, j : /\ In(frames, i) /\ In(frames, j) /\ {d, e} = {i[1], j[1]}
                  /\ j \in At(frames, i).cable \cup At(frames, i).carry
  BY <1>3 DEF Linked
<1>5. i \in Existing /\ LinksOK(frames, i) /\ Unmixed
  BY <1>4, ExistingIn, LinksThere
<1>6. j \in Peers(i)
  <2>1. CASE j \in Intrfc(i).cable
    <3>1. Intrfc(j).cable = {i}
      BY <1>5, <2>1 DEF LinksOK, Intrfc
    <3>2. j \in Cabled(i)
      BY <2>1, <3>1 DEF Cabled, Compatible
    <3>3. QED
      BY <3>2 DEF Peers
  <2>2. CASE j \in Intrfc(i).carry
    <3>1. i \in Intrfc(j).carry /\ Intrfc(i).cable = {}
      BY <1>5, <2>2 DEF LinksOK, Intrfc, Unmixed
    <3>2. j \in Carried(i) /\ Cabled(i) = {}
      BY <2>2, <3>1 DEF Carried, Cabled, Compatible
    <3>3. QED
      BY <3>2 DEF Peers
  <2>3. QED
    BY <1>4, <2>1, <2>2 DEF Intrfc
<1>7. Edge(DirectedTopoGraph, i[1], j[1])
  BY <1>5, <1>6, GraphFacts
<1>8. Edge(DirectedTopoGraph, j[1], i[1])
  BY <1>7, EdgesAreMutual
<1>9. (d = i[1] /\ e = j[1]) \/ (d = j[1] /\ e = i[1])
  BY <1>4
<1>10. QED
  BY <1>2, <1>7, <1>8, <1>9

\* ConnectedAreNeighbors: in topologies of that kind, the cable or the carrying
\* that ConnectDevs has made is the route between its devices, whatever else the
\* program connects.
THEOREM NeighborsRoute == Spec => []ConnectedAreNeighbors
<1>1. ASSUME IInv
      PROVE  ConnectedAreNeighbors
  <2>1. ASSUME Unmixed, NEW pair \in connected, NEW d \in pair, NEW e \in pair, d # e
        PROVE  FindRoute(DirectedTopoGraph, d, e) = {<<d, e>>}
    <3> DEFINE graph == DirectedTopoGraph
    <3>1. d \in Devs /\ e \in Devs /\ Edge(graph, d, e)
      BY <1>1, <2>1, ConnectedEdges
    <3> HIDE DEF graph
    <3>2. 1 \in 0..MaxSteps
      <4>1. Cardinality(Devs) \in Nat /\ Cardinality(Devs) # 0
        BY TopoAssumption, FS_CardinalityType, FS_EmptySet
      <4>2. Cardinality(Devs) # 1
        <5>1. Cardinality(Devs) = 1 => \E x : Devs = {x}
          BY TopoAssumption, FS_Singleton
        <5>2. QED
          BY <2>1, <3>1, <5>1
      <4>3. QED
        BY <4>1, <4>2 DEF MaxSteps
    <3>3. IsRoute(graph, <<d, e>>, d, e, 1)
      BY <2>1, <3>1 DEF IsRoute, IsPath
    <3>4. ASSUME NEW m \in 0..MaxSteps, NEW q, IsRoute(graph, q, d, e, m)
          PROVE  1 <= m
      <4>1. m \in Nat
        BY MaxStepsNatural
      <4>2. q[1] = d /\ q[m + 1] = e
        BY <3>4 DEF IsRoute, IsPath
      <4>3. m # 0
        BY <2>1, <4>2
      <4>4. QED
        BY <4>1, <4>3
    <3>5. Shortest(graph, <<d, e>>, d, e, 1)
      BY <3>2, <3>3, <3>4 DEF Shortest
    <3>6. ASSUME NEW p, NEW n, Shortest(graph, p, d, e, n)
          PROVE  p = <<d, e>>
      <4>1. n = 1
        BY <3>2, <3>3, <3>4, <3>6, MaxStepsNatural DEF Shortest
      <4>2. /\ p \in Seq(Devs) /\ Len(p) = 2 /\ p[1] = d /\ p[2] = e
        BY <3>6, <4>1 DEF Shortest, IsRoute, IsPath
      <4>3. QED
        BY <4>2
    <3>7. \A p : p \in FindRoute(graph, d, e) <=> p = <<d, e>>
      BY <3>1, <3>5, <3>6, FindRouteIs
    <3>8. QED
      BY <3>7 DEF graph
  <2>2. QED
    BY <2>1 DEF ConnectedAreNeighbors
<1>2. QED
  BY <1>1, Invariance, PTL
=============================================================================
