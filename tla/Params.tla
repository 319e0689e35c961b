------------------------------- MODULE Params -------------------------------
(***************************************************************************)
(* Parameters of an experiment (param.go, mrnes.go): the modeler lists     *)
(* assignments in any order, each constrained by attributes; loading sorts *)
(* them from general to specific and applies one after the other to every  *)
(* object that matches.                                                    *)
(***************************************************************************)
EXTENDS Integers, Sequences, SequencesExt, FiniteSetsExt

CONSTANTS
  Objects,      \* the objects of the topology
  ParamObj,     \* [Objects -> kind of object]
  Attributes,   \* [Objects -> set of <<name, value>>], but for its model
  Model,        \* [Objects -> the model it is created with]
  Offered,      \* the assignments that a file may have
  ParamOrder,   \* the names of parameters in the order of strings
  MaxParams     \* bound on the assignments in the file

Kinds == {"Switch", "Router", "Endpoint", "Interface", "Network", "Flow"}

\* A value in a file is a string: num stands for the number it spells, or for
\* the text itself, rank for its place in the order of strings.
FileValue == [kind : {"int", "float", "true", "text"}, num : Nat, rank : Nat]

IsAssignment(a) ==
  /\ a.paramObj \in Kinds /\ a.value \in FileValue
  /\ a.attributes \in Seq(ToSet(a.attributes))
  /\ \E i \in DOMAIN ParamOrder : ParamOrder[i] = a.param

\* sort.Slice is an insertion sort up to 12 elements.
ASSUME ParamsAssumption ==
  /\ MaxParams \in 1..12
  /\ ParamObj \in [Objects -> Kinds] /\ Model \in [Objects -> Nat]
  /\ DOMAIN ParamOrder \subseteq Nat
  /\ \A a \in Offered : IsAssignment(a)

VARIABLES
  params,   \* ExpCfg.Parameters
  loaded,   \* whether SetTopoParameters has run
  value     \* the parameters of every object, Unset when never assigned

vars == <<params, loaded, value>>

Unset == -1

\* createIntrfcState: 1e+6 seconds, "so that if not initialized we'll notice".
Noticeable == -2

----------------------------------------------------------------------------
(* Values and what the objects do with them.                               *)

\* ExpAttributes.
ExpAttributes ==
  [k \in Kinds \ {"Flow"} |->
     CASE k = "Interface" -> {"name", "group", "devtype", "devname", "media", "network", "*"}
       [] k = "Network" -> {"name", "group", "media", "scale", "*"}
       [] OTHER -> {"name", "group", "model", "*"}]

\* The attributes that matchParam knows.
Testable ==
  [k \in Kinds |->
     CASE k = "Interface" -> {"name", "group", "devtype", "devname", "media", "faces"}
       [] k = "Network" -> {"name", "group", "media", "scale"}
       [] k = "Flow" -> {"name", "group", "srcdev", "dstdev"}
       [] OTHER -> {"name", "group", "model"}]

\* What setParam makes of each parameter: a number, a truth value, a truth
\* value that only the number 1 makes true, or a text.
Reads ==
  [k \in Kinds |->
     CASE k = "Endpoint" -> [model |-> "text", trace |-> "one", cores |-> "int",
                             interruptdelay |-> "float", bckgrndSrv |-> "float", bckgrndRate |-> "float"]
       [] k = "Interface" -> [latency |-> "float", delay |-> "float", bandwidth |-> "float",
                              buffer |-> "float", MTU |-> "int", trace |-> "one", drop |-> "bool"]
       [] k = "Network" -> [latency |-> "float", bandwidth |-> "float", capacity |-> "float",
                            trace |-> "bool", drop |-> "bool"]
       [] k = "Flow" -> [reqrate |-> "float", mode |-> "text"]
       [] OTHER -> [model |-> "text", buffer |-> "float", trace |-> "bool", drop |-> "bool"]]

ParamsOf(o) == DOMAIN Reads[ParamObj[o]]

StringToValueStruct(v) ==
  [int |-> IF v.kind = "int" THEN v.num ELSE 0,
   float |-> IF v.kind \in {"int", "float"} THEN v.num ELSE 0,
   bool |-> IF v.kind = "true" \/ (v.kind = "int" /\ v.num = 1) THEN 1 ELSE 0,
   text |-> IF v.kind = "text" THEN v.num ELSE 0]

SetParam(now, o, param, v) ==
  LET vs == StringToValueStruct(v)
      reads == Reads[ParamObj[o]][param]
  IN  IF param \notin ParamsOf(o) THEN now
      ELSE [now EXCEPT ![o][param] = IF reads = "one" THEN (IF vs.int = 1 THEN 1 ELSE 0) ELSE vs[reads]]

MatchParam(now, o, attrb) ==
  /\ attrb[1] \in Testable[ParamObj[o]]
  /\ IF attrb[1] = "model" THEN now[o].model = attrb[2] ELSE attrb \in Attributes[o]

\* The attributes are tried in turn, up to a wildcard.
Matches(now, o, a) ==
  /\ ParamObj[o] = a.paramObj
  /\ \A i \in DOMAIN a.attributes :
       (\A j \in 1..i : a.attributes[j][1] # "*") => MatchParam(now, o, a.attributes[i])

----------------------------------------------------------------------------
(* The order of application.                                               *)

Names(a) == {a.attributes[i][1] : i \in DOMAIN a.attributes}

\* CompareAttrbs is -1, and 1 the other way round.
MoreGeneral(a, b) == Len(a.attributes) < Len(b.attributes) /\ Names(a) \subseteq Names(b)

EqAttrbs(a, b) ==
  /\ Len(a.attributes) = Len(b.attributes)
  /\ ToSet(a.attributes) = ToSet(b.attributes)

Eq(a, b) ==
  a.paramObj = b.paramObj /\ EqAttrbs(a, b) /\ a.param = b.param /\ a.value = b.value

ParamRank(a) == CHOOSE i \in DOMAIN ParamOrder : ParamOrder[i] = a.param

\* sort.Slice: an element moves to the front of all those at the end of s that
\* it is less than.
Inserted(s, x, less) ==
  InsertAt(s, 1 + Max({0} \cup {i \in DOMAIN s : <<x, s[i]>> \notin less}), x)

SortSlice(s, less) == FoldLeft(LAMBDA t, x : Inserted(t, x, less), << >>, s)

\* The comparisons of the three sublists, as relations.
LessWildcard == {r \in Offered \X Offered : ParamRank(r[1]) < ParamRank(r[2])}

LessSingle == {r \in Offered \X Offered : MoreGeneral(r[1], r[2])}

\* By parameter, then by value.
Before(a, b) ==
  \/ ParamRank(a) < ParamRank(b)
  \/ ParamRank(a) = ParamRank(b) /\ a.value.rank < b.value.rank

\* Defect: named assignments are compared by parameter and value alone.
LessNamedByValue == {r \in Offered \X Offered : Before(r[1], r[2])}

LessNamed ==
  {r \in Offered \X Offered :
     MoreGeneral(r[1], r[2]) \/ (~MoreGeneral(r[2], r[1]) /\ Before(r[1], r[2]))}

\* Wildcard, named or single: the first attribute that is "*" or "name" tells.
Sublist(a) ==
  LET telling == {i \in DOMAIN a.attributes : a.attributes[i][1] \in {"*", "name"}}
  IN  IF telling = {} THEN "sg"
      ELSE IF a.attributes[CHOOSE i \in telling : \A j \in telling : i <= j][1] = "*" THEN "wc" ELSE "nm"

Only(s, A) == FoldLeft(LAMBDA t, a : IF a \in A THEN Append(t, a) ELSE t, << >>, s)

OfSublist(s, list) == Only(s, {a \in Offered : Sublist(a) = list})

\* Neighbours that are equal are reduced to the first of them.
NoDuplicates(s) ==
  LET kept == {i \in DOMAIN s : i = 1 \/ ~Eq(s[i], s[i - 1])}
  IN  FoldLeft(LAMBDA t, i : IF i \in kept THEN Append(t, s[i]) ELSE t, << >>, [i \in DOMAIN s |-> i])

ReorderExpParams(s) ==
  NoDuplicates(SortSlice(OfSublist(s, "wc"), LessWildcard)
               \o SortSlice(OfSublist(s, "sg"), LessSingle)
               \o SortSlice(OfSublist(s, "nm"), LessNamed))

\* The built-in defaults, which apply to every object of a kind that lists them
\* in ExpParams.  Times are in microseconds; "false" is a text.
ExpParams ==
  [k \in Kinds \ {"Flow"} |->
     CASE k = "Endpoint" -> {"trace", "model", "interruptdelay", "bckgrndSrv"}
       [] k = "Network" -> {"latency", "bandwidth", "capacity", "drop", "trace"}
       [] k = "Interface" -> {"latency", "delay", "buffer", "bandwidth", "MTU", "rsrvd", "drop", "trace"}
       [] OTHER -> {"model", "buffer", "trace"}]

Spelt(kind, num) == [kind |-> kind, num |-> num, rank |-> 0]

Defaults ==
  [latency |-> Spelt("float", 10000), delay |-> Spelt("float", 10), bandwidth |-> Spelt("int", 10),
   buffer |-> Spelt("int", 100), capacity |-> Spelt("int", 10), MTU |-> Spelt("int", 1560),
   trace |-> Spelt("text", 1)]

\* Defect: no default for the latency.
HasDefaultButLatency(o, param) ==
  /\ ParamObj[o] \in DOMAIN ExpParams
  /\ param \in ExpParams[ParamObj[o]] \cap (DOMAIN Defaults \ {"latency"})

HasDefault(o, param) ==
  /\ ParamObj[o] \in DOMAIN ExpParams
  /\ param \in ExpParams[ParamObj[o]] \cap DOMAIN Defaults

\* What an interface is created with; nothing else but a model has a value then.
IntrfcState == [delay |-> Noticeable, latency |-> Noticeable, MTU |-> 1560]

Created ==
  [o \in Objects |->
     [p \in ParamsOf(o) |->
        IF p = "model" THEN Model[o]
        ELSE IF ParamObj[o] = "Interface" /\ p \in DOMAIN IntrfcState THEN IntrfcState[p]
        ELSE Unset]]

Defaulted ==
  [o \in Objects |->
     [p \in ParamsOf(o) |-> IF HasDefault(o, p) THEN SetParam(Created, o, p, Defaults[p])[o][p]
                            ELSE Created[o][p]]]

\* One assignment, applied to every object that matches.
Applied(now, a) ==
  [o \in Objects |-> IF Matches(now, o, a) THEN SetParam(now, o, a.param, a.value)[o] ELSE now[o]]

\* Defect: the assignments are applied in the order of the file.
LoadedInFileOrder(s) == FoldLeft(Applied, Defaulted, s)

\* The assignments of one kind of object never concern another.
Loaded(s) ==
  LET ofKind(k) == ReorderExpParams(Only(s, {a \in Offered : a.paramObj = k}))
  IN  FoldLeft(Applied, Defaulted,
               ofKind("Endpoint") \o ofKind("Router") \o ofKind("Switch")
               \o ofKind("Interface") \o ofKind("Network") \o ofKind("Flow"))

----------------------------------------------------------------------------

Init == params = << >> /\ loaded = FALSE /\ value = Created

\* ValidateParameter panics on what the kind of object does not list.
Valid(a) == a.paramObj \in DOMAIN ExpAttributes /\ Names(a) \subseteq ExpAttributes[a.paramObj]

Add(a) ==
  /\ ~loaded /\ Len(params) < MaxParams
  /\ params' = Append(params, a)
  /\ UNCHANGED <<loaded, value>>

AddParameter(a) == Valid(a) /\ Add(a)

\* A file that is read is not validated.
WriteByHand(a) == ~Valid(a) /\ Add(a)

SetTopoParameters ==
  /\ ~loaded
  /\ loaded' = TRUE /\ value' = Loaded(params)
  /\ UNCHANGED params

Next == (\E a \in Offered : AddParameter(a) \/ WriteByHand(a)) \/ SetTopoParameters

Spec == Init /\ [][Next]_vars

----------------------------------------------------------------------------
(* Properties.                                                             *)

\* What transit divides by and waits for.
Needed ==
  [k \in {"Interface", "Network"} |->
     IF k = "Interface" THEN {"latency", "delay", "bandwidth", "buffer", "MTU"}
     ELSE {"latency", "bandwidth", "capacity"}]

\* "set defaults to ensure that every parameter that has to have a value does"
\* (mrnes.go:356): those of interfaces and networks, where no delay or latency
\* keeps the value that is there to be noticed.
TypeOK ==
  /\ params \in Seq(Offered) /\ Len(params) <= MaxParams /\ loaded \in BOOLEAN
  /\ \A o \in Objects : value[o] \in [ParamsOf(o) -> Nat \cup {Unset, Noticeable}]
  /\ loaded => \A o \in {m \in Objects : ParamObj[m] \in DOMAIN Needed} :
                 \A p \in Needed[ParamObj[o]] : value[o][p] \in Nat

Tier == [wc |-> 1, sg |-> 2, nm |-> 3]

\* b is for fewer objects than a, as far as names of attributes tell.
Refines(b, a) ==
  \/ Tier[Sublist(b)] > Tier[Sublist(a)]
  \/ Sublist(a) = Sublist(b) /\ MoreGeneral(a, b)

\* CompareAttrbs orders the sublists of the file: what it leaves undecided it
\* leaves undecided transitively.  sort.Slice asks for no less.
WeaklyOrdered(S) ==
  \A a, b, c \in S :
    /\ a.paramObj = b.paramObj /\ b.paramObj = c.paramObj
    /\ Sublist(a) = Sublist(b) /\ Sublist(b) = Sublist(c)
    /\ ~MoreGeneral(a, b) /\ ~MoreGeneral(b, a) /\ ~MoreGeneral(b, c) /\ ~MoreGeneral(c, b)
    => ~MoreGeneral(a, c)

TestsModel(S, k) == \E a \in S : a.paramObj = k /\ "model" \in Names(a)

\* Assignments to the model next to tests of it: what an assignment matches may
\* then change while the list is applied.
ModelMoves(S, k) == TestsModel(S, k) /\ \E a \in S : a.paramObj = k /\ a.param = "model"

\* The assignments that match o, once all are applied.
Candidates(S, o, p) == {a \in S : a.param = p /\ Matches(value, o, a)}

\* "Should be the case that if '*' is present there is nothing else" (mrnes.go:503).
WildcardsAlone(S) == \A a \in S : "*" \in Names(a) => Len(a.attributes) = 1

\* "The wildcard elements always appear before any others, and the named elements
\* always appear after all the others" (mrnes.go:251): where a model that is
\* tested is not assigned to, an object's parameter has the value of an
\* assignment that matches the object and than which no other match is of a
\* later sublist; and, in a file that CompareAttrbs orders, none has more names.
MoreNamesDecide ==
  LET S == ToSet(params)
  IN  loaded /\ WildcardsAlone(S) =>
        \A o \in Objects : \A p \in ParamsOf(o) :
          LET C == Candidates(S, o, p)
          IN  C # {} /\ ~ModelMoves(S, ParamObj[o]) =>
                \E a \in C : /\ SetParam(value, o, p, a.value) = value
                             /\ \A b \in C : Tier[Sublist(b)] <= Tier[Sublist(a)]
                             /\ WeaklyOrdered(S) => \A b \in C : ~Refines(b, a)

\* Assignments of one parameter that some object matches both of, with neither
\* refining the other.
Conflict(a, b) ==
  /\ a.param = b.param /\ a.value # b.value /\ ~Refines(a, b) /\ ~Refines(b, a)
  /\ \E o \in Objects : Matches(value, o, a) /\ Matches(value, o, b)

Exchanged(i) == [params EXCEPT ![i] = params[i + 1], ![i + 1] = params[i]]

\* A file that CompareAttrbs orders, with wildcards alone, without conflicts and
\* without assignments to a model that is tested, may be written in any order:
\* exchanging neighbours changes nothing.  FileOrderFree fails without the first
\* and the last of these premises.
SortableOrderFree ==
  LET S == ToSet(params)
  IN  /\ loaded /\ WeaklyOrdered(S) /\ WildcardsAlone(S)
      /\ \A a, b \in S : ~Conflict(a, b)
      /\ \A k \in Kinds : ~ModelMoves(S, k)
      => \A i \in 1..(Len(params) - 1) : Loaded(Exchanged(i)) = value

----------------------------------------------------------------------------
(* What docs/MRNES-API.md:317 says of every file.                          *)

MatchedBy(a) == {o \in Objects : Matches(value, o, a)}

FewerMatch(b, a) == MatchedBy(b) \subseteq MatchedBy(a) /\ MatchedBy(b) # MatchedBy(a)

\* Two assignments of one parameter to some object, neither for fewer objects.
Contradict(a, b) ==
  /\ a.param = b.param /\ a.value # b.value
  /\ MatchedBy(a) \cap MatchedBy(b) # {} /\ ~FewerMatch(a, b) /\ ~FewerMatch(b, a)

\* "The modeler may place the parameter assignment statements in any order in
\* the file", and of two assignments the one that "applies to fewer devices" is
\* "applied later, overwriting any earlier assignment": unless two contradict
\* each other, exchanging neighbours changes nothing.
FileOrderFree ==
  loaded /\ (\A a, b \in ToSet(params) : ~Contradict(a, b)) =>
    \A i \in 1..(Len(params) - 1) : Loaded(Exchanged(i)) = value
=============================================================================
