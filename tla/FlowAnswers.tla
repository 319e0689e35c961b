----------------------------- MODULE FlowAnswers -----------------------------
(***************************************************************************)
(* What the network promises a program that enters a flow and gives a      *)
(* context for the answer: the answer comes, once, unless the flow is      *)
(* ended while the answer is under way.                                    *)
(***************************************************************************)
CONSTANTS
  Conns,  \* connections, one per entry that asks
  Flows

VARIABLES
  asked,    \* connections of the entries that asked
  open,     \* <<connection, flow>> of the answers that are under way
  given,    \* connections that were answered
  running   \* flows that are established

vars == <<asked, open, given, running>>

Init == asked = {} /\ open = {} /\ given = {} /\ running = {}

\* An entry for f that asks, on a connection of its own.
Ask(c, f) ==
  /\ c \notin asked
  /\ asked' = asked \cup {c}
  /\ open' = open \cup {<<c, f>>}
  /\ running' \in {running, running \cup {f}}
  /\ UNCHANGED given

Start(f) == running' = running \cup {f} /\ UNCHANGED <<asked, open, given>>

Answer(c, f) ==
  /\ <<c, f>> \in open
  /\ open' = open \ {<<c, f>>}
  /\ given' = given \cup {c}
  /\ UNCHANGED <<asked, running>>

\* The end of a flow may lose answers under way for it, and may ask on new
\* connections of its own.
End(f) ==
  /\ running' = running \ {f}
  /\ asked \subseteq asked' /\ asked' \subseteq Conns
  /\ {o \in open : o[2] # f} \subseteq open'
  /\ open' \subseteq open \cup ((asked' \ asked) \X {f})
  /\ UNCHANGED given

Next ==
  \/ \E f \in Flows : Start(f) \/ End(f)
  \/ \E c \in Conns, f \in Flows : Ask(c, f) \/ Answer(c, f)

Spec == Init /\ [][Next]_vars /\ \A c \in Conns : WF_vars(\E f \in Flows : Answer(c, f))
=============================================================================
