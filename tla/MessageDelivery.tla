-------------------------- MODULE MessageDelivery --------------------------
(***************************************************************************)
(* What the network promises the program that calls EnterNetwork: a        *)
(* message that asks for a report is reported exactly once, when the last  *)
(* of its frames has left the network and not before; a background packet  *)
(* is never reported; and every frame gets through.                        *)
(***************************************************************************)
EXTENDS Integers

CONSTANTS
  Conns,     \* connections, one per message
  MaxFrames  \* bound on the frames of a message

VARIABLES
  inNetwork,  \* frames of the connection that are still in the network
  wanted,     \* connections that ask for a report
  returned    \* connections that have been reported

vars == <<inNetwork, wanted, returned>>

Init ==
  /\ inNetwork = [c \in Conns |-> 0]
  /\ wanted = {}
  /\ returned = {}

\* The connection has no message that asks for a report, and no frames.
Fresh(c) == c \notin wanted /\ inNetwork[c] = 0

\* A message enters as n frames; one with zero latency is through at once.
Enter(c, n, asks) ==
  /\ inNetwork' = [inNetwork EXCEPT ![c] = n]
  /\ wanted' = IF asks THEN wanted \cup {c} ELSE wanted
  /\ returned' = IF asks /\ n = 0 THEN returned \cup {c} ELSE returned

Deliver(c) ==
  /\ inNetwork[c] > 0
  /\ inNetwork' = [inNetwork EXCEPT ![c] = @ - 1]
  /\ returned' = IF c \in wanted /\ inNetwork[c] = 1 THEN returned \cup {c}
                                                      ELSE returned
  /\ UNCHANGED wanted

Next == \E c \in Conns :
          \/ Fresh(c) /\ \E n \in 0..MaxFrames, asks \in BOOLEAN : Enter(c, n, asks)
          \/ Deliver(c)

Spec == Init /\ [][Next]_vars /\ \A c \in Conns : WF_vars(Deliver(c))
============================================================================
