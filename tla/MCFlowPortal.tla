---------------------------- MODULE MCFlowPortal ----------------------------
(* FlowPortal with the return descriptions that its runs use: the program  *)
(* asks for everything; StartFlows asks for no answer.                     *)
EXTENDS FlowPortal

AskAll == {[cxt |-> TRUE, src |-> TRUE, dst |-> TRUE, loss |-> TRUE]}
=============================================================================
