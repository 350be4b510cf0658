------------------------ MODULE MCControllerProcess ------------------------
(***************************************************************************)
(* Two operators and a few processes; two ports stand for the three.       *)
(***************************************************************************)
EXTENDS ControllerProcess, TLC

ThePorts == 1..2    \* the control socket, the dashboard
Anyone == Permutations(Operators)
=============================================================================
