-------------------------- MODULE MCRobotPrograms --------------------------
(* Two sessions or owner processes of the adapter with two requests to      *)
(* each; two actions per prediction; a task with a policy and one without;  *)
(* two episodes.                                                            *)
EXTENDS RobotPrograms
=============================================================================
