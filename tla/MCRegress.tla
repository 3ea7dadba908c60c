----------------------------- MODULE MCRegress -----------------------------
(* Model-checking instance of Regress.  The flags are set per run in the  *)
(* .cfg files.  Most runs take two Tests of two packets and start the     *)
(* script twice; the orchestrator run takes one invocation of three Tests *)
(* without packets (so that Send does not raise) and lets every sleep be  *)
(* too short, so that stop_honeyd meets a dead daemon and a closed stderr. *)
EXTENDS Regress

MCNTests == 2
MCNPackets == 2
MCMaxInvocations == 2

MCOrchTests == 3
MCOrchPackets == 0
MCOrchInvocations == 1
=============================================================================
