----------------------------- MODULE Supervisor -----------------------------
(***************************************************************************)
(* What the process supervisor promises (spec.md 4.1, and the mutual       *)
(* exclusion of section 8), without pidfiles, ps listings or stderr pipes: *)
(* a daemon is started only when no daemon is alive; a live daemon may be  *)
(* signalled; a signalled daemon ends by exiting, an unsignalled one only  *)
(* by dying on its own.                                                    *)
(***************************************************************************)
EXTENDS TLAPS

CONSTANT DaemonIds  \* the daemon processes that can ever be spawned

VARIABLES
  live,       \* daemons that are alive
  signalled   \* live daemons that have been sent SIGINT

svars == <<live, signalled>>

STypeOK ==
  /\ live \subseteq DaemonIds
  /\ signalled \subseteq live

SInit ==
  /\ live = {}
  /\ signalled = {}

\* startDaemon: only with no daemon alive.
Start(d) ==
  /\ live = {}
  /\ live' = {d}
  /\ UNCHANGED signalled

\* stopDaemon signals a live daemon.
Signal(d) ==
  /\ d \in live \ signalled
  /\ signalled' = signalled \cup {d}
  /\ UNCHANGED live

\* A signalled daemon exits.
Quit(d) ==
  /\ d \in signalled
  /\ live' = live \ {d}
  /\ signalled' = signalled \ {d}

\* A daemon dies without having been signalled.
Die(d) ==
  /\ d \in live \ signalled
  /\ live' = live \ {d}
  /\ UNCHANGED signalled

SNext == \E d \in DaemonIds : Start(d) \/ Signal(d) \/ Quit(d) \/ Die(d)

SSpec == SInit /\ [][SNext]_svars

\* Mutual exclusion (spec 8): no two daemons are ever alive together.
MutualExclusion == \A d, e \in live : d = e

\* The supervisor's contract keeps at most one daemon alive.
THEOREM SupervisorExclusion == SSpec => [](STypeOK /\ MutualExclusion)
<1>1. SInit => STypeOK /\ MutualExclusion
  BY DEF SInit, STypeOK, MutualExclusion
<1>2. STypeOK /\ MutualExclusion /\ [SNext]_svars => (STypeOK /\ MutualExclusion)'
  BY DEF STypeOK, MutualExclusion, SNext, Start, Signal, Quit, Die, svars
<1>3. QED  BY <1>1, <1>2, PTL DEF SSpec
=============================================================================
