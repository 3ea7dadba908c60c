--------------------------- MODULE Orchestrator ---------------------------
(***************************************************************************)
(* What the regression orchestrator promises (spec.md section 4.6),        *)
(* without processes, routes or traces: a run is launched, scenarios are   *)
(* attempted one at a time, a scenario passes at most once and only after  *)
(* it was attempted, and the run ends either early with a non-zero status  *)
(* or after every scenario with a status that is zero exactly when every   *)
(* attempted scenario passed (or the run only generated fixtures).         *)
(*                                                                         *)
(* Two points are weaker than the text of 4.6, because regress.py does    *)
(* them and the spec does not exclude them outright: a run may Abort       *)
(* after a failed scenario (fail() calls sys.exit(1), regress.py:247),     *)
(* and a generate-mode run reports status 0 (finish() skips ok()).         *)
(***************************************************************************)
EXTENDS Naturals

CONSTANT NScenarios  \* the scenarios of one run

VARIABLES
  phase,      \* "idle" (no harness process) or "running"
  attempted,  \* scenarios attempted in the current (or last) run
  passed,     \* scenarios that passed
  mode,       \* TRUE: generate mode, fixtures are promoted, not compared
  status      \* "none", "running", "exit0" or "exit1"

avars == <<phase, attempted, passed, mode, status>>

ATypeOK ==
  /\ phase \in {"idle", "running"}
  /\ attempted \in 0..NScenarios
  /\ passed \in 0..attempted
  /\ mode \in BOOLEAN
  /\ status \in {"none", "running", "exit0", "exit1"}

AInit ==
  /\ phase = "idle"
  /\ attempted = 0
  /\ passed = 0
  /\ mode = FALSE
  /\ status = "none"

\* Idle -> ConfigValidated -> RoutesInstalled: a new run starts with fresh
\* counters, in compare or generate mode.
Launch ==
  /\ phase = "idle"
  /\ phase' = "running"
  /\ attempted' = 0
  /\ passed' = 0
  /\ \E g \in BOOLEAN : mode' = g
  /\ status' = "running"

\* SetupFatal: the run ends before any scenario.
SetupFatal ==
  /\ phase = "idle"
  /\ status' = "exit1"
  /\ UNCHANGED <<phase, attempted, passed, mode>>

\* The next scenario starts: only when every earlier one passed, since a
\* failed comparison ends the run (or in generate mode, where none passes).
Attempt ==
  /\ phase = "running"
  /\ attempted < NScenarios
  /\ mode \/ passed = attempted
  /\ attempted' = attempted + 1
  /\ UNCHANGED <<phase, passed, mode, status>>

\* The scenario being run matched its fixture.
Pass ==
  /\ phase = "running"
  /\ ~mode
  /\ passed < attempted
  /\ passed' = passed + 1
  /\ UNCHANGED <<phase, attempted, mode, status>>

\* The run ends early: a failure, a fatal error or an uncaught exception.
Abort ==
  /\ phase = "running"
  /\ phase' = "idle"
  /\ status' = "exit1"
  /\ UNCHANGED <<attempted, passed, mode>>

\* RoutesRemoved -> Reported, after the last scenario.
Report ==
  /\ phase = "running"
  /\ attempted = NScenarios
  /\ phase' = "idle"
  /\ status' = IF mode \/ passed = attempted THEN "exit0" ELSE "exit1"
  /\ UNCHANGED <<attempted, passed, mode>>

ANext == Launch \/ SetupFatal \/ Attempt \/ Pass \/ Abort \/ Report

\* The orchestrator's safety: what its steps may do.
ASafeSpec == AInit /\ [][ANext]_avars

=============================================================================
