------------------------- MODULE RegressRefinement -------------------------
(***************************************************************************)
(* Proof that the harness model implements the orchestrator of spec.md     *)
(* 4.6 (Orchestrator!ASafeSpec) under the mapping Orch of Regress.         *)
(*                                                                         *)
(* Most harness steps are stutters of the orchestrator; Invoke is Launch   *)
(* or SetupFatal, Boot is Attempt, a matching compare() is Pass, every     *)
(* exit or uncaught exception of a running harness is Abort, and finish()  *)
(* is Report.  Attempt needs "mode \/ passed = attempted": in compare mode *)
(* every Test before the current one has passed (PassInv), because a      *)
(* failing one ends the process.  Report needs attempted = NTests, which   *)
(* Counters gives once the loop is over.                                   *)
(***************************************************************************)
EXTENDS RegressProofs

\* In compare mode every earlier Test of a running harness has passed.
PassInv == (hpc # "idle" /\ ~generate) => oktests = test - 1

RInv == IInv /\ PassInv

\* The orchestrator's variables under the mapping.
AVars == <<IF hpc = "idle" THEN "idle" ELSE "running", runtests, oktests,
           generate, OrchStatus>>

-----------------------------------------------------------------------------
(* PassInv is inductive together with IInv *)

LEMMA InitPassInv == Init => PassInv
BY DEF Init, PassInv

\* Capture and daemon steps, and the stutters, leave the harness alone.
LEMMA OutsideHarness ==
  ASSUME CaptureStep \/ (\E d \in Daemons : DaemonStep(d) \/ DaemonCrash(d))
           \/ Done \/ UNCHANGED vars
  PROVE  /\ hpc' = hpc /\ test' = test /\ runtests' = runtests
         /\ oktests' = oktests /\ generate' = generate /\ outcome' = outcome
<1>1. UNCHANGED harnessVars
  <2>1. CASE CaptureStep
    BY <2>1 DEF CaptureStep, CaptureOpen, CaptureRecord
  <2>2. CASE \E d \in Daemons : DaemonStep(d) \/ DaemonCrash(d)
    BY <2>2 DEF DaemonStep, DaemonBoot, DaemonReply, DaemonExit, DaemonCrash
  <2>3. CASE Done \/ UNCHANGED vars
    BY <2>3 DEF Done, vars
  <2>4. QED  BY <2>1, <2>2, <2>3
<1>2. QED  BY <1>1 DEF harnessVars

LEMMA NextPassInv == IInv /\ PassInv /\ [Next]_vars => PassInv'
<1> SUFFICES ASSUME IInv, PassInv, [Next]_vars PROVE PassInv'
  OBVIOUS
<1> USE DEF IInv, TypeOK
<1>1. CASE Invoke
  BY <1>1 DEF Invoke, Exit, PassInv
<1>2. CASE Check
  <2>1. CASE generate
    BY <1>2, <2>1 DEF Check, PassInv
  <2>2. CASE ~generate /\ trace = fixture[test] /\ fixture[test] # NoFile
    BY <1>2, <2>2 DEF Check, Exit, PassInv
  <2>3. CASE ~generate /\ (trace # fixture[test] \/ fixture[test] = NoFile)
    BY <1>2, <2>3 DEF Check, Exit, PassInv
  <2>4. QED  BY <2>1, <2>2, <2>3
<1>3. CASE HarnessStep /\ ~Check
  BY <1>3 DEF HarnessStep, PassInv, Exit, RunTest, Finish, StopRead,
             StopExists, StopKill, StopRemove, StartPcap, StartHoneyd, Boot,
             Send, Settle, StopPcap
<1>4. CASE CaptureStep \/ (\E d \in Daemons : DaemonStep(d) \/ DaemonCrash(d))
             \/ Done \/ UNCHANGED vars
  BY <1>4, OutsideHarness DEF PassInv
<1>5. QED  BY <1>1, <1>2, <1>3, <1>4 DEF Next

-----------------------------------------------------------------------------
(* The two shapes of a harness step that the orchestrator does not see as *)
(* a step of its own, or sees as Abort.                                   *)

\* A step inside a running harness that leaves the counters, the mode and
\* the outcome alone is a stutter of the orchestrator.
LEMMA InternalStep ==
  ASSUME hpc # "idle", hpc' # "idle",
         UNCHANGED <<runtests, oktests, generate, outcome>>
  PROVE  UNCHANGED AVars
BY DEF AVars, OrchStatus

\* A running harness that ends with an error is Abort.
LEMMA AbortStep ==
  ASSUME hpc # "idle", hpc' = "idle",
         outcome' \in {"exit1", "TypeError", "AttributeError", "ValueError"},
         UNCHANGED <<runtests, oktests, generate>>
  PROVE  Orch!Abort
BY DEF Orch!Abort, OrchStatus

\* A step that touches none of the harness's variables is a stutter.
LEMMA OutsideStep ==
  ASSUME hpc' = hpc, runtests' = runtests, oktests' = oktests,
         generate' = generate, outcome' = outcome
  PROVE  UNCHANGED AVars
BY DEF AVars, OrchStatus

-----------------------------------------------------------------------------
(* One lemma per harness action *)

LEMMA InvokeRefines == Invoke => Orch!Launch \/ Orch!SetupFatal
<1> SUFFICES ASSUME Invoke PROVE Orch!Launch \/ Orch!SetupFatal
  OBVIOUS
<1>1. CASE Exit("exit1") /\ UNCHANGED <<routes, generate, test, runtests, oktests, fe>>
  BY <1>1 DEF Invoke, Exit, Orch!SetupFatal, OrchStatus
<1>2. CASE hpc' = "next" /\ outcome' = "running" /\ runtests' = 0
           /\ oktests' = 0 /\ generate' \in BOOLEAN
  BY <1>2 DEF Invoke, Orch!Launch, OrchStatus
<1>3. QED  BY <1>1, <1>2 DEF Invoke

LEMMA BootRefines == IInv /\ PassInv /\ Boot => Orch!Attempt
<1> SUFFICES ASSUME IInv, PassInv, Boot PROVE Orch!Attempt
  OBVIOUS
<1>1. runtests = test - 1 /\ test <= NTests /\ test \in Nat
  <2>1. hpc \in BeforeCount /\ Counters /\ test \in 1..(NTests + 1)
    BY DEF IInv, TypeOK, Boot, BeforeCount
  <2>2. QED  BY <2>1 DEF Counters
<1>2. generate \/ oktests = runtests
  BY <1>1 DEF PassInv, Boot
<1>3. runtests < NTests /\ runtests' = runtests + 1
  BY <1>1, NTestsAssumption DEF Boot
<1>4. hpc # "idle" /\ hpc' # "idle"
  BY DEF Boot
<1>5. UNCHANGED <<oktests, generate, outcome>>
  BY DEF Boot
<1>6. QED  BY <1>2, <1>3, <1>4, <1>5 DEF Orch!Attempt, OrchStatus

LEMMA FinishRefines == IInv /\ Finish => Orch!Report
<1> SUFFICES ASSUME IInv, Finish PROVE Orch!Report
  OBVIOUS
<1>1. runtests = NTests
  BY NTestsAssumption DEF IInv, TypeOK, Counters, Finish
<1>2. hpc # "idle" /\ hpc' = "idle" /\ UNCHANGED <<runtests, oktests, generate>>
  BY DEF Finish, Exit
<1>3. outcome' = IF generate \/ runtests = oktests THEN "exit0" ELSE "exit1"
  BY DEF Finish, Exit
<1>4. QED  BY <1>1, <1>2, <1>3 DEF Orch!Report, OrchStatus

LEMMA CheckRefines ==
  IInv /\ PassInv /\ Check => Orch!Pass \/ Orch!Abort \/ UNCHANGED AVars
<1> SUFFICES ASSUME IInv, PassInv, Check
             PROVE  Orch!Pass \/ Orch!Abort \/ UNCHANGED AVars
  OBVIOUS
<1>1. hpc = "check" /\ runtests = test /\ test \in Nat
  BY DEF IInv, TypeOK, Counters, Check, AfterCount
<1>2. CASE generate /\ hpc' = "next" /\ UNCHANGED <<oktests, outcome>>
  BY <1>1, <1>2, InternalStep DEF Check
<1>3. CASE ~generate /\ oktests' = oktests + 1 /\ hpc' = "next"
           /\ UNCHANGED outcome
  BY <1>1, <1>3 DEF Check, PassInv, Orch!Pass, OrchStatus
<1>4. CASE Exit("exit1") /\ UNCHANGED oktests
  BY <1>1, <1>4, AbortStep DEF Check, Exit
<1>5. QED  BY <1>2, <1>3, <1>4 DEF Check

LEMMA StopKillRefines == IInv /\ StopKill => Orch!Abort \/ UNCHANGED AVars
<1> SUFFICES ASSUME IInv, StopKill PROVE Orch!Abort \/ UNCHANGED AVars
  OBVIOUS
<1>1. CASE hpc' = "stopRemove" /\ UNCHANGED outcome
  BY <1>1, InternalStep DEF StopKill
<1>2. CASE Exit("AttributeError") \/ Exit("ValueError")
  BY <1>2, AbortStep DEF StopKill, Exit
<1>3. QED  BY <1>1, <1>2 DEF StopKill

LEMMA StopRemoveRefines == IInv /\ StopRemove => Orch!Abort \/ UNCHANGED AVars
<1> SUFFICES ASSUME IInv, StopRemove PROVE Orch!Abort \/ UNCHANGED AVars
  OBVIOUS
<1>1. CASE hpc' = AfterStop /\ UNCHANGED outcome
  BY <1>1, InternalStep DEF StopRemove, AfterStop
<1>2. CASE Exit("exit1")
  BY <1>2, AbortStep DEF StopRemove, Exit
<1>3. QED  BY <1>1, <1>2 DEF StopRemove

LEMMA SendRefines == Send => Orch!Abort \/ UNCHANGED AVars
<1> SUFFICES ASSUME Send PROVE Orch!Abort \/ UNCHANGED AVars
  OBVIOUS
<1>1. CASE Exit("TypeError")
  BY <1>1, AbortStep DEF Send, Exit
<1>2. CASE UNCHANGED <<hpc, outcome>>
  BY <1>2, InternalStep DEF Send
<1>3. QED  BY <1>1, <1>2 DEF Send

\* The remaining harness actions neither count, nor end the process.
LEMMA QuietStepsRefine ==
  RunTest \/ StopRead \/ StopExists \/ StartPcap \/ StartHoneyd \/ Settle
    \/ StopPcap => UNCHANGED AVars
<1> SUFFICES ASSUME RunTest \/ StopRead \/ StopExists \/ StartPcap
                      \/ StartHoneyd \/ Settle \/ StopPcap
             PROVE  UNCHANGED AVars
  OBVIOUS
<1>1. hpc # "idle" /\ hpc' # "idle"
  BY DEF RunTest, StopRead, StopExists, StartPcap, StartHoneyd, Settle,
         StopPcap, AfterStop
<1>2. UNCHANGED <<runtests, oktests, generate, outcome>>
  BY DEF RunTest, StopRead, StopExists, StartPcap, StartHoneyd, Settle,
         StopPcap
<1>3. QED  BY <1>1, <1>2, InternalStep

-----------------------------------------------------------------------------

LEMMA StepRefines ==
  IInv /\ PassInv /\ [Next]_vars => [Orch!ANext]_AVars
<1> SUFFICES ASSUME IInv, PassInv, [Next]_vars PROVE [Orch!ANext]_AVars
  OBVIOUS
<1>1. CASE Invoke
  BY <1>1, InvokeRefines DEF Orch!ANext
<1>2. CASE Boot
  BY <1>2, BootRefines DEF Orch!ANext
<1>3. CASE Finish
  BY <1>3, FinishRefines DEF Orch!ANext
<1>4. CASE Check
  BY <1>4, CheckRefines DEF Orch!ANext
<1>5. CASE StopKill
  BY <1>5, StopKillRefines DEF Orch!ANext
<1>6. CASE StopRemove
  BY <1>6, StopRemoveRefines DEF Orch!ANext
<1>7. CASE Send
  BY <1>7, SendRefines DEF Orch!ANext
<1>8. CASE RunTest \/ StopRead \/ StopExists \/ StartPcap \/ StartHoneyd
             \/ Settle \/ StopPcap
  BY <1>8, QuietStepsRefine
<1>9. CASE CaptureStep \/ (\E d \in Daemons : DaemonStep(d) \/ DaemonCrash(d))
              \/ Done \/ UNCHANGED vars
  BY <1>9, OutsideHarness, OutsideStep
<1>10. QED
  BY <1>1, <1>2, <1>3, <1>4, <1>5, <1>6, <1>7, <1>8, <1>9
  DEF Next, HarnessStep

\* The harness model implements the orchestrator of spec.md 4.6: from its
\* initial state, every step of regress.run/finish and of the processes
\* around it is a step of the orchestrator or leaves it unchanged, for
\* every number of Tests, packets and invocations.
THEOREM Refinement == Spec => OrchestratorSafety
<1>1. Init => Orch!AInit
  BY DEF Init, Orch!AInit, OrchStatus
<1>2. Init => RInv
  BY InitIInv, InitPassInv DEF RInv
<1>3. RInv /\ [Next]_vars => RInv'
  BY NextIInv, NextPassInv DEF RInv
<1>4. RInv /\ [Next]_vars => [Orch!ANext]_AVars
  BY StepRefines DEF RInv
<1>5. QED
  BY <1>1, <1>2, <1>3, <1>4, PTL DEF Spec, OrchestratorSafety, Orch!ASafeSpec, AVars, Orch!avars

=============================================================================
