------------------------- MODULE ComponentRefinement -------------------------
(***************************************************************************)
(* regress.py implements the supervisor of spec.md 4.1 (Supervisor, under  *)
(* the mapping Sup of Regress) when its fixed sleeps are long enough.      *)
(***************************************************************************)
EXTENDS CaptureProofs

USE NTestsAssumption, NPacketsAssumption, MaxInvocationsAssumption
USE DEF harnessVars, captureVars, daemonVars, hostVars

\* The daemons that have been signalled and have not exited yet.
Exiting == {d \in Daemons : dstate[d] = "exiting"}

\* A step that leaves every daemon alone is a supervisor stutter.
LEMMA DaemonsAlone ==
  ASSUME UNCHANGED dstate
  PROVE  [Sup!SNext]_Sup!svars
BY DEF Sup!svars, AliveDaemons

\* kill_pid(d) is a Signal of a live daemon not yet signalled, and a
\* stutter for an exiting or dead one.
LEMMA KillPidRefines ==
  ASSUME NEW d \in Daemons, dstate \in [Daemons -> DaemonStates],
         dstate' = KillPid(dstate, d)
  PROVE  [Sup!SNext]_Sup!svars
<1>1. CASE dstate[d] \in {"starting", "running"}
  <2>1. dstate' = [dstate EXCEPT ![d] = "exiting"]  BY <1>1 DEF KillPid, Alive
  <2>2. /\ d \in AliveDaemons \ Exiting
        /\ AliveDaemons' = AliveDaemons
        /\ Exiting' = Exiting \cup {d}
    BY <1>1, <2>1 DEF AliveDaemons, Exiting, Alive
  <2>3. Sup!Signal(d)  BY <2>2 DEF Sup!Signal, Exiting
  <2>4. QED  BY <2>3 DEF Sup!SNext
<1>2. CASE dstate[d] \notin {"starting", "running"}
  <2>1. dstate' = dstate  BY <1>2 DEF KillPid, Alive
  <2>2. QED  BY <2>1, DaemonsAlone
<1>3. QED  BY <1>1, <1>2

\* start_honeyd spawns the next daemon while none is alive: a Start.
LEMMA StartHoneydRefines ==
  ASSUME IInv, DaemonInv, StartHoneyd
  PROVE  Sup!Start(nextd + 1)
<1>1. nextd + 1 \in Daemons
  BY MaxDaemonsNat DEF IInv, TypeOK, StartHoneyd, Daemons
<1>2. AllGone  BY DEF StartHoneyd, DaemonInv
<1>3. dstate' = [dstate EXCEPT ![nextd + 1] = "starting"]  BY DEF StartHoneyd
<1>4. AliveDaemons = {}  BY <1>2 DEF AllGone, AliveDaemons
<1>5. AliveDaemons' = {nextd + 1}
  BY <1>1, <1>2, <1>3 DEF AllGone, AliveDaemons, Alive, IInv, TypeOK
<1>6. Exiting' = Exiting
  BY <1>1, <1>2, <1>3 DEF AllGone, Exiting, Alive, IInv, TypeOK
<1>7. QED  BY <1>4, <1>5, <1>6 DEF Sup!Start, Exiting

\* A daemon that boots stays alive and unsignalled.
LEMMA DaemonBootRefines ==
  ASSUME IInv, NEW d \in Daemons, DaemonBoot(d)
  PROVE  UNCHANGED <<AliveDaemons, Exiting>>
BY DEF DaemonBoot, AliveDaemons, Exiting, Alive, IInv, TypeOK

\* A signalled daemon exits: a Quit.
LEMMA DaemonExitRefines ==
  ASSUME IInv, NEW d \in Daemons, DaemonExit(d)
  PROVE  Sup!Quit(d)
<1>1. dstate[d] = "exiting" /\ dstate' = [dstate EXCEPT ![d] = "dead"]
  BY DEF DaemonExit
<1>2. /\ d \in Exiting
      /\ AliveDaemons' = AliveDaemons \ {d}
      /\ Exiting' = Exiting \ {d}
  BY <1>1 DEF AliveDaemons, Exiting, Alive, IInv, TypeOK
<1>3. QED  BY <1>2 DEF Sup!Quit, Exiting

\* A daemon that dies on its own had not been signalled: a Die.
LEMMA DaemonCrashRefines ==
  ASSUME IInv, NEW d \in Daemons, DaemonCrash(d)
  PROVE  Sup!Die(d)
<1>1. dstate[d] \in {"starting", "running"}
      /\ dstate' = [dstate EXCEPT ![d] = "dead"]
  BY DEF DaemonCrash
<1>2. /\ d \in AliveDaemons \ Exiting
      /\ AliveDaemons' = AliveDaemons \ {d}
      /\ Exiting' = Exiting
  BY <1>1 DEF AliveDaemons, Exiting, Alive, IInv, TypeOK
<1>3. QED  BY <1>2 DEF Sup!Die, Exiting

LEMMA NextSupervisor ==
  ASSUME IInv, DaemonInv, [Next]_vars
  PROVE  [Sup!SNext]_Sup!svars
<1>1. CASE StartHoneyd
  <2>1. nextd + 1 \in Daemons
    BY <1>1, MaxDaemonsNat DEF IInv, TypeOK, StartHoneyd, Daemons
  <2>2. QED  BY <1>1, <2>1, StartHoneydRefines DEF Sup!SNext
<1>2. CASE StopRead
  <2>1. CASE pidfile # NoFile  BY <1>2, <2>1, DaemonsAlone DEF StopRead
  <2>2. CASE pidfile = NoFile
    <3>1. PICK d \in FindRunningProc :
            dstate' = IF d = NoFile THEN dstate ELSE KillPid(dstate, d)
      BY <1>2, <2>2 DEF StopRead
    <3>2. CASE d = NoFile  BY <3>1, <3>2, DaemonsAlone
    <3>3. CASE d # NoFile
      BY <3>1, <3>3, KillPidRefines DEF FindRunningProc, AliveDaemons, IInv, TypeOK
    <3>4. QED  BY <3>2, <3>3
  <2>3. QED  BY <2>1, <2>2
<1>3. CASE StopKill
  <2>1. stopPid \in Daemons  BY <1>3 DEF StopKill, DaemonInv
  <2>2. QED  BY <1>3, <2>1, KillPidRefines DEF StopKill, IInv, TypeOK
<1>4. ASSUME NEW d \in Daemons, DaemonStep(d) \/ DaemonCrash(d)
      PROVE  [Sup!SNext]_Sup!svars
  <2>1. CASE DaemonBoot(d)
    BY <2>1, DaemonBootRefines DEF Sup!svars, Exiting
  <2>2. CASE DaemonReply(d)  BY <2>2, DaemonsAlone DEF DaemonReply
  <2>3. CASE DaemonExit(d)  BY <2>3, DaemonExitRefines DEF Sup!SNext
  <2>4. CASE DaemonCrash(d)  BY <2>4, DaemonCrashRefines DEF Sup!SNext
  <2>5. QED  BY <1>4, <2>1, <2>2, <2>3, <2>4 DEF DaemonStep
<1>5. CASE \/ Invoke \/ RunTest \/ Finish \/ StopExists \/ StopRemove
           \/ StartPcap \/ Boot \/ Send \/ Settle \/ StopPcap \/ Check
           \/ CaptureOpen \/ CaptureRecord \/ Done \/ UNCHANGED vars
  <2>1. UNCHANGED dstate
    BY <1>5 DEF Invoke, RunTest, Finish, StopExists, StopRemove, StartPcap,
                Boot, Send, Settle, StopPcap, Check, CaptureOpen,
                CaptureRecord, Done, vars
  <2>2. QED  BY <2>1, DaemonsAlone
<1>6. QED
  BY <1>1, <1>2, <1>3, <1>4, <1>5 DEF Next, HarnessStep, CaptureStep

\* start_honeyd, stop_honeyd and the daemons implement the supervisor of
\* spec.md 4.1 whenever the sleeps suffice: a daemon is spawned only when
\* none is alive, kill_pid only signals, and only a signalled daemon exits.
THEOREM SupervisorRefinement ==
  ASSUME SleepsSuffice
  PROVE  Spec => SupervisorSafety
<1>1. Init => Sup!SInit
  BY DEF Init, Sup!SInit, AliveDaemons, Exiting, Alive
<1>2. Init => IInv /\ DaemonInv
  BY InitIInv, InitDaemonInv
<1>3. IInv /\ DaemonInv /\ [Next]_vars => (IInv /\ DaemonInv)'
  BY NextIInv, NextDaemonInv
<1>4. IInv /\ DaemonInv /\ [Next]_vars => [Sup!SNext]_Sup!svars
  BY NextSupervisor
<1>5. QED  BY <1>1, <1>2, <1>3, <1>4, PTL DEF Spec, SupervisorSafety, Sup!SSpec

=============================================================================
