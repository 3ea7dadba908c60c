---------------------------- MODULE CaptureProofs ----------------------------
(***************************************************************************)
(* Proofs about the daemon lifecycle across runs and invocations of the    *)
(* script, and about the capture window it leaves: no honeyd but the       *)
(* current Test's is alive while packets are injected, and stop_pcap      *)
(* kills the capture only after that daemon is gone.                       *)
(*                                                                         *)
(* Both hold for either value of StrAccepted, and only when the fixed      *)
(* sleeps of run(), start_honeyd and stop_pcap are long enough             *)
(* (SleepsSuffice).                                                        *)
(***************************************************************************)
EXTENDS RegressProofs

\* The program counters of stop_honeyd after the packets were sent.
PostStop == hpc \in StopPCs /\ stopOf = "post"

\* No honeyd process is alive.
AllGone == \A d \in Daemons : dstate[d] \notin Alive

\* cur names a daemon, and that daemon is in one of the states S.
CurIn(S) == cur \in Daemons /\ dstate[cur] \in S

\* The daemon lifecycle across runs and invocations of the script: no
\* daemon but the last one start_honeyd spawned is ever alive; that one has
\* its pid in the pidfile while it runs or exits, unless stop_honeyd has
\* just removed it; it has booted once the boot sleep is over.  Where
\* run() goes on to spawn a new daemon, and wherever stop_honeyd could go on
\* past a kill (self.fe already set), none is alive; stop_honeyd holds
\* cur's pid once it has read a live one.
DaemonInv ==
  /\ \A d \in Daemons \ {cur} : dstate[d] \notin Alive
  /\ hpc # "stoppcap" /\ CurIn({"running", "exiting"}) => pidfile = cur
  /\ hpc # "boot" => ~CurIn({"starting"})
  /\ hpc \in {"boot", "send", "stoppcap"} \/ PostStop => cur \in Daemons
  /\ hpc \in {"pcap", "spawn", "check"} \/ (hpc = "stopRemove" /\ stopOf = "pre")
       => AllGone
  /\ (hpc = "next" \/ (hpc \in StopPCs /\ stopOf = "pre")) /\ fe # "none"
       => AllGone
  /\ hpc \in {"stopExists", "stopKill"} => stopPid \in Daemons
  /\ hpc \in {"stopExists", "stopKill"} /\ CurIn(Alive) => stopPid = cur
  /\ hpc \in {"boot", "send"} \/ (PostStop /\ hpc # "stopRemove") => fe = "open"
  /\ hpc = "stoppcap" \/ (PostStop /\ hpc = "stopRemove")
       => ~CurIn({"starting", "running"})

USE NTestsAssumption, NPacketsAssumption, MaxInvocationsAssumption
USE DEF harnessVars, captureVars, daemonVars, hostVars

-----------------------------------------------------------------------------
(* The daemon lifecycle *)

\* kill_pid signals one process: it changes only that process's state,
\* from alive to exiting, and no process becomes alive or dies.
LEMMA KillPidFacts ==
  ASSUME NEW ds \in [Daemons -> DaemonStates], NEW d \in Daemons
  PROVE  /\ KillPid(ds, d) \in [Daemons -> DaemonStates]
         /\ \A e \in Daemons : KillPid(ds, d)[e] \in Alive <=> ds[e] \in Alive
         /\ \A e \in Daemons \ {d} : KillPid(ds, d)[e] = ds[e]
         /\ KillPid(ds, d)[d] = IF ds[d] \in Alive THEN "exiting" ELSE ds[d]
BY DEF KillPid, Alive, DaemonStates

\* With every daemon but cur dead, none is alive exactly when cur is not.
LEMMA GoneIffCur ==
  ASSUME IInv, DaemonInv
  PROVE  AllGone <=> ~CurIn(Alive)
BY NoFileAssumption DEF DaemonInv, AllGone, CurIn, IInv, TypeOK, Daemons

LEMMA InitDaemonInv == Init => DaemonInv
BY NoFileAssumption DEF Init, DaemonInv, AllGone, PostStop, CurIn, Daemons, Alive, StopPCs

\* Whatever daemon is alive is the harness's current one.
LEMMA AliveIsCur ==
  ASSUME DaemonInv, NEW d \in Daemons, dstate[d] \in Alive
  PROVE  d = cur /\ cur \in Daemons
BY DEF DaemonInv

\* A daemon dies (it exits or crashes), whatever becomes of the pidfile:
\* it was cur, and with it dead none is alive.
LEMMA DeathStep ==
  ASSUME IInv, DaemonInv, NEW d \in Daemons, dstate[d] \in Alive,
         dstate' = [dstate EXCEPT ![d] = "dead"],
         UNCHANGED <<hpc, stopOf, stopPid, cur, fe>>
  PROVE  DaemonInv'
<1>1. d = cur /\ cur \in Daemons  BY AliveIsCur
<1>2. AllGone'  BY <1>1 DEF DaemonInv, AllGone, IInv, TypeOK, Alive
<1>3. ~CurIn(Alive)'  BY <1>1, <1>2 DEF AllGone, CurIn
<1>4. \A e \in Daemons \ {cur} : dstate'[e] \notin Alive
  BY <1>2 DEF AllGone
<1>5. QED  BY <1>2, <1>3, <1>4 DEF DaemonInv, CurIn, Alive, PostStop

\* Steps of the script around run() that leave the daemons, the pidfile
\* and the pid read by stop_honeyd alone.
LEMMA InvokeDaemon ==
  ASSUME DaemonInv, Invoke
  PROVE  DaemonInv'
<1>1. /\ hpc = "idle" /\ hpc' \in {"idle", "next"}
      /\ hpc' = "next" => fe' = "none"
      /\ UNCHANGED <<stopOf, stopPid, cur, dstate, pidfile>>
  BY DEF Invoke, Exit
<1>2. QED  BY <1>1 DEF DaemonInv, CurIn, PostStop, StopPCs

LEMMA RunTestDaemon ==
  ASSUME DaemonInv, RunTest
  PROVE  DaemonInv'
<1>1. /\ hpc = "next" /\ hpc' = "stopRead" /\ stopOf' = "pre"
      /\ UNCHANGED <<stopPid, cur, fe, dstate, pidfile>>
  BY DEF RunTest
<1>2. QED  BY <1>1 DEF DaemonInv, AllGone, CurIn, PostStop, StopPCs

LEMMA FinishDaemon ==
  ASSUME DaemonInv, Finish
  PROVE  DaemonInv'
<1>1. /\ hpc = "next" /\ hpc' = "idle"
      /\ UNCHANGED <<stopOf, stopPid, cur, fe, dstate, pidfile>>
  BY DEF Finish, Exit
<1>2. QED  BY <1>1 DEF DaemonInv, CurIn, PostStop, StopPCs

LEMMA StartPcapDaemon ==
  ASSUME DaemonInv, StartPcap
  PROVE  DaemonInv'
<1>1. /\ hpc = "pcap" /\ hpc' = "spawn"
      /\ UNCHANGED <<stopOf, stopPid, cur, fe, dstate, pidfile>>
  BY DEF StartPcap
<1>2. QED  BY <1>1 DEF DaemonInv, AllGone, CurIn, PostStop, StopPCs

\* After the comparison no daemon is alive, so the next run()'s
\* stop_honeyd finds none, self.fe set or not.
LEMMA CheckDaemon ==
  ASSUME DaemonInv, Check
  PROVE  DaemonInv'
<1>1. /\ hpc = "check" /\ hpc' \in {"idle", "next"}
      /\ UNCHANGED <<stopOf, stopPid, cur, fe, dstate, pidfile>>
  BY DEF Check, Exit
<1>2. QED  BY <1>1 DEF DaemonInv, AllGone, CurIn, PostStop, StopPCs

\* A live cur is not starting outside start_honeyd's sleep, so it is
\* running or exiting and the pidfile names it.
LEMMA LiveCurPidfile ==
  ASSUME DaemonInv, hpc \notin {"boot", "stoppcap"}, CurIn(Alive)
  PROVE  pidfile = cur
BY DEF DaemonInv, CurIn, Alive

\* stop_honeyd reads the pidfile.  A live daemon is cur, whose pid is
\* there, so without a pidfile find_running_proc finds none alive.
LEMMA StopReadDaemon ==
  ASSUME IInv, DaemonInv, StopRead
  PROVE  DaemonInv'
<1>1. /\ hpc = "stopRead" /\ UNCHANGED <<stopOf, cur, fe, pidfile>>
      /\ stopOf \in {"pre", "post"}
  BY DEF StopRead, IInv, TypeOK
<1>2. CASE pidfile # NoFile
  <2>1. hpc' = "stopExists" /\ stopPid' = pidfile /\ UNCHANGED dstate
    BY <1>2 DEF StopRead
  <2>2. pidfile \in Daemons  BY <1>2 DEF IInv, TypeOK
  <2>3. CurIn(Alive) => stopPid' = cur  BY <1>1, <2>1, LiveCurPidfile
  <2>4. QED  BY <1>1, <2>1, <2>2, <2>3 DEF DaemonInv, AllGone, CurIn, PostStop, StopPCs
<1>3. CASE pidfile = NoFile
  <2>1. ~CurIn(Alive)  BY <1>1, <1>3, LiveCurPidfile, NoFileAssumption DEF CurIn, Daemons
  <2>2. AllGone  BY <2>1, GoneIffCur
  <2>3. UNCHANGED dstate /\ hpc' = AfterStop
    <3>1. PICK d \in FindRunningProc :
            dstate' = IF d = NoFile THEN dstate ELSE KillPid(dstate, d)
      BY <1>3 DEF StopRead
    <3>2. d = NoFile  BY <2>2, <3>1 DEF FindRunningProc, AliveDaemons, AllGone
    <3>3. QED  BY <1>3, <3>1, <3>2 DEF StopRead
  <2>4. hpc' \in {"pcap", "stoppcap"} /\ (hpc' = "stoppcap" <=> stopOf = "post")
    BY <1>1, <2>3 DEF AfterStop
  <2>5. QED
    BY <1>1, <2>1, <2>2, <2>3, <2>4 DEF DaemonInv, AllGone, CurIn, PostStop, StopPCs, Alive
<1>4. QED  BY <1>2, <1>3

\* exists_pid: stop_honeyd goes on to kill_pid only for a live pid; for a
\* dead one, cur is dead too, since a live cur is the pid it read.
LEMMA StopExistsDaemon ==
  ASSUME IInv, DaemonInv, StopExists
  PROVE  DaemonInv'
<1>1. /\ hpc = "stopExists"
      /\ UNCHANGED <<stopOf, stopPid, cur, fe, dstate, pidfile>>
      /\ hpc' = IF dstate[stopPid] \in Alive THEN "stopKill" ELSE "stopRemove"
  BY DEF StopExists
<1>2. CASE dstate[stopPid] \in Alive
  <2>1. hpc' = "stopKill"  BY <1>1, <1>2
  <2>2. QED  BY <1>1, <2>1 DEF DaemonInv, CurIn, PostStop, StopPCs, AllGone, Alive
<1>3. CASE dstate[stopPid] \notin Alive
  <2>1. ~CurIn(Alive)
    <3>1. CurIn(Alive) => stopPid = cur  BY <1>1 DEF DaemonInv
    <3>2. QED  BY <1>3, <3>1 DEF CurIn
  <2>2. AllGone  BY <2>1, GoneIffCur
  <2>3. hpc' = "stopRemove"  BY <1>1, <1>3
  <2>4. QED  BY <1>1, <2>1, <2>2, <2>3 DEF DaemonInv, CurIn, PostStop, StopPCs, Alive, AllGone
<1>4. QED  BY <1>2, <1>3

\* kill_pid, then self.fe.read().  With self.fe set, before a Test's
\* packets nothing was alive to kill; after them the live cur has been
\* signalled.  Without self.fe the exception ends the harness, cur
\* possibly signalled and still exiting, its pid still in the pidfile.
LEMMA StopKillDaemon ==
  ASSUME IInv, DaemonInv, StopKill
  PROVE  DaemonInv'
<1>1. /\ hpc = "stopKill" /\ UNCHANGED <<stopOf, stopPid, cur, pidfile>>
      /\ dstate' = KillPid(dstate, stopPid)
      /\ stopOf \in {"pre", "post"} /\ stopPid \in Daemons
      /\ dstate \in [Daemons -> DaemonStates]
  BY DEF StopKill, IInv, TypeOK, DaemonInv
<1>2. /\ \A e \in Daemons : dstate'[e] \in Alive <=> dstate[e] \in Alive
      /\ \A e \in Daemons \ {stopPid} : dstate'[e] = dstate[e]
      /\ dstate'[stopPid] = IF dstate[stopPid] \in Alive THEN "exiting" ELSE dstate[stopPid]
  BY <1>1, KillPidFacts
<1>3. ~CurIn({"starting"}) /\ (CurIn(Alive) => stopPid = cur)
  BY <1>1 DEF DaemonInv
<1>4. /\ \A e \in Daemons \ {cur} : dstate'[e] \notin Alive
      /\ ~CurIn({"starting"})'
      /\ CurIn({"running", "exiting"})' => pidfile' = cur'
      /\ CurIn(Alive)' = CurIn(Alive)
  <2>1. CurIn({"running", "exiting"})' => CurIn(Alive)  BY <1>1, <1>2 DEF CurIn, Alive
  <2>2. CurIn(Alive) => pidfile = cur  BY <1>1, LiveCurPidfile
  <2>3. QED  BY <1>1, <1>2, <1>3, <2>1, <2>2 DEF DaemonInv, CurIn, Alive
<1>5. CASE fe = "open"
  <2>1. hpc' = "stopRemove"  BY <1>5 DEF StopKill, Exit
  <2>2. stopOf = "pre" => AllGone'
    <3>1. stopOf = "pre" => AllGone  BY <1>1, <1>5 DEF DaemonInv, StopPCs
    <3>2. QED  BY <3>1, <1>2 DEF AllGone
  <2>3. stopOf = "post" => ~CurIn({"starting", "running"})'
    BY <1>1, <1>2, <1>3 DEF CurIn, Alive
  <2>4. QED  BY <1>1, <1>4, <2>1, <2>2, <2>3 DEF DaemonInv, PostStop, StopPCs
<1>6. CASE fe # "open"
  <2>1. hpc' = "idle"  BY <1>6, <1>1 DEF StopKill, Exit, IInv, TypeOK
  <2>2. QED  BY <1>1, <1>4, <2>1 DEF DaemonInv, PostStop, StopPCs
<1>7. QED  BY <1>5, <1>6

\* os.remove(self.pidfile).  A missing pidfile ends the harness, which
\* happens only with cur dead or starting, since a running or exiting cur
\* has its pid there.
LEMMA StopRemoveDaemon ==
  ASSUME IInv, DaemonInv, StopRemove
  PROVE  DaemonInv'
<1>1. /\ hpc = "stopRemove" /\ UNCHANGED <<stopOf, stopPid, cur, fe, dstate>>
      /\ stopOf \in {"pre", "post"}
  BY DEF StopRemove, IInv, TypeOK
<1>2. CASE pidfile # NoFile
  <2>1. hpc' = AfterStop /\ pidfile' = NoFile  BY <1>2 DEF StopRemove
  <2>2. CASE stopOf = "pre"
    <3>1. AllGone  BY <1>1, <2>2 DEF DaemonInv
    <3>2. hpc' = "pcap"  BY <2>1, <2>2 DEF AfterStop
    <3>3. QED  BY <1>1, <2>2, <3>1, <3>2 DEF DaemonInv, AllGone, CurIn, PostStop, StopPCs, Alive
  <2>3. CASE stopOf = "post"
    <3>1. hpc' = "stoppcap"  BY <2>1, <2>3 DEF AfterStop
    <3>2. ~CurIn({"starting", "running"}) /\ cur \in Daemons
      BY <1>1, <2>3 DEF DaemonInv, PostStop, StopPCs
    <3>3. QED  BY <1>1, <2>3, <3>1, <3>2 DEF DaemonInv, CurIn, PostStop, StopPCs
  <2>4. QED  BY <1>1, <2>2, <2>3
<1>3. CASE pidfile = NoFile
  <2>1. hpc' = "idle" /\ pidfile' = NoFile  BY <1>3 DEF StopRemove, Exit
  <2>2. ~CurIn({"running", "exiting"})
    BY <1>1, <1>3, NoFileAssumption DEF DaemonInv, CurIn, Daemons
  <2>3. QED  BY <1>1, <2>1, <2>2 DEF DaemonInv, CurIn, PostStop, StopPCs
<1>4. QED  BY <1>2, <1>3

\* start_honeyd spawns a fresh daemon into a harness where none is alive.
LEMMA StartHoneydDaemon ==
  ASSUME IInv, DaemonInv, StartHoneyd
  PROVE  DaemonInv'
<1>1. nextd + 1 \in Daemons
  BY MaxDaemonsNat DEF IInv, TypeOK, StartHoneyd, Daemons
<1>2. AllGone  BY DEF StartHoneyd, DaemonInv
<1>3. /\ hpc = "spawn" /\ hpc' = "boot" /\ cur' = nextd + 1 /\ fe' = "open"
      /\ dstate' = [dstate EXCEPT ![nextd + 1] = "starting"]
      /\ UNCHANGED <<stopOf, stopPid, pidfile>>
  BY DEF StartHoneyd
<1>4. /\ dstate'[cur'] = "starting"
      /\ \A d \in Daemons \ {cur'} : dstate'[d] \notin Alive
  BY <1>1, <1>2, <1>3 DEF AllGone, IInv, TypeOK
<1>5. QED  BY <1>1, <1>3, <1>4 DEF DaemonInv, CurIn, PostStop, StopPCs

\* The sleep at the end of start_honeyd outlasts the daemon's start-up.
LEMMA BootDaemon ==
  ASSUME SleepsSuffice, DaemonInv, Boot
  PROVE  DaemonInv'
<1>1. hpc = "boot" /\ hpc' = "send" /\ dstate[cur] # "starting"
  BY DEF Boot, AfterSleep
<1>2. UNCHANGED <<stopOf, stopPid, cur, fe, dstate, pidfile>>
  BY DEF Boot
<1>3. QED  BY <1>1, <1>2 DEF DaemonInv, CurIn, PostStop, StopPCs

\* A packet goes out, or (str refused) the TypeError ends the harness
\* with the daemon left running.
LEMMA SendDaemon ==
  ASSUME DaemonInv, Send
  PROVE  DaemonInv'
<1>1. /\ hpc = "send" /\ hpc' \in {"send", "idle"}
      /\ UNCHANGED <<stopOf, stopPid, cur, fe, dstate, pidfile>>
  BY DEF Send, Exit
<1>2. QED  BY <1>1 DEF DaemonInv, CurIn, PostStop, StopPCs

LEMMA SettleDaemon ==
  ASSUME DaemonInv, Settle
  PROVE  DaemonInv'
<1>1. /\ hpc = "send" /\ hpc' = "stopRead" /\ stopOf' = "post"
      /\ UNCHANGED <<stopPid, cur, fe, dstate, pidfile>>
  BY DEF Settle
<1>2. QED  BY <1>1 DEF DaemonInv, CurIn, PostStop, StopPCs

\* stop_pcap's sleep outlasts the signalled daemon's exit.
LEMMA StopPcapDaemon ==
  ASSUME SleepsSuffice, IInv, DaemonInv, StopPcap
  PROVE  DaemonInv'
<1>1. /\ hpc = "stoppcap" /\ hpc' = "check"
      /\ \A d \in Daemons : dstate[d] # "exiting"
      /\ UNCHANGED <<stopOf, stopPid, cur, fe, dstate, pidfile>>
  BY DEF StopPcap, AfterSleep
<1>2. ~CurIn(Alive)  BY <1>1 DEF DaemonInv, CurIn, Alive
<1>3. AllGone  BY <1>2, GoneIffCur
<1>4. QED  BY <1>1, <1>2, <1>3 DEF DaemonInv, AllGone, CurIn, PostStop, StopPCs, Alive

LEMMA CaptureDaemon ==
  ASSUME DaemonInv, CaptureOpen \/ CaptureRecord
  PROVE  DaemonInv'
<1>1. UNCHANGED <<hpc, stopOf, stopPid, cur, fe, dstate, pidfile>>
  BY DEF CaptureOpen, CaptureRecord
<1>2. QED  BY <1>1 DEF DaemonInv, AllGone, CurIn, PostStop

\* A booting daemon writes its own pid to the pidfile; only cur, during
\* start_honeyd's sleep, can be starting.
LEMMA DaemonBootDaemon ==
  ASSUME IInv, DaemonInv, NEW d \in Daemons, DaemonBoot(d)
  PROVE  DaemonInv'
<1>1. /\ dstate[d] = "starting"
      /\ dstate' = [dstate EXCEPT ![d] = "running"] /\ pidfile' = d
      /\ UNCHANGED <<hpc, stopOf, stopPid, cur, fe>>
  BY DEF DaemonBoot
<1>2. d = cur /\ cur \in Daemons  BY <1>1, AliveIsCur DEF Alive
<1>3. hpc = "boot"  BY <1>1, <1>2 DEF DaemonInv, CurIn
<1>4. /\ dstate'[cur] = "running"
      /\ \A e \in Daemons \ {cur} : dstate'[e] = dstate[e]
  BY <1>1, <1>2 DEF IInv, TypeOK
<1>5. QED  BY <1>1, <1>2, <1>3, <1>4 DEF DaemonInv, CurIn, PostStop, StopPCs, Alive

LEMMA DaemonReplyDaemon ==
  ASSUME DaemonInv, NEW d \in Daemons, DaemonReply(d)
  PROVE  DaemonInv'
<1>1. UNCHANGED <<hpc, stopOf, stopPid, cur, fe, dstate, pidfile>>
  BY DEF DaemonReply
<1>2. QED  BY <1>1 DEF DaemonInv, AllGone, CurIn, PostStop

LEMMA StutterDaemon == DaemonInv /\ (Done \/ UNCHANGED vars) => DaemonInv'
BY DEF Done, vars, DaemonInv, AllGone, CurIn, PostStop

LEMMA NextDaemonInv ==
  ASSUME SleepsSuffice, IInv, DaemonInv, [Next]_vars
  PROVE  DaemonInv'
<1>1. CASE Invoke  BY <1>1, InvokeDaemon
<1>2. CASE RunTest  BY <1>2, RunTestDaemon
<1>3. CASE Finish  BY <1>3, FinishDaemon
<1>4. CASE StopRead  BY <1>4, StopReadDaemon
<1>5. CASE StopExists  BY <1>5, StopExistsDaemon
<1>6. CASE StopKill  BY <1>6, StopKillDaemon
<1>7. CASE StopRemove  BY <1>7, StopRemoveDaemon
<1>8. CASE StartPcap  BY <1>8, StartPcapDaemon
<1>9. CASE StartHoneyd  BY <1>9, StartHoneydDaemon
<1>10. CASE Boot  BY <1>10, BootDaemon
<1>11. CASE Send  BY <1>11, SendDaemon
<1>12. CASE Settle  BY <1>12, SettleDaemon
<1>13. CASE StopPcap  BY <1>13, StopPcapDaemon
<1>14. CASE Check  BY <1>14, CheckDaemon
<1>15. CASE CaptureOpen \/ CaptureRecord  BY <1>15, CaptureDaemon
<1>16. ASSUME NEW d \in Daemons, DaemonExit(d) \/ DaemonCrash(d)
       PROVE  DaemonInv'
  <2>1. /\ dstate[d] \in Alive
        /\ dstate' = [dstate EXCEPT ![d] = "dead"]
        /\ UNCHANGED <<hpc, stopOf, stopPid, cur, fe>>
    BY <1>16 DEF DaemonExit, DaemonCrash, Alive
  <2>2. QED  BY <2>1, DeathStep
<1>17. CASE \E d \in Daemons : DaemonStep(d) \/ DaemonCrash(d)
  BY <1>17, <1>16, DaemonBootDaemon, DaemonReplyDaemon DEF DaemonStep
<1>18. CASE Done \/ UNCHANGED vars  BY <1>18, StutterDaemon
<1>19. QED
  BY <1>1, <1>2, <1>3, <1>4, <1>5, <1>6, <1>7, <1>8, <1>9, <1>10, <1>11,
     <1>12, <1>13, <1>14, <1>15, <1>17, <1>18 DEF Next, HarnessStep, CaptureStep

\* One daemon at a time (spec 3, 8): while run() injects a Test's packets,
\* no honeyd is alive but the one its start_honeyd spawned, whether or not
\* an earlier run of the script died with its daemon still running.
THEOREM SingleDaemon ==
  ASSUME SleepsSuffice
  PROVE  Spec => []SingleDaemonAtInjection
<1>1. Init => IInv /\ DaemonInv
  BY InitIInv, InitDaemonInv
<1>2. IInv /\ DaemonInv /\ [Next]_vars => (IInv /\ DaemonInv)'
  BY NextIInv, NextDaemonInv
<1>3. DaemonInv => SingleDaemonAtInjection
  BY DEF DaemonInv, SingleDaemonAtInjection, AliveDaemons
<1>4. QED  BY <1>1, <1>2, <1>3, PTL DEF Spec

\* stop_pcap outlives the daemon (spec 4.3): the step from stop_pcap to
\* the comparison is StopPcap, whose first sleep has let the daemon that
\* stop_honeyd signalled exit, so no answer of it can still be on its way
\* when the capture child is killed.
LEMMA StopPcapStep ==
  ASSUME SleepsSuffice, DaemonInv, [Next]_vars
  PROVE  (hpc = "stoppcap" /\ hpc' = "check") => dstate[cur] \notin Alive
<1> SUFFICES ASSUME hpc = "stoppcap", hpc' = "check"
             PROVE  dstate[cur] \notin Alive
  OBVIOUS
<1>1. StopPcap
  BY DEF Next, HarnessStep, CaptureStep, DaemonStep, Invoke, RunTest, Finish,
         StopRead, StopExists, StopKill, StopRemove, StartPcap, StartHoneyd,
         Boot, Send, Settle, Check, CaptureOpen, CaptureRecord, DaemonBoot,
         DaemonReply, DaemonExit, DaemonCrash, Done, vars, harnessVars
<1>2. /\ cur \in Daemons
      /\ dstate[cur] \notin {"starting", "running"}
      /\ dstate[cur] # "exiting"
  BY <1>1 DEF StopPcap, AfterSleep, DaemonInv, CurIn
<1>3. QED  BY <1>2 DEF Alive

\* The capture child is killed only after the Test's honeyd is gone, in
\* every run of the script.
THEOREM CaptureOutlivesHoneyd ==
  ASSUME SleepsSuffice
  PROVE  Spec => CaptureOutlivesDaemon
<1>1. Init => IInv /\ DaemonInv
  BY InitIInv, InitDaemonInv
<1>2. IInv /\ DaemonInv /\ [Next]_vars => (IInv /\ DaemonInv)'
  BY NextIInv, NextDaemonInv
<1>3. IInv /\ DaemonInv /\ [Next]_vars
        => [(hpc = "stoppcap" /\ hpc' = "check") => dstate[cur] \notin Alive]_vars
  BY StopPcapStep
<1>4. QED  BY <1>1, <1>2, <1>3, PTL DEF Spec, CaptureOutlivesDaemon

=============================================================================
