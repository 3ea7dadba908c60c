--------------------------- MODULE RegressProofs ---------------------------
(***************************************************************************)
(* Proofs about the regression harness model (Regress).                    *)
(*                                                                         *)
(* TypeOK is not inductive by itself: Boot adds 1 to runtests and Check    *)
(* adds 1 to oktests and to test, and the bounds runtests <= NTests and    *)
(* oktests <= runtests only survive those steps because of how the three   *)
(* counters move together through one run().  Counters states that         *)
(* relation per program counter.                                           *)
(***************************************************************************)
EXTENDS Regress, SequenceTheorems, TLAPS

\* stop_honeyd's program counters, reached from run() before and after the
\* packets are sent.
StopPCs == {"stopRead", "stopExists", "stopKill", "stopRemove"}
\* The program counters of run() before the test is counted ...
BeforeCount ==
  {"pcap", "spawn", "boot"}
\* ... and after it (runtests += 1 follows start_honeyd's sleep).
AfterCount ==
  {"send", "stoppcap", "check"}

\* In a run of the harness, test is the Test being run (or the one after
\* the last), runtests counts the Tests started and oktests the ones passed.
Counters ==
  /\ hpc \in BeforeCount \cup AfterCount \cup StopPCs => test <= NTests
  /\ hpc # "idle" => oktests < test
  /\ (hpc = "next" \/ hpc \in BeforeCount \/ (hpc \in StopPCs /\ stopOf = "pre"))
       => runtests = test - 1
  /\ (hpc \in AfterCount \/ (hpc \in StopPCs /\ stopOf = "post"))
       => runtests = test

IInv == TypeOK /\ Counters

\* The golden trace of a healthy run is a sequence of whole trace records.
LEMMA HealthyTraceRecords == HealthyTrace \in Seq(Records)
<1>1. \A i \in 1..(2 * NPackets) :
        IF i % 2 = 1 THEN Probe((i + 1) \div 2) \in Records
                     ELSE Reply(i \div 2) \in Records
  <2> SUFFICES ASSUME NEW i \in 1..(2 * NPackets) PROVE
        IF i % 2 = 1 THEN Probe((i + 1) \div 2) \in Records
                     ELSE Reply(i \div 2) \in Records
    OBVIOUS
  <2>1. CASE i % 2 = 1
    <3>1. (i + 1) \div 2 \in Packets
      BY <2>1, NPacketsAssumption DEF Packets
    <3>2. QED  BY <2>1, <3>1 DEF Records
  <2>2. CASE i % 2 # 1
    <3>1. i \div 2 \in Packets
      BY <2>2, NPacketsAssumption DEF Packets
    <3>2. QED  BY <2>2, <3>1 DEF Records
  <2>3. QED  BY <2>1, <2>2
<1>2. HealthyTrace \in [1..(2 * NPackets) -> Records]
  BY <1>1 DEF HealthyTrace
<1>3. 2 * NPackets \in Nat
  BY NPacketsAssumption
<1>4. QED  BY <1>2, <1>3, SeqDef

THEOREM InitIInv == Init => IInv
<1> SUFFICES ASSUME Init PROVE IInv
  OBVIOUS
<1>1. fixture \in [Tests -> Seq(Records) \cup {NoFile}]
  BY HealthyTraceRecords DEF Init
<1>2. <<>> \in Seq(Records)
  BY EmptySeq
<1>3. dstate \in [Daemons -> DaemonStates] /\ pending \in [Daemons -> SUBSET Packets]
  BY DEF Init, DaemonStates
<1>4. 0 \in 0..MaxDaemons /\ 1 \in 1..(NTests + 1) /\ 0 \in 0..NPackets
      /\ 0 \in 0..MaxInvocations
  BY NTestsAssumption, MaxInvocationsAssumption, NPacketsAssumption
  DEF MaxDaemons
<1>5. TypeOK
  <2>1. /\ hpc \in HarnessPCs /\ outcome \in Outcomes /\ cap \in CaptureStates
        /\ stopOf \in {"pre", "post"} /\ fe \in {"none", "open", "closed"}
        /\ generate \in BOOLEAN /\ routes \subseteq Nets
    BY DEF Init, HarnessPCs, Outcomes, CaptureStates
  <2>2. /\ stopPid \in Daemons \cup {NoFile} /\ cur \in Daemons \cup {NoFile}
        /\ pidfile \in Daemons \cup {NoFile}
    BY DEF Init
  <2>3. /\ test \in 1..(NTests + 1) /\ sent \in 0..NPackets
        /\ runtests \in 0..NTests /\ oktests \in 0..runtests
        /\ invocations \in 0..MaxInvocations /\ nextd \in 0..MaxDaemons
    BY <1>4, NTestsAssumption DEF Init
  <2>4. /\ inbuf \in Seq(Records) /\ trace \in Seq(Records)
        /\ wire \in Seq(Records)
    BY <1>2 DEF Init
  <2>5. QED
    BY <1>1, <1>3, <2>1, <2>2, <2>3, <2>4 DEF TypeOK
<1>6. Counters
  BY DEF Init, Counters, BeforeCount, AfterCount, StopPCs
<1>7. QED
  BY <1>5, <1>6 DEF IInv

\* A packet on the loopback keeps the wire history and the capture queue
\* sequences of trace records.
LEMMA OnWireType ==
  ASSUME TypeOK, NEW r \in Records, OnWire(r)
  PROVE  wire' \in Seq(Records) /\ inbuf' \in Seq(Records)
BY AppendProperties DEF TypeOK, OnWire

\* VerifyRoute only ever installs the two reserved networks.
LEMMA VerifyRouteType ==
  ASSUME NEW r \in SUBSET Nets, NEW fails
  PROVE  VerifyRoute(r, fails) \subseteq Nets
BY DEF VerifyRoute, AddRoute, Nets

LEMMA MaxDaemonsNat == MaxDaemons \in Nat
BY NTestsAssumption, MaxInvocationsAssumption DEF MaxDaemons

-----------------------------------------------------------------------------
(* One step per action of Next. *)

USE NTestsAssumption, NPacketsAssumption, MaxInvocationsAssumption
USE DEF harnessVars, captureVars, daemonVars, hostVars

LEMMA InvokeIInv == IInv /\ Invoke => IInv'
<1> SUFFICES ASSUME IInv, Invoke PROVE IInv'
  OBVIOUS
<1>1. CASE Exit("exit1")
        /\ UNCHANGED <<routes, generate, test, runtests, oktests, fe>>
  BY <1>1 DEF IInv, TypeOK, Counters, Invoke, Exit, HarnessPCs, Outcomes,
              BeforeCount, AfterCount, StopPCs
<1>2. CASE /\ \E fails \in SUBSET Nets : routes' = VerifyRoute(routes, fails)
           /\ \E g \in BOOLEAN : generate' = g
           /\ hpc' = "next"
           /\ outcome' = "running"
           /\ test' = 1
           /\ runtests' = 0
           /\ oktests' = 0
           /\ fe' = "none"
  <2>1. routes' \subseteq Nets
    BY <1>2, VerifyRouteType DEF IInv, TypeOK
  <2>2. QED
    BY <1>2, <2>1 DEF IInv, TypeOK, Counters, Invoke, HarnessPCs, Outcomes,
                      BeforeCount, AfterCount, StopPCs
<1>3. QED  BY <1>1, <1>2 DEF Invoke

LEMMA RunTestIInv == IInv /\ RunTest => IInv'
BY DEF IInv, TypeOK, Counters, RunTest, HarnessPCs, BeforeCount,
       AfterCount, StopPCs

LEMMA FinishIInv == IInv /\ Finish => IInv'
BY DEF IInv, TypeOK, Counters, Finish, Exit, RemoveAllRoutes, HarnessPCs,
       Outcomes, BeforeCount, AfterCount, StopPCs

LEMMA StopReadIInv == IInv /\ StopRead => IInv'
BY DEF IInv, TypeOK, Counters, StopRead, AfterStop, AliveDaemons,
       FindRunningProc, KillPid,
       HarnessPCs, DaemonStates, Alive, BeforeCount, AfterCount, StopPCs

LEMMA StopExistsIInv == IInv /\ StopExists => IInv'
BY DEF IInv, TypeOK, Counters, StopExists, HarnessPCs, BeforeCount,
       AfterCount, StopPCs

LEMMA StopKillIInv == IInv /\ StopKill => IInv'
BY DEF IInv, TypeOK, Counters, StopKill, Exit, KillPid, HarnessPCs, Outcomes,
       DaemonStates, Alive, BeforeCount, AfterCount, StopPCs

LEMMA StopRemoveIInv == IInv /\ StopRemove => IInv'
BY DEF IInv, TypeOK, Counters, StopRemove, Exit, AfterStop, HarnessPCs,
       Outcomes, BeforeCount, AfterCount, StopPCs

LEMMA StartPcapIInv == IInv /\ StartPcap => IInv'
BY EmptySeq DEF IInv, TypeOK, Counters, StartPcap, HarnessPCs,
   CaptureStates, BeforeCount, AfterCount, StopPCs

LEMMA StartHoneydIInv == IInv /\ StartHoneyd => IInv'
<1> SUFFICES ASSUME IInv, StartHoneyd PROVE IInv'
  OBVIOUS
<1>1. nextd + 1 \in Daemons /\ nextd' \in 0..MaxDaemons
  BY MaxDaemonsNat DEF IInv, TypeOK, StartHoneyd, Daemons
<1>2. dstate' \in [Daemons -> DaemonStates]
  BY <1>1 DEF IInv, TypeOK, StartHoneyd, DaemonStates, Alive
<1>3. QED
  BY <1>1, <1>2 DEF IInv, TypeOK, Counters, StartHoneyd, HarnessPCs,
                    BeforeCount, AfterCount, StopPCs

LEMMA BootIInv == IInv /\ Boot => IInv'
BY DEF IInv, TypeOK, Counters, Boot, HarnessPCs, BeforeCount, AfterCount,
       StopPCs

LEMMA SettleIInv == IInv /\ Settle => IInv'
BY DEF IInv, TypeOK, Counters, Settle, HarnessPCs, BeforeCount, AfterCount,
       StopPCs

LEMMA StopPcapIInv == IInv /\ StopPcap => IInv'
BY EmptySeq DEF IInv, TypeOK, Counters, StopPcap, HarnessPCs, CaptureStates,
                BeforeCount, AfterCount, StopPCs

LEMMA SendIInv == IInv /\ Send => IInv'
<1> SUFFICES ASSUME IInv, Send PROVE IInv'
  OBVIOUS
<1>1. CASE ~StrAccepted /\ Exit("TypeError")
           /\ UNCHANGED <<sent, wire, inbuf, pending>>
  BY <1>1 DEF IInv, TypeOK, Counters, Send, Exit, HarnessPCs, Outcomes,
              BeforeCount, AfterCount, StopPCs
<1>2. CASE StrAccepted /\ sent' = sent + 1 /\ UNCHANGED <<hpc, outcome>>
  <2>0. sent \in 0..NPackets /\ sent < NPackets
    BY DEF IInv, TypeOK, Send
  <2>1. sent + 1 \in Packets /\ Probe(sent + 1) \in Records
    BY <2>0 DEF Packets, Records
  <2>2. /\ wire' \in Seq(Records) /\ inbuf' \in Seq(Records)
        /\ pending' \in [Daemons -> SUBSET Packets]
    <3>1. CASE "BenchNet" \in routes
      <4>1. OnWire(Probe(sent + 1))
            /\ pending' = [d \in Daemons |->
                             IF dstate[d] = "running"
                               THEN pending[d] \cup {sent + 1}
                               ELSE pending[d]]
        BY <1>2, <3>1 DEF Send
      <4>2. QED  BY <2>1, <4>1, OnWireType DEF IInv, TypeOK
    <3>2. CASE "BenchNet" \notin routes
      BY <3>2 DEF Send, IInv, TypeOK
    <3>3. QED  BY <3>1, <3>2
  <2>3. QED
    BY <1>2, <2>2 DEF IInv, TypeOK, Counters, Send, BeforeCount, AfterCount,
                      StopPCs
<1>3. QED  BY <1>1, <1>2 DEF Send

LEMMA CheckIInv == IInv /\ Check => IInv'
<1> SUFFICES ASSUME IInv, Check PROVE IInv'
  OBVIOUS
<1>1. hpc = "check" /\ test \in Tests /\ runtests = test /\ oktests < test
  BY DEF IInv, TypeOK, Counters, Check, AfterCount, Tests
<1>2. fixture' \in [Tests -> Seq(Records) \cup {NoFile}]
  BY <1>1 DEF IInv, TypeOK, Check
<1>3. CASE generate /\ fixture' = [fixture EXCEPT ![test] = trace]
                   /\ test' = test + 1 /\ hpc' = "next"
                   /\ UNCHANGED <<oktests, outcome>>
  BY <1>1, <1>2, <1>3 DEF IInv, TypeOK, Counters, Check, HarnessPCs,
                          BeforeCount, AfterCount, StopPCs
<1>4. CASE ~generate /\ oktests' = oktests + 1 /\ test' = test + 1
                    /\ hpc' = "next" /\ UNCHANGED <<outcome, fixture>>
  BY <1>1, <1>4 DEF IInv, TypeOK, Counters, Check, HarnessPCs,
                    BeforeCount, AfterCount, StopPCs
<1>5. CASE Exit("exit1") /\ UNCHANGED <<fixture, test, oktests>>
  BY <1>1, <1>5 DEF IInv, TypeOK, Counters, Check, Exit, HarnessPCs,
                    Outcomes, BeforeCount, AfterCount, StopPCs
<1>6. QED
  BY <1>3, <1>4, <1>5 DEF Check

LEMMA CaptureOpenIInv == IInv /\ CaptureOpen => IInv'
BY DEF IInv, TypeOK, Counters, CaptureOpen, CaptureStates

LEMMA CaptureRecordIInv == IInv /\ CaptureRecord => IInv'
<1> SUFFICES ASSUME IInv, CaptureRecord PROVE IInv'
  OBVIOUS
<1>1. Head(inbuf) \in Records /\ Tail(inbuf) \in Seq(Records)
  BY HeadTailProperties DEF IInv, TypeOK, CaptureRecord
<1>2. trace' \in Seq(Records) /\ inbuf' \in Seq(Records)
  BY <1>1, AppendProperties, EmptySeq DEF IInv, TypeOK, CaptureRecord
<1>3. QED
  BY <1>2 DEF IInv, TypeOK, Counters, CaptureRecord, CaptureStates

LEMMA DaemonBootIInv ==
  ASSUME NEW d \in Daemons PROVE IInv /\ DaemonBoot(d) => IInv'
BY DEF IInv, TypeOK, Counters, DaemonBoot, DaemonStates, Alive

LEMMA DaemonReplyIInv ==
  ASSUME NEW d \in Daemons PROVE IInv /\ DaemonReply(d) => IInv'
<1> SUFFICES ASSUME IInv, DaemonReply(d) PROVE IInv'
  OBVIOUS
<1>1. PICK k \in pending[d] :
        /\ pending' = [pending EXCEPT ![d] = @ \ {k}]
        /\ IF "TestNet" \in routes
             THEN OnWire(Reply(k))
             ELSE UNCHANGED <<wire, inbuf>>
  BY DEF DaemonReply
<1>2. Reply(k) \in Records
  BY DEF IInv, TypeOK, Records
<1>3. wire' \in Seq(Records) /\ inbuf' \in Seq(Records)
  BY <1>1, <1>2, OnWireType DEF IInv, TypeOK
<1>4. pending' \in [Daemons -> SUBSET Packets]
  BY <1>1 DEF IInv, TypeOK
<1>5. QED
  BY <1>3, <1>4 DEF IInv, TypeOK, Counters, DaemonReply

LEMMA DaemonExitIInv ==
  ASSUME NEW d \in Daemons PROVE IInv /\ DaemonExit(d) => IInv'
BY DEF IInv, TypeOK, Counters, DaemonExit, DaemonStates, Alive

LEMMA DaemonCrashIInv ==
  ASSUME NEW d \in Daemons PROVE IInv /\ DaemonCrash(d) => IInv'
BY DEF IInv, TypeOK, Counters, DaemonCrash, DaemonStates, Alive

LEMMA StutterIInv == IInv /\ (Done \/ UNCHANGED vars) => IInv'
<1> SUFFICES ASSUME IInv, UNCHANGED vars PROVE IInv'
  BY DEF Done
<1>1. /\ hpc' = hpc /\ stopOf' = stopOf /\ stopPid' = stopPid
      /\ test' = test /\ sent' = sent /\ runtests' = runtests
      /\ oktests' = oktests /\ fe' = fe /\ generate' = generate
      /\ invocations' = invocations /\ outcome' = outcome /\ cur' = cur
      /\ cap' = cap /\ inbuf' = inbuf /\ trace' = trace
      /\ dstate' = dstate /\ pending' = pending /\ nextd' = nextd
      /\ routes' = routes /\ pidfile' = pidfile /\ fixture' = fixture
      /\ wire' = wire
  BY DEF vars
<1>2. TypeOK'  BY <1>1 DEF IInv, TypeOK
<1>3. Counters'  BY <1>1 DEF IInv, Counters
<1>4. QED  BY <1>2, <1>3 DEF IInv

\* IInv is an inductive invariant of the harness model.
THEOREM NextIInv == IInv /\ [Next]_vars => IInv'
<1> SUFFICES ASSUME IInv, [Next]_vars PROVE IInv'
  OBVIOUS
<1>1. CASE HarnessStep
  BY <1>1, RunTestIInv, FinishIInv, StopReadIInv, StopExistsIInv,
     StopKillIInv, StopRemoveIInv, StartPcapIInv, StartHoneydIInv, BootIInv,
     SendIInv, SettleIInv, StopPcapIInv, CheckIInv
  DEF HarnessStep
<1>2. CASE \E d \in Daemons : DaemonStep(d) \/ DaemonCrash(d)
  BY <1>2, DaemonBootIInv, DaemonReplyIInv, DaemonExitIInv, DaemonCrashIInv
  DEF DaemonStep
<1>3. QED
  BY <1>1, <1>2, InvokeIInv, CaptureOpenIInv, CaptureRecordIInv,
     StutterIInv DEF Next, CaptureStep

\* Type correctness of the harness model, for every number of Tests,
\* packets and invocations: every counter stays within its bound and
\* every trace, fixture and capture queue is a sequence of trace records.
THEOREM TypeCorrect == Spec => []TypeOK
<1>1. Init => IInv  BY InitIInv
<1>2. IInv /\ [Next]_vars => IInv'  BY NextIInv
<1>3. IInv => TypeOK  BY DEF IInv
<1>4. QED  BY <1>1, <1>2, <1>3, PTL DEF Spec

-----------------------------------------------------------------------------
(* The exit-code law.  ExitZeroMeansAllPassed speaks of a harness process  *)
(* that has ended; it is inductive together with the fact that exit0 is   *)
(* only recorded once the process is gone, and with IInv, whose Counters  *)
(* give runtests = NTests when the script's loop is over.                 *)

ExitInv ==
  outcome = "exit0" => (hpc = "idle" /\ ExitZeroMeansAllPassed)

LEMMA FinishExitInv == IInv /\ ExitInv /\ Finish => ExitInv'
<1> SUFFICES ASSUME IInv, ExitInv, Finish PROVE ExitInv'
  OBVIOUS
<1>1. hpc = "next" /\ test = NTests + 1 /\ runtests = NTests
  BY DEF IInv, TypeOK, Counters, Finish
<1>2. QED
  BY <1>1 DEF Finish, Exit, ExitInv, ExitZeroMeansAllPassed

LEMMA NextExitInv == IInv /\ ExitInv /\ [Next]_vars => ExitInv'
<1> SUFFICES ASSUME IInv, ExitInv, [Next]_vars PROVE ExitInv'
  OBVIOUS
<1>1. CASE Finish  BY <1>1, FinishExitInv
<1>2. CASE Invoke  BY <1>2 DEF Invoke, Exit, ExitInv
<1>3. CASE HarnessStep /\ ~Finish
  \* every other harness step runs (hpc # "idle") or exits with an error
  BY <1>3 DEF HarnessStep, ExitInv, ExitZeroMeansAllPassed, Exit, RunTest,
             StopRead, StopExists, StopKill, StopRemove, StartPcap,
             StartHoneyd, Boot, Send, Settle, StopPcap, Check
<1>4. CASE CaptureStep
  BY <1>4 DEF CaptureStep, CaptureOpen, CaptureRecord, ExitInv,
              ExitZeroMeansAllPassed
<1>5. CASE \E d \in Daemons : DaemonStep(d) \/ DaemonCrash(d)
  BY <1>5 DEF DaemonStep, DaemonBoot, DaemonReply, DaemonExit, DaemonCrash,
              ExitInv, ExitZeroMeansAllPassed
<1>6. CASE Done \/ UNCHANGED vars
  BY <1>6 DEF Done, vars, ExitInv, ExitZeroMeansAllPassed
<1>7. QED  BY <1>1, <1>2, <1>3, <1>4, <1>5, <1>6 DEF Next

\* Exit-code law: for every number of Tests, packets and invocations, a
\* compare-mode harness that exits 0 has run and passed every Test.
THEOREM ExitCodeLaw == Spec => []ExitZeroMeansAllPassed
<1>1. Init => IInv /\ ExitInv
  BY InitIInv DEF Init, ExitInv
<1>2. IInv /\ ExitInv /\ [Next]_vars => IInv' /\ ExitInv'
  BY NextIInv, NextExitInv
<1>3. IInv /\ ExitInv => ExitZeroMeansAllPassed
  BY DEF ExitInv, ExitZeroMeansAllPassed
<1>4. QED  BY <1>1, <1>2, <1>3, PTL DEF Spec

=============================================================================
