------------------------------ MODULE Regress ------------------------------
(***************************************************************************)
(* The honeyd regression harness (src/regress/regress.py), run against the *)
(* daemon under test and the packet-capture child it forks.                *)
(*                                                                         *)
(* Three kinds of process share the host:                                  *)
(*   - the harness itself (one Python thread, program counter hpc), which  *)
(*     a regression script drives: regress(...) then run(t) for each Test  *)
(*     and finish();                                                       *)
(*   - the honeyd daemons it spawns with start_honeyd (external C code,    *)
(*     modelled from the spec: they boot, write the pidfile, answer        *)
(*     probes, exit on SIGINT and may crash);                              *)
(*   - the capture child forked by start_pcap, which drains the loopback   *)
(*     capture into the trace file until it is killed with SIGKILL.        *)
(* The kernel routing table, the pidfile and the golden fixtures outlive   *)
(* a harness process; the script may be started again (MaxInvocations).   *)
(*                                                                         *)
(* The harness synchronises with the others only through fixed sleeps.     *)
(* SleepsSuffice = TRUE assumes each sleep outlasts what it waits for (the *)
(* daemon has booted, replies have landed, a signalled daemon has exited); *)
(* FALSE lets the other processes be arbitrarily slow.                     *)
(*                                                                         *)
(* regress.py is Python 3 only (its #!/usr/bin/env python3, print(file=),  *)
(* subprocess.run(capture_output=)).  There str(pkt) is text, so           *)
(* dnet.ip_checksum in Test.Send and os.write in the capture child raise   *)
(* TypeError: StrAccepted = FALSE is the code as it stands.  TRUE is a     *)
(* hypothetical repair (bytes instead of str at both places), used only to *)
(* check what the harness would then guarantee.                            *)
(***************************************************************************)
EXTENDS Naturals, Sequences, FiniteSets

CONSTANTS
  NTests,          \* number of Test objects the script passes to run()
  NPackets,        \* packets in each Test's self.packets
  MaxInvocations,  \* times the script is started on the same host
  StrAccepted,     \* FALSE: the code; TRUE: Send and the child pass bytes
  SleepsSuffice,   \* whether the fixed sleeps outlast the other processes
  CaptureMayFail,  \* whether pcap.pcap(self.interface) may raise in the child
  NoFile           \* model value: a file (pidfile, fixture) that does not exist

ASSUME NTestsAssumption == NTests \in Nat \ {0}
ASSUME NPacketsAssumption == NPackets \in Nat
ASSUME MaxInvocationsAssumption == MaxInvocations \in Nat \ {0}
\* NoFile stands for "no such file", never for a pid.
ASSUME NoFileAssumption == NoFile \notin Nat
ASSUME FlagsAssumption ==
  {StrAccepted, SleepsSuffice, CaptureMayFail} \subseteq BOOLEAN

Tests == 1..NTests
Packets == 1..NPackets
\* start_honeyd runs once per run(), so this many daemons can ever exist.
MaxDaemons == NTests * MaxInvocations
Daemons == 1..MaxDaemons

\* The two reserved networks of VerifyRoute: "TestNet" is 192.0.2.0/24
\* (source side of the probes), "BenchNet" is 192.18.0.0/15 (honeyd's).
Nets == {"TestNet", "BenchNet"}

\* A trace record (SRC/DST/ID/TTL/DATA block) abstracted to which packet it
\* is: the k-th probe of the Test or honeyd's answer to it.
Probe(k) == <<"probe", k>>
Reply(k) == <<"reply", k>>
Records == {Probe(k) : k \in Packets} \cup {Reply(k) : k \in Packets}

\* What one healthy run records: each probe followed by honeyd's answer.
HealthyTrace == [i \in 1..(2 * NPackets) |->
                   IF i % 2 = 1 THEN Probe((i + 1) \div 2) ELSE Reply(i \div 2)]

\* Daemon process states; "none" is a pid never used.
Alive == {"starting", "running", "exiting"}
DaemonStates == {"none", "dead"} \cup Alive

\* Harness program counter: "idle" means no harness process exists.
HarnessPCs == {"idle", "next", "stopRead", "stopExists", "stopKill",
               "stopRemove", "pcap", "spawn", "boot", "send", "stoppcap",
               "check"}
\* How the last harness process ended; "running" while it runs.
Outcomes == {"none", "running", "exit0", "exit1",
             "TypeError", "AttributeError", "ValueError"}
CaptureStates == {"none", "forked", "open", "failed", "crashed", "killed"}

VARIABLES
  \* harness (one regress object and the script that drives it)
  hpc, stopOf, stopPid, test, sent, runtests, oktests, fe, generate,
  invocations, outcome, cur,
  \* capture child
  cap, inbuf, trace,
  \* daemons
  dstate, pending, nextd,
  \* host state that outlives a harness process
  routes, pidfile, fixture,
  \* history: every test packet that went over the loopback this Test
  wire

harnessVars == <<hpc, stopOf, stopPid, test, sent, runtests, oktests, fe,
                 generate, invocations, outcome, cur>>
captureVars == <<cap, inbuf, trace>>
daemonVars == <<dstate, pending, nextd>>
hostVars == <<routes, pidfile, fixture>>
vars == <<harnessVars, captureVars, daemonVars, hostVars, wire>>

TypeOK ==
  /\ hpc \in HarnessPCs
  /\ stopOf \in {"pre", "post"}
  /\ stopPid \in Daemons \cup {NoFile}
  /\ test \in 1..(NTests + 1)
  /\ sent \in 0..NPackets
  /\ runtests \in 0..NTests
  /\ oktests \in 0..runtests
  /\ fe \in {"none", "open", "closed"}
  /\ generate \in BOOLEAN
  /\ invocations \in 0..MaxInvocations
  /\ outcome \in Outcomes
  /\ cur \in Daemons \cup {NoFile}
  /\ cap \in CaptureStates
  /\ inbuf \in Seq(Records)
  /\ trace \in Seq(Records)
  /\ dstate \in [Daemons -> DaemonStates]
  /\ pending \in [Daemons -> SUBSET Packets]
  /\ nextd \in 0..MaxDaemons
  /\ routes \subseteq Nets
  /\ pidfile \in Daemons \cup {NoFile}
  /\ fixture \in [Tests -> Seq(Records) \cup {NoFile}]
  /\ wire \in Seq(Records)

-----------------------------------------------------------------------------
(* Helpers *)

AliveDaemons == {d \in Daemons : dstate[d] \in Alive}

\* No probe is waiting for its answer.
Quiet == \A d \in Daemons : pending[d] = {}

\* A fixed time.sleep whose length, when the sleeps suffice, covers cond.
AfterSleep(cond) == SleepsSuffice => cond

\* k is the lowest-numbered probe in S: a daemon answers in arrival order,
\* and probes arrive in order.
IsFirst(k, S) == \A j \in S : k <= j

\* A packet crosses the loopback: the capture socket queues it if open.
OnWire(r) ==
  /\ wire' = Append(wire, r)
  /\ inbuf' = IF cap = "open" THEN Append(inbuf, r) ELSE inbuf

\* The harness process ends (sys.exit, or an uncaught exception).
Exit(o) == hpc' = "idle" /\ outcome' = o

\* AddRoute: router.delete(network) whatever its result, then router.add;
\* fails is the set of networks whose add raises OSError.
AddRoute(r, net, fails) == (r \ {net}) \cup ({net} \ fails)

\* VerifyRoute: 192.0.2.0/24 first; if that fails it returns at once.
VerifyRoute(r, fails) ==
  LET r1 == AddRoute(r, "TestNet", fails)
  IN  IF "TestNet" \in fails THEN r1 ELSE AddRoute(r1, "BenchNet", fails)

\* RemoveAllRoutes: RemoveRoute of both networks; a router.delete that
\* raises OSError (the networks in fails) leaves its route, unreported.
RemoveAllRoutes(r, fails) == r \ (Nets \ fails)

\* find_running_proc("honeyd"): the pid on the first line of the ps listing
\* that matches "<pid> honeyd", or None.  Whether a daemon matches depends
\* on how the command line was spelled, so any live one, or none, may.
FindRunningProc == AliveDaemons \cup {NoFile}

\* kill_pid(pid): SIGINT; the daemon starts to exit (a pid that is gone
\* makes os.kill raise, and nothing changes).
KillPid(ds, d) ==
  IF ds[d] \in Alive THEN [ds EXCEPT ![d] = "exiting"] ELSE ds

\* stop_honeyd returns to run(): start_pcap before, stop_pcap after.
AfterStop == IF stopOf = "pre" THEN "pcap" ELSE "stoppcap"

-----------------------------------------------------------------------------
Init ==
  /\ hpc = "idle"
  /\ stopOf = "pre"
  /\ stopPid = NoFile
  /\ test = 1
  /\ sent = 0
  /\ runtests = 0
  /\ oktests = 0
  /\ fe = "none"
  /\ generate = FALSE
  /\ invocations = 0
  /\ outcome = "none"
  /\ cur = NoFile
  /\ cap = "none"
  /\ inbuf = <<>>
  /\ trace = <<>>
  /\ dstate = [d \in Daemons |-> "none"]
  /\ pending = [d \in Daemons |-> {}]
  /\ nextd = 0
  /\ routes = {}
  /\ pidfile = NoFile
  \* Golden fixtures checked into the tree, recorded by an earlier healthy
  \* generate run, or not there yet.
  /\ fixture \in [Tests -> {NoFile, HealthyTrace}]
  /\ wire = <<>>

-----------------------------------------------------------------------------
(* Harness actions *)

\* The script starts: regress.__init__ checks the binary and the config,
\* runs --verify-config, then VerifyRoute (whose failure is only printed).
\* The script chooses generate mode or compare mode.
Invoke ==
  /\ hpc = "idle"
  /\ invocations < MaxInvocations
  /\ invocations' = invocations + 1
  /\ \/ /\ Exit("exit1")
        /\ UNCHANGED <<routes, generate, test, runtests, oktests, fe>>
     \/ /\ \E fails \in SUBSET Nets : routes' = VerifyRoute(routes, fails)
        /\ \E g \in BOOLEAN : generate' = g
        /\ hpc' = "next"
        /\ outcome' = "running"
        /\ test' = 1
        /\ runtests' = 0
        /\ oktests' = 0
        /\ fe' = "none"
  /\ UNCHANGED <<stopOf, stopPid, sent, cur, captureVars, daemonVars,
                 pidfile, fixture, wire>>

\* Mutant: run() without its leading stop_honeyd().
RunTestNoStop ==
  /\ hpc = "next"
  /\ test <= NTests
  /\ hpc' = "pcap"
  /\ stopOf' = "pre"
  /\ UNCHANGED <<stopPid, test, sent, runtests, oktests, fe, generate,
                 invocations, outcome, cur, captureVars, daemonVars,
                 hostVars, wire>>

\* The script calls run(test): it begins with stop_honeyd().
RunTest ==
  /\ hpc = "next"
  /\ test <= NTests
  /\ hpc' = "stopRead"
  /\ stopOf' = "pre"
  /\ UNCHANGED <<stopPid, test, sent, runtests, oktests, fe, generate,
                 invocations, outcome, cur, captureVars, daemonVars,
                 hostVars, wire>>

\* Mutant: the script's loop ends one Test early (range(len(tests) - 1)).
FinishOffByOne ==
  /\ hpc = "next"
  /\ test >= NTests
  /\ \E fails \in SUBSET Nets : routes' = RemoveAllRoutes(routes, fails)
  /\ Exit(IF generate \/ runtests = oktests THEN "exit0" ELSE "exit1")
  /\ UNCHANGED <<stopOf, stopPid, test, sent, runtests, oktests, fe,
                 generate, invocations, cur, captureVars, daemonVars,
                 pidfile, fixture, wire>>

\* finish(): RemoveAllRoutes, then ok() unless generating.
Finish ==
  /\ hpc = "next"
  /\ test > NTests
  /\ \E fails \in SUBSET Nets : routes' = RemoveAllRoutes(routes, fails)
  /\ Exit(IF generate \/ runtests = oktests THEN "exit0" ELSE "exit1")
  /\ UNCHANGED <<stopOf, stopPid, test, sent, runtests, oktests, fe,
                 generate, invocations, cur, captureVars, daemonVars,
                 pidfile, fixture, wire>>

\* Mutant: without a pidfile, stop_honeyd polls for one to appear instead
\* of falling back to find_running_proc.
StopReadWaitPidfile ==
  /\ hpc = "stopRead"
  /\ \/ /\ pidfile # NoFile
        /\ stopPid' = pidfile
        /\ hpc' = "stopExists"
     \/ /\ pidfile = NoFile
        /\ UNCHANGED <<hpc, stopPid>>
  /\ UNCHANGED <<stopOf, test, sent, runtests, oktests, fe, generate,
                 invocations, outcome, cur, captureVars, daemonVars,
                 hostVars, wire>>

\* stop_honeyd, first part: read the pidfile.  Without one it falls back to
\* find_running_proc("honeyd") and SIGINTs the first match, if any.
StopRead ==
  /\ hpc = "stopRead"
  /\ \/ /\ pidfile # NoFile
        /\ stopPid' = pidfile
        /\ hpc' = "stopExists"
        /\ UNCHANGED dstate
     \/ /\ pidfile = NoFile
        /\ \E d \in FindRunningProc :
             dstate' = IF d = NoFile THEN dstate ELSE KillPid(dstate, d)
        /\ hpc' = AfterStop
        /\ UNCHANGED stopPid
  /\ UNCHANGED <<stopOf, test, sent, runtests, oktests, fe, generate,
                 invocations, outcome, cur, captureVars, pending, nextd,
                 hostVars, wire>>

\* Mutant: exists_pid's "ps -o pid= -p" never lists the pid (the "is this
\* portable enough?" of regress.py), so stop_honeyd never kills.
StopExistsPsFails ==
  /\ hpc = "stopExists"
  /\ hpc' = "stopRemove"
  /\ UNCHANGED <<stopOf, stopPid, test, sent, runtests, oktests, fe,
                 generate, invocations, outcome, cur, captureVars,
                 daemonVars, hostVars, wire>>

\* exists_pid(pid): a ps listing of the pid read from the pidfile.
StopExists ==
  /\ hpc = "stopExists"
  /\ hpc' = IF dstate[stopPid] \in Alive THEN "stopKill" ELSE "stopRemove"
  /\ UNCHANGED <<stopOf, stopPid, test, sent, runtests, oktests, fe,
                 generate, invocations, outcome, cur, captureVars,
                 daemonVars, hostVars, wire>>

\* kill_pid(pid) with SIGINT (it fails if the process is gone since the ps),
\* then self.fe.read(), closing self.fe when the kill failed.  Only IOError
\* and OSError are caught: with no self.fe yet (AttributeError) or a closed
\* one (ValueError) the exception ends the harness.
StopKill ==
  /\ hpc = "stopKill"
  /\ LET killed == dstate[stopPid] \in Alive
     IN  /\ dstate' = KillPid(dstate, stopPid)
         /\ \/ /\ fe = "open"
               /\ fe' = IF killed THEN fe ELSE "closed"
               /\ hpc' = "stopRemove"
               /\ UNCHANGED outcome
            \/ /\ fe = "none"
               /\ Exit("AttributeError")
               /\ UNCHANGED fe
            \/ /\ fe = "closed"
               /\ Exit("ValueError")
               /\ UNCHANGED fe
  /\ UNCHANGED <<stopOf, stopPid, test, sent, runtests, oktests, generate,
                 invocations, cur, captureVars, pending, nextd, hostVars,
                 wire>>

\* os.remove(self.pidfile); failing to remove it is fatal.
StopRemove ==
  /\ hpc = "stopRemove"
  /\ \/ /\ pidfile # NoFile
        /\ pidfile' = NoFile
        /\ hpc' = AfterStop
        /\ UNCHANGED outcome
     \/ /\ pidfile = NoFile
        /\ Exit("exit1")
        /\ UNCHANGED pidfile
  /\ UNCHANGED <<stopOf, stopPid, test, sent, runtests, oktests, fe,
                 generate, invocations, cur, captureVars, daemonVars,
                 routes, fixture, wire>>

\* start_pcap: mkstemp a fresh trace file and fork the capture child.
StartPcap ==
  /\ hpc = "pcap"
  /\ cap' = "forked"
  /\ inbuf' = <<>>
  /\ trace' = <<>>
  /\ wire' = <<>>
  /\ hpc' = "spawn"
  /\ UNCHANGED <<stopOf, stopPid, test, sent, runtests, oktests, fe,
                 generate, invocations, outcome, cur, daemonVars, hostVars>>

\* start_honeyd: Popen the daemon, keep its stderr as self.fe.
StartHoneyd ==
  /\ hpc = "spawn"
  /\ nextd < MaxDaemons
  /\ nextd' = nextd + 1
  /\ dstate' = [dstate EXCEPT ![nextd + 1] = "starting"]
  /\ cur' = nextd + 1
  /\ fe' = "open"
  /\ hpc' = "boot"
  /\ UNCHANGED <<stopOf, stopPid, test, sent, runtests, oktests, generate,
                 invocations, outcome, captureVars, pending, hostVars, wire>>

\* Mutant: run() without its "self.runtests += 1".
BootNoCount ==
  /\ hpc = "boot"
  /\ AfterSleep(cap # "forked" /\ dstate[cur] # "starting")
  /\ sent' = 0
  /\ hpc' = "send"
  /\ UNCHANGED <<stopOf, stopPid, test, runtests, oktests, fe, generate,
                 invocations, outcome, cur, captureVars, daemonVars, hostVars,
                 wire>>

\* The time.sleep(2) that ends start_honeyd, then run() counts the test.
Boot ==
  /\ hpc = "boot"
  /\ AfterSleep(cap # "forked" /\ dstate[cur] # "starting")
  /\ runtests' = runtests + 1
  /\ sent' = 0
  /\ hpc' = "send"
  /\ UNCHANGED <<stopOf, stopPid, test, oktests, fe, generate, invocations,
                 outcome, cur, captureVars, daemonVars, hostVars, wire>>

\* Test.Send, one packet: dnet.ip_checksum(str(pkt)) and ip.send, after the
\* 0.1 s sleep that followed the previous packet.  The probe reaches the
\* loopback, and the daemons listening there, only through the BenchNet route.
Send ==
  /\ hpc = "send"
  /\ sent < NPackets
  /\ sent > 0 => AfterSleep(Quiet)
  /\ \/ /\ ~StrAccepted
        /\ Exit("TypeError")
        /\ UNCHANGED <<sent, wire, inbuf, pending>>
     \/ /\ StrAccepted
        /\ sent' = sent + 1
        /\ IF "BenchNet" \in routes
             THEN /\ OnWire(Probe(sent + 1))
                  /\ pending' = [d \in Daemons |->
                                   IF dstate[d] = "running"
                                     THEN pending[d] \cup {sent + 1}
                                     ELSE pending[d]]
             ELSE UNCHANGED <<wire, inbuf, pending>>
        /\ UNCHANGED <<hpc, outcome>>
  /\ UNCHANGED <<stopOf, stopPid, test, runtests, oktests, fe, generate,
                 invocations, cur, cap, trace, dstate, nextd, hostVars>>

\* Mutant: run() calls stop_pcap() without stopping the daemon first.
SettleSkipStop ==
  /\ hpc = "send"
  /\ sent = NPackets
  /\ AfterSleep(Quiet)
  /\ hpc' = "stoppcap"
  /\ stopOf' = "post"
  /\ UNCHANGED <<stopPid, test, sent, runtests, oktests, fe, generate,
                 invocations, outcome, cur, captureVars, daemonVars,
                 hostVars, wire>>

\* run(): time.sleep(1) after the last packet, then stop_honeyd().
Settle ==
  /\ hpc = "send"
  /\ sent = NPackets
  /\ AfterSleep(Quiet)
  /\ hpc' = "stopRead"
  /\ stopOf' = "post"
  /\ UNCHANGED <<stopPid, test, sent, runtests, oktests, fe, generate,
                 invocations, outcome, cur, captureVars, daemonVars,
                 hostVars, wire>>

\* stop_pcap: sleep 1 s, SIGKILL the capture child, sleep 1 s.  Whatever
\* the child has not yet drained is lost.  (The child never leaves a record
\* cut short: under Python 3 its first os.write raises before any byte.)
StopPcap ==
  /\ hpc = "stoppcap"
  /\ AfterSleep(Quiet /\ inbuf = <<>> /\ \A d \in Daemons : dstate[d] # "exiting")
  /\ cap' = "killed"
  /\ inbuf' = <<>>
  /\ hpc' = "check"
  /\ UNCHANGED <<stopOf, stopPid, test, sent, runtests, oktests, fe,
                 generate, invocations, outcome, cur, trace, daemonVars,
                 hostVars, wire>>

\* The end of run(): in generate mode Rename the trace over the fixture
\* (a failed rename and copy is fatal); otherwise compare(), whose fail()
\* calls sys.exit(1) for a missing fixture and for differing contents.
Check ==
  /\ hpc = "check"
  /\ \/ /\ generate
        /\ \/ /\ fixture' = [fixture EXCEPT ![test] = trace]
              /\ test' = test + 1
              /\ hpc' = "next"
              /\ UNCHANGED <<oktests, outcome>>
           \/ /\ Exit("exit1")
              /\ UNCHANGED <<fixture, test, oktests>>
     \/ /\ ~generate
        /\ \/ /\ fixture[test] = NoFile
              /\ Exit("exit1")
              /\ UNCHANGED <<test, oktests>>
           \/ /\ fixture[test] # NoFile
              /\ trace = fixture[test]
              /\ oktests' = oktests + 1
              /\ test' = test + 1
              /\ hpc' = "next"
              /\ UNCHANGED outcome
           \/ /\ fixture[test] # NoFile
              /\ trace # fixture[test]
              /\ Exit("exit1")
              /\ UNCHANGED <<test, oktests>>
        /\ UNCHANGED fixture
  /\ UNCHANGED <<stopOf, stopPid, sent, runtests, fe, generate, invocations,
                 cur, captureVars, daemonVars, routes, pidfile, wire>>

-----------------------------------------------------------------------------
(* Capture child *)

\* pcap.pcap(self.interface) and setfilter; on OSError the child exits.
CaptureOpen ==
  /\ cap = "forked"
  /\ \/ cap' = "open"
     \/ CaptureMayFail /\ cap' = "failed"
  /\ UNCHANGED <<harnessVars, inbuf, trace, daemonVars, hostVars, wire>>

\* One iteration of the capture loop: the SRC/DST/ID/TTL/DATA block is
\* os.write-n as a str, which raises TypeError and ends the child unless
\* str is accepted.
CaptureRecord ==
  /\ cap = "open"
  /\ inbuf # <<>>
  /\ trace' = IF StrAccepted THEN Append(trace, Head(inbuf)) ELSE trace
  /\ inbuf' = IF StrAccepted THEN Tail(inbuf) ELSE <<>>
  /\ cap' = IF StrAccepted THEN cap ELSE "crashed"
  /\ UNCHANGED <<harnessVars, daemonVars, hostVars, wire>>

-----------------------------------------------------------------------------
(* Daemons (honeyd itself, modelled from the spec) *)

\* The daemon has bound the interface and written its pid to the pidfile.
DaemonBoot(d) ==
  /\ dstate[d] = "starting"
  /\ dstate' = [dstate EXCEPT ![d] = "running"]
  /\ pidfile' = d
  /\ UNCHANGED <<harnessVars, captureVars, pending, nextd, routes, fixture,
                 wire>>

\* The daemon answers its oldest probe; the answer reaches the loopback
\* only through the TestNet route.
DaemonReply(d) ==
  /\ dstate[d] \in {"running", "exiting"}
  /\ \E k \in pending[d] :
       /\ IsFirst(k, pending[d])
       /\ pending' = [pending EXCEPT ![d] = @ \ {k}]
       /\ IF "TestNet" \in routes
            THEN OnWire(Reply(k))
            ELSE UNCHANGED <<wire, inbuf>>
  /\ UNCHANGED <<harnessVars, cap, trace, dstate, nextd, hostVars>>

\* A daemon that got SIGINT exits; it may unlink the pidfile path,
\* whoever's pid it holds by then.
DaemonExit(d) ==
  /\ dstate[d] = "exiting"
  /\ dstate' = [dstate EXCEPT ![d] = "dead"]
  /\ pending' = [pending EXCEPT ![d] = {}]
  /\ \/ UNCHANGED pidfile
     \/ pidfile' = NoFile
  /\ UNCHANGED <<harnessVars, captureVars, nextd, routes, fixture, wire>>

\* A daemon dies on its own (fails to bind, crashes, SIGPIPE on its stderr
\* once the harness is gone); the pidfile stays.
DaemonCrash(d) ==
  /\ dstate[d] \in {"starting", "running"}
  /\ dstate' = [dstate EXCEPT ![d] = "dead"]
  /\ pending' = [pending EXCEPT ![d] = {}]
  /\ UNCHANGED <<harnessVars, captureVars, nextd, hostVars, wire>>

-----------------------------------------------------------------------------
\* The script has been run MaxInvocations times.
Done ==
  /\ hpc = "idle"
  /\ invocations = MaxInvocations
  /\ UNCHANGED vars

HarnessStep ==
  \/ RunTest \/ Finish \/ StopRead \/ StopExists \/ StopKill \/ StopRemove
  \/ StartPcap \/ StartHoneyd \/ Boot \/ Send \/ Settle \/ StopPcap \/ Check

CaptureStep == CaptureOpen \/ CaptureRecord

DaemonStep(d) == DaemonBoot(d) \/ DaemonReply(d) \/ DaemonExit(d)

Next ==
  \/ Invoke
  \/ HarnessStep
  \/ CaptureStep
  \/ \E d \in Daemons : DaemonStep(d) \/ DaemonCrash(d)
  \/ Done

\* The harness thread, the capture child and the daemons are scheduled by
\* the OS: each keeps running while it can.  Starting the script again and
\* a daemon crashing are never forced.
Fairness ==
  /\ WF_vars(HarnessStep)
  /\ WF_vars(CaptureStep)
  /\ \A d \in Daemons : WF_vars(DaemonStep(d))

Spec == Init /\ [][Next]_vars /\ Fairness

-----------------------------------------------------------------------------
(* Properties *)

\* Mutual exclusion (spec 3, 8): while run() injects a Test's packets, no
\* honeyd is alive but the one start_honeyd spawned for that Test; the
\* stop_honeyd at the start of run() and the one before stop_pcap of the
\* previous Test have disposed of every earlier instance.
SingleDaemonAtInjection ==
  hpc = "send" => AliveDaemons \subseteq {cur}

\* Exit-code law (spec 8), strengthened: a compare-mode harness that exits
\* 0 has run every Test and every one of them matched its fixture.
ExitZeroMeansAllPassed ==
  (outcome = "exit0" /\ ~generate) => (runtests = NTests /\ oktests = NTests)

\* Capture window (spec 3, 5): stop_pcap never kills the capture while the
\* daemon spawned for the current Test is still alive.
CaptureOutlivesDaemon ==
  [][(hpc = "stoppcap" /\ hpc' = "check") => dstate[cur] \notin Alive]_vars

\* Every started harness run ends (exit code or uncaught exception): none
\* of the fixed sleeps waits for something that never comes.
HarnessTerminates ==
  (hpc # "idle") ~> (hpc = "idle")

\* Teardown (spec 4.2, 7): once a harness process has ended, the reserved
\* test routes are gone from the kernel table.
RoutesRemovedOnExit ==
  (hpc = "idle" /\ outcome # "none") => routes = {}

\* Best-effort stop (spec 4.1): draining the stderr of a killed daemon that
\* is not ours is tolerated; stop_honeyd never ends the harness with an
\* exception.
StopToleratesForeignDaemon ==
  outcome \notin {"AttributeError", "ValueError"}

-----------------------------------------------------------------------------
(* The orchestrator of spec.md 4.6, seen through the harness's variables:  *)
(* a harness process is running while hpc # "idle"; the attempted and     *)
(* passed counters are runtests and oktests; an uncaught exception ends   *)
(* the process with status 1 like sys.exit(1).                            *)

OrchStatus ==
  IF outcome \in {"TypeError", "AttributeError", "ValueError"}
    THEN "exit1" ELSE outcome

Orch == INSTANCE Orchestrator
          WITH NScenarios <- NTests,
               phase <- IF hpc = "idle" THEN "idle" ELSE "running",
               attempted <- runtests,
               passed <- oktests,
               mode <- generate,
               status <- OrchStatus

\* regress.run/finish implement the orchestrator's safety specification:
\* every step is a step of the orchestrator or leaves it unchanged (a Test
\* is counted only after every earlier one passed, a pass is counted at
\* most once per Test, finish() reports only after the last Test).
OrchestratorSafety == Orch!ASafeSpec

-----------------------------------------------------------------------------
(* The supervisor of spec.md 4.1, seen through the daemons' variables.    *)

Sup == INSTANCE Supervisor
         WITH DaemonIds <- Daemons,
              live <- AliveDaemons,
              signalled <- {d \in Daemons : dstate[d] = "exiting"}

\* start_honeyd, stop_honeyd and the daemons implement the supervisor: a
\* daemon is spawned only when none is alive, kill_pid only signals a live
\* daemon, and only a signalled daemon exits.
SupervisorSafety == Sup!SSpec

=============================================================================
