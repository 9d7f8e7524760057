----------------------------- MODULE MCHostLinks -----------------------------
(* How the host drives the board through System Console, one way at a time: *)
(* the worker of the CIFAR-10 campaign, the process the tiny benchmark      *)
(* talks to, and the tiny benchmark itself above that process; and the      *)
(* bridge in which its accesses to the HyperRAM end.                        *)
EXTENDS WorkerPipe, SystemConsole, TinyBenchmark, HyperBridge

VARIABLE link

linkVars == <<link, pvars, cvars, vars, bridgeVars>>

MCCommands == <<"CFG", "BATCH", "BATCH">>
MCAccesses == <<"write", "read", "readFile">>

\* No run of the benchmark has begun.
Closed == Init /\ path = "hyperram"

\* No transaction has reached the bridge.
Unused ==
  /\ len = 0 /\ cbaddr = 0 /\ wstrb = {}
  /\ cbuf = Zeros /\ wbeat = Zeros /\ rbeat = Zeros /\ stored = [b \in Beat |-> Zeros]
  /\ BridgeInit

Worker(A) == link = "worker" /\ A /\ UNCHANGED <<link, cvars, vars, bridgeVars>>
Console(A) == link = "console" /\ A /\ UNCHANGED <<link, pvars, vars, bridgeVars>>
Benchmark(A) == link = "benchmark" /\ A /\ UNCHANGED <<link, pvars, cvars, bridgeVars>>
Bridged(A) == link = "bridge" /\ A /\ UNCHANGED <<link, pvars, cvars, vars>>

LinkInit ==
  /\ link \in {"worker", "console", "benchmark", "bridge"} /\ PipeInit /\ ConsoleInit
  /\ IF link = "benchmark" THEN Init ELSE Closed
  /\ IF link = "bridge" THEN BridgeInit ELSE Unused

LinkSpec ==
  /\ LinkInit
  /\ [][Worker(PipeNext) \/ Console(ConsoleNext) \/ Benchmark(Next) \/ Bridged(BridgeNext)]_linkVars
  /\ WF_linkVars(Worker(WorkerStep)) /\ WF_linkVars(Worker(BackendStep))
  /\ WF_linkVars(Benchmark(Host))

\* A session of the campaign that is started ends, with the last answer or an
\* error: READY, a reply or the process may never come (start, command, stop of
\* SysconBackend).
SessionEnds == (link = "worker") ~> (hpc = "stopped")
==============================================================================
