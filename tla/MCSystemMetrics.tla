--------------------------- MODULE MCSystemMetrics ---------------------------
(* The collectors of system_metrics.cpp that keep state from call to call.    *)
(* They share nothing: a behaviour is one of the network collector or one of  *)
(* the CPU collector, chosen at the start.                                    *)
EXTENDS MCNetworkCollector, CpuCollector

VARIABLE metric

metricsVars == <<metric, vars, cpuVars>>

\* The CPU counters of a network behaviour are of no interest.
MetricsInit ==
  /\ metric \in {"network", "cpu"}
  /\ Init /\ CpuInit
  /\ metric = "network" => busy = 0 /\ idle = 0

MetricsNext ==
  \/ metric = "network" /\ Next /\ UNCHANGED <<metric, cpuVars>>
  \/ metric = "cpu" /\ CpuNext /\ UNCHANGED <<metric, vars>>

MetricsSpec == MetricsInit /\ [][MetricsNext]_metricsVars
=============================================================================
