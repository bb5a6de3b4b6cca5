------------------------------ MODULE MCSuite -------------------------------
(* Every test of the repository in every build.  The counters of the       *)
(* machine start at 0 or so that they wrap in the measured call.           *)
EXTENDS Harness, LatencyTests, ThroughputTests, FpThroughputTests,
        DependencyTests, WorkloadTests, SweepTests

(* Tests with the same main() and the same numbers are one program.        *)
MCPrograms ==
  LatencyTests \cup ThroughputTests \cup FpThroughputTests \cup DependencyTests
    \cup WorkloadTests \cup SweepTests
MCModulus == 2^30
MCStarts  == {[cycles |-> 0, instret |-> 0],
              [cycles |-> MCModulus - 300000, instret |-> MCModulus - 150000]}
=============================================================================
