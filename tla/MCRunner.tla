------------------------------ MODULE MCRunner ------------------------------
(* Two invocations on one logdir: one with a pool of two workers and one    *)
(* with the serial loop, or (MCPools) two pools.  Some tests print no       *)
(* ##PERF## line (as cache_size and tlb_size do), one prints several.       *)
EXTENDS Runner

MCTests  == 1 .. 2
MCTests3 == 1 .. 3
MCRuns   == 1 .. 2
MCJobs   == <<2, 1>>
MCPools  == <<2, 2>>
MCPrints  == <<2, 1>>
MCPrints3 == <<1, 0, 0>>
=============================================================================
