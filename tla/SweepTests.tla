----------------------------- MODULE SweepTests -----------------------------
(***************************************************************************)
(* The programs with a main() of their own: pipeline_depth, ilp_width,     *)
(* cache_size, tlb_size, and a benchmark of Embench on its boardsupport.c. *)
(***************************************************************************)
EXTENDS TestProgram

(* Three kernels of 25 rounds over one block: 4, 6 and 6 ld+add pairs.      *)
PairsA  == 25 * 4
PairsBC == 25 * 6
pipeline_depth ==
  LET Replay(pairs) == Measure(Walking({"buf"}, pairs * 2), 1000, pairs, 2)
  IN  [Program(150, <<perf_init, alloc(<<"buf">>, "none", 0)>>
                      \o Replay(PairsA) \o Replay(PairsBC) \o Replay(PairsBC)
                      \o <<free(<<"buf">>), perf_close>>)
       EXCEPT !.slots = {"buf"}]

(* Eight kernels of K parallel chains, each measured, printed and emitted   *)
(* as a point of the JSON document.                                         *)
ChainInsns == <<64, 64, 63, 64, 60, 60, 63, 64>>

(* Defect: every kernel is declared with 64 instructions. *)
variant_All64(k) ==
  LET kernel == [Straight(ChainInsns[k]) EXCEPT !.control = 2]
  IN  <<WarmShare(kernel), perf_start, Measured(kernel), perf_stop,
        perf_print(1, 64), probe_emit_point(k, 64)>>

variant(k) ==
  LET kernel == [Straight(ChainInsns[k]) EXCEPT !.control = 2]
  IN  <<WarmShare(kernel), perf_start, Measured(kernel), perf_stop,
        perf_print(1, ChainInsns[k]), probe_emit_point(k, ChainInsns[k])>>

ilp_width ==
  Program(64, <<perf_init, probe_begin>>
                \o variant(1) \o variant(2) \o variant(3) \o variant(4)
                \o variant(5) \o variant(6) \o variant(7) \o variant(8)
                \o <<probe_end, perf_close>>)

(* The sweeps count batches of BATCH loads: MIN_BATCHES measured ones after *)
(* five to warm up.  Bounds: SIZES sizes, and NUM_RUNS runs (the code: 5).  *)
SIZES    == 2
NUM_RUNS == 2
MIN_BATCHES == [spike \in BOOLEAN |-> IF spike THEN 2 ELSE 20]

Repeat(statements, n) ==
  [i \in 1 .. n * Len(statements) |-> statements[1 + ((i - 1) % Len(statements))]]

measure(slots) ==
  <<Warm(Batch(slots), 5), perf_start, Measured(Batch(slots)), perf_stop>>
Runs(slots) == Repeat(measure(slots), NUM_RUNS)

(* tlb_size: a chain that cannot be built costs its row, and the sweep goes *)
(* on with the next number of pages.                                        *)
tlb_size ==
  LET runs == Runs({"buf"}) \o <<free(<<"buf">>)>>
      row  == <<alloc(<<"buf">>, "checked", Len(runs) + 1)>> \o runs
  IN  [nloop |-> MIN_BATCHES, slots |-> {"buf"},
       main  |-> <<perf_init>> \o Repeat(row, SIZES) \o <<perf_close>>]

(* cache_size: four strategies for each size.  Only the first chain is      *)
(* checked (without it the size is skipped); "order" never is.              *)
NUM_CHAINS == 4
cache_size ==
  LET bufs     == <<"bufs0", "bufs1", "bufs2", "bufs3">>
      single   == Runs({"buf"}) \o <<free(<<"buf">>)>>
      multi    == <<alloc(bufs, "unchecked", 1)>>
                    \o Runs({bufs[c] : c \in 1 .. NUM_CHAINS}) \o <<free(bufs)>>
      hardened == <<alloc(<<"buf">>, "unchecked", 1)>> \o single \o multi \o multi
      size     == <<alloc(<<"buf">>, "unchecked", Len(single \o hardened) + 1)>>
                    \o single \o hardened
  IN  [nloop |-> MIN_BATCHES, slots |-> {"buf"} \cup {bufs[c] : c \in 1 .. NUM_CHAINS},
       main  |-> <<perf_init>> \o Repeat(size, SIZES) \o <<perf_close>>]

(* The main of Embench: initialise_benchmark and warm_caches, one run of    *)
(* the benchmark in the window, a stop_trigger that prints and closes, and  *)
(* only then the verification of the result.                               *)
embench ==
  [nloop |-> [spike \in BOOLEAN |-> 1], slots |-> {},
   main  |-> <<[op |-> "initialise_board"], Warm(Repetition, 1), Warm(Repetition, 1),
               perf_start, Measured(Repetition), [op |-> "stop_trigger"],
               verify_benchmark>>]

-----------------------------------------------------------------------------
SweepTests == {pipeline_depth, ilp_width, tlb_size, cache_size, embench}
=============================================================================
