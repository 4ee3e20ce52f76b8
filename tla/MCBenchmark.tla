---------------------------- MODULE MCBenchmark ----------------------------
(***************************************************************************)
(* Two runs; the pattern of the first matches the bills of the second, as  *)
(* that of round 1 does those of round 10.                                 *)
(***************************************************************************)
EXTENDS Benchmark

FirstCoversSecond == {<<1, 1>>, <<1, 2>>, <<2, 2>>}
=============================================================================
