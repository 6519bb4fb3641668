----------------------------- MODULE MCBenchmark -----------------------------
(* Model of Benchmark for TLC: two rounds, of two containers each.           *)
EXTENDS Benchmark

TwoRounds == <<2, 2>>
==============================================================================
