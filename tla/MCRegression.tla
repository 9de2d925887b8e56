---------------------------- MODULE MCRegression ----------------------------
(***************************************************************************)
(* Five command lines for a list of a generated and a directed test: one   *)
(* of the two invoked twice, so that files, builds and simulations of the  *)
(* first invocation meet the second; and both at once, on a pool of two    *)
(* with directories of their own, with one directory for both (a duplicate *)
(* entry of the test list), and without a pool.                            *)
(***************************************************************************)
EXTENDS Regression

MCNumJobs == 2
MCSource == <<"riscvdv", "directed">>
Line(tests, runs, workers, warn, binary, here, dir) ==
  [tests |-> tests, runs |-> runs, workers |-> workers, warn |-> warn,
   binary |-> binary, here |-> here, dir |-> dir]
Own == <<"d1", "d2">>
Shared == <<"d1", "d1">>
MCOptions ==
  {Line({1}, 2, 2, TRUE, FALSE, TRUE, Own), Line({2}, 2, 1, FALSE, TRUE, FALSE, Own),
   Line(1..2, 1, 2, FALSE, FALSE, TRUE, Own), Line(1..2, 1, 2, TRUE, TRUE, TRUE, Shared),
   Line(1..2, 1, 1, FALSE, FALSE, TRUE, Own)}
MCSimLogs == {{}, {"pass", "warning"}, {"pass", "timeout"}}
MCMaxRuns == 2
=============================================================================
