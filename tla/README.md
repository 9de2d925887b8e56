# A TLA+ model of the EH2 verification platform

The repository verifies the VeeR EH2 core: a UVM testbench drives the RTL,
monitors report what it retires, and a co-simulation scoreboard compares every
retired instruction with Spike through a C++ layer. Python scripts run the
regressions and decide the sign-off. This directory models the parts of that
platform that hold state and can go wrong by the order of events, checks them
with TLC on small instances and proves the central ones with TLAPS.

Paths below are relative to the repository (`src/` of this checkout);
`sb:N` is line N of
`dv/uvm/core_eh2/common/cosim_agent/eh2_cosim_scoreboard.sv`.

## 1. Inventory

| Component | State it keeps | Operations | Interacts with |
|---|---|---|---|
| Co-simulation scoreboard (`eh2_cosim_scoreboard.sv`) | three FIFOs, per-hart queues of retired instructions and of writeback hints, one queue of bus transactions, store counters, mismatch and step counts, last interrupt word | `run_cosim_trace`, `run_cosim_probe_async`, `run_cosim_dmem`, `process_pending_trace`, `compare_instruction`, `run_reset_monitor`, `report_phase` | monitors (analysis ports), Spike (DPI calls) |
| Trace monitor, probe monitor (`trace_agent/`) | tag counter, `wb_seq` on the probe interface | `monitor_trace`, `monitor_division`, `monitor_nb_load` | core pins, scoreboard FIFOs, each other through `wb_seq` |
| AXI4 monitor, driver, slave memory (`axi4_agent/`, `shared/rtl/axi4_slave_mem.sv`) | channel state machines, burst counters, error-injection sidebands | handshakes, bursts, injection | core bus, scoreboard |
| Spike co-simulation (`dv/cosim/spike_cosim.cc`) | Spike processors, NMI mode and stack, pending D-side accesses, fetch error, error list | `step`, `set_mip`, `set_nmi`, `set_debug_req`, `notify_dside_access`, CSR fixups | scoreboard |
| Interrupt, halt/run, JTAG drivers | scheduled de-assertions, request pins | sequence items | sequences, core pins |
| Base test (`tests/core_eh2_base_test.sv`) | completion flags, double-fault count | `run_phase`, `wait_for_completion` and its four ways, the reports | mailbox of the bench top, sequences, scoreboard, log |
| Regression runner (`scripts/run_regress.py`, `run_rtl.py`, `check_logs.py`) | a pool of workers, per test a log, `<test>_<seed>.pkl` and `result.pkl`, one bench for all | `run_single_test`, `run_rtl`, `check_sim_log`, `run_regression` | compiler, simulator, and through the work directory every earlier invocation |
| Staged flow (`wrapper.mk`, `compile_test.py`, `run_rtl.py`, `check_logs.py`, `collect_results.py`) | the same files, written by one program per recipe | the recipes of make | each other through the files only |
| Sign-off (`scripts/signoff.py`) | stage results, `signoff_status.json`, `signoff_report.md` | run a stage, collect it, merge coverage, evaluate, report; `--gate-only`, `--stage-result` | runners, their reports, pickles and logs, coverage reports |
| Compliance runner (`riscv_compliance/scripts/*.py`) | signatures, logs, a report per suite and one for all | compile, simulate, compare, collect | mailbox of the bench, sign-off gate |
| CSR unit environment, formal, coverage, HTML report, docs | tables and files | sequential | sign-off |

What is hard in it:

* **Interleaving.** Three consumer processes, a reset process and five monitor
  processes wake at the same clock edges in an order the language leaves open.
* **Ordering.** Instructions, hints and bus transactions of one instruction
  arrive separately and in any order; a tag that is sampled, not sent, ties
  them together.
* **Stalling.** The queues drain only when something arrives; a gate that never
  opens, or an arrival that drains nobody, stops the comparison silently.
* **Reset.** The scoreboard starts afresh at any moment while the bus monitor
  goes on.
* **Files that outlive their run.** Scripts find each other's results on disk; a
  killed runner, a failed build or a second invocation leaves old ones behind.
* **Several readings.** A log is classified up to four times, by programs that
  pass different options and return codes.
* **Limits.** `wb_seq` is 16 bits wide; the other queues have no bound.

`PROJECT.json` lists each hazard at its line.

What makes each component correct:

* scoreboard: instructions are compared once each, in order, when their bus
  write or hint is there and not before; nothing that could be compared waits;
  Spike is told the right interrupt history; the verdict reflects what was
  found;
* monitors: tags are unique and ordered, and tie a hint to its instruction;
* bus monitor and slave: every handshake is reported once with its own data,
  a response follows every request;
* Spike layer: an access, an interrupt and a trap are consumed by the
  instruction they belong to, and errors are not lost;
* drivers: a pin returns to rest when the newest request says so, and never by
  an older one;
* scripts: a test that failed or never ran in this invocation is not counted as
  passed, or not without a trace; the readings of one log agree; every
  invocation ends, and its reports and exit code say the same.

## 2. Plan

1. `CosimScoreboard` with `Lockstep` (what it promises), `CosimPipeline` (with
   the monitors) and `CosimScoreboardProofs`. **Done, described below.**
2. `SpikeCosim`, the C++ layer, with `CosimLoop`, the calls the scoreboard makes
   into it, and `CosimLoopProofs`. **Done, described below.** Left of it: use
   `step` as the outcome of `compare_instruction` in `CosimScoreboard`, where
   `matched` is still a free choice.
3. `CsrWarl`: `fixup_csr` as functions, checked against the legal values of each
   register (idempotence, legality).
4. `AxiBus`: slave memory, injector and monitor of the LSU bus, with `AxiMemory`
   (what a memory promises); the proofs are in `TestRunProofs`. **Done, described below.**
5. `TestRun`: the base test, the mailbox and the verdict of the log, on top of
   `AxiBus` and `SimLog`, with `TestRunProofs`. **Done, described below.** Left:
   `Drivers` (interrupt pulses, JTAG).
6. The scripts: `SimLog`, `Regression`, `StagedRegression`, `StageGate`,
   `SignOff`, `Compliance`, with `RegressionProofs`, `StagedRegressionProofs`,
   `SignOffProofs` and `ComplianceProofs`. **Done, described below.**
7. Proofs: every safety and action property and both refinements that a passing
   run checks are proved (section 5). **Done.** Left: the type invariants of
   `SignOff` and `Compliance`, invariants of the later modules.

Nothing that will be proved about uses a RECURSIVE operator; queue operations
come from `SequencesExt`.

## 3. Modules

| Module | What it is |
|---|---|
| `CosimScoreboard` | the scoreboard: one action per process and function; the refinement mapping to `Lockstep` |
| `Lockstep` | abstract: each hart's instructions compared one at a time in retirement order, and an honest verdict |
| `MCCosimScoreboard` | instances for TLC |
| `CosimPipeline` | the scoreboard with trace, probe and bus monitors and an external dual-issue core |
| `MCCosimPipeline` | instance for TLC |
| `CosimScoreboardProofs`, `CosimPipelineProofs` | theorems and proofs |
| `SpikeCosim` | the C++ layer: one operator per DPI call |
| `CosimLoop` | the calls `compare_instruction` makes for one instruction, in order, into `SpikeCosim` |
| `MCCosimLoop` | instances for TLC |
| `CosimLoopProofs` | theorems and proofs |
| `SimLog` | what a log says of a test (`check_logs.py`); used by all that follow |
| `Regression`, `MCRegression` | one `run_regress.py` with its pool, invoked repeatedly on one directory |
| `StagedRegression`, `MCStagedRegression` | the staged flow of one test, make invoked repeatedly |
| `StageGate` | the gate of `signoff.py` as operators |
| `SignOff`, `MCSignOff` | `signoff.py` with its runners, invoked repeatedly; composes `StageGate` |
| `Compliance`, `MCCompliance` | the compliance runner, its collector and the gate, repeatedly; composes `StageGate` |
| `RegressionProofs`, `StagedRegressionProofs`, `SignOffProofs`, `ComplianceProofs` | theorems and proofs |
| `AxiBus`, `MCAxiBus` | the LSU bus: memory, error injector and monitor at one clock |
| `AxiMemory` | abstract: every write stored and answered, every read told what the memory holds |
| `TestRun`, `MCTestRun` | one simulation: run phase, mailbox, reports; composes `AxiBus` and `SimLog` |
| `TestRunProofs` | theorems and proofs, of the bus and of the test |

### CosimScoreboard

Variables carry the names of the SystemVerilog fields. Four are the model's own:

* `calls`: `process_pending_trace` is a function, so no other process runs
  until it returns. The model executes one loop iteration per step and keeps
  the harts still to drain in `calls`; the consumers, monitors, reset and
  report wait for `Idle` (`calls` empty).
* `dpi`: the calls into Spike made by the current step, read only by
  properties.
* `spike_mip`: the interrupt word of the Spike hart (external).
* `phase`: `reset` (rst_n low), `run`, `fatal` (after `uvm_fatal`), `done`
  (after `report_phase`). The consumers do not look at `reset_active`
  (sb:206-275), so they run in `reset` too; the trace and probe monitors do not.

| Action | Code |
|---|---|
| `TraceWrite`, `ProbeWrite`, `AxiWrite` | analysis ports (`core_eh2_env.sv:151-164`), any item of a given set |
| `run_cosim_trace`, `run_cosim_probe_async`, `run_cosim_dmem` | sb:206-275, with `enqueue_memory_accesses` |
| `ProcessExit` | the loop of sb:291-327 ends: queue empty or head gated (`Blocked`) |
| `compare_irq_only` | pop and the early return of sb:575-610 |
| `compare_instruction` | pop, hint, notifications, `riscv_cosim_step`, trap CSRs, sb:565-703 |
| `flush_state`, `init_cosim` | negative and positive edge of rst_n, sb:166-203 and 719-785 |
| `report_phase` | sb:795-847 |

Spike is external here: `matched` (the result of the step) and `csr` (how many
of `mcause` and `mepc` differ) are free choices, so every property holds
whatever Spike answers. Instructions carry the class the predicates of
`eh2_trace_seq_item.sv` assign (`Kinds`; `cmem` is a compressed load or store,
which the code tells apart by `writes_rd()`, so `c.lwsp x0` counts as a store in
the model as in the code), a destination, a tag, an interrupt word, and the
trap flags.

### CosimPipeline

The core is external (the RTL is not in the repository). At a clock edge it
retires zero, one or two instructions and drives the pins of the division unit,
the non-blocking load port and the bus; each monitor process then runs once, in
any order, interleaved with the scoreboard, and the next edge comes when all
have come to rest, as simulation time does not advance before. What is assumed
of the core: at most one division outstanding and one load per destination; the
result is written back at the retirement edge or later; stores reach the bus in
order, one write per store, or one for two with `MergeStores`, which the core's
store buffer does and `pipeline` lets it do; `merged` counts, for the properties
only, the stores that got no write of their own. The monitors report hart 0
only (`eh2_trace_monitor.sv:83-174`, and the probe monitor never sets
`thread_id`). Tags: hints carry the counter, `wb_seq` its low bits
(`OnInterface`), retired instructions what `wb_seq` shows when their monitor
runs.

### SpikeCosim and CosimLoop

`spike_cosim.cc:N` is line N of `dv/cosim/spike_cosim.cc`.

| Variable | Code |
|---|---|
| `errors` | number of strings in `errors` (`spike_cosim.h:91`), one list for all harts |
| `active_thread` | hart the memory callbacks use, `spike_cosim.cc:340` |
| `thread_state` | `PerThreadState`: NMI mode, its saved trap state, the fetch error |
| `pending_dside_accesses` | the queue of `PerThreadState` that `check_mem_access` consumes |
| `hart` | the Spike processor, external: what the layer reads and writes of it |
| `item`, `todo`, `prev_mip` | the instruction compared, the calls left to make, the word of sb:579 and 646 |

| Definition | Code |
|---|---|
| `Compare`, `Calls`, `Call...` | sb:575-713, one action per DPI call, in the order of the code |
| `check_mem_access`, `is_widened_load_pair`, `Erase` | `spike_cosim.cc` 1345-1587 |
| `set_mip`, `set_nmi`, `early_interrupt_handle` | `spike_cosim.cc` 278-297 and 759-830 |
| `step_refused`, `check_debug_ebreak`, `step_throws`, `step_traps`, `step_retires` | the ways out of `step`, `spike_cosim.cc` 303-552 |
| `judged` | for the properties only: which way the last step went (`StepKind`), its accesses and its result |

Which event one `proc->step(1)` produces (retire, trap, exception), at which PC,
with which register and memory accesses, is a free choice: `Event`. `hart.trap`
stands for `mcause` and `mepc` together: it says which trap they describe. A CSR
instruction may change interrupt enables or overwrite them.

Left out, because no step of the layer depends on them: register contents (a
difference of data never fails a step), CSR values and their fixups, the cycle
counter, `insn_cnt`, the retry of atomics. The misaligned flags are left out
because the scoreboard always passes 0.

### SimLog

A log is a set of line kinds, each tagged with the number of the invocation that
printed it; the regular expressions of `check_logs.py` are abstracted to the kind
they give a line. `LogMode` is the order of tests in `check_uvm_log`, `CheckLog`
is `check_sim_log`: a missing file is `FILE_ERROR`, and the exit code counts only
when there is no pass marker.

In all four modules of the scripts a file carries the number of the invocation
that wrote it, 0 for no file. That is what makes "left by an earlier run" a
statement about the state.

### Regression

| Definition | Code |
|---|---|
| `StartTest`, `Generate`, `FindGeneratedAsm`, `Compile`, `CheckResult`, `SaveAndReturn` | `run_single_test`, `run_regress.py` 143-343 |
| `LookForBench`, `LinkBench`, `BuildEnds`, `Launch`, `Simulate` | `run_rtl.py`: the bench is looked for and built by the job that misses it, the log truncated, the simulation checked and pickled |
| `ConfigError` | `run_rtl.py:126-135` and 168-174: no configuration, or no command in it for the simulator |
| `SimTimeout` | `run_captured` kills `run_rtl.py`; a build or a simulation it started goes on |
| `RtlDies` | `run_rtl.py` ends without a verdict, before or after it opened the log, and the parent checks the log that is there |
| `OrphanWrites`, `OrphanEnds` | a simulation whose `run_rtl.py` is gone (`SimulatorSurvives`) writes into the log it has open, or ends |
| `Raise` | an exception in a worker: lost from the report with a pool, the end of the run without |
| `StartRun`, `TestMatrix`, `FinishRun`, `CollectResults` | `run_regression` and a later scan of the pickles |

Two builds of the bench may run in one directory at once: `bench` is `partial`
while a linker writes it. Builds and simulations carry the number of the
invocation that started them (`builds`, `orphans`), as they may outlive it:
`StartRun` waits for neither, so such a build links its simulator while the next
invocation looks for one, and an old simulation prints into the log the next
one truncated, at an offset of its own, over lines of the other (`Written`).
`history` is for the properties only: whether `run_rtl.py` opened the log of a job
in this invocation, and at which stages of it an older simulation wrote there.
`opts.here` tells whether `make compile` writes where `run_rtl.py` looks. Compiler, generator, simulator and linker are external.

### StagedRegression

The recipes of `wrapper.mk` for one test; make is external and its rules decide
which recipe runs. `Stop` is make being stopped between two recipes, `StartMake`
the next invocation. `CompileTest` writes `COMPILE_ERROR` and still returns 0, so
that `run_rtl.py` (`MissingBinary`, `BenchLost`, `ConfigError`, `Simulate`) has
to know from the files what happened before; `CopyLog` and `CheckLogs` are
`check_logs.py`, `CollectResults` is `collect_results.py`.

### StageGate and SignOff

`StageGate` translates the decision functions of `signoff.py`:
`refresh_failure_classification` (`Refresh`), `collect_stage` (`CollectStage`),
the lint, formal and syn collectors, `evaluate_coverage`, `evaluate_signoff`.
Texts of blockers and waivers are tags.

`SignOff` is the main flow. A stage is of kind `regress` (a runner with a pool,
pickles and a report at the end), `csr` (the unit runner, one test after the
other, a report only) or `tool` (a command that leaves a log). `StopRunner` is a
runner that is killed by `run_command` or dies; its simulations become `orphans`
and write their log, and their pickle, whenever they end. `lost` keeps the tests
whose log is not that of one simulation of this invocation: the bench could not
be built and the old log was read (`LoseBench`), or an orphan of an earlier
invocation wrote into it (`Late`). A simulation that truncates the log makes it
good again. `Interrupt` ends
`signoff.py` at any point. `Loaded` is `load_stage_summary`: the report if there
is one, whoever wrote it, else the pickles.

### Compliance

`SignatureOf`, `SignatureMatches` and `MailboxPassed` translate the parsing of
the mailbox; a signature is a sequence of words, of which the first write is
skipped. `CompileTest` and `SimulateTest` are one test, `OpenSuite` and
`SkipSuite` the loop over the suites, `Refuse`, `FinishRun` and `Crash` the ends
of a run, `Collect` is `collect_compliance.py`, `SignOff` the gate over its
reports. `Under` says which suites a prefix match on the suite name takes in.

### AxiBus

`mem:N` is line N of `shared/rtl/axi4_slave_mem.sv`. All processes act at the
rising edge of one clock and read what the wires held before it, so `clock_edge`
is one step: the core, both state machines, both halves of the injector and both
halves of the monitor.

| Definition | Code |
|---|---|
| `wr` and `write_idle`, `write_data`, `write_resp` | write machine, mem:88-156, registers and outputs |
| `rd` and `read_idle`, `read_wait`, `read_data` | read machine, mem:177-248 |
| `mem`, `read_mem`, `calc_next_addr` | mem:253-315 |
| `inject`, `sideband`, `Half`, `Mode`, `Forced` | `inject_read_errors`, `inject_write_errors` and the three wires they share, `axi4_driver.sv:92-167` |
| `mon_w`, `mon_r`, `written`, `was_read` | `monitor_writes`, `monitor_reads`, `axi4_monitor.sv:54-169`, and what they published at the last edge |

The core is external: it holds a request until it is taken, offers the data of a
write with its address, and takes every answer at once (`lsu_axi_bready` and
`lsu_axi_rready` are 1, see `docs/sphinx_cn/source/appendix_a_rtl/lsu.rst`). Two
things are left to the order of processes at an edge: the mode, when one half
sets it and the other clears it, and whether a read sees the beat stored at the
same edge. `Data` are the contents of a beat after the write.

`ImplementsMemory` is the refinement: `WriteView` and `ReadView` say which stage
of `AxiMemory` a state of the two machines is.

### TestRun

| Definition | Code |
|---|---|
| `run_phase` | `core_eh2_base_test.sv:133-146`, up to the wait, and the forked form of it in `core_eh2_test_lib.sv` (650-661 is one of some twenty) |
| `mailbox_write`, `mailbox_data`, `MailboxMonitor` | `core_eh2_tb_top.sv:70-127` |
| `Waits`, `limit` | `wait_for_completion`, `core_eh2_base_test.sv:347-378`, and the limits that end it |
| `wait_for_signature` | `core_eh2_base_test.sv:382-399` |
| `report_phase`, `report_summarize` | the scoreboard's verdict (sb:795-837) and `core_eh2_report_server.sv` |
| `Passed` | what `check_logs.py` makes of the lines written (`SimLog`) |

The module extends `AxiBus`: the program is whatever the core may write, the
mailbox is one of the addresses, the tokens are two of the data. `clock` is
`clock_edge` of the bus together with the processes that look at its wires. The
test polls the flag at an edge at which the monitor may set it, so it sees the
flag set or not yet, and reads the data from the wires again; with nothing on
offer the wires hold anything. Each line of `log` names who wrote it. `history`
is for the properties only: the tokens the memory stored and whether the write
of the first was answered and published.

`run_phase` takes no time before the wait: loading is done with the clock held,
and `start_vseq` returns at once, as the body of `core_eh2_vseq` ends in
`join_none` (`core_eh2_vseq.sv:116`). The scoreboard can have something to
complain about only when it was given something, hence a clock (`Clocked`).

## 4. Runs

| Run | Bounds | Checks |
|---|---|---|
| `scoreboard_one` | 1 hart, 7 kinds of items, 3 hints; 3 items, 1 hint and 1 bus transaction between two initialisations | types, `StoreAccounting`, `MipChain`, `StoreTakesWrite`, `HintDiscipline`, and `StoreServed` under fairness |
| `scoreboard_two` | 2 harts, stores, AMOs, a load, an interrupt notification; `FatalOnMismatch` | the shared bus queue: `NoMissedWakeup`, refinement of `Lockstep` |
| `pipeline` | 1 hart, stores, loads of two registers, divisions; dual issue; a core that may merge stores; 3 instructions between initialisations, tags up to 3 and a tag that wraps at 2; 2,359,709 states | types, `TagsIncrease`, `OnlyMergesStrand`, `UnmatchedStaysUnmatched` |
| `loop_traps` | 1 hart, no accesses; 14 instructions: interrupts, NMI by either flag, `mret`, `dret`, CSR writes, debug requests and ebreaks, suppressed writes, traps | `NoErrorLeftOver`, `NmiStackHoldsInterrupted` |
| `loop_mem` | 2 harts, 2 words; widened reads with and without bus error on one, stores on both; at most 2 accesses pending before a notification | `OwnHartOnly`, `DsideFailureHarmless`, `WidenedReadConsumedWhole` |
| `regression` | 5 command lines: the generated test invoked twice, the directed test invoked twice (given binary, bench built elsewhere), both tests at once in a pool, in a pool with one directory for both, and without a pool; 3 kinds of log; 289,812 states | `RTypeOK`, `PassIsEarned`, `SecondCheckAgrees`, `PicklesMatchReport`, and `RegressionEnds` under fairness |
| `staged` | 1 test of either type, 3 makes, 3 kinds of log; 51,945 states | `SGTypeOK`, `PassFromThisMake`, `CompileErrorKept`, `VerdictsAgree` |
| `signoff` | a stage of 2 tests, a unit stage, a tool stage; a simulation that prints a pass or nothing; 2 invocations, run, replayed and gate-only; 1 worker, 1 orphan; 1,979,402 states | `StalePassNamed`, `PassMeansThreshold`, `ReportsAgree` |
| `compliance` | 3 suites of one test, one with a name that begins with another's, a missing reference, 5 outcomes of a simulation; 2 runs; 1,563,936 states | `ReportedPassIsReal`, `ExitCodeSound` |
| `axi` | 2 addresses, 2 data, single beats, no delay, as in the bench; any overlap of a read and a write, errors injected or not; 23,404 states | `ATypeOK`, `ErrorsOnlyWhereChosen`, `MonitorFaithful`, refinement of `AxiMemory`, and `EveryRequestServed` under fairness |
| `testrun` | 2 addresses, one of them the mailbox; the two tokens and one other beat; no injected errors; the 10 edges of drain of the code; base run phase; 667,899 states | `PassNeedsToken`, `TokenIsHeard`, `DrainSuffices`, and `TokenEndsTest` under fairness |
| `testrun_fork` (violated) | as `testrun`, both forms of the run phase | `PassNeedsToken` |

Why the bounds are enough. `MaxTrace`, `MaxProbe`, `MaxAxi` count what the
monitors hand over since the last `init_cosim`; resets are not bounded, so every
run explores any number of them, at every point. A gate looks at the head of a
queue and at the first match of another, so three instructions show a head, one
held behind it and one still in its FIFO; one hint and one transaction show
both orders with every instruction. Two harts are all the code supports. The
pipeline needs two instructions at an edge, two results, and one more store or
load to be affected; `TagModulus` 2 makes the 16-bit wrap happen within the
bound. The items of a run are those the gates treat differently: widening the
sets repeats them. The loop has no bound on instructions or resets in `loop_traps`,
where nothing accumulates: it is explored completely. In `loop_mem` only the
queue of pending accesses grows: two left by earlier instructions and two
notified now give the pair, the access before it and the one behind it; two
words distinguish the halves of a widened read. The theorems of section 5 have
no bounds.

Files are overwritten, so the scripts need two invocations to show what the first
leaves for the second, and the staged flow three, as a record of the first has to
outlive a failure in the second and be read in the third. In `regression` the
command lines that are invoked twice (`opts.runs`) run one test (`opts.tests`),
with its builds and simulations of both invocations at once; those that run two
tests are invoked once. That files, builds and simulations of several tests and
invocations do not meet in another way is what the proof shows. Two jobs show each
interleaving of two users of one bench or one directory; what a job does to a
third is what it does to the second (`Undisturbed`, which is proved). Logs are
chosen to separate the readings: nothing, a pass with a warning, a pass that the
limit of 600 s cut short, or with a fatal line. In `signoff` one worker keeps the state space small: the tests of a
stage touch disjoint files, and an orphan of the first invocation next to a
simulation of the second gives two writers of one log. `MaxFailPct` is scaled to
two tests, so that one waived failure is possible. The two tests of `signoff` are
symmetric, and no liveness is checked there.

The bus has no bound on transactions: `axi` is explored completely. Each machine
serves one request at a time, so what can interfere is one write, one read and
what is waiting behind each; two addresses make a wrong one visible, two data a
stale one, and a write and a read to one address collide.

`testrun` has no bound either: the log is a set of lines and the drain counts
down. One address besides the mailbox and one beat besides the tokens show a
write that is not meant for the mailbox and one that does not end the test.

The type invariants `LoopTypeOK`, `SOTypeOK` and `CTypeOK` are in no run; they hold
in the instances of `loop_traps`, `signoff` and `compliance`, and `LoopTypeOK` is
proved. To check one, add it to the cfg.

Deadlock is checked in `axi`, whose clock never stops. It is not checked in the
other runs because the system stops: at the end of test, after a fatal mismatch,
and when a monitor has nothing more to say.

Fairness (`FairSpec`, for `StoreServed` only): weak fairness of each consumer
process and of the drain loop. A SystemVerilog simulator runs every process
that is not blocked before time advances, and a function always returns.
Nothing is assumed of monitors, resets or the end of test.

Fairness of `Regression` (for `RegressionEnds`): weak fairness of each job's
steps and of `FinishRun`. `run_captured` gives every subprocess of a job a
timeout, that of `run_rtl.py` (`SimTimeout`) ends the wait for a build too, and
`run_regression` only waits for its futures. Nothing is assumed of builds, of
simulations that lost their `run_rtl.py`, of new invocations or of exceptions.

Fairness of `TestRun` (for `TokenEndsTest`): weak fairness of `clock`, as for the
bus, and of `report_phase`, which UVM runs when the last objection is dropped.
Nothing is assumed of the limits: without the token the test need not end.

Fairness of `AxiBus` (for `EveryRequestServed`): weak fairness of `clock_edge`.
The clock of the bench runs until the simulation ends, and the core takes an
answer at the edge it is offered.

### What the violated runs show

The disagreements named by a cfg below have a run of their own to be started by
hand; `PROJECT.json` lists each as a finding.

* `testrun_fork`: `check_logs.py:159` says that tests "must explicitly report pass
  via mailbox/signature text". Tests that fork their stimulus, `start_vseq` and
  `wait_for_completion` and join the first (`core_eh2_test_lib.sv:654-658`) end at
  time 0, because `start_vseq` returns at once; nothing was traced and no error
  counted, so `core_eh2_report_server` prints "TEST PASSED" and the log passes.
  The comment at `core_eh2_test_lib.sv:537` names the effect and avoids it in one
  other test. `riscv_irq_nest_test` and `riscv_debug_stress_test` use such tests.

* `MCCosimScoreboard_irq.cfg`: sb:573-574 says an interrupt notification stands for no
  instruction, but the gates and the pop (sb:295-320) treat it like the
  instruction in its `insn` field. It waits for a bus write and takes the one
  of the store that is restarted after the interrupt.
* `MCCosimPipeline_report.cfg`: ADR-0018 promises a `uvm_error` and a mismatch for a hint
  of the right source with a wrong tag. The gate at sb:309 leaves the loop
  before `try_consume_async_wb` can say so: `WrongTag` never holds in
  `compare_instruction` for an instruction that needs a hint.
* `MCCosimPipeline_late.cfg` (`AwaitedHintArrives`): ADR-0018 lets an instruction
  without a hint of its unit wait for the hint to arrive, and sb:277 says the same.
  The trace monitor gives the instruction the tag of the last writeback published;
  a result that comes later has the next tag, and never fits. With
  `TagOnInterface` in the place of `AwaitedHintArrives` the cfg shows that `wb_seq`,
  16 bits wide, is no longer the tag of any hint once the counter passes them
  (`eh2_dut_probe_if.sv:73` says it is read to match hints).
* `MCCosimPipeline_own.cfg`: ADR-0018 promises deterministic association per instruction.
  Both lanes sample one `wb_seq`, so the first of two loads retired together
  can be compared with the result of the second.
* `MCCosimPipeline_merge.cfg`: the comment at sb:68-71 lets a coalesced store proceed when
  more stores were stepped than writes delivered (`NoStoreStranded`).
  `StoreAccounting` says that this never happens. `OnlyMergesStrand`, which
  `pipeline` checks with a core that merges, says what happens instead: each merge
  strands one store, and all that retires behind it, until a reset, and nothing
  else strands any; `report_phase` still prints PASS with a NOTE (sb:825-831).
* `MCCosimLoop_store.cfg`: the comment at `spike_cosim.cc:133` and ADR-0005 say that
  differences of the bytes a store writes reach `step()`. `step` clears the
  messages (line 431) before it compares a retired instruction, so it accepts
  the store. `DsideFailureHarmless` states the other side for every access.
* `MCCosimLoop_irq.cfg`: `set_mip` takes a new interrupt early when `pre_mip` enables one
  the hart did not have. The scoreboard passes the word it sent last, which is
  what the hart holds (`MipChainHolds`), so nothing is ever new, and `mcause`
  and `mepc` of a notification are read before Spike took the interrupt.
* `MCCompliance_relax.cfg` (`NoRelaxation`): `run_compliance.py:11` allows no relaxation, but the gate
  reads the log of a test whose signature differs again (`signoff.py:311`), finds
  the pass marker the mailbox token printed, and counts a pass.
  `ReportedPassIsReal` states what the reports themselves keep to.
* `MCRegression_late.cfg` (`MarkerIsOwn`): `run_rtl.py:180-181` wants the test to
  print its own pass marker. The simulation of an invocation whose `run_rtl.py` was
  killed prints its own into the log this invocation opened, and the test passes
  by that one.
* `MCSignOff_pool.cfg`: `docs/signoff-gates.md:86` says that an assembly test in
  no test list makes the sign-off fail. `signoff.py:1724` looks for it after the
  status is made: it is named among the blockers of a PASS.
* `MCStagedRegression_collect.cfg`: `compile_test.py:456` says that a staged
  regression collects every failure. `run_rtl.py:313` runs the program of an
  earlier make, or half of one, after a failed compilation, and a pass replaces
  the `COMPILE_ERROR`. `CompileErrorKept` states what holds: without any program
  the failure stays.

* `MCAxiBus_inject.cfg` (`ReadErrorDelivered`): `directed_axi4_error_inject.S:32-39` expects that a load chosen for
  an error is answered SLVERR or DECERR. Without delay the memory samples the
  forced response at the edge of the AR handshake (mem:205), at which the injector
  only assigns it, and it is cleared when the read ends: no read ever fails,
  which `ReadsNeverFail` proves. A store's answer comes an edge later or more and
  does carry the error.
* `MCAxiBus_store.cfg` (`WriteErrorDelivered`): the end of an injected read clears
  the mode under a store chosen for an error (`axi4_driver.sv:114`), which is then
  answered OKAY. `ErrorsOnlyWhereChosen` states the other side: no error reaches
  a request that was not chosen.
* `MCAxiBus_delay.cfg` (`EveryRequestServed`): with `RESPONSE_DELAY` 1 the edge
  that sets `bvalid` clears it (mem:143-147) and no write is answered.
* `MCAxiBus_burst.cfg` (`ImplementsMemory`): the second beat of a read burst
  repeats the first (mem:236-238). The bench uses neither a delay nor bursts.

`PassIsEarned`, `SecondCheckAgrees` and `StalePassNamed` name the exceptions they
need, and the instances reach each of them:

* A simulation outlives its runner, because the limits of `run_captured` and
  `run_command` kill the runner only (`run_regress.py:161-168`, `signoff.py:275`),
  and writes into the log the next invocation opened for the same test, which then
  passes by the pass marker of either. `PassIsEarned` and `StalePassNamed` except
  such a log. `SecondCheckAgrees` excepts it only if the older simulation wrote
  between the two readings: a write before the first is seen by both.
* `run_rtl.py` fails or dies before it opened the log: no bench, no answer in
  1800 s, an exception. `run_regress.py:323` then checks the log an earlier
  invocation left (`PassIsEarned`, and `StalePassNamed` for the bench).
* A configuration error leaves a log without a known line, which the parent calls
  `SIM_ERROR` (`SecondCheckAgrees`).

`UnmatchedStaysUnmatched` states what the code does where ADR-0018 says the
opposite (`AwaitedHintArrives` above): an instruction that no published hint fits
when its monitor hands it over is fitted by none of those to come, because tags
only grow.

## 5. Proofs

`CosimScoreboardProofs` proves, for any number of harts, any sets of
instructions and hints, any bounds, and either value of `FatalOnMismatch`:

| Theorem | Statement |
|---|---|
| `TypeCorrect` | `Spec => []TypeOK` |
| `StoreAccountingHolds` | `Spec => []StoreAccounting` |
| `StoreTakesWriteHolds` | `Spec => StoreTakesWrite` |
| `NoMissedWakeupHolds` | `Spec => []NoMissedWakeup` |
| `MipChainHolds` | `Spec => []MipChain` |
| `HintDisciplineHolds` | `Spec => HintDiscipline` |
| `LockstepRefined` | `Spec => ImplementsLockstep` |

The only assumption is `ConstantsOK` of `CosimScoreboard`, which TLC evaluates
on every instance.

The argument. `TypeOK` is inductive; its work is in what `RemoveFirstMatch`
leaves of a queue (`WithoutAccessProperties`, `WithoutHintProperties`).
`StoreAccounting` is inductive given `TypeOK`: a comparison of a store takes one
write out of the queue (`StoreTakesAccess`, which needs the bypass closed, which
is what `StoreAccounting` says of the state before) and counts one store
(`PopAccount`). With the bypass closed, `StoreTakesWrite` follows for one step.
`NoMissedWakeup` is not inductive: it says nothing while a drain is under way.
Its inductive form `Wakeups` says that every hart not in `calls` is blocked. It
needs that a comparison of one hart cannot release another (`BlockedByOther`):
the comparison only removes transactions and hints, its hints are its own
hart's, and `store_trace_stepped`, which could open the bypass of another hart,
stays below `store_axi_delivered` by `StoreAccounting`.
`HintDiscipline` follows from the gate and from what `WithoutHint` removes
(`ConsumedHint`).

`LockstepRefined` is the refinement, step by step (`StepRefinesLockstep`). The
mapping takes a hart's backlog to be its queue followed by what the FIFO holds of
it, and numbers the places of that hart in the FIFO by their rank (`RankIn`,
`Nth`), so that no recursion is needed: `Ranks`, `NthOfRank` and `OfHartType` say
that ranks and places correspond. A hand-over appends to the backlog of the hart
concerned only, `run_cosim_trace` moves an instruction within it, a comparison
takes its head. `NothingUnderReset`, that all queues are empty while `rst_n` is
low, is the invariant it needs besides `TypeOK`.

`CosimPipelineProofs` proves, for any instructions the core retires, any width of
the tag on the probe interface, any bounds and any order of the processes:

| Theorem | Statement |
|---|---|
| `PipelineTypeCorrect` | `PSpec => []PTypeOK` |
| `TagsIncreaseHolds` | `PSpec => []TagsIncrease` |
| `UnmatchedStaysUnmatchedHolds` | `PSpec => UnmatchedStaysUnmatched` |
| `OnlyMergesStrandHolds` | `PSpec => []OnlyMergesStrand`, whether stores merge or not |

The assumptions are `ConstantsOK` and `PipelineConstantsOK`. A step of the
scoreboard in the pipeline is a step of `CosimScoreboard` (`ScoreboardIsNext`), so
its invariants are used again; only the monitors and the core are new cases.
`TagsOrdered` splits the order of the tags over the two queues a hint passes and
the counter, which is above all of them; a removal keeps it (`RemoveInOrder`),
publishing adds the largest (`PublishInOrder`). That the monitors report hart 0
only (`HartZeroOnly`) is needed, as tags are ordered per hart. For
`UnmatchedStaysUnmatched`: the low bits the interface shows are not more than the
tag they are taken from, so the tag of an instruction is below the counter, which
is the tag of the next hint (`NewHints`). `OnlyMergesStrand` speaks of an edge that is over; the inductive form
of its first half, `StoresKept`, is an equality over all the places of an edge: the
stores on the way to a comparison are as many as the writes on the way to the
queue, those still in the store buffer, and the merged ones. Each step moves a
store and a write from one place to the next, takes one of both (`ComparisonKeeps`),
or merges two (`EdgeKeeps`); `Balanced` is the arithmetic all of them share. The
second half, that no store waits while there is a write for it, is `Wakeups` of the
scoreboard, kept in the pipeline (`PWakeupsStep`).

`CosimLoopProofs` proves, for any number of harts, any instructions, any
interrupt lines, any accesses and any bound:

| Theorem | Statement |
|---|---|
| `LoopInvariant` | `Spec => []LoopInv` |
| `NoErrorLeftOverHolds` | `Spec => []NoErrorLeftOver` |
| `NmiStackHolds` | `Spec => []NmiStackHoldsInterrupted` |
| `OwnHartOnlyHolds` | `Spec => OwnHartOnly` |
| `LoopTypeCorrect` | `Spec => []LoopTypeOK` |
| `DsideFailureHarmlessHolds` | `Spec => DsideFailureHarmless` |
| `WidenedReadConsumedWholeHolds` | `Spec => WidenedReadConsumedWhole` |

The assumptions are `SpikeConstantsOK` and `LoopConstantsOK`. None of the first
three properties is inductive. `NoErrorLeftOver` says nothing while calls are under
way; `MessagesAreOfStep` adds that messages exist only when the next call is the
one that clears them. That needs that no call but `step` adds any, hence that
`early_interrupt_handle` always finds an interrupt to take: `set_nmi` calls it
with the NMI pending, `set_mip` with an enabled line (`SetNmiOnlyHart`,
`SetMipOnlyHart`). `NmiStackHoldsInterrupted` needs the other half of `ThreadOK`:
outside NMI mode the trap CSRs do not describe an NMI, which leaving NMI mode
restores and which holds because no call leaves an NMI pending in the hart. Each
call has a lemma that it changes only its hart and keeps that invariant
(`OnlyHart`); `step` has one for each of its ways out.

What an instruction's accesses leave of the queue is a fold over them
(`CheckAll`), which `FoldLeft` of the community modules defines by a recursive
function. The theorems on induction take a formula as a parameter and cannot be
used, but induction can be stated for a set: the numbers not in it have no least
one (`NatInduct`, from the well-foundedness of `<`). With it `FoldExists` shows
that the function exists, and `CheckAllSteps` that the result is the last of a
sequence of states in which each follows from the one before by
`check_mem_access`. From this the queues keep their type however many accesses an
instruction makes (`CheckTyped`, `KeptTyped`), and one access that agrees with a
half of a widened read takes both halves with it (`WidenedReadErased`).

`RegressionProofs` proves, for any number of tests, workers, command lines, work
directories and invocations, and any logs:

| Theorem | Statement |
|---|---|
| `RegressionInvariant` | `Spec => []RegressionInv` |
| `RegressionTypeCorrect` | `Spec => []RTypeOK` |
| `PassIsEarnedHolds` | `Spec => []PassIsEarned` |
| `SecondCheckAgreesHolds` | `Spec => []SecondCheckAgrees` |
| `PicklesMatchReportHolds` | `Spec => []PicklesMatchReport` |

The assumptions are the named ones of `Regression`. The properties speak of a job
that is done; `JobOK` adds what holds of its files at every stage before (`UnderWay`):
the program is of this invocation once compiled, no verdict of this invocation is
recorded before the simulation, and the log it opened holds only this invocation's
lines, unless an older simulation wrote into it (`OwnLog`, by `history`). What
`run_rtl.py` recorded is what it makes of the log as it is now, as long as nobody
wrote there since (`Recorded`). `OrphanWritesOK` is the case of that writer: it is
of an older invocation, so `history` records it, or of this one, and then there is
no verdict to disagree with (`Abandoned`). `Undisturbed` shows that any other step
of another job leaves the job's files alone if the directory is its own, so one
lemma per action about the job that moves is enough. `RunsBounded` makes a new
invocation different from every recorded one. `CheckedTwice` compares the two readings of one
log. `PicklesMatchReport` compares two sums, over the results of the jobs and over
the pickles of the directories. `PickleInv` says that a job that is done has left
its result in its directory (`Pickled`), that a directory of no job holds nothing
(`Elsewhere`), and that the report is that of the results (`Reported`); then each
sum has one term for each job and the terms are the same.

`StagedRegressionProofs` proves, for any logs and any number of makes,
`StagedInvariant`, `StagedTypeCorrect` (`SGTypeOK`), `PassFromThisMakeHolds`,
`CompileErrorKeptHolds` and `VerdictsAgreeHolds`. `StagedInv` adds what one recipe
leaves for the next: the record of `run_rtl.py` is of this make when the check
reads it, and either a failure before the simulation or what the log says
(`NamedIsCurrent`); without a program every record is of a failed compilation
(`NoProgramYet`).

`SignOffProofs` proves, for every profile, all tests, logs, tool outcomes and
coverage reports, any options and any number of invocations:

| Theorem | Statement |
|---|---|
| `ReportsAgreeHolds` | `Spec => []ReportsAgree` |
| `PassMeansThresholdHolds` | `Spec => []PassMeansThreshold` |
| `StalePassNamedHolds` | `Spec => []StalePassNamed`, if `NoStageTwice` |

`ReportsAgree` is made inductive by the order of the two reports: the markdown
report is never of the invocation under way. `PassMeansThreshold` needs that the
results are those of the stages before `at` (`InOrder`), that each is what
`collect_stage` makes of its tests (`Sound`), and that these are finitely many,
since their numbers are compared: `Finite` follows what the runner, the pickles
and the reports hold.

`StalePassNamed` says something of results only. `StaleInv` follows a pass from
the simulation to the result: the log of a running simulation, and of every pass
the runner holds, is of this invocation or its test is in `lost` (`HeldInv`); a
runner that ended with code 0 left a report of such passes (`ReportInv`); and
every result counted so far names the exit code or rests on such logs
(`ResultsInv`). The stages to come leave those logs alone because a test belongs
to one stage and no stage comes twice. The profiles of `signoff.py` repeat none
(`signoff.py:112-120`); a repeated name in `--stages` would, and its results are
kept by name, hence `NoStageTwice`, which holds in the instance of `signoff`.

`ComplianceProofs` proves, for any suites with any number of tests, any
references, any outcome of a simulation, any options and any number of runs:

| Theorem | Statement |
|---|---|
| `ReportedPassIsRealHolds` | `Spec => []ReportedPassIsReal` |
| `ExitCodeSoundHolds` | `Spec => []ExitCodeSound` |

The assumptions are `SuitesAssumption`, `OptionsAssumption` and
`OutcomesAssumption`: no suite, and no test of a suite, is listed twice. `IInv` has
four parts. `Place`: where the runner is. `Stamps`: a report that carries the
number of this run is of a suite the runner has left. `Held`: of every pass it
reports or holds, the signature and the log on disk vouch for it; the tests to
come write other files (`Distinct`). `Codes`: the exit code is 0 only while every
suite left behind was opened, reported whole and has passed. `ReadIsWritten` and
its like say what the parsing of the mailbox takes from the writes. The instances
for TLC have one test for each suite; that tests of one suite leave each other's
signatures alone is shown by the proof, and TLC checks `IInv` on the same
instance.

`TestRunProofs` proves of the bus, for any addresses, any data and any choice of errors, with
the single beats and the answers without delay of the bench (`Bench`):

| Theorem | Statement |
|---|---|
| `BusInvariant` | `Spec => []BusInv` |
| `BusTypes` | `Spec => []ATypeOK` |
| `ErrorsOnlyWhereChosenHolds` | `Spec => []ErrorsOnlyWhereChosen` |
| `ReadsNeverFail` | `Spec => [](rd.rresp = "OKAY")` |
| `MonitorFaithfulHolds` | `Spec => MonitorFaithful` |
| `MemoryRefined` | `Spec => ImplementsMemory` |

The assumptions are `BusConstantsOK` and `Bench`, without which the code breaks
two of the properties (see the cfgs above). None of the properties is inductive.
`ErrorsOnlyWhereChosen` says nothing of an error forced but not yet answered:
`InjectOK` adds that a value is forced only while its half waits, and that a half
waits only while the memory serves its request, which rests on the handshakes
each state of a machine can take part in (`WriteOK`, `ReadOK`, `HandshakeFacts`).
That a read is over one edge after it is taken makes its forced value vanish
before the next can see it. `MonitorOK` says that the monitor follows the request
the memory serves. `WriteMoves` and `ReadMoves` say what a machine does at an
edge; the injector, the monitor and the refinement use only these.

`TestRunProofs` proves, for any addresses and data, of a test with the base run
phase on the bus of the bench (`Base`):

| Theorem | Statement |
|---|---|
| `RunInvariant` | `TestSpec => []RunInv` |
| `PassNeedsTokenHolds` | `TestSpec => []PassNeedsToken` |
| `TokenIsHeardHolds` | `TestSpec => []TokenIsHeard` |
| `DrainSufficesHolds` | `TestSpec => []DrainSuffices`, if `Drain >= 2` |

The assumptions are `TestConstantsOK`, `BusConstantsOK` and `Base`. The
properties speak of the end only. `RunInv` follows the token from the wires to
the end: `TokenMoves` says what an edge does to the write that carries it, given
that a write offers its data with its address (`Offered`), and `FlagOK` that the
test acts on the flag while those data are still on the wires, so that what it
reads is the token (`SeesToken`). `Logged` and `Honest` relate each line of the
log to the tokens written, and `DrainOK` says how far the write is with each edge
of the drain: two edges are enough, the code lets ten pass. The steps of the bus
are the lemmas about the bus (`WriteMoves`, `Published`).

Three things came out of attempts to prove and changed the model:

* `DestsOf` of `CosimPipeline` let the core write a load back to `x0`, for which no
  hint is ever published.
* `CosimLoop` recorded a step that `check_suppress_reg_write` refuses
  (`spike_cosim.cc:326-331`) as the retirement of an instruction the hart never
  executed; `DsideFailureHarmless` is false of those. `StepKind` tells them apart.
* `StalePassNamed` needed its second exception, the simulation that outlived its
  runner (section 4), which TLC had not met while every simulation printed
  something.

Only model-checked: `StoreServed`, `RegressionEnds`, `EveryRequestServed` and
`TokenEndsTest`, as liveness under fairness is out of the prover's reach.
`SOTypeOK` and `CTypeOK` are documentation: what the proofs need of them is in
their invariants.

## 6. Not modelled

* In `CosimScoreboard`, addresses and data of bus transactions and of
  writebacks: its gates never look at them. The accesses
  `notify_memory_access` makes of a transaction are items of `CosimLoop`.
* Statistics nothing reads (`pending_trace_high_watermark`, `insn_cnt`,
  `suppressed_probe_item_count`, `observed_access_count`), log messages.
* In `CosimScoreboard`, debug request, NMI and cycle-counter words: they are
  passed on from the item, and what they do is in `CosimLoop`.
* Binary loading and memory regions in `init_cosim`, the missing-handle and
  missing-interface paths (`enable_cosim` off, no probe interface).
* In `AxiBus`: ids, partial strobes, FIXED and WRAP bursts, the backdoor tasks
  that load a program, the statistics of the injector, a reset after the start
  (the bench gives one), and the same memory on the IFU and SB buses, which have
  no injector set to active.
* In `TestRun`: how a program is loaded (a failed load is one fatal line), the
  sequences and the drivers, the halt helpers, signatures in CSR form, and which
  of the three limits ends the test.
* Interrupts and exceptions in `CosimPipeline` (they are in `CosimScoreboard`).
* The 32-bit width of the `int` counters.
* In the scripts: command lines, YAML test lists and their filters
  (`gen_testlist.py`), metadata creation and its lock (`metadata.py`,
  `create_metadata`), the search for tools, trend files, the texts of reports.
  Expiry dates of waivers are read by nothing that decides. Of the compliance
  runner: `--test`, `--list-tests` and the fall-back to `SIGNATURE:` lines.
  `merge_cov.py` calls vendor tools; the model has what the gate makes of the
  reports. A `report.json` that a killed unit runner still writes is left out.
* In `Regression`: a worker of the pool that is itself killed, whose `run_rtl.py`
  would go on (the pool then breaks and the run ends in an exception); a child of a
  killed generator or compiler that still writes its assembly file or program
  after the limit. `hex` is written by `compile_test.py` itself, so a killed one
  leaves none of a later time.
* The components of section 1 that section 2 plans for later, and those that
  are only files, tables or layout: formal properties of the RTL, which is not
  in the repository, HTML reports (`gen_html_report.py`), synthesis and
  lint flows, of which the gate's reading of their logs is modelled.
