------------------------------- MODULE SimLog -------------------------------
(***************************************************************************)
(* check_logs.py: what a simulation log says about a test.                 *)
(*                                                                         *)
(* A log is the set of the kinds of line it holds.  The classification of  *)
(* a line by regular expressions is abstracted to its result: one of       *)
(* LineKinds, or no kind at all (banners, summary lines with a zero count  *)
(* and the lines of the report catcher, which the checker skips).  A       *)
(* summary line with a count is of the kind of its severity.               *)
(***************************************************************************)

LineKinds == {"crash", "timeout", "fatal", "fail", "error", "warning", "pass"}

\* The modes recorded before a simulation was launched.
PreSimFailureModes ==
  {"GEN_ERROR", "GEN_TIMEOUT", "GEN_NO_ASM", "COMPILE_ERROR",
   "COMPILE_TIMEOUT", "DIRECTED_ASM_MISSING", "BINARY_MISSING"}

LogModes == {"SIM_CRASH", "SIM_TIMEOUT", "UVM_FATAL", "TEST_FAIL", "UVM_ERROR",
             "SIM_ERROR", "TOOL_WARNING", "NONE", "NO_PASS_SIGNATURE"}

FailureModes == PreSimFailureModes \union LogModes \union
                {"", "FILE_ERROR", "CONFIG_ERROR"}

Verdict(passed, mode) == [passed |-> passed, mode |-> mode]

Verdicts == [passed : BOOLEAN, mode : FailureModes]

\* check_uvm_log on a log that exists.  failed says that the return code the
\* caller passes is neither None nor 0.  The order of the tests is the order of
\* the code; UVM_ERROR counts the fatal lines too, but has_fatal is read first.
LogMode(lines, failOnWarnings, failed) ==
  IF "crash" \in lines THEN "SIM_CRASH"
  ELSE IF "timeout" \in lines THEN "SIM_TIMEOUT"
  ELSE IF "fatal" \in lines THEN "UVM_FATAL"
  ELSE IF "fail" \in lines THEN "TEST_FAIL"
  ELSE IF "error" \in lines THEN "UVM_ERROR"
  ELSE IF failed /\ "pass" \notin lines THEN "SIM_ERROR"
  ELSE IF failOnWarnings /\ "warning" \in lines THEN "TOOL_WARNING"
  ELSE IF "pass" \in lines THEN "NONE"
  ELSE "NO_PASS_SIGNATURE"

CheckLines(lines, failOnWarnings, failed) ==
  LET mode == LogMode(lines, failOnWarnings, failed)
  IN  Verdict(mode = "NONE", mode)

(***************************************************************************)
(* Logs on disk outlive the run that wrote them, so each line carries the  *)
(* number of the run that printed it.                                      *)
(***************************************************************************)
Log(lines, run) == [exists |-> TRUE, lines |-> lines \X {run}]

NoLog == [exists |-> FALSE, lines |-> {}]

LogsOf(Runs) == [exists : BOOLEAN, lines : SUBSET (LineKinds \X Runs)]

KindsIn(log) == {line[1] : line \in log.lines}

PassPrinted(log, run) == <<"pass", run>> \in log.lines

\* A plausible bug: a mode that nothing else knows.
CheckLog_missing(log, failOnWarnings, failed) ==
  IF log.exists THEN CheckLines(KindsIn(log), failOnWarnings, failed)
                ELSE Verdict(FALSE, "LOG_MISSING")

\* check_sim_log: the file is read as it is on disk now.
CheckLog(log, failOnWarnings, failed) ==
  IF log.exists THEN CheckLines(KindsIn(log), failOnWarnings, failed)
                ELSE Verdict(FALSE, "FILE_ERROR")
=============================================================================
