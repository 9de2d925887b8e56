------------------------------- MODULE TestRun -------------------------------
(***************************************************************************)
(* One simulation from its start to the verdict of check_logs.py: the run  *)
(* phase of the test (core_eh2_base_test.sv and the tests derived from     *)
(* it), the mailbox through which the program says how it went             *)
(* (core_eh2_tb_top.sv), and the log both write.  The program is external: *)
(* AxiBus has it write what it likes where it likes.                       *)
(*                                                                         *)
(* The steps are the zero-time steps of UVM and the edges of the clock; a  *)
(* process that waits for an edge may run before or after the others of    *)
(* that edge, so it sees what they assign, or not yet.                     *)
(***************************************************************************)
EXTENDS AxiBus, SimLog

CONSTANTS
  MAILBOX,     \* address of the mailbox
  PASS, FAIL,  \* beats that end the test; others are characters or ignored
  Drain,       \* edges wait_for_signature lets pass after the end, 10
  Forms        \* how run_phase is written: "sequence" in core_eh2_base_test,
               \* "fork" in tests that start their stimulus, start_vseq and
               \* wait_for_completion together and wait for the first

ASSUME TestConstantsOK ==
  /\ MAILBOX \in Addrs
  /\ {PASS, FAIL} \subseteq Data /\ PASS # FAIL
  /\ Drain \in Nat \ {0}
  /\ Forms \subseteq {"sequence", "fork"}

VARIABLES
  mailbox_test_done,
  test,    \* the run phase: its form, where it is, edges it still lets pass
  log,     \* lines written so far, with who wrote them
  history  \* for the properties only: the tokens the memory stored at the
           \* mailbox, and whether the write of the first was answered and
           \* published by the bus monitor

tvars == <<vars, mailbox_test_done, test, log, history>>

Tokens == {PASS, FAIL}

-----------------------------------------------------------------------------
(* The mailbox.                                                            *)

\* Mutant: the address is not decoded.
mailbox_write_any == AW

mailbox_write == AW /\ core.aw.addr = MAILBOX

\* The wires of the write channel, whoever they are meant for.  Without a
\* beat on offer they hold anything.
mailbox_data == IF core.w = <<>> THEN Data ELSE {Head(core.w)}

Written == IF mailbox_write THEN mailbox_data \cap Tokens ELSE {}

Line(kind, by) == <<kind, by>>
MailboxLines ==
  {Line(IF d = PASS THEN "pass" ELSE "fail", "mailbox") : d \in Written}

MailboxMonitor == mailbox_test_done' = (mailbox_test_done \/ Written # {})

Remember ==
  history' = [tokens |-> history.tokens \cup
                           IF W /\ wr.addr = MAILBOX
                           THEN {Head(core.w)} \cap Tokens ELSE {},
              answered |-> history.answered \/ (mailbox_test_done /\ B),
              published |-> history.published
                              \/ (mailbox_test_done /\ written' # <<>>)]

-----------------------------------------------------------------------------
(* The test.                                                               *)

At(at) == [test EXCEPT !.at = at]

\* wait_for_completion: the way that returns first ends the wait.
Waits == test.at \in {"waiting", "draining"}

\* Mutant: the test waits for the event of a pass.
wait_for_signature_pass ==
  \E done \in {mailbox_test_done, mailbox_test_done'}, d \in mailbox_data :
    IF test.at = "waiting" /\ done /\ d = PASS
    THEN /\ test' = [test EXCEPT !.at = "draining", !.left = Drain]
         /\ log' = log \cup MailboxLines \cup {Line("pass", "signature")}
    ELSE /\ log' = log \cup MailboxLines
         /\ test' = IF test.at # "draining" THEN test
                    ELSE IF test.left > 1 THEN [test EXCEPT !.left = @ - 1]
                    ELSE At("over")

\* Mutant: the data are read when the edges have passed.
wait_for_signature_after ==
  \E done \in {mailbox_test_done, mailbox_test_done'}, d \in mailbox_data :
    IF test.at = "draining" /\ test.left = 1
    THEN /\ test' = At("over")
         /\ log' = log \cup MailboxLines \cup
                   {Line(IF d = PASS THEN "pass" ELSE "error", "signature")}
    ELSE /\ log' = log \cup MailboxLines
         /\ test' = IF test.at = "draining" THEN [test EXCEPT !.left = @ - 1]
                    ELSE IF done THEN [test EXCEPT !.at = "draining", !.left = Drain]
                    ELSE test

\* Mutant: no edge passes.
wait_for_signature_short ==
  \E done \in {mailbox_test_done, mailbox_test_done'}, d \in mailbox_data :
    /\ test' = IF done THEN At("over") ELSE test
    /\ log' = log \cup MailboxLines \cup
              IF done THEN {Line(IF d = PASS THEN "pass" ELSE "error", "signature")}
              ELSE {}

\* The flag may be seen at its own edge or at the next; the data are read
\* from the wires again.
wait_for_signature ==
  \E done \in {mailbox_test_done, mailbox_test_done'}, d \in mailbox_data :
    IF test.at = "waiting" /\ done
    THEN /\ test' = [test EXCEPT !.at = "draining", !.left = Drain]
         /\ log' = log \cup MailboxLines \cup
                   {Line(IF d = PASS THEN "pass" ELSE "error", "signature")}
    ELSE /\ log' = log \cup MailboxLines
         /\ test' = IF test.at # "draining" THEN test
                    ELSE IF test.left > 1 THEN [test EXCEPT !.left = @ - 1]
                    ELSE At("over")

clock ==
  /\ Waits
  /\ clock_edge /\ MailboxMonitor /\ wait_for_signature /\ Remember

\* The limit on time, the limit on cycles and the detector of double faults
\* each report an error and return, whatever wait_for_signature is doing.
limit ==
  /\ Waits
  /\ test' = At("over")
  /\ log' = log \cup {Line("error", "limit")}
  /\ UNCHANGED <<vars, mailbox_test_done, history>>

\* Everything up to the wait happens at time 0.  start_vseq returns at once
\* (the sequences are left running), which is the first branch of a fork to
\* return.  A program that cannot be opened is fatal.
run_phase ==
  /\ test.at = "start"
  /\ \/ test' = At(IF test.form = "fork" THEN "over" ELSE "waiting") /\ UNCHANGED log
     \/ test' = At("over") /\ log' = log \cup {Line("fatal", "load")}
  /\ UNCHANGED <<vars, mailbox_test_done, history>>

Complaints == {l \in log : l[1] \in {"error", "fatal"}}

report_summarize(lines) ==
  Line(IF \E l \in lines : l[1] \in {"error", "fatal"} THEN "fail" ELSE "pass",
       "server")

\* The run phase came to the wait, so that the clock could run.
Clocked == test.form = "sequence" /\ Line("fatal", "load") \notin log

\* The scoreboard may have found errors when it was given something to
\* compare, which needs a clock.  The program ends here.
report_phase ==
  /\ test.at = "over"
  /\ \E found \in {{}} \cup IF Clocked THEN {{Line("error", "scoreboard")}} ELSE {} :
       log' = log \cup found \cup {report_summarize(log \cup found)}
  /\ test' = At("ended")
  /\ UNCHANGED <<vars, mailbox_test_done, history>>

TestInit ==
  /\ Init
  /\ mailbox_test_done = FALSE
  /\ test \in [form : Forms, at : {"start"}, left : {0}]
  /\ log = {}
  /\ history = [tokens |-> {}, answered |-> FALSE, published |-> FALSE]

TestNext == run_phase \/ clock \/ limit \/ report_phase

TestSpec == TestInit /\ [][TestNext]_tvars
FairTestSpec == TestSpec /\ WF_tvars(clock) /\ WF_tvars(report_phase)

-----------------------------------------------------------------------------
(* Properties.                                                             *)

Passed == CheckLines({l[1] : l \in log}, FALSE, FALSE).passed

\* Tokens the program wrote to the mailbox, the one whose data the memory is
\* about to take included.
TokensWritten ==
  history.tokens \cup IF wr.state = "WR_DATA" /\ wr.addr = MAILBOX
                      THEN {Head(core.w)} \cap Tokens ELSE {}

\* check_logs.py:159, "EH2 tests must explicitly report pass via
\* mailbox/signature text": a simulation passes only if the program wrote the
\* token of a pass and no other.
PassNeedsToken == test.at = "ended" /\ Passed => TokensWritten = {PASS}

\* And if it did, only an error of a limit or of the scoreboard keeps the
\* simulation from passing: although the flag is acted on an edge after the
\* token was seen, on wires that no one holds for the test, the test reads
\* what the mailbox read.
TokenIsHeard ==
  test.at = "ended" /\ TokensWritten = {PASS}
    => Passed \/ \E l \in Complaints : l[2] \in {"limit", "scoreboard"}

\* base_test:392: the mailbox sees a token with its address, before its data
\* is taken; the edges the test lets pass are enough for the write to be
\* answered by the memory and published to the scoreboard before the reports.
DrainSuffices ==
  LET by == {l[2] : l \in log}
  IN test.at = "ended" /\ "signature" \in by /\ "limit" \notin by
       => history.answered /\ history.published

\* A token ends the test, whether it is a pass or a failure and whatever else
\* the program does, without any of the limits.
TokenEndsTest == mailbox_test_done ~> test.at = "ended"
=============================================================================
