----------------------------- MODULE CompileTest -----------------------------
(***************************************************************************)
(* One test of compiletest (src/src/tools/compiletest), from its libtest   *)
(* description to its verdict: make_test_description (header.rs) decides   *)
(* whether it is ignored and whether it should panic; runtest::run loads   *)
(* its header directives, runs the pipeline of its mode (check, codegen,   *)
(* verify for RMC tests), and writes its stamp; libtest turns "panicked or *)
(* not" into a verdict.  The tools are not modelled: their outcomes are a  *)
(* record chosen in Init.  Header lines are abstracted to the directive    *)
(* they carry; "fn" is a line starting with `fn` or `mod`.  A flag is a    *)
(* pair: <<"flag", i>> for the words of the `compile-flags:` line i, and   *)
(* <<"edition", e>> for `--edition=e`.                                     *)
(***************************************************************************)
EXTENDS Integers, Sequences, SequencesExt, FiniteSets

CONSTANTS
  Modes,     (* config.mode values run                                      *)
  Headers,   (* the test file's lines, as directive tokens                  *)
  Paths,     (* [dirMarked, baseMarked]: "fixme"/"ignore" in dir or name    *)
  ConfigEditions, (* config.edition values: "none" or an edition            *)
  EnvRustflags   (* RUSTFLAGS in compiletest's own environment, as flags    *)

StepDirective == [check_fail |-> "Check", codegen_fail |-> "Codegen",
                  verify_fail |-> "Verify"]

\* What the external tools do with this test.  The regex of
\* verify_expect_fail only matches inside output that contains "EXPECTED FAIL".
Outcomes == {o \in [checkOk : BOOLEAN, codegenOk : BOOLEAN, verifyOk : BOOLEAN,
                    outExpectFail : BOOLEAN, expectFailSuccess : BOOLEAN,
                    fileExpectFail : BOOLEAN, linesFound : BOOLEAN] :
               o.expectFailSuccess => o.outExpectFail}

VARIABLES
  mode, path, header, tools,
  edition,     (* config.edition of this compiletest run                    *)
  pc,          (* where the test is: "describe", "load", "check", ...       *)
  line,        (* the header line iter_header reads next                    *)
  panicStep,   (* TestProps::rmc_panic_step: "None" or a step               *)
  compileFlags, (* TestProps::compile_flags                                 *)
  hasEdition,  (* load_from's has_edition                                   *)
  compiled,    (* <<tool run, flags its rustc compiled with>> pairs         *)
  desc,        (* the TestDesc: [ignore, shouldPanic]                       *)
  ran,         (* tool invocations made                                     *)
  stamp,       (* the stamp file was written                                *)
  verdict      (* libtest's verdict: "pending", "ignored", "passed", "failed" *)

vars == <<mode, path, header, tools, edition, pc, line, panicStep, compileFlags, hasEdition,
          compiled, desc, ran, stamp, verdict>>

props == <<compileFlags, hasEdition>>

\* The lines iter_header passes on: those before the first `fn`/`mod` line.
HeaderPrefix(h) ==
  LET stops == {i \in DOMAIN h : h[i] = "fn"}
  IN IF stops = {} THEN h ELSE SubSeq(h, 1, CHOOSE i \in stops : \A j \in stops : i <= j)

Init ==
  /\ mode \in Modes
  /\ path \in Paths
  /\ header \in Headers
  /\ tools \in Outcomes
  /\ edition \in ConfigEditions
  /\ pc = "describe"
  /\ line = 1
  /\ panicStep = "None"
  /\ compileFlags = <<>>
  /\ hasEdition = FALSE
  /\ compiled = {}
  /\ desc = [ignore |-> FALSE, shouldPanic |-> FALSE]
  /\ ran = {}
  /\ stamp = FALSE
  /\ verdict = "pending"

\* make_test_description: the path filters of the RMC/Stub and RmcFixme
\* suites, RmcFixme's should_fail, and `should-fail` header lines.
Describe ==
  /\ pc = "describe"
  /\ LET marked == path.dirMarked \/ path.baseMarked
         ignore == \/ mode \in {"RMC", "Stub"} /\ marked
                   \/ mode = "RmcFixme" /\ ~path.baseMarked
         shouldFail == \/ mode = "RmcFixme"
                       \/ \E i \in DOMAIN HeaderPrefix(header) : header[i] = "should_fail"
     IN /\ desc' = [ignore |-> ignore, shouldPanic |-> shouldFail]
        /\ pc' = IF ignore THEN "done" ELSE "load"
        /\ verdict' = IF ignore THEN "ignored" ELSE verdict
  /\ UNCHANGED <<mode, path, header, tools, edition, line, panicStep, props, compiled, ran, stamp>>

\* A panic or fatal_proc_rec unwinds the test function.
Unwind == pc' = "unwound"

\* parse_compile_flags and parse_edition (parse_name_value_directive):
\* the flags header line i adds to compile_flags, split into words or
\* formatted as `--edition=`.
LineFlags(d, i) ==
  CASE d = "compile_flags" -> <<<<"flag", i>>>>
    [] d = "edition"       -> <<<<"edition", "header">>>>
    [] OTHER               -> <<>>

\* One header line in TestProps::load_from: its compile flags and edition,
\* then update_rmc_fail_mode, whose parse_rmc_step_fail_directive panics
\* outside RMC mode and which panics on a second `rmc-*-fail` line.
LoadLine ==
  /\ pc = "load"
  /\ line <= Len(HeaderPrefix(header))
  /\ line' = line + 1
  /\ LET d == header[line] IN
     /\ compileFlags' = compileFlags \o LineFlags(d, line)
     /\ hasEdition' = (hasEdition \/ d = "edition")
     /\ IF d \notin DOMAIN StepDirective THEN UNCHANGED <<pc, panicStep>>
        ELSE IF mode # "RMC" \/ panicStep # "None" THEN Unwind /\ UNCHANGED panicStep
        ELSE panicStep' = StepDirective[d] /\ UNCHANGED pc
  /\ UNCHANGED <<mode, path, header, tools, edition, compiled, desc, ran, stamp, verdict>>

\* The end of load_from: config.edition, unless the header named one.
WithDefaultEdition(flags, has) ==
  IF edition # "none" /\ ~has THEN Append(flags, <<"edition", edition>>) ELSE flags

\* The header is read: load_from adds the default edition and
\* run_revision dispatches on the mode.
RunRevision ==
  /\ pc = "load"
  /\ line > Len(HeaderPrefix(header))
  /\ compileFlags' = WithDefaultEdition(compileFlags, hasEdition)
  /\ pc' = CASE mode \in {"RMC", "RmcFixme"}     -> "check"
             [] mode \in {"CargoRMC", "Expected"} -> "expected"
             [] mode = "Stub"                     -> "stub"
  /\ UNCHANGED <<mode, path, header, tools, edition, line, panicStep, hasEdition, compiled, desc, ran,
                 stamp, verdict>>

\* check() and codegen(): a step fails the test when its outcome is not
\* the one rmc_panic_step asks for; run_rmc_test returns after the step
\* expected to fail.
Step(s, ok, next) ==
  /\ ran' = ran \cup {s}
  /\ compiled' = compiled \cup {<<s, compileFlags>>}
  /\ IF (panicStep = s) = ok THEN Unwind
     ELSE pc' = IF panicStep = s THEN "stamp" ELSE next

RunCheck ==
  /\ pc = "check"
  /\ Step("Check", tools.checkOk, "codegen")
  /\ UNCHANGED <<mode, path, header, tools, edition, line, panicStep, props, desc, stamp, verdict>>

RunCodegen ==
  /\ pc = "codegen"
  /\ Step("Codegen", tools.codegenOk, "verify")
  /\ UNCHANGED <<mode, path, header, tools, edition, line, panicStep, props, desc, stamp, verdict>>

\* Mutant: RUSTFLAGS is left to the environment.
RmcRustflagsInherited == EnvRustflags

\* run_rmc: the compile flags reach rmc's rustc through RUSTFLAGS, which is
\* set only when there are some; otherwise rmc inherits compiletest's own.
\* cargo rmc (run_cargo_rmc_test) gets no flags of the header.
RmcRustflags == IF compileFlags # <<>> THEN compileFlags ELSE EnvRustflags

\* Mutant: verify() ignores rmc-verify-fail and always expects success.
VerifyFailsIgnoringStep ==
  IF tools.outExpectFail THEN tools.expectFailSuccess
  ELSE tools.fileExpectFail \/ ~tools.verifyOk

\* verify(): with "EXPECTED FAIL" in the output only the expect-fail lines
\* are checked; otherwise a stray __VERIFIER_expect_fail or an unexpected
\* status fails the test.
VerifyFails ==
  IF tools.outExpectFail THEN tools.expectFailSuccess
  ELSE tools.fileExpectFail \/ (panicStep = "Verify") = tools.verifyOk

RunVerify ==
  /\ pc = "verify"
  /\ ran' = ran \cup {"Verify"}
  /\ compiled' = compiled \cup {<<"Verify", RmcRustflags>>}
  /\ IF VerifyFails THEN Unwind ELSE pc' = "stamp"
  /\ UNCHANGED <<mode, path, header, tools, edition, line, panicStep, props, desc, stamp, verdict>>

\* run_cargo_rmc_test and run_expected_test: one rmc run whose output must
\* contain every line of the expected file (verify_output, contains_lines).
RunExpected ==
  /\ pc = "expected"
  /\ ran' = ran \cup {"Rmc"}
  /\ compiled' = compiled \cup {<<"Rmc", IF mode = "CargoRMC" THEN EnvRustflags ELSE RmcRustflags>>}
  /\ IF tools.linesFound THEN pc' = "stamp" ELSE Unwind
  /\ UNCHANGED <<mode, path, header, tools, edition, line, panicStep, props, desc, stamp, verdict>>

\* run_stub_test: one rmc run that must succeed.
RunStub ==
  /\ pc = "stub"
  /\ ran' = ran \cup {"Rmc"}
  /\ compiled' = compiled \cup {<<"Rmc", RmcRustflags>>}
  /\ IF tools.verifyOk THEN pc' = "stamp" ELSE Unwind
  /\ UNCHANGED <<mode, path, header, tools, edition, line, panicStep, props, desc, stamp, verdict>>

\* create_stamp, once run_revision has returned.
CreateStamp ==
  /\ pc = "stamp"
  /\ stamp' = TRUE
  /\ pc' = "returned"
  /\ UNCHANGED <<mode, path, header, tools, edition, line, panicStep, props, compiled, desc, ran,
                 verdict>>

\* libtest: a test passes when it panicked exactly if it should panic.
Report ==
  /\ pc \in {"returned", "unwound"}
  /\ verdict' = IF (pc = "unwound") = desc.shouldPanic THEN "passed" ELSE "failed"
  /\ pc' = "done"
  /\ UNCHANGED <<mode, path, header, tools, edition, line, panicStep, props, compiled, desc, ran,
                 stamp>>

Next == Describe \/ LoadLine \/ RunRevision \/ RunCheck \/ RunCodegen \/ RunVerify
        \/ RunExpected \/ RunStub \/ CreateStamp \/ Report

Spec == Init /\ [][Next]_vars

(***************************************************************************)
(* What the test file declares, read off the header directly.              *)
(***************************************************************************)
Directives == {i \in DOMAIN HeaderPrefix(header) : header[i] \in DOMAIN StepDirective}

\* At most one `rmc-*-fail` line, and only in a test of the RMC suites.
WellFormed == Cardinality(Directives) <= 1 /\ (Directives # {} => mode \in {"RMC", "RmcFixme"})

DeclaredStep == IF Directives = {} THEN "None"
                ELSE StepDirective[header[CHOOSE i \in Directives : TRUE]]

\* The test behaves as its directives declare.
Conforms ==
  CASE mode \in {"RMC", "RmcFixme"} ->
         CASE DeclaredStep = "Check"   -> ~tools.checkOk
           [] DeclaredStep = "Codegen" -> tools.checkOk /\ ~tools.codegenOk
           [] OTHER -> /\ tools.checkOk /\ tools.codegenOk
                       /\ IF tools.outExpectFail THEN ~tools.expectFailSuccess
                          ELSE ~tools.fileExpectFail
                               /\ tools.verifyOk = (DeclaredStep # "Verify")
    [] mode \in {"CargoRMC", "Expected"} -> tools.linesFound
    [] mode = "Stub" -> tools.verifyOk

(***************************************************************************)
(* Properties.                                                             *)
(***************************************************************************)

\* For a well-formed test that is not ignored, libtest's verdict is the
\* test's own claim: it passes exactly when it behaves as its directives
\* declare, or, for a test that should fail (should-fail, rmc-fixme), exactly
\* when it does not.
VerdictReflectsTest ==
  WellFormed /\ verdict \in {"passed", "failed"} =>
    (verdict = "passed" <=> Conforms # desc.shouldPanic)

\* check and codegen pass compile_flags to rmc-rustc as arguments, and
\* run_rmc hands them to rmc's rustc through RUSTFLAGS ("RMC recognizes the
\* variable and adds those flags to its internal call to rustc"): every
\* compilation of one test compiles it with the same flags.
SameFlagsEveryCompilation == \A c, d \in compiled : c[2] = d[2]

\* A stamp, which marks the test as up to date for later runs, is written
\* only for a test that passed.
StampOnlyForPassedTests == stamp /\ verdict # "pending" => verdict = "passed"

=============================================================================
