# TLA+ models of rmc: needless_range_loop, the serial harness, compiletest and its JSON rendering

This directory holds TLC-checked TLA+ models of four parts of the repository:

- **the `needless_range_loop` lint** (`src/clippy_lints/src/loops/needless_range_loop.rs`): the matcher, the `VarVisitor` walk, the eligibility gate and the rewrite planner;
- **the serial-device verification harness** (`src/src/test/serial/serial_spec.rs`): a 16550-style UART with a ghost copy of its configuration;
- **compiletest's handling of one test** (`src/src/tools/compiletest/src/header.rs` and `runtest.rs`): header directives, the RMC step pipeline, stamps and the libtest verdict;
- **compiletest's failure report** (`src/src/tools/compiletest/src/json.rs` and `ProcRes::fatal` in `runtest.rs`): how the output of a failed tool run is rendered before the test unwinds.

`PROJECT.json` lists the components, runs, mutants, the map from each definition to its source lines, the findings and the hazards.

## The system and how its parts interact

### needless_range_loop

`check` runs four stages in sequence on one `for i in a..b { body }` loop:

1. **Match** (lines 25-49). It requires a range with a start whose pattern binds one name.
2. **Walk** (line 50). `VarVisitor` walks the body. It records each collection indexed by the loop variable: directly (`v[i]`) in `indexed_directly`, indirectly (`v[i+1]`) in `indexed_indirectly`, and in `indexed_mut` when the index is in a mutable context. It also records names used outside an index (`referenced`) and whether `i` is used outside any index (`nonindex`). The mutable context is one field, `prefer_mutable`, which is saved and restored around each `visit_expr`.
3. **Gate** (lines 52-81). The lint proceeds only if exactly one collection is indexed directly and none indirectly, it is declared outside the loop, its type has an iter method, and it is not otherwise referenced.
4. **Plan** (lines 83-184). The planner builds `iter()`/`iter_mut()` with `skip`/`take` adapters, elides the take for `len()` or for an array's length, adds `+1` for closed ranges, swaps the order for an end `start+k`, and abstains when a `&mut` rewrite would name the collection in an adapter argument.

| Module | Models |
|---|---|
| `HirBody` | The body as a prefix-order sequence of HIR node labels, plus tree helpers (`Kids`, `Parent`, `Below`) and the enumeration of all bodies up to `MaxNodes` nodes. `LocalUsed` is clippy_utils' `LocalUsedVisitor` (modelled from its documented meaning, since it is outside `src/`). |
| `VisitorSpec` | The abstract specification of the walk: the classification of every node at once, with the mutable context a function of the path from the root (`Ctx`). It ends with a single `Classify` step. |
| `VarVisitor` | `VarVisitor::check` and `visit_expr` as a small-step machine. The Rust recursion is an explicit frame stack (`Visit`, `Set`, `Restore` frames) sharing one `prefer_mutable` variable. `ArgFrames` and `ArmFrames` are the argument and arm loops of `visit_expr` (method-call receivers, call arguments, assignment lhs, `&mut`). `VisitIndex`/`CheckConsumes` are `check`'s index case. The module refines `VisitorSpec` (`Abs == INSTANCE VisitorSpec WITH ...`). |
| `RangeLoopPlan` | The planner as pure operators (`SkipFragment`, `TakeFragment`, `Elided`, `Aborts`, `OrderAdapters`, `Plan`), plus a reference semantics: `Val` evaluates a bound, `LoopIndices` is the loop's index sequence and `Yield` is what the suggested iterator chain yields. |
| `RangeLoopPlanner` | One `Suggest` step over all shapes, types, mutability flags and runtime values, so that the plan can be compared with the loop's meaning. |
| `NeedlessRangeLoop` | The whole of `check`: `Match`, then `Walk` (the steps of `VarVisitor`, instantiated), then `Lint`, which applies `Decision` (the gate) and then `Plan`. `Ref` instantiates `VisitorSpec` to read off what the body really does. |

### Serial harness

`Serial` holds the device registers (IER, IIR, LCR, LSR, MCR, MSR, scratch, baud divisor), the loopback `in_buffer`, the output and the ghost `config`.

- `handle_write` (lines 289-348) and `handle_read` (lines 351-396) are one action per register case: `WriteDivisorLow`/`High` under DLAB, loopback and out data, IER, LCR, MCR and SCR; `ReadData` and `ReadIir`.
- Each action includes the helper calls the code makes: `add_intr_bit`, `del_intr_bit`, the interrupt triggers and `iir_reset`.
- `Init` is any of the three constructors (`new_in_out`, `new_out`, `new_sink`).
- `equiv_config` (lines 444-464) asserts that the ghost configuration agrees with the registers. The model states those assertions as invariants instead of executing them.

### compiletest

`CompileTest` follows one test through these steps:

1. `Describe` is `make_test_description`: ignore filters and `should_panic`.
2. `LoadLine` is one header line in `TestProps::load_from`.
   - A `compile-flags:` or `edition:` line extends `compile_flags` (`LineFlags`). An `edition:` line also sets `has_edition`.
   - `update_rmc_fail_mode` panics outside RMC mode or on a second directive.
   - `iter_header` stops at the first `fn` or `mod` line (`HeaderPrefix`).
3. `RunRevision` ends `load_from`: the configured edition (`edition`, `config.edition`, chosen in `Init` from `ConfigEditions`) is added when the header named none (`WithDefaultEdition`). It then dispatches on the mode.
4. The mode's pipeline runs: `RunCheck`, `RunCodegen`, `RunVerify` (with `VerifyFails`, `verify`'s EXPECTED FAIL logic) and `rmc_panic_step` for RMC; `RunExpected` for Expected and CargoRMC; `RunStub` for Stub.
5. `CreateStamp` is `run`'s `create_stamp`.
6. `Report` is libtest's should-panic verdict.

Each compilation is recorded in `compiled` with the flags its rustc gets:
- check and codegen pass `compile_flags` as arguments;
- `run_rmc` passes them through `RUSTFLAGS`, and only when there are some (`RmcRustflags`); otherwise rmc sees the `RUSTFLAGS` compiletest itself inherited (`EnvRustflags`);
- `cargo rmc` gets none of them.

A flag is an abstract pair: `<<"flag", i>>` for the words of header line `i`, and `<<"edition", e>>` for `--edition=e`. `rmc-flags:` and `cbmc-flags:` are left out. Their words only pass through to rmc and cbmc.

A panic or `fatal_proc_rec` is `Unwind`. Tool outcomes (exit status, output containing "EXPECTED FAIL", expect-fail lines, expected-file lines) are one record chosen in `Init`.

### compiletest's failure report

`fatal_proc_rec` calls `ProcRes::fatal`, which passes stdout and stderr through `json::extract_rendered` before printing them, and then unwinds. `JsonRender` models that one step (`Fatal`).

- A line of output is a record: whether it starts with `{`, the set of keys of the JSON object, whether `rendered` is a string, and the items of a `future_incompat_report`.
- serde's derived decoding is `Decodes(obj, required)`: every non-`Option` field must be present, and unknown keys are ignored. The required sets are the field names as the structs spell them (`DiagnosticRequired`, `ReportRequired`, `ArtifactRequired`).
- `Piece` is the `filter_map` closure, with its branches in the code's order. `Panics` is its last branch. `ExtractRendered` maps it over the lines.
- `Fatal` either panics (`pc = "panicked"`) or prints the report (`pc = "unwound"`).
`MCJsonRender` enumerates every output of up to two lines over the five line kinds the compiler prints under `--error-format=json`:
- a plain line (an ICE);
- a diagnostic with and without `rendered`;
- an artifact notification;
- a one-item future-incompatibility report.

Diagnostics use the keys rustc really emits (`message`, `code`, `level`, `spans`, `children`, `rendered`).

## Runs

| Run | Expect | What it checks |
|---|---|---|
| `visitor_broad` (`MCVarVisitor.cfg`) | pass, 312,642 states | All 4-node bodies over every expression kind. Checks `ContextAtVisit` (`prefer_mutable` equals the path context whenever a node is visited) and `WalkImplementsClassification` (refinement of `VisitorSpec`). |
| `planner_semantics` (`MCRangeLoopPlanner.cfg`) | pass, 51,200 states | `SuggestionVisitsLoopIndices`: an in-bounds loop's suggestion visits exactly its indices, in order, with the right enumerate index. `MutableRewriteNeverNamesCollection`: a mutable rewrite never names its collection in an adapter argument. |
| `planner_order` (`MCRangeLoopPlannerOrder.cfg`) | violation | spec.md's take-before-skip rule for `s..s+k`. The code emits `skip(s).take(k)`, which is the correct order. **Finding: the spec and the code diverge.** |
| `lint_sound` (`MCNeedlessRangeLoop.cfg`) | pass, 732,166 states | `RewriteIsSound`: all of `check`. It covers all 4-node bodies, plus the 5- and 6-node bodies that index a vector and a const array together (`v[i]; C[i]`, `&mut v[i]; C[i]`, `v[i] = C[i]`), all without shadowing. A lint means: one collection, indexed only directly, declared before the loop, not otherwise used, `mut` whenever there is a write through the index, and a pair pattern whenever `i` is used outside an index. |
| `lint_shadow` (`MCNeedlessRangeLoopShadow.cfg`) | violation | `ScopeOrdering` with a loop-local `v` and an outer `v`. For the body `v_in[i]; v_out[i]` the lint fires, because `indexed_directly` is keyed by name. **Finding: a code bug.** |
| `serial` (`MCSerial.cfg`) | pass, 321,024 states | Any sequence of reads and writes with values {3, 16, 131} on every constructor. `GhostRegistersAgree`: the divisor, IER and LCR ghosts match the registers. `IirWellFormed`: IIR is NONE or exactly one cause. `DataBitMatchesBuffer`: the LSR data bit is set exactly when the buffer is non-empty. |
| `serial_ghost` (`MCSerialGhost.cfg`) | violation | `GhostPendingAgrees`. `add_intr_bit` never sets `config.rdai`/`config.theri`, so `equiv_config` would fail after: `new_out`, write IER=3, write DATA. **Finding: a code bug.** |
| `compiletest` (`MCCompileTest.cfg`) | pass, 7,853,200 states | `VerdictReflectsTest` in the RMC, Stub, Expected and CargoRMC modes, with and without a configured default edition: a well-formed test passes exactly when it behaves as its directives say, with the result inverted for should-fail tests. `SameFlagsEveryCompilation`, with compiletest started without `RUSTFLAGS`: check, codegen (flags as arguments) and verify (flags through `RUSTFLAGS`) compile the test with the same flags. |
| `compiletest_fixme` (`MCCompileTestFixme.cfg`) | violation | The same property in the RmcFixme mode. A fixme test with an `rmc-*-fail` header panics while its header is loaded, and counts as the expected failure without running rmc (for example `rmc/Cleanup/unwind_fixme.rs`). **Finding: a code bug.** |
| `compiletest_stamp` (`MCCompileTestStamp.cfg`) | violation | `StampOnlyForPassedTests`. A should-fail test whose pipeline succeeds is stamped as up to date, although libtest fails it. **Finding: a spec gap.** |
| `compiletest_rustflags` (`MCCompileTestRustflags.cfg`) | violation | `SameFlagsEveryCompilation` for RMC tests, with compiletest started from a shell that exports `RUSTFLAGS` (as the reproduction line of `rmc/Cleanup/unwind_fixme.rs` does for rmc). A header without `compile-flags:` leaves `RUSTFLAGS` untouched (runtest.rs:351), so verify compiles with the inherited flag while check and codegen got none. **Finding: a code bug.** |
| `json_compiler` (`MCJsonRenderCompiler.cfg`) | violation | `CompilerJsonNeverPanics`, over outputs made only of lines the compiler emits. The `Diagnostic` struct names its fields `_message`, `_level` and `_children`, so no rustc diagnostic decodes. The line falls through to `panic!()` (json.rs:84) inside `ProcRes::fatal`, and the report of the failed run is never printed. **Finding: a code bug.** |

Every property of a passing run has a mutant in `PROJECT.json`: a plausible bug in the mapped definition that TLC finds. Examples are a dropped restore of `prefer_mutable`, a missing `+1` for closed ranges, and a NONE bit not put back into IIR.

## Bounds

- **Bodies of 4 nodes** contain every parent/child pair of expression kinds: an index inside `&mut`, a call argument, an assignment lhs. That is enough for a stale `prefer_mutable` to show: a context left set after `&mut v[i]` or a call argument reaches the next sibling. Two indexes in one body need 5 or 6 nodes. The visitor runs stay at 4 nodes, because the stale context and the refinement mutants already show there. `lint_sound` adds every 5- and 6-node body over `Var`, `v`, `C`, `&mut`, index and assignment (`SoundBodies`, a second instance of `HirBody` substituted for `Bodies` in the cfg). Without them the gate's "exactly one collection" test is never tried on two collections: a gate that accepts "at least one" passes on 4-node bodies and is caught on the larger ones. The bindings are these:
  - `vOut` and `vIn` share a name and differ in scope;
  - `C` is a const of array type;
  - `w` is a type without an iter method.
- **Planner.** Starts and ends include literals 0 and 1, locals, `len()` of the collection and of another collection, and `start+k` in both operand orders. Types are Vec and an array of length 4. Values 0..3 and lengths 2..4 put ends before, at and past the length.
- **Serial.** `LoopSize = 2` stands for `LOOP_SIZE = 0x40`: the bound check is the same comparison, and 2 reaches both full and partly filled buffers. `MaxOut = 1` bounds the recorded output, which no property reads beyond its presence. Values {3, 16, 131} cover:
  - the IER interrupt bits (3);
  - the MCR loop bit (16);
  - the LCR DLAB bit with other bits set (131).
- **JSON rendering.** Two lines per stream are enough to put each line kind before and after every other one. The behaviour of a line does not depend on its neighbours, so longer outputs add nothing. Only lines the compiler really prints are enumerated. A JSON line that decodes as `Diagnostic` needs the keys `_message`, `_level` and `_children`, which no tool writes, so the rendered-diagnostic branches of `Piece` are unreachable from real output. No property is stated about the text of the report.
- **compiletest.** Headers of up to 3 lines over the step directives, `should-fail`, `compile-flags:`, `edition:`, a comment and `fn`. This covers the following:
  - duplicate directives;
  - directives after `fn`;
  - a directive together with `should-fail`;
  - two flag lines in either order;
  - an edition line before or after flags.

  The pass run chooses `config.edition` as either none or an edition, so both branches of the `has_edition` guard happen, and headers without flags leave `compile_flags` empty so that `run_rmc`'s fallback to the inherited `RUSTFLAGS` is taken. It starts compiletest without `RUSTFLAGS` (`MCEnvRustflags`); `compiletest_rustflags` starts it with one exported flag (`MCExportedRustflags`).

## Fairness and liveness

No fairness is assumed, and no liveness property is checked:
- A test's steps form a finite chain with no loop, so "every test gets a verdict" would only say that no step is missing. It would also rest on every tool run returning. `compose_and_run` waits for the child with no timeout (runtest.rs:99), and whether rmc or CBMC terminates is decided outside the repository. That hazard is recorded without a property.
- `check` is a single terminating call.
- The serial harness is driven by an arbitrary driver that may stop at any time.

One liveness concern in the serial harness is recorded as a hazard without a property: receive interrupts are cleared while bytes remain (serial_spec.rs:359). The code makes no claim about when an interrupt must recur.

Each run states its deadlock setting in its cfg. A finished walk, a finished test and a printed report are legitimate final states. The serial model is checked for deadlock.

## Not modelled

- **Lint diagnostics.** Text formatting (`span_lint_and_then`, `Sugg`). The suggestion is modelled by its structure.
- **`recv_bytes`/`raw_input` in the serial harness.** They are unreachable: `InputWrapper::read` is `unimplemented!()`. `main`'s fixed scenario is one behaviour of the model.
- **`rmc-flags:`/`cbmc-flags:`, `find_rust_src_root`, process spawning, output dumping and `PATH`.** These are pass-through words and I/O. Their effect is the tool-outcome record.
- **`bootstrap/run.rs`.** Every step there hands a command to `Builder`: `ensure`, `run`, `try_run`, `fail_fast` and `delayed_failures`. The Builder is not in this repository, so nothing of the file's own behaviour is left to model.
- **The text of the failure report.** Formatting and the `output` echoed by the panic message are left out. The report is modelled by which lines it shows, and only its panic is checked: no real output reaches the branches that would render a diagnostic.
- **Hanging tools.** A tool run that never exits is not an outcome of the model; see Fairness and liveness.
- **The rmc regression programs.** They are inputs to the verifier, not behaviour of the tools.
