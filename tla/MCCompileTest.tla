----------------------------- MODULE MCCompileTest -----------------------------
(***************************************************************************)
(* Bounds for CompileTest: every header of up to three lines over the      *)
(* three `rmc-*-fail` directives, `should-fail`, `compile-flags:`,        *)
(* `edition:`, a plain comment and a `fn` line, and every path marking.   *)
(***************************************************************************)
EXTENDS CompileTest

Tokens == {"check_fail", "codegen_fail", "verify_fail", "should_fail", "compile_flags",
           "edition", "comment", "fn"}
MCHeaders == UNION {[1 .. n -> Tokens] : n \in 0 .. 3}
MCPaths == [dirMarked : BOOLEAN, baseMarked : BOOLEAN]
\* compiletest is started without RUSTFLAGS in its environment.
MCEnvRustflags == <<>>
\* compiletest is started from a shell that exports RUSTFLAGS, as the
\* reproduction comment of test/rmc/Cleanup/unwind_fixme.rs does for rmc.
MCExportedRustflags == <<<<"env", 1>>>>
=============================================================================
