-------------------------- MODULE RangeLoopPlanner --------------------------
(***************************************************************************)
(* The rewrite step of needless_range_loop's `check` on its own: given the *)
(* loop shape the matcher extracted and the facts the visitor and gate     *)
(* established about the one indexed collection, `check` either abstains   *)
(* or emits a suggestion.  Inputs range over small sets of expressions,    *)
(* types, lengths and local values.                                        *)
(***************************************************************************)
EXTENDS RangeLoopPlan, FiniteSets, TLC

CONSTANTS
  Starts,     (* start expressions of the range                            *)
  Ends,       (* end expressions, NoEnd included                           *)
  Types,      (* types of the indexed collection                           *)
  Locals,     (* usize locals the bounds may read                          *)
  Values,     (* values of those locals                                    *)
  VecLens,    (* lengths of a Vec                                          *)
  Indexed,    (* the name of the indexed collection                        *)
  OtherColl,  (* another collection the bounds may name                    *)
  OtherLen    (* its length                                                *)

VARIABLES
  shape,      (* [start, end, limits] from higher::range                   *)
  ty,         (* node_type of the indexed collection                       *)
  mutated,    (* Indexed \in visitor.indexed_mut                           *)
  nonindex,   (* visitor.nonindex                                          *)
  env,        (* runtime values of the locals                              *)
  lens,       (* runtime lengths of the collections                        *)
  done,       (* `check` has returned                                      *)
  outcome     (* the result of Plan once done                               *)

vars == <<shape, ty, mutated, nonindex, env, lens, done, outcome>>

\* Ends are given as expressions, or as [k |-> "addStart", k2 |-> e, left |-> b]
\* for `start + e` (left) or `e + start`, which depend on the start chosen.
EndsFor(s) == {e \in Ends : e.k # "addStart"} \cup
              {Add(s, e.k2) : e \in {f \in Ends : f.k = "addStart" /\ f.left}} \cup
              {Add(e.k2, s) : e \in {f \in Ends : f.k = "addStart" /\ ~f.left}}

Init ==
  /\ \E s \in Starts, lim \in {"HalfOpen", "Closed"} :
       \E e \in EndsFor(s) : shape = [start |-> s, end |-> e, limits |-> lim]
  /\ ty \in Types
  /\ mutated \in BOOLEAN
  /\ nonindex \in BOOLEAN
  /\ env \in [Locals -> Values]
  /\ \E n \in (IF ty.kind = "Array" THEN {ty.len} ELSE VecLens) :
       lens = (Indexed :> n) @@ (OtherColl :> OtherLen)
  /\ done = FALSE
  /\ outcome = [lint |-> FALSE]

\* Lines 83-184 of `check`, run once the gate has passed.
Suggest ==
  /\ ~done
  /\ done' = TRUE
  /\ outcome' = Plan(shape, Indexed, ty, mutated, nonindex)
  /\ UNCHANGED <<shape, ty, mutated, nonindex, env, lens>>

Next == Suggest

Spec == Init /\ [][Next]_vars

Linted == done /\ outcome.lint

\* The original loop never indexes past the end of the collection.
InBounds == \A j \in DOMAIN LoopIndices(shape, env, lens) :
              LoopIndices(shape, env, lens)[j] < lens[Indexed]

(***************************************************************************)
(* Properties.                                                             *)
(***************************************************************************)

\* Whenever the loop has an end and stays in bounds, the suggested chain
\* (skip/take in the order `check` emits them, the closed-range `+ 1`, the
\* `len()` and array-length elisions) visits exactly the elements the loop
\* indexed, in order, and a paired pattern binds the loop's own index.
SuggestionVisitsLoopIndices ==
  Linted /\ shape.end # NoEnd /\ InBounds =>
    LET y == Yield(outcome, env, lens)
        orig == LoopIndices(shape, env, lens)
    IN /\ [j \in DOMAIN y |-> y[j].elem] = orig
       /\ outcome.pat = "pair" => [j \in DOMAIN y |-> y[j].idx] = orig

\* A suggestion that borrows the collection mutably never repeats its name in
\* a skip/take argument (spec.md 8, mutability self-reference guard): the
\* guards at lines 87 and 115 abstain instead.
MutableRewriteNeverNamesCollection ==
  Linted /\ outcome.mut =>
    \A j \in DOMAIN outcome.adapters : ~ContainsName(Indexed, outcome.adapters[j].arg)

\* spec.md 8 (additive-offset ordering): for start s and end `s + k` the
\* suggestion emits take(k) before skip(s).
AdditiveOffsetTakeBeforeSkip ==
  Linted /\ shape.limits = "HalfOpen" /\ shape.end # NoEnd
         /\ EndIsStartPlusVal(shape.start, shape.end) /\ ~StartsAtZero(shape.start) =>
    outcome.adapters = <<[op |-> "take", arg |-> TakeExpr(shape.start, shape.end)],
                         [op |-> "skip", arg |-> shape.start]>>

=============================================================================
