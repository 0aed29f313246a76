---------------------------- MODULE RangeLoopPlan ----------------------------
(***************************************************************************)
(* The rewrite that needless_range_loop's `check` builds once the gate has *)
(* chosen the indexed collection (lines 83-184), as operators, and the     *)
(* meaning of the loop and of the suggested iterator chain, as reference   *)
(* definitions to compare it with.                                         *)
(*                                                                         *)
(* An expression of the range bounds is a record:                          *)
(*   [k |-> "lit", n |-> i]          an integer literal                    *)
(*   [k |-> "var", x |-> x]          a path to a usize local `x`           *)
(*   [k |-> "len", x |-> x]          `x.len()`                             *)
(*   [k |-> "add", l |-> e1, r |-> e2]   `e1 + e2`                         *)
(* A loop shape is [start |-> e, end |-> e or NoEnd, limits |-> lim].      *)
(* Source text (snippet, Sugg) is kept as the expression it prints.        *)
(***************************************************************************)
EXTENDS Integers, Sequences

NoEnd == [k |-> "none"]
Lit(i) == [k |-> "lit", n |-> i]
Add(a, b) == [k |-> "add", l |-> a, r |-> b]

\* contains_name(name, expr): some path segment of expr is `name`.
RECURSIVE ContainsName(_, _)
ContainsName(x, e) ==
  CASE e.k \in {"var", "len"} -> e.x = x
    [] e.k = "add"            -> ContainsName(x, e.l) \/ ContainsName(x, e.r)
    [] OTHER                  -> FALSE

\* The value constant_simple folds e to, as a set: {} when e is not constant.
RECURSIVE ConstVal(_)
ConstVal(e) ==
  CASE e.k = "lit" -> {e.n}
    [] e.k = "add" -> {a + b : a \in ConstVal(e.l), b \in ConstVal(e.r)}
    [] OTHER       -> {}

\* is_integer_const(cx, start, 0)
StartsAtZero(start) == ConstVal(start) = {0}

\* is_len_call(end, indexed): `indexed.len()`.
IsLenCall(end, x) == end.k = "len" /\ end.x = x

\* is_end_eq_array_len: a literal end reaching the fixed length of an array.
IsEndEqArrayLen(end, limits, ty) ==
  /\ end.k = "lit"
  /\ ty.kind = "Array"
  /\ IF limits = "Closed" THEN end.n + 1 >= ty.len ELSE end.n >= ty.len

\* The take argument and end_is_start_plus_val (lines 96-111): an end
\* `start + k` or `k + start` (SpanlessEq) takes k.
TakeExpr(start, end) ==
  IF end.k = "add" /\ end.l = start THEN end.r
  ELSE IF end.k = "add" /\ end.r = start THEN end.l
  ELSE end

EndIsStartPlusVal(start, end) == end.k = "add" /\ (end.l = start \/ end.r = start)

\* The skip fragment (lines 85-91): empty when the range starts at zero.
SkipFragment(start) ==
  IF StartsAtZero(start) THEN <<>> ELSE <<[op |-> "skip", arg |-> start]>>

\* The end elisions of the take fragment (line 113).
Elided(end, limits, x, ty) == IsLenCall(end, x) \/ IsEndEqArrayLen(end, limits, ty)

\* Mutant: the closed range takes `end` instead of `end + 1`.
TakeFragmentNoPlusOne(start, end, limits, x, ty) ==
  IF end = NoEnd \/ Elided(end, limits, x, ty) THEN <<>>
  ELSE <<[op |-> "take", arg |-> TakeExpr(start, end)]>>

\* The take fragment (lines 95-127): none without an end or when elided,
\* else take(k) where a closed range takes `k + 1`.
TakeFragment(start, end, limits, x, ty) ==
  IF end = NoEnd \/ Elided(end, limits, x, ty) THEN <<>>
  ELSE IF limits = "Closed"
       THEN <<[op |-> "take", arg |-> Add(TakeExpr(start, end), Lit(1))]>>
       ELSE <<[op |-> "take", arg |-> TakeExpr(start, end)]>>

\* Mutant: only a skip argument naming the collection abstains.
AbortsSkipOnly(shape, x, ty, mutated) ==
  ~StartsAtZero(shape.start) /\ mutated /\ ContainsName(x, shape.start)

\* The returns at lines 88 and 116: a `&mut` rewrite whose skip or take
\* argument names the collection would not borrow-check.
Aborts(shape, x, ty, mutated) ==
  \/ ~StartsAtZero(shape.start) /\ mutated /\ ContainsName(x, shape.start)
  \/ /\ shape.end # NoEnd /\ ~Elided(shape.end, shape.limits, x, ty) /\ mutated
     /\ ContainsName(x, TakeExpr(shape.start, shape.end))

\* Lines 136-142: skip first for an end `start + k`, take first otherwise.
OrderAdapters(start, end, skip, take) ==
  IF end # NoEnd /\ EndIsStartPlusVal(start, end) THEN skip \o take ELSE take \o skip

(***************************************************************************)
(* The suggestion of `check` (lines 83-184) for collection x of type ty,   *)
(* mutated (x in indexed_mut) and nonindex (loop variable used outside an  *)
(* index).  An adapter is [op |-> "skip" or "take", arg |-> expr]; an      *)
(* empty fragment is the empty sequence.  Abstains with [lint |-> FALSE].  *)
(* Without enumerate, a zero start and no take borrow the collection      *)
(* itself (`&x`, `&mut x`): the "ref" form.                               *)
(***************************************************************************)
Plan(shape, x, ty, mutated, nonindex) ==
  LET zero == StartsAtZero(shape.start)
      take == TakeFragment(shape.start, shape.end, shape.limits, x, ty)
      ref  == ~nonindex /\ zero /\ take = <<>>
  IN IF Aborts(shape, x, ty, mutated) THEN [lint |-> FALSE]
     ELSE [lint      |-> TRUE,
           coll      |-> x,
           mut       |-> mutated,
           pat       |-> IF nonindex THEN "pair" ELSE "item",
           enumerate |-> nonindex,
           form      |-> IF ref THEN "ref" ELSE "chain",
           adapters  |-> IF ref THEN <<>>
                         ELSE OrderAdapters(shape.start, shape.end,
                                            SkipFragment(shape.start), take)]

(***************************************************************************)
(* Reference semantics.  env maps each usize local to its value, lens each *)
(* collection to its length.                                               *)
(***************************************************************************)
RECURSIVE Val(_, _, _)
Val(e, env, lens) ==
  CASE e.k = "lit" -> e.n
    [] e.k = "var" -> env[e.x]
    [] e.k = "len" -> lens[e.x]
    [] e.k = "add" -> Val(e.l, env, lens) + Val(e.r, env, lens)

\* The values the range expression gives the loop variable, in order.
LoopIndices(shape, env, lens) ==
  LET s == Val(shape.start, env, lens)
      e == Val(shape.end, env, lens) + (IF shape.limits = "Closed" THEN 1 ELSE 0)
  IN [j \in 1 .. (IF e > s THEN e - s ELSE 0) |-> s + j - 1]

\* Iterator::skip and Iterator::take over a sequence of items.
SkipSeq(sq, k) == IF k >= Len(sq) THEN <<>> ELSE SubSeq(sq, k + 1, Len(sq))
TakeSeq(sq, k) == IF k >= Len(sq) THEN sq ELSE SubSeq(sq, 1, k)

RECURSIVE ApplyAdapters(_, _, _, _)
ApplyAdapters(sq, as, env, lens) ==
  IF as = <<>> THEN sq
  ELSE LET a == Head(as)
           k == Val(a.arg, env, lens)
       IN ApplyAdapters(IF a.op = "skip" THEN SkipSeq(sq, k) ELSE TakeSeq(sq, k),
                        Tail(as), env, lens)

\* The items the suggested loop binds: [idx, elem] where elem is the
\* position of the element in the collection and idx what the pattern
\* binds to the loop variable (the enumerate counter, when there is one).
Yield(sugg, env, lens) ==
  LET n == lens[sugg.coll]
      base == [p \in 1 .. n |-> [idx |-> p - 1, elem |-> p - 1]]
  IN ApplyAdapters(base, sugg.adapters, env, lens)

=============================================================================
