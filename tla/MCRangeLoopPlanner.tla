------------------------- MODULE MCRangeLoopPlanner -------------------------
(***************************************************************************)
(* Bounds for RangeLoopPlanner: `v` is indexed, `w` is another collection, *)
(* `n` and `m` are usize locals.  The starts include a constant zero that  *)
(* is not the literal 0 and a start that names `v`; the ends include every *)
(* branch of the take computation: none, literals below, at and above the  *)
(* array length, `v.len()`, `w.len()`, a local, and `start + k` on both    *)
(* sides with k a literal or `v.len()`.                                    *)
(***************************************************************************)
EXTENDS RangeLoopPlanner

VarE(x) == [k |-> "var", x |-> x]
LenE(x) == [k |-> "len", x |-> x]
AddStart(e, left) == [k |-> "addStart", k2 |-> e, left |-> left]

MCStarts == {Lit(0), Add(Lit(0), Lit(0)), Lit(1), VarE("n"), LenE("v")}
MCEnds   == {NoEnd, Lit(2), Lit(3), Lit(4), LenE("v"), LenE("w"), VarE("m"),
             AddStart(Lit(2), TRUE), AddStart(Lit(2), FALSE), AddStart(LenE("v"), TRUE)}
MCTypes  == {[kind |-> "Vec"], [kind |-> "Array", len |-> 4]}
=============================================================================
