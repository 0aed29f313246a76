------------------------------ MODULE HirBody ------------------------------
(***************************************************************************)
(* The loop body that needless_range_loop's VarVisitor walks: a forest of  *)
(* HIR expressions (the statements of the loop's block), written as a      *)
(* sequence of node labels in prefix (Polish) order.  Each label has a     *)
(* fixed arity, so the sequence determines the tree, and position order is *)
(* the order in which rustc_hir's walk_expr visits the nodes.              *)
(*                                                                         *)
(* A label abstracts an ExprKind to what the visitor tells apart:          *)
(*   [k |-> "Var"]                path to the loop variable (Res::Local =  *)
(*                                the pattern's HirId)                     *)
(*   [k |-> "Path", b |-> b]      single-segment path to binding b, a     *)
(*                                local (Res::Local) or a static/const     *)
(*   [k |-> "QPath"]              any other path (multi-segment, `m::A`)   *)
(*   [k |-> "Lit"]                literal                                  *)
(*   [k |-> "AddrOf", mut |-> m]  `&e` / `&mut e`                          *)
(*   [k |-> "Closure"]            closure; its one child is the body value *)
(*   [k |-> "Other"]              field, deref, unary op, block, ...       *)
(*   [k |-> "Index"]              `seq[idx]`                               *)
(*   [k |-> "Assign"]             `lhs = rhs` or `lhs op= rhs`             *)
(*   [k |-> "Binary"]             any other two-operand expression         *)
(*   [k |-> "Call", muts |-> ms]  `callee(args)`; ms[j] is whether the     *)
(*                                adjusted type of argument j is `&mut _`  *)
(*   [k |-> "MethodCall", index |-> x, muts |-> ms]                        *)
(*                                `args[0].m(args[1..])`; ms[j] is whether *)
(*                                input j of the method's signature is     *)
(*                                `&mut _`; x says the method is           *)
(*                                Index::index / IndexMut::index_mut       *)
(***************************************************************************)
EXTENDS Integers, Sequences, SequencesExt

CONSTANTS
  Bindings,   (* the collections the body can name                       *)
  Consts,     (* those that are statics or consts (Res::Def)             *)
  Leaves,     (* labels of arity 0 that bodies are built from            *)
  Unaries,    (* labels of arity 1                                       *)
  Binaries,   (* labels of arity 2                                       *)
  MaxNodes    (* the largest body, in nodes                              *)

ASSUME Consts \subseteq Bindings
ASSUME MaxNodes \in Nat \ {0}

Arity(l) ==
  CASE l.k \in {"Var", "Path", "QPath", "Lit"} -> 0
    [] l.k \in {"AddrOf", "Closure", "Other"}  -> 1
    [] l.k = "Call"                             -> 1 + Len(l.muts)
    [] l.k = "MethodCall"                       -> Len(l.muts)
    [] OTHER                                    -> 2

(***************************************************************************)
(* Tree structure of a prefix-order body s.                                *)
(***************************************************************************)
\* The position just after the subtree that starts at q, scanning while
\* `pending` subtrees are still open.
RECURSIVE Scan(_, _, _)
Scan(s, q, pending) ==
  IF pending = 0 THEN q ELSE Scan(s, q + 1, pending - 1 + Arity(s[q]))

End(s, p) == Scan(s, p, 1)

\* k consecutive subtrees starting at position q.
RECURSIVE SubtreesFrom(_, _, _)
SubtreesFrom(s, q, k) ==
  IF k = 0 THEN <<>> ELSE <<q>> \o SubtreesFrom(s, End(s, q), k - 1)

\* The children of p, in the order walk_expr visits them.
Kids(s, p) == SubtreesFrom(s, p + 1, Arity(s[p]))

\* The statements of the block, in order.
RECURSIVE RootsFrom(_, _)
RootsFrom(s, q) == IF q > Len(s) THEN <<>> ELSE <<q>> \o RootsFrom(s, End(s, q))
Roots(s) == RootsFrom(s, 1)

\* The strict descendants of p.
Below(s, p) == (p + 1) .. (End(s, p) - 1)

\* The parent of a non-root node.
Parent(s, n) == CHOOSE p \in 1 .. Len(s) : \E j \in DOMAIN Kids(s, p) : Kids(s, p)[j] = n

IsRoot(s, n) == n \in ToSet(Roots(s))

\* An index operation: `seq[idx]` or an explicit Index::index/index_mut call,
\* whose container is its first child and its index its second.
IsIndexOp(l) == l.k = "Index" \/ (l.k = "MethodCall" /\ l.index)

(***************************************************************************)
(* LocalUsedVisitor, walked over the CHILDREN of an index expression       *)
(* (walk_expr, not visit_expr): the loop variable occurs strictly below    *)
(* idx.  It is false for an index that is exactly the variable.           *)
(***************************************************************************)
LocalUsed(s, idx) == \E d \in Below(s, idx) : s[d].k = "Var"

(***************************************************************************)
(* The bodies the analysis can be given.  Only two shape rules of Rust are *)
(* kept: the container of an index is not the (integer) loop variable, and *)
(* the left side of an assignment is a place (a local, an index or a      *)
(* field/deref), never a constant.  Both are checked where a binary node   *)
(* is put over its first operand t1.                                       *)
(***************************************************************************)
IsPlace(l) == \/ l.k \in {"Var", "Index", "Other"}
              \/ l.k = "Path" /\ l.b \notin Consts

Fits(b, t1) == /\ IsIndexOp(b) => t1[1].k # "Var"
               /\ b.k = "Assign" => IsPlace(t1[1])

\* Trees level by level: TreeTable(n)[j] is the set of trees of j nodes
\* whose binary nodes all fit their first operand.  Each level is built
\* once from the levels below it.
RECURSIVE TreeTable(_)
TreeTable(n) ==
  IF n = 1 THEN <<{<<l>> : l \in Leaves}>>
  ELSE LET T == TreeTable(n - 1)
       IN Append(T, {<<u>> \o t : u \in Unaries, t \in T[n - 1]}
                    \cup UNION {{<<b>> \o t1 \o t2 : t1 \in {t \in T[j] : Fits(b, t)},
                                                    t2 \in T[n - 1 - j]} :
                                   b \in Binaries, j \in 1 .. (n - 2)})

ShapedTrees == TreeTable(MaxNodes)

\* Blocks of n nodes: a first statement of j nodes, then the rest.
ForestsOfSize[n \in 0 .. MaxNodes] ==
  IF n = 0 THEN {<<>>}
  ELSE UNION {{t \o f : t \in ShapedTrees[j], f \in ForestsOfSize[n - j]} : j \in 1 .. n}

Bodies == UNION {ForestsOfSize[n] : n \in 1 .. MaxNodes}

=============================================================================
