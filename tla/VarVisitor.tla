----------------------------- MODULE VarVisitor -----------------------------
(***************************************************************************)
(* VarVisitor of clippy_lints/src/loops/needless_range_loop.rs: the walk   *)
(* of the loop body that classifies every use of the loop variable.        *)
(*                                                                         *)
(* The recursion of visit_expr is an explicit stack of frames:             *)
(*   [op |-> "visit", node |-> n]     a call self.visit_expr(n)            *)
(*   [op |-> "set", val |-> v]        `self.prefer_mutable = v` in an arm   *)
(*   [op |-> "restore", val |-> v]    `self.prefer_mutable = old` (l. 387)  *)
(* prefer_mutable is the one field every frame shares, as in the code.     *)
(***************************************************************************)
EXTENDS HirBody, TLC

CONSTANTS NameOf, ScopeOf, TyOf, None

VARIABLES
  body,               (* the loop body walked (fixed for the run)          *)
  stack,              (* pending frames; Head is the next to run           *)
  prefer_mutable,
  indexed_mut,        (* names indexed in a mutable context                *)
  indexed_indirectly, (* name -> extent                                     *)
  indexed_directly,   (* name -> [extent, ty]                               *)
  referenced,         (* local names used outside an index                  *)
  nonindex            (* loop variable used outside an index                *)

vars == <<body, stack, prefer_mutable, indexed_mut, indexed_indirectly,
          indexed_directly, referenced, nonindex>>

Visit(n)    == [op |-> "visit", node |-> n]
Set(v)      == [op |-> "set", val |-> v]
Restore(v)  == [op |-> "restore", val |-> v]

\* The extent `check` records: var_scope of a local, None for a static/const.
Extent(b) == IF b \in Consts THEN None ELSE ScopeOf[b]

(***************************************************************************)
(* VarVisitor::check(idx, seqexpr, expr) returns false ("consumed") when   *)
(* the container is a single-segment name and the index reads the loop     *)
(* variable, directly (path_to_local_id) or below its root.                *)
(***************************************************************************)
CheckConsumes(n) ==
  LET ks == Kids(body, n) IN
  /\ IsIndexOp(body[n])
  /\ body[ks[1]].k = "Path"
  /\ body[ks[2]].k = "Var" \/ LocalUsed(body, ks[2])

\* Mutant: an index that is exactly the variable also counts as indirect.
VisitIndexDirectAlsoIndirect ==
  /\ stack # <<>>
  /\ Head(stack).op = "visit"
  /\ LET n == Head(stack).node
         ks == Kids(body, n)
         name == NameOf[body[ks[1]].b]
         direct == body[ks[2]].k = "Var"
     IN /\ CheckConsumes(n)
        /\ indexed_mut' = IF prefer_mutable THEN indexed_mut \cup {name} ELSE indexed_mut
        /\ indexed_indirectly' = IF LocalUsed(body, ks[2]) \/ direct
                                   THEN (name :> Extent(body[ks[1]].b)) @@ indexed_indirectly
                                   ELSE indexed_indirectly
        /\ indexed_directly' = IF direct
                                 THEN (name :> [extent |-> Extent(body[ks[1]].b),
                                                ty |-> TyOf[body[ks[1]].b]]) @@ indexed_directly
                                 ELSE indexed_directly
        /\ stack' = Tail(stack)
  /\ UNCHANGED <<body, prefer_mutable, referenced, nonindex>>

\* Record of `check` for the consumed index operation n.
VisitIndex ==
  /\ stack # <<>>
  /\ Head(stack).op = "visit"
  /\ LET n      == Head(stack).node
         ks     == Kids(body, n)
         b      == body[ks[1]].b
         name   == NameOf[b]
         direct == body[ks[2]].k = "Var"
     IN
     /\ CheckConsumes(n)
     /\ indexed_mut' = IF prefer_mutable THEN indexed_mut \cup {name} ELSE indexed_mut
     /\ indexed_indirectly' = IF LocalUsed(body, ks[2])
                                THEN (name :> Extent(b)) @@ indexed_indirectly
                                ELSE indexed_indirectly
     /\ indexed_directly' = IF direct
                              THEN (name :> [extent |-> Extent(b), ty |-> TyOf[b]])
                                   @@ indexed_directly
                              ELSE indexed_directly
     /\ stack' = Tail(stack)
  /\ UNCHANGED <<body, prefer_mutable, referenced, nonindex>>

\* Mutant: prefer_mutable is set for a `&mut` argument but not reset first.
ArgFramesNoReset(ms, as) ==
  FlattenSeq([j \in DOMAIN as |-> IF ms[j] THEN <<Set(TRUE), Visit(as[j])>>
                                            ELSE <<Visit(as[j])>>])

\* One `prefer_mutable = <arg is &mut>; visit_expr(arg)` per argument.
ArgFrames(ms, as) == FlattenSeq([j \in DOMAIN as |-> <<Set(ms[j]), Visit(as[j])>>])

\* The frames of the match arm of visit_expr for node n.
ArmFrames(n) ==
  LET l == body[n]
      ks == Kids(body, n)
  IN CASE l.k = "Assign"          -> <<Set(TRUE), Visit(ks[1]), Set(FALSE), Visit(ks[2])>>
       [] l.k = "AddrOf" /\ l.mut -> <<Set(TRUE), Visit(ks[1])>>
       [] l.k = "Call"            -> <<Visit(ks[1])>> \o ArgFrames(l.muts, Tail(ks))
       [] l.k = "MethodCall"      -> ArgFrames(l.muts, ks)
       [] OTHER                   -> [j \in DOMAIN ks |-> Visit(ks[j])]

\* Mutant: `self.prefer_mutable = old` is never run.
VisitExprNoRestore ==
  /\ stack # <<>>
  /\ Head(stack).op = "visit"
  /\ LET n == Head(stack).node
         l == body[n]
     IN /\ ~CheckConsumes(n)
        /\ nonindex' = (nonindex \/ l.k = "Var")
        /\ referenced' = IF l.k = "Path" /\ l.b \notin Consts
                           THEN referenced \cup {NameOf[l.b]} ELSE referenced
        /\ stack' = ArmFrames(n) \o Tail(stack)
  /\ UNCHANGED <<body, prefer_mutable, indexed_mut, indexed_indirectly, indexed_directly>>

\* Mutant: `referenced` records the binding, not its name.
VisitExprByBinding ==
  /\ stack # <<>>
  /\ Head(stack).op = "visit"
  /\ LET n == Head(stack).node
         l == body[n]
     IN /\ ~CheckConsumes(n)
        /\ nonindex' = (nonindex \/ l.k = "Var")
        /\ referenced' = IF l.k = "Path" /\ l.b \notin Consts
                           THEN referenced \cup {l.b} ELSE referenced
        /\ stack' = ArmFrames(n) \o <<Restore(prefer_mutable)>> \o Tail(stack)
  /\ UNCHANGED <<body, prefer_mutable, indexed_mut, indexed_indirectly, indexed_directly>>

(***************************************************************************)
(* visit_expr(n) when check did not consume n: the path if_chain, then     *)
(* `let old = self.prefer_mutable`, the arm, and the restore of old.       *)
(***************************************************************************)
VisitExpr ==
  /\ stack # <<>>
  /\ Head(stack).op = "visit"
  /\ LET n == Head(stack).node
         l == body[n]
     IN
     /\ ~CheckConsumes(n)
     /\ nonindex' = (nonindex \/ l.k = "Var")
     /\ referenced' = IF l.k = "Path" /\ l.b \notin Consts
                        THEN referenced \cup {NameOf[l.b]} ELSE referenced
     /\ stack' = ArmFrames(n) \o <<Restore(prefer_mutable)>> \o Tail(stack)
  /\ UNCHANGED <<body, prefer_mutable, indexed_mut, indexed_indirectly, indexed_directly>>

\* `self.prefer_mutable = v` inside an arm.
SetPreferMutable ==
  /\ stack # <<>>
  /\ Head(stack).op = "set"
  /\ prefer_mutable' = Head(stack).val
  /\ stack' = Tail(stack)
  /\ UNCHANGED <<body, indexed_mut, indexed_indirectly, indexed_directly, referenced, nonindex>>

\* `self.prefer_mutable = old` at the end of visit_expr.
RestorePreferMutable ==
  /\ stack # <<>>
  /\ Head(stack).op = "restore"
  /\ prefer_mutable' = Head(stack).val
  /\ stack' = Tail(stack)
  /\ UNCHANGED <<body, indexed_mut, indexed_indirectly, indexed_directly, referenced, nonindex>>

(***************************************************************************)
(* `check` builds the visitor with empty sets and prefer_mutable false,    *)
(* then walk_expr(&mut visitor, body) visits each statement of the block.  *)
(***************************************************************************)
Init ==
  /\ body \in Bodies
  /\ stack = [j \in DOMAIN Roots(body) |-> Visit(Roots(body)[j])]
  /\ prefer_mutable = FALSE
  /\ indexed_mut = {}
  /\ indexed_indirectly = [x \in {} |-> None]
  /\ indexed_directly = [x \in {} |-> None]
  /\ referenced = {}
  /\ nonindex = FALSE

Next == VisitIndex \/ VisitExpr \/ SetPreferMutable \/ RestorePreferMutable

Spec == Init /\ [][Next]_vars

Names == {NameOf[b] : b \in Bindings}

TypeOK ==
  /\ prefer_mutable \in BOOLEAN
  /\ nonindex \in BOOLEAN
  /\ indexed_mut \subseteq Names
  /\ referenced \subseteq Names
  /\ DOMAIN indexed_indirectly \subseteq Names
  /\ DOMAIN indexed_directly \subseteq Names
  /\ \A i \in DOMAIN stack : stack[i].op \in {"visit", "set", "restore"}

(***************************************************************************)
(* Properties.                                                             *)
(***************************************************************************)
Abs == INSTANCE VisitorSpec WITH
         done <- stack = <<>>,
         indexed_mut <- IF stack = <<>> THEN indexed_mut ELSE {},
         indexed_indirectly <- IF stack = <<>> THEN indexed_indirectly ELSE [x \in {} |-> None],
         indexed_directly <- IF stack = <<>> THEN indexed_directly ELSE [x \in {} |-> None],
         referenced <- IF stack = <<>> THEN referenced ELSE {},
         nonindex <- IF stack = <<>> THEN nonindex ELSE FALSE

\* Whenever visit_expr is entered for a node, the shared prefer_mutable flag
\* holds exactly the context the path from the statement to that node gives
\* it (the set/restore discipline of visit_expr's arms never leaks a value
\* to a sibling, a later argument or a later statement).
ContextAtVisit ==
  stack # <<>> /\ Head(stack).op = "visit" =>
    prefer_mutable = Abs!Ctx(body, Head(stack).node)

\* The walk as a whole implements VisitorSpec: when it ends, the sets and
\* maps the gate of `check` reads are the context-threaded classification
\* with last-write-wins maps.
WalkImplementsClassification == Abs!Spec

=============================================================================
