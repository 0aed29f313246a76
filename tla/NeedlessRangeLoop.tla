-------------------------- MODULE NeedlessRangeLoop --------------------------
(***************************************************************************)
(* `check` of clippy_lints/src/loops/needless_range_loop.rs, whole: the    *)
(* range/pattern match, the VarVisitor walk of the body (module            *)
(* VarVisitor), the gate on what the walk found, and the rewrite (module   *)
(* RangeLoopPlan).  One behaviour is one call of `check` on one loop.      *)
(***************************************************************************)
EXTENDS RangeLoopPlan, FiniteSets, TLC

CONSTANTS
  Bindings, Consts, Leaves, Unaries, Binaries, MaxNodes,
  NameOf, ScopeOf, TyOf, None,
  Candidates, (* [range, pat]: what higher::range and pat.kind give         *)
  Shapes,     (* loop shapes [start, end, limits] of a matched range        *)
  PatScope    (* region_scope_tree.var_scope of the loop pattern            *)

VARIABLES
  phase,      (* "match", "walk", "done"                                    *)
  candidate, shape,
  outcome,    (* [lint |-> FALSE, why] or the suggestion of Plan            *)
  body, stack, prefer_mutable, indexed_mut, indexed_indirectly,
  indexed_directly, referenced, nonindex

walkVars == <<body, stack, prefer_mutable, indexed_mut, indexed_indirectly,
              indexed_directly, referenced, nonindex>>
vars == <<phase, candidate, shape, outcome, walkVars>>

W == INSTANCE VarVisitor

\* region_scope_tree.is_subscope_of(extent, pat_extent): the collection is
\* declared inside the loop (scopes are "outer", PatScope, or nested ones).
IsSubscopeOfPat(extent) == extent = PatScope

\* has_iter_method(cx, ty).
HasIterMethod(ty) == ty.kind \in {"Vec", "Array"}

Abstain(why) == [lint |-> FALSE, why |-> why]

Init ==
  /\ phase = "match"
  /\ candidate \in Candidates
  /\ shape \in Shapes
  /\ outcome = Abstain("none")
  /\ W!Init

\* Lines 32-39: a range literal with a start, bound to a single name.
Match ==
  /\ phase = "match"
  /\ IF candidate.range = "start" /\ candidate.pat = "binding"
       THEN phase' = "walk" /\ UNCHANGED outcome
       ELSE phase' = "done" /\ outcome' = Abstain("no_match")
  /\ UNCHANGED <<candidate, shape, walkVars>>

\* walk_expr(&mut visitor, body), line 50.
Walk == phase = "walk" /\ W!Next /\ UNCHANGED <<phase, candidate, shape, outcome>>

\* Mutant: the container is linted even when also used without indexing.
DecisionIgnoresReferenced ==
  IF ~(DOMAIN indexed_indirectly = {} /\ Cardinality(DOMAIN indexed_directly) = 1)
    THEN Abstain("not_single")
  ELSE LET x == CHOOSE y \in DOMAIN indexed_directly : TRUE
           e == indexed_directly[x]
       IN CASE e.extent # None /\ IsSubscopeOfPat(e.extent) -> Abstain("declared_in_loop")
            [] ~HasIterMethod(e.ty)                        -> Abstain("no_iter")
            [] OTHER -> Plan(shape, x, e.ty, x \in indexed_mut, nonindex)

\* Mutant: the single-collection test becomes "at least one".
DecisionAtLeastOne ==
  IF ~(DOMAIN indexed_indirectly = {} /\ Cardinality(DOMAIN indexed_directly) >= 1)
    THEN Abstain("not_single")
  ELSE LET x == CHOOSE y \in DOMAIN indexed_directly : TRUE
           e == indexed_directly[x]
       IN CASE e.extent # None /\ IsSubscopeOfPat(e.extent) -> Abstain("declared_in_loop")
            [] ~HasIterMethod(e.ty)                        -> Abstain("no_iter")
            [] x \in referenced                           -> Abstain("referenced")
            [] OTHER -> Plan(shape, x, e.ty, x \in indexed_mut, nonindex)

\* Lines 52-184 once the walk is over: the gate on what the visitor found
\* (one collection, indexed only directly; declared before the loop; with
\* an iter method; not otherwise referenced), then the rewrite.
Decision ==
  IF ~(DOMAIN indexed_indirectly = {} /\ Cardinality(DOMAIN indexed_directly) = 1)
    THEN Abstain("not_single")
  ELSE LET x == CHOOSE y \in DOMAIN indexed_directly : TRUE
           e == indexed_directly[x]
       IN CASE e.extent # None /\ IsSubscopeOfPat(e.extent) -> Abstain("declared_in_loop")
            [] ~HasIterMethod(e.ty)                        -> Abstain("no_iter")
            [] x \in referenced                           -> Abstain("referenced")
            [] OTHER -> Plan(shape, x, e.ty, x \in indexed_mut, nonindex)

Lint ==
  /\ phase = "walk"
  /\ stack = <<>>
  /\ phase' = "done"
  /\ outcome' = Decision
  /\ UNCHANGED <<candidate, shape, walkVars>>

Next == Match \/ Walk \/ Lint

Spec == Init /\ [][Next]_vars

Linted == phase = "done" /\ outcome.lint

(***************************************************************************)
(* What the body does, read off the tree (VisitorSpec's reference).        *)
(***************************************************************************)
Ref == INSTANCE VisitorSpec WITH done <- stack = <<>>
BodyBindings == {body[n].b : n \in {m \in DOMAIN body : body[m].k = "Path"}}
Unshadowed == \A b1, b2 \in BodyBindings : NameOf[b1] = NameOf[b2] => b1 = b2
IndexedBindings == {Ref!Container(body, n) : n \in Ref!ClassifiedAt(body)}
DirectBindings == {Ref!Container(body, n) : n \in Ref!DirectAt(body)}
PlainUses(b) == {n \in DOMAIN body : Ref!Reached(body, n) /\ body[n].k = "Path" /\ body[n].b = b}
VarOutsideIndex == \E n \in DOMAIN body : Ref!Reached(body, n) /\ body[n].k = "Var"
WrittenThroughIndex == \E n \in Ref!ClassifiedAt(body) : Ref!Ctx(body, n)

(***************************************************************************)
(* Properties.                                                             *)
(***************************************************************************)

\* When no two collections of the body share a name, a suggestion is a sound
\* rewrite of the body: the loop variable indexes exactly one collection and
\* only directly; it is declared before the loop and, unless it is a
\* static or const (which a borrow cannot conflict with), not used elsewhere
\* in the body; a write through the index makes the rewrite mutable; a use of
\* the variable outside an index keeps it, paired with the item.
RewriteIsSound ==
  Linted /\ Unshadowed =>
    /\ IndexedBindings = DirectBindings
    /\ Cardinality(DirectBindings) = 1
    /\ \A b \in DirectBindings :
         /\ NameOf[b] = outcome.coll
         /\ b \in Consts \/ ScopeOf[b] # PatScope
         /\ b \notin Consts => PlainUses(b) = {}
    /\ WrittenThroughIndex => outcome.mut
    /\ VarOutsideIndex => outcome.pat = "pair"

\* spec.md 8 (scope ordering): if a collection the loop variable indexes is
\* declared inside the loop, `check` abstains, whatever else holds.
ScopeOrdering ==
  Linted => \A b \in DirectBindings : b \in Consts \/ ScopeOf[b] # PatScope

=============================================================================
