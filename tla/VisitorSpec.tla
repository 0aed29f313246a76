---------------------------- MODULE VisitorSpec ----------------------------
(***************************************************************************)
(* What VarVisitor promises, stated without its traversal: in one step it  *)
(* turns a body into the classification the gate of needless_range_loop   *)
(* reads.  The mutability context of a node is given as a parameter passed *)
(* down the tree (the design of spec.md section 9): the value set on the   *)
(* nearest edge above the node that sets one, FALSE at a statement.        *)
(* Maps keyed by name keep the entry of the LAST index operation in walk   *)
(* order, as FxHashMap::insert does.                                       *)
(***************************************************************************)
EXTENDS HirBody, TLC, FiniteSetsExt

CONSTANTS
  NameOf,     (* binding -> the name (Symbol) the maps are keyed by        *)
  ScopeOf,    (* local binding -> its region scope                         *)
  TyOf,       (* binding -> its type                                       *)
  None        (* the extent recorded for a static/const                    *)

VARIABLES body, done, indexed_mut, indexed_indirectly, indexed_directly,
          referenced, nonindex

vars == <<body, done, indexed_mut, indexed_indirectly, indexed_directly,
          referenced, nonindex>>

ExtentOf(b) == IF b \in Consts THEN None ELSE ScopeOf[b]

\* The value the edge from p to its j-th child gives the context, as a
\* singleton, or {} when the edge keeps the context of p.
EdgeContext(s, p, j) ==
  LET l == s[p] IN
  CASE l.k = "Assign"               -> {j = 1}
    [] l.k = "AddrOf" /\ l.mut      -> {TRUE}
    [] l.k = "Call" /\ j > 1        -> {l.muts[j - 1]}
    [] l.k = "MethodCall"           -> {l.muts[j]}
    [] OTHER                        -> {}

RECURSIVE Ctx(_, _)
Ctx(s, n) ==
  IF IsRoot(s, n) THEN FALSE
  ELSE LET p == Parent(s, n)
           j == CHOOSE i \in DOMAIN Kids(s, p) : Kids(s, p)[i] = n
       IN IF EdgeContext(s, p, j) = {} THEN Ctx(s, p)
          ELSE CHOOSE v \in EdgeContext(s, p, j) : TRUE

\* An index operation on a named collection whose index reads the variable.
Classified(s, n) ==
  /\ IsIndexOp(s[n])
  /\ s[Kids(s, n)[1]].k = "Path"
  /\ \/ s[Kids(s, n)[2]].k = "Var"
     \/ LocalUsed(s, Kids(s, n)[2])

\* A node is reached unless it lies below a classified index operation.
Reached(s, n) == \A a \in 1 .. Len(s) : n \in Below(s, a) => ~Classified(s, a)

ClassifiedAt(s) == {n \in 1 .. Len(s) : Reached(s, n) /\ Classified(s, n)}
Container(s, n) == s[Kids(s, n)[1]].b
DirectAt(s)     == {n \in ClassifiedAt(s) : s[Kids(s, n)[2]].k = "Var"}
IndirectAt(s)   == {n \in ClassifiedAt(s) : LocalUsed(s, Kids(s, n)[2])}

\* The container of the last operation in S that indexes a collection called x.
LastNamed(s, S, x) == Container(s, Max({n \in S : NameOf[Container(s, n)] = x}))
NamesAt(s, S) == {NameOf[Container(s, n)] : n \in S}

MutOf(s) == {NameOf[Container(s, n)] : n \in {c \in ClassifiedAt(s) : Ctx(s, c)}}
IndirectOf(s) == [x \in NamesAt(s, IndirectAt(s)) |-> ExtentOf(LastNamed(s, IndirectAt(s), x))]
DirectOf(s) == [x \in NamesAt(s, DirectAt(s)) |->
                  LET b == LastNamed(s, DirectAt(s), x)
                  IN [extent |-> ExtentOf(b), ty |-> TyOf[b]]]
ReferencedOf(s) == {NameOf[s[n].b] : n \in {m \in 1 .. Len(s) :
                      Reached(s, m) /\ s[m].k = "Path" /\ s[m].b \notin Consts}}
NonindexOf(s) == \E n \in 1 .. Len(s) : Reached(s, n) /\ s[n].k = "Var"

EmptyMap == [x \in {} |-> None]

Init ==
  /\ body \in Bodies
  /\ done = FALSE
  /\ indexed_mut = {}
  /\ indexed_indirectly = EmptyMap
  /\ indexed_directly = EmptyMap
  /\ referenced = {}
  /\ nonindex = FALSE

Classify ==
  /\ ~done
  /\ done' = TRUE
  /\ indexed_mut' = MutOf(body)
  /\ indexed_indirectly' = IndirectOf(body)
  /\ indexed_directly' = DirectOf(body)
  /\ referenced' = ReferencedOf(body)
  /\ nonindex' = NonindexOf(body)
  /\ UNCHANGED body

Spec == Init /\ [][Classify]_vars

=============================================================================
