--------------------------- MODULE MCVarVisitor ---------------------------
(***************************************************************************)
(* Model values for VarVisitor.  Two locals share the name `v`: one        *)
(* declared before the loop, one inside its body (shadowing), as the maps  *)
(* of the visitor are keyed by name.  `w` is another local, `C` a const.   *)
(***************************************************************************)
EXTENDS VarVisitor

MCBindings == {"vOut", "vIn", "w", "C"}
MCConsts   == {"C"}
MCNameOf   == [b \in MCBindings |-> IF b \in {"vOut", "vIn"} THEN "v" ELSE b]
\* "loop" is the scope of the loop pattern and every scope nested in it.
MCScopeOf  == [b \in MCBindings \ MCConsts |-> IF b = "vIn" THEN "loop" ELSE "outer"]
MCTyOf     == [b \in MCBindings |-> CASE b = "C" -> [kind |-> "Array", len |-> 4]
                                      [] b = "w" -> [kind |-> "Custom"]
                                      [] OTHER   -> [kind |-> "Vec"]]

Path(b) == [k |-> "Path", b |-> b]
Call(ms) == [k |-> "Call", muts |-> ms]
Method(x, ms) == [k |-> "MethodCall", index |-> x, muts |-> ms]

\* Every kind of expression the visitor distinguishes; bodies of up to 4 nodes.
AllLeaves   == {[k |-> "Var"], [k |-> "QPath"], [k |-> "Lit"]} \cup {Path(b) : b \in MCBindings}
AllUnaries  == {[k |-> "AddrOf", mut |-> TRUE], [k |-> "AddrOf", mut |-> FALSE],
                [k |-> "Closure"], [k |-> "Other"],
                Method(FALSE, <<TRUE>>), Method(FALSE, <<FALSE>>)}
AllBinaries == {[k |-> "Index"], [k |-> "Assign"], [k |-> "Binary"],
                Call(<<TRUE>>), Call(<<FALSE>>),
                Method(TRUE, <<TRUE, FALSE>>), Method(TRUE, <<FALSE, FALSE>>),
                Method(FALSE, <<TRUE, FALSE>>), Method(FALSE, <<FALSE, FALSE>>),
                Method(FALSE, <<FALSE, TRUE>>)}

===========================================================================
