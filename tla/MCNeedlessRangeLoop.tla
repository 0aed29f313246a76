------------------------ MODULE MCNeedlessRangeLoop ------------------------
(***************************************************************************)
(* Bounds for the whole of `check`: the bindings and expression kinds of   *)
(* MCVarVisitor, three candidates (a matching loop, a range without start, *)
(* a tuple pattern) and two loop shapes; the sound run adds bodies of 5    *)
(* and 6 nodes that index two collections.                                *)
(***************************************************************************)
EXTENDS NeedlessRangeLoop

MCBindings == {"vOut", "vIn", "w", "C"}
MCConsts   == {"C"}
MCNameOf   == [b \in MCBindings |-> IF b \in {"vOut", "vIn"} THEN "v" ELSE b]
\* "loop" is the scope of the loop pattern and every scope nested in it.
MCScopeOf  == [b \in MCBindings \ MCConsts |-> IF b = "vIn" THEN "loop" ELSE "outer"]
MCTyOf     == [b \in MCBindings |-> CASE b = "C" -> [kind |-> "Array", len |-> 4]
                                      [] b = "w" -> [kind |-> "Custom"]
                                      [] OTHER   -> [kind |-> "Vec"]]

Path(b) == [k |-> "Path", b |-> b]

SoundLeaves   == {[k |-> "Var"], [k |-> "Lit"]} \cup {Path(b) : b \in MCBindings}
SoundUnaries  == {[k |-> "AddrOf", mut |-> TRUE], [k |-> "Other"]}
SoundBinaries == {[k |-> "Index"], [k |-> "Assign"], [k |-> "Binary"],
                  [k |-> "Call", muts |-> <<TRUE>>]}

\* Two collections that do not share a name, a vector and a const array,
\* indexed in the same body: bodies of 5 and 6 nodes hold two index
\* expressions (`v[i]; C[i]`, `&mut v[i]; C[i]`, `v[i] = C[i]`...).
PairLeaves   == {[k |-> "Var"], Path("vOut"), Path("C")}
PairUnaries  == {[k |-> "AddrOf", mut |-> TRUE]}
PairBinaries == {[k |-> "Index"], [k |-> "Assign"]}

Pairs == INSTANCE HirBody WITH Leaves <- PairLeaves, Unaries <- PairUnaries,
                               Binaries <- PairBinaries, MaxNodes <- 6

\* Every body of up to MaxNodes nodes, and the two-index bodies of 5 and 6.
SoundBodies == UNION {W!ForestsOfSize[n] : n \in 1 .. MaxNodes} \cup
               Pairs!ForestsOfSize[5] \cup Pairs!ForestsOfSize[6]

ShadowLeaves   == {[k |-> "Var"], Path("vOut"), Path("vIn")}
ShadowBinaries == {[k |-> "Index"]}

MCCandidates == [range : {"start", "no_start", "not_range"}, pat : {"binding", "tuple"}]
MCShapes == {[start |-> Lit(0), end |-> [k |-> "len", x |-> "v"], limits |-> "HalfOpen"],
             [start |-> Lit(1), end |-> [k |-> "var", x |-> "n"], limits |-> "Closed"]}
=============================================================================
