---------------------------- MODULE MCComponents ----------------------------
(***************************************************************************)
(* Instances of Components for TLC: every list of three components "a",    *)
(* "b" and "c" with up to two dependencies for the first two and one for   *)
(* the third, among them a second spelling of "a", and every short list    *)
(* over all the spellings, the blank one included.                         *)
(***************************************************************************)
EXTENDS Components

MCNames == {"a", "A", "b", "c", " ", ""}
MCNorm == [n \in MCNames |-> IF n = "A" THEN "a" ELSE IF n = " " THEN "" ELSE n]

DepLists(names, most) == UNION {[1..n -> names] : n \in 0..most}
Entries(name, deps) == {[name |-> name, deps |-> d] : d \in deps}

AnyDep == {"a", "A", "b", "c"}
ThreeComponents ==
  {<<x, y, z>> : x \in Entries("a", DepLists(AnyDep, 2)),
                 y \in Entries("b", DepLists(AnyDep, 2)),
                 z \in Entries("c", DepLists(AnyDep, 1))}
ShortLists ==
  LET entries == [name : MCNames, deps : DepLists(MCNames, 1)]
  IN  {<<x>> : x \in entries} \cup {<<x, y>> : x, y \in entries}

MCGenes == ThreeComponents \cup ShortLists

\* The smallest disagreement: "b" depends on "a" under another spelling.
RespelledGenes == {g \in ThreeComponents : Len(g[1].deps) = 0}
=============================================================================
