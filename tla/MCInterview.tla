---------------------------- MODULE MCInterview ----------------------------
(***************************************************************************)
(* Every script of up to six lines, and of seven that use up both rounds;  *)
(* drafts with two files of one name, unsafe names and files that do not   *)
(* load.                                                                   *)
(***************************************************************************)
EXTENDS Interview

Sequences6 == UNION {[1..n -> Kinds] : n \in 0..6}
TwoRounds == <<"text", "blank", "blank", "text", "blank", "blank">>
MCScripts ==
  {[lines |-> l, end |-> e] :
     l \in Sequences6 \cup {TwoRounds \o <<k>> : k \in Kinds}, e \in Endings}

File(name, path, loads) == [name |-> name, path |-> path, loads |-> loads]
Twins == {File("a", "x/a", TRUE), File("a", "y/a", TRUE), File("b", "b", TRUE)}
Mixed == {File("a", "a", FALSE), File("b", "b", TRUE), File("..", "..", TRUE)}
None == {File("a", "a", FALSE)}
MCDrafts == {Twins, Mixed, None}
=============================================================================
