---------------------------- MODULE MCAgentLoop ----------------------------
(***************************************************************************)
(* Instances of AgentLoop for TLC: two files, one of them with a second    *)
(* spelling, and up to three calls in a turn.                              *)
(***************************************************************************)
EXTENDS AgentLoop

MCSpellings == {"a", "./a", "b"}
MCClean == [s \in MCSpellings |-> IF s = "b" THEN "b" ELSE "a"]

Call(op, path) == [op |-> op, path |-> path]
Looks == {Call("read", "a"), Call("read", "b"), Call("list", "a")}

\* A turn without a call; an unknown tool; one call; two writes of one file,
\* under one spelling or two, or of two files; a write and a look; two writes of one
\* file beside a look at it.
MCRequests ==
  {<<>>, <<Call("write", "b"), Call("unknown", "a")>>}
    \cup {<<c>> : c \in {Call("write", "a"), Call("write", "b")} \cup Looks}
    \cup {<<Call("write", "a"), Call("write", s)>> : s \in MCSpellings}
    \cup {<<Call("write", "./a"), c>> : c \in Looks}
    \cup {<<Call("write", "a"), Call("write", "./a"), Call("read", "a")>>}

\* No patch mode; one best file; one under two spellings.
MCSeeds ==
  {[s \in {} |-> <<0, 1>>], [s \in {"a"} |-> <<0, 1>>],
   [s \in {"a", "./a"} |-> IF s = "a" THEN <<0, 1>> ELSE <<0, 2>>]}

\* A turn that writes one file twice.
TwoWrites == {<<Call("write", "a"), Call("write", "a")>>}
NoSeed == {[s \in {} |-> <<0, 1>>]}
=============================================================================
