----------------------------- MODULE MCComposed -----------------------------
(***************************************************************************)
(* Instances of Composed for TLC: a chain of two components, an integration*)
(* validator or none, and budgets that run out in every phase.  Three      *)
(* scores below the threshold let a component improve, stall and improve   *)
(* again until its five attempts are used up.                              *)
(***************************************************************************)
EXTENDS Composed

MCNames == {"a", "A", "b", "c", "", " "}
MCNorm == [n \in MCNames |-> IF n = "A" THEN "a" ELSE IF n = " " THEN "" ELSE n]

Entry(name, deps) == [name |-> name, deps |-> deps]
Chain == <<Entry("b", <<"a">>), Entry("a", <<>>)>>
Diamond == <<Entry("c", <<"b", "a">>), Entry("b", <<"a">>), Entry("a", <<>>)>>
Respelled == <<Entry("b", <<"A">>), Entry("a", <<>>)>>
Loop == <<Entry("a", <<"b">>), Entry("b", <<"a">>)>>
MCGenes == {Chain, Diamond, Respelled, Loop}

Base == [caps |-> {"http"}, Agentic |-> FALSE, Validators |-> {"a", "b", ""},
         BudgetUSD |-> 0, Threshold |-> 95, StallLimit |-> 3]
Metered == {[Base EXCEPT !.BudgetUSD = budget] : budget \in {2, 5}}
Rpc == [Base EXCEPT !.caps = {"grpc", "exec"}]
Tui == [Base EXCEPT !.caps = {"tui"}, !.Validators = {"b"}]
Cli == [Base EXCEPT !.caps = {"exec"}, !.Validators = {"", "c"}]
Skipped == {[Base EXCEPT !.Agentic = TRUE], [Base EXCEPT !.Validators = {}]}

MCOptions == {Base, Rpc, Tui, Cli} \cup Metered \cup Skipped
BestOptions == {[Base EXCEPT !.Validators = {"a"}]}
BestGenes == {Chain}
=============================================================================
