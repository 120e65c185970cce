----------------------------- MODULE MCAttractor -----------------------------
(***************************************************************************)
(* Instances of Attractor for TLC: the option sets, two scenarios (one of  *)
(* tier 1, one of tier 3 with three times the weight) and scores on both   *)
(* sides of the pass threshold (80), of the convergence threshold (95) and *)
(* of the rounding to whole points (94.8 is shown as 95).                  *)
(***************************************************************************)
EXTENDS Attractor

MCTier == <<1, 3>>
MCWeight == <<1, 3>>

BaseOptions ==
  [caps |-> {"http"}, PatchMode |-> FALSE, BlockOnRegression |-> FALSE,
   Agentic |-> FALSE, Stratified |-> FALSE, TestCommand |-> FALSE, Frugal |-> FALSE,
   BudgetUSD |-> 0, Threshold |-> 950, MaxIterations |-> 3, StallLimit |-> 3]

\* An HTTP service with everything the standard path can do, and one that has
\* to live within a budget.
Web == [BaseOptions EXCEPT !.PatchMode = TRUE, !.TestCommand = TRUE, !.MaxIterations = 4]
Metered == [BaseOptions EXCEPT !.PatchMode = TRUE, !.BudgetUSD = 8, !.StallLimit = 4,
                               !.MaxIterations = 4]
\* A gRPC service (and HTTP on the same container), frugal.
Rpc == [BaseOptions EXCEPT !.caps = {"grpc"}, !.Frugal = TRUE, !.TestCommand = TRUE,
                           !.StallLimit = 2]
\* Three iterations under a threshold that scenario 2 reaches alone, so that one may reach it and
\* be held back for scenario 1.
RpcWeb == [Rpc EXCEPT !.caps = {"grpc", "http", "exec"}, !.BlockOnRegression = TRUE,
                      !.Threshold = 700]
\* A command line program: no service container, long enough to escalate to
\* the primary model and back.
Cli == [BaseOptions EXCEPT !.caps = {"exec"}, !.Frugal = TRUE, !.MaxIterations = 8]
\* A terminal program validated tier by tier in patch mode.
Tui == [BaseOptions EXCEPT !.caps = {"tui"}, !.Stratified = TRUE, !.PatchMode = TRUE,
                           !.MaxIterations = 6]
\* The agentic path, with a session next to the service.
Agent == [BaseOptions EXCEPT !.caps = {"http", "exec"}, !.Agentic = TRUE,
                             !.BlockOnRegression = TRUE, !.PatchMode = TRUE,
                             !.BudgetUSD = 2]

\* An HTTP service that must not converge over a regression.
Guarded == [BaseOptions EXCEPT !.BlockOnRegression = TRUE]

WebOptions == {Web}
TuiOptions == {Tui}
GuardedOptions == {Guarded}
LoopOptions == {Web, Metered, Rpc, RpcWeb, Cli, Tui, Agent}
=============================================================================
